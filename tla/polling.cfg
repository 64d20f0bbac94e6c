\* Months of three days, the last one of two, and a lookback of two months.
\* The clocks stop after two or three steps; the sets of the other parts are in the module.
CONSTANTS
    Accounts = {a1}
    NoAccount = none
    Levels = {0, 46, 50, 75}
    Hold = 1
    MaxTime = 2
    Users = {u1, u2}
    NoUser = NoUser
    NoLogin = NoLogin
    MaxChanges = 2
    MaxPolls = 1
    Threads = {t1, t2}
    HistoryFiles = {1, 2}
    NoThread = NoThread
    Responses <- MCResponses
    CodexRecords = 6
    CodexRows = 4
    CodexTime = 3
    CodexDamage = 1
    Transcripts = {1, 2}
    Messages = {m1, m2}
    Steps <- MCSteps
    ClaudeRecords = 5
    ClaudeRows = 3
    ClaudeTime = 3
    Dirs = {1, 2, 3}
    IdOf <- MCIdOf
    Invalid = {"-bad"}
    Declaring = {1, 2}
    Scanners = {g, c}
    MaxSessions = 1
    MaxDirs = 2
    MaxTurns = 1
    MaxScans = 2
    LastDay = 8
    MonthStarts = {1, 4, 7}
    Models = {"m"}
    Amounts <- MCAmounts
    Lookback = 6
    MinDays = 2
    MinMonths = 1
    ComparisonDays = 0
    MaxUses = 3
    Datasets = {"a1", "a2", "cu"}
    CursorDatasets = {"cu"}
    ProviderOf <- MCProviderOf
    GrokAccounts = {"g"}
    LedgerModels = {"m1", "m2", "m3"}
    Rates <- MCRates
    Mixes <- MCMixes
    Reported <- MCReported
    Won = 2
    MaxRecords = 2
    Processes = {w, p}
    RateAge = 2
    FxDays = 3
    LocalKeys = {"local"}
    CursorKeys = {"cursor"}
    CacheTtl = 2
    CacheSize = 1
    ServiceTime = 3
    MaxUsed = 1
    Cursors = {c1, c2}
    NoCursor = NoCursor
    SyncTtl = 1
    SourcesTime = 2
    MaxDrops = 1
SPECIFICATION PollingSpec
INVARIANTS TypeOK NeverTooMild ResetNotLost OwnDistinctLimits   ReportIsExact PricesAreHonest UnmarkedIsConfirmed OwnCsvUsage
PROPERTIES NoFlicker QuotaNeedsSubscription GoodSyncHolds
CHECK_DEADLOCK FALSE
