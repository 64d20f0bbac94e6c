------------------------------ MODULE MCPolling ------------------------------
(***************************************************************************)
(* What one poll brings together, for TLC: whose limits are fetched and    *)
(* what character they show, the collectors of local usage, the Cursor     *)
(* files, the service that caches them, and the reports, the prices and    *)
(* the exchange rate made from them.  These modules share no variable, so  *)
(* each behaviour looks at one of them (part), and the others stay where   *)
(* they start.                                                             *)
(***************************************************************************)
EXTENDS SeverityPoll, FiniteSets

CONSTANTS Users, NoUser, NoLogin, MaxChanges, MaxPolls,      \* AccountLogins
          HistoryFiles, Threads, NoThread, Responses,        \* CodexScan
          CodexRecords, CodexRows, CodexTime, CodexDamage,
          Transcripts, Messages, Steps, ClaudeRecords,       \* ClaudeScan
          ClaudeRows, ClaudeTime,
          Dirs, IdOf(_), Invalid, Declaring, Scanners,       \* GrokScan
          MaxSessions, MaxDirs, MaxTurns, MaxScans,
          LastDay, MonthStarts, Models, Amounts, Lookback,   \* PeriodReport
          MinDays, MinMonths, ComparisonDays, MaxUses,
          Datasets, CursorDatasets, ProviderOf(_),           \* UsageLedger
          GrokAccounts, LedgerModels, Rates, Mixes, Reported,
          Won, MaxRecords,
          Processes, RateAge, FxDays,                        \* FxRate
          LocalKeys, CursorKeys, CacheTtl, CacheSize,        \* UsageService
          ServiceTime, MaxUsed,
          Cursors, NoCursor, SyncTtl, SourcesTime, MaxDrops  \* CursorSources

VARIABLES part,
  provider, envKey, history_, login, settings, config, due, retry, cards, found, chosen,
  still, changes, polls,
  logs, count, codexClock, truth, masked,
  transcripts, counters, claudeClock,
  dir, print, entries, scans, scanPc, queue, noted, asked, kept, issues, report, before,
  spent, seen, today, uses,
  fxDay, published, fxFile, fxPc, quote,
  observed, damaged,
  serviceNow, used, answer, cache, load, result,
  sourcesNow, tokenLogin, bound, source, gui, files, lastSync, lastGood, syncing, drops,
  listed

loginVars   == <<provider, envKey, history_, login, settings, config, due, retry, cards,
                 found, chosen, still, changes, polls>>
codexVars   == <<logs, count, codexClock, truth, masked>>
claudeVars  == <<transcripts, counters, claudeClock>>
grokVars    == <<dir, print, entries, scans, scanPc, queue, noted, asked, kept, issues,
                 report, before>>
reportVars  == <<spent, seen, today, uses>>
fxVars      == <<fxDay, published, fxFile, fxPc, quote>>
ledgerVars  == <<observed, damaged>>
serviceVars == <<serviceNow, used, answer, cache, load, result>>
sourcesVars == <<sourcesNow, tokenLogin, bound, source, gui, files, lastSync, lastGood,
                 syncing, drops, listed>>

-----------------------------------------------------------------------------
(* The modules on small instances.                                         *)

Logins == INSTANCE AccountLogins WITH
  history <- history_, todo <- due, shown <- cards

MCResponses == {[in |-> 2, cached |-> 0, out |-> 0], [in |-> 2, cached |-> 2, out |-> 1]}
Codex == INSTANCE CodexScan WITH
  Paths <- HistoryFiles, MaxRecords <- CodexRecords, MaxRows <- CodexRows,
  MaxTime <- CodexTime, MaxDamage <- CodexDamage, file <- logs, clock <- codexClock

ASSUME HistoryAssumption == Codex!CodexAssumption

MCSteps == {[in |-> 1, write |-> 0, out |-> 0], [in |-> 0, write |-> 1, out |-> 1]}
Claude == INSTANCE ClaudeScan WITH
  Paths <- Transcripts, MaxRecords <- ClaudeRecords, MaxRows <- ClaudeRows,
  MaxTime <- ClaudeTime, file <- transcripts, used <- counters, clock <- claudeClock

ASSUME TranscriptsAssumption == Claude!ClaudeAssumption

\* The first and the last directory hold the same session, the second an id
\* that could be taken for an option; the first two declare their turns.
MCIdOf(d) == <<"s1", "-bad", "s1">>[d]
Grok == INSTANCE GrokScan WITH
  cache <- entries, pc <- scanPc, todo <- queue, found <- kept

ASSUME ScanAssumption == Grok!GrokAssumption

\* Tokens without detail, tokens with some of it, none.
MCAmounts == {[in |-> 1, write |-> 0, short |-> 0, long |-> 0],
              [in |-> 2, write |-> 2, short |-> 1, long |-> 1],
              [in |-> 0, write |-> 0, short |-> 0, long |-> 0]}
Report == INSTANCE PeriodReport WITH used <- spent

ASSUME ReportAssumption == Report!ReportAssumption

Fx == INSTANCE FxRate WITH
  Manual <- 0, StaleAfter <- RateAge, LastDay <- FxDays,
  today <- fxDay, cache <- fxFile, pc <- fxPc

ASSUME RateAssumption == Fx!AgeAssumption

\* Two accounts of one provider and one of Cursor; a model with every rate but
\* that of short cache writes, one without those of the cache, one without any.
MCProviderOf(a) == IF a = "cu" THEN "cursor" ELSE "codex"
MCRates ==
  [m1 |-> [in |-> 2, read |-> 1, write |-> 3, short |-> -1, long |-> 4, out |-> 5],
   m2 |-> [in |-> 2, read |-> -1, write |-> -1, short |-> 3, long |-> 4, out |-> 5]]
Mix(in, mixed, read, write, short, out) ==
  [in |-> in, mixed |-> mixed, read |-> read, write |-> write, short |-> short, long |-> 0,
   out |-> out]
MCMixes == {Mix(1, 0, 0, 0, 0, 1), Mix(0, 1, 0, 0, 0, 0), Mix(0, 0, 1, 2, 1, 0)}
MCReported == {-1, 2}

Ledger == INSTANCE UsageLedger WITH
  Accounts <- Datasets, Cursor <- CursorDatasets, Models <- LedgerModels

ASSUME LedgerAssumption == Ledger!LedgerAssumption

Service == INSTANCE UsageService WITH
  Days <- {1, 2}, Today <- 2,
  Ttl <- CacheTtl, MaxEntries <- CacheSize, LastTime <- ServiceTime,
  now <- serviceNow, kept <- answer

Sources == INSTANCE CursorSources WITH
  Accounts <- Cursors, NoAccount <- NoCursor, Ttl <- SyncTtl, LastTime <- SourcesTime,
  now <- sourcesNow, login <- tokenLogin, shown <- listed

ASSUME CursorsAssumption == Sources!SourcesAssumption

-----------------------------------------------------------------------------
PollingInit ==
  /\ part \in {"character", "logins", "codex", "claude", "grok", "report", "rate",
               "ledger", "service", "cursor"}
  /\ Init /\ Logins!AccountInit /\ Codex!CodexInit /\ Claude!Init /\ Grok!Init
  /\ Report!ReportInit /\ Fx!FxInit /\ Ledger!LedgerInit /\ Service!ServiceInit
  /\ Sources!SourcesInit
  \* What the modules leave open is open for the part that is looked at.
  /\ part # "logins" => provider = "codex" /\ ~envKey /\ ~history_
  /\ part # "cursor" => bound = tokenLogin /\ tokenLogin = CHOOSE c \in Cursors : TRUE

PollingNext ==
  \/ /\ part = "character" /\ Next
     /\ UNCHANGED <<part, loginVars, codexVars, claudeVars, grokVars, reportVars, fxVars,
                    ledgerVars, serviceVars, sourcesVars>>
  \/ /\ part = "logins" /\ Logins!AccountNext
     /\ UNCHANGED <<part, vars, codexVars, claudeVars, grokVars, reportVars, fxVars,
                    ledgerVars, serviceVars, sourcesVars>>
  \/ /\ part = "codex" /\ Codex!CodexNext
     /\ UNCHANGED <<part, vars, loginVars, claudeVars, grokVars, reportVars, fxVars,
                    ledgerVars, serviceVars, sourcesVars>>
  \/ /\ part = "claude" /\ Claude!Next
     /\ UNCHANGED <<part, vars, loginVars, codexVars, grokVars, reportVars, fxVars,
                    ledgerVars, serviceVars, sourcesVars>>
  \/ /\ part = "grok" /\ Grok!Next
     /\ UNCHANGED <<part, vars, loginVars, codexVars, claudeVars, reportVars, fxVars,
                    ledgerVars, serviceVars, sourcesVars>>
  \/ /\ part = "report" /\ Report!ReportNext
     /\ UNCHANGED <<part, vars, loginVars, codexVars, claudeVars, grokVars, fxVars,
                    ledgerVars, serviceVars, sourcesVars>>
  \/ /\ part = "rate" /\ Fx!FxNext
     /\ UNCHANGED <<part, vars, loginVars, codexVars, claudeVars, grokVars, reportVars,
                    ledgerVars, serviceVars, sourcesVars>>
  \/ /\ part = "ledger" /\ Ledger!LedgerNext
     /\ UNCHANGED <<part, vars, loginVars, codexVars, claudeVars, grokVars, reportVars,
                    fxVars, serviceVars, sourcesVars>>
  \/ /\ part = "service" /\ Service!ServiceNext
     /\ UNCHANGED <<part, vars, loginVars, codexVars, claudeVars, grokVars, reportVars,
                    fxVars, ledgerVars, sourcesVars>>
  \/ /\ part = "cursor" /\ Sources!SourcesNext
     /\ UNCHANGED <<part, vars, loginVars, codexVars, claudeVars, grokVars, reportVars,
                    fxVars, ledgerVars, serviceVars>>

pollingVars == <<part, vars, loginVars, codexVars, claudeVars, grokVars, reportVars, fxVars,
                 ledgerVars, serviceVars, sourcesVars>>

PollingSpec == PollingInit /\ [][PollingNext]_pollingVars

-----------------------------------------------------------------------------
\* A card shows the limits of the login it is named after, and no two cards
\* show the same one (AccountLogins).
OwnDistinctLimits == part = "logins" => Logins!OwnLimits /\ Logins!CardsAreDistinct

\* Limits are fetched with a subscription only (AccountLogins).
QuotaNeedsSubscription == Logins!QuotaNeedsSubscription

\* Logs that were not damaged are counted to the token, a copy of a file adds
\* nothing, and what is not exact is marked (CodexScan, ClaudeScan).
LogsAreExact ==
  /\ part = "codex" => Codex!CodexExact /\ Codex!CodexCopiesAddNothing
  /\ part = "claude" => Claude!ClaudeExact

\* What a scan of Grok's sessions leaves out or could not read is reported
\* (GrokScan).
GrokInventoryHonest == part = "grok" => Grok!GrokInventoryHonest

\* The periods of a report hold every token once, its reaction is that of the
\* change they show, and an estimate of a month is as fair as whole tokens
\* allow (PeriodReport).
ReportIsExact ==
  part = "report" => /\ Report!NothingLostNothingInvented
                     /\ Report!ReactionIsExact
                     /\ Report!MidnightConserves
                     /\ Report!EstimateIsFair

\* A price stands for the whole of what was used or is not given at all, the
\* totals it is made from agree (UsageLedger), and the rate that converts it
\* says how old it is (FxRate).
PricesAreHonest ==
  /\ part = "ledger" => Ledger!TotalsAgree /\ Ledger!PriceIsWhole
  /\ part = "rate" => Fx!QuoteHonest

\* Usage that is not marked as partial is recent, and a price is given for
\* confirmed usage only (UsageService).
UnmarkedIsConfirmed ==
  part = "service" => Service!UnmarkedIsRecent /\ Service!PricedIsConfirmed

\* An imported CSV is counted for the account it was imported for
\* (CursorSources).
OwnCsvUsage == part = "cursor" => Sources!OwnCsvUsage

\* A sync that succeeded is not repeated within its time to live
\* (CursorSources).
GoodSyncHolds == Sources!GoodSyncHolds
=============================================================================
