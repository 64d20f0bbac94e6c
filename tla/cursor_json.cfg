\* Two Cursor accounts, one file that the user puts into the cache directory.
CONSTANTS
    Accounts = {c1, c2}
    NoAccount = NoAccount
    Ttl = 1
    LastTime = 2
    MaxDrops = 1
SPECIFICATION SourcesSpec
INVARIANT OnlyAttributedUsage
CHECK_DEADLOCK FALSE
