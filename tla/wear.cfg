\* A long-lived runtime and a CLI command share the wear row over two dates.
CONSTANTS
    Runtimes = {gui}
    Clis = {cli}
    NoProc = NoProc
    Digests = {d1}
    NoDigest = NoDigest
    DailyLimit = 2
    MinInterval = 2
    MaxAge = 1
    MaxTime = 3
    MaxDay = 1
SPECIFICATION FairSpec
INVARIANTS TypeOK MutualExclusion DailyCap AppliesNearCap RowRemembers 
PROPERTIES CooldownKept  ImplementsFlashCap LockIsReturned
CHECK_DEADLOCK FALSE
