\* A transfer decided before midnight and applied after it.
CONSTANTS
    Runtimes = {gui}
    Clis = {}
    NoProc = NoProc
    Digests = {d1}
    NoDigest = NoDigest
    DailyLimit = 1
    MinInterval = 1
    MaxAge = 2
    MaxTime = 2
    MaxDay = 1
SPECIFICATION Spec
INVARIANT DocumentedDayCap
CHECK_DEADLOCK FALSE
