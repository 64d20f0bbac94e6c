\* Two scans, of one process or of two.
CONSTANTS
    Dirs = {1, 2}
    s1 = s1
    s2 = s2
    IdOf <- MCIdOf
    Invalid = {}
    Declaring = {1}
    Scanners = {g, c}
    MaxSessions = 1
    MaxDirs = 2
    MaxTurns = 1
    MaxScans = 2
SPECIFICATION Spec
INVARIANT MalformedTurnIsPartial
CHECK_DEADLOCK FALSE
