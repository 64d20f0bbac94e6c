SPECIFICATION Spec
CONSTANTS
    Accounts = {a1, a2}
    Poll = poll
    Connect = connect
    Ui = ui
    Clis = {cli}
    Free = free
    Interval = 1
    MaxTime = 1
    MaxSyncs = 3
SYMMETRY Symmetry
CHECK_DEADLOCK FALSE
INVARIANT TypeOK
PROPERTIES OthersKept HourlyGate KnownGoodKept 
