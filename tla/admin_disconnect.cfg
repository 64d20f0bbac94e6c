SPECIFICATION Spec
CONSTANTS
    Accounts = {a1}
    Poll = poll
    Connect = connect
    Ui = ui
    Clis = {cli}
    Free = free
    Interval = 1
    MaxTime = 1
    MaxSyncs = 2
CHECK_DEADLOCK FALSE
PROPERTY DisconnectClearsGate
