\* Two users who sign in and out while one poll runs.
CONSTANTS
    Users = {u1, u2}
    NoUser = NoUser
    NoLogin = NoLogin
    MaxChanges = 3
    MaxPolls = 1
SPECIFICATION AccountSpec
INVARIANT OnlyEnabledLimits
CHECK_DEADLOCK FALSE
