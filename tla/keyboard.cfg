\* Two payloads of different length; two transfers in five handle values; the
\* playlist's numbers are in the module.
CONSTANTS
    Contents = {short, long}
    short = short
    long = long
    NoContent = NoContent
    Pages <- MCPages
    MaxWrites = 2
    Handles = {h1, h2, h3, h4, h5}
    NoHandle = NoHandle
    Ios = {w1, w2}
    NoIo = NoIo
SPECIFICATION KeyboardSpec
INVARIANTS TypesOK FlashFollowsSessions IoIsSafe SettingsPlay
PROPERTIES ImplementsTransfer TransfersEnd
CHECK_DEADLOCK FALSE
