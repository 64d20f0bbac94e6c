\* A dialog is open when the next poll is due.
CONSTANTS
    MaxWorkers = 2
    MaxEdits = 0
SPECIFICATION Spec
PROPERTY NextTaskAfterFinished
CHECK_DEADLOCK FALSE
