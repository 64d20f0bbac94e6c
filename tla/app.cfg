\* Up to three changes of the settings, three worker slots; an output cap of 2
\* that is read in pieces of up to 3; a queue of one line, two of them noise.
CONSTANTS
    MaxWorkers = 3
    MaxEdits = 3
    Cap = 2
    ReadSize = 3
    MaxBytes = 5
    QueueMax = 1
    MaxLines = 4
    MaxNoise = 2
SPECIFICATION AppSpec
INVARIANTS TypeOK  AnswersAreWhole
PROPERTIES  ChangeIsServed CallsEnd
CHECK_DEADLOCK FALSE
