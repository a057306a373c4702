CONSTANTS
    Keys = {1, 2, 3, 4, 5, 6, 7, 8, 9, 10, 11, 12, 13, 14, 15, 16, 17, 18}
    RecordOf <- MCRecordOf
    Missing = 0
    Capacities <- MCCapacities
    MaxPages = 15
    MaxFailures = 1
    MaxLeaks = 1
    Window = 1

SPECIFICATION Spec
INVARIANTS
    TypeOK
    TreeShape
    Occupancy
    InnerPinsAreQueued
    OnlyInnerSplitsAbort
    InsertReturnsTrue
    HeldFramesArePinned
PROPERTY ImplementsDictionary

\* A failed assertion ends the process, and keys and pages run out.
CHECK_DEADLOCK FALSE
