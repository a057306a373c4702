CONSTANTS
    Pages = {0, 1, 2}
    Data = {zero, d1}
    ZeroPage = zero
    InitialPages = 1
    MaxOpens = 2
    MaxFree = 1

SPECIFICATION Spec
INVARIANTS
    OffsetsInFile
    StreamStaysGood
PROPERTY ReadBack

\* The file is opened a bounded number of times.
CHECK_DEADLOCK FALSE
