CONSTANTS
    Pages = {0, 1, 2}
    Data = {zero, d1, d2}
    ZeroPage = zero
    InitialPages = 1
    MaxOpens = 1
    MaxFree = 2

SPECIFICATION Spec
INVARIANT ReadsReturnLastWrite

\* The file is opened a bounded number of times.
CHECK_DEADLOCK FALSE
