CONSTANTS
    MaxFrames = 2
    K = 2
    Pages = {0, 1, 2}
    Data = {zero, d1}
    ZeroPage = zero
    Clients = {tree}
    KnownPages = {}
    MaxPins = 2

SPECIFICATION Spec
INVARIANT FailsOnlyWhenAllPinned
