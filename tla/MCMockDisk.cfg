CONSTANTS
    MaxPages = 5
    Data = {zero, d1, d2}
    ZeroPage = zero
    Growth = 2

SPECIFICATION Spec
INVARIANT IndexInBounds
PROPERTY ImplementsPageStore
