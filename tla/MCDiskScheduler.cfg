CONSTANTS
    Clients = {c1, c2}
    Pages = {p1, p2}
    Data = {zero, d1}
    ZeroPage = zero
    Owner = owner
    Worker = worker
    Nobody = nobody
    ManagerThrows = TRUE

SPECIFICATION FairSpec
INVARIANTS
    TypeOK
    NoLostWakeup
    EachRequestInOnePlace
    NoBrokenPromise
PROPERTIES
    ImplementsDiskService
    EveryRequestAnswered
    DestructorReturns
