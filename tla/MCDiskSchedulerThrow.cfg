CONSTANTS
    Clients = {c1, c2}
    Pages = {p1}
    Data = {zero, d1}
    ZeroPage = zero
    Owner = owner
    Worker = worker
    Nobody = nobody
    ManagerThrows = TRUE

SPECIFICATION Spec
INVARIANT FailureReachesCaller
