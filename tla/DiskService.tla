----------------------------- MODULE DiskService -----------------------------
(***************************************************************************)
(* What the threads that use a disk are promised: a request is performed   *)
(* once, on its own, some time between the moment it is made and the       *)
(* moment its future is ready; a page has the data last written to it.     *)
(***************************************************************************)
CONSTANTS
    Clients,        \* threads that make requests, one at a time
    Pages,          \* page ids
    Data,           \* what a page may hold
    ZeroPage        \* what a page holds before it is written

VARIABLES
    contents,       \* page -> data
    request,        \* client -> the request it made last
    buffer,         \* client -> the memory the request points to
    status          \* client -> how far its request is

vars == <<contents, request, buffer, status>>

Request == [type : {"read", "write"}, page : Pages]

TypeOK == /\ contents \in [Pages -> Data]
          /\ request \in [Clients -> Request]
          /\ buffer \in [Clients -> Data]
          /\ status \in [Clients -> {"idle", "pending", "performed", "ready"}]

Init == /\ contents = [p \in Pages |-> ZeroPage]
        /\ request \in [Clients -> Request]
        /\ buffer = [c \in Clients |-> ZeroPage]
        /\ status = [c \in Clients |-> "idle"]

Submit(c) ==
    /\ status[c] = "idle"
    /\ status' = [status EXCEPT ![c] = "pending"]
    /\ \E r \in Request, d \in Data :
          /\ request' = [request EXCEPT ![c] = r]
          /\ buffer' = [buffer EXCEPT ![c] = d]
    /\ UNCHANGED contents

Perform(c) ==
    /\ status[c] = "pending"
    /\ status' = [status EXCEPT ![c] = "performed"]
    /\ LET p == request[c].page
       IN  \/ /\ request[c].type = "read"
              /\ buffer' = [buffer EXCEPT ![c] = contents[p]]
              /\ UNCHANGED contents
           \/ /\ request[c].type = "write"
              /\ contents' = [contents EXCEPT ![p] = buffer[c]]
              /\ UNCHANGED buffer
    /\ UNCHANGED request

Answer(c) == /\ status[c] = "performed"
             /\ status' = [status EXCEPT ![c] = "ready"]
             /\ UNCHANGED <<contents, request, buffer>>

Return(c) == /\ status[c] = "ready"
             /\ status' = [status EXCEPT ![c] = "idle"]
             /\ UNCHANGED <<contents, request, buffer>>

Next == \E c \in Clients : Submit(c) \/ Perform(c) \/ Answer(c) \/ Return(c)

Spec == Init /\ [][Next]_vars
=============================================================================
