------------------------------ MODULE PageStore ------------------------------
(***************************************************************************)
(* What the storage engine wants of the buffer pool: a page has the data   *)
(* last written to it.  Which pages are in memory, which frame holds them, *)
(* and what is evicted or flushed when is not observable.                  *)
(***************************************************************************)
CONSTANTS
    Pages,          \* page ids
    Data,           \* what a page may hold
    ZeroPage        \* what a page holds before it is written

VARIABLE contents

Init == contents = [p \in Pages |-> ZeroPage]

Write(p, d) == contents' = [contents EXCEPT ![p] = d]

Next == \E p \in Pages, d \in Data : Write(p, d)

Spec == Init /\ [][Next]_contents
=============================================================================
