------------------------------ MODULE MockDisk ------------------------------
(***************************************************************************)
(* The disk of the tests, hivedb::disk_manager_mock                        *)
(* (src/src/disk/disk_manager_mock.cpp): a vector of pages that grows by a *)
(* fixed number of pages when an id lies beyond its end - once, so that it *)
(* reaches the id only if ids come without large gaps.  They do: an id is  *)
(* used for the first time when buffer_pool::allocate_new_page, which      *)
(* counts up, has just handed it out.                                      *)
(***************************************************************************)
EXTENDS Integers, Sequences

CONSTANTS
    MaxPages,       \* bound: page ids are 0 .. MaxPages - 1
    Data,           \* what a page may hold
    ZeroPage,       \* what a new element of the vector holds
    Growth          \* pages added when the vector grows (6)

ASSUME MockDiskAssumption == /\ MaxPages \in Nat
                             /\ ZeroPage \in Data
                             /\ Growth \in Nat \ {0}

VARIABLES
    m_mock_file,    \* the vector
    used,           \* ids below this were used
    last            \* the last access: its page and the data read or written

vars == <<m_mock_file, used, last>>

Pages == 0 .. MaxPages - 1

Init == /\ m_mock_file = <<>>
        /\ used = 0
        /\ last = [page |-> 0, data |-> ZeroPage, in_bounds |-> TRUE]

\* Mutations of Grown: an id equal to the size does not make the vector grow; a
\* vector that grows starts afresh.
LateGrown(p) ==
    IF p > Len(m_mock_file)
    THEN m_mock_file \o [i \in 1 .. Growth |-> ZeroPage]
    ELSE m_mock_file

FreshGrown(p) ==
    IF p >= Len(m_mock_file)
    THEN [i \in 1 .. Len(m_mock_file) + Growth |-> ZeroPage]
    ELSE m_mock_file

\* The vector in which page p is then looked up.
Grown(p) ==
    IF p >= Len(m_mock_file)
    THEN m_mock_file \o [i \in 1 .. Growth |-> ZeroPage]
    ELSE m_mock_file

Use(p) == /\ p =< used
          /\ used' = IF p = used THEN used + 1 ELSE used

\* What an index beyond the vector finds there is any data.
read_page(p) ==
    /\ Use(p)
    /\ m_mock_file' = Grown(p)
    /\ \E d \in Data :
          /\ p < Len(Grown(p)) => d = Grown(p)[p + 1]
          /\ last' = [page |-> p, data |-> d, in_bounds |-> p < Len(Grown(p))]

write_page(p, d) ==
    /\ Use(p)
    /\ m_mock_file' = IF p < Len(Grown(p))
                      THEN [Grown(p) EXCEPT ![p + 1] = d] ELSE Grown(p)
    /\ last' = [page |-> p, data |-> d, in_bounds |-> p < Len(Grown(p))]

Next == \E p \in Pages : read_page(p) \/ \E d \in Data : write_page(p, d)

Spec == Init /\ [][Next]_vars
-----------------------------------------------------------------------------
\* The vector always reaches the page being used, although it grows only once
\* per call (disk_manager_mock.cpp:13-17 and 26-30).
IndexInBounds == last.in_bounds

Contents == [p \in Pages |-> IF p < Len(m_mock_file) THEN m_mock_file[p + 1]
                                                     ELSE ZeroPage]

Store == INSTANCE PageStore WITH contents <- Contents

\* The mock is a page store: growing the vector changes no page, a write
\* changes one (disk_manager_mock.cpp:8-32).
ImplementsPageStore == Store!Spec
=============================================================================
