------------------------------ MODULE PagePool ------------------------------
(***************************************************************************)
(* What the B+ tree wants of the buffer pool.  A page has the data last    *)
(* written to it, and the number of pins it was given; a page stays where  *)
(* it is while it is pinned or dirty, except that a request may flush one  *)
(* dirty page that nobody has pinned.  A request may fail or flush, but    *)
(* not one for a page that is in memory for one of these reasons; nor does *)
(* it fail while there is a dirty page to flush.                           *)
(***************************************************************************)
EXTENDS Naturals

CONSTANTS
    Pages,          \* page ids
    Data,           \* what a page may hold
    ZeroPage        \* what a page holds before it is written

VARIABLES
    contents,       \* page -> data
    dirty,          \* the pages with data the disk does not have
    pins,           \* page -> pins
    failed          \* whether the last call was a request that failed

vars == <<contents, dirty, pins, failed>>

Init == /\ contents = [p \in Pages |-> ZeroPage]
        /\ dirty = {}
        /\ pins = [p \in Pages |-> 0]
        /\ failed = FALSE

\* The dirty pages a request may flush.
Flushable == {p \in dirty : pins[p] = 0}

InMemory(p) == p \in dirty \/ pins[p] > 0

Request(p, should_pin) ==
    /\ \/ dirty' = dirty
       \/ ~InMemory(p) /\ \E q \in Flushable : dirty' = dirty \ {q}
    /\ pins' = [pins EXCEPT ![p] = IF should_pin THEN @ + 1 ELSE @]
    /\ failed' = FALSE
    /\ UNCHANGED contents

Fail(p) == /\ ~InMemory(p)
           /\ Flushable = {}
           /\ failed' = TRUE
           /\ UNCHANGED <<contents, dirty, pins>>

Write(p, d) == /\ contents' = [contents EXCEPT ![p] = d]
               /\ dirty' = dirty \cup {p}
               /\ failed' = FALSE
               /\ UNCHANGED pins

Unpin(p) == /\ pins[p] > 0
            /\ pins' = [pins EXCEPT ![p] = @ - 1]
            /\ failed' = FALSE
            /\ UNCHANGED <<contents, dirty>>

\* Flushed pages leave memory with whatever pins they have.
Flush(ps) == /\ dirty' = dirty \ ps
             /\ pins' = [p \in Pages |-> IF p \in ps THEN 0 ELSE pins[p]]
             /\ failed' = FALSE
             /\ UNCHANGED contents

Next == \/ \E p \in Pages : \/ \E should_pin \in BOOLEAN : Request(p, should_pin)
                            \/ Fail(p)
                            \/ Unpin(p)
                            \/ \E d \in Data : Write(p, d)
        \/ \E ps \in {dirty, {}} \cup {{p} : p \in dirty} : Flush(ps)

Spec == Init /\ [][Next]_vars
=============================================================================
