----------------------------- MODULE Dictionary -----------------------------
(***************************************************************************)
(* What the B+ tree promises: a record stays under the key it was inserted *)
(* with, and a search finds it.  Once the buffer pool has failed a request *)
(* a search may miss a key, but what it finds is still right.              *)
(***************************************************************************)
CONSTANTS
    Keys,           \* keys
    RecordOf,       \* key -> its record
    Missing         \* the result of a search that finds nothing

VARIABLES
    records,        \* the pairs of a key and its record
    found,          \* the key and the result of the search that just ended
    broken          \* whether a request has failed

vars == <<records, found, broken>>

Init == records = {} /\ found = <<>> /\ broken = FALSE

Insert(k) == /\ \A r \in records : r[1] # k
             /\ records' = records \cup {<<k, RecordOf[k]>>}
             /\ UNCHANGED <<found, broken>>

Find(k) ==
    LET hits == {r \in records : r[1] = k}
    IN  /\ found' \in hits \cup {m \in {<<k, Missing>>} : broken \/ hits = {}}
        /\ UNCHANGED <<records, broken>>

\* The result has been taken.
Take == found' = <<>> /\ UNCHANGED <<records, broken>>

Break == broken' = TRUE /\ UNCHANGED <<records, found>>

\* Each action is asked for only where it changes something.
Next == \/ records' # records /\ \E k \in Keys : Insert(k)
        \/ found' # found /\ \E k \in Keys : Find(k)
        \/ Take
        \/ Break

Spec == Init /\ [][Next]_vars
=============================================================================
