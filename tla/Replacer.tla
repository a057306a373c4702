------------------------------ MODULE Replacer ------------------------------
(***************************************************************************)
(* What a page replacer promises the buffer pool, whatever it remembers of *)
(* the accesses: only an evictable frame is ever given up, a frame with    *)
(* fewer than K accesses before one with more, and a call that finds no    *)
(* victim changes nothing.                                                 *)
(***************************************************************************)
EXTENDS ReplacerOps

VARIABLES
    nodes,          \* per frame: accesses counted up to K, evictable or not
    evicted         \* what the last call of evict() returned

vars == <<nodes, evicted>>

TypeOK == /\ nodes \in [Frames -> Node]
          /\ evicted \in Frames \cup {NoFrame}

Init == /\ nodes = [f \in Frames |-> NoNode]
        /\ evicted = NoFrame

Access(f) == nodes' = RecordAccess(nodes, f) /\ UNCHANGED evicted

Mark(f, b) == nodes' = SetEvictable(nodes, f, b) /\ UNCHANGED evicted

Drop(f) == nodes' = Remove(nodes, f) /\ UNCHANGED evicted

Evict == \/ /\ Victims(nodes) = {}
            /\ evicted' = NoFrame
            /\ UNCHANGED nodes
         \/ \E f \in Victims(nodes) :
               /\ evicted' = f
               /\ nodes' = Erase(nodes, f)

Next == \/ Evict
        \/ \E f \in Frames :
              \/ Access(f)
              \/ Drop(f)
              \/ \E b \in BOOLEAN : Mark(f, b)

Spec == Init /\ [][Next]_vars
=============================================================================
