-------------------------------- MODULE LruK --------------------------------
(***************************************************************************)
(* The LRU-K replacer, hivedb::lru_k (src/src/buffer_pool/lru_k.cpp).      *)
(*                                                                         *)
(* Each frame that was accessed has a history of timestamps and a flag     *)
(* saying whether it may be evicted.  One action per member function; the  *)
(* argument is always below m_size, since the range checks only throw.     *)
(* The map is a total function in which an absent frame has an empty       *)
(* history (a node in the map always has at least one timestamp).          *)
(***************************************************************************)
EXTENDS ReplacerOps, Sequences, FiniteSets

CONSTANT MaxTimestamp       \* bound: accesses recorded in a behaviour

ASSUME LruKAssumption == MaxTimestamp \in Nat

VARIABLES
    m_current_nodes,
    m_current_timestamp,
    evicted                 \* what the last call of evict() returned

vars == <<m_current_nodes, m_current_timestamp, evicted>>

Absent == [history |-> <<>>, is_evictable |-> FALSE]

IsPresent(f) == m_current_nodes[f].history # <<>>

Init == /\ m_current_nodes = [f \in Frames |-> Absent]
        /\ m_current_timestamp = 0
        /\ evicted = NoFrame
-----------------------------------------------------------------------------
\* A mutation of recordAccess: the first access of a frame is not counted.
SameTimestampRecordAccess(f) ==
    /\ m_current_timestamp < MaxTimestamp
    /\ m_current_nodes' = [m_current_nodes EXCEPT ![f] =
            [history |-> Append(@.history, m_current_timestamp),
             is_evictable |-> IF IsPresent(f) THEN @.is_evictable ELSE TRUE]]
    /\ m_current_timestamp' =
            IF IsPresent(f) THEN m_current_timestamp + 1
                            ELSE m_current_timestamp
    /\ UNCHANGED evicted

recordAccess(f) ==
    /\ m_current_timestamp < MaxTimestamp
    /\ m_current_nodes' = [m_current_nodes EXCEPT ![f] =
            [history |-> Append(@.history, m_current_timestamp),
             is_evictable |-> IF IsPresent(f) THEN @.is_evictable ELSE TRUE]]
    /\ m_current_timestamp' = m_current_timestamp + 1
    /\ UNCHANGED evicted

\* A mutation of setEvictable: it enters a frame that is not in the map.
UncheckedSetEvictable(f, b) ==
    /\ m_current_nodes' = [m_current_nodes EXCEPT ![f].is_evictable = b]
    /\ UNCHANGED <<m_current_timestamp, evicted>>

setEvictable(f, b) ==
    /\ m_current_nodes' = [m_current_nodes EXCEPT ![f] =
            IF IsPresent(f) THEN [history |-> @.history, is_evictable |-> b]
                            ELSE @]
    /\ UNCHANGED <<m_current_timestamp, evicted>>

remove(f) ==
    /\ m_current_nodes' = [m_current_nodes EXCEPT ![f] =
            IF @.is_evictable THEN Absent ELSE @]
    /\ UNCHANGED <<m_current_timestamp, evicted>>
-----------------------------------------------------------------------------
EvictableFrames == {f \in Frames : m_current_nodes[f].is_evictable}

\* A mutation of ShortFrames: K accesses are still too few.
UpToKShortFrames ==
    {f \in EvictableFrames : Len(m_current_nodes[f].history) =< K}

ShortFrames ==
    {f \in EvictableFrames : Len(m_current_nodes[f].history) < K}

\* A mutation of DistanceIndex: one too far.
OneFurtherDistanceIndex(f) == Len(m_current_nodes[f].history) + 3 - K

\* The position the distance is measured from.  The code indexes the vector,
\* which starts at 0, with size + 1 - k.
DistanceIndex(f) == Len(m_current_nodes[f].history) + 2 - K

IndexInHistory(f) == DistanceIndex(f) \in DOMAIN m_current_nodes[f].history

Distance(f) ==
    m_current_timestamp - m_current_nodes[f].history[DistanceIndex(f)]

\* The choice evict() makes when no evictable frame has a short history.  An
\* index outside the vector reads an unspecified value, so that the comparison
\* may end with any of the frames, or with none.
Farthest ==
    IF \A f \in EvictableFrames : IndexInHistory(f)
    THEN {f \in EvictableFrames :
            \A g \in EvictableFrames : Distance(g) =< Distance(f)}
    ELSE EvictableFrames \cup {NoFrame}

Give(f) ==
    /\ evicted' = f
    /\ m_current_nodes' =
            IF f = NoFrame THEN m_current_nodes
                           ELSE [m_current_nodes EXCEPT ![f] = Absent]
    /\ UNCHANGED m_current_timestamp

evict ==
    \/ /\ EvictableFrames = {}
       /\ Give(NoFrame)
    \/ \E f \in ShortFrames :
          /\ \A g \in ShortFrames : f =< g
          /\ Give(f)
    \/ /\ EvictableFrames # {}
       /\ ShortFrames = {}
       /\ \E f \in Farthest : Give(f)

Next == \/ evict
        \/ \E f \in Frames :
              \/ recordAccess(f)
              \/ remove(f)
              \/ \E b \in BOOLEAN : setEvictable(f, b)

Spec == Init /\ [][Next]_vars
-----------------------------------------------------------------------------
\* Types, and the normal form of an absent frame: it is never evictable, which
\* is what lets size() (lru_k.cpp:105-110) count flags without looking at
\* histories.
TypeOK ==
    /\ m_current_nodes \in
         [Frames -> [history : Seq(0 .. MaxTimestamp), is_evictable : BOOLEAN]]
    /\ m_current_timestamp \in 0 .. MaxTimestamp
    /\ evicted \in Frames \cup {NoFrame}
    /\ \A f \in Frames : m_current_nodes[f].is_evictable => IsPresent(f)

\* The positions of the history of f, its accesses from the first to the last.
Accesses(f) == 1 .. Len(m_current_nodes[f].history)

At(f, i) == m_current_nodes[f].history[i]

InThePast(f) == \A i \in Accesses(f) : At(f, i) < m_current_timestamp

Ordered(f) == \A i \in Accesses(f) : \A j \in Accesses(f) :
                 i < j => At(f, i) < At(f, j)

Apart(f, g) == \A i \in Accesses(f) : \A j \in Accesses(g) :
                  At(f, i) = At(g, j) => f = g /\ i = j

\* No two accesses, of one frame or of two, carry the same timestamp, each
\* history is in the order of the accesses, and none is in the future: so the
\* comparison of distances in evict() (lru_k.cpp:76-80) never meets a tie nor
\* a distance of zero, and its result does not depend on the order of the map.
TimestampsFresh ==
    \A f, g \in Frames : InThePast(f) /\ Ordered(f) /\ Apart(f, g)

\* Whenever evict() measures distances (no evictable frame has a short
\* history), the index size + 1 - k of lru_k.cpp:73-75 lies inside the history
\* of every frame it looks at.
DistanceIndexInHistory ==
    ShortFrames = {} => \A f \in EvictableFrames : IndexInHistory(f)

\* tests/buffer_pool/lru_k.cpp:57 expects the frame with the maximum backward
\* k-distance: the one whose K-th most recent access is the oldest.
KthAccess(f) == LET h == m_current_nodes[f].history IN h[Len(h) + 1 - K]

LargestKDistanceGoesFirst ==
    [][evict /\ ShortFrames = {} /\ EvictableFrames # {}
       => \A g \in EvictableFrames : KthAccess(evicted') =< KthAccess(g)]_vars
-----------------------------------------------------------------------------
\* The replacer as the buffer pool sees it: histories become counts up to K.
Counted == [f \in Frames |->
    [hits |-> IF Len(m_current_nodes[f].history) < K
              THEN Len(m_current_nodes[f].history) ELSE K,
     is_evictable |-> m_current_nodes[f].is_evictable]]

Abstract == INSTANCE Replacer WITH nodes <- Counted

\* lru_k implements Replacer: with histories counted up to K every call of it
\* is a call of the abstract replacer with the same result (lru_k.cpp:18-103).
ImplementsReplacer == Abstract!Spec
=============================================================================
