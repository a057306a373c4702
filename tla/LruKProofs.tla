----------------------------- MODULE LruKProofs -----------------------------
(***************************************************************************)
(* Proofs about LruK, for every number of frames, every K and every bound  *)
(* on the accesses: its types, that timestamps never tie, that evict()     *)
(* stays inside the histories when K is 2 or more, and that LruK           *)
(* implements Replacer.                                                    *)
(***************************************************************************)
EXTENDS LruK, TLAPS

\* TypeOK and TimestampsFresh are inductive together: a new timestamp differs
\* from all others because those are below the clock.
LruKInv == TypeOK /\ TimestampsFresh

USE ReplacerAssumption, LruKAssumption DEF Frames, NoFrame
-----------------------------------------------------------------------------
\* What a call may do to the map: nothing but to change one frame's node.
NodeType == [history : Seq(0 .. MaxTimestamp), is_evictable : BOOLEAN]

\* An empty map has no timestamps at all.
LEMMA InitInv == ASSUME Init PROVE LruKInv
<1>1. TypeOK
  BY DEF Init, TypeOK, Absent, IsPresent
<1>2. \A f \in Frames : Accesses(f) = {}
  BY DEF Init, Absent, Accesses
<1>3. TimestampsFresh
  BY <1>2 DEF TimestampsFresh, InThePast, Ordered, Apart
<1> QED BY <1>1, <1>3 DEF LruKInv

\* Forgetting frames, and marking frames that are present, keeps the invariant.
LEMMA SubsetInv ==
  ASSUME LruKInv,
         m_current_nodes' \in [Frames -> NodeType],
         \A f \in Frames : \/ m_current_nodes'[f].history = m_current_nodes[f].history
                           \/ m_current_nodes'[f].history = <<>>,
         \A f \in Frames : m_current_nodes'[f].is_evictable => IsPresent(f)',
         UNCHANGED m_current_timestamp,
         evicted' \in Frames \cup {NoFrame}
  PROVE  LruKInv'
<1>1. TypeOK'
  BY DEF LruKInv, TypeOK, NodeType
<1>2. ASSUME NEW f \in Frames
      PROVE  /\ Accesses(f)' \subseteq Accesses(f)
             /\ \A i \in Accesses(f)' : At(f, i)' = At(f, i)
  BY DEF Accesses, At
<1>3. TimestampsFresh'
  <2> SUFFICES ASSUME NEW f \in Frames, NEW g \in Frames
               PROVE  InThePast(f)' /\ Ordered(f)' /\ Apart(f, g)'
    BY DEF TimestampsFresh
  <2>1. InThePast(f) /\ Ordered(f) /\ Apart(f, g)
    BY DEF LruKInv, TimestampsFresh
  <2>2. InThePast(f)'
    BY <1>2, <2>1 DEF InThePast
  <2>3. Ordered(f)'
    BY <1>2, <2>1 DEF Ordered
  <2>4. Apart(f, g)'
    BY <1>2, <2>1 DEF Apart
  <2> QED BY <2>2, <2>3, <2>4
<1> QED BY <1>1, <1>3 DEF LruKInv

\* A stored timestamp is a number.
LEMMA TimestampsTyped ==
  ASSUME TypeOK
  PROVE  \A f \in Frames : /\ Len(m_current_nodes[f].history) \in Nat
                           /\ \A i \in Accesses(f) : At(f, i) \in Nat
<1> SUFFICES ASSUME NEW f \in Frames
             PROVE  /\ Len(m_current_nodes[f].history) \in Nat
                    /\ \A i \in Accesses(f) : At(f, i) \in Nat
  OBVIOUS
<1>1. m_current_nodes[f].history \in Seq(0 .. MaxTimestamp)
  BY DEF TypeOK
<1> QED BY <1>1 DEF Accesses, At

\* What recordAccess makes of the histories: f has one more access, now.
LEMMA RecordAccessHistories ==
  ASSUME TypeOK, NEW f \in Frames, recordAccess(f),
         NEW n, n = Len(m_current_nodes[f].history)
  PROVE  /\ n \in Nat
         /\ Accesses(f) = 1 .. n
         /\ Accesses(f)' = 1 .. n + 1
         /\ At(f, n + 1)' = m_current_timestamp
         /\ \A i \in 1 .. n : At(f, i)' = At(f, i)
         /\ \A g \in Frames \ {f} : m_current_nodes'[g] = m_current_nodes[g]
         /\ m_current_timestamp \in Nat
         /\ m_current_timestamp' = m_current_timestamp + 1
         /\ m_current_timestamp' \in 0 .. MaxTimestamp
         /\ m_current_nodes' \in [Frames -> NodeType]
<1>1. m_current_nodes[f].history \in Seq(0 .. MaxTimestamp)
  BY DEF TypeOK
<1>2. /\ m_current_timestamp \in 0 .. MaxTimestamp
      /\ m_current_timestamp < MaxTimestamp
      /\ m_current_timestamp' = m_current_timestamp + 1
  BY DEF TypeOK, recordAccess
<1>3. m_current_nodes'[f].history = Append(m_current_nodes[f].history, m_current_timestamp)
  BY DEF TypeOK, recordAccess
<1>4. \A g \in Frames \ {f} : m_current_nodes'[g] = m_current_nodes[g]
  BY DEF TypeOK, recordAccess
<1>5. m_current_nodes' \in [Frames -> NodeType]
  <2>1. Append(m_current_nodes[f].history, m_current_timestamp) \in Seq(0 .. MaxTimestamp)
    BY <1>1, <1>2
  <2> QED BY <2>1 DEF TypeOK, recordAccess, NodeType
<1> QED BY <1>1, <1>2, <1>3, <1>4, <1>5 DEF Accesses, At

\* The new timestamp is the largest, so it ties with none and is last.
LEMMA RecordAccessInv ==
  ASSUME LruKInv, NEW f \in Frames, recordAccess(f)
  PROVE  LruKInv'
<1>0. PICK n : n = Len(m_current_nodes[f].history)
  OBVIOUS
<1>1. /\ n \in Nat
      /\ Accesses(f) = 1 .. n
      /\ Accesses(f)' = 1 .. n + 1
      /\ At(f, n + 1)' = m_current_timestamp
      /\ \A i \in 1 .. n : At(f, i)' = At(f, i)
      /\ \A g \in Frames \ {f} : m_current_nodes'[g] = m_current_nodes[g]
      /\ m_current_timestamp \in Nat
      /\ m_current_timestamp' = m_current_timestamp + 1
      /\ m_current_timestamp' \in 0 .. MaxTimestamp
      /\ m_current_nodes' \in [Frames -> NodeType]
  BY <1>0, RecordAccessHistories DEF LruKInv
<1>2. \A g \in Frames \ {f} : /\ Accesses(g)' = Accesses(g)
                              /\ \A i : At(g, i)' = At(g, i)
  BY <1>1 DEF Accesses, At
<1>3. /\ \A g \in Frames : \A i \in Accesses(g) :
            At(g, i) \in Nat /\ At(g, i) < m_current_timestamp
      /\ \A g \in Frames : Ordered(g)
      /\ \A g, k \in Frames : Apart(g, k)
  BY TimestampsTyped DEF LruKInv, TimestampsFresh, InThePast
<1>4. TypeOK'
  <2>1. ASSUME NEW g \in Frames, m_current_nodes'[g].is_evictable
        PROVE  m_current_nodes'[g].history # <<>>
    <3>1. CASE g = f
      <4>1. 1 \in Accesses(f)'
        BY <1>1
      <4> QED BY <3>1, <4>1 DEF Accesses
    <3>2. CASE g # f
      BY <1>1, <2>1, <3>2 DEF LruKInv, TypeOK, IsPresent
    <3> QED BY <3>1, <3>2
  <2>2. evicted' \in Frames \cup {NoFrame}
    BY DEF LruKInv, TypeOK, recordAccess
  <2> QED BY <1>1, <2>1, <2>2 DEF TypeOK, NodeType, IsPresent
<1>5. ASSUME NEW g \in Frames PROVE InThePast(g)'
  <2>1. CASE g = f
    BY <1>1, <1>3, <2>1 DEF InThePast
  <2>2. CASE g # f
    BY <1>1, <1>2, <1>3, <2>2 DEF InThePast
  <2> QED BY <2>1, <2>2
<1>6. ASSUME NEW g \in Frames PROVE Ordered(g)'
  <2>1. CASE g = f
    BY <1>1, <1>3, <2>1 DEF Ordered
  <2>2. CASE g # f
    BY <1>2, <1>3, <2>2 DEF Ordered
  <2> QED BY <2>1, <2>2
<1>7. ASSUME NEW g \in Frames, NEW k \in Frames PROVE Apart(g, k)'
  <2>1. CASE g = f /\ k = f
    BY <1>1, <1>3, <2>1 DEF Apart
  <2>2. CASE g = f /\ k # f
    BY <1>1, <1>2, <1>3, <2>2 DEF Apart
  <2>3. CASE g # f /\ k = f
    BY <1>1, <1>2, <1>3, <2>3 DEF Apart
  <2>4. CASE g # f /\ k # f
    BY <1>2, <1>3, <2>4 DEF Apart
  <2> QED BY <2>1, <2>2, <2>3, <2>4
<1> QED BY <1>4, <1>5, <1>6, <1>7 DEF LruKInv, TimestampsFresh
\* setEvictable leaves histories alone and marks only present frames.
LEMMA SetEvictableInv ==
  ASSUME LruKInv, NEW f \in Frames, NEW b \in BOOLEAN, setEvictable(f, b)
  PROVE  LruKInv'
<1>1. m_current_nodes \in [Frames -> NodeType]
  BY DEF LruKInv, TypeOK, NodeType
<1>2. m_current_nodes' = [m_current_nodes EXCEPT ![f] =
         IF IsPresent(f) THEN [history |-> @.history, is_evictable |-> b]
                         ELSE @]
  BY DEF setEvictable
<1>3. m_current_nodes' \in [Frames -> NodeType]
  BY <1>1, <1>2 DEF NodeType
<1>4. \A g \in Frames : m_current_nodes'[g].history = m_current_nodes[g].history
  BY <1>1, <1>2 DEF NodeType
<1>5. \A g \in Frames : m_current_nodes'[g].is_evictable => IsPresent(g)'
  BY <1>1, <1>2, <1>4 DEF LruKInv, TypeOK, IsPresent, NodeType
<1>6. UNCHANGED m_current_timestamp /\ evicted' \in Frames \cup {NoFrame}
  BY DEF setEvictable, LruKInv, TypeOK
<1> QED BY <1>3, <1>4, <1>5, <1>6, SubsetInv

\* Making any frame absent, whatever evict() or remove() had for a reason.
LEMMA ForgetInv ==
  ASSUME LruKInv, NEW f \in Frames,
         m_current_nodes' = [m_current_nodes EXCEPT ![f] = Absent],
         UNCHANGED m_current_timestamp,
         evicted' \in Frames \cup {NoFrame}
  PROVE  LruKInv'
<1>1. m_current_nodes \in [Frames -> NodeType] /\ Absent \in NodeType
  BY DEF LruKInv, TypeOK, NodeType, Absent
<1>2. m_current_nodes' \in [Frames -> NodeType]
  BY <1>1
<1>3. \A g \in Frames : \/ m_current_nodes'[g] = m_current_nodes[g]
                        \/ m_current_nodes'[g] = Absent
  BY <1>1
<1>4. \A g \in Frames : m_current_nodes'[g].is_evictable => IsPresent(g)'
  BY <1>3 DEF LruKInv, TypeOK, IsPresent, Absent
<1>5. \A g \in Frames : \/ m_current_nodes'[g].history = m_current_nodes[g].history
                        \/ m_current_nodes'[g].history = <<>>
  BY <1>3 DEF Absent
<1> QED BY <1>2, <1>4, <1>5, SubsetInv

\* A call that leaves the map and the clock alone.
LEMMA StutterInv ==
  ASSUME LruKInv, UNCHANGED <<m_current_nodes, m_current_timestamp>>,
         evicted' \in Frames \cup {NoFrame}
  PROVE  LruKInv'
<1>1. m_current_nodes' \in [Frames -> NodeType]
  BY DEF LruKInv, TypeOK, NodeType
<1>2. \A g \in Frames : m_current_nodes'[g].is_evictable => IsPresent(g)'
  BY DEF LruKInv, TypeOK, IsPresent
<1> QED BY <1>1, <1>2, SubsetInv

\* remove() forgets an evictable frame and leaves any other.
LEMMA RemoveInv == ASSUME LruKInv, NEW f \in Frames, remove(f) PROVE LruKInv'
<1>1. evicted' \in Frames \cup {NoFrame}
  BY DEF remove, LruKInv, TypeOK
<1>2. CASE m_current_nodes[f].is_evictable
  <2>1. m_current_nodes' = [m_current_nodes EXCEPT ![f] = Absent]
    BY <1>2 DEF remove
  <2> QED BY <1>1, <2>1, ForgetInv DEF remove
<1>3. CASE ~m_current_nodes[f].is_evictable
  <2>1. m_current_nodes' = m_current_nodes
    BY <1>3 DEF remove, LruKInv, TypeOK
  <2> QED BY <1>1, <2>1, StutterInv DEF remove
<1> QED BY <1>2, <1>3

\* Every outcome of evict() keeps the invariant.
LEMMA GiveInv ==
  ASSUME LruKInv, NEW f \in Frames \cup {NoFrame}, Give(f) PROVE LruKInv'
<1>1. CASE f = NoFrame
  BY <1>1, StutterInv DEF Give
<1>2. CASE f # NoFrame
  BY <1>2, ForgetInv DEF Give
<1> QED BY <1>1, <1>2

\* Whatever evict() chooses, it chooses an evictable frame or none.
LEMMA EvictGives ==
  ASSUME evict
  PROVE  \E f \in EvictableFrames \cup {NoFrame} : Give(f)
BY DEF evict, ShortFrames, Farthest

\* The invariant is inductive.
LEMMA NextInv == ASSUME LruKInv, [Next]_vars PROVE LruKInv'
<1>1. CASE evict
  <2>1. EvictableFrames \subseteq Frames
    BY DEF EvictableFrames
  <2> QED BY <1>1, <2>1, EvictGives, GiveInv
<1>2. CASE \E f \in Frames : recordAccess(f)
  BY <1>2, RecordAccessInv
<1>3. CASE \E f \in Frames : remove(f)
  BY <1>3, RemoveInv
<1>4. CASE \E f \in Frames, b \in BOOLEAN : setEvictable(f, b)
  BY <1>4, SetEvictableInv
<1>5. CASE UNCHANGED vars
  <2>1. evicted' \in Frames \cup {NoFrame}
    BY <1>5 DEF vars, LruKInv, TypeOK
  <2> QED BY <1>5, <2>1, StutterInv DEF vars
<1> QED BY <1>1, <1>2, <1>3, <1>4, <1>5 DEF Next
-----------------------------------------------------------------------------
\* The invariant holds of every behaviour.
LEMMA LruKInvariant == Spec => []LruKInv
<1> QED BY InitInv, NextInv, PTL DEF Spec

\* The map of lru_k has only frames that were accessed, with histories of
\* timestamps, and an absent frame is never evictable (lru_k.cpp:18-110).
THEOREM LruKTypeCorrect == Spec => []TypeOK
<1>1. LruKInv => TypeOK
  BY DEF LruKInv
<1> QED BY <1>1, LruKInvariant, PTL

\* However many frames and accesses, the distances that evict() compares never
\* tie, so its victim does not depend on the order of the map
\* (lru_k.cpp:18-34, 76-80).
THEOREM NoTiesInDistances == Spec => []TimestampsFresh
<1>1. LruKInv => TimestampsFresh
  BY DEF LruKInv
<1> QED BY <1>1, LruKInvariant, PTL

\* A frame without a short history has a K-th most recent access.
LEMMA IndexLemma ==
  ASSUME K >= 2, TypeOK, ShortFrames = {}, NEW f \in EvictableFrames
  PROVE  IndexInHistory(f)
<1>1. m_current_nodes[f].history \in Seq(0 .. MaxTimestamp)
  BY DEF TypeOK, EvictableFrames
<1>2. ~(Len(m_current_nodes[f].history) < K)
  BY DEF ShortFrames
<1> QED BY <1>1, <1>2 DEF IndexInHistory, DistanceIndex

\* With K of at least 2, the index size + 1 - k of lru_k.cpp:73-75 is inside
\* the history of every frame it is used for.
THEOREM DistanceIndexIsInside ==
  ASSUME K >= 2
  PROVE  Spec => []DistanceIndexInHistory
<1>1. TypeOK => DistanceIndexInHistory
  BY IndexLemma DEF DistanceIndexInHistory
<1> QED BY <1>1, LruKTypeCorrect, PTL
-----------------------------------------------------------------------------
(* The refinement: each operation of lru_k is that of the replacer.        *)

USE DEF Abstract!Frames, Abstract!NoFrame

\* The counted node of a frame, from its node.
Count(h) == IF Len(h) < K THEN Len(h) ELSE K

LEMMA CountedNode ==
  ASSUME TypeOK, NEW f \in Frames
  PROVE  /\ Counted[f].hits = Count(m_current_nodes[f].history)
         /\ Counted[f].is_evictable = m_current_nodes[f].is_evictable
         /\ Len(m_current_nodes[f].history) \in Nat
         /\ Abstract!Present(Counted, f) <=> IsPresent(f)
<1>1. m_current_nodes[f].history \in Seq(0 .. MaxTimestamp)
  BY DEF TypeOK
<1>2. /\ Counted[f].hits = Count(m_current_nodes[f].history)
      /\ Counted[f].is_evictable = m_current_nodes[f].is_evictable
  BY DEF Counted, Count
<1>3. Len(m_current_nodes[f].history) = 0 <=> m_current_nodes[f].history = <<>>
  BY <1>1
<1> QED BY <1>1, <1>2, <1>3 DEF Abstract!Present, IsPresent, Count

\* Changing one node changes that node's count.
LEMMA CountedExcept ==
  ASSUME NEW f \in Frames, NEW new, TypeOK,
         m_current_nodes' = [m_current_nodes EXCEPT ![f] = new]
  PROVE  Counted' = [Counted EXCEPT ![f] =
                        [hits |-> Count(new.history),
                         is_evictable |-> new.is_evictable]]
<1>1. m_current_nodes'[f] = new
  BY DEF TypeOK
<1>2. \A g \in Frames \ {f} : m_current_nodes'[g] = m_current_nodes[g]
  BY DEF TypeOK
<1> QED BY <1>1, <1>2 DEF Counted, Count

\* One more access is one more hit, up to K.
LEMMA RecordAccessRefines ==
  ASSUME TypeOK, NEW f \in Frames, recordAccess(f)
  PROVE  Abstract!Access(f)
<1> DEFINE h == m_current_nodes[f].history
           e == m_current_nodes[f].is_evictable
           h2 == Append(h, m_current_timestamp)
           e2 == IF IsPresent(f) THEN e ELSE TRUE
<1>1. h \in Seq(0 .. MaxTimestamp) /\ m_current_timestamp \in 0 .. MaxTimestamp
  BY DEF TypeOK
<1>2. m_current_nodes' = [m_current_nodes EXCEPT ![f] =
                             [history |-> h2, is_evictable |-> e2]]
  BY DEF recordAccess, IsPresent, TypeOK
<1>3. Counted' = [Counted EXCEPT ![f] =
                     [hits |-> Count(h2), is_evictable |-> e2]]
  BY <1>2, CountedExcept
<1>4. Len(h2) = Len(h) + 1 /\ Len(h) \in Nat
  BY <1>1
<1>5. Counted' = Abstract!RecordAccess(Counted, f)
  <2>1. CASE IsPresent(f)
    <3>1. Count(h2) = IF Count(h) < K THEN Count(h) + 1 ELSE K
      BY <1>4 DEF Count
    <3> QED BY <1>3, <2>1, <3>1, CountedNode DEF Abstract!RecordAccess
  <2>2. CASE ~IsPresent(f)
    <3>1. Count(h2) = 1
      BY <1>1, <1>4, <2>2 DEF Count, IsPresent
    <3> QED BY <1>3, <2>2, <3>1, CountedNode DEF Abstract!RecordAccess
  <2> QED BY <2>1, <2>2
<1> QED BY <1>5 DEF Abstract!Access, recordAccess

\* The flag is the replacer's flag.
LEMMA SetEvictableRefines ==
  ASSUME TypeOK, NEW f \in Frames, NEW b \in BOOLEAN, setEvictable(f, b)
  PROVE  Abstract!Mark(f, b)
<1>1. CASE IsPresent(f)
  <2>1. m_current_nodes' = [m_current_nodes EXCEPT ![f] =
            [history |-> m_current_nodes[f].history, is_evictable |-> b]]
    BY <1>1 DEF setEvictable, TypeOK
  <2>2. Counted' = [Counted EXCEPT ![f] =
            [hits |-> Count(m_current_nodes[f].history), is_evictable |-> b]]
    BY <2>1, CountedExcept
  <2>3. Counted' = Abstract!SetEvictable(Counted, f, b)
    BY <1>1, <2>2, CountedNode DEF Abstract!SetEvictable
  <2> QED BY <2>3 DEF Abstract!Mark, setEvictable
<1>2. CASE ~IsPresent(f)
  <2>1. m_current_nodes' = m_current_nodes
    BY <1>2 DEF setEvictable, TypeOK
  <2>2. Counted' = Counted
    BY <2>1 DEF Counted
  <2>3. Counted = Abstract!SetEvictable(Counted, f, b)
    BY <1>2, CountedNode DEF Abstract!SetEvictable, Counted
  <2> QED BY <2>2, <2>3 DEF Abstract!Mark, setEvictable
<1> QED BY <1>1, <1>2

\* A forgotten frame is the replacer's empty node.
LEMMA ForgetErases ==
  ASSUME TypeOK, NEW f \in Frames,
         m_current_nodes' = [m_current_nodes EXCEPT ![f] = Absent]
  PROVE  Counted' = Abstract!Erase(Counted, f)
<1>1. Count(<<>>) = 0
  BY DEF Count
<1>2. Counted' = [Counted EXCEPT ![f] = [hits |-> Count(Absent.history),
                                         is_evictable |-> Absent.is_evictable]]
  BY CountedExcept
<1> QED BY <1>1, <1>2 DEF Abstract!Erase, Abstract!NoNode, Absent

\* remove() is the replacer's Drop.
LEMMA RemoveRefines ==
  ASSUME TypeOK, NEW f \in Frames, remove(f)
  PROVE  Abstract!Drop(f)
<1>1. CASE m_current_nodes[f].is_evictable
  <2>1. m_current_nodes' = [m_current_nodes EXCEPT ![f] = Absent]
    BY <1>1 DEF remove
  <2> QED BY <1>1, <2>1, ForgetErases, CountedNode
          DEF Abstract!Drop, Abstract!Remove, Abstract!Erase, remove
<1>2. CASE ~m_current_nodes[f].is_evictable
  <2>1. m_current_nodes' = m_current_nodes
    BY <1>2 DEF remove, TypeOK
  <2>2. Counted' = Counted
    BY <2>1 DEF Counted
  <2>3. Counted = Abstract!Remove(Counted, f)
    BY <1>2, CountedNode DEF Abstract!Remove, Counted
  <2> QED BY <2>2, <2>3 DEF Abstract!Drop, remove
<1> QED BY <1>1, <1>2

\* The two replacers see the same evictable frames and the same short ones.
LEMMA SameVictims ==
  ASSUME TypeOK
  PROVE  /\ Abstract!Evictable(Counted) = EvictableFrames
         /\ Abstract!Young(Counted) = ShortFrames
<1>1. \A f \in Frames : Counted[f].hits < K <=>
                        Len(m_current_nodes[f].history) < K
  BY CountedNode DEF Count
<1> QED BY <1>1, CountedNode
        DEF Abstract!Evictable, Abstract!Young, EvictableFrames, ShortFrames

\* Every choice of evict() is one of the replacer's victims.
LEMMA EvictRefines ==
  ASSUME K >= 2, TypeOK, evict
  PROVE  Abstract!Evict
<1>1. CASE EvictableFrames = {} /\ Give(NoFrame)
  <2>1. Abstract!Victims(Counted) = {}
    BY <1>1, SameVictims DEF Abstract!Victims, ShortFrames
  <2>2. m_current_nodes' = m_current_nodes /\ evicted' = NoFrame
    BY <1>1 DEF Give
  <2>3. Counted' = Counted
    BY <2>2 DEF Counted
  <2> QED BY <2>1, <2>2, <2>3 DEF Abstract!Evict
<1>2. ASSUME NEW f \in Frames, f \in Abstract!Victims(Counted), Give(f)
      PROVE  Abstract!Evict
  <2>1. f # NoFrame
    BY DEF Frames, NoFrame
  <2>2. evicted' = f /\ m_current_nodes' = [m_current_nodes EXCEPT ![f] = Absent]
    BY <1>2, <2>1 DEF Give
  <2>3. Counted' = Abstract!Erase(Counted, f)
    BY <2>2, ForgetErases
  <2> QED BY <1>2, <2>2, <2>3 DEF Abstract!Evict
<1>3. CASE \E f \in ShortFrames : (\A g \in ShortFrames : f =< g) /\ Give(f)
  <2>1. PICK f \in ShortFrames : (\A g \in ShortFrames : f =< g) /\ Give(f)
    BY <1>3
  <2>2. f \in Abstract!Victims(Counted) /\ f \in Frames
    BY <2>1, SameVictims DEF Abstract!Victims, ShortFrames, EvictableFrames
  <2> QED BY <1>2, <2>1, <2>2
<1>4. CASE ShortFrames = {} /\ \E f \in Farthest : Give(f)
  <2>1. PICK f \in Farthest : Give(f)
    BY <1>4
  <2>2. \A g \in EvictableFrames : IndexInHistory(g)
    BY <1>4, IndexLemma
  <2>3. f \in EvictableFrames
    BY <2>1, <2>2 DEF Farthest
  <2>4. f \in Abstract!Victims(Counted) /\ f \in Frames
    BY <1>4, <2>3, SameVictims DEF Abstract!Victims, EvictableFrames
  <2> QED BY <1>2, <2>1, <2>4
<1> QED BY <1>1, <1>3, <1>4 DEF evict

\* An empty map is an empty replacer.
LEMMA InitRefines == ASSUME Init PROVE Abstract!Init
<1>1. Count(<<>>) = 0
  BY DEF Count
<1>2. Counted = [f \in Frames |-> Abstract!NoNode]
  BY <1>1 DEF Init, Counted, Count, Absent, Abstract!NoNode
<1> QED BY <1>2 DEF Init, Abstract!Init

\* Every call is a call of the replacer.
LEMMA StepRefines ==
  ASSUME K >= 2, TypeOK, [Next]_vars
  PROVE  [Abstract!Next]_(Abstract!vars)
<1>1. CASE evict
  BY <1>1, EvictRefines DEF Abstract!Next
<1>2. CASE \E f \in Frames : recordAccess(f)
  BY <1>2, RecordAccessRefines DEF Abstract!Next
<1>3. CASE \E f \in Frames : remove(f)
  BY <1>3, RemoveRefines DEF Abstract!Next
<1>4. CASE \E f \in Frames, b \in BOOLEAN : setEvictable(f, b)
  BY <1>4, SetEvictableRefines DEF Abstract!Next
<1>5. CASE UNCHANGED vars
  BY <1>5 DEF vars, Abstract!vars, Counted
<1> QED BY <1>1, <1>2, <1>3, <1>4, <1>5 DEF Next

\* With K of at least 2, lru_k keeps the promise the buffer pool relies on,
\* for every number of frames and accesses (lru_k.cpp:18-103).
THEOREM LruKImplementsReplacer ==
  ASSUME K >= 2
  PROVE  Spec => ImplementsReplacer
<1>1. Init => Abstract!Init
  BY InitRefines
<1>2. TypeOK /\ [Next]_vars => [Abstract!Next]_(Abstract!vars)
  BY StepRefines
<1> QED BY <1>1, <1>2, LruKTypeCorrect, PTL
        DEF Spec, ImplementsReplacer, Abstract!Spec
=============================================================================
