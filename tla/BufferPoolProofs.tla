-------------------------- MODULE BufferPoolProofs --------------------------
(***************************************************************************)
(* Proofs about BufferPool, for every number of frames, every finite set   *)
(* of pages and every K: first for any set of clients, then for one        *)
(* component that uses the pool, as the tree does.                         *)
(***************************************************************************)
EXTENDS BufferPool, FiniteSetTheorems, TLAPS

CachedPages == {p \in Pages : Cached(p)}

-----------------------------------------------------------------------------
(* Frames and cached pages are counted.                                    *)

\* There are as many frames as MaxFrames says.
LEMMA FramesFinite == IsFiniteSet(Frames) /\ Cardinality(Frames) = MaxFrames
<1>1. MaxFrames \in Nat
  BY ReplacerAssumption
<1>2. IsFiniteSet(0 .. MaxFrames - 1)
  BY <1>1, FS_Interval
<1>3. Cardinality(0 .. MaxFrames - 1) = MaxFrames
  BY <1>1, FS_Interval
<1> QED
  BY <1>2, <1>3 DEF Frames

\* The pages in memory can be counted.
LEMMA CachedPagesFinite == IsFiniteSet(CachedPages) /\ Cardinality(CachedPages) \in Nat
<1>1. CachedPages \in SUBSET Pages
  BY DEF CachedPages
<1>2. IsFiniteSet(CachedPages)
  BY <1>1, FS_Subset, PoolAssumption
<1> QED
  BY <1>2, FS_CardinalityType

\* Restricted to them, the page table leads to frames.
LEMMA TableType ==
  ASSUME TypeOK
  PROVE  [p \in CachedPages |-> m_page_table[p]] \in [CachedPages -> Frames]
BY DEF TypeOK, CachedPages, Cached

\* While the page table is not full there is a free frame: otherwise the table
\* would map fewer pages than there are frames onto all of them.
LEMMA RoomLemma ==
  ASSUME TypeOK, FramePartition
  PROVE  RoomMeansFreeFrame
<1> DEFINE map == [p \in CachedPages |-> m_page_table[p]]
<1> SUFFICES ASSUME HasRoom, m_empty_frames = <<>>
             PROVE  FALSE
  BY DEF RoomMeansFreeFrame
<1>1. map \in [CachedPages -> Frames]
  BY TableType
<1>2. ASSUME NEW f \in Frames
      PROVE  \E p \in CachedPages : map[p] = f
  <2>1. \A i \in DOMAIN m_empty_frames : FALSE
    OBVIOUS
  <2>2. PICK p \in Pages : m_page_table[p] = f
    BY <2>1 DEF FramePartition
  <2>3. f # NoFrame
    BY ReplacerAssumption DEF Frames, NoFrame
  <2> QED
    BY <2>2, <2>3 DEF CachedPages, Cached
<1>3. map \in Surjection(CachedPages, Frames)
  BY <1>1, <1>2 DEF Surjection
<1>4. Cardinality(Frames) <= Cardinality(CachedPages)
  BY <1>3, CachedPagesFinite, FS_Surjection
<1>5. Cardinality(CachedPages) < MaxFrames
  BY DEF HasRoom, TableSize, CachedPages
<1> QED
  BY <1>4, <1>5, FramesFinite, CachedPagesFinite, ReplacerAssumption

\* While it is full there is none: otherwise two pages would share a frame.
LEMMA FullLemma ==
  ASSUME TypeOK, FramePartition, ~HasRoom
  PROVE  m_empty_frames = <<>>
<1> DEFINE map == [p \in CachedPages |-> m_page_table[p]]
<1> SUFFICES ASSUME m_empty_frames # <<>>
             PROVE  FALSE
  OBVIOUS
<1> DEFINE free == m_empty_frames[1]
<1>1. 1 \in DOMAIN m_empty_frames /\ free \in Frames
  BY DEF TypeOK
<1>2. ~Occupied(free)
  BY <1>1 DEF FramePartition
<1>3. \A p \in Pages : m_page_table[p] # free
  BY <1>1, <1>2 DEF FramePartition
<1>4. map \in [CachedPages -> Frames \ {free}]
  BY <1>3, TableType DEF CachedPages
<1>5. IsFiniteSet(Frames \ {free}) /\ Cardinality(Frames \ {free}) = MaxFrames - 1
  BY <1>1, FramesFinite, FS_RemoveElement
<1>6. Cardinality(Frames \ {free}) < Cardinality(CachedPages)
  <2>1. ~(Cardinality(CachedPages) < MaxFrames)
    BY DEF HasRoom, TableSize, CachedPages
  <2> QED
    BY <2>1, <1>5, CachedPagesFinite, ReplacerAssumption
<1>7. PICK p \in CachedPages, q \in CachedPages : p # q /\ map[p] = map[q]
  <2> HIDE DEF map
  <2> QED
    BY <1>4, <1>5, <1>6, CachedPagesFinite, FS_PigeonHole
<1>8. p \in Pages /\ q \in Pages /\ Cached(p) /\ m_page_table[p] = m_page_table[q]
  BY <1>7 DEF CachedPages
<1> QED
  BY <1>7, <1>8 DEF FramePartition
-----------------------------------------------------------------------------
(* The operations of the replacer and the references of a client.          *)

\* NoFrame is no frame.
LEMMA FrameFacts == /\ NoFrame \notin Frames
                    /\ \A f \in Frames : f \in Int
BY ReplacerAssumption DEF Frames, NoFrame

\* Every operation of the replacer leaves nodes behind.
LEMMA ReplacerTypes ==
  ASSUME NEW ns \in [Frames -> Node], NEW f \in Frames
  PROVE  /\ RecordAccess(ns, f) \in [Frames -> Node]
         /\ \A b \in BOOLEAN : SetEvictable(ns, f, b) \in [Frames -> Node]
         /\ Erase(ns, f) \in [Frames -> Node]
         /\ Remove(ns, f) \in [Frames -> Node]
<1>0. K \in Nat /\ K >= 1
  BY ReplacerAssumption
<1>1. NoNode \in Node /\ [hits |-> 1, is_evictable |-> TRUE] \in Node
  BY <1>0 DEF Node, NoNode
<1>2. ns[f].hits \in 0 .. K /\ ns[f].is_evictable \in BOOLEAN
  BY DEF Node
<1>3. RecordAccess(ns, f) \in [Frames -> Node]
  <2>1. [hits |-> IF ns[f].hits < K THEN ns[f].hits + 1 ELSE K,
         is_evictable |-> ns[f].is_evictable] \in Node
    BY <1>0, <1>2 DEF Node
  <2> QED
    BY <1>1, <2>1 DEF RecordAccess
<1>4. ASSUME NEW b \in BOOLEAN
      PROVE  SetEvictable(ns, f, b) \in [Frames -> Node]
  <2>1. [hits |-> ns[f].hits, is_evictable |-> b] \in Node
    BY <1>2 DEF Node
  <2> QED
    BY <2>1 DEF SetEvictable
<1> QED
  BY <1>1, <1>3, <1>4 DEF Erase, Remove

\* No operation makes a frame other than its argument evictable, and removing
\* a frame leaves it not evictable.
LEMMA ReplacerEvictable ==
  ASSUME NEW ns \in [Frames -> Node], NEW f \in Frames, NEW g \in Frames,
         g # f
  PROVE  /\ RecordAccess(ns, f)[g].is_evictable = ns[g].is_evictable
         /\ \A b \in BOOLEAN :
               SetEvictable(ns, f, b)[g].is_evictable = ns[g].is_evictable
         /\ Erase(ns, f)[g].is_evictable = ns[g].is_evictable
         /\ Remove(ns, f)[g].is_evictable = ns[g].is_evictable
BY DEF RecordAccess, SetEvictable, Erase, Remove

\* A frame that was removed or erased is not evictable.
LEMMA RemovedNotEvictable ==
  ASSUME NEW ns \in [Frames -> Node], NEW f \in Frames
  PROVE  ~Remove(ns, f)[f].is_evictable /\ ~Erase(ns, f)[f].is_evictable
BY DEF Remove, Erase, NoNode, Node

\* The references of a client stay references.
LEMMA RefTypes ==
  ASSUME TypeOK, NEW c \in Clients
  PROVE  /\ \A p \in Pages, f \in Frames, b \in BOOLEAN :
               Granted(c, p, f, b) \in [Clients -> [Pages -> Ref]]
         /\ \A ps : Released(c, ps) \in [Clients -> [Pages -> Ref]]
<1>1. NoRef \in Ref
  BY DEF NoRef, Ref
<1>2. KeptRefs(c) \in [Pages -> Ref]
  BY <1>1 DEF KeptRefs, TypeOK
<1>3. ASSUME NEW f \in Frames, NEW b \in BOOLEAN, NEW r \in Ref
      PROVE  [frame |-> f, pins |-> r.pins + (IF b THEN 1 ELSE 0)] \in Ref
  BY <1>3 DEF Ref
<1>4. ASSUME NEW p \in Pages, NEW f \in Frames, NEW b \in BOOLEAN
      PROVE  Granted(c, p, f, b) \in [Clients -> [Pages -> Ref]]
  BY <1>2, <1>3 DEF Granted, TypeOK
<1>5. ASSUME NEW ps
      PROVE  Released(c, ps) \in [Clients -> [Pages -> Ref]]
  BY <1>1, <1>2 DEF Released, TypeOK
<1> QED
  BY <1>4, <1>5
-----------------------------------------------------------------------------
(* The invariant.                                                          *)

PoolInv == TypeOK /\ FramePartition /\ EvictableOccupied

\* What the header of a frame holds; only a frame with a page is dirty.
LEMMA HeaderFacts ==
  ASSUME TypeOK, NEW f \in Frames
  PROVE  /\ m_frames[f].frame_id \in Frames \cup {NoFrame}
         /\ m_frames[f].is_dirty \in BOOLEAN
         /\ m_frames[f].pin_count \in Int
         /\ m_frames[f].data \in Data
         /\ Occupied(f) => m_frames[f] \in Header
         /\ ~Occupied(f) => m_frames[f] \in Blank
         /\ m_frames[f].is_dirty => Occupied(f)
<1>1. m_frames[f] \in Header \cup Blank
  BY DEF TypeOK
<1>2. CASE m_frames[f] \in Header
  BY <1>2, FrameFacts DEF Header, Occupied
<1>3. CASE m_frames[f] \in Blank
  BY <1>3, PoolAssumption DEF Blank, Occupied
<1> QED
  BY <1>1, <1>2, <1>3

\* A loaded frame knows its own number.
LEMMA LoadedType ==
  ASSUME TypeOK, NEW p \in Pages, NEW f \in Frames, NEW b \in BOOLEAN
  PROVE  /\ Loaded(p, f, b) \in Header
         /\ Loaded(p, f, b).frame_id = f
BY DEF TypeOK, Loaded, Header

\* frame_header{} is the header of a frame without a page.
LEMMA FreeHeaderType == FreeHeader \in Blank /\ FreeHeader.frame_id = NoFrame
BY DEF FreeHeader, Blank

\* EvictableOccupied, frame by frame.
LEMMA EvictableFact ==
  ASSUME TypeOK
  PROVE  EvictableOccupied
         <=> \A f \in Frames : nodes[f].is_evictable => Occupied(f)
BY DEF EvictableOccupied, Evictable

\* The invariant holds in the pool that was just constructed.
THEOREM InitPoolInv == Init => PoolInv
<1> SUFFICES ASSUME Init PROVE PoolInv
  OBVIOUS
<1>0. MaxFrames \in Nat /\ K \in Nat /\ ZeroPage \in Data
  BY ReplacerAssumption, PoolAssumption
<1>1. m_empty_frames \in Seq(Frames) /\ DOMAIN m_empty_frames = 1 .. MaxFrames
  BY <1>0 DEF Init, Frames
<1>2. NoNode \in Node /\ ~NoNode.is_evictable
  BY <1>0 DEF NoNode, Node
<1>3. TypeOK
  <2>1. NoRef \in Ref /\ FreeHeader \in Blank
    BY FreeHeaderType DEF NoRef, Ref
  <2> QED
    BY <1>0, <1>1, <1>2, <2>1 DEF Init, TypeOK, Outcome
<1>4. FramePartition
  <2>1. \A f \in Frames : f + 1 \in 1 .. MaxFrames /\ m_empty_frames[f + 1] = f
    BY <1>0 DEF Init, Frames
  <2>2. \A i, j \in DOMAIN m_empty_frames :
           m_empty_frames[i] = m_empty_frames[j] => i = j
    BY <1>0, <1>1 DEF Init
  <2>3. \A f \in Frames : ~Occupied(f)
    BY FreeHeaderType DEF Init, Occupied
  <2>4. \A p \in Pages : m_page_table[p] = NoFrame
    BY DEF Init
  <2> QED
    BY <1>1, <2>1, <2>2, <2>3, <2>4, FrameFacts DEF FramePartition, Cached
<1>5. EvictableOccupied
  BY <1>2, <1>3, EvictableFact DEF Init
<1> QED
  BY <1>3, <1>4, <1>5 DEF PoolInv
-----------------------------------------------------------------------------
(* Steps that move no page.                                                *)

\* A step that moves no page keeps the partition.
LEMMA SamePartition ==
  ASSUME FramePartition,
         UNCHANGED <<m_page_table, m_empty_frames>>,
         \A f \in Frames : m_frames'[f].frame_id = m_frames[f].frame_id
  PROVE  FramePartition'
BY DEF FramePartition, Cached, Occupied

\* allocate_new_page,
LEMMA AllocateInv ==
  ASSUME PoolInv, NEW c \in Clients, allocate_new_page(c)
  PROVE  PoolInv'
<1> USE DEF PoolInv
<1>1. TypeOK'
  <2>1. refs' \in [Clients -> [Pages -> Ref]]
    BY RefTypes DEF allocate_new_page
  <2> QED
    BY <2>1 DEF allocate_new_page, TypeOK, pool, Outcome
<1>2. FramePartition'
  BY SamePartition DEF allocate_new_page, pool
<1>3. EvictableOccupied'
  BY DEF allocate_new_page, pool, EvictableOccupied, Evictable, Occupied
<1> QED
  BY <1>1, <1>2, <1>3

\* a request that finds its page,
LEMMA HitInv ==
  ASSUME PoolInv, NEW c \in Clients, NEW p \in Pages, NEW b \in BOOLEAN,
         Hit(c, p, b), UNCHANGED m_next_page
  PROVE  PoolInv'
<1> USE DEF PoolInv
<1> DEFINE f == m_page_table[p]
           h == [m_frames[f] EXCEPT !.pin_count = IF b THEN @ + 1 ELSE @]
           ns == RecordAccess(nodes, f)
<1>1. f \in Frames /\ Cached(p)
  BY DEF Hit, TypeOK, Cached
<1>2. Occupied(f)
  BY <1>1 DEF FramePartition
<1>3. h \in Header /\ h.frame_id = m_frames[f].frame_id
  BY <1>1, <1>2, HeaderFacts DEF Header
<1>4. m_frames' = [m_frames EXCEPT ![f] = h]
  BY DEF Hit
<1>5. \A g \in Frames : m_frames'[g].frame_id = m_frames[g].frame_id
  BY <1>1, <1>3, <1>4 DEF TypeOK
<1>6. ns \in [Frames -> Node] /\ nodes' = SetEvictable(ns, f, FALSE)
  BY <1>1, ReplacerTypes DEF Hit, TypeOK
<1>7. TypeOK'
  <2>1. nodes' \in [Frames -> Node]
    BY <1>1, <1>6, ReplacerTypes
  <2>2. refs' \in [Clients -> [Pages -> Ref]]
    BY <1>1, RefTypes DEF Hit
  <2>3. m_frames' \in [Frames -> Header \cup Blank]
    BY <1>1, <1>3, <1>4 DEF TypeOK
  <2> QED
    BY <2>1, <2>2, <2>3 DEF Hit, TypeOK, Outcome
<1>8. FramePartition'
  BY <1>5, SamePartition DEF Hit
<1>9. EvictableOccupied'
  <2>1. ASSUME NEW g \in Frames, g # f
        PROVE  nodes'[g].is_evictable = nodes[g].is_evictable
    <3>1. ns[g].is_evictable = nodes[g].is_evictable
      BY <1>1, <2>1, ReplacerEvictable DEF TypeOK
    <3>2. SetEvictable(ns, f, FALSE)[g].is_evictable = ns[g].is_evictable
      <4> HIDE DEF ns
      <4> QED
        BY <1>1, <1>6, <2>1, ReplacerEvictable
    <3> QED
      BY <1>6, <3>1, <3>2
  <2>2. \A g \in Frames : nodes[g].is_evictable => Occupied(g)
    BY EvictableFact
  <2>3. \A g \in Frames : nodes'[g].is_evictable => Occupied(g)'
    BY <1>2, <1>5, <2>1, <2>2 DEF Occupied
  <2> QED
    BY <2>3 DEF EvictableOccupied, Evictable
<1> QED
  BY <1>7, <1>8, <1>9

\* a request without a victim,
LEMMA NoVictimInv ==
  ASSUME PoolInv, NEW c \in Clients, NEW p \in Pages,
         NoVictim(c, p), UNCHANGED m_next_page
  PROVE  PoolInv'
<1> USE DEF PoolInv
<1>1. TypeOK'
  <2>1. refs' \in [Clients -> [Pages -> Ref]]
    BY RefTypes DEF NoVictim
  <2> QED
    BY <2>1 DEF NoVictim, pool, TypeOK, Outcome
<1>2. FramePartition'
  BY SamePartition DEF NoVictim, pool
<1>3. EvictableOccupied'
  BY DEF NoVictim, pool, EvictableOccupied, Evictable, Occupied
<1> QED
  BY <1>1, <1>2, <1>3

\* Victims are evictable.
LEMMA VictimsEvictable ==
  ASSUME NEW ns
  PROVE  Victims(ns) \subseteq Evictable(ns)
BY DEF Victims, Young

\* and one whose victim is pinned move no page,
LEMMA VictimIsPinnedInv ==
  ASSUME PoolInv, NEW c \in Clients, NEW p \in Pages,
         VictimIsPinned(c, p), UNCHANGED m_next_page
  PROVE  PoolInv'
<1> USE DEF PoolInv
<1>1. PICK f \in Frames : nodes' = Erase(nodes, f)
  BY VictimsEvictable DEF VictimIsPinned, Evictable
<1>2. TypeOK'
  <2>1. refs' \in [Clients -> [Pages -> Ref]]
    BY RefTypes DEF VictimIsPinned
  <2>2. nodes' \in [Frames -> Node]
    BY <1>1, ReplacerTypes DEF TypeOK
  <2> QED
    BY <2>1, <2>2 DEF VictimIsPinned, TypeOK, Outcome
<1>3. FramePartition'
  BY SamePartition DEF VictimIsPinned
<1>4. EvictableOccupied'
  <2>1. \A g \in Frames : nodes'[g].is_evictable => nodes[g].is_evictable
    BY <1>1, ReplacerEvictable, RemovedNotEvictable DEF TypeOK
  <2>2. \A g \in Frames : nodes[g].is_evictable => Occupied(g)
    BY EvictableFact
  <2> QED
    BY <2>1, <2>2 DEF VictimIsPinned, EvictableOccupied, Evictable, Occupied
<1> QED
  BY <1>2, <1>3, <1>4

\* nor does a write through a reference,
LEMMA WriteFrameInv ==
  ASSUME PoolInv, NEW c \in Clients, NEW p \in Pages, NEW d \in Data,
         WriteFrame(c, p, d), UNCHANGED m_next_page
  PROVE  PoolInv'
<1> USE DEF PoolInv
<1> DEFINE f == refs[c][p].frame
           h == [m_frames[f] EXCEPT !.data = d, !.is_dirty = TRUE]
<1>1. f \in Frames
  BY DEF WriteFrame, TypeOK, Ref
<1>2. CASE Occupied(f)
  <2>1. h \in Header /\ h.frame_id = m_frames[f].frame_id
    BY <1>1, <1>2, HeaderFacts DEF Header
  <2>2. m_frames' = [m_frames EXCEPT ![f] = h]
    BY <1>1, <1>2 DEF WriteFrame, TypeOK
  <2>3. \A g \in Frames : m_frames'[g].frame_id = m_frames[g].frame_id
    BY <1>1, <2>1, <2>2 DEF TypeOK
  <2>4. m_frames' \in [Frames -> Header \cup Blank]
    BY <1>1, <2>1, <2>2 DEF TypeOK
  <2>5. TypeOK'
    BY <1>2, <2>4 DEF WriteFrame, TypeOK, Outcome
  <2>6. FramePartition'
    BY <2>3, SamePartition DEF WriteFrame
  <2>7. EvictableOccupied'
    BY <2>3 DEF WriteFrame, EvictableOccupied, Evictable, Occupied
  <2> QED
    BY <2>5, <2>6, <2>7
<1>3. CASE ~Occupied(f)
  <2>1. UNCHANGED <<pool, refs>> /\ outcome' \in Outcome
    BY <1>3 DEF WriteFrame, pool, Outcome
  <2>2. TypeOK'
    BY <2>1 DEF pool, TypeOK
  <2>3. FramePartition'
    BY <2>1, SamePartition DEF pool
  <2>4. EvictableOccupied'
    BY <2>1 DEF pool, EvictableOccupied, Evictable, Occupied
  <2> QED
    BY <2>2, <2>3, <2>4
<1> QED
  BY <1>2, <1>3

\* nor decrease_pin_count, even of a frame that was given to another page.
LEMMA UnpinInv ==
  ASSUME PoolInv, NEW c \in Clients, NEW p \in Pages,
         decrease_pin_count(c, p), UNCHANGED m_next_page
  PROVE  PoolInv'
<1> USE DEF PoolInv
<1> DEFINE r == refs[c][p]
           h == [m_frames[r.frame] EXCEPT !.pin_count = @ - 1]
<1>1. r \in Ref
  BY DEF TypeOK
<1>2. m_frames' = [m_frames EXCEPT ![r.frame] = h]
  BY DEF decrease_pin_count
<1>3. ASSUME r.frame \in Frames
      PROVE  h \in Header \cup Blank /\ h.frame_id = m_frames[r.frame].frame_id
  <2> HIDE DEF r
  <2>1. ASSUME NEW x \in Header
        PROVE  /\ [x EXCEPT !.pin_count = @ - 1] \in Header
               /\ [x EXCEPT !.pin_count = @ - 1].frame_id = x.frame_id
    BY DEF Header
  <2>2. ASSUME NEW x \in Blank
        PROVE  /\ [x EXCEPT !.pin_count = @ - 1] \in Blank
               /\ [x EXCEPT !.pin_count = @ - 1].frame_id = x.frame_id
    <3>1. x.pin_count - 1 \in Int
      BY DEF Blank
    <3> DEFINE n == x.pin_count - 1
    <3>2. n \in Int
      BY <3>1
    <3> HIDE DEF n
    <3>3. /\ [x EXCEPT !.pin_count = n] \in Blank
          /\ [x EXCEPT !.pin_count = n].frame_id = x.frame_id
      BY <3>2 DEF Blank
    <3> QED
      BY <3>3 DEF n
  <2>3. m_frames[r.frame] \in Header \/ m_frames[r.frame] \in Blank
    BY <1>3 DEF TypeOK
  <2> QED
    BY <2>1, <2>2, <2>3
<1>4. \A g \in Frames : m_frames'[g].frame_id = m_frames[g].frame_id
  BY <1>2, <1>3 DEF TypeOK
<1>5. TypeOK'
  <2>1. m_frames' \in [Frames -> Header \cup Blank]
    BY <1>2, <1>3 DEF TypeOK
  <2>2. r.pins > 1 => [frame |-> r.frame, pins |-> r.pins - 1] \in Ref
    BY <1>1 DEF Ref
  <2>3. (IF r.pins = 1 THEN NoRef
         ELSE [frame |-> r.frame, pins |-> r.pins - 1]) \in Ref
    BY <1>1, <2>2 DEF decrease_pin_count, NoRef, Ref
  <2>4. refs' \in [Clients -> [Pages -> Ref]]
    BY <2>3 DEF decrease_pin_count, TypeOK
  <2> QED
    BY <2>1, <2>4 DEF decrease_pin_count, TypeOK, Outcome
<1>6. FramePartition'
  BY <1>4, SamePartition DEF decrease_pin_count
<1>7. EvictableOccupied'
  BY <1>4 DEF decrease_pin_count, EvictableOccupied, Evictable, Occupied
<1> QED
  BY <1>5, <1>6, <1>7
-----------------------------------------------------------------------------
(* Steps that load a page into a frame.                                    *)

\* A page is loaded into the first free frame.
LEMMA LoadInv ==
  ASSUME PoolInv, NEW c \in Clients, NEW p \in Pages, NEW b \in BOOLEAN,
         LoadIntoFreeFrame(c, p, b), UNCHANGED m_next_page
  PROVE  PoolInv'
<1> USE DEF PoolInv
<1> DEFINE f == Head(m_empty_frames)
           h == Loaded(p, f, b)
           ns == SetEvictable(nodes, f, TRUE)
<1>1. m_empty_frames # <<>> /\ m_empty_frames \in Seq(Frames)
  BY RoomLemma DEF LoadIntoFreeFrame, RoomMeansFreeFrame, TypeOK
<1>2. f \in Frames /\ f = m_empty_frames[1] /\ 1 \in DOMAIN m_empty_frames
  BY <1>1
<1>3. ~Occupied(f) /\ f # NoFrame
  BY <1>2, FrameFacts DEF FramePartition
<1>4. h \in Header /\ h.frame_id = f
  BY <1>2, LoadedType
<1>5. /\ m_page_table' = [m_page_table EXCEPT ![p] = f]
      /\ m_frames' = [m_frames EXCEPT ![f] = h]
      /\ m_empty_frames' = Tail(m_empty_frames)
      /\ nodes' = RecordAccess(ns, f)
      /\ refs' = Granted(c, p, f, b)
      /\ disk' = disk /\ outcome' = "ok"
      /\ ~Cached(p)
  BY DEF LoadIntoFreeFrame, Assigned
<1>6. ns \in [Frames -> Node] /\ nodes' \in [Frames -> Node]
  BY <1>2, <1>5, ReplacerTypes DEF TypeOK
<1> HIDE DEF h, ns
<1>7. TypeOK'
  <2>1. refs' \in [Clients -> [Pages -> Ref]]
    BY <1>2, <1>5, RefTypes
  <2>2. m_empty_frames' \in Seq(Frames)
    BY <1>1, <1>5
  <2>3. m_frames' \in [Frames -> Header \cup Blank]
    BY <1>2, <1>4, <1>5 DEF TypeOK
  <2> HIDE DEF f
  <2>4. m_page_table' \in [Pages -> Frames \cup {NoFrame}]
    BY <1>2, <1>5 DEF TypeOK
  <2> QED
    BY <1>5, <1>6, <2>1, <2>2, <2>3, <2>4 DEF TypeOK, Outcome
<1>8. \A g \in Frames : Occupied(g)' <=> Occupied(g) \/ g = f
  <2> HIDE DEF f
  <2> QED
    BY <1>2, <1>3, <1>4, <1>5 DEF Occupied, TypeOK
<1>9. FramePartition'
  <2>1. \A q \in Pages : m_page_table'[q] = IF q = p THEN f ELSE m_page_table[q]
    <3> HIDE DEF f
    <3> QED
      BY <1>5 DEF TypeOK
  <2>2. \A q \in Pages : m_page_table[q] # f
    BY <1>2, <1>3 DEF FramePartition
  <2>3. /\ DOMAIN m_empty_frames' = 1 .. Len(m_empty_frames) - 1
        /\ Len(m_empty_frames) \in Nat
        /\ DOMAIN m_empty_frames = 1 .. Len(m_empty_frames)
        /\ \A i \in DOMAIN m_empty_frames' :
              m_empty_frames'[i] = m_empty_frames[i + 1]
    BY <1>1, <1>5
  <2>4. \A i \in DOMAIN m_empty_frames : m_empty_frames[i] = f => i = 1
    BY <1>2 DEF FramePartition
  <2>5. \A g \in Frames \ {f} : m_frames'[g] = m_frames[g]
    <3> HIDE DEF f
    <3> QED
      BY <1>5 DEF TypeOK
  <2>6. m_frames'[f] = h
    <3> HIDE DEF f
    <3> QED
      BY <1>2, <1>5 DEF TypeOK
  <2> HIDE DEF f
  <2>7. \A q1, q2 \in Pages :
           Cached(q1)' /\ m_page_table'[q1] = m_page_table'[q2] => q1 = q2
    BY <2>1, <2>2 DEF FramePartition, Cached
  <2>8. \A i, j \in DOMAIN m_empty_frames' :
           m_empty_frames'[i] = m_empty_frames'[j] => i = j
    <3> SUFFICES ASSUME NEW i \in DOMAIN m_empty_frames',
                        NEW j \in DOMAIN m_empty_frames',
                        m_empty_frames'[i] = m_empty_frames'[j]
                 PROVE  i = j
      OBVIOUS
    <3>1. i + 1 \in DOMAIN m_empty_frames /\ j + 1 \in DOMAIN m_empty_frames
      BY <2>3
    <3>2. m_empty_frames[i + 1] = m_empty_frames[j + 1]
      BY <2>3
    <3>3. i + 1 = j + 1
      BY <3>1, <3>2 DEF FramePartition
    <3> QED
      BY <2>3, <3>3
  <2>9. ASSUME NEW g \in Frames
        PROVE  IF Occupied(g)'
               THEN /\ m_frames'[g].frame_id = g
                    /\ \E q \in Pages : m_page_table'[q] = g
                    /\ \A i \in DOMAIN m_empty_frames' : m_empty_frames'[i] # g
               ELSE /\ \A q \in Pages : m_page_table'[q] # g
                    /\ \E i \in DOMAIN m_empty_frames' : m_empty_frames'[i] = g
    <3>1. CASE g = f
      <4>1. \A i \in DOMAIN m_empty_frames' :
               i + 1 \in DOMAIN m_empty_frames /\ i + 1 # 1
        BY <2>3
      <4> QED
        BY <1>4, <1>8, <2>1, <2>3, <2>4, <2>6, <3>1, <4>1
    <3>2. CASE g # f /\ Occupied(g)
      <4>1. PICK q \in Pages : m_page_table[q] = g
        BY <3>2 DEF FramePartition
      <4>2. q # p
        BY <1>5, <3>2, <4>1, FrameFacts DEF Cached
      <4>3. \A i \in DOMAIN m_empty_frames' : i + 1 \in DOMAIN m_empty_frames
        BY <2>3
      <4>4. \A i \in DOMAIN m_empty_frames : m_empty_frames[i] # g
        BY <3>2 DEF FramePartition
      <4>5. m_frames'[g].frame_id = g
        BY <2>5, <3>2 DEF FramePartition
      <4> QED
        BY <1>8, <2>1, <2>3, <3>2, <4>1, <4>2, <4>3, <4>4, <4>5
    <3>3. CASE g # f /\ ~Occupied(g)
      <4>1. PICK i \in DOMAIN m_empty_frames : m_empty_frames[i] = g
        BY <3>3 DEF FramePartition
      <4>2. i # 1
        BY <1>2, <3>3, <4>1
      <4>3. i - 1 \in DOMAIN m_empty_frames' /\ m_empty_frames'[i - 1] = g
        BY <2>3, <4>1, <4>2
      <4>4. \A q \in Pages : m_page_table[q] # g
        BY <3>3 DEF FramePartition
      <4> QED
        BY <1>8, <2>1, <3>3, <4>3, <4>4
    <3> QED
      BY <3>1, <3>2, <3>3
  <2> QED
    BY <2>7, <2>8, <2>9 DEF FramePartition
<1>10. EvictableOccupied'
  <2>1. ASSUME NEW g \in Frames, g # f
        PROVE  nodes'[g].is_evictable = nodes[g].is_evictable
    <3>1. ns[g].is_evictable = nodes[g].is_evictable
      BY <1>2, <2>1, ReplacerEvictable DEF ns, TypeOK
    <3>2. RecordAccess(ns, f)[g].is_evictable = ns[g].is_evictable
      BY <1>2, <1>6, <2>1, ReplacerEvictable
    <3> QED
      BY <1>5, <3>1, <3>2
  <2>2. \A g \in Frames : nodes[g].is_evictable => Occupied(g)
    BY EvictableFact
  <2> HIDE DEF f
  <2>3. \A g \in Frames : nodes'[g].is_evictable => Occupied(g)'
    BY <1>8, <2>1, <2>2
  <2> QED
    BY <2>3 DEF EvictableOccupied, Evictable
<1> QED
  BY <1>7, <1>9, <1>10
-----------------------------------------------------------------------------
(* Steps that put a page in the place of another.  The table is full, so    *)
(* the free list is empty and the frame given up is the frame taken.        *)

\* A page makes way for another in the same frame,
LEMMA ReplaceInv ==
  ASSUME PoolInv, ~HasRoom, NEW c \in Clients,
         NEW p \in Pages, NEW q \in Pages, NEW f \in Frames, NEW b \in BOOLEAN,
         ~Cached(p), m_page_table[q] = f,
         Replace(q, f, p, f, b),
         refs' = Granted(c, p, f, b), disk' \in [Pages -> Data], outcome' = "ok",
         UNCHANGED m_next_page,
         nodes' \in [Frames -> Node],
         \A g \in Frames \ {f} : nodes'[g].is_evictable => nodes[g].is_evictable
  PROVE  PoolInv'
<1> USE DEF PoolInv
<1> DEFINE h == Loaded(p, f, b)
<1>1. m_empty_frames = <<>> /\ f # NoFrame /\ p # q
  BY FullLemma, FrameFacts DEF Cached
<1>2. Append(m_empty_frames, f) = <<f>>
  BY <1>1
<1>3. Head(<<f>>) = f /\ Tail(<<f>>) = <<>>
  OBVIOUS
<1>4. h \in Header /\ h.frame_id = f
  BY LoadedType
<1>5. /\ m_page_table' = [m_page_table EXCEPT ![q] = NoFrame, ![p] = f]
      /\ m_frames' = [m_frames EXCEPT ![f] = FreeHeader, ![f] = h]
      /\ m_empty_frames' = <<>>
  BY <1>2, <1>3 DEF Replace
<1> HIDE DEF h
<1>6. \A r \in Pages : m_page_table'[r] = IF r = p THEN f
                                         ELSE IF r = q THEN NoFrame
                                         ELSE m_page_table[r]
  BY <1>1, <1>5 DEF TypeOK
<1>7. \A g \in Frames : m_frames'[g] = IF g = f THEN h ELSE m_frames[g]
  BY <1>5 DEF TypeOK
<1>8. TypeOK'
  <2>1. refs' \in [Clients -> [Pages -> Ref]]
    BY RefTypes
  <2>2. m_page_table' \in [Pages -> Frames \cup {NoFrame}]
    BY <1>5 DEF TypeOK
  <2>3. m_frames' \in [Frames -> Header \cup Blank]
    BY <1>4, <1>5 DEF TypeOK
  <2>4. m_empty_frames' \in Seq(Frames)
    BY <1>5
  <2> QED
    BY <2>1, <2>2, <2>3, <2>4 DEF TypeOK, Outcome
<1>9. \A g \in Frames : Occupied(g)
  BY <1>1 DEF FramePartition
<1>10. \A g \in Frames : Occupied(g)'
  BY <1>1, <1>4, <1>7, <1>9 DEF Occupied
<1>11. FramePartition'
  <2>1. \A r \in Pages : m_page_table[r] = f => r = q
    BY <1>1 DEF FramePartition, Cached
  <2>2. \A r, s \in Pages :
           Cached(r)' /\ m_page_table'[r] = m_page_table'[s] => r = s
    BY <1>1, <1>6, <2>1 DEF FramePartition, Cached
  <2>3. \A i \in DOMAIN m_empty_frames' : FALSE
    BY <1>5
  <2>4. ASSUME NEW g \in Frames
        PROVE  m_frames'[g].frame_id = g /\ \E r \in Pages : m_page_table'[r] = g
    <3>1. CASE g = f
      BY <1>4, <1>6, <1>7, <3>1
    <3>2. CASE g # f
      <4>1. PICK r \in Pages : m_page_table[r] = g
        BY <1>9 DEF FramePartition
      <4>2. r # p /\ r # q
        BY <3>2, <4>1, FrameFacts DEF Cached
      <4> QED
        BY <1>6, <1>7, <1>9, <3>2, <4>1, <4>2 DEF FramePartition
    <3> QED
      BY <3>1, <3>2
  <2> QED
    BY <1>10, <2>2, <2>3, <2>4 DEF FramePartition
<1>12. EvictableOccupied'
  BY <1>10 DEF EvictableOccupied, Evictable
<1> QED
  BY <1>8, <1>11, <1>12

\* after its data was written,
LEMMA FlushAndLoadInv ==
  ASSUME PoolInv, NEW c \in Clients, NEW p \in Pages, NEW b \in BOOLEAN,
         FlushAndLoad(c, p, b), UNCHANGED m_next_page
  PROVE  PoolInv'
<1>1. PICK f \in Frames, q \in Pages :
        /\ m_page_table[q] = f
        /\ disk' = [disk EXCEPT ![q] = m_frames[f].data]
        /\ LET g == Head(Append(m_empty_frames, f))
           IN  /\ Replace(q, f, p, g, b)
               /\ nodes' = RecordAccess(
                    Assigned(RecordAccess(Remove(nodes, f), g), g), g)
               /\ refs' = Granted(c, p, g, b)
  BY DEF FlushAndLoad
<1>2. m_empty_frames = <<>>
  BY FullLemma DEF FlushAndLoad, PoolInv
<1>3. Head(Append(m_empty_frames, f)) = f
  BY <1>2
<1> DEFINE n1 == Remove(nodes, f)
           n2 == RecordAccess(n1, f)
           n3 == SetEvictable(n2, f, TRUE)
<1>4. /\ Replace(q, f, p, f, b)
      /\ nodes' = RecordAccess(n3, f)
      /\ refs' = Granted(c, p, f, b)
  BY <1>1, <1>3 DEF Assigned
<1>5. nodes \in [Frames -> Node] /\ n1 \in [Frames -> Node]
  BY ReplacerTypes DEF TypeOK, PoolInv
<1>6. \A g \in Frames \ {f} : n1[g].is_evictable = nodes[g].is_evictable
  BY <1>5, ReplacerEvictable
<1> HIDE DEF n1
<1>7. n2 \in [Frames -> Node]
  BY <1>5, ReplacerTypes
<1>8. \A g \in Frames \ {f} : n2[g].is_evictable = n1[g].is_evictable
  BY <1>5, ReplacerEvictable
<1> HIDE DEF n2
<1>9. n3 \in [Frames -> Node]
  BY <1>7, ReplacerTypes
<1>10. \A g \in Frames \ {f} : n3[g].is_evictable = n2[g].is_evictable
  BY <1>7, ReplacerEvictable
<1> HIDE DEF n3
<1>11. nodes' \in [Frames -> Node]
  BY <1>4, <1>9, ReplacerTypes
<1>12. \A g \in Frames \ {f} : nodes'[g].is_evictable = n3[g].is_evictable
  BY <1>4, <1>9, ReplacerEvictable
<1>13. \A g \in Frames \ {f} : nodes'[g].is_evictable => nodes[g].is_evictable
  BY <1>6, <1>8, <1>10, <1>12
<1>14. disk' \in [Pages -> Data]
  BY <1>1, HeaderFacts DEF TypeOK, PoolInv
<1>15. ~HasRoom /\ ~Cached(p) /\ outcome' = "ok"
  BY DEF FlushAndLoad
<1> QED
  BY <1>1, <1>4, <1>11, <1>13, <1>14, <1>15, ReplaceInv

\* or because the replacer chose its frame.
LEMMA EvictAndLoadInv ==
  ASSUME PoolInv, NEW c \in Clients, NEW p \in Pages, NEW b \in BOOLEAN,
         EvictAndLoad(c, p, b), UNCHANGED m_next_page
  PROVE  PoolInv'
<1>1. PICK f \in Frames, q \in Pages :
        /\ m_page_table[q] = f
        /\ Replace(q, f, p, f, b)
        /\ nodes' = RecordAccess(Assigned(Remove(Erase(nodes, f), f), f), f)
        /\ refs' = Granted(c, p, f, b)
  BY VictimsEvictable DEF EvictAndLoad, Evictable
<1> DEFINE n1 == Erase(nodes, f)
           n2 == Remove(n1, f)
           n3 == SetEvictable(n2, f, TRUE)
<1>2. nodes' = RecordAccess(n3, f)
  BY <1>1 DEF Assigned
<1>3. nodes \in [Frames -> Node] /\ n1 \in [Frames -> Node]
  BY ReplacerTypes DEF TypeOK, PoolInv
<1>4. \A g \in Frames \ {f} : n1[g].is_evictable = nodes[g].is_evictable
  BY <1>3, ReplacerEvictable
<1> HIDE DEF n1
<1>5. n2 \in [Frames -> Node]
  BY <1>3, ReplacerTypes
<1>6. \A g \in Frames \ {f} : n2[g].is_evictable = n1[g].is_evictable
  BY <1>3, ReplacerEvictable
<1> HIDE DEF n2
<1>7. n3 \in [Frames -> Node]
  BY <1>5, ReplacerTypes
<1>8. \A g \in Frames \ {f} : n3[g].is_evictable = n2[g].is_evictable
  BY <1>5, ReplacerEvictable
<1> HIDE DEF n3
<1>9. nodes' \in [Frames -> Node]
  BY <1>2, <1>7, ReplacerTypes
<1>10. \A g \in Frames \ {f} : nodes'[g].is_evictable = n3[g].is_evictable
  BY <1>2, <1>7, ReplacerEvictable
<1>11. \A g \in Frames \ {f} : nodes'[g].is_evictable => nodes[g].is_evictable
  BY <1>4, <1>6, <1>8, <1>10
<1>12. /\ disk' \in [Pages -> Data] /\ ~HasRoom /\ ~Cached(p)
       /\ outcome' = "ok"
  BY DEF EvictAndLoad, TypeOK, PoolInv
<1> QED
  BY <1>1, <1>9, <1>11, <1>12, ReplaceInv
-----------------------------------------------------------------------------
(* Steps that give frames back to the free list: D is the set of frames,    *)
(* order the sequence in which they are appended.                           *)

\* What is in a concatenation; it repeats nothing when neither part does and they
\* share nothing.
LEMMA Concatenation ==
  ASSUME NEW S, NEW s \in Seq(S), NEW t \in Seq(S)
  PROVE  /\ \A x : (\E i \in DOMAIN (s \o t) : (s \o t)[i] = x)
                 <=> \/ \E i \in DOMAIN s : s[i] = x
                     \/ \E i \in DOMAIN t : t[i] = x
         /\ /\ \A i, j \in DOMAIN s : s[i] = s[j] => i = j
            /\ \A i, j \in DOMAIN t : t[i] = t[j] => i = j
            /\ \A i \in DOMAIN s, j \in DOMAIN t : s[i] # t[j]
            => \A i, j \in DOMAIN (s \o t) : (s \o t)[i] = (s \o t)[j] => i = j
<1> DEFINE n == Len(s)
           m == Len(t)
           st == s \o t
<1>1. /\ n \in Nat /\ m \in Nat
      /\ DOMAIN s = 1 .. n /\ DOMAIN t = 1 .. m /\ DOMAIN st = 1 .. n + m
      /\ \A i \in 1 .. n : st[i] = s[i]
      /\ \A i \in 1 .. m : st[n + i] = t[i]
  OBVIOUS
<1> HIDE DEF n, m, st
<1>2. \A i \in 1 .. n + m : \/ i \in 1 .. n /\ st[i] = s[i]
                            \/ i - n \in 1 .. m /\ st[i] = t[i - n]
  <2> SUFFICES ASSUME NEW i \in 1 .. n + m, i \notin 1 .. n
               PROVE  i - n \in 1 .. m /\ st[i] = t[i - n]
    BY <1>1
  <2>1. i - n \in 1 .. m /\ i = n + (i - n)
    BY <1>1
  <2> QED
    BY <1>1, <2>1
<1>3. \A i \in 1 .. n : i \in 1 .. n + m
  BY <1>1
<1>4. \A i \in 1 .. m : n + i \in 1 .. n + m
  BY <1>1
<1>5. \A x : (\E i \in DOMAIN st : st[i] = x)
           <=> \/ \E i \in DOMAIN s : s[i] = x
               \/ \E i \in DOMAIN t : t[i] = x
  BY <1>1, <1>2, <1>3, <1>4
<1>6. ASSUME \A i, j \in DOMAIN s : s[i] = s[j] => i = j,
             \A i, j \in DOMAIN t : t[i] = t[j] => i = j,
             \A i \in DOMAIN s, j \in DOMAIN t : s[i] # t[j],
             NEW i \in DOMAIN st, NEW j \in DOMAIN st, st[i] = st[j]
      PROVE  i = j
  <2>1. i \in 1 .. n + m /\ j \in 1 .. n + m
    BY <1>1
  <2>2. CASE i \in 1 .. n /\ st[i] = s[i]
    <3>1. ~(j - n \in 1 .. m /\ st[j] = t[j - n])
      <4> SUFFICES ASSUME j - n \in DOMAIN t, st[j] = t[j - n]
                   PROVE  FALSE
        BY <1>1
      <4>1. i \in DOMAIN s /\ s[i] # t[j - n]
        BY <1>1, <1>6, <2>2
      <4> QED
        BY <1>6, <2>2, <4>1
    <3>2. j \in 1 .. n /\ st[j] = s[j]
      BY <1>2, <2>1, <3>1
    <3> QED
      BY <1>1, <1>6, <2>2, <3>2
  <2>3. CASE i - n \in 1 .. m /\ st[i] = t[i - n]
    <3>1. j - n \in 1 .. m /\ st[j] = t[j - n]
      BY <1>1, <1>2, <1>6, <2>1, <2>3
    <3>2. i - n = j - n
      BY <1>1, <1>6, <2>3, <3>1
    <3> QED
      BY <1>1, <2>1, <3>2
  <2> QED
    BY <1>2, <2>1, <2>2, <2>3
<1> QED
  BY <1>5, <1>6 DEF st

Releases(D, order) ==
  /\ D \in SUBSET Frames
  /\ \A f \in D : Occupied(f) /\ ~nodes'[f].is_evictable
  /\ order \in Seq(Frames)
  /\ \A i, j \in DOMAIN order : order[i] = order[j] => i = j
  /\ \A f : f \in D <=> \E i \in DOMAIN order : order[i] = f
  /\ m_page_table' = [p \in Pages |-> IF m_page_table[p] \in D
                                      THEN NoFrame ELSE m_page_table[p]]
  /\ m_frames' = [f \in Frames |-> IF f \in D THEN FreeHeader ELSE m_frames[f]]
  /\ m_empty_frames' = m_empty_frames \o order
  /\ nodes' \in [Frames -> Node]
  /\ \A f \in Frames \ D : nodes'[f] = nodes[f]
  /\ disk' \in [Pages -> Data]
  /\ refs' \in [Clients -> [Pages -> Ref]]
  /\ outcome' \in Outcome
  /\ m_next_page' = m_next_page

\* Frames that are released, in any order, go to the free list.
LEMMA ReleaseInv ==
  ASSUME PoolInv, NEW D, NEW order, Releases(D, order)
  PROVE  PoolInv'
<1> USE DEF PoolInv, Releases
<1>1. m_empty_frames \in Seq(Frames) /\ order \in Seq(Frames)
  BY DEF TypeOK
<1>2. TypeOK'
  <2>1. m_page_table' \in [Pages -> Frames \cup {NoFrame}]
    BY DEF TypeOK
  <2>2. m_frames' \in [Frames -> Header \cup Blank]
    BY FreeHeaderType DEF TypeOK
  <2>3. m_empty_frames' \in Seq(Frames)
    BY <1>1
  <2> QED
    BY <2>1, <2>2, <2>3 DEF TypeOK
<1>3. \A f \in Frames : Occupied(f)' <=> Occupied(f) /\ f \notin D
  BY FreeHeaderType DEF Occupied
<1>4. \A f : (\E i \in DOMAIN m_empty_frames' : m_empty_frames'[i] = f)
           <=> \/ \E i \in DOMAIN m_empty_frames : m_empty_frames[i] = f
               \/ f \in D
  <2> DEFINE e == m_empty_frames \o order
  <2>1. \A f : (\E i \in DOMAIN e : e[i] = f)
               <=> \/ \E i \in DOMAIN m_empty_frames : m_empty_frames[i] = f
                   \/ \E i \in DOMAIN order : order[i] = f
    BY <1>1, Concatenation
  <2> QED
    BY <2>1
<1>5. \A f \in Frames : Occupied(f) <=> ~\E i \in DOMAIN m_empty_frames :
                                            m_empty_frames[i] = f
  BY DEF FramePartition
<1>6. \A i, j \in DOMAIN m_empty_frames' :
         m_empty_frames'[i] = m_empty_frames'[j] => i = j
  <2>1. \A i \in DOMAIN m_empty_frames, j \in DOMAIN order :
           m_empty_frames[i] # order[j]
    BY <1>5
  <2>2. \A i, j \in DOMAIN m_empty_frames :
           m_empty_frames[i] = m_empty_frames[j] => i = j
    BY DEF FramePartition
  <2> QED
    BY <1>1, <2>1, <2>2, Concatenation
<1>7. FramePartition'
  <2>1. \A p, q \in Pages :
           Cached(p)' /\ m_page_table'[p] = m_page_table'[q] => p = q
    BY FrameFacts DEF FramePartition, Cached
  <2>2. ASSUME NEW f \in Frames
        PROVE  IF Occupied(f)'
               THEN /\ m_frames'[f].frame_id = f
                    /\ \E p \in Pages : m_page_table'[p] = f
                    /\ \A i \in DOMAIN m_empty_frames' : m_empty_frames'[i] # f
               ELSE /\ \A p \in Pages : m_page_table'[p] # f
                    /\ \E i \in DOMAIN m_empty_frames' : m_empty_frames'[i] = f
    <3>1. CASE Occupied(f) /\ f \notin D
      <4>1. PICK p \in Pages : m_page_table[p] = f
        BY <3>1 DEF FramePartition
      <4>2. m_page_table'[p] = f
        BY <3>1, <4>1
      <4>3. m_frames'[f].frame_id = f
        BY <3>1 DEF FramePartition
      <4>4. ~\E i \in DOMAIN m_empty_frames' : m_empty_frames'[i] = f
        BY <1>4, <1>5, <3>1
      <4> QED
        BY <1>3, <3>1, <4>2, <4>3, <4>4
    <3>2. CASE ~Occupied(f) \/ f \in D
      <4>1. \E i \in DOMAIN m_empty_frames' : m_empty_frames'[i] = f
        BY <1>4, <1>5, <3>2
      <4>2. \A p \in Pages : m_page_table[p] = f => f \in D
        BY <3>2 DEF FramePartition
      <4>3. \A p \in Pages : m_page_table'[p] # f
        BY <4>2, FrameFacts
      <4> QED
        BY <1>3, <3>2, <4>1, <4>3
    <3> QED
      BY <3>1, <3>2
  <2> QED
    BY <1>6, <2>1, <2>2 DEF FramePartition
<1>8. EvictableOccupied'
  <2>1. \A f \in Frames : nodes[f].is_evictable => Occupied(f)
    BY EvictableFact
  <2>2. \A f \in Frames : nodes'[f].is_evictable => Occupied(f)'
    BY <1>3, <2>1
  <2> QED
    BY <2>2 DEF EvictableOccupied, Evictable
<1> QED
  BY <1>2, <1>7, <1>8

\* flush_page releases one frame,
LEMMA FlushPageInv ==
  ASSUME PoolInv, NEW c \in Clients, NEW p \in Pages,
         flush_page(c, p), UNCHANGED m_next_page
  PROVE  PoolInv'
<1>1. CASE Cached(p)
  <2> DEFINE f == m_page_table[p]
  <2>1. f \in Frames /\ Occupied(f)
    BY <1>1 DEF PoolInv, TypeOK, Cached, FramePartition
  <2>2. \A q \in Pages : m_page_table[q] = f => q = p
    BY <1>1 DEF PoolInv, FramePartition, Cached
  <2>3. /\ disk' = [disk EXCEPT ![p] = m_frames[f].data]
        /\ m_page_table' = [m_page_table EXCEPT ![p] = NoFrame]
        /\ m_frames' = [m_frames EXCEPT ![f] = FreeHeader]
        /\ m_empty_frames' = Append(m_empty_frames, f)
        /\ nodes' = Remove(nodes, f)
        /\ refs' = Released(c, {p})
        /\ outcome' = "ok"
    BY <1>1 DEF flush_page
  <2> DEFINE D == {f}
             order == <<f>>
  <2>4. m_page_table' = [q \in Pages |-> IF m_page_table[q] \in D
                                         THEN NoFrame ELSE m_page_table[q]]
    BY <2>2, <2>3 DEF PoolInv, TypeOK
  <2>5. m_frames' = [g \in Frames |-> IF g \in D THEN FreeHeader ELSE m_frames[g]]
    <3> HIDE DEF f
    <3> QED
      BY <2>1, <2>3 DEF PoolInv, TypeOK
  <2>6. m_empty_frames \in Seq(Frames)
    BY DEF PoolInv, TypeOK
  <2>7. nodes' \in [Frames -> Node] /\ \A g \in D : ~nodes'[g].is_evictable
    BY <2>1, <2>3, ReplacerTypes, RemovedNotEvictable DEF PoolInv, TypeOK
  <2>8. \A g \in Frames \ D : nodes'[g] = nodes[g]
    <3> HIDE DEF f
    <3> QED
      BY <2>1, <2>3 DEF Remove, PoolInv, TypeOK
  <2>9. disk' \in [Pages -> Data]
    BY <2>1, <2>3, HeaderFacts DEF PoolInv, TypeOK
  <2>10. refs' \in [Clients -> [Pages -> Ref]] /\ outcome' \in Outcome
    BY <2>3, RefTypes DEF PoolInv, Outcome
  <2> HIDE DEF f
  <2>11. /\ D \in SUBSET Frames /\ order \in Seq(Frames)
         /\ DOMAIN order = {1} /\ order[1] = f
         /\ \A g \in D : Occupied(g)
    BY <2>1
  <2>12. m_empty_frames' = m_empty_frames \o order
    BY <2>1, <2>3, <2>6
  <2>13. /\ \A i, j \in DOMAIN order : order[i] = order[j] => i = j
         /\ \A g : g \in D <=> \E i \in DOMAIN order : order[i] = g
    BY <2>11
  <2> HIDE DEF D, order
  <2>14. Releases(D, order)
    BY <2>4, <2>5, <2>7, <2>8, <2>9, <2>10, <2>11, <2>12, <2>13 DEF Releases
  <2> QED
    BY <2>14, ReleaseInv
<1>2. CASE ~Cached(p)
  <2>1. /\ UNCHANGED pool /\ refs' = Released(c, {})
        /\ outcome' = "nothing_to_flush"
    BY <1>2 DEF flush_page
  <2>2. TypeOK'
    <3>1. refs' \in [Clients -> [Pages -> Ref]]
      BY <2>1, RefTypes DEF PoolInv
    <3> QED
      BY <2>1, <3>1 DEF PoolInv, TypeOK, pool, Outcome
  <2>3. FramePartition'
    BY <2>1, SamePartition DEF PoolInv, pool
  <2>4. EvictableOccupied'
    BY <2>1 DEF PoolInv, pool, EvictableOccupied, Evictable, Occupied
  <2> QED
    BY <2>2, <2>3, <2>4 DEF PoolInv
<1> QED
  BY <1>1, <1>2
-----------------------------------------------------------------------------
\* and flush_pages all dirty ones.
LEMMA FlushPagesInv ==
  ASSUME PoolInv, NEW c \in Clients,
         flush_pages(c), UNCHANGED m_next_page
  PROVE  PoolInv'
<1> DEFINE D == DirtyFrames
<1>1. PICK order \in Bijection(1 .. Cardinality(D), D) :
        m_empty_frames' = m_empty_frames \o order
  BY DEF flush_pages
<1>2. /\ disk' = [q \in Pages |-> IF q \in DirtyPages
                                  THEN m_frames[m_page_table[q]].data
                                  ELSE disk[q]]
      /\ m_page_table' = [q \in Pages |-> IF q \in DirtyPages
                                          THEN NoFrame ELSE m_page_table[q]]
      /\ m_frames' = [f \in Frames |-> IF m_frames[f].is_dirty
                                       THEN FreeHeader ELSE m_frames[f]]
      /\ nodes' = [f \in Frames |-> IF m_frames[f].is_dirty
                                    THEN Remove(nodes, f)[f] ELSE nodes[f]]
      /\ refs' = Released(c, DirtyPages)
      /\ outcome' \in Outcome
  BY DEF flush_pages, Outcome
<1>3. \A f \in D : f \in Frames /\ Occupied(f)
  BY HeaderFacts DEF PoolInv, DirtyFrames
<1>4. \A q \in Pages : q \in DirtyPages <=> m_page_table[q] \in D
  BY FrameFacts DEF DirtyPages, DirtyFrames, Cached, PoolInv, TypeOK
<1>5. IsFiniteSet(D)
  BY FramesFinite, FS_Subset DEF DirtyFrames
<1>6. Cardinality(D) \in Nat
  BY <1>5, FS_CardinalityType
<1>7. /\ order \in [1 .. Cardinality(D) -> D]
      /\ \A i, j \in DOMAIN order : order[i] = order[j] => i = j
      /\ \A f \in D : \E i \in DOMAIN order : order[i] = f
  BY <1>1 DEF Bijection, Injection, Surjection, IsInjective
<1>8. order \in Seq(Frames)
  BY <1>3, <1>6, <1>7
<1>9. \A f : f \in D <=> \E i \in DOMAIN order : order[i] = f
  BY <1>7
<1>10. nodes' \in [Frames -> Node] /\ \A f \in D : ~nodes'[f].is_evictable
  <2>1. nodes \in [Frames -> Node]
    BY DEF PoolInv, TypeOK
  <2>2. \A f \in Frames : Remove(nodes, f)[f] \in Node
    BY <2>1, ReplacerTypes
  <2>3. \A f \in Frames : ~Remove(nodes, f)[f].is_evictable
    BY <2>1, RemovedNotEvictable
  <2> QED
    BY <1>2, <2>1, <2>2, <2>3 DEF DirtyFrames
<1>11. disk' \in [Pages -> Data]
  <2>1. \A q \in DirtyPages : m_frames[m_page_table[q]].data \in Data
    BY <1>3, <1>4, HeaderFacts DEF PoolInv, DirtyPages
  <2> QED
    BY <1>2, <2>1 DEF PoolInv, TypeOK
<1>12. refs' \in [Clients -> [Pages -> Ref]]
  BY <1>2, RefTypes DEF PoolInv
<1>13. /\ m_page_table' = [q \in Pages |-> IF m_page_table[q] \in D
                                           THEN NoFrame ELSE m_page_table[q]]
       /\ m_frames' = [f \in Frames |-> IF f \in D THEN FreeHeader
                                                     ELSE m_frames[f]]
       /\ \A f \in Frames \ D : nodes'[f] = nodes[f]
  BY <1>2, <1>4 DEF DirtyFrames
<1>14. D \in SUBSET Frames
  BY DEF DirtyFrames
<1> HIDE DEF D
<1>15. Releases(D, order)
  BY <1>1, <1>2, <1>3, <1>7, <1>8, <1>9, <1>10, <1>11, <1>12, <1>13, <1>14
  DEF Releases
<1> QED
  BY <1>15, ReleaseInv
-----------------------------------------------------------------------------
(* The theorems.                                                           *)

\* Every way a request can go keeps the invariant,
LEMMA RequestInv ==
  ASSUME PoolInv, NEW c \in Clients, Request(c)
  PROVE  PoolInv'
<1>1. PICK p \in Pages, b \in BOOLEAN :
        request_page(c, p, b) /\ UNCHANGED m_next_page
  BY PoolAssumption DEF Request, Requestable
<1>2. CASE Hit(c, p, b)
  BY <1>1, <1>2, HitInv
<1>3. CASE LoadIntoFreeFrame(c, p, b)
  BY <1>1, <1>3, LoadInv
<1>4. CASE FlushAndLoad(c, p, b)
  BY <1>1, <1>4, FlushAndLoadInv
<1>5. CASE EvictAndLoad(c, p, b)
  BY <1>1, <1>5, EvictAndLoadInv
<1>6. CASE NoVictim(c, p)
  BY <1>1, <1>6, NoVictimInv
<1>7. CASE VictimIsPinned(c, p)
  BY <1>1, <1>7, VictimIsPinnedInv
<1> QED
  BY <1>1, <1>2, <1>3, <1>4, <1>5, <1>6, <1>7 DEF request_page

\* and so does every step.
LEMMA NextPoolInv == PoolInv /\ [Next]_vars => PoolInv'
<1> SUFFICES ASSUME PoolInv, [Next]_vars
             PROVE  PoolInv'
  OBVIOUS
<1>1. CASE UNCHANGED vars
  <2>1. TypeOK'
    BY <1>1 DEF PoolInv, vars, pool, TypeOK
  <2>2. FramePartition'
    BY <1>1, SamePartition DEF PoolInv, vars, pool
  <2>3. EvictableOccupied'
    BY <1>1 DEF PoolInv, vars, pool, EvictableOccupied, Evictable, Occupied
  <2> QED
    BY <2>1, <2>2, <2>3 DEF PoolInv
<1>2. ASSUME NEW c \in Clients, allocate_new_page(c)
      PROVE  PoolInv'
  BY <1>2, AllocateInv
<1>3. ASSUME NEW c \in Clients, Request(c)
      PROVE  PoolInv'
  BY <1>3, RequestInv
<1>4. ASSUME NEW c \in Clients, Flush(c)
      PROVE  PoolInv'
  <2>1. CASE flush_pages(c)
    BY <1>4, <2>1, FlushPagesInv DEF Flush
  <2>2. ASSUME NEW p \in Pages, flush_page(c, p)
        PROVE  PoolInv'
    BY <1>4, <2>2, FlushPageInv DEF Flush
  <2> QED
    BY <1>4, <2>1, <2>2, PoolAssumption DEF Flush, Requestable
<1>5. ASSUME NEW c \in Clients, Use(c)
      PROVE  PoolInv'
  <2>1. ASSUME NEW p \in Pages, decrease_pin_count(c, p)
        PROVE  PoolInv'
    BY <1>5, <2>1, UnpinInv DEF Use
  <2>2. ASSUME NEW p \in Pages, NEW d \in Data, WriteFrame(c, p, d)
        PROVE  PoolInv'
    BY <1>5, <2>2, WriteFrameInv DEF Use
  <2> QED
    BY <1>5, <2>1, <2>2 DEF Use
<1> QED
  BY <1>1, <1>2, <1>3, <1>4, <1>5 DEF Next

\* So the invariant always holds.
LEMMA PoolInvariant == Spec => []PoolInv
BY InitPoolInv, NextPoolInv, PTL DEF Spec

\* The state of the pool and of its clients keeps its type: in particular
\* every frame number that request_page, evict_page and the free list hand to
\* each other is that of a frame (buffer_pool.hpp:112-311).
THEOREM TypeCorrect == Spec => []TypeOK
<1>1. PoolInv => TypeOK
  BY DEF PoolInv
<1> QED
  BY <1>1, PoolInvariant, PTL

\* Whatever the clients do, and however many there are, no frame holds two
\* pages, is lost, or is both free and in use (buffer_pool.hpp:144-240,
\* 243-311).
THEOREM FramesArePartitioned == Spec => []FramePartition
<1>1. PoolInv => FramePartition
  BY DEF PoolInv
<1> QED
  BY <1>1, PoolInvariant, PTL

\* The ASSERT of buffer_pool.hpp:223 never fails: the replacer offers only
\* frames that hold a page.
THEOREM VictimsHoldPages == Spec => []EvictableOccupied
<1>1. PoolInv => EvictableOccupied
  BY DEF PoolInv
<1> QED
  BY <1>1, PoolInvariant, PTL

\* The ASSERT of buffer_pool.hpp:147 never fails: when the page table has room
\* the free list has a frame.
THEOREM RoomHasFrame == Spec => []RoomMeansFreeFrame
<1>1. PoolInv => RoomMeansFreeFrame
  BY RoomLemma DEF PoolInv
<1> QED
  BY <1>1, PoolInvariant, PTL

-----------------------------------------------------------------------------
(* One component uses the pool: its references stay good, its pins are     *)
(* counted, what is dropped from memory is on the disk, and the pool       *)
(* implements PagePool.                                                    *)

\* The frame_header of a page in memory.
HeaderOf(r) == m_frames[m_page_table[r]]

\* What one client c and the pool agree on about page r.  The second conjunct
\* is not a property of its own: it makes a pinned reference usable.
PageInv(c, r) ==
    /\ refs[c][r].frame # NoFrame => m_page_table[r] = refs[c][r].frame
    /\ refs[c][r].pins > 0 => refs[c][r].frame # NoFrame
    /\ refs[c][r].pins = IF Cached(r) THEN HeaderOf(r).pin_count ELSE 0
    /\ Cached(r) /\ ~HeaderOf(r).is_dirty => HeaderOf(r).data = disk[r]

\* The inductive invariant.
ClientInv(c) == PoolInv /\ \A r \in Pages : PageInv(c, r)

\* The three ways a call treats a page: it leaves the page where it is, it
\* throws it out of memory, or the page is in memory afterwards with a header
\* that says dirty or not, n pins and data x.
PageKept(r) ==
    /\ m_page_table'[r] = m_page_table[r]
    /\ Cached(r) => m_frames'[m_page_table[r]] = m_frames[m_page_table[r]]
    /\ disk'[r] = disk[r]

OthersKept(p, q) == \A r \in Pages : r # p /\ r # q => PageKept(r)

PageGone(r) == m_page_table'[r] = NoFrame

\* The pins a request adds.
PinsFor(b) == IF b THEN 1 ELSE 0

PageIs(r, dirty, n, x) ==
    /\ m_page_table'[r] # NoFrame
    /\ m_frames'[m_page_table'[r]].is_dirty = dirty
    /\ m_frames'[m_page_table'[r]].pin_count = n
    /\ m_frames'[m_page_table'[r]].data = x
-----------------------------------------------------------------------------
(* References after a call.                                                *)

\* A kept reference is the reference there was, or none.
LEMMA KeptFacts ==
  ASSUME TypeOK, NEW c \in Clients, NEW r \in Pages
  PROVE  /\ refs[c][r].pins \in Nat
         /\ KeptRefs(c)[r].pins = refs[c][r].pins
         /\ KeptRefs(c)[r] = refs[c][r] \/ KeptRefs(c)[r] = NoRef
<1>1. refs[c][r] \in Ref
  BY DEF TypeOK
<1> QED BY <1>1 DEF Ref, KeptRefs, NoRef

\* After a request the client has the frame of its page, with the pin it asked
\* for, and what it keeps of the other references.
LEMMA GrantedFacts ==
  ASSUME TypeOK, NEW c \in Clients, NEW p \in Pages, NEW f, NEW b \in BOOLEAN,
         refs' = Granted(c, p, f, b)
  PROVE  /\ refs'[c][p].frame = f
         /\ refs'[c][p].pins = refs[c][p].pins + PinsFor(b)
         /\ \A r \in Pages \ {p} : refs'[c][r] = KeptRefs(c)[r]
<1>1. refs'[c] = [KeptRefs(c) EXCEPT ![p] =
         [frame |-> f, pins |-> KeptRefs(c)[p].pins + PinsFor(b)]]
  BY DEF TypeOK, Granted, PinsFor
<1>2. \A r \in Pages : r \in DOMAIN KeptRefs(c)
  BY DEF KeptRefs
<1> QED BY <1>1, <1>2, KeptFacts DEF PinsFor

\* After a flush the references to the flushed pages are gone.
LEMMA ReleasedFacts ==
  ASSUME TypeOK, NEW c \in Clients, NEW ps, refs' = Released(c, ps)
  PROVE  \A r \in Pages :
            refs'[c][r] = IF r \in ps THEN NoRef ELSE KeptRefs(c)[r]
BY DEF TypeOK, Released
-----------------------------------------------------------------------------
(* One page at a time.                                                     *)

\* A page that is left alone.
LEMMA KeptPageInv ==
  ASSUME TypeOK, NEW c \in Clients, NEW r \in Pages, PageInv(c, r),
         PageKept(r),
         refs'[c][r] = refs[c][r] \/ refs'[c][r] = KeptRefs(c)[r]
  PROVE  PageInv(c, r)'
<1>1. /\ Cached(r)' <=> Cached(r)
      /\ Cached(r) => HeaderOf(r)' = HeaderOf(r)
  BY DEF PageKept, Cached, HeaderOf
<1>2. /\ refs'[c][r].pins = refs[c][r].pins
      /\ refs'[c][r] = refs[c][r] \/ refs'[c][r] = NoRef
  BY KeptFacts
<1> QED BY <1>1, <1>2, KeptFacts DEF PageInv, PageKept, NoRef

\* A page that leaves memory, with the references to it.
LEMMA GonePageInv ==
  ASSUME NEW c \in Clients, NEW r \in Pages, PageGone(r), refs'[c][r] = NoRef
  PROVE  PageInv(c, r)'
BY DEF PageInv, PageGone, Cached, NoRef

\* A page that is in memory afterwards.
LEMMA PageIsInv ==
  ASSUME NEW c \in Clients, NEW r \in Pages, NEW dirty \in BOOLEAN, NEW n, NEW x,
         PageIs(r, dirty, n, x),
         refs'[c][r].frame \in {NoFrame, m_page_table'[r]},
         refs'[c][r].pins > 0 => refs'[c][r].frame # NoFrame,
         refs'[c][r].pins = n,
         dirty \/ x = disk'[r]
  PROVE  PageInv(c, r)'
BY DEF PageInv, PageIs, Cached, HeaderOf

\* What PagePool sees of a page, now and after a call.
LEMMA ViewFacts ==
  ASSUME NEW r \in Pages
  PROVE  /\ Contents[r] = IF Cached(r) THEN HeaderOf(r).data ELSE disk[r]
         /\ PinCounts[r] = IF Cached(r) THEN HeaderOf(r).pin_count ELSE 0
         /\ r \in DirtyPages <=> Cached(r) /\ HeaderOf(r).is_dirty
BY DEF Contents, PinCounts, DirtyPages, HeaderOf

\* PagePool sees no change of a page that is left alone.
LEMMA ViewKept ==
  ASSUME NEW r \in Pages, PageKept(r)
  PROVE  /\ Contents'[r] = Contents[r]
         /\ PinCounts'[r] = PinCounts[r]
         /\ r \in DirtyPages' <=> r \in DirtyPages
<1>1. /\ Cached(r)' <=> Cached(r)
      /\ Cached(r) => HeaderOf(r)' = HeaderOf(r)
      /\ disk'[r] = disk[r]
  BY DEF PageKept, Cached, HeaderOf
<1> QED BY <1>1 DEF Contents, PinCounts, DirtyPages, HeaderOf

\* Of a page that leaves memory it sees what is on the disk, without pins.
LEMMA ViewGone ==
  ASSUME NEW r \in Pages, PageGone(r)
  PROVE  /\ Contents'[r] = disk'[r]
         /\ PinCounts'[r] = 0
         /\ r \notin DirtyPages'
BY DEF PageGone, Cached, Contents, PinCounts, DirtyPages

\* Of a page in memory it sees what the header of its frame says.
LEMMA ViewIs ==
  ASSUME NEW r \in Pages, NEW dirty \in BOOLEAN, NEW n, NEW x,
         PageIs(r, dirty, n, x)
  PROVE  /\ Contents'[r] = x
         /\ PinCounts'[r] = n
         /\ r \in DirtyPages' <=> dirty
BY DEF PageIs, Cached, Contents, PinCounts, DirtyPages
-----------------------------------------------------------------------------
(* What each call does to each page.                                       *)

\* A page in memory, and its frame.
LEMMA CachedFacts ==
  ASSUME PoolInv, NEW p \in Pages, Cached(p)
  PROVE  /\ m_page_table[p] \in Frames
         /\ HeaderOf(p) \in Header
         /\ HeaderOf(p).is_dirty \in BOOLEAN
         /\ HeaderOf(p).pin_count \in Int
         /\ \A r \in Pages \ {p} : m_page_table[r] # m_page_table[p]
<1>1. m_page_table[p] \in Frames
  BY DEF PoolInv, TypeOK, Cached
<1>2. Occupied(m_page_table[p])
  BY <1>1 DEF PoolInv, FramePartition
<1>3. \A r \in Pages \ {p} : m_page_table[r] # m_page_table[p]
  BY DEF PoolInv, FramePartition, Cached
<1> QED BY <1>1, <1>2, <1>3, HeaderFacts DEF PoolInv, HeaderOf, Header

\* A request for a page in memory adds a pin if asked, and nothing else.
LEMMA HitEffect ==
  ASSUME PoolInv, NEW c \in Clients, NEW p \in Pages, NEW b \in BOOLEAN,
         Hit(c, p, b)
  PROVE  /\ Cached(p)
         /\ PageIs(p, HeaderOf(p).is_dirty,
                   HeaderOf(p).pin_count + PinsFor(b),
                   HeaderOf(p).data)
         /\ OthersKept(p, p)
         /\ refs' = Granted(c, p, m_page_table'[p], b)
<1>1. Cached(p)
  BY DEF Hit
<1> DEFINE f == m_page_table[p]
<1>2. f \in Frames /\ \A r \in Pages \ {p} : m_page_table[r] # f
  BY <1>1, CachedFacts
<1>3. /\ UNCHANGED <<m_page_table, disk>>
      /\ m_frames' = [m_frames EXCEPT ![f].pin_count = IF b THEN @ + 1 ELSE @]
      /\ refs' = Granted(c, p, f, b)
  BY DEF Hit
<1>4. m_frames[f] \in Header
  BY <1>1, CachedFacts DEF HeaderOf
<1>5. PageIs(p, HeaderOf(p).is_dirty,
             HeaderOf(p).pin_count + PinsFor(b),
             HeaderOf(p).data)
  BY <1>1, <1>2, <1>3, <1>4 DEF PageIs, HeaderOf, Cached, Header, PoolInv, TypeOK, PinsFor
<1>6. OthersKept(p, p)
  BY <1>2, <1>3 DEF PageKept, OthersKept
<1> QED BY <1>1, <1>3, <1>5, <1>6

\* While there is room the page is read into a frame that held none.
LEMMA LoadEffect ==
  ASSUME PoolInv, NEW c \in Clients, NEW p \in Pages, NEW b \in BOOLEAN,
         LoadIntoFreeFrame(c, p, b)
  PROVE  /\ ~Cached(p)
         /\ PageIs(p, FALSE, PinsFor(b), disk[p])
         /\ OthersKept(p, p)
         /\ refs' = Granted(c, p, m_page_table'[p], b)
         /\ UNCHANGED disk
<1> DEFINE f == Head(m_empty_frames)
<1>1. m_empty_frames # <<>> /\ m_empty_frames \in Seq(Frames)
  BY RoomLemma DEF LoadIntoFreeFrame, RoomMeansFreeFrame, PoolInv, TypeOK
<1>2. f \in Frames /\ f = m_empty_frames[1] /\ 1 \in DOMAIN m_empty_frames
  BY <1>1
<1>3. ~Occupied(f) /\ f # NoFrame
  BY <1>2, FrameFacts DEF PoolInv, FramePartition
<1>4. \A r \in Pages : m_page_table[r] # f
  BY <1>2, <1>3 DEF PoolInv, FramePartition
<1>5. /\ m_page_table' = [m_page_table EXCEPT ![p] = f]
      /\ m_frames' = [m_frames EXCEPT ![f] = Loaded(p, f, b)]
      /\ refs' = Granted(c, p, f, b)
      /\ UNCHANGED disk
      /\ ~Cached(p)
  BY DEF LoadIntoFreeFrame
<1>6. m_page_table'[p] = f /\ m_frames'[f] = Loaded(p, f, b)
  BY <1>2, <1>5 DEF PoolInv, TypeOK
<1>7. PageIs(p, FALSE, PinsFor(b), disk[p])
  BY <1>3, <1>6 DEF PageIs, Loaded, PinsFor
<1>8. OthersKept(p, p)
  BY <1>2, <1>4, <1>5 DEF PageKept, OthersKept, PoolInv, TypeOK
<1> QED BY <1>5, <1>6, <1>7, <1>8

\* The page that makes way for p.
LEMMA ReplaceEffect ==
  ASSUME PoolInv, ~HasRoom, NEW p \in Pages, NEW q \in Pages, NEW f \in Frames,
         NEW b \in BOOLEAN, ~Cached(p), m_page_table[q] = f,
         Replace(q, f, p, f, b), \A r \in Pages \ {q} : disk'[r] = disk[r]
  PROVE  /\ p # q
         /\ Cached(q)
         /\ m_page_table'[p] = f
         /\ PageIs(p, FALSE, PinsFor(b), disk[p])
         /\ PageGone(q)
         /\ OthersKept(p, q)
<1>1. m_empty_frames = <<>> /\ f # NoFrame /\ p # q /\ Cached(q)
  BY FullLemma, FrameFacts DEF Cached, PoolInv
<1>2. Append(m_empty_frames, f) = <<f>>
  BY <1>1
<1>3. m_page_table' = [m_page_table EXCEPT ![q] = NoFrame, ![p] = f]
  BY <1>2 DEF Replace
<1>4. m_frames' = [m_frames EXCEPT ![f] = FreeHeader, ![f] = Loaded(p, f, b)]
  BY DEF Replace
<1>5. /\ m_page_table'[p] = f
      /\ m_page_table'[q] = NoFrame
      /\ \A r \in Pages \ {p, q} : m_page_table'[r] = m_page_table[r]
  BY <1>1, <1>3 DEF PoolInv, TypeOK
<1>6. /\ m_frames'[f] = Loaded(p, f, b)
      /\ \A g \in Frames \ {f} : m_frames'[g] = m_frames[g]
  BY <1>4 DEF PoolInv, TypeOK
<1>7. PageIs(p, FALSE, PinsFor(b), disk[p])
  BY <1>1, <1>5, <1>6 DEF PageIs, Loaded, PinsFor
<1>8. OthersKept(p, q)
  <2> SUFFICES ASSUME NEW r \in Pages, r # p, r # q PROVE PageKept(r)
    BY DEF OthersKept
  <2>1. Cached(r) => m_page_table[r] \in Frames \ {f}
    BY <1>1, CachedFacts
  <2> QED BY <1>5, <1>6, <2>1 DEF PageKept
<1> QED BY <1>1, <1>5, <1>7, <1>8 DEF PageGone

\* A dirty page that nobody has pinned is written to the disk and makes way.
LEMMA FlushAndLoadEffect ==
  ASSUME PoolInv, NEW c \in Clients, NEW p \in Pages, NEW b \in BOOLEAN,
         FlushAndLoad(c, p, b)
  PROVE  /\ ~Cached(p)
         /\ PageIs(p, FALSE, PinsFor(b), disk'[p])
         /\ disk'[p] = disk[p]
         /\ refs' = Granted(c, p, m_page_table'[p], b)
         /\ \E q \in Pages : /\ p # q
                             /\ Cached(q)
                             /\ HeaderOf(q).is_dirty
                             /\ HeaderOf(q).pin_count = 0
                             /\ PageGone(q)
                             /\ disk'[q] = HeaderOf(q).data
                             /\ OthersKept(p, q)
<1>1. PICK f \in Frames, q \in Pages :
        /\ IsFirst(f, DirtyUnpinned)
        /\ m_page_table[q] = f
        /\ disk' = [disk EXCEPT ![q] = m_frames[f].data]
        /\ LET g == Head(Append(m_empty_frames, f))
           IN  /\ Replace(q, f, p, g, b)
               /\ refs' = Granted(c, p, g, b)
  BY DEF FlushAndLoad
<1>2. ~Cached(p) /\ ~HasRoom /\ m_empty_frames = <<>>
  BY FullLemma DEF FlushAndLoad, PoolInv
<1>3. Head(Append(m_empty_frames, f)) = f
  BY <1>2
<1>4. Replace(q, f, p, f, b) /\ refs' = Granted(c, p, f, b)
  BY <1>1, <1>3
<1>5. disk'[q] = m_frames[f].data /\ \A r \in Pages \ {q} : disk'[r] = disk[r]
  BY <1>1 DEF PoolInv, TypeOK
<1>6. m_frames[f].is_dirty /\ m_frames[f].pin_count = 0
  BY <1>1 DEF IsFirst, DirtyUnpinned
<1>7. /\ p # q
      /\ Cached(q)
      /\ m_page_table'[p] = f
      /\ PageIs(p, FALSE, PinsFor(b), disk[p])
      /\ PageGone(q)
      /\ OthersKept(p, q)
  <2>1. /\ ~HasRoom /\ ~Cached(p) /\ m_page_table[q] = f
        /\ Replace(q, f, p, f, b)
        /\ \A r \in Pages \ {q} : disk'[r] = disk[r]
    BY <1>1, <1>2, <1>4, <1>5
  <2>2. p # q /\ Cached(q) /\ m_page_table'[p] = f /\ PageGone(q)
    BY <2>1, ReplaceEffect
  <2>3. PageIs(p, FALSE, PinsFor(b), disk[p])
    BY <2>1, ReplaceEffect
  <2>4. OthersKept(p, q)
    BY <2>1, ReplaceEffect
  <2> QED BY <2>2, <2>3, <2>4
<1> QED BY <1>1, <1>2, <1>4, <1>5, <1>6, <1>7 DEF HeaderOf

\* With none, the page that makes way has no pins and is not dirty.
LEMMA EvictAndLoadEffect ==
  ASSUME PoolInv, NEW c \in Clients, NEW p \in Pages, NEW b \in BOOLEAN,
         EvictAndLoad(c, p, b)
  PROVE  /\ ~Cached(p)
         /\ PageIs(p, FALSE, PinsFor(b), disk[p])
         /\ UNCHANGED disk
         /\ refs' = Granted(c, p, m_page_table'[p], b)
         /\ \E q \in Pages : /\ p # q
                             /\ Cached(q)
                             /\ HeaderOf(q).pin_count =< 0
                             /\ HeaderOf(q).is_dirty => HeaderOf(q).pin_count # 0
                             /\ PageGone(q)
                             /\ OthersKept(p, q)
<1>1. PICK f \in Frames, q \in Pages :
        /\ m_frames[f].pin_count =< 0
        /\ m_page_table[q] = f
        /\ Replace(q, f, p, f, b)
        /\ refs' = Granted(c, p, f, b)
  BY VictimsEvictable DEF EvictAndLoad, Evictable
<1>2. ~Cached(p) /\ ~HasRoom /\ UNCHANGED disk
  BY DEF EvictAndLoad
<1>3. m_frames[f].is_dirty => m_frames[f].pin_count # 0
  BY DEF EvictAndLoad, DirtyUnpinned
<1>4. /\ p # q
      /\ Cached(q)
      /\ m_page_table'[p] = f
      /\ PageIs(p, FALSE, PinsFor(b), disk[p])
      /\ PageGone(q)
      /\ OthersKept(p, q)
  <2>1. /\ ~HasRoom /\ ~Cached(p) /\ m_page_table[q] = f
        /\ Replace(q, f, p, f, b)
        /\ \A r \in Pages \ {q} : disk'[r] = disk[r]
    BY <1>1, <1>2
  <2>2. p # q /\ Cached(q) /\ m_page_table'[p] = f /\ PageGone(q)
    BY <2>1, ReplaceEffect
  <2>3. PageIs(p, FALSE, PinsFor(b), disk[p])
    BY <2>1, ReplaceEffect
  <2>4. OthersKept(p, q)
    BY <2>1, ReplaceEffect
  <2> QED BY <2>2, <2>3, <2>4
<1> QED BY <1>1, <1>2, <1>3, <1>4 DEF HeaderOf

\* flush_page writes a dirty page and throws it out.
LEMMA FlushPageEffect ==
  ASSUME PoolInv, NEW c \in Clients, NEW p \in Pages, flush_page(c, p), Cached(p)
  PROVE  /\ HeaderOf(p).is_dirty
         /\ PageGone(p)
         /\ disk'[p] = HeaderOf(p).data
         /\ OthersKept(p, p)
         /\ refs' = Released(c, {p})
         /\ outcome' = "ok"
<1> DEFINE f == m_page_table[p]
<1>1. f \in Frames /\ \A r \in Pages \ {p} : m_page_table[r] # f
  BY CachedFacts
<1>2. /\ m_frames[f].is_dirty
      /\ disk' = [disk EXCEPT ![p] = m_frames[f].data]
      /\ m_page_table' = [m_page_table EXCEPT ![p] = NoFrame]
      /\ m_frames' = [m_frames EXCEPT ![f] = FreeHeader]
      /\ refs' = Released(c, {p})
      /\ outcome' = "ok"
  BY DEF flush_page
<1>3. OthersKept(p, p)
  BY <1>1, <1>2 DEF OthersKept, PageKept, PoolInv, TypeOK
<1> QED BY <1>1, <1>2, <1>3 DEF HeaderOf, PageGone, PoolInv, TypeOK

\* flush_pages does so with every dirty page, and leaves the others.
LEMMA FlushPagesEffect ==
  ASSUME PoolInv, NEW c \in Clients, flush_pages(c), NEW r \in Pages
  PROVE  IF r \in DirtyPages
         THEN PageGone(r) /\ disk'[r] = HeaderOf(r).data
         ELSE PageKept(r)
<1>1. /\ disk'[r] = IF r \in DirtyPages THEN m_frames[m_page_table[r]].data
                                        ELSE disk[r]
      /\ m_page_table'[r] = IF r \in DirtyPages THEN NoFrame
                                                ELSE m_page_table[r]
      /\ m_frames' = [f \in Frames |-> IF m_frames[f].is_dirty
                                       THEN FreeHeader ELSE m_frames[f]]
  BY DEF flush_pages
<1>2. CASE r \in DirtyPages
  BY <1>1, <1>2 DEF PageGone, HeaderOf
<1>3. CASE r \notin DirtyPages
  <2>1. Cached(r) => m_page_table[r] \in Frames /\ ~m_frames[m_page_table[r]].is_dirty
    BY <1>3, CachedFacts DEF DirtyPages
  <2> QED BY <1>1, <1>3, <2>1 DEF PageKept
<1> QED BY <1>2, <1>3

\* A client writes to the page it thinks it writes to.
LEMMA WriteEffect ==
  ASSUME NEW c \in Clients, ClientInv(c), NEW p \in Pages, NEW d \in Data,
         WriteFrame(c, p, d)
  PROVE  /\ Cached(p)
         /\ PageIs(p, TRUE, HeaderOf(p).pin_count, d)
         /\ OthersKept(p, p)
         /\ UNCHANGED <<disk, refs>>
         /\ outcome' = "ok"
<1> DEFINE f == m_page_table[p]
<1>1. refs[c][p].frame # NoFrame
  BY DEF WriteFrame
<1>2. refs[c][p].frame = f /\ Cached(p)
  BY <1>1 DEF ClientInv, PageInv, Cached
<1>3. PoolInv /\ f \in Frames /\ \A r \in Pages \ {p} : m_page_table[r] # f
  BY <1>2, CachedFacts DEF ClientInv
<1>4. Occupied(f)
  BY <1>3 DEF PoolInv, FramePartition
<1>5. /\ m_frames' = [m_frames EXCEPT ![f].data = d, ![f].is_dirty = TRUE]
      /\ outcome' = "ok"
      /\ UNCHANGED <<m_page_table, disk, refs>>
  BY <1>2, <1>4 DEF WriteFrame
<1>6. m_frames[f] \in Header
  BY <1>2, <1>3, CachedFacts DEF HeaderOf
<1>7. PageIs(p, TRUE, HeaderOf(p).pin_count, d)
  BY <1>2, <1>3, <1>5, <1>6 DEF PageIs, HeaderOf, Header, Cached, PoolInv, TypeOK
<1>8. OthersKept(p, p)
  <2>1. \A g \in Frames \ {f} : m_frames'[g] = m_frames[g]
    <3> DEFINE h == [m_frames[f] EXCEPT !.data = d, !.is_dirty = TRUE]
    <3>1. m_frames' = [m_frames EXCEPT ![f] = h]
      BY <1>3, <1>5 DEF PoolInv, TypeOK
    <3> QED BY <3>1 DEF PoolInv, TypeOK
  <2>2. \A r \in Pages \ {p} : Cached(r) => m_page_table[r] \in Frames \ {f}
    BY <1>3, CachedFacts
  <2> QED BY <1>5, <2>1, <2>2 DEF OthersKept, PageKept
<1> QED BY <1>2, <1>5, <1>7, <1>8

\* A client unpins the page it thinks it unpins.
LEMMA UnpinEffect ==
  ASSUME NEW c \in Clients, ClientInv(c), NEW p \in Pages,
         decrease_pin_count(c, p)
  PROVE  /\ Cached(p)
         /\ HeaderOf(p).pin_count > 0
         /\ PageIs(p, HeaderOf(p).is_dirty, HeaderOf(p).pin_count - 1,
                   HeaderOf(p).data)
         /\ OthersKept(p, p)
         /\ UNCHANGED disk
         /\ outcome' = "ok"
         /\ refs'[c][p] = IF refs[c][p].pins = 1 THEN NoRef
                          ELSE [frame |-> refs[c][p].frame,
                                pins |-> refs[c][p].pins - 1]
         /\ \A r \in Pages \ {p} : refs'[c][r] = refs[c][r]
<1> DEFINE f == m_page_table[p]
<1>1. refs[c][p].pins > 0
  BY DEF decrease_pin_count
<1>2. /\ refs[c][p].frame = f /\ Cached(p)
      /\ HeaderOf(p).pin_count = refs[c][p].pins
  BY <1>1 DEF ClientInv, PageInv, Cached
<1>3. PoolInv /\ f \in Frames /\ \A r \in Pages \ {p} : m_page_table[r] # f
  BY <1>2, CachedFacts DEF ClientInv
<1>5. /\ m_frames' = [m_frames EXCEPT ![f].pin_count = @ - 1]
      /\ refs' = [refs EXCEPT ![c][p] =
                     IF refs[c][p].pins = 1 THEN NoRef
                     ELSE [frame |-> refs[c][p].frame,
                           pins |-> refs[c][p].pins - 1]]
      /\ outcome' = "ok"
      /\ UNCHANGED <<m_page_table, disk>>
  BY <1>2 DEF decrease_pin_count
<1>6. m_frames[f] \in Header
  BY <1>2, <1>3, CachedFacts DEF HeaderOf
<1>7. PageIs(p, HeaderOf(p).is_dirty, HeaderOf(p).pin_count - 1, HeaderOf(p).data)
  BY <1>2, <1>3, <1>5, <1>6 DEF PageIs, HeaderOf, Header, Cached, PoolInv, TypeOK
<1>8. OthersKept(p, p)
  <2>1. \A g \in Frames \ {f} : m_frames'[g] = m_frames[g]
    BY <1>5 DEF PoolInv, TypeOK
  <2>2. \A r \in Pages \ {p} : Cached(r) => m_page_table[r] \in Frames \ {f}
    BY <1>3, CachedFacts
  <2> QED BY <1>5, <2>1, <2>2 DEF OthersKept, PageKept
<1>9. /\ refs'[c][p] = IF refs[c][p].pins = 1 THEN NoRef
                       ELSE [frame |-> refs[c][p].frame,
                             pins |-> refs[c][p].pins - 1]
      /\ \A r \in Pages \ {p} : refs'[c][r] = refs[c][r]
  BY <1>3, <1>5 DEF PoolInv, TypeOK
<1> QED BY <1>1, <1>2, <1>5, <1>7, <1>8, <1>9
-----------------------------------------------------------------------------
(* One client's view is inductive.                                         *)

\* A request leaves the pages alone but the one it is for and, perhaps, one
\* that makes way.
LEMMA GrantedInv ==
  ASSUME NEW c \in Clients, ClientInv(c), NEW p \in Pages, NEW b \in BOOLEAN,
         NEW dirty \in BOOLEAN, NEW n, NEW x,
         PageIs(p, dirty, n, x),
         n = refs[c][p].pins + PinsFor(b),
         dirty \/ x = disk'[p],
         refs' = Granted(c, p, m_page_table'[p], b)
  PROVE  PageInv(c, p)'
<1>1. refs'[c][p].frame = m_page_table'[p] /\ refs'[c][p].pins = n
  BY GrantedFacts DEF ClientInv, PoolInv
<1>2. m_page_table'[p] # NoFrame
  BY DEF PageIs
<1> QED BY <1>1, <1>2, PageIsInv

\* Pages other than p and q are left alone, and so are the references to them.
LEMMA RestInv ==
  ASSUME NEW c \in Clients, ClientInv(c), NEW p \in Pages, NEW q \in Pages,
         OthersKept(p, q),
         \A r \in Pages : r # p =>
            refs'[c][r] = refs[c][r] \/ refs'[c][r] = KeptRefs(c)[r]
  PROVE  \A r \in Pages : r # p /\ r # q => PageInv(c, r)'
<1> SUFFICES ASSUME NEW r \in Pages, r # p, r # q PROVE PageInv(c, r)'
  OBVIOUS
<1>1. PageKept(r) /\ PageInv(c, r) /\ TypeOK
  BY DEF OthersKept, ClientInv, PoolInv
<1> QED BY <1>1, KeptPageInv


\* A page that made way had no pins left, so the client has no reference to it
\* after its next call.
LEMMA MadeWay ==
  ASSUME NEW c \in Clients, ClientInv(c), NEW p \in Pages, NEW q \in Pages,
         NEW f, NEW b \in BOOLEAN, refs' = Granted(c, p, f, b),
         p # q, Cached(q), HeaderOf(q).pin_count =< 0, PageGone(q)
  PROVE  /\ HeaderOf(q).pin_count = 0
         /\ PageInv(c, q)'
<1>1. refs[c][q].pins = HeaderOf(q).pin_count /\ TypeOK
  BY DEF ClientInv, PageInv, PoolInv
<1>2. refs[c][q].pins = 0
  BY <1>1, KeptFacts
<1>3. refs'[c][q] = KeptRefs(c)[q]
  BY <1>1, GrantedFacts
<1>4. refs'[c][q] = NoRef
  BY <1>2, <1>3 DEF KeptRefs
<1> QED BY <1>1, <1>2, <1>4, GonePageInv

\* So they are by a request.
LEMMA GrantedRest ==
  ASSUME NEW c \in Clients, ClientInv(c), NEW p \in Pages, NEW q \in Pages,
         NEW f, NEW b \in BOOLEAN, refs' = Granted(c, p, f, b), OthersKept(p, q)
  PROVE  \A r \in Pages : r # p /\ r # q => PageInv(c, r)'
<1>1. \A r \in Pages : r # p => refs'[c][r] = KeptRefs(c)[r]
  BY GrantedFacts DEF ClientInv, PoolInv
<1> QED BY <1>1, RestInv

\* Each call of the client keeps PageInv of every page: a request that finds its
\* page,
LEMMA HitPages ==
  ASSUME NEW c \in Clients, ClientInv(c), NEW p \in Pages, NEW b \in BOOLEAN,
         Hit(c, p, b)
  PROVE  \A r \in Pages : PageInv(c, r)'
<1>1. /\ Cached(p)
      /\ PageIs(p, HeaderOf(p).is_dirty,
                HeaderOf(p).pin_count + PinsFor(b), HeaderOf(p).data)
      /\ OthersKept(p, p)
      /\ refs' = Granted(c, p, m_page_table'[p], b)
  BY HitEffect DEF ClientInv
<1>2. refs[c][p].pins = HeaderOf(p).pin_count
  BY <1>1 DEF ClientInv, PageInv
<1>3. HeaderOf(p).is_dirty \/ HeaderOf(p).data = disk'[p]
  BY <1>1 DEF ClientInv, PageInv, Hit
<1>4. HeaderOf(p).is_dirty \in BOOLEAN
  BY <1>1, CachedFacts DEF ClientInv
<1>5. PageInv(c, p)'
  BY <1>1, <1>2, <1>3, <1>4, GrantedInv
<1>6. \A r \in Pages : r # p => PageInv(c, r)'
  BY <1>1, GrantedRest
<1> QED BY <1>5, <1>6

\* A request that loads its page, whether or not another page made way.
LEMMA LoadedPages ==
  ASSUME NEW c \in Clients, ClientInv(c), NEW p \in Pages, NEW q \in Pages,
         NEW b \in BOOLEAN,
         ~Cached(p), PageIs(p, FALSE, PinsFor(b), disk'[p]),
         refs' = Granted(c, p, m_page_table'[p], b),
         OthersKept(p, q),
         q # p => /\ Cached(q)
                  /\ HeaderOf(q).pin_count =< 0
                  /\ PageGone(q)
  PROVE  \A r \in Pages : PageInv(c, r)'
<1>1. refs[c][p].pins = 0
  BY DEF ClientInv, PageInv
<1>2. PinsFor(b) = refs[c][p].pins + PinsFor(b)
  BY <1>1 DEF PinsFor
<1>3. PageInv(c, p)'
  BY <1>2, GrantedInv
<1>4. \A r \in Pages : r # p /\ r # q => PageInv(c, r)'
  BY GrantedRest
<1>5. q # p => PageInv(c, q)'
  BY MadeWay
<1> QED BY <1>3, <1>4, <1>5

\* a request that does not find it but finds a frame,
LEMMA LoadPages ==
  ASSUME NEW c \in Clients, ClientInv(c), NEW p \in Pages, NEW b \in BOOLEAN,
         \/ LoadIntoFreeFrame(c, p, b)
         \/ FlushAndLoad(c, p, b)
         \/ EvictAndLoad(c, p, b)
  PROVE  \A r \in Pages : PageInv(c, r)'
<1>1. CASE LoadIntoFreeFrame(c, p, b)
  <2>1. /\ ~Cached(p)
        /\ PageIs(p, FALSE, PinsFor(b), disk[p])
        /\ OthersKept(p, p)
        /\ refs' = Granted(c, p, m_page_table'[p], b)
        /\ UNCHANGED disk
    BY <1>1, LoadEffect DEF ClientInv
  <2> QED BY <2>1, LoadedPages
<1>2. CASE FlushAndLoad(c, p, b)
  <2>1. /\ ~Cached(p)
        /\ PageIs(p, FALSE, PinsFor(b), disk'[p])
        /\ refs' = Granted(c, p, m_page_table'[p], b)
    BY <1>2, FlushAndLoadEffect DEF ClientInv
  <2>2. PICK q \in Pages : /\ p # q
                           /\ Cached(q)
                           /\ HeaderOf(q).pin_count = 0
                           /\ PageGone(q)
                           /\ OthersKept(p, q)
    BY <1>2, FlushAndLoadEffect DEF ClientInv
  <2>3. HeaderOf(q).pin_count =< 0
    BY <2>2
  <2> QED BY <2>1, <2>2, <2>3, LoadedPages
<1>3. CASE EvictAndLoad(c, p, b)
  <2>1. /\ ~Cached(p)
        /\ PageIs(p, FALSE, PinsFor(b), disk[p])
        /\ UNCHANGED disk
        /\ refs' = Granted(c, p, m_page_table'[p], b)
    BY <1>3, EvictAndLoadEffect DEF ClientInv
  <2>2. PICK q \in Pages : /\ p # q
                           /\ Cached(q)
                           /\ HeaderOf(q).pin_count =< 0
                           /\ PageGone(q)
                           /\ OthersKept(p, q)
    BY <1>3, EvictAndLoadEffect DEF ClientInv
  <2> QED BY <2>1, <2>2, LoadedPages
<1> QED BY <1>1, <1>2, <1>3

\* A call that moves no page: one that fails, allocates, or has nothing to
\* flush.
LEMMA StillPages ==
  ASSUME NEW c \in Clients, ClientInv(c), refs' = Released(c, {}),
         UNCHANGED <<m_page_table, m_frames, disk>>
  PROVE  \A r \in Pages : PageInv(c, r)'
<1> SUFFICES ASSUME NEW r \in Pages PROVE PageInv(c, r)'
  OBVIOUS
<1>1. TypeOK /\ PageInv(c, r)
  BY DEF ClientInv, PoolInv
<1>2. PageKept(r)
  BY DEF PageKept
<1>3. refs'[c][r] = KeptRefs(c)[r]
  BY <1>1, ReleasedFacts
<1> QED BY <1>1, <1>2, <1>3, KeptPageInv

\* flush_page,
LEMMA FlushPagePages ==
  ASSUME NEW c \in Clients, ClientInv(c), NEW p \in Pages, flush_page(c, p)
  PROVE  \A r \in Pages : PageInv(c, r)'
<1>1. CASE Cached(p)
  <2>1. /\ PageGone(p)
        /\ OthersKept(p, p)
        /\ refs' = Released(c, {p})
    BY <1>1, FlushPageEffect DEF ClientInv
  <2>2. \A r \in Pages :
           refs'[c][r] = IF r \in {p} THEN NoRef ELSE KeptRefs(c)[r]
    BY <2>1, ReleasedFacts DEF ClientInv, PoolInv
  <2>3. PageInv(c, p)'
    BY <2>1, <2>2, GonePageInv
  <2>4. \A r \in Pages : r # p => refs'[c][r] = KeptRefs(c)[r]
    BY <2>2
  <2>5. \A r \in Pages : r # p => PageInv(c, r)'
    BY <2>1, <2>4, RestInv
  <2> QED BY <2>3, <2>5
<1>2. CASE ~Cached(p)
  BY <1>2, StillPages DEF flush_page, pool
<1> QED BY <1>1, <1>2

\* flush_pages,
LEMMA FlushPagesPages ==
  ASSUME NEW c \in Clients, ClientInv(c), flush_pages(c)
  PROVE  \A r \in Pages : PageInv(c, r)'
<1> SUFFICES ASSUME NEW r \in Pages PROVE PageInv(c, r)'
  OBVIOUS
<1>1. TypeOK /\ PoolInv /\ PageInv(c, r)
  BY DEF ClientInv, PoolInv
<1>2. refs' = Released(c, DirtyPages)
  BY DEF flush_pages
<1>3. refs'[c][r] = IF r \in DirtyPages THEN NoRef ELSE KeptRefs(c)[r]
  BY <1>1, <1>2, ReleasedFacts
<1>4. CASE r \in DirtyPages
  BY <1>1, <1>3, <1>4, FlushPagesEffect, GonePageInv
<1>5. CASE r \notin DirtyPages
  BY <1>1, <1>3, <1>5, FlushPagesEffect, KeptPageInv
<1> QED BY <1>4, <1>5

\* a write to a page,
LEMMA WritePages ==
  ASSUME NEW c \in Clients, ClientInv(c), NEW p \in Pages, NEW d \in Data,
         WriteFrame(c, p, d)
  PROVE  \A r \in Pages : PageInv(c, r)'
<1>1. /\ Cached(p)
      /\ PageIs(p, TRUE, HeaderOf(p).pin_count, d)
      /\ OthersKept(p, p)
      /\ UNCHANGED <<disk, refs>>
  BY WriteEffect
<1>2. PageInv(c, p) /\ m_page_table'[p] = m_page_table[p]
  BY DEF ClientInv, WriteFrame
<1>3. /\ refs'[c][p].frame \in {NoFrame, m_page_table'[p]}
      /\ refs'[c][p].pins > 0 => refs'[c][p].frame # NoFrame
      /\ refs'[c][p].pins = HeaderOf(p).pin_count
  BY <1>1, <1>2 DEF PageInv
<1>4. PageInv(c, p)'
  BY <1>1, <1>3, PageIsInv
<1>5. \A r \in Pages : r # p => PageInv(c, r)'
  BY <1>1, RestInv
<1> QED BY <1>4, <1>5

\* and decrease_pin_count.
LEMMA UnpinPages ==
  ASSUME NEW c \in Clients, ClientInv(c), NEW p \in Pages,
         decrease_pin_count(c, p)
  PROVE  \A r \in Pages : PageInv(c, r)'
<1>1. /\ Cached(p)
      /\ PageIs(p, HeaderOf(p).is_dirty, HeaderOf(p).pin_count - 1,
                HeaderOf(p).data)
      /\ OthersKept(p, p)
      /\ UNCHANGED disk
      /\ refs'[c][p] = IF refs[c][p].pins = 1 THEN NoRef
                       ELSE [frame |-> refs[c][p].frame,
                             pins |-> refs[c][p].pins - 1]
      /\ \A r \in Pages \ {p} : refs'[c][r] = refs[c][r]
  BY UnpinEffect
<1>2. PageInv(c, p) /\ m_page_table'[p] = m_page_table[p] /\ refs[c][p].pins > 0
  BY DEF ClientInv, decrease_pin_count
<1>3. refs[c][p].pins \in Nat /\ refs[c][p].pins = HeaderOf(p).pin_count
  BY <1>1, <1>2, KeptFacts DEF PageInv, ClientInv, PoolInv
<1>4. /\ refs'[c][p].frame \in {NoFrame, m_page_table'[p]}
      /\ refs'[c][p].pins > 0 => refs'[c][p].frame # NoFrame
      /\ refs'[c][p].pins = HeaderOf(p).pin_count - 1
  BY <1>1, <1>2, <1>3 DEF PageInv, NoRef
<1>5. HeaderOf(p).is_dirty \/ HeaderOf(p).data = disk'[p]
  BY <1>1, <1>2 DEF PageInv
<1>6. HeaderOf(p).is_dirty \in BOOLEAN
  BY <1>1, CachedFacts DEF ClientInv
<1>7. PageInv(c, p)'
  BY <1>1, <1>4, <1>5, <1>6, PageIsInv
<1>8. \A r \in Pages : r # p => refs'[c][r] = refs[c][r]
  BY <1>1
<1>9. \A r \in Pages : r # p => PageInv(c, r)'
  BY <1>1, <1>8, RestInv
<1> QED BY <1>7, <1>9
-----------------------------------------------------------------------------
(* The theorems about one client's view.                                   *)

\* At first no page is in memory and there are no references.
LEMMA InitClientInv ==
  ASSUME NEW c \in Clients, Init
  PROVE  ClientInv(c)
<1>1. PoolInv
  BY InitPoolInv
<1>2. \A r \in Pages : PageInv(c, r)
  BY DEF Init, PageInv, Cached, NoRef
<1> QED BY <1>1, <1>2 DEF ClientInv

\* Every step of the only client, and of the pool for it.
LEMMA NextClientInv ==
  ASSUME NEW c, Clients = {c}, ClientInv(c), [Next]_vars
  PROVE  ClientInv(c)'
<1>1. c \in Clients /\ PoolInv
  BY DEF ClientInv
<1>2. PoolInv'
  BY <1>1, NextPoolInv
<1>3. \A r \in Pages : PageInv(c, r)'
  <2>1. CASE UNCHANGED vars
    <3> SUFFICES ASSUME NEW r \in Pages PROVE PageInv(c, r)'
      OBVIOUS
    <3>1. PageInv(c, r)
      BY DEF ClientInv
    <3> QED BY <2>1, <3>1 DEF vars, pool, PageInv, Cached, HeaderOf
  <2>2. CASE allocate_new_page(c)
    BY <1>1, <2>2, StillPages DEF allocate_new_page, pool
  <2>3. ASSUME NEW p \in Pages, NEW b \in BOOLEAN, request_page(c, p, b)
        PROVE  \A r \in Pages : PageInv(c, r)'
    <3>1. CASE Hit(c, p, b)
      BY <1>1, <3>1, HitPages
    <3>2. CASE \/ LoadIntoFreeFrame(c, p, b)
               \/ FlushAndLoad(c, p, b)
               \/ EvictAndLoad(c, p, b)
      BY <1>1, <3>2, LoadPages
    <3>3. CASE NoVictim(c, p)
      BY <1>1, <3>3, StillPages DEF NoVictim, pool
    <3>4. CASE VictimIsPinned(c, p)
      BY <1>1, <3>4, StillPages DEF VictimIsPinned
    <3> QED BY <2>3, <3>1, <3>2, <3>3, <3>4 DEF request_page
  <2>4. CASE flush_pages(c)
    BY <1>1, <2>4, FlushPagesPages
  <2>5. ASSUME NEW p \in Pages, flush_page(c, p)
        PROVE  \A r \in Pages : PageInv(c, r)'
    BY <1>1, <2>5, FlushPagePages
  <2>6. ASSUME NEW p \in Pages, decrease_pin_count(c, p)
        PROVE  \A r \in Pages : PageInv(c, r)'
    BY <1>1, <2>6, UnpinPages
  <2>7. ASSUME NEW p \in Pages, NEW d \in Data, WriteFrame(c, p, d)
        PROVE  \A r \in Pages : PageInv(c, r)'
    BY <1>1, <2>7, WritePages
  <2>8. Requestable \subseteq Pages
    BY PoolAssumption DEF Requestable
  <2>9. CASE Request(c)
    BY <2>3, <2>8, <2>9 DEF Request
  <2>10. CASE Flush(c)
    BY <2>4, <2>5, <2>8, <2>10 DEF Flush
  <2>11. CASE Use(c)
    BY <2>6, <2>7, <2>11 DEF Use
  <2> QED BY <2>1, <2>2, <2>9, <2>10, <2>11 DEF Next
<1> QED BY <1>2, <1>3 DEF ClientInv

\* The invariant, as long as there is no other client.
LEMMA ClientInvariant ==
  ASSUME NEW CONSTANT c, Clients = {c}
  PROVE  Spec => []ClientInv(c)
<1>1. Init => ClientInv(c)
  BY InitClientInv
<1>2. ClientInv(c) /\ [Next]_vars => ClientInv(c)'
  BY NextClientInv
<1> QED BY <1>1, <1>2, PTL DEF Spec

\* Used by one component, the pool never takes a frame away from under a
\* reference that component may still use (buffer_pool.hpp:112-311).
THEOREM ReferencesStayGood ==
  ASSUME NEW CONSTANT c, Clients = {c}
  PROVE  Spec => []RefsPointToPages
<1>1. ClientInv(c) => RefsPointToPages
  BY DEF ClientInv, PageInv, RefsPointToPages
<1> QED BY <1>1, ClientInvariant, PTL

\* Nor does a path through it leak or drop one of that component's pins
\* (buffer_pool.hpp:112-311, frame_header.hpp).
THEOREM PinsAreCounted ==
  ASSUME NEW CONSTANT c, Clients = {c}
  PROVE  Spec => []PinsMatchRefs
<1>1. ClientInv(c) => PinsMatchRefs
  BY DEF ClientInv, PageInv, PinsMatchRefs, HeaderOf
<1> QED BY <1>1, ClientInvariant, PTL

\* A page that is not dirty is the page on the disk, so evict_page loses
\* nothing when it drops it without a write (buffer_pool.hpp:226).
THEOREM CleanPagesMatchDisk ==
  ASSUME NEW CONSTANT c, Clients = {c}
  PROVE  Spec => []CleanMatchesDisk
<1>1. ClientInv(c) => CleanMatchesDisk
  BY DEF ClientInv, PageInv, CleanMatchesDisk, HeaderOf
<1> QED BY <1>1, ClientInvariant, PTL
-----------------------------------------------------------------------------
(* The pool implements PagePool.                                           *)

\* What PagePool sees is made of what it sees of each page.
LEMMA SameContents ==
  ASSUME \A r \in Pages : Contents'[r] = Contents[r]
  PROVE  Contents' = Contents
BY DEF Contents

\* Likewise for pins,
LEMMA SamePins ==
  ASSUME \A r \in Pages : PinCounts'[r] = PinCounts[r]
  PROVE  PinCounts' = PinCounts
BY DEF PinCounts

\* and when one page looks different.
LEMMA OnePageContents ==
  ASSUME NEW p \in Pages, NEW x, Contents'[p] = x,
         \A r \in Pages : r # p => Contents'[r] = Contents[r]
  PROVE  Contents' = [Contents EXCEPT ![p] = x]
BY DEF Contents

\* Likewise for pins.
LEMMA OnePagePins ==
  ASSUME NEW p \in Pages, NEW n, PinCounts'[p] = n,
         \A r \in Pages : r # p => PinCounts'[r] = PinCounts[r]
  PROVE  PinCounts' = [PinCounts EXCEPT ![p] = n]
BY DEF PinCounts

\* Sets of pages are equal when they have the same pages.
LEMMA DirtyIsPages == DirtyPages \subseteq Pages /\ DirtyPages' \subseteq Pages
BY DEF DirtyPages

\* The pages a call leaves alone look the same.
LEMMA OthersView ==
  ASSUME NEW p \in Pages, NEW q \in Pages, OthersKept(p, q)
  PROVE  \A r \in Pages : r # p /\ r # q =>
            /\ Contents'[r] = Contents[r]
            /\ PinCounts'[r] = PinCounts[r]
            /\ r \in DirtyPages' <=> r \in DirtyPages
<1> SUFFICES ASSUME NEW r \in Pages, r # p, r # q
             PROVE  /\ Contents'[r] = Contents[r]
                    /\ PinCounts'[r] = PinCounts[r]
                    /\ r \in DirtyPages' <=> r \in DirtyPages
  OBVIOUS
<1>1. PageKept(r)
  BY DEF OthersKept
<1> QED BY <1>1, ViewKept

\* A request that finds its page, or loads it from the disk, possibly in the
\* place of another, is a request of PagePool.
LEMMA RequestRefines ==
  ASSUME NEW p \in Pages, NEW q \in Pages, NEW b \in BOOLEAN, NEW n, NEW x,
         NEW d \in BOOLEAN,
         PageIs(p, d, n, x), OthersKept(p, q), outcome' = "ok",
         x = Contents[p], PinCounts[p] \in Int, n = PinCounts[p] + PinsFor(b),
         d <=> p \in DirtyPages,
         q # p => /\ PageGone(q)
                  /\ disk'[q] = Contents[q]
                  /\ PinCounts[q] = 0
                  /\ PinCounts[p] = 0
                  /\ p \notin DirtyPages
  PROVE  Memory!Request(p, b)
<1>1. /\ Contents'[p] = x
      /\ PinCounts'[p] = n
      /\ p \in DirtyPages' <=> d
  BY ViewIs
<1>2. q # p => /\ Contents'[q] = disk'[q]
               /\ PinCounts'[q] = 0
               /\ q \notin DirtyPages'
  BY ViewGone
<1>3. \A r \in Pages : r # p /\ r # q =>
            /\ Contents'[r] = Contents[r]
            /\ PinCounts'[r] = PinCounts[r]
            /\ r \in DirtyPages' <=> r \in DirtyPages
  BY OthersView
<1>4. Contents' = Contents
  BY <1>1, <1>2, <1>3, SameContents
<1>5. \A r \in Pages : r # p => PinCounts'[r] = PinCounts[r]
  BY <1>2, <1>3
<1>6. PinCounts' = [PinCounts EXCEPT ![p] = n]
  BY <1>1, <1>5, OnePagePins
<1>7. PinCounts' = [PinCounts EXCEPT ![p] = IF b THEN @ + 1 ELSE @]
  <2>1. CASE b
    BY <1>6, <2>1 DEF PinsFor
  <2>2. CASE ~b
    <3>1. n = PinCounts[p]
      BY <2>2 DEF PinsFor
    <3> QED BY <1>6, <2>2, <3>1
  <2> QED BY <2>1, <2>2
<1>8. DirtyPages' = DirtyPages \/ (q # p /\ q \in DirtyPages /\ DirtyPages' = DirtyPages \ {q})
  <2>1. \A r \in Pages : r # q => (r \in DirtyPages' <=> r \in DirtyPages)
    BY <1>1, <1>3
  <2>2. CASE q = p
    <3>1. \A r \in Pages : r \in DirtyPages' <=> r \in DirtyPages
      BY <1>1, <2>1, <2>2
    <3> QED BY <3>1, DirtyIsPages
  <2>3. CASE q # p
    <3>1. q \notin DirtyPages'
      BY <1>2, <2>3
    <3>2. DirtyPages' = DirtyPages \ {q}
      BY <2>1, <3>1, DirtyIsPages
    <3>3. q \notin DirtyPages => DirtyPages \ {q} = DirtyPages
      OBVIOUS
    <3> QED BY <2>3, <3>2, <3>3
  <2> QED BY <2>2, <2>3
<1>9. \/ DirtyPages' = DirtyPages
      \/ ~Memory!InMemory(p) /\ \E r \in Memory!Flushable : DirtyPages' = DirtyPages \ {r}
  BY <1>8 DEF Memory!InMemory, Memory!Flushable
<1>10. (outcome' \in {"evict_failed", "victim_is_pinned"}) = FALSE
  OBVIOUS
<1> QED BY <1>4, <1>7, <1>9, <1>10 DEF Memory!Request

\* A page that is not in memory.
LEMMA AbsentView ==
  ASSUME NEW p \in Pages, ~Cached(p)
  PROVE  /\ Contents[p] = disk[p]
         /\ PinCounts[p] = 0
         /\ p \notin DirtyPages
         /\ ~Memory!InMemory(p)
<1>1. Contents[p] = disk[p] /\ PinCounts[p] = 0 /\ p \notin DirtyPages
  BY ViewFacts
<1> QED BY <1>1 DEF Memory!InMemory

\* A request that finds its page is a request of PagePool,
LEMMA HitRefines ==
  ASSUME PoolInv, NEW c \in Clients, NEW p \in Pages, NEW b \in BOOLEAN,
         Hit(c, p, b)
  PROVE  Memory!Request(p, b)
<1>1. /\ Cached(p)
      /\ PageIs(p, HeaderOf(p).is_dirty,
                HeaderOf(p).pin_count + PinsFor(b), HeaderOf(p).data)
      /\ OthersKept(p, p)
  BY HitEffect
<1>2. outcome' = "ok"
  BY DEF Hit
<1>3. HeaderOf(p).is_dirty \in BOOLEAN /\ HeaderOf(p).pin_count \in Int
  BY <1>1, CachedFacts
<1>4. /\ HeaderOf(p).data = Contents[p]
      /\ PinCounts[p] = HeaderOf(p).pin_count
      /\ HeaderOf(p).is_dirty <=> p \in DirtyPages
  BY <1>1, ViewFacts
<1> QED BY <1>1, <1>2, <1>3, <1>4, RequestRefines

\* and so is one that loads it, whether or not another page made way.
LEMMA LoadRefines ==
  ASSUME NEW c \in Clients, ClientInv(c), NEW p \in Pages, NEW b \in BOOLEAN,
         \/ LoadIntoFreeFrame(c, p, b)
         \/ FlushAndLoad(c, p, b)
         \/ EvictAndLoad(c, p, b)
  PROVE  Memory!Request(p, b)
<1>1. PoolInv
  BY DEF ClientInv
<1>2. ~Cached(p) /\ outcome' = "ok"
  BY DEF LoadIntoFreeFrame, FlushAndLoad, EvictAndLoad
<1>3. /\ Contents[p] = disk[p]
      /\ PinCounts[p] = 0
      /\ FALSE <=> p \in DirtyPages
      /\ p \notin DirtyPages
  BY <1>2, AbsentView
<1>4. PinCounts[p] \in Int /\ PinsFor(b) = PinCounts[p] + PinsFor(b)
  BY <1>3 DEF PinsFor
<1>5. CASE LoadIntoFreeFrame(c, p, b)
  <2>1. PageIs(p, FALSE, PinsFor(b), disk[p]) /\ OthersKept(p, p)
    BY <1>1, <1>5, LoadEffect
  <2> QED BY <1>2, <1>3, <1>4, <2>1, RequestRefines
<1>6. CASE FlushAndLoad(c, p, b)
  <2>1. PageIs(p, FALSE, PinsFor(b), disk[p])
    BY <1>1, <1>6, FlushAndLoadEffect
  <2>2. PICK q \in Pages : /\ p # q
                           /\ Cached(q)
                           /\ HeaderOf(q).is_dirty
                           /\ HeaderOf(q).pin_count = 0
                           /\ PageGone(q)
                           /\ disk'[q] = HeaderOf(q).data
                           /\ OthersKept(p, q)
    BY <1>1, <1>6, FlushAndLoadEffect
  <2>3. disk'[q] = Contents[q] /\ PinCounts[q] = 0
    BY <2>2, ViewFacts
  <2> QED BY <1>2, <1>3, <1>4, <2>1, <2>2, <2>3, RequestRefines
<1>7. CASE EvictAndLoad(c, p, b)
  <2>1. PageIs(p, FALSE, PinsFor(b), disk[p]) /\ UNCHANGED disk
    BY <1>1, <1>7, EvictAndLoadEffect
  <2>2. PICK q \in Pages : /\ p # q
                           /\ Cached(q)
                           /\ HeaderOf(q).pin_count =< 0
                           /\ HeaderOf(q).is_dirty => HeaderOf(q).pin_count # 0
                           /\ PageGone(q)
                           /\ OthersKept(p, q)
    BY <1>1, <1>7, EvictAndLoadEffect
  <2>3. refs' = Granted(c, p, m_page_table'[p], b)
    BY <1>1, <1>7, EvictAndLoadEffect
  <2>4. HeaderOf(q).pin_count = 0
    BY <2>2, <2>3, MadeWay
  <2>5. HeaderOf(q).data = disk[q]
    BY <2>2, <2>4 DEF ClientInv, PageInv
  <2>6. disk'[q] = Contents[q] /\ PinCounts[q] = 0
    BY <2>1, <2>2, <2>4, <2>5, ViewFacts
  <2> QED BY <1>2, <1>3, <1>4, <2>1, <2>2, <2>6, RequestRefines
<1> QED BY <1>5, <1>6, <1>7

\* A request that fails does so while there is nothing to flush.
LEMMA FailRefines ==
  ASSUME PoolInv, NEW c \in Clients, NEW p \in Pages,
         NoVictim(c, p) \/ VictimIsPinned(c, p)
  PROVE  Memory!Fail(p)
<1>1. /\ ~Cached(p)
      /\ DirtyUnpinned = {}
      /\ UNCHANGED <<m_page_table, m_frames, disk>>
      /\ outcome' \in {"evict_failed", "victim_is_pinned"}
  BY DEF NoVictim, VictimIsPinned, pool
<1>2. ~Memory!InMemory(p)
  BY <1>1, AbsentView
<1>3. Memory!Flushable = {}
  <2> SUFFICES ASSUME NEW q \in DirtyPages, PinCounts[q] = 0
               PROVE  FALSE
    BY DEF Memory!Flushable
  <2>1. q \in Pages /\ Cached(q) /\ HeaderOf(q).is_dirty /\ HeaderOf(q).pin_count = 0
    BY ViewFacts, DirtyIsPages
  <2>2. m_page_table[q] \in Frames
    BY <2>1, CachedFacts
  <2> QED BY <1>1, <2>1, <2>2 DEF DirtyUnpinned, HeaderOf
<1>4. UNCHANGED <<Contents, DirtyPages, PinCounts>>
  BY <1>1 DEF Contents, DirtyPages, PinCounts, Cached
<1>5. (outcome' \in {"evict_failed", "victim_is_pinned"}) = TRUE
  BY <1>1
<1> QED BY <1>2, <1>3, <1>4, <1>5 DEF Memory!Fail

\* A call that moves no page flushes none.
LEMMA StillRefines ==
  ASSUME UNCHANGED <<m_page_table, m_frames, disk>>,
         outcome' \in {"ok", "nothing_to_flush"}
  PROVE  Memory!Flush({})
<1>1. UNCHANGED <<Contents, DirtyPages, PinCounts>>
  BY DEF Contents, DirtyPages, PinCounts, Cached
<1>2. DirtyPages \ {} = DirtyPages
  OBVIOUS
<1>3. PinCounts = [r \in Pages |-> PinCounts[r]]
  BY DEF PinCounts
<1>4. (outcome' \in {"evict_failed", "victim_is_pinned"}) = FALSE
  OBVIOUS
<1> QED BY <1>1, <1>2, <1>3, <1>4 DEF Memory!Flush

\* Pages in ps were dirty, are on the disk now and left memory; the others are
\* left alone.
LEMMA FlushRefines ==
  ASSUME NEW ps \in SUBSET DirtyPages,
         \A r \in Pages : IF r \in ps
                          THEN PageGone(r) /\ disk'[r] = HeaderOf(r).data
                          ELSE PageKept(r),
         outcome' \in {"ok", "nothing_to_flush"}
  PROVE  Memory!Flush(ps)
<1>1. ASSUME NEW r \in Pages
      PROVE  /\ Contents'[r] = Contents[r]
             /\ PinCounts'[r] = IF r \in ps THEN 0 ELSE PinCounts[r]
             /\ r \in DirtyPages' <=> r \in DirtyPages /\ r \notin ps
  <2>1. CASE r \in ps
    <3>1. Cached(r) /\ PageGone(r) /\ disk'[r] = HeaderOf(r).data
      BY <2>1, ViewFacts
    <3> QED BY <2>1, <3>1, ViewGone, ViewFacts
  <2>2. CASE r \notin ps
    BY <2>2, ViewKept
  <2> QED BY <2>1, <2>2
<1>2. Contents' = Contents
  BY <1>1, SameContents
<1>3. PinCounts' = [r \in Pages |-> IF r \in ps THEN 0 ELSE PinCounts[r]]
  <2>1. PinCounts' = [r \in Pages |-> PinCounts'[r]]
    BY DEF PinCounts
  <2> QED BY <1>1, <2>1
<1>4. DirtyPages' = DirtyPages \ ps
  BY <1>1, DirtyIsPages
<1>5. (outcome' \in {"evict_failed", "victim_is_pinned"}) = FALSE
  OBVIOUS
<1> QED BY <1>2, <1>3, <1>4, <1>5 DEF Memory!Flush

\* flush_page is a Flush of that page, or of none,
LEMMA FlushPageRefines ==
  ASSUME PoolInv, NEW c \in Clients, NEW p \in Pages, flush_page(c, p)
  PROVE  \E ps \in {DirtyPages, {}} \cup {{r} : r \in DirtyPages} : Memory!Flush(ps)
<1>1. CASE Cached(p)
  <2>1. /\ HeaderOf(p).is_dirty
        /\ PageGone(p)
        /\ disk'[p] = HeaderOf(p).data
        /\ OthersKept(p, p)
        /\ outcome' = "ok"
    BY <1>1, FlushPageEffect
  <2>2. {p} \in SUBSET DirtyPages
    BY <1>1, <2>1, ViewFacts
  <2>3. \A r \in Pages : IF r \in {p}
                         THEN PageGone(r) /\ disk'[r] = HeaderOf(r).data
                         ELSE PageKept(r)
    BY <2>1 DEF OthersKept
  <2>4. Memory!Flush({p})
    BY <2>1, <2>2, <2>3, FlushRefines
  <2> QED BY <2>2, <2>4
<1>2. CASE ~Cached(p)
  BY <1>2, StillRefines DEF flush_page, pool
<1> QED BY <1>1, <1>2

\* and flush_pages one of all dirty pages.
LEMMA FlushPagesRefines ==
  ASSUME PoolInv, NEW c \in Clients, flush_pages(c)
  PROVE  Memory!Flush(DirtyPages)
<1>1. outcome' \in {"ok", "nothing_to_flush"}
  BY DEF flush_pages
<1>2. \A r \in Pages : IF r \in DirtyPages
                       THEN PageGone(r) /\ disk'[r] = HeaderOf(r).data
                       ELSE PageKept(r)
  <2> SUFFICES ASSUME NEW r \in Pages
               PROVE  IF r \in DirtyPages
                      THEN PageGone(r) /\ disk'[r] = HeaderOf(r).data
                      ELSE PageKept(r)
    OBVIOUS
  <2> QED BY FlushPagesEffect
<1> QED BY <1>1, <1>2, FlushRefines

\* A write through a reference is a write to the page it was asked for,
LEMMA WriteRefines ==
  ASSUME NEW c \in Clients, ClientInv(c), NEW p \in Pages, NEW d \in Data,
         WriteFrame(c, p, d)
  PROVE  Memory!Write(p, d)
<1>1. /\ Cached(p)
      /\ PageIs(p, TRUE, HeaderOf(p).pin_count, d)
      /\ OthersKept(p, p)
      /\ outcome' = "ok"
  BY WriteEffect
<1>2. /\ Contents'[p] = d
      /\ PinCounts'[p] = HeaderOf(p).pin_count
      /\ p \in DirtyPages'
  BY <1>1, ViewIs
<1>3. \A r \in Pages : r # p =>
            /\ Contents'[r] = Contents[r]
            /\ PinCounts'[r] = PinCounts[r]
            /\ r \in DirtyPages' <=> r \in DirtyPages
  BY <1>1, OthersView
<1>4. Contents' = [Contents EXCEPT ![p] = d]
  BY <1>2, <1>3, OnePageContents
<1>5. PinCounts' = PinCounts
  BY <1>1, <1>2, <1>3, ViewFacts, SamePins
<1>6. DirtyPages' = DirtyPages \cup {p}
  BY <1>2, <1>3, DirtyIsPages
<1>7. (outcome' \in {"evict_failed", "victim_is_pinned"}) = FALSE
  BY <1>1
<1> QED BY <1>4, <1>5, <1>6, <1>7 DEF Memory!Write

\* and an unpin one of that page.
LEMMA UnpinRefines ==
  ASSUME NEW c \in Clients, ClientInv(c), NEW p \in Pages,
         decrease_pin_count(c, p)
  PROVE  Memory!Unpin(p)
<1>1. /\ Cached(p)
      /\ HeaderOf(p).pin_count > 0
      /\ PageIs(p, HeaderOf(p).is_dirty, HeaderOf(p).pin_count - 1,
                HeaderOf(p).data)
      /\ OthersKept(p, p)
      /\ outcome' = "ok"
  BY UnpinEffect
<1>2. HeaderOf(p).is_dirty \in BOOLEAN
  BY <1>1, CachedFacts DEF ClientInv
<1>3. /\ Contents'[p] = HeaderOf(p).data
      /\ PinCounts'[p] = HeaderOf(p).pin_count - 1
      /\ p \in DirtyPages' <=> HeaderOf(p).is_dirty
  BY <1>1, <1>2, ViewIs
<1>4. \A r \in Pages : r # p =>
            /\ Contents'[r] = Contents[r]
            /\ PinCounts'[r] = PinCounts[r]
            /\ r \in DirtyPages' <=> r \in DirtyPages
  BY <1>1, OthersView
<1>5. /\ Contents[p] = HeaderOf(p).data
      /\ PinCounts[p] = HeaderOf(p).pin_count
      /\ p \in DirtyPages <=> HeaderOf(p).is_dirty
  BY <1>1, ViewFacts
<1>6. Contents' = Contents
  BY <1>3, <1>4, <1>5, SameContents
<1>7. PinCounts' = [PinCounts EXCEPT ![p] = PinCounts[p] - 1]
  BY <1>3, <1>4, <1>5, OnePagePins
<1>8. DirtyPages' = DirtyPages
  BY <1>3, <1>4, <1>5, DirtyIsPages
<1>9. (outcome' \in {"evict_failed", "victim_is_pinned"}) = FALSE
  BY <1>1
<1>10. PinCounts[p] > 0
  BY <1>1, <1>5
<1> QED BY <1>6, <1>7, <1>8, <1>9, <1>10 DEF Memory!Unpin

\* At first PagePool sees pages that hold zeros, unpinned and clean.
LEMMA PoolInitRefines == Init => Memory!Init
<1> SUFFICES ASSUME Init PROVE Memory!Init
  OBVIOUS
<1>1. /\ \A p \in Pages : ~Cached(p) /\ disk[p] = ZeroPage
      /\ (outcome \in {"evict_failed", "victim_is_pinned"}) = FALSE
  BY DEF Init, Cached
<1> QED BY <1>1 DEF Memory!Init, Contents, DirtyPages, PinCounts

\* Every step of the pool is one of PagePool, or one PagePool does not see.
LEMMA PoolStepRefines ==
  ASSUME NEW c, Clients = {c}, ClientInv(c), [Next]_vars
  PROVE  [Memory!Next]_(Memory!vars)
<1>1. c \in Clients /\ PoolInv
  BY DEF ClientInv
<1>2. CASE UNCHANGED vars
  <2>1. UNCHANGED <<Contents, DirtyPages, PinCounts, outcome>>
    BY <1>2 DEF vars, pool, Contents, DirtyPages, PinCounts, Cached
  <2> QED BY <2>1 DEF Memory!vars
<1>3. CASE allocate_new_page(c)
  <2>1. Memory!Flush({})
    BY <1>3, StillRefines DEF allocate_new_page, pool
  <2> QED BY <2>1 DEF Memory!Next
<1>4. ASSUME NEW p \in Pages, NEW b \in BOOLEAN, request_page(c, p, b)
      PROVE  Memory!Next
  <2>1. CASE Hit(c, p, b)
    BY <1>1, <2>1, HitRefines DEF Memory!Next
  <2>2. CASE \/ LoadIntoFreeFrame(c, p, b)
             \/ FlushAndLoad(c, p, b)
             \/ EvictAndLoad(c, p, b)
    BY <1>1, <2>2, LoadRefines DEF Memory!Next
  <2>3. CASE NoVictim(c, p) \/ VictimIsPinned(c, p)
    BY <1>1, <2>3, FailRefines DEF Memory!Next
  <2> QED BY <1>4, <2>1, <2>2, <2>3 DEF request_page
<1>5. CASE flush_pages(c)
  BY <1>1, <1>5, FlushPagesRefines DEF Memory!Next
<1>6. ASSUME NEW p \in Pages, flush_page(c, p)
      PROVE  Memory!Next
  BY <1>1, <1>6, FlushPageRefines DEF Memory!Next
<1>7. ASSUME NEW p \in Pages, decrease_pin_count(c, p)
      PROVE  Memory!Next
  BY <1>1, <1>7, UnpinRefines DEF Memory!Next
<1>8. ASSUME NEW p \in Pages, NEW d \in Data, WriteFrame(c, p, d)
      PROVE  Memory!Next
  BY <1>1, <1>8, WriteRefines DEF Memory!Next
<1>9. Requestable \subseteq Pages
  BY PoolAssumption DEF Requestable
<1>10. CASE Request(c)
  BY <1>4, <1>9, <1>10 DEF Request
<1>11. CASE Flush(c)
  BY <1>5, <1>6, <1>9, <1>11 DEF Flush
<1>12. CASE Use(c)
  BY <1>7, <1>8, <1>12 DEF Use
<1> QED BY <1>2, <1>3, <1>10, <1>11, <1>12 DEF Next

\* Used by one component, the pool implements PagePool: caching, eviction and
\* flushing change no page and drop no pin, and a request fails only when it
\* may (buffer_pool.hpp:114-311).
THEOREM PoolImplementsPagePool ==
  ASSUME NEW CONSTANT c, Clients = {c}
  PROVE  Spec => ImplementsPagePool
<1>1. Init => Memory!Init
  BY PoolInitRefines
<1>2. ClientInv(c) /\ [Next]_vars => [Memory!Next]_(Memory!vars)
  BY PoolStepRefines
<1>3. Spec => []ClientInv(c)
  BY ClientInvariant
<1> QED BY <1>1, <1>2, <1>3, PTL DEF Spec, ImplementsPagePool, Memory!Spec
=============================================================================
