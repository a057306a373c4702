----------------------------- MODULE BufferPool -----------------------------
(***************************************************************************)
(* The buffer pool, hivedb::buffer_pool (src/include/buffer_pool/          *)
(* buffer_pool.hpp), and the components that hold references to its        *)
(* frames.                                                                 *)
(*                                                                         *)
(* The pool is single threaded: a call returns before the next one starts, *)
(* so each path through a member function is one action.  The disk is an   *)
(* array of pages, which is what a call of the scheduler that waits for    *)
(* its future finds behind it (DiskScheduler implements DiskService) when  *)
(* the manager stores pages (MockDisk implements PageStore).  The replacer *)
(* is ReplacerOps.                                                         *)
(*                                                                         *)
(* request_page returns a reference to a frame, which the caller keeps     *)
(* over later calls.  A client is a component with references of its own:  *)
(* it writes and unpins through them only, it uses a reference it did not  *)
(* pin before its next call, and it gives up its references to the pages   *)
(* it flushes.                                                             *)
(***************************************************************************)
EXTENDS ReplacerOps, Sequences, FiniteSets, Functions

CONSTANTS
    Pages,          \* page ids that may be requested
    Data,           \* what a page may hold
    ZeroPage,       \* what a page holds before it is written
    Clients,        \* the components that share the pool
    KnownPages,     \* pages requested though this pool did not allocate them:
                    \* the root a tree is opened with, and what is below it
    MaxPins         \* bound: pins a client has on one page

ASSUME PoolAssumption == /\ Pages \subseteq Nat
                         /\ IsFiniteSet(Pages)
                         /\ ZeroPage \in Data
                         /\ KnownPages \subseteq Pages
                         /\ MaxPins \in Nat

VARIABLES
    m_next_page,    \* the next page id to hand out
    m_page_table,   \* page -> frame, NoFrame where there is no entry
    m_frames,       \* frame -> frame_header
    m_empty_frames, \* the list of free frames
    nodes,          \* m_frame_replacer
    disk,           \* page -> data, behind m_scheduler
    refs,           \* client -> page -> the reference it holds
    outcome         \* how the last call of the pool, or use of a frame, ended

pool == <<m_page_table, m_frames, m_empty_frames, nodes, disk>>

vars == <<m_next_page, pool, refs, outcome>>

Header == [frame_id : Frames, is_dirty : BOOLEAN, pin_count : Int, data : Data]

\* A frame without a page.  Its pin count is not always that of frame_header{}:
\* a client whose page was flushed by another still decreases it.
Blank == [frame_id : {NoFrame}, is_dirty : {FALSE}, pin_count : Int,
          data : {ZeroPage}]

\* frame_header{}: no page, no data, m_pin_count{-99}
FreeHeader == [frame_id |-> NoFrame, is_dirty |-> FALSE, pin_count |-> -99,
               data |-> ZeroPage]

Occupied(f) == m_frames[f].frame_id # NoFrame

Cached(p) == m_page_table[p] # NoFrame

Ref == [frame : Frames \cup {NoFrame}, pins : Nat]

NoRef == [frame |-> NoFrame, pins |-> 0]

Outcome == {"ok", "nothing_to_flush", "evict_failed", "victim_is_pinned",
            "no_data"}

Init == /\ m_next_page = 0
        /\ m_page_table = [p \in Pages |-> NoFrame]
        /\ m_frames = [f \in Frames |-> FreeHeader]
        /\ m_empty_frames = [i \in 1 .. MaxFrames |-> i - 1]
        /\ nodes = [f \in Frames |-> NoNode]
        /\ disk = [p \in Pages |-> ZeroPage]
        /\ refs = [c \in Clients |-> [p \in Pages |-> NoRef]]
        /\ outcome = "ok"
-----------------------------------------------------------------------------
(* The references of a client.                                             *)

\* References a client did not pin end with its next call.
KeptRefs(c) == [q \in Pages |-> IF refs[c][q].pins > 0 THEN refs[c][q]
                                                       ELSE NoRef]

\* The references of c after a call that gave it frame f for page p.
Granted(c, p, f, should_pin) ==
    LET kept == KeptRefs(c)
        pins == kept[p].pins + (IF should_pin THEN 1 ELSE 0)
    IN  [refs EXCEPT ![c] = [kept EXCEPT ![p] = [frame |-> f, pins |-> pins]]]

\* The references of c after a call that flushed the pages in ps.
Released(c, ps) ==
    [refs EXCEPT ![c] = [q \in Pages |-> IF q \in ps THEN NoRef
                                                     ELSE KeptRefs(c)[q]]]
-----------------------------------------------------------------------------
(* request_page                                                            *)

\* Mutations of Loaded: the page's id for the frame's; a pin nobody asked for;
\* the data of the page that was in the frame before.
PageIdLoaded(p, f, should_pin) ==
    [frame_id |-> p, is_dirty |-> FALSE,
     pin_count |-> IF should_pin THEN 1 ELSE 0, data |-> disk[p]]

AlwaysPinnedLoaded(p, f, should_pin) ==
    [frame_id |-> f, is_dirty |-> FALSE, pin_count |-> 1, data |-> disk[p]]

StaleLoaded(p, f, should_pin) ==
    [frame_id |-> f, is_dirty |-> FALSE,
     pin_count |-> IF should_pin THEN 1 ELSE 0, data |-> m_frames[f].data]

\* A frame just assigned frame_header{frame, buffer, &replacer} and pinned.
Loaded(p, f, should_pin) ==
    [frame_id |-> f, is_dirty |-> FALSE,
     pin_count |-> IF should_pin THEN 1 ELSE 0, data |-> disk[p]]

\* That assignment destroys a temporary, whose destructor marks the frame
\* evictable.
Assigned(ns, f) == SetEvictable(ns, f, TRUE)

Hit(c, p, should_pin) ==
    /\ Cached(p)
    /\ LET f == m_page_table[p]
       IN  /\ nodes' = SetEvictable(RecordAccess(nodes, f), f, FALSE)
           /\ m_frames' = [m_frames EXCEPT ![f].pin_count =
                                IF should_pin THEN @ + 1 ELSE @]
           /\ refs' = Granted(c, p, f, should_pin)
    /\ outcome' = "ok"
    /\ UNCHANGED <<m_page_table, m_empty_frames, disk>>

TableSize == Cardinality({p \in Pages : Cached(p)})

HasRoom == TableSize < MaxFrames

\* A mutation of LoadIntoFreeFrame: the frame stays on the free list.
UnpoppedLoadIntoFreeFrame(c, p, should_pin) ==
    /\ ~Cached(p)
    /\ HasRoom
    /\ LET f == Head(m_empty_frames)
       IN  /\ m_page_table' = [m_page_table EXCEPT ![p] = f]
           /\ m_frames' = [m_frames EXCEPT ![f] = Loaded(p, f, should_pin)]
           /\ nodes' = RecordAccess(Assigned(nodes, f), f)
           /\ refs' = Granted(c, p, f, should_pin)
    /\ outcome' = "ok"
    /\ UNCHANGED <<m_empty_frames, disk>>

LoadIntoFreeFrame(c, p, should_pin) ==
    /\ ~Cached(p)
    /\ HasRoom
    /\ LET f == Head(m_empty_frames)
       IN  /\ m_page_table' = [m_page_table EXCEPT ![p] = f]
           /\ m_frames' = [m_frames EXCEPT ![f] = Loaded(p, f, should_pin)]
           /\ nodes' = RecordAccess(Assigned(nodes, f), f)
           /\ refs' = Granted(c, p, f, should_pin)
    /\ m_empty_frames' = Tail(m_empty_frames)
    /\ outcome' = "ok"
    /\ UNCHANGED disk

\* A mutation of DirtyUnpinned: pins are not looked at.
PinnedDirtyUnpinned == {f \in Frames : m_frames[f].is_dirty}

\* The frames find_if may stop at: dirty, and nobody has them pinned.
DirtyUnpinned ==
    {f \in Frames : m_frames[f].is_dirty /\ m_frames[f].pin_count = 0}

IsFirst(f, S) == f \in S /\ \A g \in S : f =< g

\* Page q leaves frame f, which goes to the end of the free list; page p is
\* entered in the table at the front of that list, and frame h assigned to it.
Replace(q, f, p, h, should_pin) ==
    LET free == Append(m_empty_frames, f)
    IN  /\ m_page_table' = [m_page_table EXCEPT ![q] = NoFrame,
                                                ![p] = Head(free)]
        /\ m_frames' = [m_frames EXCEPT ![f] = FreeHeader,
                                        ![h] = Loaded(p, h, should_pin)]
        /\ m_empty_frames' = Tail(free)

FlushAndLoad(c, p, should_pin) ==
    /\ ~Cached(p)
    /\ ~HasRoom
    /\ \E f \in Frames, q \in Pages :
          /\ IsFirst(f, DirtyUnpinned)
          /\ m_page_table[q] = f
          /\ disk' = [disk EXCEPT ![q] = m_frames[f].data]
          /\ LET g == Head(Append(m_empty_frames, f))
             IN  /\ Replace(q, f, p, g, should_pin)
                 /\ nodes' = RecordAccess(
                      Assigned(RecordAccess(Remove(nodes, f), g), g), g)
                 /\ refs' = Granted(c, p, g, should_pin)
    /\ outcome' = "ok"

\* A mutation of EvictAndLoad: dirty frames are not flushed first.
UnflushedEvictAndLoad(c, p, should_pin) ==
    /\ ~Cached(p)
    /\ ~HasRoom
    /\ \E f \in Victims(nodes), q \in Pages :
          /\ m_frames[f].pin_count =< 0
          /\ m_page_table[q] = f
          /\ Replace(q, f, p, f, should_pin)
          /\ nodes' = RecordAccess(
                          Assigned(Remove(Erase(nodes, f), f), f), f)
          /\ refs' = Granted(c, p, f, should_pin)
    /\ outcome' = "ok"
    /\ UNCHANGED disk

EvictAndLoad(c, p, should_pin) ==
    /\ ~Cached(p)
    /\ ~HasRoom
    /\ DirtyUnpinned = {}
    /\ \E f \in Victims(nodes), q \in Pages :
          /\ m_frames[f].pin_count =< 0
          /\ m_page_table[q] = f
          /\ Replace(q, f, p, f, should_pin)
          /\ nodes' = RecordAccess(
                          Assigned(Remove(Erase(nodes, f), f), f), f)
          /\ refs' = Granted(c, p, f, should_pin)
    /\ outcome' = "ok"
    /\ UNCHANGED disk

\* evict() found nothing.
NoVictim(c, p) ==
    /\ ~Cached(p)
    /\ ~HasRoom
    /\ DirtyUnpinned = {}
    /\ Victims(nodes) = {}
    /\ refs' = Released(c, {})
    /\ outcome' = "evict_failed"
    /\ UNCHANGED pool

\* The frame evict() chose, and forgot, turns out to be pinned.
VictimIsPinned(c, p) ==
    /\ ~Cached(p)
    /\ ~HasRoom
    /\ DirtyUnpinned = {}
    /\ \E f \in Victims(nodes) : /\ m_frames[f].pin_count > 0
                                 /\ nodes' = Erase(nodes, f)
    /\ refs' = Released(c, {})
    /\ outcome' = "victim_is_pinned"
    /\ UNCHANGED <<m_page_table, m_frames, m_empty_frames, disk>>

request_page(c, p, should_pin) ==
    \/ Hit(c, p, should_pin)
    \/ LoadIntoFreeFrame(c, p, should_pin)
    \/ FlushAndLoad(c, p, should_pin)
    \/ EvictAndLoad(c, p, should_pin)
    \/ NoVictim(c, p)
    \/ VictimIsPinned(c, p)
-----------------------------------------------------------------------------
(* flush_page and flush_pages                                              *)

\* flush_page asserts that the page is dirty; its callers have just made it
\* so.  Of a page that is not cached it returns false.
flush_page(c, p) ==
    IF Cached(p)
    THEN LET f == m_page_table[p]
         IN  /\ m_frames[f].is_dirty
             /\ disk' = [disk EXCEPT ![p] = m_frames[f].data]
             /\ m_page_table' = [m_page_table EXCEPT ![p] = NoFrame]
             /\ m_frames' = [m_frames EXCEPT ![f] = FreeHeader]
             /\ m_empty_frames' = Append(m_empty_frames, f)
             /\ nodes' = Remove(nodes, f)
             /\ refs' = Released(c, {p})
             /\ outcome' = "ok"
    ELSE /\ refs' = Released(c, {})
         /\ outcome' = "nothing_to_flush"
         /\ UNCHANGED pool

DirtyPages == {p \in Pages : Cached(p) /\ m_frames[m_page_table[p]].is_dirty}

DirtyFrames == {f \in Frames : m_frames[f].is_dirty}

\* The pages are visited in the order of the hash table, which is any order.
flush_pages(c) ==
    \E order \in Bijection(1 .. Cardinality(DirtyFrames), DirtyFrames) :
       /\ disk' = [p \in Pages |-> IF p \in DirtyPages
                                   THEN m_frames[m_page_table[p]].data
                                   ELSE disk[p]]
       /\ m_page_table' = [p \in Pages |-> IF p \in DirtyPages
                                           THEN NoFrame ELSE m_page_table[p]]
       /\ m_frames' = [f \in Frames |-> IF m_frames[f].is_dirty
                                        THEN FreeHeader ELSE m_frames[f]]
       /\ m_empty_frames' = m_empty_frames \o order
       /\ nodes' = [f \in Frames |-> IF m_frames[f].is_dirty
                                     THEN Remove(nodes, f)[f] ELSE nodes[f]]
       /\ refs' = Released(c, DirtyPages)
       /\ outcome' = IF DirtyPages = {} THEN "nothing_to_flush" ELSE "ok"
-----------------------------------------------------------------------------
(* What a client does with the frame_header it was given.                  *)

\* Write through get_data() and set is_dirty.  Behind a frame_header without a
\* page there is a null pointer.
WriteFrame(c, p, d) ==
    LET f == refs[c][p].frame
    IN  /\ f # NoFrame
        /\ IF Occupied(f)
           THEN /\ m_frames' = [m_frames EXCEPT ![f].data = d,
                                                ![f].is_dirty = TRUE]
                /\ outcome' = "ok"
           ELSE /\ outcome' = "no_data"
                /\ UNCHANGED m_frames
        /\ UNCHANGED <<m_page_table, m_empty_frames, nodes, disk, refs>>

decrease_pin_count(c, p) ==
    LET r == refs[c][p]
    IN  /\ r.pins > 0
        /\ m_frames' = [m_frames EXCEPT ![r.frame].pin_count = @ - 1]
        /\ refs' = [refs EXCEPT ![c][p] =
                        IF r.pins = 1
                        THEN NoRef
                        ELSE [frame |-> r.frame, pins |-> r.pins - 1]]
        /\ outcome' = "ok"
        /\ UNCHANGED <<m_page_table, m_empty_frames, nodes, disk>>
-----------------------------------------------------------------------------
allocate_new_page(c) ==
    /\ m_next_page \in Pages
    /\ m_next_page' = m_next_page + 1
    /\ refs' = Released(c, {})
    /\ outcome' = "ok"
    /\ UNCHANGED pool

Requestable == KnownPages \cup {p \in Pages : p < m_next_page}

Request(c) == \E p \in Requestable, should_pin \in BOOLEAN :
                 /\ should_pin => refs[c][p].pins < MaxPins
                 /\ request_page(c, p, should_pin)
                 /\ UNCHANGED m_next_page

Flush(c) == /\ flush_pages(c) \/ \E p \in Requestable : flush_page(c, p)
            /\ UNCHANGED m_next_page

Use(c) == /\ \E p \in Pages : \/ decrease_pin_count(c, p)
                              \/ \E d \in Data : WriteFrame(c, p, d)
          /\ UNCHANGED m_next_page

\* A write through a null pointer ends the process.
Next == /\ outcome # "no_data"
        /\ \E c \in Clients : \/ allocate_new_page(c)
                              \/ Request(c)
                              \/ Flush(c)
                              \/ Use(c)

Spec == Init /\ [][Next]_vars
-----------------------------------------------------------------------------
TypeOK ==
    /\ m_next_page \in Nat
    /\ m_page_table \in [Pages -> Frames \cup {NoFrame}]
    /\ m_frames \in [Frames -> Header \cup Blank]
    /\ m_empty_frames \in Seq(Frames)
    /\ nodes \in [Frames -> Node]
    /\ disk \in [Pages -> Data]
    /\ refs \in [Clients -> [Pages -> Ref]]
    /\ outcome \in Outcome

\* Every frame is either on the free list, once, and blank, or holds exactly
\* one page and knows its own number (the state evict_page and the three ways
\* of loading a page hand to each other, buffer_pool.hpp:144-240 and 295-311).
FramePartition ==
    /\ \A p, q \in Pages :
          Cached(p) /\ m_page_table[p] = m_page_table[q] => p = q
    /\ \A i, j \in DOMAIN m_empty_frames :
          m_empty_frames[i] = m_empty_frames[j] => i = j
    /\ \A f \in Frames :
          IF Occupied(f)
          THEN /\ m_frames[f].frame_id = f
               /\ \E p \in Pages : m_page_table[p] = f
               /\ \A i \in DOMAIN m_empty_frames : m_empty_frames[i] # f
          ELSE /\ \A p \in Pages : m_page_table[p] # f
               /\ \E i \in DOMAIN m_empty_frames : m_empty_frames[i] = f

\* The replacer never offers a frame that holds no page, although evict_page
\* leaves the nodes of frames that are not evictable behind: the ASSERT of
\* buffer_pool.hpp:223 holds.
EvictableOccupied == \A f \in Evictable(nodes) : Occupied(f)

\* When the table is not full there is a free frame, the ASSERT of
\* buffer_pool.hpp:147.
RoomMeansFreeFrame == HasRoom => m_empty_frames # <<>>

\* A reference a client may still use is to the frame that holds the page it
\* asked for: its page has not been evicted from under it, flushed by another
\* client, or moved (buffer_pool.hpp:112, 212-215).
RefsPointToPages ==
    \A c \in Clients, p \in Pages :
       refs[c][p].frame # NoFrame => m_page_table[p] = refs[c][p].frame

\* With one client the pin count of a cached page is the number of pins it
\* holds: no path through request_page or flush_page leaks or drops a pin.
PinsMatchRefs ==
    \A c \in Clients, p \in Pages :
       IF Cached(p)
       THEN m_frames[m_page_table[p]].pin_count = refs[c][p].pins
       ELSE refs[c][p].pins = 0

\* A page that is in memory and not dirty is the page on the disk, so that
\* evict_page may drop it without a write (buffer_pool.hpp:226).
CleanMatchesDisk ==
    \A p \in Pages :
       Cached(p) /\ ~m_frames[m_page_table[p]].is_dirty
       => m_frames[m_page_table[p]].data = disk[p]

\* A request fails only when every frame is pinned, which is what
\* buffer_pool.hpp:214 takes the failure for ("maybe this a oom?").
FailsOnlyWhenAllPinned ==
    outcome \in {"evict_failed", "victim_is_pinned"}
    => \A f \in Frames : m_frames[f].pin_count > 0
-----------------------------------------------------------------------------
\* The data of a page, wherever it is.
Contents == [p \in Pages |-> IF Cached(p) THEN m_frames[m_page_table[p]].data
                                          ELSE disk[p]]

\* The pins of a page; one that is not in memory has none.
PinCounts == [p \in Pages |-> IF Cached(p)
                              THEN m_frames[m_page_table[p]].pin_count ELSE 0]

Memory == INSTANCE PagePool WITH
              contents <- Contents,
              dirty    <- DirtyPages,
              pins     <- PinCounts,
              failed   <- outcome \in {"evict_failed", "victim_is_pinned"}

\* Used by one component the pool implements PagePool: caching, eviction and
\* flushing change no page and drop no pin, and a request fails only when it
\* may (buffer_pool.hpp:114-311).
ImplementsPagePool == Memory!Spec
=============================================================================
