------------------------------ MODULE BPlusTree ------------------------------
(***************************************************************************)
(* The B+ tree, hivedb::b_plus_tree (src/include/b_plus_tree/              *)
(* b_plus_tree.hpp), on a buffer pool of its own.                          *)
(*                                                                         *)
(* A call of a member function is a series of steps, cut where the code    *)
(* requests a page, because that is where an exception can end the call.   *)
(* The pool is what PagePool says of it: pages, and which of them are      *)
(* dirty or pinned (BufferPool implements PagePool).  Frames do not        *)
(* appear: a frame_header* that the tree keeps is pinned                   *)
(* (HeldFramesArePinned), so it stands for the page it was requested for.  *)
(***************************************************************************)
EXTENDS BPlusTreeNode, Sequences, SequencesExt

CONSTANTS
    Keys,           \* keys
    RecordOf,       \* key -> the record it is inserted with
    Missing,        \* found nothing
    Capacities,     \* MAX_NUMBER_OF_ELEMENTS of leaves and of inner nodes:
                    \* [leaf : Nat, inner : Nat]; a smaller inner node is
                    \* split into one with a single child, and no keys
    MaxPages,       \* bound: page ids
    MaxFailures,    \* bound: requests that fail
    MaxLeaks,       \* bound: pins held between calls, for another miss
    Window          \* bound: a key to insert is among so many of the smallest
                    \* or of the largest keys that are not there yet

ASSUME TreeAssumption ==
    /\ Keys \subseteq Nat \ {0}
    /\ RecordOf \in [Keys -> Nat \ {0}]
    /\ \A c \in Capacities : c.leaf \in Nat /\ c.leaf >= 2 /\ c.inner \in Nat /\ c.inner >= 5
    /\ MaxPages \in Nat

Pages == 0 .. MaxPages - 1

NoPage == -1        \* INVALID_PAGE_ID, and the empty optional

VARIABLES
    capacity,       \* the capacities this tree was compiled with
    m_root_page_id,
    m_next_page,    \* m_bp.m_next_page
    contents,       \* page -> node, in m_bp
    dirty,          \* pages m_bp has to write
    pins,           \* page -> pins, in m_bp
    m_frame_queue,  \* the inner nodes on the way down, the last one at the end
    call,           \* the call under way
    found,          \* the key and the result of the search that just ended
    outcome,        \* how the last call ended
    failures        \* requests that have failed

tree == <<m_root_page_id, m_next_page>>

pool == <<contents, dirty, pins>>

vars == <<capacity, tree, pool, m_frame_queue, call, found, outcome, failures>>

\* key, and the local variables: the page to look at next (previous_page_id),
\* new_page_id, previous_page_id of insert, new_root, and the queue page_ids of
\* dump_contents behind the page to look at next.
Idle == [step |-> "idle", key |-> NoKey, at |-> NoPage, new_page |-> NoPage,
         previous |-> NoPage, new_root |-> NoPage, page_ids |-> <<>>]

\* An assertion has ended the process.
Aborted == outcome \in {"assert_page_id", "assert_not_empty",
                        "assert_leaf_has_room", "assert_inner_has_room",
                        "assert_false"}

IsIdle == call.step = "idle" /\ ~Aborted

Init == /\ capacity \in Capacities
        /\ m_root_page_id = NoPage
        /\ m_next_page = 0
        /\ contents = [p \in Pages |-> BlankPage]
        /\ dirty = {}
        /\ pins = [p \in Pages |-> 0]
        /\ m_frame_queue = <<>>
        /\ call = Idle
        /\ found = <<>>
        /\ outcome = "ok"
        /\ failures = 0
-----------------------------------------------------------------------------
(* The pool.                                                               *)

Flushable == {p \in dirty : pins[p] = 0}

InMemory(p) == p \in dirty \/ pins[p] > 0

\* dirty after a request for p has returned.
AfterRequest(p) ==
    {dirty} \cup {dirty \ {q} : q \in IF InMemory(p) THEN {} ELSE Flushable}

Pinned(p) == [pins EXCEPT ![p] = @ + 1]

Unpinned(p) == [pins EXCEPT ![p] = @ - 1]

\* The page the call asks for in its next step, if that request can fail: the
\* one for the first root finds a free frame, because the pool is empty.
Wanted == CASE call.step \in {"find", "descend", "dump"} -> call.at
            [] call.step \in {"split_leaf", "split_inner"} -> call.new_page
            [] call.step \in {"new_root", "root_over"} -> call.new_root
            [] call.step = "root_victim" -> m_root_page_id
            [] OTHER -> NoPage

\* request_page throws, and nothing catches: what the call has done stays.
Throw == /\ failures < MaxFailures
         /\ Wanted # NoPage
         /\ ~InMemory(Wanted)
         /\ Flushable = {}
         /\ failures' = failures + 1
         /\ call' = Idle
         /\ outcome' = "threw"
         /\ UNCHANGED <<capacity, tree, pool, m_frame_queue, found>>

\* An ASSERT fails, and ends the process.
Abort(why) == /\ outcome' = why
              /\ call' = Idle
              /\ UNCHANGED <<capacity, tree, pool, m_frame_queue, found,
                             failures>>

\* flush_pages(), with ds and ps the dirty pages and the pins before it.
FlushAll(ds, ps) == /\ dirty' = {}
                    /\ pins' = [p \in Pages |-> IF p \in ds THEN 0 ELSE ps[p]]
                    /\ outcome' = IF ds = {} THEN "not_inserted" ELSE "ok"
                    /\ call' = Idle
-----------------------------------------------------------------------------
(* find                                                                    *)

StartFind(k) ==
    /\ IsIdle
    /\ IF m_root_page_id = NoPage
       THEN outcome' = "no_root" /\ UNCHANGED call
       ELSE /\ call' = [Idle EXCEPT !.step = "find", !.key = k,
                                    !.at = m_root_page_id]
            /\ outcome' = "ok"
    /\ found' = <<>>
    /\ UNCHANGED <<capacity, tree, pool, m_frame_queue, failures>>

Find ==
    /\ call.step = "find"
    /\ LET n == contents[call.at]
       IN  IF n.type = "inner"
           THEN /\ call' = [call EXCEPT
                              !.at = n.values[inner_find_index(n, call.key)]]
                /\ UNCHANGED <<pins, found, outcome>>
           ELSE IF n.current_size = 0
           THEN /\ outcome' = "assert_not_empty"
                /\ call' = Idle
                /\ UNCHANGED <<pins, found>>
           ELSE LET i == leaf_find_index(n, call.key)
                IN  /\ IF i = NoIndex
                       THEN /\ found' = <<call.key, Missing>>
                            /\ pins' = Pinned(call.at)
                       ELSE /\ found' = <<call.key, n.values[i]>>
                            /\ UNCHANGED pins
                    /\ call' = Idle
                    /\ UNCHANGED outcome
    /\ dirty' \in AfterRequest(call.at)
    /\ UNCHANGED <<capacity, tree, contents, m_frame_queue, failures>>
-----------------------------------------------------------------------------
(* dump_contents: the nodes are visited by levels, none is pinned.         *)

StartDump ==
    /\ IsIdle
    /\ IF m_root_page_id = NoPage
       THEN outcome' = "assert_page_id" /\ UNCHANGED call
       ELSE /\ call' = [Idle EXCEPT !.step = "dump", !.at = m_root_page_id]
            /\ outcome' = "ok"
    /\ found' = <<>>
    /\ UNCHANGED <<capacity, tree, pool, m_frame_queue, failures>>

Dump ==
    /\ call.step = "dump"
    /\ LET n == contents[call.at]
           children == IF n.type = "leaf" THEN <<>>
                       ELSE [i \in 1 .. n.current_size |-> n.values[i - 1]]
           page_ids == call.page_ids \o children
       IN  call' = IF page_ids = <<>> THEN Idle
                   ELSE [call EXCEPT !.at = Head(page_ids), !.page_ids = Tail(page_ids)]
    /\ dirty' \in AfterRequest(call.at)
    /\ UNCHANGED <<capacity, tree, contents, pins, m_frame_queue, found, outcome,
                   failures>>
-----------------------------------------------------------------------------
(* insert                                                                  *)

\* The first key: a root page, requested without a pin and flushed by itself.
StartFirst(k) ==
    /\ IsIdle
    /\ m_root_page_id = NoPage
    /\ m_root_page_id' = m_next_page
    /\ m_next_page' = m_next_page + 1
    /\ call' = [Idle EXCEPT !.step = "first", !.key = k]
    /\ outcome' = "ok"
    /\ found' = <<>>
    /\ UNCHANGED <<capacity, pool, m_frame_queue, failures>>

First ==
    /\ call.step = "first"
    /\ contents' = [contents EXCEPT ![m_root_page_id] =
                      init_first_node(capacity.leaf, call.key,
                                      RecordOf[call.key])]
    /\ call' = Idle
    /\ UNCHANGED <<capacity, tree, dirty, pins, m_frame_queue, found, outcome,
                   failures>>

StartInsert(k) ==
    /\ IsIdle
    /\ m_root_page_id # NoPage
    /\ call' = [Idle EXCEPT !.step = "descend", !.key = k, !.at = m_root_page_id]
    /\ outcome' = "ok"
    /\ found' = <<>>
    /\ UNCHANGED <<capacity, tree, pool, m_frame_queue, failures>>

Descend ==
    /\ call.step = "descend"
    /\ LET n == contents[call.at]
       IN  /\ n.type = "inner"
           /\ call' = [call EXCEPT !.at = n.values[inner_find_index(n, call.key)]]
    /\ pins' = Pinned(call.at)
    /\ dirty' \in AfterRequest(call.at)
    /\ m_frame_queue' = Append(m_frame_queue, call.at)
    /\ UNCHANGED <<capacity, tree, contents, found, outcome, failures>>

\* A mutation of InsertInLeaf: the page is not marked dirty.
CleanInsertInLeaf ==
    /\ call.step = "descend"
    /\ LET n == contents[call.at]
           filled == trivial_insert(n, call.key, RecordOf[call.key])
       IN  /\ n.type = "leaf"
           /\ can_insert_trivially(n)
           /\ contents' = [contents EXCEPT ![call.at] = filled]
           /\ IF should_split(filled)
              THEN /\ call' = [call EXCEPT !.step = "split_leaf",
                                           !.new_page = m_next_page]
                   /\ m_next_page' = m_next_page + 1
              ELSE /\ call' = [call EXCEPT !.step = "climb"]
                   /\ UNCHANGED m_next_page
    /\ pins' = Pinned(call.at)
    /\ dirty' \in AfterRequest(call.at)
    /\ UNCHANGED <<capacity, m_root_page_id, m_frame_queue, found, outcome,
                   failures>>

InsertInLeaf ==
    /\ call.step = "descend"
    /\ LET n == contents[call.at]
           filled == trivial_insert(n, call.key, RecordOf[call.key])
       IN  /\ n.type = "leaf"
           /\ can_insert_trivially(n)
           /\ contents' = [contents EXCEPT ![call.at] = filled]
           /\ IF should_split(filled)
              THEN /\ call' = [call EXCEPT !.step = "split_leaf",
                                           !.new_page = m_next_page]
                   /\ m_next_page' = m_next_page + 1
              ELSE /\ call' = [call EXCEPT !.step = "climb"]
                   /\ UNCHANGED m_next_page
    /\ pins' = Pinned(call.at)
    /\ dirty' \in {ds \cup {call.at} : ds \in AfterRequest(call.at)}
    /\ UNCHANGED <<capacity, m_root_page_id, m_frame_queue, found, outcome,
                   failures>>

FullLeaf == /\ call.step = "descend"
            /\ contents[call.at].type = "leaf"
            /\ ~can_insert_trivially(contents[call.at])
            /\ Abort("assert_leaf_has_room")

\* A mutation of SplitLeaf: the new leaf is given back at once.
EagerSplitLeaf ==
    /\ call.step = "split_leaf"
    /\ LET split == leaf_split_node(capacity.leaf, contents[call.at])
       IN  contents' = [contents EXCEPT ![call.at] = split.left,
                                        ![call.new_page] = split.right]
    /\ dirty' \in {ds \cup {call.new_page} : ds \in AfterRequest(call.new_page)}
    /\ IF m_frame_queue = <<>>
       THEN /\ call' = [call EXCEPT !.step = "new_root", !.new_root = m_next_page]
            /\ m_next_page' = m_next_page + 1
       ELSE /\ call' = [call EXCEPT !.step = "climb"]
            /\ UNCHANGED m_next_page
    /\ UNCHANGED <<capacity, m_root_page_id, pins, m_frame_queue, found, outcome,
                   failures>>

\* A root that is split needs a root above it; its page is allocated first.
SplitLeaf ==
    /\ call.step = "split_leaf"
    /\ LET split == leaf_split_node(capacity.leaf, contents[call.at])
       IN  contents' = [contents EXCEPT ![call.at] = split.left,
                                        ![call.new_page] = split.right]
    /\ pins' = Pinned(call.new_page)
    /\ dirty' \in {ds \cup {call.new_page} : ds \in AfterRequest(call.new_page)}
    /\ IF m_frame_queue = <<>>
       THEN /\ call' = [call EXCEPT !.step = "new_root", !.new_root = m_next_page]
            /\ m_next_page' = m_next_page + 1
       ELSE /\ call' = [call EXCEPT !.step = "climb"]
            /\ UNCHANGED m_next_page
    /\ UNCHANGED <<capacity, m_root_page_id, m_frame_queue, found, outcome,
                   failures>>

\* The new root has max_size MAX_NUMBER_OF_ELEMENTS of a node with the
\* values of a leaf.  The new leaf is requested too; it is in memory.
NewRootOverLeaves ==
    /\ call.step = "new_root"
    /\ LET keys == [i \in {0, 1} |-> IF i = 0
                                     THEN contents[call.new_page].keys[0]
                                     ELSE NoKey]
           children == [i \in {0, 1} |-> IF i = 0 THEN m_root_page_id
                                                  ELSE call.new_page]
       IN  contents' = [contents EXCEPT ![call.new_root] =
                           NewNode("inner", capacity.leaf, 2, keys, children)]
    /\ m_root_page_id' = call.new_root
    /\ FlushAll(dirty \cup {call.new_root}, pins)
    /\ UNCHANGED <<capacity, m_next_page, m_frame_queue, found, failures>>

PopQueue == m_frame_queue' = Front(m_frame_queue)

\* A mutation of ClimbUnpin: the pin is kept.
LeakyClimbUnpin ==
    /\ call.step = "climb"
    /\ m_frame_queue # <<>>
    /\ call.new_page = NoPage
    /\ PopQueue
    /\ UNCHANGED <<capacity, tree, contents, dirty, pins, call, found, outcome,
                   failures>>

\* Nothing to insert in the node: only its pin is given back.
ClimbUnpin ==
    /\ call.step = "climb"
    /\ m_frame_queue # <<>>
    /\ call.new_page = NoPage
    /\ pins' = Unpinned(Last(m_frame_queue))
    /\ PopQueue
    /\ UNCHANGED <<capacity, tree, contents, dirty, call, found, outcome,
                   failures>>

\* The new leaf is entered in the node above.  It is requested without a pin,
\* and given back all the same: the pin is the one of SplitLeaf.
ClimbInsert ==
    /\ call.step = "climb"
    /\ m_frame_queue # <<>>
    /\ call.new_page # NoPage
    /\ contents[call.new_page].type = "leaf"
    /\ LET at == Last(m_frame_queue)
           n == contents[at]
           filled == trivial_insert_leaf_node(n, call.new_page,
                                              contents[call.new_page])
       IN  /\ can_insert_trivially(n)
           /\ contents' = [contents EXCEPT ![at] = filled]
           /\ dirty' = dirty \cup {at}
           /\ IF should_split(filled)
              THEN /\ call' = [call EXCEPT !.step = "split_inner",
                                           !.previous = call.new_page,
                                           !.new_page = m_next_page]
                   /\ m_next_page' = m_next_page + 1
                   /\ UNCHANGED <<pins, m_frame_queue>>
              ELSE /\ call' = [call EXCEPT !.new_page = NoPage]
                   /\ pins' = [Unpinned(call.new_page) EXCEPT ![at] = @ - 1]
                   /\ PopQueue
                   /\ UNCHANGED m_next_page
    /\ UNCHANGED <<capacity, m_root_page_id, found, outcome, failures>>

FullInner == /\ call.step = "climb"
             /\ m_frame_queue # <<>>
             /\ call.new_page # NoPage
             /\ ~can_insert_trivially(contents[Last(m_frame_queue)])
             /\ Abort("assert_inner_has_room")

\* trivial_insert_inner_node begins with ASSERT(false).
InnerChild == /\ call.step = "climb"
              /\ m_frame_queue # <<>>
              /\ call.new_page # NoPage
              /\ can_insert_trivially(contents[Last(m_frame_queue)])
              /\ contents[call.new_page].type = "inner"
              /\ Abort("assert_false")

SplitInner ==
    /\ call.step = "split_inner"
    /\ LET at == Last(m_frame_queue)
           split == inner_split_node(capacity.inner, contents[at])
       IN  /\ contents' = [contents EXCEPT ![at] = split.left,
                                           ![call.new_page] = split.right]
           /\ pins' = [Pinned(call.new_page) EXCEPT ![call.previous] = @ - 1,
                                                    ![at] = @ - 1]
    /\ dirty' \in {ds \cup {call.new_page} : ds \in AfterRequest(call.new_page)}
    /\ PopQueue
    /\ call' = [call EXCEPT !.step = "climb", !.previous = NoPage]
    /\ UNCHANGED <<capacity, tree, found, outcome, failures>>

\* A mutation of Finish: a root that was split gets no root above it.
RootlessFinish ==
    /\ call.step = "climb"
    /\ m_frame_queue = <<>>
    /\ FlushAll(dirty, pins)
    /\ UNCHANGED <<capacity, tree, contents, m_frame_queue, found, failures>>

\* At the top.  flush_pages ends the call, unless the root was split.
Finish ==
    /\ call.step = "climb"
    /\ m_frame_queue = <<>>
    /\ IF call.new_page = NoPage
       THEN FlushAll(dirty, pins)
       ELSE /\ call' = [call EXCEPT !.step = "root_victim"]
            /\ UNCHANGED <<dirty, pins, outcome>>
    /\ UNCHANGED <<capacity, tree, contents, m_frame_queue, found, failures>>

\* create_root_with_inner_nodes, up to the request for the new root.
RootVictim ==
    /\ call.step = "root_victim"
    /\ pins' = Pinned(m_root_page_id)
    /\ dirty' \in {ds \cup {m_root_page_id} : ds \in AfterRequest(m_root_page_id)}
    /\ call' = [call EXCEPT !.step = "root_over", !.new_root = m_next_page]
    /\ m_next_page' = m_next_page + 1
    /\ UNCHANGED <<capacity, m_root_page_id, contents, m_frame_queue, found,
                   outcome, failures>>

NewRootOverInner ==
    /\ call.step = "root_over"
    /\ LET victim == contents[m_root_page_id]
           last == victim.current_size - 1
           keys == [i \in {0, 1} |-> IF i = 0 THEN victim.keys[last] ELSE NoKey]
           children == [i \in {0, 1} |-> IF i = 0 THEN m_root_page_id
                                                  ELSE call.new_page]
       IN  contents' = [contents EXCEPT
                          ![call.new_root] =
                             NewNode("inner", capacity.inner, 2, keys, children),
                          ![m_root_page_id].keys[last] = NoKey]
    /\ m_root_page_id' = call.new_root
    /\ FlushAll(dirty \cup {call.new_root}, pins)
    /\ UNCHANGED <<capacity, m_next_page, m_frame_queue, found, failures>>
-----------------------------------------------------------------------------
LeafPages == {p \in Pages : contents[p].type = "leaf"}

\* The pairs of a key and its record in some leaf.
Records == UNION {{<<contents[p].keys[i], contents[p].values[i]>> :
                      i \in Slots(contents[p])} : p \in LeafPages}

Absent == {k \in Keys : \A r \in Records : r[1] # k}

\* The keys the next insertion may be given: every key is inserted once.
Offered ==
    LET absent == Absent
    IN  {k \in absent : \/ Cardinality({j \in absent : j < k}) < Window
                        \/ Cardinality({j \in absent : j > k}) < Window}

Leaks == MapThenSumSet(LAMBDA p : pins[p], Pages)

\* An insertion allocates three pages at most.
HasPages == m_next_page + 3 =< MaxPages

Insert == /\ IsIdle
          /\ HasPages
          /\ \E k \in Offered : StartFirst(k) \/ StartInsert(k)

Search ==
    /\ IsIdle
    /\ \E k \in IF Leaks < MaxLeaks THEN Keys
               ELSE IF failures = 0 THEN Keys \ Absent ELSE {} : StartFind(k)

Next == \/ Insert
        \/ Search
        \/ Find
        \/ StartDump
        \/ Dump
        \/ First
        \/ Descend
        \/ InsertInLeaf
        \/ FullLeaf
        \/ SplitLeaf
        \/ NewRootOverLeaves
        \/ ClimbUnpin
        \/ ClimbInsert
        \/ FullInner
        \/ InnerChild
        \/ SplitInner
        \/ Finish
        \/ RootVictim
        \/ NewRootOverInner
        \/ Throw

Spec == Init /\ [][Next]_vars
-----------------------------------------------------------------------------
\* Besides the types: the slots of a node below current_size are filled, the
\* others are not, and no split leaves a hole (b_plus_tree_node.hpp:222-244,
\* 398-419).
TypeOK ==
    /\ m_root_page_id \in Pages \cup {NoPage}
    /\ m_next_page \in 0 .. MaxPages
    /\ \A p \in Pages :
          LET n == contents[p]
          IN  /\ n.type \in {"leaf", "inner"}
              /\ n.current_size \in 0 .. n.max_size
              /\ DOMAIN n.keys = 0 .. n.max_size - 1
              /\ DOMAIN n.values = 0 .. n.max_size - 1
              /\ \A i \in DOMAIN n.keys :
                    IF n.type = "leaf"
                    THEN IF i \in Slots(n)
                         THEN n.keys[i] \in Keys /\ n.values[i] \in Range(RecordOf)
                         ELSE n.keys[i] = NoKey /\ n.values[i] = NoKey
                    ELSE /\ i < n.current_size - 1 => n.keys[i] \in Keys
                         /\ n.keys[i] \in Keys => i \in Slots(n)
                         /\ n.values[i] \in Pages <=> i \in Slots(n)
    /\ dirty \subseteq Pages
    /\ pins \in [Pages -> Nat]
    /\ m_frame_queue \in Seq(Pages)

\* Between two calls, as long as no request has failed.
Working == IsIdle /\ failures = 0 /\ m_root_page_id # NoPage

ChildrenOf(p) == IF contents[p].type = "leaf" THEN {}
                 ELSE {contents[p].values[i] : i \in Slots(contents[p])}

\* The pages so many levels below the root.
Level[depth \in Nat] ==
    IF depth = 0 THEN {m_root_page_id}
    ELSE UNION {ChildrenOf(p) : p \in Level[depth - 1]}

InnerPages == {p \in Pages : contents[p].type = "inner"}

\* Every page the tree has allocated is a node of it, once: splits and new roots
\* lose no page and link none twice.  All leaves are at the same depth
\* (b_plus_tree.hpp:152-157, 186-204, 243-267).
TreeShape ==
    Working =>
       /\ \E depth \in 0 .. MaxPages :
             /\ UNION {Level[d] : d \in 0 .. depth} = 0 .. m_next_page - 1
             /\ \A p \in LeafPages : p < m_next_page => p \in Level[depth]
       /\ \A p, q \in InnerPages :
             \A i \in Slots(contents[p]), j \in Slots(contents[q]) :
                /\ contents[p].values[i] # m_root_page_id
                /\ contents[p].values[i] = contents[q].values[j] => p = q /\ i = j

\* MAX_NUMBER_OF_ELEMENTS for a node of this type.
Capacity(n) == IF n.type = "leaf" THEN capacity.leaf ELSE capacity.inner

\* A call leaves room in every node, and in every node enough for the searches:
\* find_index of an inner node reads the key before the last one, that of a leaf
\* asserts that there is one (b_plus_tree_node.hpp:169, 476-480).  max_size is
\* what the page has room for.
Occupancy ==
    Working =>
       \A p \in 0 .. m_next_page - 1 :
          LET n == contents[p]
          IN  /\ n.max_size = Capacity(n)
              /\ can_insert_trivially(n)
              /\ n.current_size >= IF n.type = "inner" THEN 2
                                   ELSE IF p = m_root_page_id THEN 1
                                   ELSE capacity.leaf \div 2

\* Between calls an inner node is pinned exactly as often as m_frame_queue holds
\* it, also after calls that an exception ended, so that the next insertion
\* gives the pins back (b_plus_tree.hpp:140, 212-263).
InnerPinsAreQueued ==
    IsIdle => \A p \in Pages :
       contents[p].type = "inner" =>
          pins[p] = Cardinality({i \in DOMAIN m_frame_queue :
                                   m_frame_queue[i] = p})

\* Once there is a root, and while no request fails, the only assertion that can
\* fail is the one an inner node below an inner node runs into
\* (b_plus_tree_node.hpp:136, 195, 362, 425).
OnlyInnerSplitsAbort ==
    failures = 0 /\ m_root_page_id # NoPage /\ Aborted => outcome = "assert_false"

\* The pages whose frames the tree goes on to use: the nodes of the queue, which an
\* exception leaves to the next insertion, the leaf or the root that is being split
\* while a page is requested for its right part, and the leaf split off before.
FramesInUse ==
    Range(m_frame_queue) \cup
    CASE call.step = "split_leaf" -> {call.at}
      [] call.step = "split_inner" -> {call.previous}
      [] call.step = "root_over" -> {m_root_page_id}
      [] call.step \in {"new_root", "climb"} -> {call.new_page} \ {NoPage}
      [] OTHER -> {}

\* No frame the tree still points to can be taken for another page: its page is
\* pinned, although the leaf split off is requested a second time without a pin,
\* and its frame used after a request that may evict (b_plus_tree.hpp:140, 153-159,
\* 219-263, and 21-45 for the root).
HeldFramesArePinned == ~Aborted => \A p \in FramesInUse : pins[p] > 0

\* insert reports success: what flush_pages returns, that there was a dirty page,
\* is never false, although requests may have flushed dirty pages before
\* (b_plus_tree.hpp:209, 269; tests/b_plus_tree/b_plus_tree.cpp:79).
InsertReturnsTrue == outcome # "not_inserted"

-----------------------------------------------------------------------------
Stored == INSTANCE Dictionary WITH
              records <- Records,
              broken  <- failures > 0

\* A search finds the record of every key that was inserted, whatever was split
\* since, and nothing else (b_plus_tree.hpp:89-270).
ImplementsDictionary == Stored!Spec
=============================================================================
