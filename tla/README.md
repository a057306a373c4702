# hivedb in TLA+

A verification development of hivedb: TLA+ modules of its storage stack and of
the way of a statement from text to rows, TLC configurations that model-check
them on small instances, and TLAPS proofs about every part of the storage stack,
from the replacer to the tree, and about the lexer and the storage engine. Every
definition is read off the C++ code; `PROJECT.json` maps each one to its lines
("map"), and lists the runs, the mutants that show each property can fail, the
hazards and the theorems.

## 1. The system

    lexer           -- text to tokens
      parser        -- tokens to a tree
        evaluator   -- the value of an expression, given a row
        storage_engine -- tables in memory (does not use the tree yet)

    b_plus_tree     -- keys to records, in nodes of one page each
      buffer_pool   -- a few frames that hold pages, pins, dirty flags
        lru_k       -- which frame to evict
        disk_scheduler -- a worker thread behind a channel
          disk_manager | disk_manager_mock -- a file | a vector of pages

The two stacks do not meet: no code puts a table into a tree, and `main` calls
neither. The front end is put together only by the tests (src/tests/parser), and
the storage engine by nothing; its interface is the tree the parser returns.

Calls go down synchronously. The one place with threads is the scheduler: the
pool puts a request into the channel and blocks on its future; the worker
performs it. References go up: `request_page` returns a reference to a frame,
which the tree keeps over later calls; only the pin count says that it may.
Each tree has a pool, and so a scheduler and a file, of its own. The frame
header calls the replacer (`setEvictable`) when its pin count changes, and its
destructor does so too.

| component | state | operations | what is hard | what makes it correct |
|---|---|---|---|---|
| `lru_k` | history of timestamps and a flag per frame, clock | recordAccess, setEvictable, evict, remove | index arithmetic on unsigned sizes, ties | a victim exists whenever a frame is evictable; the intended order; nothing but evictable frames |
| `buffer_pool` | page table, frames (page, dirty, pins), free list, next page | allocate_new_page, request_page, flush_page, flush_pages, pin counts | the same facts kept in four structures; references that outlive calls; failure paths that have changed state already | no frame lost or shared, no write lost, no pinned page moved, fails only when it must |
| `channel`, `disk_scheduler` | mutex, condition variable, queue, promises | put, get, schedule, worker, destructor | interleaving, spurious wake-ups, shutdown, exceptions on the worker | each request served once, answered, and the destructor returns |
| `disk_manager` | page-to-offset table, capacity, free offsets, file, stream state | constructor, destructor, read_page, write_page, delete_page | the stream remembers errors; the table is not saved | a page reads as it was last written, files only grow |
| `disk_manager_mock` | a vector of pages | read_page, write_page | growth by a fixed step | indices in range, contents kept |
| `b_plus_tree`, nodes | root page, nodes in pages, queue of pinned inner nodes | find, insert | splits along a path of pinned nodes, exceptions in the middle of a call, parity and off-by-one in splits | a dictionary; all leaves at one depth; no page lost; pins balance |
| `lexer` | position in the text, tokens | getTokens | look-ahead by one, views into the text | the words, numbers, strings and signs of the text, each once |
| `parser` | cursor over the tokens | parse | where the tokens end, lists, what is left over | the tree stands for the tokens that were read; no read behind them |
| evaluator | a captured `this` in static lambdas | execute, solveExprs, retriveColumns | state that outlives its expression | the value of the expression |
| `storage_engine`, `data_types` | tables: columns, bytes of rows, strings | createTable, insertIntoTable, queryDataFromTable | offsets into rows, missing columns and values, partial rows | a query returns what was inserted; a statement that fails changes nothing |
| `main`, temporary files, vendored libraries | | | | |

## 2. Modules

| module | models | state and actions against the code |
|---|---|---|
| `LruK` | `lru_k` | `m_current_nodes`, `m_current_timestamp`; recordAccess, setEvictable, remove, evict are the member functions. `evict` takes the first evictable frame of the map with a history shorter than K, otherwise the one with the largest distance, as lru_k.cpp:47-92 does |
| `Replacer`, `ReplacerOps` | what the pool sees of `lru_k` | accesses counted up to K, victims by their set. `ReplacerOps` holds the operators (the pool calls the replacer inside its own actions), `Replacer` the state machine over them |
| `BufferPool` | `buffer_pool`, `frame_header`, and the components that hold its frames | each path through a member function is an action: a hit, a free frame, flush-and-load, evict-and-load and the two ways to fail are disjuncts of `request_page`. `refs` is not in the code: it is which reference each caller may still use, and is what "a pinned page stays" is about |
| `PagePool` | what the tree wants of the pool | contents, dirty, pins; no frames |
| `DiskScheduler` | `channel`, `disk_scheduler` | a step is what other threads can see: lock; emplace and unlock; notify; wait (which unlocks); pop and unlock; read or write; set the promise; join. A client has one request at a time, as callers that wait for the future have |
| `DiskService` | what the scheduler promises | submit, perform once, answer, return |
| `DiskManager` | `disk_manager` with its `std::fstream` | offsets and sizes in pages; `stream` is good, fail (after end of file: transfers nothing, and `bad()` is false), bad, or closed; `Close` is the destructor or the end of the process, `Open` the constructor |
| `MockDisk`, `PageStore` | `disk_manager_mock`; an array of pages | `MockDisk` keeps the vector and whether the index was inside it |
| `BPlusTreeNode` | `b_plus_tree_leaf_node`, `b_plus_tree_inner_node` | nodes as records; searches, insertions, splits as operators, including the binary search that replaces the linear one from five keys on |
| `BPlusTree` | `b_plus_tree` | a call is cut where it requests a page, because an exception may end it there: `call` holds the local variables and the point reached. A failed `ASSERT` is an outcome that ends the process |
| `Lexer` | `lexer` | `m_input`, `m_position`, `m_tokens`; an action is one `nextToken()`, by the branch it takes. A character is a member of a small set, the text of a keyword may be one letter. Also holds the reference: the tokens of a text, as a function of the text alone |
| `Statements` | the classes of parser.hpp | what the parser makes and the others take: trees, values, failures |
| `Parser` | `parser` | each rule is an operator from the cursor to the tree and the cursor behind it, or to the way it threw; "overrun" is the read of a token's name behind the last token |
| `Evaluator` | `execute`, `solveExprs`, `retriveColumns` | `execute(e, row, captured)` yields the set of values there may be and what the static lambdas see next: nothing yet, the operator of the first binary expression, or freed memory |
| `FrontEnd` | lexer, parser and execution of one statement | `Lex`, `Parse`, `Execute`; also holds the ways to write a tree down |
| `StorageEngine` | `storage_engine`, `table`, the serialisers | an action is a statement. `data` is the sequence of serialised values with their sizes, read by byte offset; `asked` is not in the code: it is the rows callers asked for. How an expression is evaluated is a parameter, `Evaluate`, with what the engine needs of it in `EvaluatorAssumption` |
| `Dictionary` | what the tree promises | records, and the result of a search |
| `MC*` | | constants for TLC, symmetry |
| `LruKProofs`, `BufferPoolProofs`, `DiskSchedulerProofs`, `MockDiskProofs`, `DiskManagerProofs`, `BPlusTreeProofs` | | theorems about the module of that name; those about `BPlusTreeNode` are in `BPlusTreeProofs` |
| `StatementProofs` | | theorems about `Lexer` and `StorageEngine`, the two ends of a statement's way |
| `BPlusTreeOrderProofs` | | the order of the keys in the tree; that `BPlusTree` is a `Dictionary`, and balanced |

The modules are composed by refinement, so that no run has to carry the whole
stack:

    LruK          => Replacer    = the operators BufferPool uses
    DiskScheduler => DiskService : a request that is waited for acts at once
    MockDisk      => PageStore   : an array of pages
                     both let BufferPool have an array `disk` and atomic calls
    BufferPool    => PagePool    = what BPlusTree's steps do to the pool
    BPlusTree     => Dictionary

    FrontEnd        EXTENDS Lexer, Evaluator (which EXTENDS Parser)
    MCStorageEngine EXTENDS StorageEngine, Evaluator, and gives the one the operators
                    of the other: Evaluate <- execute
    both by the trees of Statements

Two joints are weaker than the others, and are by design. The real
`disk_manager` is not shown to be a `PageStore`: it is not one (section 6).
`BPlusTree` writes `PagePool`'s conditions (`Flushable`, `InMemory`) out in its
own steps, because one step of the tree makes several calls that cannot fail;
that these are `PagePool` steps in sequence is by reading, not by a run. That it
has pages where the code has frame pointers is checked and proved: the pages are
pinned as long as the tree uses their frames (`HeldFramesArePinned`).

## 3. Runs

Passing runs. State counts are distinct states.

| run | question | instance |
|---|---|---|
| `lru_k` | Do timestamps never tie, does the index stay in the history, is it a `Replacer`? | 3 frames, K = 2, six accesses; 63 000 |
| `buffer_pool` | With one component on the pool: is no frame lost or shared, no write lost, no pinned page moved, and is it a `PagePool`? | 2 frames, 3 pages, 2 pins a page; 209 000 |
| `disk_scheduler` | Is no notification missed, no request lost or served twice, no promise broken; is every request answered; does the destructor return; is it a `DiskService`? | 2 clients, the owner, the worker, 2 pages, a manager that may throw, spurious wake-ups; 61 000 |
| `disk_manager` | In every order of reads, writes, deletions and openings: does a page read back as it was just written, unless the stream has failed? As long as the pool uses it (a page is read before it is written, none deleted): do offsets stay in the file, does the stream stay good? | 3 pages, a file that starts with 1 + 1, opened twice; 1 040 000 |
| `mock_disk` | Are indices in range and contents kept when callers use page ids in order? | 5 pages, growth by 2 |
| `b_plus_tree` | Is it a dictionary, balanced, with pins given back, also after requests that failed? | 18 keys, capacities 5 and 6, one failure; about 500 000 |
| `front_end` | Is a text cut as a reference cuts it? Does a statement come back as the tree it was written for, and does a tree stand for the tokens read? Do integer expressions have their value? | texts to 5 characters, token lists to 6, 600 statements; 385 000 |
| `storage_engine` | Does a query return what was inserted, where the rows fit? What makes a query undefined? Does anything but an insert change a table? | 18 statements, 2 rows a table; 35 000. TLC also evaluates `EvaluatorAssumption`, for the evaluator and every select of the run |

Violation runs, each a disagreement with a line of the repository (quoted under
"findings"): `lru_k_distance`, `buffer_pool_oom`, `disk_scheduler_throw`,
`disk_manager_alias`.

### Bounds, and why they are enough

* `MaxFrames`, `Pages`, `MaxPins`: two frames are one to evict and one that
  stays, with a free list that becomes empty; three pages are one more than fit.
  Two pins tell "pinned" from "pinned once", so that a lost or doubled pin shows.
  With K = 2 a frame has no history, a short one or a full one, as in the code,
  where K is 10.
* `MaxTimestamp`: with K = 2 and three frames, six accesses fill every history.
* `InitialPages`, `Pages` of the manager: the file doubles once or twice where
  the code starts at 16; `MaxOpens` = 2 is one restart; `MaxFree` bounds the list
  that delete_page appends to. Three pages are too few for a read at the end of
  the file (section 6), which takes four; what holds with any number of pages is
  proved.
* `Growth` 2 and `MaxPages` 5 of the mock: the vector grows more than once and a
  page beyond one growth exists (the code grows by six).
* `Keys`, `Capacities`, `MaxPages` of the tree: capacity 5 and 6 are the smallest
  odd and even ones whose inner nodes split into nodes with two children
  (with 3 or 4 the new inner node has one child and no key, and `find_index`
  reads the key before its first). 18 keys in ascending order are the first to
  split an inner node of capacity 6, and 17 are the first to split a second
  one of capacity 5. With 15 pages the bound on pages never refuses an
  insertion, not even after a failed request has wasted one.
* `Window` = 1: an insertion takes the smallest or the largest key that is
  missing, so that trees grow at both ends and meet in the middle. The searches
  are not bounded.
* `MaxLeaks` = 1: `find` leaks a pin when a key is missing (b_plus_tree.hpp:115);
  one leak at a time is enough for a pinned dirty leaf.
* `MaxFailures` = 1: a request that throws, anywhere in a call, followed by any
  further calls. A request fails where `PagePool` lets it, that is more often
  than a pool of a given size would: the properties that hold then hold for it.
* `Texts`: five characters hold a string with something before and behind it, an
  empty one, an unclosed one, and a number with a fraction. `TokenLists`: SELECT
  and five more tokens hold a parenthesis, a list, a nested select and a sign
  that is left over. `Statements`: each operand beside each, and chains of three.
* `MaxRows` = 2 rows: a row that does not fit shifts the one behind it.
* Each key is inserted once. The tree has no test for duplicates, and its answer
  for one is whichever of the records the search meets.

### Fairness

`FairSpec` of `DiskScheduler` assumes that the worker, a thread inside `put`,
one that waits for a future, and the one that joins take a step when they can
keep doing so (weak fairness: the operating system runs every thread), and that
a thread that asks for the mutex is not passed over for ever (strong fairness of
`PutLock`: spurious wake-ups may let the worker take and release it without
end). It assumes nothing of whether clients make requests, the destructor is
called, the manager throws or a wait wakes up for nothing. The other modules have
no liveness: their calls return because they have no loop that waits.

## 4. Properties

Each invariant and property is stated in words where it is defined. The ones
that carry the most:

* `ImplementsPagePool`: through any sequence of hits, loads, flushes, evictions
  and failures a page has the data last written to it and the pins it was given.
* `FramePartition`, `EvictableOccupied`: page table, frames, free list and replacer
  agree; the assertions at buffer_pool.hpp:147 and 223 cannot fail. They hold even
  for clients that flush each other's pages, which is proved (section 5) rather
  than run. `RoomMeansFreeFrame` follows from the first, and is a theorem only.
* `ImplementsDiskService`, `EachRequestInOnePlace`, `NoBrokenPromise`, and the two
  liveness properties for the scheduler.
* `ImplementsDictionary`: a search finds every key that was inserted; after a
  failed request it may miss one, but never finds a wrong record.
* `TreeShape`, `Occupancy`: no split loses a page or links one twice; every leaf is
  at the same depth; every node has room and the searches stay inside it.
* `ReadsItsTokens`, `RoundTrip`: nothing the parser read is missing from its tree,
  nothing in the tree was not read, and a statement with a semicolon never makes it
  read behind its tokens. `LexesLikeReference` compares the scan, position by
  position, with a definition that has no state.
* `UndefinedHasACause`: the list of everything that can go wrong in a query or an
  insert without an exception; five causes, each at its line.
* `SelectsReturnWhatWasInserted`: rows found by counting bytes are the rows asked
  for, as long as every row of the table fits its columns.
* `OnlyInsertsAppend`: a statement that fails, and a CREATE of a table that
  exists, leave all rows alone.
* `ReadBack`: unless the stream has failed, a page read right after it was
  written has the data written, whether or not the manager is used as the pool
  uses it.
* `InnerPinsAreQueued`: also after an exception the pins of inner nodes are those
  of `m_frame_queue`, so the next insertion returns them.
* `HeldFramesArePinned`: no request can take the frame of a page that the tree
  still points to, also of a new leaf, which is requested a second time without a
  pin and used after one more request.

## 5. Proofs

`BufferPoolProofs` proves, for every number of frames, every finite set of
pages, every K, any data and any set of clients:

    TypeCorrect           Spec => []TypeOK
    FramesArePartitioned  Spec => []FramePartition
    VictimsHoldPages      Spec => []EvictableOccupied
    RoomHasFrame          Spec => []RoomMeansFreeFrame

from `ReplacerAssumption` (MaxFrames is a natural number, K a positive one) and
`PoolAssumption` (page ids are natural numbers, finitely many; the blank page is
data; known pages are pages).

The argument is the inductive invariant

    PoolInv == TypeOK /\ FramePartition /\ EvictableOccupied

None of the three is inductive alone. Evicting takes a frame from the replacer
and needs it to hold a page (`EvictableOccupied`), or `evict_page` would put a
frame on the free list that is there already. That a freed frame is not
evictable rests on what `remove` does to an evictable node, and on headers and
nodes having their types; that no other frame is concerned rests on each page
having its own frame (`FramePartition`). `RoomMeansFreeFrame` is not a conjunct: it
follows by counting. `RoomLemma`: if the free list were empty every frame would
hold a page, so the table would map the cached pages onto all MaxFrames frames
and have as many entries. `FullLemma` is the converse: with a full table the map
is one-to-one between sets of the same size, so no frame is left for the free
list; this is why `flush_page` on the full pool frees exactly the frame that is
then loaded. There is one lemma for each path (`HitInv`, `LoadInv`, `ReplaceInv`,
`FlushPageInv`, `FlushPagesInv`, ...), and `NextPoolInv` puts them together.

`LruKProofs` proves, for every number of frames and every bound on the accesses,

    LruKTypeCorrect         Spec => []TypeOK
    NoTiesInDistances       Spec => []TimestampsFresh
    DistanceIndexIsInside   Spec => []DistanceIndexInHistory    if K >= 2
    LruKImplementsReplacer  Spec => ImplementsReplacer          if K >= 2

from `ReplacerAssumption` and `LruKAssumption` (the bound is a natural number).
The inductive invariant is `TypeOK /\ TimestampsFresh`: a new timestamp is the
clock, and differs from every stored one because those are below it; without
that conjunct ties could arise. Every other call only forgets frames or changes
flags (`SubsetInv`). K >= 2 is needed: with K = 1 the index is one past the end of
the history, whatever `evict` reads there decides, and it may find no victim where
the replacer promises one. The refinement has one lemma for each member function
(`RecordAccessRefines`, ...); `SameVictims` says that counting accesses up to K
loses nothing that `evict` distinguishes when it takes short histories first, and
`IndexLemma` that otherwise it takes an evictable frame.

The second part of `BufferPoolProofs` is about one component that uses the pool
(`Clients = {c}`, a hypothesis of each theorem). Each tree has a pool of its own, and
two components on one pool do break these properties (`flush_page`, section 6):

    ReferencesStayGood      Spec => []RefsPointToPages
    PinsAreCounted          Spec => []PinsMatchRefs
    CleanPagesMatchDisk     Spec => []CleanMatchesDisk
    PoolImplementsPagePool  Spec => ImplementsPagePool

The inductive invariant is `PoolInv` and, for each page, `PageInv`: a reference
that is still good is the frame the table has for the page; a page the component
has pinned has such a reference; the pins the component counts are those in the
header; a frame that is not dirty has what is on disk. Pins and references need each
other: that an unpin reaches the right header needs the reference, and that a
pinned page is not evicted needs the count. A call treats a page in one of three
ways (`PageKept`, `PageGone`, `PageIs`), and each path through a member function is a
lemma that says which; the invariant and the refinement both follow from those.

`DiskSchedulerProofs`, for every set of clients and pages and any data:

    SchedulerTypeCorrect          Spec => []TypeOK
    NoWakeupIsLost                Spec => []NoLostWakeup
    RequestsInOnePlace            Spec => []EachRequestInOnePlace
    NoPromiseIsBroken             Spec => []NoBrokenPromise
    SchedulerImplementsService    Spec => ImplementsDiskService

The inductive invariant `SchedulerInv` adds to the first three that the worker is
busy with whom `serving` says (`ServesSomebody`) and that the shutdown is the last
request (`ShutdownIsLast`): the owner calls the destructor when no client is inside
`schedule`, so nothing is ever behind it in the queue, and the worker that
returns leaves no promise behind. `NoBrokenPromise` follows from that and is not
inductive without it. The refinement maps a request that sits with its client,
in the queue or with the worker to the same pending request.

`MockDiskProofs`, for every number of pages and every growth:

    IndexesAreInBounds       Spec => []IndexInBounds
    MockImplementsPageStore  Spec => ImplementsPageStore

by `MockInv`: ids come in order, so the vector reaches every id that was used and
growing once is enough for the next.

`DiskManagerProofs`, for every finite set of pages, every initial size, any number of
openings and any sequence of calls:

    ManagerTypeCorrect    Spec => []TypeOK
    OffsetsAreInFile      Spec => []OffsetsInFile
    TheStreamStaysGood    Spec => []StreamStaysGood
    WritesReadBack        Spec => ReadBack

The run leaves `TypeOK` out: it is needed for the others and no more, and the
theorem covers every instance. `ManagerInv` adds that a closed manager remembers
nothing, that a manager used as the pool uses it has handed out offsets 0, 1, 2,
... (`PagesCounted`: no offset is larger than the number of mapped pages, which is
below the capacity), and that the data just written is in the file
(`JustWritten`). That the count grows by one with each mapped page is a fact about cardinalities (`FiniteSetTheorems`).
`WritesReadBack` is about steps: it says what the next read returns.

The first part of `BPlusTreeProofs` has what the operators do to a node of any size:

    LeafSplits, InnerSplits   a full node is split into two without holes, each with
                              room, for odd and even capacities
    BisectFindsFirst          the binary search stops at the first slot it may go
                              left at
    SearchGoesDown            find_index of a sorted inner node returns the slot of
                              the first key above the one searched for
    PlaceKeepsOrder           a new key goes before the first key above it, in the
                              linear search of short nodes and in the binary one
    LeafSearchFinds           find_index of a leaf returns a slot with the key, and in a
                              sorted leaf nothing only if there is none

That the recursion of the search is well founded and where it ends is by the
least counterexample (`LeastNat`): the library's induction theorems cannot be used,
but that a set of natural numbers has a least element can.

The rest of it, for any keys, records, number of pages and of failures, and any
capacities from five on:

    TreeTypeCorrect          Spec => []TypeOK
    NodesStayHalfFull        Spec => []Occupancy
    QueueHoldsThePins        Spec => []InnerPinsAreQueued
    HeldFramesStay           Spec => []HeldFramesArePinned
    OneAssertionFails        Spec => []OnlyInnerSplitsAbort
    InsertionsReportSuccess  Spec => []InsertReturnsTrue

from `TreeAssumption` and `EqualCapacities`, a hypothesis of each: leaves and inner
nodes have the same capacity. All trees the repository builds are of that kind
(the tests instantiate records and page ids with one type); where they differ
`Occupancy` is false, because the first root has the room of a leaf
(b_plus_tree.hpp:195).

The inductive invariant `TreeInv` says of the pages that each is blank, a leaf, or an
inner node over pages that have been written (`NodesAreNodes`), and that a page
which is allocated and not yet written is blank and unpinned
(`FreshPagesAreBlank`); of the queue that it starts at the root and holds inner
nodes (`PathFromRoot`); of pins that an inner node has those of the queue, of a
page just split off, and of a root being split (`InnerPins`); and of occupancy that
only the node being split is full (`NodesHaveRoom`). `Points` says what holds at
each point of a call, which is what an exception there leaves behind: above all
that the leaf inserted in is dirty and pinned until the call ends, so that
`flush_pages` finds something to flush (`InsertReturnsTrue`), that the new leaf
has the one pin that `ClimbInsert` gives back, and that the root that is split has
its separating key in its last slot. There is one lemma for each action
(`SplitLeafKeeps`, `ClimbInsertKeeps`, ...). A request that throws keeps all of it,
which is why the pins of inner nodes and the types hold after failures too, and
occupancy only before the first.

`BPlusTreeOrderProofs` goes on to the whole tree, from the same assumptions:

    TreeIsADictionary        Spec => ImplementsDictionary
    TreeIsBalanced           Spec => []TreeShape

Its inductive invariant `OrderInv` is `TreeInv`, that a key being inserted is in no
leaf yet (`NewKey`), and that as long as no request has failed and no assertion
is about to (`Fine`) there are a span for each page, the keys it stands for, and a
height, with

* `NodeOrder`: the keys of a leaf are sorted and in its span; those of an inner node
  are sorted and cut its span into the spans of its children, which are one lower;
* `Apart`: no two pages of one height stand for one key, so a page is a child once;
* `RootOrder`: the root stands for all keys, or, while it is being split, the root
  and the node split off do, left and right of the key between them (`Separator`);
* `CallOrder`: a search is at a page that stands for its key; the end of the queue
  is the parent of the page the call is at; the two leaves of a split that the
  parent does not know of yet share the span of the left one.

Spans and heights are not state of the program, and no node bounds its own keys:
what a page stands for is known only from the way to it. This is why the invariant
says that they exist and each step gives new ones. A read keeps them, an insertion
into a leaf too; a split of a leaf leaves the new leaf without a span
(`IsHanging`) until `ClimbInsert` enters it in the parent and cuts the span of the
old leaf in two; a new root gets the span of all keys and one height more. `Apart`
is what makes the second leaf with a key impossible, so that a search that goes
down by one path misses nothing; that the last leaf finds the key is
`LeafSearchFinds`. The refinement follows: a write changes the records in the
leaves by the one that is inserted or not at all (`AddsRecord`,
`SplitLeafKeepsRecords`, `InnerWritesKeepRecords`), and a search returns what
they hold (`FindIsRight`). After a failure the spans are lost, as a half-done
split may leave a leaf nobody points to: then a search still finds only
records that were inserted, which is what `Dictionary` promises from there on.

`TreeIsBalanced` needs only the invariant, and `Occupancy`: a node with a key stands
for one. From the root down there is at each height a page that stands for that key
(`EachHeight`), and by `Apart` it is the page itself: so each page but the root is a
child (`EachHasAParent`), and of one slot (`ChildOnce`). That `Level[d]` are the pages
d below the root's height (`LevelsAreHeights`) is shown by giving the function that
solves its recursion; the height is at most the number of pages, because there is
a page at each (`HeightIsBounded`).

`StatementProofs`, first for any text over any letters, digits and other characters,
and any table of keywords:

    LexerTypeCorrect       LexerSpec => []LexerTypeOK
    LexesEveryText         LexerSpec => []LexesLikeReference

from `LexerAssumption`: the kinds of characters have none in common, a keyword is made
of letters, and a statement holds no NUL. The lexer reads from left to right and keeps
nothing but a position and its tokens; the reference says of each position alone, by
the number of quotes before it and the character before it, whether a token begins
there, and numbers the tokens by how many begin before. The inductive invariant
`LexerInv` joins the two: until it is done the lexer stands outside the strings, where
no word and no number reaches over, has made the tokens that begin before and met
no stray (`Progress`). A word or a number that is read to its end (`RunEndIs`) has no
second token inside (`OneStart`); a string that opens has an end because the quotes are
even (`StringCloses`), and nothing in it is outside (`BehindQuote`, `NoQuoteBetween`); no
number has a fraction, because the test looks at a digit (`AddNumberStep`); so each step
moves over one token and ranks it next (`ReadOneToken`), or over none
(`ReadNoToken`). Where strings are not closed the types still hold: the views stay inside
the buffer (`ViewIs`, `StringEndIs`).

Then for any types, any statements in any order, tables of any
width, and any number of rows:

    EngineTypeCorrect      Spec => []TypeOK
    TablesOnlyGrow         Spec => OnlyInsertsAppend
    SelectsAreRight        Spec => []SelectsReturnWhatWasInserted
    UndefinedIsExplained   Spec => []UndefinedHasACause

from `StorageEngineAssumption` (the statements are of their kinds, their lists are
sequences, and what is inserted is a value) and `EvaluatorAssumption`: evaluating a
select of columns gives the row's columns, and only an operator is undefined by
itself. `Evaluator` is recursive over trees, so that this is not proved of it; TLC
evaluates it for every select, every row of values there may be and every captured
operator of the run.

The inductive invariant `EngineInv` says of each table (`TableInv`) that there are as
many values as columns times rows, that `rowSize` is the bytes of the columns, and,
as long as all rows fit, that the k-th value of the r-th row holds what was asked for
the k-th column (`RowsHold`): it is of the column's type, or it is the integer 0
that a real column gets when an insert does not name it, whose bytes are those of
0.0. The code looks a value up by bytes: rowSize times the row, plus the sizes of the
columns before. That this is the right value is counting. The recursion that adds up
bytes has a solution (`SizeStep`); rows whose values take as many bytes as their
columns say lie at multiples of `rowSize` (`SizeOfRows`), strings of ten bytes beside
numbers of four; and no two values begin at one byte (`BeginsOnce`), because none is
empty, so what is found there is the value (`ReadsTheValue`), and dividing the bytes
by `rowSize` counts the rows (`CountsTheRows`). `QueryRuns` has what follows for a
query: the run it prints is the rows that were inserted. These need induction over
the number of values and of rows, by the least counterexample again (`Induction`).

Only model-checked:

* liveness (`EveryRequestAnswered`, `DestructorReturns`), which is about fairness;
* `RoundTrip`, `ReadsItsTokens`, `EvaluatesLikeReference`: `Parser` and `Evaluator` are
  recursive over tokens and trees, which the prover cannot take. The lexer below them is
  proved for texts of any length, by a specification of its own (`LexerSpec`); in
  `FrontEnd` its steps are those of `Lex`.

## 6. What the code does, where it may surprise

Four runs show a disagreement with what the repository says of itself:

* `lru_k_distance`: the distance is measured from the (K-1)-th most recent
  access (lru_k.cpp:73).
* `buffer_pool_oom`: a frame that was loaded with a pin is evictable and one
  requested twice stays not evictable (the destructor of a temporary header and
  the order of the calls), so that a request may fail with an unpinned frame.
* `disk_scheduler_throw`: an exception of the manager ends the process; the
  promise is never set to false.
* `disk_manager_alias`: rewriting a page can give two pages one offset
  (disk_manager.cpp:34).

Further ones were met while modelling. They are modelled as they are and have
no run of their own:

* Frames with short histories are taken by frame id, not by their first access
  (tests/buffer_pool/lru_k.cpp:33-34 speak of the latter).
* With K = 1 `evict` would read one past the end of a history; the pool uses 10.
* `flush_page` evicts a page although another component has pinned it
  (tests/buffer_pool/buffer_pool.cpp:84); hence the properties of references
  are stated for one client.
* Opening a database file resizes it to 17 pages; the table from pages to
  offsets is not saved.
* After `delete_page` the stream is bad or the process ends. After a read at the
  end of the file writes are dropped without an error: `write` on a failed stream
  does nothing, and `bad()` is false. It takes as many pages that are written
  before they are ever read as the file holds after growing once (33, from 16),
  then the read of a new one; with `InitialPages` = 1 four pages do. The pool reads
  a page before it writes it, and `StreamStaysGood` shows that it then never gets
  there.
* The second split of an inner node, at 17 ascending keys with capacity 5,
  reaches `ASSERT(false)` at b_plus_tree_node.hpp:425. `OnlyInnerSplitsAbort` says that
  no other assertion of the tree can fail while requests succeed.
* dump_contents of a tree without a root fails an assertion of the pool
  (buffer_pool.hpp:116).
* A number never becomes a real: the lexer tests the last digit for the dot
  (lexer.cpp:123), and 1.5 is an integer, a dot and an integer.
* An empty string is mis-scanned: its closing quote opens the text of a string that
  runs to the next quote, although the comment at lexer.cpp:151 speaks of skipping
  the second one. `LexesLikeReference` leaves such texts out. An unclosed string
  takes in the NUL behind the text.
* All binary operators bind alike and to the right (parser.cpp:50): 9 - 4 - 1 is 6.
  `can_be_null` is set where the statement says NOT NULL (parser.cpp:228-233).
* `select (a) + b` reads `(a)` and parse() drops the rest without an error.
* The lambdas in `binary_expr::solveExprs` are static and capture `this`
  (parser.hpp:235): every binary expression of the process is computed with the
  operator of the first one, and after that statement is destroyed with whatever
  its memory holds. `EvaluatesLikeReference` is therefore about expressions with
  one operator.
* A nested select's FROM is ignored: its columns are looked up in the table of the
  outer one. The values of an insert are not compared with the columns' types; a
  missing value, a query of an empty table, a column named twice beside another
  are undefined behaviour (storage_engine.cpp:213, 151, 54).
* The first root has the capacity of a leaf (b_plus_tree.hpp:195); this matters
  only where the capacities differ, and the runs have equal ones.

## 7. Not modelled

* A tree opened on an existing root page: its pool hands out ids from 0 again.
  Nothing in the repository opens one, `disk_manager_mock` keeps nothing and
  `disk_manager` forgets which page is where; `KnownPages` of `BufferPool` is the
  parameter for it.
* `remove` of the tree, which only throws; `append`, the links between nodes,
  `trivial_insert_inner_node` behind its `ASSERT(false)`: nothing calls or reads
  them.
* Arithmetic with floats (its result is "some float"), overflow of integers,
  strings of 2^16 characters and more, texts with a NUL.
* Formatting: `prettyPrint`, `token::name`, what queries print around the values.
* `main`, which echoes its input; the wrapper that names and removes temporary
  files for the tests.
* Bytes of pages: pages are data values, node headers are record fields; the layout
  in the page and its alignment are not modelled.
* The vendored libraries. src/lib holds Catch2 (26 000 lines) and spdlog with fmt
  (23 000): a test framework and a logger, which carry nothing of the program's
  logic. The program itself has about 3 500 lines, of which the map covers some
  60 %; measured against everything under src/ that is about 4 %, and no faithful
  model of this program changes that.

## 8. Plan

Done: the storage stack from `lru_k` to the tree, the front end, the storage
engine; every safety invariant, every action property and every refinement of the
storage stack and the storage engine as a theorem. What is left is proof:

1. That each step of `BPlusTree` is a sequence of `PagePool` steps, which is by reading
   so far: one lemma for each action, naming the pools in between.
