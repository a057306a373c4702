---------------------------- MODULE DiskManager ----------------------------
(***************************************************************************)
(* The disk manager, hivedb::disk_manager (src/src/disk/disk_manager.cpp): *)
(* a file of pages, a table saying at which offset each page id lives, and *)
(* the file stream.  Offsets and sizes are in pages; the file starts with  *)
(* InitialPages + 1 of them (16 + 1 in the code).                          *)
(*                                                                         *)
(* The stream keeps what went wrong with it: a read at the end of the file *)
(* leaves failbit set, after which the stream transfers nothing and        *)
(* reports no badbit, so that read_page and write_page do not throw; after *)
(* badbit both do.  A process may end at any time; the table is not saved, *)
(* the file is.                                                            *)
(***************************************************************************)
EXTENDS Integers, Sequences, FiniteSets

CONSTANTS
    Pages,          \* page ids
    Data,           \* what a page may hold
    ZeroPage,       \* what a page of a fresh file holds
    InitialPages,   \* DEFAULT_NUMBER_OF_PAGES
    MaxOpens,       \* bound: how many times the file is opened
    MaxFree         \* bound: offsets on the free list

ASSUME DiskManagerAssumption == /\ IsFiniteSet(Pages)
                                /\ ZeroPage \in Data
                                /\ InitialPages \in Nat \ {0}
                                /\ MaxOpens \in Nat
                                /\ MaxFree \in Nat

VARIABLES
    m_pages,            \* page -> offset, Unmapped where there is no entry
    m_current_pages,
    m_free_offsets,
    file,               \* the data of the pages of the file
    stream,             \* m_db_file
    opens,              \* constructor calls so far
    written,            \* what was last written to each page (for properties)
    as_pool,            \* the manager was used as the buffer pool uses it: a
                        \* page was read before it was written (request_page
                        \* reads every page before anyone can make it dirty),
                        \* and none was deleted (for properties)
    result              \* what the last call did

vars == <<m_pages, m_current_pages, m_free_offsets, file, stream, opens,
          written, as_pool, result>>

Unmapped == -1

Mapped(p) == m_pages[p] # Unmapped

Size == Cardinality({p \in Pages : Mapped(p)})      \* m_pages.size()

Result == [op : {"open", "close", "read", "write", "delete", "error", "abort",
                 "offset_beyond_file"},
           page : Pages \cup {Unmapped}, data : Data]

Did(op, p, d) == result' = [op |-> op, page |-> p, data |-> d]

\* std::filesystem::resize_file
Resize(f, n) == [i \in 1 .. n |-> IF i =< Len(f) THEN f[i] ELSE ZeroPage]

\* The file after a page is written at an offset, which may be beyond its end.
Stored(f, offset, d) ==
    LET longer == Resize(f, IF offset < Len(f) THEN Len(f) ELSE offset + 1)
    IN  [longer EXCEPT ![offset + 1] = d]

Init == /\ m_pages = [p \in Pages |-> Unmapped]
        /\ m_current_pages = InitialPages
        /\ m_free_offsets = <<>>
        /\ file = <<>>
        /\ stream = "closed"
        /\ opens = 0
        /\ written = [p \in Pages |-> ZeroPage]
        /\ as_pool = TRUE
        /\ result = [op |-> "close", page |-> Unmapped, data |-> ZeroPage]
-----------------------------------------------------------------------------
\* The constructor, on the file as the last process left it.
Open == /\ stream = "closed"
        /\ opens < MaxOpens
        /\ opens' = opens + 1
        /\ stream' = "good"
        /\ file' = Resize(file, InitialPages + 1)
        /\ as_pool' = TRUE
        /\ Did("open", Unmapped, ZeroPage)
        /\ UNCHANGED <<m_pages, m_current_pages, m_free_offsets, written>>

\* The end of the process, with all the manager had in memory.
Close == /\ stream # "closed"
         /\ stream' = "closed"
         /\ m_pages' = [p \in Pages |-> Unmapped]
         /\ m_current_pages' = InitialPages
         /\ m_free_offsets' = <<>>
         /\ Did("close", Unmapped, ZeroPage)
         /\ UNCHANGED <<file, opens, written, as_pool>>
-----------------------------------------------------------------------------
\* A mutation of Grows: only when the last page is in use.
LateGrows == m_free_offsets = <<>> /\ Size > m_current_pages

\* allocate_new_page(): the offset it returns and the state it leaves.
Grows == m_free_offsets = <<>> /\ Size + 1 >= m_current_pages

AllocatedOffset ==
    IF m_free_offsets = <<>> THEN Size
                             ELSE m_free_offsets[Len(m_free_offsets)]

\* A mutation of AllocatedFile: the file is not resized.
SameAllocatedFile == file

AllocatedFile ==
    IF Grows THEN Resize(file, 2 * m_current_pages + 1) ELSE file

allocate_new_page ==
    /\ m_free_offsets' =
          IF m_free_offsets = <<>> THEN <<>>
          ELSE SubSeq(m_free_offsets, 1, Len(m_free_offsets) - 1)
    /\ m_current_pages' =
          IF Grows THEN 2 * m_current_pages ELSE m_current_pages

NoAllocation == UNCHANGED <<m_free_offsets, m_current_pages>>

\* A mutation of WriteAt: the table keeps the old offset.
ForgetfulWriteAt(p, d, offset, f) ==
    IF stream = "bad"
    THEN /\ m_pages' = [m_pages EXCEPT ![p] = IF Mapped(p) THEN @ ELSE 0]
         /\ file' = f
         /\ Did("error", p, d)
         /\ UNCHANGED written
    ELSE /\ m_pages' = [m_pages EXCEPT ![p] = IF Mapped(p) THEN @ ELSE offset]
         /\ file' = IF stream = "good" THEN Stored(f, offset, d) ELSE f
         /\ written' = [written EXCEPT ![p] = d]
         /\ Did("write", p, d)

\* Write d to page p at an offset of file f.  A stream in the fail state stores
\* nothing and says nothing.
WriteAt(p, d, offset, f) ==
    IF stream = "bad"
    THEN /\ m_pages' = [m_pages EXCEPT ![p] = IF Mapped(p) THEN @ ELSE 0]
         /\ file' = f
         /\ Did("error", p, d)
         /\ UNCHANGED written
    ELSE /\ m_pages' = [m_pages EXCEPT ![p] = offset]
         /\ file' = IF stream = "good" THEN Stored(f, offset, d) ELSE f
         /\ written' = [written EXCEPT ![p] = d]
         /\ Did("write", p, d)

\* The condition of the code is the wrong way round: a page that has an offset
\* is given a new one, and one that has none gets the default value of the
\* table, offset 0.
write_page(p, d) ==
    /\ stream # "closed"
    /\ \/ /\ Mapped(p)
          /\ allocate_new_page
          /\ WriteAt(p, d, AllocatedOffset, AllocatedFile)
          /\ UNCHANGED as_pool
       \/ /\ ~Mapped(p)
          /\ NoAllocation
          /\ WriteAt(p, d, 0, file)
          /\ as_pool' = FALSE
    /\ UNCHANGED <<stream, opens>>

\* Read page p at an offset of file f.
ReadAt(p, offset, f) ==
    /\ file' = f
    /\ IF offset > Len(f)
       THEN /\ Did("offset_beyond_file", p, ZeroPage)
            /\ UNCHANGED <<m_pages, stream>>
       ELSE /\ m_pages' = [m_pages EXCEPT ![p] = offset]
            /\ CASE stream = "bad" ->
                      Did("error", p, ZeroPage) /\ UNCHANGED stream
                 [] stream = "fail" ->
                      Did("read", p, ZeroPage) /\ UNCHANGED stream
                 [] stream = "good" /\ offset = Len(f) ->
                      Did("read", p, ZeroPage) /\ stream' = "fail"
                 [] stream = "good" /\ offset < Len(f) ->
                      Did("read", p, f[offset + 1]) /\ UNCHANGED stream

read_page(p) ==
    /\ stream # "closed"
    /\ \/ /\ Mapped(p)
          /\ NoAllocation
          /\ ReadAt(p, m_pages[p], file)
       \/ /\ ~Mapped(p)
          /\ allocate_new_page
          /\ ReadAt(p, AllocatedOffset, AllocatedFile)
    /\ UNCHANGED <<opens, written, as_pool>>

\* delete_page() writes a page from a null pointer, which is undefined: the
\* process is stopped, or the stream goes bad and the call goes on.
DeleteMapped(p) ==
    /\ Mapped(p)
    /\ \/ /\ stream = "good"
          /\ stream' = "closed"
          /\ m_pages' = [q \in Pages |-> Unmapped]
          /\ m_current_pages' = InitialPages
          /\ m_free_offsets' = <<>>
          /\ Did("abort", p, ZeroPage)
       \/ /\ Len(m_free_offsets) < MaxFree
          /\ stream' = IF stream = "good" THEN "bad" ELSE stream
          /\ m_pages' = [m_pages EXCEPT ![p] = Unmapped]
          /\ m_free_offsets' = Append(m_free_offsets, m_pages[p])
          /\ Did("delete", p, ZeroPage)
          /\ UNCHANGED m_current_pages

delete_page(p) ==
    /\ stream # "closed"
    /\ \/ DeleteMapped(p)
       \/ /\ ~Mapped(p)
          /\ Did("error", p, ZeroPage)
          /\ UNCHANGED <<m_pages, m_current_pages, m_free_offsets, stream>>
    /\ as_pool' = FALSE
    /\ UNCHANGED <<file, opens, written>>
-----------------------------------------------------------------------------
Next == \/ Open
        \/ Close
        \/ \E p \in Pages : \/ read_page(p)
                            \/ delete_page(p)
                            \/ \E d \in Data : write_page(p, d)

Spec == Init /\ [][Next]_vars
-----------------------------------------------------------------------------
TypeOK ==
    /\ m_pages \in [Pages -> 0 .. Cardinality(Pages) \cup {Unmapped}]
    /\ m_current_pages \in Nat \ {0}
    /\ m_free_offsets \in Seq(0 .. Cardinality(Pages))
    /\ file \in Seq(Data)
    /\ stream \in {"good", "fail", "bad", "closed"}
    /\ opens \in 0 .. MaxOpens
    /\ written \in [Pages -> Data]
    /\ as_pool \in BOOLEAN
    /\ result \in Result

\* Used by the buffer pool, the manager grows the file before it needs to: every
\* page lies in the first m_current_pages pages of the file, and the page
\* beyond them (the "+ 1" of disk_manager.cpp:26-27) stays unused.
OffsetsInFile ==
    stream # "closed" /\ as_pool =>
       /\ Len(file) = m_current_pages + 1
       /\ \A p \in Pages : m_pages[p] < m_current_pages

\* So that read_page never meets the end of the file: it does not throw
\* (disk_manager.cpp:56-60), and the stream never goes into the state in which
\* it drops writes without a word.
StreamStaysGood == as_pool => /\ stream \in {"good", "closed"}
                              /\ result.op \notin {"error", "offset_beyond_file"}

\* A page read right after it was written has the data written, what
\* tests/disk/disk_manager.cpp:28-49 tries with two pages, as long as the stream
\* has not failed: from then on a write reports success and stores nothing, since
\* bad() does not tell (disk_manager.cpp:39, 67).
ReadBack ==
    [][/\ stream # "fail"
       /\ result.op = "write"
       /\ result'.op = "read"
       /\ result'.page = result.page
       => result'.data = result.data]_vars

\* A read returns what was last written to that page, however long ago: the
\* equality tests/disk/disk_manager.cpp:32, 40 and 49 require.
ReadsReturnLastWrite ==
    as_pool /\ result.op = "read" => result.data = written[result.page]
=============================================================================
