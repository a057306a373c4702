------------------------- MODULE DiskManagerProofs -------------------------
(***************************************************************************)
(* Proofs about DiskManager, for every finite set of pages, every set of   *)
(* data, every initial size of the file and any number of openings.        *)
(***************************************************************************)
EXTENDS DiskManager, FiniteSetTheorems, SequenceTheorems, TLAPS

\* A process that ended left nothing but the file.
NothingInMemory ==
    stream = "closed" => /\ m_pages = [p \in Pages |-> Unmapped]
                         /\ m_current_pages = InitialPages
                         /\ m_free_offsets = <<>>

\* Used by the buffer pool the manager counts the pages it handed out right:
\* no offset is larger than their number, and there are fewer of them than the
\* capacity.
PagesCounted ==
    stream # "closed" /\ as_pool =>
       /\ m_free_offsets = <<>>
       /\ Size < m_current_pages
       /\ \A p \in Pages : m_pages[p] =< Size

\* As long as the stream is good, the data just written is in the file.
JustWritten ==
    stream = "good" /\ result.op = "write" =>
       /\ result.page \in Pages
       /\ m_pages[result.page] \in 0 .. Len(file) - 1
       /\ file[m_pages[result.page] + 1] = result.data

\* The inductive invariant.
ManagerInv == /\ TypeOK
              /\ NothingInMemory
              /\ PagesCounted
              /\ OffsetsInFile
              /\ StreamStaysGood
              /\ JustWritten
-----------------------------------------------------------------------------
(* The file and the page table.                                            *)

\* resize_file keeps what fits and fills with zeros.
LEMMA ResizeFacts ==
  ASSUME NEW f \in Seq(Data), NEW n \in Nat
  PROVE  /\ Resize(f, n) \in Seq(Data)
         /\ Len(Resize(f, n)) = n
BY DiskManagerAssumption DEF Resize

\* A stored page is in the file, which grows at most up to it.
LEMMA StoredFacts ==
  ASSUME NEW f \in Seq(Data), NEW offset \in Nat, NEW d \in Data
  PROVE  /\ Stored(f, offset, d) \in Seq(Data)
         /\ Len(Stored(f, offset, d)) = IF offset < Len(f) THEN Len(f)
                                                           ELSE offset + 1
         /\ Stored(f, offset, d)[offset + 1] = d
<1> DEFINE n == IF offset < Len(f) THEN Len(f) ELSE offset + 1
           longer == Resize(f, n)
<1>1. n \in Nat /\ offset + 1 \in 1 .. n
  OBVIOUS
<1>2. longer \in Seq(Data) /\ Len(longer) = n
  BY <1>1, ResizeFacts
<1>3. Stored(f, offset, d) = [longer EXCEPT ![offset + 1] = d]
  BY DEF Stored
<1> HIDE DEF longer
<1>4. /\ [longer EXCEPT ![offset + 1] = d] \in Seq(Data)
      /\ Len([longer EXCEPT ![offset + 1] = d]) = n
      /\ [longer EXCEPT ![offset + 1] = d][offset + 1] = d
  BY <1>1, <1>2, ExceptSeq
<1> QED BY <1>3, <1>4

\* Numbers with room for one more.
LEMMA RoomForOne ==
  ASSUME NEW m \in Nat, NEW n \in Nat, m + 1 < n
  PROVE  m < n /\ m < n + 1
OBVIOUS

MappedPages == {p \in Pages : Mapped(p)}

\* There are no more mapped pages than pages.
LEMMA SizeFacts ==
  /\ IsFiniteSet(MappedPages)
  /\ Size = Cardinality(MappedPages)
  /\ Size \in Nat
  /\ Cardinality(Pages) \in Nat
  /\ Size =< Cardinality(Pages)
<1>1. MappedPages \subseteq Pages /\ IsFiniteSet(Pages)
  BY DiskManagerAssumption DEF MappedPages
<1>2. IsFiniteSet(MappedPages) /\ Cardinality(MappedPages) =< Cardinality(Pages)
  BY <1>1, FS_Subset
<1>3. Cardinality(MappedPages) \in Nat /\ Cardinality(Pages) \in Nat
  BY <1>1, <1>2, FS_CardinalityType
<1> QED BY <1>2, <1>3 DEF Size, MappedPages

\* Entering a page in the table adds it to the mapped ones.
LEMMA MapPage ==
  ASSUME TypeOK, NEW p \in Pages, NEW offset \in 0 .. Cardinality(Pages),
         m_pages' = [m_pages EXCEPT ![p] = offset]
  PROVE  Size' = IF Mapped(p) THEN Size ELSE Size + 1
<1>1. offset # Unmapped
  BY SizeFacts DEF Unmapped
<1>2. MappedPages' = MappedPages \cup {p}
  BY <1>1 DEF MappedPages, Mapped, TypeOK
<1>3. p \in MappedPages <=> Mapped(p)
  BY DEF MappedPages
<1>4. Size' = Cardinality(MappedPages')
  BY DEF Size, MappedPages
<1>5. CASE Mapped(p)
  <2>1. MappedPages' = MappedPages
    BY <1>2, <1>3, <1>5
  <2> QED BY <1>4, <1>5, <2>1, SizeFacts
<1>6. CASE ~Mapped(p)
  <2>1. Cardinality(MappedPages \cup {p}) = Cardinality(MappedPages) + 1
    BY <1>3, <1>6, SizeFacts, FS_AddElement
  <2> QED BY <1>2, <1>4, <1>6, <2>1, SizeFacts
<1> QED BY <1>5, <1>6

\* allocate_new_page returns an offset that fits the table.
LEMMA AllocateFacts ==
  ASSUME TypeOK
  PROVE  /\ AllocatedOffset \in 0 .. Cardinality(Pages)
         /\ AllocatedFile \in Seq(Data)
         /\ allocate_new_page => /\ m_free_offsets' \in Seq(0 .. Cardinality(Pages))
                                 /\ m_current_pages' \in Nat \ {0}
<1>1. m_free_offsets # <<>> =>
         /\ Len(m_free_offsets) \in 1 .. Len(m_free_offsets)
         /\ Len(m_free_offsets) - 1 \in 0 .. Len(m_free_offsets)
  BY DEF TypeOK
<1>2. AllocatedOffset \in 0 .. Cardinality(Pages)
  <2>1. CASE m_free_offsets = <<>>
    BY <2>1, SizeFacts DEF AllocatedOffset
  <2>2. CASE m_free_offsets # <<>>
    BY <1>1, <2>2, ElementOfSeq DEF AllocatedOffset, TypeOK
  <2> QED BY <2>1, <2>2
<1>3. AllocatedFile \in Seq(Data)
  <2>1. 2 * m_current_pages + 1 \in Nat
    BY DEF TypeOK
  <2> QED BY <2>1, ResizeFacts DEF AllocatedFile, TypeOK
<1>4. ASSUME allocate_new_page
      PROVE  /\ m_free_offsets' \in Seq(0 .. Cardinality(Pages))
             /\ m_current_pages' \in Nat \ {0}
  <2>1. m_free_offsets' \in Seq(0 .. Cardinality(Pages))
    <3>1. CASE m_free_offsets = <<>>
      BY <1>4, <3>1 DEF allocate_new_page
    <3>2. CASE m_free_offsets # <<>>
      <4>1. \A i \in 1 .. Len(m_free_offsets) - 1 :
               m_free_offsets[i] \in 0 .. Cardinality(Pages)
        <5>1. \A i \in 1 .. Len(m_free_offsets) - 1 : i \in 1 .. Len(m_free_offsets)
          BY <1>1, <3>2
        <5> QED BY <5>1, ElementOfSeq DEF TypeOK
      <4>2. 1 \in Int /\ Len(m_free_offsets) - 1 \in Int
        BY DEF TypeOK
      <4>3. SubSeq(m_free_offsets, 1, Len(m_free_offsets) - 1)
               \in Seq(0 .. Cardinality(Pages))
        BY <4>1, <4>2, SubSeqProperties
      <4> QED BY <1>4, <3>2, <4>3 DEF allocate_new_page
    <3> QED BY <3>1, <3>2
  <2>2. m_current_pages' \in Nat \ {0}
    BY <1>4 DEF allocate_new_page, TypeOK
  <2> QED BY <2>1, <2>2
<1> QED BY <1>2, <1>3, <1>4
-----------------------------------------------------------------------------
(* Types.                                                                  *)

\* What a call did is a result.
LEMMA DidResult ==
  ASSUME NEW op \in {"open", "close", "read", "write", "delete", "error",
                     "abort", "offset_beyond_file"},
         NEW p \in Pages \cup {Unmapped}, NEW d \in Data, Did(op, p, d)
  PROVE  /\ result' \in Result
         /\ result'.op = op
         /\ result'.page = p
         /\ result'.data = d
BY DEF Did, Result

\* What a read leaves behind, wherever its page is.
LEMMA ReadAtType ==
  ASSUME TypeOK, NEW p \in Pages, NEW offset \in 0 .. Cardinality(Pages),
         NEW f \in Seq(Data), stream # "closed", ReadAt(p, offset, f)
  PROVE  /\ m_pages' \in [Pages -> 0 .. Cardinality(Pages) \cup {Unmapped}]
         /\ file' = f
         /\ stream' \in {"good", "fail", "bad"}
         /\ result' \in Result
         /\ result'.op # "write"
<1>1. stream \in {"good", "fail", "bad"} /\ offset \in Nat /\ Len(f) \in Nat
  BY SizeFacts DEF TypeOK
<1>2. p \in Pages \cup {Unmapped} /\ ZeroPage \in Data
  BY DiskManagerAssumption
<1>3. CASE offset > Len(f)
  <2>1. Did("offset_beyond_file", p, ZeroPage) /\ UNCHANGED <<m_pages, stream>>
    BY <1>3 DEF ReadAt
  <2>2. result' \in Result /\ result'.op # "write"
    BY <1>2, <2>1, DidResult
  <2> QED BY <1>1, <2>1, <2>2 DEF ReadAt, TypeOK
<1>4. CASE ~(offset > Len(f))
  <2>1. m_pages' = [m_pages EXCEPT ![p] = offset]
    BY <1>4 DEF ReadAt
  <2>2. m_pages' \in [Pages -> 0 .. Cardinality(Pages) \cup {Unmapped}]
    BY <2>1 DEF TypeOK
  <2>3. /\ stream' \in {"good", "fail", "bad"}
        /\ result' \in Result
        /\ result'.op # "write"
    <3>1. CASE stream = "bad"
      <4>1. Did("error", p, ZeroPage) /\ UNCHANGED stream
        BY <1>4, <3>1 DEF ReadAt
      <4> QED BY <1>2, <3>1, <4>1, DidResult
    <3>2. CASE stream = "fail"
      <4>1. Did("read", p, ZeroPage) /\ UNCHANGED stream
        BY <1>4, <3>2 DEF ReadAt
      <4> QED BY <1>2, <3>2, <4>1, DidResult
    <3>3. CASE stream = "good" /\ offset = Len(f)
      <4>1. Did("read", p, ZeroPage) /\ stream' = "fail"
        BY <1>4, <3>3 DEF ReadAt
      <4> QED BY <1>2, <4>1, DidResult
    <3>4. CASE stream = "good" /\ offset # Len(f)
      <4>1. offset < Len(f)
        BY <1>1, <1>4, <3>4
      <4>2. Did("read", p, f[offset + 1]) /\ UNCHANGED stream
        BY <1>1, <1>4, <3>4, <4>1 DEF ReadAt
      <4>3. f[offset + 1] \in Data
        BY <1>1, <4>1, ElementOfSeq
      <4> QED BY <1>2, <3>4, <4>2, <4>3, DidResult
    <3> QED BY <1>1, <3>1, <3>2, <3>3, <3>4
  <2> QED BY <2>2, <2>3 DEF ReadAt
<1> QED BY <1>3, <1>4

\* What a write leaves behind.
LEMMA WriteAtType ==
  ASSUME TypeOK, NEW p \in Pages, NEW offset \in 0 .. Cardinality(Pages),
         NEW f \in Seq(Data), NEW d \in Data, WriteAt(p, d, offset, f)
  PROVE  /\ m_pages' \in [Pages -> 0 .. Cardinality(Pages) \cup {Unmapped}]
         /\ file' \in Seq(Data)
         /\ written' \in [Pages -> Data]
         /\ result' \in Result
<1>1. offset \in Nat /\ 0 \in 0 .. Cardinality(Pages) /\ p \in Pages \cup {Unmapped}
  BY SizeFacts
<1>2. CASE stream = "bad"
  <2>1. /\ m_pages' = [m_pages EXCEPT ![p] = IF Mapped(p) THEN @ ELSE 0]
        /\ file' = f
        /\ Did("error", p, d)
        /\ UNCHANGED written
    BY <1>2 DEF WriteAt
  <2>2. result' \in Result
    BY <1>1, <2>1, DidResult
  <2> QED BY <1>1, <2>1, <2>2 DEF TypeOK
<1>3. CASE stream # "bad"
  <2>1. /\ m_pages' = [m_pages EXCEPT ![p] = offset]
        /\ file' = IF stream = "good" THEN Stored(f, offset, d) ELSE f
        /\ written' = [written EXCEPT ![p] = d]
        /\ Did("write", p, d)
    BY <1>3 DEF WriteAt
  <2>2. result' \in Result
    BY <1>1, <2>1, DidResult
  <2>3. Stored(f, offset, d) \in Seq(Data)
    BY <1>1, StoredFacts
  <2> QED BY <2>1, <2>2, <2>3 DEF TypeOK
<1> QED BY <1>2, <1>3

LEMMA OpenType ==
  ASSUME TypeOK, Open
  PROVE  TypeOK'
<1>1. ZeroPage \in Data /\ InitialPages + 1 \in Nat /\ MaxOpens \in Nat
  BY DiskManagerAssumption
<1>2. file' \in Seq(Data)
  BY <1>1, ResizeFacts DEF Open, TypeOK
<1>3. result' \in Result
  BY <1>1, DidResult DEF Open
<1>4. opens' \in 0 .. MaxOpens
  BY <1>1 DEF Open, TypeOK
<1> QED BY <1>2, <1>3, <1>4 DEF Open, TypeOK

\* A process without pages.
LEMMA EmptyType ==
  /\ [p \in Pages |-> Unmapped] \in [Pages -> 0 .. Cardinality(Pages) \cup {Unmapped}]
  /\ InitialPages \in Nat \ {0}
  /\ <<>> \in Seq(0 .. Cardinality(Pages))
  /\ ZeroPage \in Data
BY DiskManagerAssumption

LEMMA CloseType ==
  ASSUME TypeOK, Close
  PROVE  TypeOK'
<1>1. result' \in Result
  BY EmptyType, DidResult DEF Close
<1> QED BY <1>1, EmptyType DEF Close, TypeOK

LEMMA WriteType ==
  ASSUME TypeOK, NEW p \in Pages, NEW d \in Data, write_page(p, d)
  PROVE  TypeOK'
<1>1. CASE Mapped(p) /\ allocate_new_page /\ WriteAt(p, d, AllocatedOffset, AllocatedFile)
  <2>1. /\ AllocatedOffset \in 0 .. Cardinality(Pages)
        /\ AllocatedFile \in Seq(Data)
        /\ m_free_offsets' \in Seq(0 .. Cardinality(Pages))
        /\ m_current_pages' \in Nat \ {0}
    BY <1>1, AllocateFacts
  <2>2. /\ m_pages' \in [Pages -> 0 .. Cardinality(Pages) \cup {Unmapped}]
        /\ file' \in Seq(Data)
        /\ written' \in [Pages -> Data]
        /\ result' \in Result
    BY <1>1, <2>1, WriteAtType
  <2> QED BY <2>1, <2>2 DEF write_page, TypeOK
<1>2. CASE NoAllocation /\ WriteAt(p, d, 0, file)
  <2>1. 0 \in 0 .. Cardinality(Pages) /\ file \in Seq(Data)
    BY SizeFacts DEF TypeOK
  <2>2. /\ m_pages' \in [Pages -> 0 .. Cardinality(Pages) \cup {Unmapped}]
        /\ file' \in Seq(Data)
        /\ written' \in [Pages -> Data]
        /\ result' \in Result
    BY <1>2, <2>1, WriteAtType
  <2> QED BY <1>2, <2>2 DEF write_page, TypeOK, NoAllocation
<1> QED BY <1>1, <1>2 DEF write_page

LEMMA ReadType ==
  ASSUME TypeOK, NEW p \in Pages, read_page(p)
  PROVE  TypeOK'
<1>1. CASE Mapped(p) /\ NoAllocation /\ ReadAt(p, m_pages[p], file)
  <2>1. m_pages[p] \in 0 .. Cardinality(Pages) /\ file \in Seq(Data)
    BY <1>1 DEF TypeOK, Mapped
  <2>2. /\ m_pages' \in [Pages -> 0 .. Cardinality(Pages) \cup {Unmapped}]
        /\ file' = file
        /\ stream' \in {"good", "fail", "bad"}
        /\ result' \in Result
    BY <1>1, <2>1, ReadAtType DEF read_page
  <2> QED BY <1>1, <2>2 DEF read_page, TypeOK, NoAllocation
<1>2. CASE allocate_new_page /\ ReadAt(p, AllocatedOffset, AllocatedFile)
  <2>1. /\ AllocatedOffset \in 0 .. Cardinality(Pages)
        /\ AllocatedFile \in Seq(Data)
        /\ m_free_offsets' \in Seq(0 .. Cardinality(Pages))
        /\ m_current_pages' \in Nat \ {0}
    BY <1>2, AllocateFacts
  <2>2. /\ m_pages' \in [Pages -> 0 .. Cardinality(Pages) \cup {Unmapped}]
        /\ file' = AllocatedFile
        /\ stream' \in {"good", "fail", "bad"}
        /\ result' \in Result
    BY <1>2, <2>1, ReadAtType DEF read_page
  <2> QED BY <2>1, <2>2 DEF read_page, TypeOK
<1> QED BY <1>1, <1>2 DEF read_page

\* The three ways a deletion ends: it stops the process, it goes on with a bad
\* stream, or the page was not there.
LEMMA DeleteWays ==
  ASSUME NEW p \in Pages, delete_page(p)
  PROVE  /\ stream # "closed"
         /\ as_pool' = FALSE
         /\ UNCHANGED <<file, opens, written>>
         /\ \/ /\ stream' = "closed"
               /\ m_pages' = [q \in Pages |-> Unmapped]
               /\ m_current_pages' = InitialPages
               /\ m_free_offsets' = <<>>
               /\ Did("abort", p, ZeroPage)
            \/ /\ Mapped(p)
               /\ stream' = IF stream = "good" THEN "bad" ELSE stream
               /\ m_pages' = [m_pages EXCEPT ![p] = Unmapped]
               /\ m_free_offsets' = Append(m_free_offsets, m_pages[p])
               /\ Did("delete", p, ZeroPage)
               /\ UNCHANGED m_current_pages
            \/ /\ Did("error", p, ZeroPage)
               /\ UNCHANGED <<m_pages, m_current_pages, m_free_offsets, stream>>
BY DEF delete_page, DeleteMapped

LEMMA DeleteType ==
  ASSUME TypeOK, NEW p \in Pages, delete_page(p)
  PROVE  TypeOK'
<1>1. p \in Pages \cup {Unmapped} /\ ZeroPage \in Data
  BY EmptyType
<1>2. as_pool' = FALSE /\ UNCHANGED <<file, opens, written>>
  BY DeleteWays
<1>3. CASE /\ stream' = "closed"
           /\ m_pages' = [q \in Pages |-> Unmapped]
           /\ m_current_pages' = InitialPages
           /\ m_free_offsets' = <<>>
           /\ Did("abort", p, ZeroPage)
  <2>1. result' \in Result
    BY <1>1, <1>3, DidResult
  <2> QED BY <1>2, <1>3, <2>1, EmptyType DEF TypeOK
<1>4. CASE /\ Mapped(p)
           /\ stream' = IF stream = "good" THEN "bad" ELSE stream
           /\ m_pages' = [m_pages EXCEPT ![p] = Unmapped]
           /\ m_free_offsets' = Append(m_free_offsets, m_pages[p])
           /\ Did("delete", p, ZeroPage)
           /\ UNCHANGED m_current_pages
  <2>1. result' \in Result
    BY <1>1, <1>4, DidResult
  <2>2. m_free_offsets' \in Seq(0 .. Cardinality(Pages))
    <3>1. m_pages[p] \in 0 .. Cardinality(Pages)
      BY <1>4 DEF TypeOK, Mapped
    <3> QED BY <1>4, <3>1 DEF TypeOK
  <2> QED BY <1>2, <1>4, <2>1, <2>2 DEF TypeOK
<1>5. CASE /\ Did("error", p, ZeroPage)
           /\ UNCHANGED <<m_pages, m_current_pages, m_free_offsets, stream>>
  <2>1. result' \in Result
    BY <1>1, <1>5, DidResult
  <2> QED BY <1>2, <1>5, <2>1 DEF TypeOK
<1> QED BY <1>3, <1>4, <1>5, DeleteWays
-----------------------------------------------------------------------------
(* The rest of the invariant.                                              *)

\* A table without entries has size 0.
LEMMA EmptyTable ==
  ASSUME m_pages' = [p \in Pages |-> Unmapped]
  PROVE  Size' = 0
<1>1. MappedPages' = {}
  BY DEF MappedPages, Mapped
<1>2. Size' = Cardinality(MappedPages')
  BY DEF Size, MappedPages
<1> QED BY <1>1, <1>2, FS_EmptySet

LEMMA OpenInv ==
  ASSUME ManagerInv, Open
  PROVE  ManagerInv'
<1>1. TypeOK'
  BY OpenType DEF ManagerInv
<1>2. /\ m_pages' = [p \in Pages |-> Unmapped]
      /\ m_current_pages' = InitialPages
      /\ m_free_offsets' = <<>>
      /\ stream' = "good"
  BY DEF ManagerInv, NothingInMemory, Open
<1>3. InitialPages \in Nat \ {0}
  BY DiskManagerAssumption
<1>4. result'.op = "open"
  BY EmptyType, DidResult DEF Open
<1>5. Len(file') = InitialPages + 1
  BY <1>3, ResizeFacts DEF Open, ManagerInv, TypeOK
<1>6. Size' = 0
  BY <1>2, EmptyTable
<1>7. PagesCounted'
  BY <1>2, <1>3, <1>6 DEF PagesCounted, Unmapped
<1>8. OffsetsInFile'
  BY <1>2, <1>3, <1>5 DEF OffsetsInFile, Unmapped
<1>9. NothingInMemory' /\ StreamStaysGood' /\ JustWritten'
  BY <1>2, <1>4 DEF NothingInMemory, StreamStaysGood, JustWritten
<1> QED BY <1>1, <1>7, <1>8, <1>9 DEF ManagerInv

LEMMA CloseInv ==
  ASSUME ManagerInv, Close
  PROVE  ManagerInv'
<1>1. TypeOK'
  BY CloseType DEF ManagerInv
<1>2. result'.op = "close"
  BY EmptyType, DidResult DEF Close
<1>3. NothingInMemory'
  BY DEF Close, NothingInMemory
<1>4. PagesCounted' /\ OffsetsInFile' /\ JustWritten'
  BY DEF Close, PagesCounted, OffsetsInFile, JustWritten
<1>5. StreamStaysGood'
  BY <1>2 DEF Close, StreamStaysGood
<1> QED BY <1>1, <1>3, <1>4, <1>5 DEF ManagerInv

LEMMA DeleteInv ==
  ASSUME ManagerInv, NEW p \in Pages, delete_page(p)
  PROVE  ManagerInv'
<1>1. TypeOK'
  BY DeleteType DEF ManagerInv
<1>2. as_pool' = FALSE
  BY DeleteWays
<1>3. result'.op # "write"
  <2>1. p \in Pages \cup {Unmapped} /\ ZeroPage \in Data
    BY EmptyType
  <2>2. \/ Did("abort", p, ZeroPage)
        \/ Did("delete", p, ZeroPage)
        \/ Did("error", p, ZeroPage)
    BY DeleteWays
  <2> QED BY <2>1, <2>2, DidResult
<1>4. NothingInMemory'
  <2>1. stream # "closed"
    BY DeleteWays
  <2>2. stream' = "closed" => /\ m_pages' = [q \in Pages |-> Unmapped]
                              /\ m_current_pages' = InitialPages
                              /\ m_free_offsets' = <<>>
    BY <2>1, DeleteWays
  <2> QED BY <2>2 DEF NothingInMemory
<1>5. PagesCounted' /\ OffsetsInFile' /\ StreamStaysGood'
  BY <1>2 DEF PagesCounted, OffsetsInFile, StreamStaysGood
<1>6. JustWritten'
  BY <1>3 DEF JustWritten
<1> QED BY <1>1, <1>4, <1>5, <1>6 DEF ManagerInv

\* Used by the buffer pool, allocate_new_page returns the number of pages
\* handed out, and sees to it that there is room for that page and one more.
LEMMA AllocateInFile ==
  ASSUME ManagerInv, stream # "closed", as_pool, allocate_new_page
  PROVE  /\ AllocatedOffset = Size
         /\ m_free_offsets' = <<>>
         /\ Size + 1 < m_current_pages'
         /\ m_current_pages =< m_current_pages'
         /\ Len(AllocatedFile) = m_current_pages' + 1
<1>1. m_free_offsets = <<>> /\ Size < m_current_pages
  BY DEF ManagerInv, PagesCounted
<1>2. m_current_pages \in Nat \ {0} /\ Size \in Nat /\ file \in Seq(Data)
  BY SizeFacts DEF ManagerInv, TypeOK
<1>3. AllocatedOffset = Size /\ m_free_offsets' = <<>>
  BY <1>1 DEF AllocatedOffset, allocate_new_page
<1>4. CASE Grows
  <2>1. m_current_pages' = 2 * m_current_pages
    BY <1>4 DEF allocate_new_page
  <2>2. Len(AllocatedFile) = 2 * m_current_pages + 1
    BY <1>2, <1>4, ResizeFacts DEF AllocatedFile
  <2> QED BY <1>1, <1>2, <1>3, <2>1, <2>2
<1>5. CASE ~Grows
  <2>1. m_current_pages' = m_current_pages /\ Size + 1 < m_current_pages
    BY <1>1, <1>2, <1>5 DEF allocate_new_page, Grows
  <2>2. Len(AllocatedFile) = m_current_pages + 1
    BY <1>5 DEF AllocatedFile, ManagerInv, OffsetsInFile
  <2> QED BY <1>2, <1>3, <2>1, <2>2
<1> QED BY <1>4, <1>5

\* A write that is reported stores its data where the page is looked up.
LEMMA WriteAtStores ==
  ASSUME TypeOK, NEW p \in Pages, NEW d \in Data,
         NEW offset \in 0 .. Cardinality(Pages), NEW f \in Seq(Data),
         stream = "good", WriteAt(p, d, offset, f)
  PROVE  /\ m_pages' = [m_pages EXCEPT ![p] = offset]
         /\ m_pages'[p] = offset
         /\ Len(file') = IF offset < Len(f) THEN Len(f) ELSE offset + 1
         /\ file'[offset + 1] = d
         /\ offset \in 0 .. Len(file') - 1
         /\ result'.op = "write"
         /\ result'.page = p
         /\ result'.data = d
<1>1. /\ m_pages' = [m_pages EXCEPT ![p] = offset]
      /\ file' = Stored(f, offset, d)
      /\ Did("write", p, d)
  BY DEF WriteAt
<1>2. offset \in Nat /\ Len(f) \in Nat
  BY SizeFacts
<1>3. /\ Len(file') = IF offset < Len(f) THEN Len(f) ELSE offset + 1
      /\ file'[offset + 1] = d
  BY <1>1, <1>2, StoredFacts
<1>4. offset \in 0 .. Len(file') - 1
  BY <1>2, <1>3
<1>5. result'.op = "write" /\ result'.page = p /\ result'.data = d
  BY <1>1, DidResult
<1> QED BY <1>1, <1>3, <1>4, <1>5 DEF TypeOK

LEMMA WriteInv ==
  ASSUME ManagerInv, NEW p \in Pages, NEW d \in Data, write_page(p, d)
  PROVE  ManagerInv'
<1>1. TypeOK /\ TypeOK'
  BY WriteType DEF ManagerInv
<1>2. stream # "closed" /\ stream' = stream
  BY DEF write_page
<1>3. NothingInMemory'
  BY <1>2 DEF NothingInMemory
<1>4. JustWritten'
  <2> SUFFICES ASSUME stream = "good"
               PROVE  JustWritten'
    BY <1>2 DEF JustWritten
  <2>1. \E offset \in 0 .. Cardinality(Pages), f \in Seq(Data) :
           WriteAt(p, d, offset, f)
    <3>1. CASE allocate_new_page /\ WriteAt(p, d, AllocatedOffset, AllocatedFile)
      BY <1>1, <3>1, AllocateFacts
    <3>2. CASE WriteAt(p, d, 0, file)
      <4>1. 0 \in 0 .. Cardinality(Pages) /\ file \in Seq(Data)
        BY <1>1, SizeFacts DEF TypeOK
      <4> QED BY <3>2, <4>1
    <3> QED BY <3>1, <3>2 DEF write_page
  <2>2. PICK offset \in 0 .. Cardinality(Pages), f \in Seq(Data) :
           WriteAt(p, d, offset, f)
    BY <2>1
  <2>3. /\ m_pages'[p] = offset
        /\ file'[offset + 1] = d
        /\ offset \in 0 .. Len(file') - 1
        /\ result'.page = p
        /\ result'.data = d
    BY <1>1, <2>2, WriteAtStores
  <2> QED BY <2>3 DEF JustWritten
<1>5. CASE as_pool' = FALSE
  BY <1>1, <1>3, <1>4, <1>5
  DEF ManagerInv, PagesCounted, OffsetsInFile, StreamStaysGood
<1>6. CASE as_pool' # FALSE
  <2>1. /\ as_pool
        /\ Mapped(p)
        /\ allocate_new_page
        /\ WriteAt(p, d, AllocatedOffset, AllocatedFile)
    BY <1>1, <1>6 DEF write_page, TypeOK
  <2>2. stream = "good"
    BY <1>2, <2>1 DEF ManagerInv, StreamStaysGood
  <2>3. /\ AllocatedOffset = Size
        /\ m_free_offsets' = <<>>
        /\ Size + 1 < m_current_pages'
        /\ m_current_pages =< m_current_pages'
        /\ Len(AllocatedFile) = m_current_pages' + 1
    BY <1>2, <2>1, AllocateInFile
  <2>4. AllocatedOffset \in 0 .. Cardinality(Pages) /\ AllocatedFile \in Seq(Data)
    BY <1>1, AllocateFacts
  <2>5. /\ m_pages' = [m_pages EXCEPT ![p] = Size]
        /\ Len(file') = IF Size < Len(AllocatedFile) THEN Len(AllocatedFile)
                                                     ELSE Size + 1
        /\ result'.op = "write"
    BY <1>1, <2>1, <2>2, <2>3, <2>4, WriteAtStores
  <2>6. Size \in Nat /\ m_current_pages' \in Nat /\ m_current_pages \in Nat
    BY <1>1, SizeFacts DEF TypeOK
  <2>7. Size' = Size
    BY <1>1, <2>1, <2>3, <2>4, <2>5, MapPage
  <2>8. \A q \in Pages : m_pages[q] =< Size /\ m_pages'[q] =< Size
    BY <1>1, <1>2, <2>1, <2>5, <2>6 DEF ManagerInv, PagesCounted, TypeOK
  <2>9. PagesCounted'
    BY <2>3, <2>6, <2>7, <2>8 DEF PagesCounted
  <2>10. OffsetsInFile'
    <3>1. Len(file') = m_current_pages' + 1
      <4>1. Size < m_current_pages' + 1
        <5>1. Size + 1 < m_current_pages'
          BY <2>3
        <5> QED BY <2>6, <5>1, RoomForOne
      <4>2. Size < Len(AllocatedFile)
        BY <2>3, <4>1
      <4> QED BY <2>3, <2>5, <4>2
    <3>2. \A q \in Pages : m_pages'[q] \in Int
      BY <1>1, SizeFacts DEF TypeOK, Unmapped
    <3> QED BY <2>3, <2>6, <2>8, <3>1, <3>2 DEF OffsetsInFile
  <2>11. StreamStaysGood'
    BY <1>2, <2>2, <2>5 DEF StreamStaysGood
  <2> QED BY <1>1, <1>3, <1>4, <2>9, <2>10, <2>11 DEF ManagerInv
<1> QED BY <1>5, <1>6

\* A read within the file by a good stream returns what is there.
LEMMA ReadAtReturns ==
  ASSUME TypeOK, NEW p \in Pages, NEW offset \in 0 .. Cardinality(Pages),
         NEW f \in Seq(Data), stream = "good", offset < Len(f),
         ReadAt(p, offset, f)
  PROVE  /\ m_pages' = [m_pages EXCEPT ![p] = offset]
         /\ stream' = "good"
         /\ result'.op = "read"
         /\ result'.page = p
         /\ result'.data = f[offset + 1]
<1>1. offset \in Nat /\ Len(f) \in Nat /\ ~(offset > Len(f)) /\ offset # Len(f)
  BY SizeFacts
<1>2. /\ m_pages' = [m_pages EXCEPT ![p] = offset]
      /\ Did("read", p, f[offset + 1])
      /\ UNCHANGED stream
  BY <1>1 DEF ReadAt
<1>3. f[offset + 1] \in Data
  BY <1>1, ElementOfSeq
<1> QED BY <1>2, <1>3, DidResult

LEMMA ReadInv ==
  ASSUME ManagerInv, NEW p \in Pages, read_page(p)
  PROVE  ManagerInv'
<1>1. TypeOK /\ TypeOK'
  BY ReadType DEF ManagerInv
<1>2. stream # "closed" /\ as_pool' = as_pool
  BY DEF read_page
<1>3. stream' # "closed" /\ result'.op # "write"
  <2>1. \E offset \in 0 .. Cardinality(Pages), f \in Seq(Data) : ReadAt(p, offset, f)
    <3>1. CASE Mapped(p) /\ ReadAt(p, m_pages[p], file)
      <4>1. m_pages[p] \in 0 .. Cardinality(Pages) /\ file \in Seq(Data)
        BY <1>1, <3>1 DEF TypeOK, Mapped
      <4> QED BY <3>1, <4>1
    <3>2. CASE allocate_new_page /\ ReadAt(p, AllocatedOffset, AllocatedFile)
      BY <1>1, <3>2, AllocateFacts
    <3> QED BY <3>1, <3>2 DEF read_page
  <2>2. PICK offset \in 0 .. Cardinality(Pages), f \in Seq(Data) :
           ReadAt(p, offset, f)
    BY <2>1
  <2>3. stream' \in {"good", "fail", "bad"} /\ result'.op # "write"
    BY <1>1, <1>2, <2>2, ReadAtType
  <2> QED BY <2>3
<1>4. NothingInMemory' /\ JustWritten'
  BY <1>3 DEF NothingInMemory, JustWritten
<1>5. CASE as_pool = FALSE
  BY <1>1, <1>2, <1>4, <1>5
  DEF ManagerInv, PagesCounted, OffsetsInFile, StreamStaysGood
<1>6. CASE as_pool # FALSE
  <2>1. as_pool /\ stream = "good"
    BY <1>1, <1>2, <1>6 DEF ManagerInv, TypeOK, StreamStaysGood
  <2>2. /\ m_free_offsets = <<>>
        /\ Size < m_current_pages
        /\ \A q \in Pages : m_pages[q] =< Size
        /\ Len(file) = m_current_pages + 1
        /\ \A q \in Pages : m_pages[q] < m_current_pages
    BY <1>2, <2>1 DEF ManagerInv, PagesCounted, OffsetsInFile
  <2>3. /\ Size \in Nat /\ m_current_pages \in Nat /\ m_current_pages' \in Nat
        /\ \A q \in Pages : m_pages[q] \in Int
    BY <1>1, SizeFacts DEF TypeOK, Unmapped
  <2>4. CASE Mapped(p) /\ NoAllocation /\ ReadAt(p, m_pages[p], file)
    <3>1. /\ m_pages[p] \in 0 .. Cardinality(Pages)
          /\ file \in Seq(Data)
          /\ m_pages[p] < Len(file)
      BY <1>1, <2>2, <2>3, <2>4 DEF TypeOK, Mapped
    <3>2. /\ m_pages' = [m_pages EXCEPT ![p] = m_pages[p]]
          /\ stream' = "good"
          /\ result'.op = "read"
      BY <1>1, <2>1, <2>4, <3>1, ReadAtReturns
    <3>3. m_pages' = m_pages /\ file' = file
      BY <1>1, <2>4, <3>2 DEF TypeOK, ReadAt
    <3>4. Size' = Size
      BY <3>3 DEF Size, Mapped
    <3>5. UNCHANGED <<m_current_pages, m_free_offsets>>
      BY <2>4 DEF NoAllocation
    <3>6. PagesCounted' /\ OffsetsInFile'
      BY <2>2, <3>3, <3>4, <3>5 DEF PagesCounted, OffsetsInFile
    <3>7. StreamStaysGood'
      BY <3>2 DEF StreamStaysGood
    <3> QED BY <1>1, <1>4, <3>6, <3>7 DEF ManagerInv
  <2>5. CASE ~Mapped(p) /\ allocate_new_page /\ ReadAt(p, AllocatedOffset, AllocatedFile)
    <3>1. /\ AllocatedOffset = Size
          /\ m_free_offsets' = <<>>
          /\ Size + 1 < m_current_pages'
          /\ Len(AllocatedFile) = m_current_pages' + 1
      BY <1>2, <2>1, <2>5, AllocateInFile
    <3>2. AllocatedOffset \in 0 .. Cardinality(Pages) /\ AllocatedFile \in Seq(Data)
      BY <1>1, AllocateFacts
    <3>3. Size < m_current_pages' /\ Size < m_current_pages' + 1
      <4>1. Size + 1 < m_current_pages'
        BY <3>1
      <4> QED BY <2>3, <4>1, RoomForOne
    <3>4. /\ m_pages' = [m_pages EXCEPT ![p] = Size]
          /\ stream' = "good"
          /\ result'.op = "read"
      <4>1. AllocatedOffset < Len(AllocatedFile)
        BY <3>1, <3>3
      <4>2. /\ m_pages' = [m_pages EXCEPT ![p] = AllocatedOffset]
            /\ stream' = "good"
            /\ result'.op = "read"
        BY <1>1, <2>1, <2>5, <3>2, <4>1, ReadAtReturns
      <4> QED BY <3>1, <4>2
    <3>5. file' = AllocatedFile
      BY <2>5 DEF ReadAt
    <3>6. Size' = Size + 1
      BY <1>1, <2>5, <3>1, <3>2, <3>4, MapPage
    <3>7. \A q \in Pages : m_pages'[q] = IF q = p THEN Size ELSE m_pages[q]
      BY <1>1, <3>4 DEF TypeOK
    <3>8. \A q \in Pages : m_pages'[q] =< Size + 1 /\ m_pages'[q] < m_current_pages'
      BY <2>2, <2>3, <3>3, <3>7
    <3>9. PagesCounted'
      BY <3>1, <3>6, <3>8 DEF PagesCounted
    <3>10. OffsetsInFile'
      BY <3>1, <3>5, <3>8 DEF OffsetsInFile
    <3>11. StreamStaysGood'
      BY <3>4 DEF StreamStaysGood
    <3> QED BY <1>1, <1>4, <3>9, <3>10, <3>11 DEF ManagerInv
  <2> QED BY <2>4, <2>5 DEF read_page
<1> QED BY <1>5, <1>6
-----------------------------------------------------------------------------
(* The theorems.                                                           *)

LEMMA InitManagerInv == Init => ManagerInv
<1> SUFFICES ASSUME Init PROVE ManagerInv
  OBVIOUS
<1>1. TypeOK
  <2>1. MaxOpens \in Nat
    BY DiskManagerAssumption
  <2>2. result \in Result
    BY EmptyType DEF Init, Result
  <2>3. file \in Seq(Data) /\ written \in [Pages -> Data]
    BY EmptyType DEF Init
  <2> QED BY <2>1, <2>2, <2>3, EmptyType DEF Init, TypeOK
<1>2. NothingInMemory
  BY DEF Init, NothingInMemory
<1>3. PagesCounted /\ OffsetsInFile /\ StreamStaysGood /\ JustWritten
  BY DEF Init, PagesCounted, OffsetsInFile, StreamStaysGood, JustWritten
<1> QED BY <1>1, <1>2, <1>3 DEF ManagerInv

LEMMA NextManagerInv == ManagerInv /\ [Next]_vars => ManagerInv'
<1> SUFFICES ASSUME ManagerInv, [Next]_vars PROVE ManagerInv'
  OBVIOUS
<1>1. CASE UNCHANGED vars
  BY <1>1 DEF vars, ManagerInv, TypeOK, NothingInMemory, PagesCounted,
              OffsetsInFile, StreamStaysGood, JustWritten, Size, Mapped
<1>2. CASE Open
  BY <1>2, OpenInv
<1>3. CASE Close
  BY <1>3, CloseInv
<1>4. ASSUME NEW p \in Pages, read_page(p)
      PROVE  ManagerInv'
  BY <1>4, ReadInv
<1>5. ASSUME NEW p \in Pages, delete_page(p)
      PROVE  ManagerInv'
  BY <1>5, DeleteInv
<1>6. ASSUME NEW p \in Pages, NEW d \in Data, write_page(p, d)
      PROVE  ManagerInv'
  BY <1>6, WriteInv
<1> QED BY <1>1, <1>2, <1>3, <1>4, <1>5, <1>6 DEF Next

LEMMA ManagerInvariant == Spec => []ManagerInv
BY InitManagerInv, NextManagerInv, PTL DEF Spec

\* Whatever is read, written and deleted, and wherever the process ends: the
\* table and the free list hold offsets no larger than the number of pages, and
\* the file holds data (disk_manager.cpp:15-105).
THEOREM ManagerTypeCorrect == Spec => []TypeOK
<1>1. ManagerInv => TypeOK
  BY DEF ManagerInv
<1> QED BY <1>1, ManagerInvariant, PTL

\* Used by the buffer pool the manager never hands out an offset beyond its
\* capacity, and the file is always one page longer than that
\* (disk_manager.cpp:93-105).
THEOREM OffsetsAreInFile == Spec => []OffsetsInFile
<1>1. ManagerInv => OffsetsInFile
  BY DEF ManagerInv
<1> QED BY <1>1, ManagerInvariant, PTL

\* So it never throws, and never drops a write without a word
\* (disk_manager.cpp:30-79).
THEOREM TheStreamStaysGood == Spec => []StreamStaysGood
<1>1. ManagerInv => StreamStaysGood
  BY DEF ManagerInv
<1> QED BY <1>1, ManagerInvariant, PTL

\* However it is used, a page read right after it was written has the data
\* written, unless the stream has failed (disk_manager.cpp:30-79).
THEOREM WritesReadBack == Spec => ReadBack
<1> DEFINE A == /\ stream # "fail"
                /\ result.op = "write"
                /\ result'.op = "read"
                /\ result'.page = result.page
                => result'.data = result.data
<1>1. ManagerInv /\ [Next]_vars => [A]_vars
  <2> SUFFICES ASSUME ManagerInv, Next, stream # "fail", result.op = "write",
                      result'.op = "read", result'.page = result.page
               PROVE  result'.data = result.data
    OBVIOUS
  <2>1. TypeOK /\ JustWritten
    BY DEF ManagerInv
  <2>2. PICK p \in Pages : read_page(p)
    <3>1. CASE Open
      BY <3>1, EmptyType, DidResult DEF Open
    <3>2. CASE Close
      BY <3>2, EmptyType, DidResult DEF Close
    <3>3. ASSUME NEW p \in Pages, delete_page(p)
          PROVE  FALSE
      <4>1. p \in Pages \cup {Unmapped} /\ ZeroPage \in Data
        BY EmptyType
      <4>2. \/ Did("abort", p, ZeroPage)
            \/ Did("delete", p, ZeroPage)
            \/ Did("error", p, ZeroPage)
        BY <3>3, DeleteWays
      <4> QED BY <4>1, <4>2, DidResult
    <3>4. ASSUME NEW p \in Pages, NEW d \in Data, write_page(p, d)
          PROVE  FALSE
      <4>1. p \in Pages \cup {Unmapped}
        OBVIOUS
      <4>2. Did("error", p, d) \/ Did("write", p, d)
        BY <3>4 DEF write_page, WriteAt
      <4> QED BY <4>1, <4>2, DidResult
    <3> QED BY <3>1, <3>2, <3>3, <3>4 DEF Next
  <2>3. stream = "good" \/ stream = "bad"
    BY <2>1, <2>2 DEF TypeOK, read_page
  <2>4. PICK offset \in 0 .. Cardinality(Pages), f \in Seq(Data) :
           /\ ReadAt(p, offset, f)
           /\ Mapped(p) => offset = m_pages[p] /\ f = file
    <3>1. CASE Mapped(p) /\ ReadAt(p, m_pages[p], file)
      <4>1. m_pages[p] \in 0 .. Cardinality(Pages) /\ file \in Seq(Data)
        BY <2>1, <3>1 DEF TypeOK, Mapped
      <4> QED BY <3>1, <4>1
    <3>2. CASE ~Mapped(p) /\ allocate_new_page /\ ReadAt(p, AllocatedOffset, AllocatedFile)
      BY <2>1, <3>2, AllocateFacts
    <3> QED BY <2>2, <3>1, <3>2 DEF read_page
  <2>5. result'.page = p
    <3>1. \E op \in {"offset_beyond_file", "error", "read"}, d \in Data : Did(op, p, d)
      <4>1. CASE stream = "bad"
        BY <2>4, <4>1, EmptyType DEF ReadAt
      <4>2. CASE stream = "good"
        <5>1. offset \in Nat /\ Len(f) \in Nat
          BY SizeFacts
        <5>2. CASE offset > Len(f)
          BY <2>4, <5>2, EmptyType DEF ReadAt
        <5>3. CASE offset = Len(f)
          <6>1. Did("read", p, ZeroPage)
            BY <2>4, <4>2, <5>1, <5>3 DEF ReadAt
          <6> QED BY <6>1, EmptyType
        <5>4. CASE offset < Len(f)
          <6>1. Did("read", p, f[offset + 1])
            BY <2>4, <4>2, <5>1, <5>4 DEF ReadAt
          <6>2. f[offset + 1] \in Data
            BY <5>1, <5>4, ElementOfSeq
          <6> QED BY <6>1, <6>2
        <5> QED BY <5>1, <5>2, <5>3, <5>4
      <4> QED BY <2>3, <4>1, <4>2
    <3> QED BY <3>1, DidResult
  <2>6. CASE stream = "bad"
    <3>1. \/ Did("offset_beyond_file", p, ZeroPage)
          \/ Did("error", p, ZeroPage)
      BY <2>4, <2>6 DEF ReadAt
    <3> QED BY <3>1, EmptyType, DidResult
  <2>7. CASE stream = "good"
    <3>1. /\ m_pages[p] \in 0 .. Len(file) - 1
          /\ file[m_pages[p] + 1] = result.data
      BY <2>1, <2>5, <2>7 DEF JustWritten
    <3>2. Mapped(p) /\ offset = m_pages[p] /\ f = file /\ offset < Len(f)
      <4>1. Len(file) \in Nat
        BY <2>1 DEF TypeOK
      <4> QED BY <2>4, <3>1, <4>1 DEF Mapped, Unmapped
    <3>3. result'.data = f[offset + 1]
      BY <2>1, <2>4, <2>7, <3>2, ReadAtReturns
    <3> QED BY <3>1, <3>2, <3>3
  <2> QED BY <2>3, <2>6, <2>7
<1>2. Spec => [][Next]_vars
  BY PTL DEF Spec
<1>3. Spec => [][A]_vars
  BY <1>1, <1>2, ManagerInvariant, PTL
<1> QED BY <1>3 DEF ReadBack
=============================================================================
