--------------------------- MODULE MockDiskProofs ---------------------------
(***************************************************************************)
(* Proofs about MockDisk, for every number of pages, every set of data and *)
(* every growth of the vector.                                             *)
(***************************************************************************)
EXTENDS MockDisk, SequenceTheorems, TLAPS

\* The vector holds data, and reaches every id that was used: the one to come
\* is at most one beyond it, so that growing once is enough.
MockInv == /\ m_mock_file \in Seq(Data)
           /\ used \in Nat
           /\ used =< Len(m_mock_file)
           /\ IndexInBounds
-----------------------------------------------------------------------------
\* What the vector holds after it grew, or did not have to.
LEMMA GrownFacts ==
  ASSUME m_mock_file \in Seq(Data), NEW p \in Nat
  PROVE  /\ Grown(p) \in Seq(Data)
         /\ Len(Grown(p)) = IF p >= Len(m_mock_file)
                            THEN Len(m_mock_file) + Growth
                            ELSE Len(m_mock_file)
         /\ \A i \in 1 .. Len(Grown(p)) :
               Grown(p)[i] = IF i =< Len(m_mock_file) THEN m_mock_file[i]
                                                      ELSE ZeroPage
<1> DEFINE zeros == [i \in 1 .. Growth |-> ZeroPage]
<1>1. Growth \in Nat /\ ZeroPage \in Data
  BY MockDiskAssumption
<1>2. zeros \in Seq(Data) /\ Len(zeros) = Growth
  BY <1>1
<1>3. \A i \in 1 .. Growth : zeros[i] = ZeroPage
  OBVIOUS
<1>4. CASE p >= Len(m_mock_file)
  <2> HIDE DEF zeros
  <2>1. Grown(p) = m_mock_file \o zeros
    BY <1>4 DEF Grown, zeros
  <2>2. /\ m_mock_file \o zeros \in Seq(Data)
        /\ Len(m_mock_file \o zeros) = Len(m_mock_file) + Growth
        /\ \A i \in 1 .. Len(m_mock_file) + Growth :
              (m_mock_file \o zeros)[i] =
                 IF i =< Len(m_mock_file) THEN m_mock_file[i]
                                          ELSE zeros[i - Len(m_mock_file)]
    BY <1>2, ConcatProperties
  <2>3. \A i \in 1 .. Len(m_mock_file) + Growth :
           i > Len(m_mock_file) => i - Len(m_mock_file) \in 1 .. Growth
    BY <1>1
  <2> QED BY <1>3, <1>4, <2>1, <2>2, <2>3
<1>5. CASE ~(p >= Len(m_mock_file))
  BY <1>5 DEF Grown
<1> QED BY <1>4, <1>5

\* An id that may be used is in the vector once it has grown, and so is every
\* id that was used before.
LEMMA UseReaches ==
  ASSUME MockInv, NEW p \in Pages, Use(p)
  PROVE  /\ p \in Nat
         /\ p < Len(Grown(p))
         /\ used' \in Nat
         /\ used' =< Len(Grown(p))
<1>1. p \in Nat
  BY MockDiskAssumption DEF Pages
<1>2. Growth \in Nat \ {0} /\ Len(m_mock_file) \in Nat
  BY MockDiskAssumption DEF MockInv
<1>3. p =< used /\ used \in Nat /\ used =< Len(m_mock_file)
  BY DEF MockInv, Use
<1>4. Len(Grown(p)) = IF p >= Len(m_mock_file) THEN Len(m_mock_file) + Growth
                                               ELSE Len(m_mock_file)
  BY <1>1, GrownFacts DEF MockInv
<1> QED BY <1>1, <1>2, <1>3, <1>4 DEF Use

LEMMA ReadInv ==
  ASSUME MockInv, NEW p \in Pages, read_page(p)
  PROVE  MockInv'
<1>1. /\ p \in Nat /\ p < Len(Grown(p))
      /\ used' \in Nat /\ used' =< Len(Grown(p))
  BY UseReaches DEF read_page
<1>2. m_mock_file' = Grown(p) /\ last'.in_bounds = (p < Len(Grown(p)))
  BY DEF read_page
<1>3. Grown(p) \in Seq(Data)
  BY <1>1, GrownFacts DEF MockInv
<1> QED BY <1>1, <1>2, <1>3 DEF MockInv, IndexInBounds

\* The vector after a write.
LEMMA WriteStores ==
  ASSUME MockInv, NEW p \in Pages, NEW d \in Data, write_page(p, d)
  PROVE  /\ m_mock_file' \in Seq(Data)
         /\ Len(m_mock_file') = Len(Grown(p))
         /\ \A i \in 1 .. Len(Grown(p)) :
               m_mock_file'[i] = IF i = p + 1 THEN d ELSE Grown(p)[i]
<1>1. p \in Nat /\ p < Len(Grown(p)) /\ Grown(p) \in Seq(Data)
  BY UseReaches, GrownFacts DEF write_page, MockInv
<1>2. m_mock_file' = [Grown(p) EXCEPT ![p + 1] = d] /\ p + 1 \in 1 .. Len(Grown(p))
  BY <1>1 DEF write_page
<1> QED BY <1>1, <1>2, ExceptSeq

LEMMA WriteInv ==
  ASSUME MockInv, NEW p \in Pages, NEW d \in Data, write_page(p, d)
  PROVE  MockInv'
<1>1. /\ p \in Nat /\ p < Len(Grown(p))
      /\ used' \in Nat /\ used' =< Len(Grown(p))
  BY UseReaches DEF write_page
<1>2. last'.in_bounds = (p < Len(Grown(p)))
  BY DEF write_page
<1> QED BY <1>1, <1>2, WriteStores DEF MockInv, IndexInBounds

LEMMA MockInvariant == Spec => []MockInv
<1>1. Init => MockInv
  BY DEF Init, MockInv, IndexInBounds
<1>2. MockInv /\ [Next]_vars => MockInv'
  <2> SUFFICES ASSUME MockInv, [Next]_vars PROVE MockInv'
    OBVIOUS
  <2>1. CASE UNCHANGED vars
    BY <2>1 DEF vars, MockInv, IndexInBounds
  <2>2. CASE Next
    BY <2>2, ReadInv, WriteInv DEF Next
  <2> QED BY <2>1, <2>2
<1> QED BY <1>1, <1>2, PTL DEF Spec

\* However many pages there are and however little the vector grows, growing it
\* once per call is enough, because ids come in order
\* (disk_manager_mock.cpp:13-17 and 26-30).
THEOREM IndexesAreInBounds == Spec => []IndexInBounds
<1>1. MockInv => IndexInBounds
  BY DEF MockInv
<1> QED BY <1>1, MockInvariant, PTL
-----------------------------------------------------------------------------
(* The mock implements PageStore.                                          *)

\* What the grown vector holds where, page by page.
LEMMA GrownContents ==
  ASSUME MockInv, NEW p \in Pages, NEW q \in Pages
  PROVE  Contents[q] = IF q < Len(Grown(p)) THEN Grown(p)[q + 1] ELSE ZeroPage
<1>1. p \in Nat /\ q \in Nat /\ Len(m_mock_file) \in Nat /\ Growth \in Nat
  BY MockDiskAssumption DEF Pages, MockInv
<1>2. /\ Len(Grown(p)) = IF p >= Len(m_mock_file)
                         THEN Len(m_mock_file) + Growth
                         ELSE Len(m_mock_file)
      /\ \A i \in 1 .. Len(Grown(p)) :
            Grown(p)[i] = IF i =< Len(m_mock_file) THEN m_mock_file[i]
                                                   ELSE ZeroPage
  BY <1>1, GrownFacts DEF MockInv
<1>3. Contents[q] = IF q < Len(m_mock_file) THEN m_mock_file[q + 1] ELSE ZeroPage
  BY DEF Contents
<1>4. CASE q < Len(m_mock_file)
  BY <1>1, <1>2, <1>3, <1>4
<1>5. CASE ~(q < Len(m_mock_file)) /\ q < Len(Grown(p))
  BY <1>1, <1>2, <1>3, <1>5
<1>6. CASE ~(q < Len(Grown(p)))
  BY <1>1, <1>2, <1>3, <1>6
<1> QED BY <1>4, <1>5, <1>6

\* A read, whether or not the vector grows, changes no page.
LEMMA ReadRefines ==
  ASSUME MockInv, NEW p \in Pages, read_page(p)
  PROVE  Contents' = Contents
<1>1. m_mock_file' = Grown(p)
  BY DEF read_page
<1>2. \A q \in Pages : Contents[q] = IF q < Len(Grown(p)) THEN Grown(p)[q + 1]
                                                          ELSE ZeroPage
  BY GrownContents
<1>3. Contents = [q \in Pages |-> Contents[q]]
  BY DEF Contents
<1>4. Contents' = [q \in Pages |-> IF q < Len(Grown(p)) THEN Grown(p)[q + 1]
                                                        ELSE ZeroPage]
  BY <1>1 DEF Contents
<1> QED BY <1>2, <1>3, <1>4

\* A write changes its page and no other.
LEMMA WriteRefines ==
  ASSUME MockInv, NEW p \in Pages, NEW d \in Data, write_page(p, d)
  PROVE  Store!Write(p, d)
<1>1. p \in Nat /\ p < Len(Grown(p)) /\ Len(Grown(p)) \in Nat
  BY UseReaches, GrownFacts DEF write_page, MockInv
<1>2. /\ Len(m_mock_file') = Len(Grown(p))
      /\ \A i \in 1 .. Len(Grown(p)) :
            m_mock_file'[i] = IF i = p + 1 THEN d ELSE Grown(p)[i]
  BY WriteStores
<1>3. ASSUME NEW q \in Pages
      PROVE  Contents'[q] = IF q = p THEN d ELSE Contents[q]
  <2>1. q \in Nat
    BY MockDiskAssumption DEF Pages
  <2>2. Contents'[q] = IF q < Len(m_mock_file') THEN m_mock_file'[q + 1]
                                                ELSE ZeroPage
    BY DEF Contents
  <2>3. Contents[q] = IF q < Len(Grown(p)) THEN Grown(p)[q + 1] ELSE ZeroPage
    BY GrownContents
  <2>4. q < Len(Grown(p)) => q + 1 \in 1 .. Len(Grown(p))
    BY <1>1, <2>1
  <2>5. q + 1 = p + 1 <=> q = p
    BY <1>1, <2>1
  <2> QED BY <1>1, <1>2, <2>2, <2>3, <2>4, <2>5
<1>4. Contents' = [q \in Pages |-> Contents'[q]] /\ Contents = [q \in Pages |-> Contents[q]]
  BY DEF Contents
<1>5. Contents' = [Contents EXCEPT ![p] = d]
  BY <1>3, <1>4
<1> QED BY <1>5 DEF Store!Write

\* The mock is a page store: growing the vector changes no page, a write
\* changes one (disk_manager_mock.cpp:8-32).
THEOREM MockImplementsPageStore == Spec => ImplementsPageStore
<1>1. Init => Store!Init
  BY MockDiskAssumption DEF Init, Store!Init, Contents, Pages
<1>2. MockInv /\ [Next]_vars => [Store!Next]_Contents
  <2> SUFFICES ASSUME MockInv, [Next]_vars PROVE [Store!Next]_Contents
    OBVIOUS
  <2>1. CASE UNCHANGED vars
    BY <2>1 DEF vars, Contents
  <2>2. ASSUME NEW p \in Pages, read_page(p)
        PROVE  Contents' = Contents
    BY <2>2, ReadRefines
  <2>3. ASSUME NEW p \in Pages, NEW d \in Data, write_page(p, d)
        PROVE  Store!Next
    BY <2>3, WriteRefines DEF Store!Next
  <2> QED BY <2>1, <2>2, <2>3 DEF Next
<1> QED BY <1>1, <1>2, MockInvariant, PTL DEF Spec, ImplementsPageStore, Store!Spec
=============================================================================
