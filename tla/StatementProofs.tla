-------------------------- MODULE StatementProofs --------------------------
(***************************************************************************)
(* Proofs about what becomes of a statement: about Lexer, for any text and *)
(* any table of keywords, and about StorageEngine, for all types,          *)
(* statements and numbers of rows, and for every evaluator of which        *)
(* EvaluatorAssumption holds.                                              *)
(*                                                                         *)
(* What the proofs about the lexer rest on is that it is always between    *)
(* two tokens when a step begins; those about the engine, that a position  *)
(* in bytes is reached in one way: values take as many bytes as their      *)
(* columns say, so the rows of a table lie at multiples of rowSize.        *)
(***************************************************************************)
EXTENDS Lexer, StorageEngine, FiniteSetTheorems, WellFoundedInduction, TLAPS

-----------------------------------------------------------------------------
(* Induction, for a set of numbers instead of a predicate.                 *)

\* A set of numbers has a least one.
LEMMA LeastNumber ==
    ASSUME NEW S, S \subseteq Nat, S # {}
    PROVE  \E m \in S : \A n \in S : m =< n
<1>1. IsWellFoundedOn(OpToRel(<, Nat), Nat)
  BY NatLessThanWellFounded, Zenon
<1>2. PICK m \in S : \A n \in S : ~ (<<n, m>> \in OpToRel(<, Nat))
  BY <1>1, WFMin, Zenon
<1>3. OpToRel(<, Nat) = {ss \in Nat \X Nat : ss[1] < ss[2]}
  BY Zenon DEF OpToRel
<1>4. ASSUME NEW n \in S PROVE m =< n
  <2>1. m \in Nat /\ n \in Nat
    OBVIOUS
  <2>2. ~ (n < m)
    BY <1>2, <1>3, <2>1
  <2> QED BY <2>1, <2>2
<1> QED BY <1>4

\* What holds of 0 and of the number behind each that it holds of holds of all.
LEMMA Induction ==
    ASSUME NEW T, 0 \in T, \A n \in Nat : n \in T => n + 1 \in T
    PROVE  \A n \in Nat : n \in T
<1> DEFINE Bad == Nat \ T
<1>1. SUFFICES ASSUME Bad # {} PROVE FALSE
  OBVIOUS
<1>2. PICK m \in Bad : \A n \in Bad : m =< n
  <2>1. Bad \subseteq Nat
    OBVIOUS
  <2> HIDE DEF Bad
  <2> QED BY <1>1, <2>1, LeastNumber, Zenon
<1>3. m \in Nat /\ m \notin T /\ m # 0
  OBVIOUS
<1>4. m - 1 \in Nat /\ m - 1 + 1 = m /\ ~ (m =< m - 1)
  BY <1>3
<1>5. m - 1 \in Bad
  BY <1>3, <1>4
<1> QED BY <1>2, <1>4, <1>5

\* A set of numbers up to a bound has a greatest one, which Max is.
LEMMA GreatestNumber ==
    ASSUME NEW b \in Nat, NEW S, S \subseteq 0 .. b, S # {}
    PROVE  Max(S) \in S /\ \A n \in S : n =< Max(S)
<1> DEFINE Below == {b - n : n \in S}
<1>1. Below \subseteq Nat /\ Below # {}
  <2>1. PICK n \in S : TRUE
    OBVIOUS
  <2>2. b - n \in Below
    BY <2>1
  <2>3. \A k \in S : b - k \in Nat
    OBVIOUS
  <2> QED BY <2>2, <2>3
<1>2. PICK m \in Below : \A n \in Below : m =< n
  <2> HIDE DEF Below
  <2> QED BY <1>1, LeastNumber
<1>3. PICK g \in S : m = b - g
  OBVIOUS
<1>4. ASSUME NEW n \in S PROVE g >= n
  <2>1. b - g =< b - n
    BY <1>2, <1>3
  <2>2. g \in Nat /\ n \in Nat
    OBVIOUS
  <2> QED BY <2>1, <2>2
<1>5. \E x \in S : \A y \in S : x >= y
  BY <1>3, <1>4
<1>6. Max(S) \in S /\ \A y \in S : Max(S) >= y
  BY <1>5, Zenon DEF Max
<1>7. ASSUME NEW n \in S PROVE n =< Max(S)
  BY <1>6
<1> QED BY <1>6, <1>7

\* A set of numbers has a least one, which Min is.
LEMMA MinIs ==
    ASSUME NEW S, S \subseteq Nat, S # {}
    PROVE  Min(S) \in S /\ \A n \in S : Min(S) =< n
<1>1. \E m \in S : \A n \in S : m =< n
  BY LeastNumber
<1> QED BY <1>1, Zenon DEF Min
-----------------------------------------------------------------------------
(* The lexer: the characters it tells apart.                               *)

\* The sets of characters have none in common, and NUL is in none.
LEMMA Classes ==
    ASSUME NEW c
    PROVE  /\ c \in Letters => /\ c \notin Digits /\ c \notin Others /\ c \notin Symbols
                               /\ c \notin Blanks /\ c # Quote /\ c # NUL
           /\ c \in Digits => /\ c \notin Letters /\ c \notin Others /\ c \notin Symbols
                              /\ c \notin Blanks /\ c # Quote /\ c # NUL
           /\ c \in Others => /\ c \notin Letters /\ c \notin Digits /\ c \notin Symbols
                              /\ c \notin Blanks /\ c # Quote /\ c # NUL
           /\ c \in Symbols => /\ c \notin Letters /\ c \notin Digits /\ c \notin Others
                               /\ c \notin Blanks /\ c # Quote /\ c # NUL
           /\ c \in Blanks => /\ c \notin Letters /\ c \notin Digits /\ c \notin Others
                              /\ c \notin Symbols /\ c # Quote /\ c # NUL
           /\ c = Quote => /\ c \notin Letters /\ c \notin Digits /\ c \notin Others
                           /\ c \notin Symbols /\ c \notin Blanks /\ c # NUL
           /\ c \in Characters => c # NUL
           /\ c \in Characters <=> \/ c \in Letters \/ c \in Digits \/ c \in Others
                                   \/ c \in Symbols \/ c \in Blanks \/ c = Quote
<1>1. Symbols = {"(", ")", "+", "-", "/", "*", ",", ".", "!", ";"}
  BY DEF Symbols, SymbolType
<1>2. c \in Symbols => c \notin Blanks /\ c # Quote /\ c # NUL
  BY <1>1 DEF Blanks, Quote, NUL
<1>3. c \in Blanks => c # Quote /\ c # NUL
  BY DEF Blanks, Quote, NUL
<1>4. Quote # NUL
  BY DEF Quote, NUL
<1>5. c \in Characters <=> \/ c \in Letters \/ c \in Digits \/ c \in Others
                           \/ c \in Symbols \/ c \in Blanks \/ c = Quote
  BY Zenon DEF Characters
<1>6. c \in Characters => c # NUL
  BY LexerAssumption, Zenon DEF LexerAssumption
<1>7. c \in Letters => c \notin Digits /\ c \notin Others /\ c \notin Symbols /\ c \notin Blanks
                       /\ c # Quote
  BY LexerAssumption, Zenon DEF LexerAssumption
<1>8. c \in Digits => c \notin Others /\ c \notin Symbols /\ c \notin Blanks /\ c # Quote
  BY LexerAssumption, Zenon DEF LexerAssumption
<1>9. c \in Others => c \notin Symbols /\ c \notin Blanks /\ c # Quote
  BY LexerAssumption, Zenon DEF LexerAssumption
<1> QED BY <1>2, <1>3, <1>4, <1>5, <1>6, <1>7, <1>8, <1>9, Zenon

\* A text has characters at its indices, and NUL behind them.
LEMMA AtFacts ==
    ASSUME NEW text \in Seq(Characters), NEW i \in Nat
    PROVE  /\ Len(text) \in Nat
           /\ i < Len(text) => At(text, i) \in Characters
           /\ i >= Len(text) => At(text, i) = NUL
           /\ At(text, i) # NUL => i < Len(text)
BY DEF At

-----------------------------------------------------------------------------
(* Inside and outside of the strings.                                      *)

\* As long as no quote comes, it stays inside or outside.
LEMMA NoQuoteBetween ==
    ASSUME NEW text, NEW a \in Nat, NEW b \in Nat, a =< b,
           \A j \in a .. b - 1 : At(text, j) # Quote
    PROVE  OutsideStrings(text, b) <=> OutsideStrings(text, a)
<1>1. {j \in 0 .. b - 1 : At(text, j) = Quote} = {j \in 0 .. a - 1 : At(text, j) = Quote}
  OBVIOUS
<1> QED BY <1>1, Zenon DEF OutsideStrings

\* A quote leads from outside to inside, or back.
LEMMA BehindQuote ==
    ASSUME NEW text, NEW a \in Nat, At(text, a) = Quote
    PROVE  OutsideStrings(text, a + 1) <=> ~ OutsideStrings(text, a)
<1> DEFINE Q == {j \in 0 .. a - 1 : At(text, j) = Quote}
           n == Cardinality(Q)
<1>1. {j \in 0 .. a + 1 - 1 : At(text, j) = Quote} = Q \cup {a}
  OBVIOUS
<1>2. IsFiniteSet(Q)
  <2>1. IsFiniteSet(0 .. a - 1)
    BY FS_Interval
  <2> QED BY <2>1, FS_Subset
<1>3. a \notin Q
  OBVIOUS
<1> HIDE DEF Q
<1>4. n \in Nat /\ Cardinality(Q \cup {a}) = n + 1
  BY <1>2, <1>3, FS_CardinalityType, FS_AddElement
<1>5. (n + 1) % 2 = 0 <=> ~ (n % 2 = 0)
  <2> HIDE DEF n
  <2> QED BY <1>4
<1>6. OutsideStrings(text, a) <=> n % 2 = 0
  BY DEF OutsideStrings, Q
<1>7. OutsideStrings(text, a + 1) <=> (n + 1) % 2 = 0
  BY <1>1, <1>4 DEF OutsideStrings
<1> QED BY <1>5, <1>6, <1>7

-----------------------------------------------------------------------------
(* The order of the tokens.                                                *)

\* How many tokens begin before position i.
Rank(text, i) == Cardinality({j \in TokenStarts(text) : j < i})

\* The tokens of a text that begin before some index are finitely many.
LEMMA RankFacts ==
    ASSUME NEW text \in Seq(Characters), NEW p \in Nat
    PROVE  /\ IsFiniteSet(TokenStarts(text))
           /\ IsFiniteSet({j \in TokenStarts(text) : j < p})
           /\ TokenStarts(text) \subseteq Nat
           /\ Rank(text, p) \in Nat
<1>1. TokenStarts(text) \subseteq 0 .. Len(text) - 1
  BY DEF TokenStarts
<1>2. IsFiniteSet(0 .. Len(text) - 1)
  BY FS_Interval
<1>3. IsFiniteSet(TokenStarts(text))
  BY <1>1, <1>2, FS_Subset
<1>4. IsFiniteSet({j \in TokenStarts(text) : j < p})
  BY <1>3, FS_Subset
<1>5. Rank(text, p) \in Nat
  BY <1>4, FS_CardinalityType DEF Rank
<1> QED BY <1>1, <1>3, <1>4, <1>5

\* The rank of a token is the number of those before it, so no two have the same.
LEMMA RankOnce ==
    ASSUME NEW text \in Seq(Characters), NEW i \in TokenStarts(text), NEW k \in TokenStarts(text),
           Rank(text, i) = Rank(text, k)
    PROVE  i = k
<1>1. ASSUME NEW a \in TokenStarts(text), NEW b \in TokenStarts(text), a < b,
             Rank(text, a) = Rank(text, b)
      PROVE  FALSE
  <2> DEFINE A == {j \in TokenStarts(text) : j < a}
             B == {j \in TokenStarts(text) : j < b}
  <2>1. TokenStarts(text) \subseteq Nat
    BY RankFacts
  <2>2. A \subseteq B /\ a \in B /\ a \notin A
    BY <1>1, <2>1
  <2>3. IsFiniteSet(B)
    BY <2>1, RankFacts
  <2>4. Cardinality(A) = Cardinality(B)
    BY <1>1 DEF Rank
  <2> HIDE DEF A, B
  <2> QED BY <2>2, <2>3, <2>4, FS_Subset
<1>2. i \in Nat /\ k \in Nat
  BY RankFacts
<1> QED BY <1>1, <1>2

\* Where no token begins the rank stays as it is, and where one does it grows.
LEMMA RankStep ==
    ASSUME NEW text \in Seq(Characters), NEW p \in Nat, NEW q \in Nat, p < q,
           \A j \in p + 1 .. q - 1 : j \notin TokenStarts(text)
    PROVE  Rank(text, q) = IF p \in TokenStarts(text) THEN Rank(text, p) + 1 ELSE Rank(text, p)
<1> DEFINE A == {j \in TokenStarts(text) : j < p}
           B == {j \in TokenStarts(text) : j < q}
<1>1. TokenStarts(text) \subseteq Nat /\ IsFiniteSet(A)
  BY RankFacts
<1>2. p \notin A
  OBVIOUS
<1>3. ASSUME p \in TokenStarts(text) PROVE B = A \cup {p}
  BY <1>1, <1>3
<1>4. ASSUME p \notin TokenStarts(text) PROVE B = A
  BY <1>1, <1>4
<1>5. Rank(text, q) = Cardinality(B) /\ Rank(text, p) = Cardinality(A)
  BY DEF Rank
<1> HIDE DEF A, B
<1> QED BY <1>1, <1>2, <1>3, <1>4, <1>5, FS_AddElement

-----------------------------------------------------------------------------
(* What has been read.                                                     *)

\* Outside the strings, at a position no word and no number reaches over, the
\* lexer has made the tokens that begin before it, and met no stray.
Progress(text, p, ts) ==
    /\ p \in 0 .. Len(text)
    /\ OutsideStrings(text, p)
    /\ p > 0 => /\ ~ (At(text, p - 1) \in Letters /\ At(text, p) \in Letters)
                /\ ~ (At(text, p - 1) \in Digits /\ At(text, p) \in Digits)
    /\ Len(ts) = Rank(text, p)
    /\ \A k \in 1 .. Len(ts) :
          \E i \in TokenStarts(text) :
             i < p /\ Rank(text, i) = k - 1 /\ ts[k] = ReferenceToken(text, i)
    /\ \A i \in Strays(text) : i >= p

\* A lexer that moves on over what is no token.
LEMMA ReadNoToken ==
    ASSUME NEW text \in Seq(Characters), NEW p, NEW ts, Progress(text, p, ts),
           NEW q \in 0 .. Len(text), p < q, OutsideStrings(text, q),
           ~ (At(text, q - 1) \in Letters /\ At(text, q) \in Letters),
           ~ (At(text, q - 1) \in Digits /\ At(text, q) \in Digits),
           \A j \in p .. q - 1 : j \notin TokenStarts(text) /\ j \notin Strays(text)
    PROVE  Progress(text, q, ts)
<1>1. p \in Nat /\ q \in Nat
  BY DEF Progress
<1>2. Rank(text, q) = Rank(text, p)
  <2>1. p \notin TokenStarts(text) /\ \A j \in p + 1 .. q - 1 : j \notin TokenStarts(text)
    BY <1>1
  <2> QED BY <1>1, <2>1, RankStep
<1>3. ASSUME NEW k \in 1 .. Len(ts)
      PROVE  \E i \in TokenStarts(text) :
                i < q /\ Rank(text, i) = k - 1 /\ ts[k] = ReferenceToken(text, i)
  <2>1. PICK i \in TokenStarts(text) :
                i < p /\ Rank(text, i) = k - 1 /\ ts[k] = ReferenceToken(text, i)
    BY <1>3 DEF Progress
  <2>2. i \in Nat
    BY RankFacts
  <2>3. i < q
    BY <1>1, <2>1, <2>2
  <2> QED BY <2>1, <2>3
<1>4. ASSUME NEW i \in Strays(text) PROVE i >= q
  <2>1. i \in Nat
    BY DEF Strays
  <2>2. i >= p
    BY DEF Progress
  <2> QED BY <1>1, <2>1, <2>2
<1>5. Len(ts) = Rank(text, q)
  BY <1>2 DEF Progress
<1> QED BY <1>3, <1>4, <1>5 DEF Progress

\* A lexer that makes one token.
LEMMA ReadOneToken ==
    ASSUME NEW text \in Seq(Characters), NEW p, NEW V, NEW ts \in Seq(V), Progress(text, p, ts),
           NEW q \in 0 .. Len(text), p < q, OutsideStrings(text, q),
           ~ (At(text, q - 1) \in Letters /\ At(text, q) \in Letters),
           ~ (At(text, q - 1) \in Digits /\ At(text, q) \in Digits),
           p \in TokenStarts(text),
           \A j \in p + 1 .. q - 1 : j \notin TokenStarts(text),
           \A j \in p .. q - 1 : j \notin Strays(text),
           NEW tok, tok = ReferenceToken(text, p)
    PROVE  Progress(text, q, Append(ts, tok))
<1> DEFINE more == Append(ts, tok)
<1>1. p \in Nat /\ q \in Nat /\ Len(ts) \in Nat
  BY DEF Progress
<1>2. Rank(text, q) = Rank(text, p) + 1 /\ Len(ts) = Rank(text, p)
  BY <1>1, RankStep DEF Progress
<1>3. /\ Len(more) = Len(ts) + 1
      /\ more[Len(ts) + 1] = tok
      /\ \A k \in 1 .. Len(ts) : more[k] = ts[k]
  BY <1>1
<1> HIDE DEF more
<1>4. ASSUME NEW k \in 1 .. Len(more)
      PROVE  \E i \in TokenStarts(text) :
                i < q /\ Rank(text, i) = k - 1 /\ more[k] = ReferenceToken(text, i)
  <2>1. CASE k \in 1 .. Len(ts)
    <3>1. PICK i \in TokenStarts(text) :
                  i < p /\ Rank(text, i) = k - 1 /\ ts[k] = ReferenceToken(text, i)
      BY <2>1 DEF Progress
    <3>2. i \in Nat
      BY RankFacts
    <3>3. i < q /\ more[k] = ts[k]
      BY <1>1, <1>3, <2>1, <3>1, <3>2
    <3> QED BY <3>1, <3>3
  <2>2. CASE k \notin 1 .. Len(ts)
    <3>1. k = Len(ts) + 1
      BY <1>1, <1>3, <2>2
    <3>2. Rank(text, p) = k - 1 /\ more[k] = ReferenceToken(text, p)
      BY <1>1, <1>2, <1>3, <3>1
    <3> QED BY <3>2
  <2> QED BY <2>1, <2>2
<1>5. ASSUME NEW i \in Strays(text) PROVE i >= q
  <2>1. i \in Nat
    BY DEF Strays
  <2>2. i >= p
    BY DEF Progress
  <2> QED BY <1>1, <2>1, <2>2
<1>6. Len(more) = Rank(text, q)
  BY <1>2, <1>3
<1>7. Progress(text, q, more)
  BY <1>4, <1>5, <1>6 DEF Progress
<1> QED BY <1>7 DEF more

\* A lexer at the end of the text has made the tokens it should make.
LEMMA ReadAll ==
    ASSUME NEW text \in Seq(Characters), NEW V, NEW ts \in Seq(V),
           Progress(text, Len(text), ts)
    PROVE  ts = ReferenceTokens(text) /\ Strays(text) = {}
<1> DEFINE starts == TokenStarts(text)
           Which(k) == CHOOSE i \in starts : Cardinality({j \in starts : j < i}) = k - 1
<1>1. Strays(text) = {}
  <2>1. SUFFICES ASSUME NEW i \in Strays(text) PROVE FALSE
    OBVIOUS
  <2>2. i \in 0 .. Len(text) - 1 /\ i >= Len(text)
    BY DEF Strays, Progress
  <2> QED BY <2>2
<1>2. Len(ts) = Cardinality(starts)
  <2>1. {j \in starts : j < Len(text)} = starts
    BY DEF TokenStarts
  <2> QED BY <2>1 DEF Progress, Rank
<1>3. ReferenceTokens(text) = [k \in 1 .. Cardinality(starts) |-> ReferenceToken(text, Which(k))]
  BY Zenon DEF ReferenceTokens
<1>4. ASSUME NEW k \in 1 .. Len(ts) PROVE ts[k] = ReferenceToken(text, Which(k))
  <2>1. PICK i \in starts : Rank(text, i) = k - 1 /\ ts[k] = ReferenceToken(text, i)
    BY DEF Progress
  <2>2. Rank(text, i) = Cardinality({j \in starts : j < i})
    BY Zenon DEF Rank
  <2>3. Which(k) \in starts /\ Cardinality({j \in starts : j < Which(k)}) = k - 1
    <3>1. \E a \in starts : Cardinality({j \in starts : j < a}) = k - 1
      BY <2>1, <2>2
    <3> HIDE DEF starts
    <3> QED BY <3>1, Zenon
  <2> HIDE DEF Which
  <2>4. Rank(text, Which(k)) = Rank(text, i)
    BY <2>1, <2>3, Zenon DEF Rank
  <2>5. Which(k) = i
    BY <2>1, <2>3, <2>4, RankOnce
  <2> QED BY <2>1, <2>5
<1>5. ts = [k \in 1 .. Len(ts) |-> ts[k]]
  OBVIOUS
<1> HIDE DEF Which, starts
<1>6. ts = [k \in 1 .. Cardinality(starts) |-> ReferenceToken(text, Which(k))]
  BY <1>2, <1>4, <1>5
<1> QED BY <1>1, <1>3, <1>6

-----------------------------------------------------------------------------
(* What the lexer finds.                                                   *)

\* RunEnd is the end of the longest run.
LEMMA RunEndIs ==
    ASSUME m_input \in Seq(Characters), NEW p \in Nat, p < Len(m_input), NEW C, NUL \notin C
    PROVE  /\ RunEnd(p, C) \in p .. Len(m_input) - 1
           /\ \A k \in p + 1 .. RunEnd(p, C) : Char(k) \in C
           /\ Char(RunEnd(p, C) + 1) \notin C
<1> DEFINE n == Len(m_input)
           R == {j \in p .. n : \A k \in p + 1 .. j : Char(k) \in C}
           last == Max(R)
<1>1. n \in Nat
  OBVIOUS
<1>2. p \in R /\ R \subseteq 0 .. n
  BY <1>1
<1>3. RunEnd(p, C) = last
  BY Zenon DEF RunEnd
<1>4. last \in R /\ \A j \in R : j =< last
  <2> HIDE DEF R
  <2> QED BY <1>1, <1>2, GreatestNumber
<1>5. n \notin R
  <2>1. SUFFICES ASSUME n \in R PROVE FALSE
    OBVIOUS
  <2>2. Char(n) \in C
    BY <1>1, <2>1
  <2>3. Char(n) = NUL
    BY <1>1, AtFacts DEF Char
  <2> QED BY <2>2, <2>3
<1>6. last \in p .. n - 1 /\ \A k \in p + 1 .. last : Char(k) \in C
  <2>1. last \in p .. n /\ last # n /\ \A k \in p + 1 .. last : Char(k) \in C
    <3> HIDE DEF last
    <3> QED BY <1>4, <1>5
  <2> HIDE DEF last
  <2> QED BY <1>1, <2>1
<1>7. Char(last + 1) \notin C
  <2> HIDE DEF last
  <2>1. SUFFICES ASSUME Char(last + 1) \in C PROVE FALSE
    OBVIOUS
  <2>2. ASSUME NEW k \in p + 1 .. last + 1 PROVE Char(k) \in C
    <3>1. k \in p + 1 .. last \/ k = last + 1
      BY <1>6, <2>2
    <3> QED BY <1>6, <2>1, <3>1
  <2>3. last + 1 \in R
    BY <1>1, <1>6, <2>2
  <2> QED BY <1>4, <1>6, <2>3
<1> QED BY <1>3, <1>6, <1>7

\* A view that does not end behind the NUL of the buffer shows what is there.
LEMMA ViewIs ==
    ASSUME m_input \in Seq(Characters), NEW i \in Nat, NEW j \in Int,
           i =< j + 1, j =< Len(m_input)
    PROVE  /\ View(i, j) = [k \in 1 .. j + 1 - i |-> Char(i + k - 1)]
           /\ View(i, j) \in Seq(Characters \cup {NUL})
<1>1. \A k \in 1 .. j + 1 - i : ~ (i + k - 1 > Len(m_input))
  <2>1. Len(m_input) \in Nat
    OBVIOUS
  <2> QED BY <2>1
<1>2. View(i, j) = [k \in 1 .. j + 1 - i |-> Char(i + k - 1)]
  BY <1>1 DEF View
<1>3. ASSUME NEW k \in 1 .. j + 1 - i PROVE Char(i + k - 1) \in Characters \cup {NUL}
  <2>1. i + k - 1 \in Nat
    OBVIOUS
  <2> QED BY <2>1, AtFacts DEF Char
<1>4. j + 1 - i \in Nat
  OBVIOUS
<1> QED BY <1>2, <1>3, <1>4

\* StringEnd is the index before the next quote, or the NUL.
LEMMA StringEndIs ==
    ASSUME m_input \in Seq(Characters), NEW i \in Nat, i =< Len(m_input)
    PROVE  /\ StringEnd(i) \in i .. Len(m_input)
           /\ \A j \in i + 1 .. StringEnd(i) : Char(j) # Quote
           /\ (\E j \in i + 1 .. Len(m_input) : Char(j) = Quote)
              => Char(StringEnd(i) + 1) = Quote /\ StringEnd(i) + 1 =< Len(m_input)
<1> DEFINE n == Len(m_input)
           quotes == {j \in i + 1 .. n : Char(j) = Quote}
<1>1. n \in Nat
  OBVIOUS
<1>2. StringEnd(i) = IF quotes = {} THEN n ELSE Min(quotes) - 1
  BY Zenon DEF StringEnd
<1>3. CASE quotes = {}
  <2>1. \A j \in i + 1 .. n : Char(j) # Quote
    BY <1>3
  <2> HIDE DEF quotes
  <2> QED BY <1>1, <1>2, <1>3, <2>1
<1>4. CASE quotes # {}
  <2>1. quotes \subseteq Nat
    BY <1>1
  <2>2. PICK m : m = Min(quotes) /\ m \in quotes /\ \A j \in quotes : m =< j
    <3> HIDE DEF quotes
    <3> QED BY <1>4, <2>1, MinIs
  <2>3. m \in i + 1 .. n /\ Char(m) = Quote
    BY <2>2
  <2>4. \A j \in i + 1 .. m - 1 : Char(j) # Quote
    <3>1. SUFFICES ASSUME NEW j \in i + 1 .. m - 1, Char(j) = Quote PROVE FALSE
      OBVIOUS
    <3>2. j \in quotes
      BY <1>1, <2>3, <3>1
    <3>3. j < m
      BY <1>1, <2>3
    <3> QED BY <1>1, <2>2, <2>3, <3>2, <3>3
  <2>5. StringEnd(i) = m - 1
    BY <1>2, <1>4, <2>2, Zenon
  <2> HIDE DEF quotes
  <2> QED BY <1>1, <2>3, <2>4, <2>5
<1> QED BY <1>3, <1>4

\* The characters of a token are those up to where the run of its kind ends.
LEMMA RunIs ==
    ASSUME NEW text \in Seq(Characters), NEW first \in Nat, NEW q \in Nat, NEW C,
           first =< q, q =< Len(text),
           \A k \in first .. q - 1 : At(text, k) \in C, At(text, q) \notin C
    PROVE  LET inside == {j \in first .. Len(text) - 1 : \A k \in first .. j : At(text, k) \in C}
           IN  Cardinality(inside) = q - first
<1> DEFINE inside == {j \in first .. Len(text) - 1 : \A k \in first .. j : At(text, k) \in C}
<1>1. Len(text) \in Nat
  OBVIOUS
<1>2. ASSUME NEW j \in inside PROVE j \in first .. q - 1
  <2>1. j \in Int /\ j >= first /\ \A k \in first .. j : At(text, k) \in C
    BY <1>1
  <2>2. SUFFICES ASSUME j >= q PROVE FALSE
    BY <2>1
  <2>3. q \in first .. j
    BY <2>1, <2>2
  <2> QED BY <2>1, <2>3
<1>3. ASSUME NEW j \in first .. q - 1 PROVE j \in inside
  BY <1>1
<1>4. inside = first .. q - 1
  <2> HIDE DEF inside
  <2> QED BY <1>2, <1>3
<1>5. Cardinality(first .. q - 1) = q - first
  <2>1. first \in Int /\ q - 1 \in Int
    OBVIOUS
  <2>2. Cardinality(first .. q - 1) = IF first > q - 1 THEN 0 ELSE q - 1 - first + 1
    BY <2>1, FS_Interval
  <2> QED BY <2>2
<1> QED BY <1>4, <1>5

-----------------------------------------------------------------------------
(* One step of the lexer.                                                  *)

\* Where a token of more than one character has no other one inside it.
LEMMA OneStart ==
    ASSUME NEW text \in Seq(Characters), NEW p \in Nat, NEW q \in Nat, NEW C,
           C = Letters \/ C = Digits,
           \A k \in p .. q - 1 : At(text, k) \in C
    PROVE  \A j \in p + 1 .. q - 1 : j \notin TokenStarts(text)
<1>1. SUFFICES ASSUME NEW j \in p + 1 .. q - 1, j \in TokenStarts(text) PROVE FALSE
  OBVIOUS
<1>2. j \in p .. q - 1 /\ j - 1 \in p .. q - 1 /\ j # 0
  OBVIOUS
<1>3. At(text, j) \in C /\ At(text, j - 1) \in C
  BY <1>2
<1>4. CASE C = Letters
  BY <1>1, <1>2, <1>3, <1>4, Classes DEF TokenStarts
<1>5. CASE C = Digits
  BY <1>1, <1>2, <1>3, <1>5, Classes DEF TokenStarts
<1> QED BY <1>4, <1>5

\* A run of characters of which none is a quote or a stray leads on.
LEMMA RunLeadsOn ==
    ASSUME NEW text \in Seq(Characters), NEW p \in Nat, NEW q \in Nat, p =< q, q =< Len(text),
           OutsideStrings(text, p),
           \A k \in p .. q - 1 : At(text, k) # Quote /\ At(text, k) \notin Others
    PROVE  OutsideStrings(text, q) /\ \A k \in p .. q - 1 : k \notin Strays(text)
<1>1. OutsideStrings(text, q)
  BY NoQuoteBetween
<1> QED BY <1>1 DEF Strays

\* The token of a word, or of a number.
WordToken(C, word) ==
    Token(IF C = Digits THEN "integer"
          ELSE IF word \in DOMAIN reservedKeywords
               THEN reservedKeywords[word] ELSE "identifier",
          word)

\* The word that begins at position p.
LEMMA ReadsWord ==
    ASSUME NEW text \in Seq(Characters), NEW p \in Nat, NEW q \in Nat, p < q, q =< Len(text),
           NEW V, NEW ts \in Seq(V), Progress(text, p, ts), NEW C, C = Letters \/ C = Digits,
           \A k \in p .. q - 1 : At(text, k) \in C, At(text, q) \notin C,
           NEW word, word = [k \in 1 .. q - p |-> At(text, p + k - 1)]
    PROVE  Progress(text, q, Append(ts, WordToken(C, word)))
<1>1. Len(text) \in Nat /\ q \in 0 .. Len(text) /\ p \in p .. q - 1 /\ q - 1 \in p .. q - 1
  OBVIOUS
<1>2. \A c \in C : c # Quote /\ c \notin Others /\ c \notin Symbols
  BY Classes
<1>3. At(text, p) \in C /\ At(text, q - 1) \in C
  BY <1>1
<1>4. OutsideStrings(text, q) /\ \A k \in p .. q - 1 : k \notin Strays(text)
  <2>1. \A k \in p .. q - 1 : At(text, k) # Quote /\ At(text, k) \notin Others
    BY <1>2
  <2> QED BY <1>1, <2>1, RunLeadsOn DEF Progress
<1>5. \A j \in p + 1 .. q - 1 : j \notin TokenStarts(text)
  BY OneStart
<1>6. p \in TokenStarts(text)
  <2>1. p \in 0 .. Len(text) - 1 /\ OutsideStrings(text, p)
    BY <1>1 DEF Progress
  <2>2. p = 0 \/ At(text, p - 1) \notin C
    BY <1>3 DEF Progress
  <2> QED BY <1>3, <2>1, <2>2 DEF TokenStarts
<1>7. /\ ~ (At(text, q - 1) \in Letters /\ At(text, q) \in Letters)
      /\ ~ (At(text, q - 1) \in Digits /\ At(text, q) \in Digits)
  BY <1>3, Classes
<1>8. Extent(text, p) = word
  <2> DEFINE inside == {j \in p .. Len(text) - 1 : \A k \in p .. j : At(text, k) \in C}
  <2>1. Cardinality(inside) = q - p
    <3>1. p =< q
      OBVIOUS
    <3> QED BY <3>1, RunIs
  <2>2. Extent(text, p) = [k \in 1 .. Cardinality(inside) |-> At(text, p + k - 1)]
    <3>1. At(text, p) # Quote
      BY <1>2, <1>3
    <3>2. (CASE At(text, p) \in Letters -> Letters
             [] At(text, p) \in Digits -> Digits
             [] At(text, p) = Quote -> Characters \ {Quote}
             [] OTHER -> {}) = C
      BY <1>3, Classes
    <3> QED BY <3>1, <3>2, Zenon DEF Extent
  <2> HIDE DEF inside
  <2> QED BY <2>1, <2>2, Zenon
<1>9. ReferenceToken(text, p) = WordToken(C, word)
  <2>1. CASE C = Letters
    <3>1. At(text, p) \in Letters
      BY <1>3, <2>1
    <3>2. C # Digits
      BY <2>1, <3>1, Classes
    <3> QED BY <1>8, <2>1, <3>1, <3>2, Classes, Zenon DEF ReferenceToken, WordToken
  <2>2. CASE C = Digits
    <3>1. At(text, p) \notin Letters /\ At(text, p) \in Digits
      BY <1>3, <2>2, Classes
    <3> QED BY <1>8, <2>2, <3>1, Classes, Zenon DEF ReferenceToken, WordToken
  <2> QED BY <2>1, <2>2
<1> QED BY <1>1, <1>4, <1>5, <1>6, <1>7, <1>9, ReadOneToken

\* The sign at position p.
LEMMA ReadsSign ==
    ASSUME NEW text \in Seq(Characters), NEW p \in Nat, NEW V, NEW ts \in Seq(V),
           Progress(text, p, ts), At(text, p) \in Symbols
    PROVE  Progress(text, p + 1, Append(ts, Token(SymbolType[At(text, p)], <<>>)))
<1>1. /\ At(text, p) \notin Letters /\ At(text, p) \notin Digits /\ At(text, p) \notin Others
      /\ At(text, p) # Quote /\ At(text, p) # NUL
  BY Classes
<1>2. Len(text) \in Nat /\ p < Len(text)
  BY <1>1, AtFacts
<1>3. OutsideStrings(text, p + 1) /\ \A k \in p .. p + 1 - 1 : k \notin Strays(text)
  <2>1. \A k \in p .. p + 1 - 1 : At(text, k) # Quote /\ At(text, k) \notin Others
    BY <1>1
  <2>2. p + 1 \in Nat /\ p =< p + 1 /\ p + 1 =< Len(text) /\ OutsideStrings(text, p)
    BY <1>2 DEF Progress
  <2> QED BY <2>1, <2>2, RunLeadsOn
<1>4. p \in TokenStarts(text)
  BY <1>2 DEF Progress, TokenStarts
<1>5. At(text, p + 1 - 1) = At(text, p)
  OBVIOUS
<1>6. Extent(text, p) = <<>>
  <2> DEFINE inside == {j \in p .. Len(text) - 1 : \A k \in p .. j : At(text, k) \in {}}
  <2>1. Cardinality(inside) = 0
    <3>1. inside = {}
      OBVIOUS
    <3> QED BY <3>1, FS_EmptySet
  <2>2. Extent(text, p) = [k \in 1 .. Cardinality(inside) |-> At(text, p + k - 1)]
    <3>1. (CASE At(text, p) \in Letters -> Letters
             [] At(text, p) \in Digits -> Digits
             [] At(text, p) = Quote -> Characters \ {Quote}
             [] OTHER -> {}) = {}
      BY <1>1
    <3> QED BY <1>1, <3>1, Zenon DEF Extent
  <2> HIDE DEF inside
  <2> QED BY <2>1, <2>2
<1>7. ReferenceToken(text, p) = Token(SymbolType[At(text, p)], <<>>)
  BY <1>1, <1>6 DEF ReferenceToken
<1>8. /\ p + 1 \in 0 .. Len(text) /\ p < p + 1
      /\ \A j \in p + 1 .. p + 1 - 1 : j \notin TokenStarts(text)
  BY <1>2
<1> QED BY <1>1, <1>3, <1>4, <1>5, <1>7, <1>8, ReadOneToken

\* The blank at position p.
LEMMA ReadsBlank ==
    ASSUME NEW text \in Seq(Characters), NEW p \in Nat, NEW ts,
           Progress(text, p, ts), At(text, p) \in Blanks
    PROVE  Progress(text, p + 1, ts)
<1>1. /\ At(text, p) \notin Letters /\ At(text, p) \notin Digits /\ At(text, p) \notin Others
      /\ At(text, p) \notin Symbols /\ At(text, p) # Quote /\ At(text, p) # NUL
  BY Classes
<1>2. Len(text) \in Nat /\ p < Len(text)
  BY <1>1, AtFacts
<1>3. OutsideStrings(text, p + 1) /\ \A k \in p .. p + 1 - 1 : k \notin Strays(text)
  <2>1. \A k \in p .. p + 1 - 1 : At(text, k) # Quote /\ At(text, k) \notin Others
    BY <1>1
  <2>2. p + 1 \in Nat /\ p =< p + 1 /\ p + 1 =< Len(text) /\ OutsideStrings(text, p)
    BY <1>2 DEF Progress
  <2> QED BY <2>1, <2>2, RunLeadsOn
<1>4. p \notin TokenStarts(text)
  BY <1>1 DEF TokenStarts
<1>5. \A j \in p .. p + 1 - 1 : j = p
  OBVIOUS
<1>6. p + 1 \in 0 .. Len(text) /\ p < p + 1 /\ At(text, p + 1 - 1) = At(text, p)
  BY <1>2
<1>7. \A j \in p .. p + 1 - 1 : j \notin TokenStarts(text) /\ j \notin Strays(text)
  BY <1>3, <1>4, <1>5
<1> QED BY <1>1, <1>3, <1>6, <1>7, ReadNoToken

\* Every string that opens has an end.
LEMMA StringCloses ==
    ASSUME NEW text \in Seq(Characters), NEW p \in Nat, StringsAreClosed(text),
           OutsideStrings(text, p), At(text, p) = Quote
    PROVE  /\ p + 1 < Len(text) /\ At(text, p + 1) # Quote
           /\ \E j \in p + 2 .. Len(text) - 1 : At(text, j) = Quote
<1>1. Len(text) \in Nat /\ p < Len(text)
  BY Classes, AtFacts
<1>2. At(text, p + 1) # Quote
  BY <1>1 DEF StringsAreClosed
<1>3. ~ OutsideStrings(text, p + 1)
  BY BehindQuote
<1>4. PICK j \in p + 1 .. Len(text) - 1 : At(text, j) = Quote
  <2>1. SUFFICES ASSUME \A j \in p + 1 .. Len(text) - 1 : At(text, j) # Quote PROVE FALSE
    OBVIOUS
  <2>2. OutsideStrings(text, Len(text)) <=> OutsideStrings(text, p + 1)
    <3>1. p + 1 \in Nat /\ p + 1 =< Len(text)
      BY <1>1
    <3> QED BY <1>1, <2>1, <3>1, NoQuoteBetween
  <2> QED BY <1>3, <2>2 DEF StringsAreClosed
<1>5. j # p + 1
  BY <1>2, <1>4
<1>6. j \in p + 2 .. Len(text) - 1 /\ p + 1 < Len(text)
  BY <1>1, <1>5
<1> QED BY <1>2, <1>4, <1>6

\* The string that opens at position p and is closed at position q.
LEMMA ReadsString ==
    ASSUME NEW text \in Seq(Characters), NEW p \in Nat, NEW q \in Nat, p + 1 < q, q < Len(text),
           NEW V, NEW ts \in Seq(V), Progress(text, p, ts),
           At(text, p) = Quote, At(text, q) = Quote,
           \A k \in p + 1 .. q - 1 : At(text, k) # Quote,
           NEW word, word = [k \in 1 .. q - (p + 1) |-> At(text, p + 1 + k - 1)]
    PROVE  Progress(text, q + 1, Append(ts, Token("string", word)))
<1>1. Len(text) \in Nat /\ OutsideStrings(text, p)
  BY DEF Progress
<1>2. \A k \in p + 1 .. q : ~ OutsideStrings(text, k)
  <2>1. TAKE k \in p + 1 .. q
  <2>2. ~ OutsideStrings(text, p + 1)
    BY <1>1, BehindQuote
  <2>3. p + 1 \in Nat /\ k \in Nat /\ p + 1 =< k
    OBVIOUS
  <2>4. \A j \in p + 1 .. k - 1 : At(text, j) # Quote
    OBVIOUS
  <2> QED BY <2>2, <2>3, <2>4, NoQuoteBetween
<1>3. OutsideStrings(text, q + 1)
  <2>1. ~ OutsideStrings(text, q)
    BY <1>2
  <2> QED BY <2>1, BehindQuote
<1>4. \A j \in p + 1 .. q + 1 - 1 : j \notin TokenStarts(text)
  BY <1>2 DEF TokenStarts
<1>5. \A j \in p .. q + 1 - 1 : j \notin Strays(text)
  <2>1. p \notin Strays(text)
    BY Classes DEF Strays
  <2>2. \A j \in p + 1 .. q : j \notin Strays(text)
    BY <1>2 DEF Strays
  <2>3. \A j \in p .. q + 1 - 1 : j = p \/ j \in p + 1 .. q
    OBVIOUS
  <2> QED BY <2>1, <2>2, <2>3
<1>6. p \in TokenStarts(text)
  BY <1>1 DEF TokenStarts
<1>7. Extent(text, p) = word
  <2> DEFINE C == Characters \ {Quote}
             inside == {j \in p + 1 .. Len(text) - 1 : \A k \in p + 1 .. j : At(text, k) \in C}
  <2>1. Cardinality(inside) = q - (p + 1)
    <3>1. \A k \in p + 1 .. q - 1 : At(text, k) \in C
      BY AtFacts
    <3>2. At(text, q) \notin C /\ p + 1 \in Nat /\ p + 1 =< q /\ q =< Len(text)
      BY <1>1
    <3> HIDE DEF C
    <3> QED BY <3>1, <3>2, RunIs
  <2>2. Extent(text, p) = [k \in 1 .. Cardinality(inside) |-> At(text, p + 1 + k - 1)]
    <3>1. (CASE At(text, p) \in Letters -> Letters
             [] At(text, p) \in Digits -> Digits
             [] At(text, p) = Quote -> Characters \ {Quote}
             [] OTHER -> {}) = C
      BY Classes
    <3> QED BY <3>1, Zenon DEF Extent
  <2> HIDE DEF inside
  <2> QED BY <2>1, <2>2, Zenon
<1>8. ReferenceToken(text, p) = Token("string", word)
  <2>1. At(text, p) \notin Letters /\ At(text, p) \notin Digits /\ At(text, p) \notin Symbols
    BY Classes
  <2> QED BY <1>7, <2>1 DEF ReferenceToken
<1>9. q + 1 \in 0 .. Len(text) /\ p < q + 1 /\ At(text, q + 1 - 1) = Quote
  BY <1>1
<1>10. Quote \notin Letters /\ Quote \notin Digits
  BY Classes
<1> QED BY <1>3, <1>4, <1>5, <1>6, <1>8, <1>9, <1>10, ReadOneToken

-----------------------------------------------------------------------------
(* The invariant and the theorems.                                         *)

\* Where the strings of the text are closed, the lexer is between two tokens
\* until it has made all of them or met a stray.
ReadsOn ==
    m_input # <<>> /\ StringsAreClosed(m_input) =>
       /\ scan = "scanning" => Progress(m_input, m_position, m_tokens)
       /\ scan = "done" => m_tokens = ReferenceTokens(m_input) /\ Strays(m_input) = {}
       /\ scan = "thrown" => m_position \in Strays(m_input)

LexerInv == LexerTypeOK /\ ReadsOn

\* The tokens a lexer may make.
TokenRecords == [type : TokenTypes, literal : Seq(Characters \cup {NUL})]

\* A token that is added has a type and a literal, and the position stays in reach.
LEMMA AddsToken ==
    ASSUME LexerTypeOK, NEW type \in TokenTypes, NEW literal \in Seq(Characters \cup {NUL}),
           NEW last \in Nat, last =< Len(m_input) + 1, AddToken(type, literal, last)
    PROVE  LexerTypeOK'
<1>1. m_tokens \in Seq(TokenRecords) /\ Token(type, literal) \in TokenRecords
  BY DEF LexerTypeOK, TokenRecords, Token
<1>2. m_tokens' \in Seq(TokenRecords)
  <2> HIDE DEF TokenRecords
  <2> QED BY <1>1 DEF AddToken
<1>3. Len(m_input) \in Nat /\ m_input' = m_input /\ scan' = scan /\ m_position' = last + 1
  BY DEF LexerTypeOK, AddToken
<1>4. m_position' \in 0 .. Len(m_input') + 2
  BY <1>3
<1> QED BY <1>2, <1>3, <1>4 DEF LexerTypeOK, TokenRecords

\* A token that the lexer should make, made by it, leaves it between two tokens.
LEMMA AddsTheToken ==
    ASSUME NEW type, NEW literal, NEW last \in Nat, AddToken(type, literal, last),
           scan = "scanning",
           m_input # <<>> /\ StringsAreClosed(m_input) =>
              Progress(m_input, last + 1, Append(m_tokens, Token(type, literal)))
    PROVE  ReadsOn'
<1>1. /\ m_input' = m_input /\ scan' = "scanning" /\ m_position' = last + 1
      /\ m_tokens' = Append(m_tokens, Token(type, literal))
  BY DEF AddToken
<1> QED BY <1>1, Zenon DEF ReadsOn

\* What a step finds: a text, and where it stands in it.
LEMMA Found ==
    ASSUME LexerInv, NEW C, Looking(C)
    PROVE  /\ scan = "scanning" /\ m_input \in Seq(Characters) /\ Len(m_input) \in Nat
           /\ m_position \in Nat /\ At(m_input, m_position) \in C
           /\ m_tokens \in Seq(TokenRecords)
           /\ m_input # <<>> /\ StringsAreClosed(m_input) =>
                 Progress(m_input, m_position, m_tokens)
           /\ NUL \notin C => m_position < Len(m_input)
<1>1. /\ scan = "scanning" /\ m_input \in Seq(Characters) /\ Len(m_input) \in Nat
      /\ m_position \in Nat /\ At(m_input, m_position) \in C
      /\ m_tokens \in Seq(TokenRecords)
  BY DEF LexerInv, LexerTypeOK, Looking, Char, TokenRecords
<1>2. m_input # <<>> /\ StringsAreClosed(m_input) => Progress(m_input, m_position, m_tokens)
  BY <1>1, Zenon DEF LexerInv, ReadsOn
<1>3. NUL \notin C => m_position < Len(m_input)
  BY <1>1, AtFacts
<1> QED BY <1>1, <1>2, <1>3

\* A sign is a token of its own.
LEMMA AddSymbolStep == ASSUME LexerInv, addSymbol PROVE LexerInv'
<1> DEFINE c == Char(m_position)
<1>1. Looking(Symbols) /\ AddToken(SymbolType[c], <<>>, m_position)
  BY Zenon DEF addSymbol
<1>2. NUL \notin Symbols /\ c \in Symbols /\ c = At(m_input, m_position)
  BY <1>1, Classes DEF Looking, Char
<1>3. /\ scan = "scanning" /\ m_input \in Seq(Characters) /\ Len(m_input) \in Nat
      /\ m_position \in Nat /\ m_position < Len(m_input)
      /\ m_tokens \in Seq(TokenRecords)
      /\ m_input # <<>> /\ StringsAreClosed(m_input) =>
            Progress(m_input, m_position, m_tokens)
  BY <1>1, <1>2, Found
<1>4. SymbolType[c] \in TokenTypes /\ <<>> \in Seq(Characters \cup {NUL})
  <2>1. SymbolType[c] \in {SymbolType[d] : d \in Symbols}
    BY <1>2, Zenon
  <2> QED BY <2>1 DEF TokenTypes
<1>5. m_position =< Len(m_input) + 1 /\ LexerTypeOK
  BY <1>3 DEF LexerInv
<1>6. m_input # <<>> /\ StringsAreClosed(m_input) =>
         Progress(m_input, m_position + 1, Append(m_tokens, Token(SymbolType[c], <<>>)))
  BY <1>2, <1>3, ReadsSign
<1> HIDE DEF c
<1>7. LexerTypeOK'
  BY <1>1, <1>3, <1>4, <1>5, AddsToken
<1>8. ReadsOn'
  BY <1>1, <1>3, <1>6, AddsTheToken
<1> QED BY <1>7, <1>8 DEF LexerInv

\* A blank is no token.
LEMMA SkipBlankStep == ASSUME LexerInv, skipBlank PROVE LexerInv'
<1>1. /\ Looking(Blanks) /\ m_position' = m_position + 1
      /\ m_input' = m_input /\ m_tokens' = m_tokens /\ scan' = scan
  BY DEF skipBlank
<1>2. NUL \notin Blanks
  BY Classes
<1>3. /\ scan = "scanning" /\ m_input \in Seq(Characters) /\ Len(m_input) \in Nat
      /\ m_position \in Nat /\ m_position < Len(m_input)
      /\ At(m_input, m_position) \in Blanks
      /\ m_input # <<>> /\ StringsAreClosed(m_input) =>
            Progress(m_input, m_position, m_tokens)
  BY <1>1, <1>2, Found
<1>4. LexerTypeOK'
  <2>1. m_position + 1 \in 0 .. Len(m_input) + 2
    BY <1>3
  <2> QED BY <1>1, <2>1 DEF LexerInv, LexerTypeOK
<1>5. m_input # <<>> /\ StringsAreClosed(m_input) => Progress(m_input, m_position + 1, m_tokens)
  BY <1>3, ReadsBlank
<1>6. ReadsOn'
  BY <1>1, <1>3, <1>5, Zenon DEF ReadsOn
<1> QED BY <1>4, <1>6 DEF LexerInv

\* Where a word or a number of the characters C ends.
LEMMA FoundRun ==
    ASSUME LexerInv, NEW C, C = Letters \/ C = Digits, Looking(C),
           NEW last, last = RunEnd(m_position, C)
    PROVE  /\ last \in Nat /\ m_position < last + 1 /\ last < Len(m_input)
           /\ \A k \in m_position .. last + 1 - 1 : At(m_input, k) \in C
           /\ At(m_input, last + 1) \notin C
           /\ View(m_position, last)
              = [k \in 1 .. last + 1 - m_position |-> At(m_input, m_position + k - 1)]
           /\ View(m_position, last) \in Seq(Characters \cup {NUL})
<1>1. NUL \notin C
  BY Classes
<1>2. /\ scan = "scanning" /\ m_input \in Seq(Characters) /\ Len(m_input) \in Nat
      /\ m_position \in Nat /\ m_position < Len(m_input)
      /\ At(m_input, m_position) \in C
  BY <1>1, Found
<1>3. /\ last \in m_position .. Len(m_input) - 1
      /\ \A k \in m_position + 1 .. last : At(m_input, k) \in C
      /\ At(m_input, last + 1) \notin C
  BY <1>1, <1>2, RunEndIs DEF Char
<1>4. \A k \in m_position .. last + 1 - 1 : At(m_input, k) \in C
  <2>1. TAKE k \in m_position .. last + 1 - 1
  <2>2. k = m_position \/ k \in m_position + 1 .. last
    BY <1>2, <1>3
  <2> QED BY <1>2, <1>3, <2>2
<1>5. last \in Int /\ m_position =< last + 1 /\ last =< Len(m_input)
  BY <1>2, <1>3
<1>6. /\ View(m_position, last)
         = [k \in 1 .. last + 1 - m_position |-> At(m_input, m_position + k - 1)]
      /\ View(m_position, last) \in Seq(Characters \cup {NUL})
  BY <1>2, <1>5, ViewIs DEF Char
<1> QED BY <1>2, <1>3, <1>4, <1>6

\* A word is taken up to its last letter.
LEMMA AddIdentifierStep == ASSUME LexerInv, addIdentifier PROVE LexerInv'
<1> DEFINE last == RunEnd(m_position, Letters)
           word == View(m_position, last)
           type == IF word \in DOMAIN reservedKeywords
                   THEN reservedKeywords[word] ELSE "identifier"
<1>1. Looking(Letters) /\ AddToken(type, word, last)
  BY Zenon DEF addIdentifier
<1>2. NUL \notin Letters
  BY Classes
<1>3. /\ scan = "scanning" /\ m_input \in Seq(Characters) /\ Len(m_input) \in Nat
      /\ m_position \in Nat /\ m_tokens \in Seq(TokenRecords)
      /\ m_input # <<>> /\ StringsAreClosed(m_input) =>
            Progress(m_input, m_position, m_tokens)
  BY <1>1, <1>2, Found
<1>4. /\ last \in Nat /\ m_position < last + 1 /\ last < Len(m_input)
      /\ \A k \in m_position .. last + 1 - 1 : At(m_input, k) \in Letters
      /\ At(m_input, last + 1) \notin Letters
      /\ word = [k \in 1 .. last + 1 - m_position |-> At(m_input, m_position + k - 1)]
      /\ word \in Seq(Characters \cup {NUL})
  BY <1>1, FoundRun
<1>5. type \in TokenTypes
  <2>1. word \in DOMAIN reservedKeywords => type \in WordTypes
    BY Zenon DEF WordTypes
  <2>2. word \notin DOMAIN reservedKeywords => type = "identifier"
    BY Zenon
  <2> QED BY <2>1, <2>2, Zenon DEF TokenTypes, ValueTypes
<1>6. Token(type, word) = WordToken(Letters, word)
  <2>1. At(m_input, m_position) \in Letters
    BY <1>1 DEF Looking, Char
  <2>2. Letters # Digits
    BY <2>1, Classes
  <2> QED BY <2>2, Zenon DEF WordToken
<1> HIDE DEF last, word, type
<1>7. m_input # <<>> /\ StringsAreClosed(m_input) =>
         Progress(m_input, last + 1, Append(m_tokens, Token(type, word)))
  <2>1. PICK q \in Nat : q = last + 1
    BY <1>4
  <2>2. /\ m_position < q /\ q =< Len(m_input)
        /\ \A k \in m_position .. q - 1 : At(m_input, k) \in Letters
        /\ At(m_input, q) \notin Letters
        /\ word = [k \in 1 .. q - m_position |-> At(m_input, m_position + k - 1)]
    BY <1>3, <1>4, <2>1
  <2>3. ASSUME Progress(m_input, m_position, m_tokens)
        PROVE  Progress(m_input, q, Append(m_tokens, Token(type, word)))
    <3>1. Progress(m_input, q, Append(m_tokens, WordToken(Letters, word)))
      BY <1>3, <2>2, <2>3, ReadsWord
    <3> QED BY <1>6, <3>1, Zenon
  <2> QED BY <1>3, <2>1, <2>3
<1>8. last =< Len(m_input) + 1 /\ LexerTypeOK
  BY <1>3, <1>4 DEF LexerInv
<1>9. LexerTypeOK'
  BY <1>1, <1>4, <1>5, <1>8, AddsToken
<1>10. ReadsOn'
  BY <1>1, <1>3, <1>4, <1>7, AddsTheToken
<1> QED BY <1>9, <1>10 DEF LexerInv

\* No number has a fraction: the last character of the run is a digit, not a dot.
LEMMA AddNumberStep == ASSUME LexerInv, addNumber PROVE LexerInv'
<1> DEFINE last == RunEnd(m_position, Digits)
           word == View(m_position, last)
<1>1. Looking(Digits)
  BY Zenon DEF addNumber
<1>2. NUL \notin Digits
  BY Classes
<1>3. /\ scan = "scanning" /\ m_input \in Seq(Characters) /\ Len(m_input) \in Nat
      /\ m_position \in Nat /\ m_tokens \in Seq(TokenRecords)
      /\ m_input # <<>> /\ StringsAreClosed(m_input) =>
            Progress(m_input, m_position, m_tokens)
  BY <1>1, <1>2, Found
<1>4. /\ last \in Nat /\ m_position < last + 1 /\ last < Len(m_input)
      /\ \A k \in m_position .. last + 1 - 1 : At(m_input, k) \in Digits
      /\ At(m_input, last + 1) \notin Digits
      /\ word = [k \in 1 .. last + 1 - m_position |-> At(m_input, m_position + k - 1)]
      /\ word \in Seq(Characters \cup {NUL})
  BY <1>1, FoundRun
<1>5. AddToken("integer", word, last)
  <2>1. last \in m_position .. last + 1 - 1
    BY <1>3, <1>4
  <2>2. Char(last) \in Digits
    BY <1>4, <2>1 DEF Char
  <2>3. Char(last) # "."
    <3>1. "." \in Symbols
      BY DEF Symbols, SymbolType
    <3> HIDE DEF last
    <3> QED BY <2>2, <3>1, Classes
  <2> QED BY <2>3, Zenon DEF addNumber
<1>6. "integer" \in TokenTypes
  BY Zenon DEF TokenTypes, ValueTypes
<1>7. m_input # <<>> /\ StringsAreClosed(m_input) =>
         Progress(m_input, last + 1, Append(m_tokens, Token("integer", word)))
  <2> HIDE DEF last, word
  <2>1. last + 1 \in Nat /\ last + 1 =< Len(m_input)
    BY <1>3, <1>4
  <2>2. Token("integer", word) = WordToken(Digits, word)
    BY Zenon DEF WordToken
  <2> QED BY <1>3, <1>4, <2>1, <2>2, ReadsWord
<1> HIDE DEF last, word
<1>8. last =< Len(m_input) + 1 /\ LexerTypeOK
  BY <1>3, <1>4 DEF LexerInv
<1>9. LexerTypeOK'
  BY <1>4, <1>5, <1>6, <1>8, AddsToken
<1>10. ReadsOn'
  BY <1>3, <1>4, <1>5, <1>7, AddsTheToken
<1> QED BY <1>9, <1>10 DEF LexerInv

\* Without a second quote the string ends with the NUL of the buffer.
LEMMA ParseStringStep == ASSUME LexerInv, parseString PROVE LexerInv'
<1> DEFINE last == StringEnd(m_position + 1)
           word == View(m_position + 1, last)
<1>1. Looking({Quote}) /\ AddToken("string", word, last + 1)
  BY Zenon DEF parseString
<1>2. NUL \notin {Quote}
  BY Classes
<1>3. /\ scan = "scanning" /\ m_input \in Seq(Characters) /\ Len(m_input) \in Nat
      /\ m_position \in Nat /\ m_position < Len(m_input) /\ m_tokens \in Seq(TokenRecords)
      /\ At(m_input, m_position) = Quote
      /\ m_input # <<>> /\ StringsAreClosed(m_input) =>
            Progress(m_input, m_position, m_tokens)
  <2>1. At(m_input, m_position) \in {Quote}
    BY <1>1, Found
  <2> QED BY <1>1, <1>2, <2>1, Found
<1>4. m_position + 1 \in Nat /\ m_position + 1 =< Len(m_input)
  BY <1>3
<1>5. /\ last \in m_position + 1 .. Len(m_input)
      /\ \A j \in m_position + 1 + 1 .. last : Char(j) # Quote
      /\ (\E j \in m_position + 1 + 1 .. Len(m_input) : Char(j) = Quote)
         => Char(last + 1) = Quote /\ last + 1 =< Len(m_input)
  BY <1>3, <1>4, StringEndIs
<1>6. /\ word = [k \in 1 .. last + 1 - (m_position + 1) |-> Char(m_position + 1 + k - 1)]
      /\ word \in Seq(Characters \cup {NUL})
  <2> HIDE DEF last
  <2>1. last \in Int /\ m_position + 1 =< last + 1 /\ last =< Len(m_input)
    BY <1>3, <1>5
  <2> QED BY <1>3, <1>4, <2>1, ViewIs
<1> HIDE DEF last, word
<1>7. ASSUME m_input # <<>>, StringsAreClosed(m_input)
      PROVE  Progress(m_input, last + 1 + 1, Append(m_tokens, Token("string", word)))
  <2>1. Progress(m_input, m_position, m_tokens)
    BY <1>3, <1>7
  <2>2. /\ At(m_input, m_position + 1) # Quote
        /\ \E j \in m_position + 2 .. Len(m_input) - 1 : At(m_input, j) = Quote
    BY <1>3, <1>7, <2>1, StringCloses DEF Progress
  <2>3. \E j \in m_position + 1 + 1 .. Len(m_input) : Char(j) = Quote
    BY <1>3, <2>2 DEF Char
  <2>4. At(m_input, last + 1) = Quote
    BY <1>5, <2>3 DEF Char
  <2>5. last + 1 \in Nat /\ m_position + 1 < last + 1 /\ last + 1 < Len(m_input)
    <3>1. last + 1 \in Nat /\ m_position + 1 < last + 1
      BY <1>3, <1>5
    <3>2. last + 1 < Len(m_input)
      BY <1>3, <2>4, <3>1, AtFacts, Classes
    <3> QED BY <3>1, <3>2
  <2>6. \A k \in m_position + 1 .. last + 1 - 1 : At(m_input, k) # Quote
    <3>1. TAKE k \in m_position + 1 .. last + 1 - 1
    <3>2. k = m_position + 1 \/ k \in m_position + 1 + 1 .. last
      BY <1>3, <1>5
    <3> QED BY <1>5, <2>2, <3>2 DEF Char
  <2>7. word = [k \in 1 .. last + 1 - (m_position + 1) |-> At(m_input, m_position + 1 + k - 1)]
    BY <1>6 DEF Char
  <2>8. PICK q \in Nat : q = last + 1
    BY <2>5
  <2>9. /\ m_position + 1 < q /\ q < Len(m_input) /\ At(m_input, q) = Quote
        /\ \A k \in m_position + 1 .. q - 1 : At(m_input, k) # Quote
        /\ word = [k \in 1 .. q - (m_position + 1) |-> At(m_input, m_position + 1 + k - 1)]
    <3>1. m_position + 1 < q /\ q < Len(m_input) /\ At(m_input, q) = Quote
      BY <2>4, <2>5, <2>8
    <3>2. \A k \in m_position + 1 .. q - 1 : At(m_input, k) # Quote
      BY <1>5, <2>6, <2>8
    <3>3. q - (m_position + 1) = last + 1 - (m_position + 1)
      BY <1>3, <1>5, <2>8
    <3>4. word = [k \in 1 .. q - (m_position + 1) |-> At(m_input, m_position + 1 + k - 1)]
      BY <2>7, <3>3, Zenon
    <3> QED BY <3>1, <3>2, <3>4
  <2>10. Progress(m_input, q + 1, Append(m_tokens, Token("string", word)))
    BY <1>3, <2>1, <2>9, ReadsString
  <2> QED BY <2>8, <2>10
<1>8. last + 1 \in Nat /\ last + 1 =< Len(m_input) + 1 /\ LexerTypeOK
  BY <1>3, <1>5 DEF LexerInv
<1>9. "string" \in TokenTypes
  BY Zenon DEF TokenTypes, ValueTypes
<1>10. LexerTypeOK'
  BY <1>1, <1>6, <1>8, <1>9, AddsToken
<1>11. ReadsOn'
  BY <1>1, <1>3, <1>7, <1>8, AddsTheToken
<1> QED BY <1>10, <1>11 DEF LexerInv

\* The lexer throws where it stands, which is outside the strings.
LEMMA UnknownCharacterStep == ASSUME LexerInv, unknownCharacter PROVE LexerInv'
<1>1. /\ Looking(Others) /\ scan' = "thrown"
      /\ m_input' = m_input /\ m_position' = m_position /\ m_tokens' = m_tokens
  BY DEF unknownCharacter
<1>2. NUL \notin Others
  BY Classes
<1>3. /\ Len(m_input) \in Nat /\ m_position \in Nat /\ m_position < Len(m_input)
      /\ At(m_input, m_position) \in Others
      /\ m_input # <<>> /\ StringsAreClosed(m_input) =>
            Progress(m_input, m_position, m_tokens)
  BY <1>1, <1>2, Found
<1>4. LexerTypeOK'
  BY <1>1 DEF LexerInv, LexerTypeOK
<1>5. m_input # <<>> /\ StringsAreClosed(m_input) => m_position \in Strays(m_input)
  <2>1. m_position \in 0 .. Len(m_input) - 1
    BY <1>3
  <2> QED BY <1>3, <2>1 DEF Progress, Strays
<1>6. ReadsOn'
  BY <1>1, <1>5 DEF ReadsOn
<1> QED BY <1>4, <1>6 DEF LexerInv

\* At the NUL all the tokens have been made.
LEMMA EndOfTextStep == ASSUME LexerInv, endOfText PROVE LexerInv'
<1>1. /\ Looking({NUL}) /\ scan' = "done"
      /\ m_input' = m_input /\ m_position' = m_position /\ m_tokens' = m_tokens
  BY DEF endOfText
<1>2. /\ m_input \in Seq(Characters) /\ Len(m_input) \in Nat /\ m_position \in Nat
      /\ At(m_input, m_position) = NUL /\ m_tokens \in Seq(TokenRecords)
      /\ m_input # <<>> /\ StringsAreClosed(m_input) =>
            Progress(m_input, m_position, m_tokens)
  <2>1. At(m_input, m_position) \in {NUL}
    BY <1>1, Found
  <2> QED BY <1>1, <2>1, Found
<1>3. LexerTypeOK'
  BY <1>1 DEF LexerInv, LexerTypeOK
<1>4. m_input # <<>> /\ StringsAreClosed(m_input) =>
         m_tokens = ReferenceTokens(m_input) /\ Strays(m_input) = {}
  <2>1. ASSUME m_input # <<>>, StringsAreClosed(m_input)
        PROVE  m_tokens = ReferenceTokens(m_input) /\ Strays(m_input) = {}
    <3>1. m_position >= Len(m_input)
      <4>1. m_position < Len(m_input) => At(m_input, m_position) \in Characters
        BY <1>2, AtFacts
      <4> QED BY <1>2, <4>1, Classes
    <3>2. Progress(m_input, m_position, m_tokens) /\ m_position = Len(m_input)
      BY <1>2, <2>1, <3>1 DEF Progress
    <3> QED BY <1>2, <3>2, ReadAll
  <2> QED BY <2>1
<1>5. ReadsOn'
  BY <1>1, <1>4 DEF ReadsOn
<1> QED BY <1>3, <1>5 DEF LexerInv

\* A lexer that is built stands outside the strings, and has made no token.
LEMMA LexerStarts ==
    ASSUME NEW text \in Seq(Characters), LexerInit(text)
    PROVE  LexerInv
<1>1. /\ m_input = text /\ m_position = 0 /\ m_tokens = <<>> /\ Len(text) \in Nat
      /\ scan = IF text = <<>> THEN "thrown" ELSE "scanning"
  BY DEF LexerInit
<1>2. LexerTypeOK
  BY <1>1 DEF LexerTypeOK
<1>3. OutsideStrings(text, 0)
  <2>1. {j \in 0 .. 0 - 1 : At(text, j) = Quote} = {}
    OBVIOUS
  <2>2. Cardinality({}) % 2 = 0
    BY FS_EmptySet
  <2> QED BY <2>1, <2>2, Zenon DEF OutsideStrings
<1>4. Rank(text, 0) = 0
  <2>1. {j \in TokenStarts(text) : j < 0} = {}
    BY DEF TokenStarts
  <2> QED BY <2>1, FS_EmptySet, Zenon DEF Rank
<1>5. Progress(text, 0, <<>>)
  BY <1>1, <1>3, <1>4 DEF Progress, Strays
<1>6. ReadsOn
  BY <1>1, <1>5 DEF ReadsOn
<1> QED BY <1>2, <1>6 DEF LexerInv

\* Every step keeps the invariant.
LEMMA LexerStep == LexerInv /\ [LexerNext]_lexerVars => LexerInv'
<1>1. ASSUME LexerInv, UNCHANGED lexerVars PROVE LexerInv'
  <2>1. m_input' = m_input /\ m_position' = m_position /\ m_tokens' = m_tokens /\ scan' = scan
    BY <1>1 DEF lexerVars
  <2>2. LexerTypeOK'
    BY <1>1, <2>1 DEF LexerInv, LexerTypeOK
  <2>3. ReadsOn'
    BY <1>1, <2>1 DEF LexerInv, ReadsOn
  <2> QED BY <2>2, <2>3 DEF LexerInv
<1>2. ASSUME LexerInv, LexerNext PROVE LexerInv'
  BY <1>2, AddSymbolStep, SkipBlankStep, AddIdentifierStep, AddNumberStep, ParseStringStep,
     UnknownCharacterStep, EndOfTextStep DEF LexerNext
<1> QED BY <1>1, <1>2

\* The lexer keeps the invariant from its start on.
LEMMA LexerInvariant == LexerSpec => []LexerInv
<1>1. (\E text \in Seq(Characters) : LexerInit(text)) => LexerInv
  BY LexerStarts
<1> QED BY <1>1, LexerStep, PTL DEF LexerSpec

\* Whatever the text, no token shows what lies behind the buffer, and the lexer
\* stays within two of its end, also where a string has no second quote
\* (lexer.cpp:126-149).
THEOREM LexerTypeCorrect == LexerSpec => []LexerTypeOK
<1>1. LexerInv => LexerTypeOK
  BY DEF LexerInv
<1> QED BY <1>1, LexerInvariant, PTL

\* A text whose strings are closed is cut into its words, numbers, strings and
\* signs, each once and in order, and refused only for a character outside the
\* strings that starts none of them (lexer.cpp:56-181).
THEOREM LexesEveryText == LexerSpec => []LexesLikeReference
<1>1. LexerInv => LexesLikeReference
  BY DEF LexerInv, ReadsOn, LexesLikeReference
<1> QED BY <1>1, LexerInvariant, PTL
-----------------------------------------------------------------------------
(* The storage engine: sequences, and where something comes first in one.  *)

\* The range, the length and the domain of a sequence.
LEMMA SequenceFacts ==
    ASSUME NEW s, IsSequence(s)
    PROVE  Len(s) \in Nat /\ DOMAIN s = 1 .. Len(s) /\ s \in Seq(Range(s))
<1>1. s \in Seq(Range(s))
  BY Zenon DEF IsSequence
<1> HIDE DEF Range
<1> QED BY <1>1

\* A function on 1 .. n is a sequence of n elements.
LEMMA IsSequenceIf ==
    ASSUME NEW n \in Nat, NEW s, DOMAIN s = 1 .. n, s = [i \in 1 .. n |-> s[i]]
    PROVE  IsSequence(s) /\ Len(s) = n
<1> DEFINE R == Range(s)
<1>1. \A i \in 1 .. n : s[i] \in R
  BY DEF Range
<1>2. s \in [1 .. n -> R]
  <2> HIDE DEF R
  <2> QED BY <1>1
<1>3. s \in Seq(R) /\ Len(s) = n
  <2> HIDE DEF R
  <2> QED BY <1>2
<1> QED BY <1>3 DEF IsSequence

\* So is a member of Seq.
LEMMA SequenceIs == ASSUME NEW V, NEW s \in Seq(V) PROVE IsSequence(s)
<1> DEFINE n == Len(s)
<1>1. n \in Nat /\ DOMAIN s = 1 .. n /\ s = [i \in 1 .. n |-> s[i]]
  OBVIOUS
<1> HIDE DEF n
<1> QED BY <1>1, IsSequenceIf

\* What is in a sequence comes first somewhere in it.
LEMMA FirstIs ==
    ASSUME NEW s, IsSequence(s), NEW x, x \in Range(s)
    PROVE  FirstIndex(s, x) \in DOMAIN s /\ s[FirstIndex(s, x)] = x
<1> DEFINE S == {i \in DOMAIN s : s[i] = x}
<1>1. DOMAIN s = 1 .. Len(s) /\ Len(s) \in Nat
  BY SequenceFacts
<1>2. S \subseteq Nat /\ S # {}
  BY <1>1 DEF Range
<1>3. PICK m \in S : \A n \in S : m =< n
  <2> HIDE DEF S
  <2> QED BY <1>2, LeastNumber, Zenon
<1>4. m \in DOMAIN s /\ s[m] = x /\ m \in Nat
  BY <1>2
<1>5. ASSUME NEW j \in 1 .. m - 1 PROVE s[j] # x
  <2>1. j \in DOMAIN s /\ ~ (m =< j)
    BY <1>1, <1>4
  <2> QED BY <1>3, <2>1
<1> QED BY <1>4, <1>5, Zenon DEF FirstIndex

\* In a sequence without repetitions that is the one place where it is.
LEMMA OnlyIs ==
    ASSUME NEW s, IsSequence(s), IsInjective(s), NEW i \in DOMAIN s
    PROVE  FirstIndex(s, s[i]) = i
<1>1. s[i] \in Range(s)
  BY DEF Range
<1>2. FirstIndex(s, s[i]) \in DOMAIN s /\ s[FirstIndex(s, s[i])] = s[i]
  BY <1>1, FirstIs
<1> QED BY <1>2, Zenon DEF IsInjective

\* The names and the types of columns are as many as the columns.
LEMMA ColumnSequences ==
    ASSUME NEW columns, IsSequence(columns)
    PROVE  /\ IsSequence(Names(columns)) /\ IsSequence(Types(columns))
           /\ DOMAIN Names(columns) = DOMAIN columns /\ DOMAIN Types(columns) = DOMAIN columns
           /\ Len(Names(columns)) = Len(columns)
           /\ \A i \in DOMAIN columns : /\ Names(columns)[i] = columns[i].name
                                        /\ Types(columns)[i] = columns[i].dt
<1> DEFINE n == Len(columns)
<1>1. n \in Nat /\ DOMAIN columns = 1 .. n
  BY SequenceFacts
<1>2. /\ DOMAIN Names(columns) = 1 .. n /\ DOMAIN Types(columns) = 1 .. n
      /\ Names(columns) = [i \in 1 .. n |-> Names(columns)[i]]
      /\ Types(columns) = [i \in 1 .. n |-> Types(columns)[i]]
      /\ \A i \in 1 .. n : /\ Names(columns)[i] = columns[i].name
                           /\ Types(columns)[i] = columns[i].dt
  BY <1>1 DEF Names, Types
<1>3. /\ IsSequence(Names(columns)) /\ IsSequence(Types(columns))
      /\ Len(Names(columns)) = n
  <2> HIDE DEF n
  <2> QED BY <1>1, <1>2, IsSequenceIf
<1> QED BY <1>1, <1>2, <1>3

\* The first column of a name is a column of that name.
LEMMA FirstColumn ==
    ASSUME NEW columns, IsSequence(columns), NEW name \in Range(Names(columns))
    PROVE  /\ FirstIndex(Names(columns), name) \in DOMAIN columns
           /\ FirstIndex(Names(columns), name) \in 1 .. Len(columns)
           /\ columns[FirstIndex(Names(columns), name)].name = name
<1>1. /\ FirstIndex(Names(columns), name) \in DOMAIN Names(columns)
      /\ Names(columns)[FirstIndex(Names(columns), name)] = name
  BY ColumnSequences, FirstIs
<1> QED BY <1>1, ColumnSequences, SequenceFacts
-----------------------------------------------------------------------------
(* Counting bytes.                                                         *)

\* A column takes up some bytes.
LEMMA SizePositive == ASSUME NEW dt PROVE SizeOf(dt) \in Nat /\ SizeOf(dt) > 0
BY DEF SizeOf

\* The recursion of SizeOfFirst has a solution: four bytes each, and six more for
\* every string.
LEMMA SizeStep ==
    ASSUME NEW dts
    PROVE  /\ SizeOfFirst(0, dts) = 0
           /\ \A n \in Nat : SizeOfFirst(n + 1, dts) = SizeOfFirst(n, dts) + SizeOf(dts[n + 1])
<1> DEFINE Wide(k) == {i \in 1 .. k : dts[i] = "varchar"}
           G(f) == [k \in Nat |-> IF k = 0 THEN 0 ELSE f[k - 1] + SizeOf(dts[k])]
           W == [k \in Nat |-> 4 * k + 6 * Cardinality(Wide(k))]
           L == CHOOSE f : f = G(f)
<1>1. ASSUME NEW k \in Nat PROVE IsFiniteSet(Wide(k)) /\ Cardinality(Wide(k)) \in Nat
  <2>1. IsFiniteSet(1 .. k) /\ Wide(k) \subseteq 1 .. k
    BY FS_Interval
  <2>2. IsFiniteSet(Wide(k))
    BY <2>1, FS_Subset
  <2> QED BY <2>2, FS_CardinalityType
<1>2. Cardinality(Wide(0)) = 0
  <2>1. Wide(0) = {}
    OBVIOUS
  <2> QED BY <2>1, FS_EmptySet
<1>3. ASSUME NEW k \in Nat \ {0}
      PROVE  W[k] = W[k - 1] + SizeOf(dts[k])
  <2>1. k - 1 \in Nat /\ IsFiniteSet(Wide(k - 1)) /\ Cardinality(Wide(k - 1)) \in Nat
    BY <1>1
  <2>2. CASE dts[k] = "varchar"
    <3>1. Wide(k) = Wide(k - 1) \cup {k} /\ k \notin Wide(k - 1)
      BY <2>2
    <3>2. Cardinality(Wide(k)) = Cardinality(Wide(k - 1)) + 1
      <4> HIDE DEF Wide
      <4> QED BY <2>1, <3>1, FS_AddElement
    <3> HIDE DEF Wide
    <3> QED BY <2>1, <2>2, <3>2 DEF SizeOf
  <2>3. CASE dts[k] # "varchar"
    <3>1. Wide(k) = Wide(k - 1)
      BY <2>3
    <3> HIDE DEF Wide
    <3> QED BY <2>1, <2>3, <3>1 DEF SizeOf
  <2> QED BY <2>2, <2>3
<1>4. W[0] = 0
  <2> HIDE DEF Wide
  <2> QED BY <1>2
<1>5. W = G(W)
  <2>1. W = [k \in Nat |-> W[k]]
    OBVIOUS
  <2> HIDE DEF W
  <2> QED BY <1>3, <1>4, <2>1
<1>6. L = G(L)
  <2> HIDE DEF G, W
  <2> QED BY <1>5
<1>7. \A n \in Nat : SizeOfFirst(n, dts) = L[n]
  BY DEF SizeOfFirst
<1>8. \A k \in Nat : L[k] = IF k = 0 THEN 0 ELSE L[k - 1] + SizeOf(dts[k])
  <2> HIDE DEF L
  <2> QED BY <1>6
<1> HIDE DEF L
<1> QED BY <1>7, <1>8

\* Bytes are counted in natural numbers.
LEMMA SizeIsNat == ASSUME NEW dts, NEW n \in Nat PROVE SizeOfFirst(n, dts) \in Nat
<1> DEFINE T == {k \in Nat : SizeOfFirst(k, dts) \in Nat}
<1>1. 0 \in T
  BY SizeStep
<1>2. \A k \in Nat : k \in T => k + 1 \in T
  <2>1. \A k \in Nat : SizeOf(dts[k + 1]) \in Nat
    BY SizePositive
  <2> QED BY <2>1, SizeStep
<1>3. \A k \in Nat : k \in T
  <2> HIDE DEF T
  <2> QED BY <1>1, <1>2, Induction
<1> QED BY <1>3

\* Behind the first a, columns or values of the same sizes take the same bytes.
LEMMA SizesAlike ==
    ASSUME NEW f, NEW g, NEW a \in Nat, NEW n \in Nat,
           \A k \in 1 .. n : SizeOf(f[a + k]) = SizeOf(g[k])
    PROVE  SizeOfFirst(a + n, f) = SizeOfFirst(a, f) + SizeOfFirst(n, g)
<1> DEFINE T == {m \in Nat : m =< n =>
                    SizeOfFirst(a + m, f) = SizeOfFirst(a, f) + SizeOfFirst(m, g)}
<1>1. 0 \in T
  BY SizeStep, SizeIsNat
<1>2. ASSUME NEW m \in Nat, m \in T PROVE m + 1 \in T
  <2>1. SUFFICES ASSUME m + 1 =< n
                 PROVE  SizeOfFirst(a + (m + 1), f) = SizeOfFirst(a, f) + SizeOfFirst(m + 1, g)
    OBVIOUS
  <2>2. SizeOfFirst(a + m, f) = SizeOfFirst(a, f) + SizeOfFirst(m, g)
    BY <1>2, <2>1
  <2>3. SizeOfFirst(m + 1, g) = SizeOfFirst(m, g) + SizeOf(g[m + 1])
    BY SizeStep
  <2>4. a + m \in Nat /\ a + (m + 1) = a + m + 1
    OBVIOUS
  <2>5. SizeOfFirst(a + m + 1, f) = SizeOfFirst(a + m, f) + SizeOf(f[a + m + 1])
    BY <2>4, SizeStep
  <2>6. SizeOf(f[a + m + 1]) = SizeOf(g[m + 1])
    <3>1. m + 1 \in 1 .. n
      BY <2>1
    <3> QED BY <2>4, <3>1
  <2>7. /\ SizeOfFirst(a, f) \in Nat /\ SizeOfFirst(m, g) \in Nat
        /\ SizeOf(g[m + 1]) \in Nat
    BY SizeIsNat, SizePositive
  <2> QED BY <2>2, <2>3, <2>4, <2>5, <2>6, <2>7
<1>3. \A m \in Nat : m \in T
  <2> HIDE DEF T
  <2> QED BY <1>1, <1>2, Induction
<1> QED BY <1>3

\* More of them take more bytes.
LEMMA SizeGrows ==
    ASSUME NEW dts, NEW m \in Nat, NEW n \in Nat, m < n
    PROVE  SizeOfFirst(m, dts) + SizeOf(dts[m + 1]) =< SizeOfFirst(n, dts)
<1> DEFINE T == {d \in Nat : SizeOfFirst(m + 1, dts) =< SizeOfFirst(m + 1 + d, dts)}
<1>1. m + 1 \in Nat
  OBVIOUS
<1>2. 0 \in T
  BY <1>1, SizeIsNat
<1>3. ASSUME NEW d \in Nat, d \in T PROVE d + 1 \in T
  <2>1. m + 1 + d \in Nat /\ m + 1 + (d + 1) = m + 1 + d + 1
    OBVIOUS
  <2>2. SizeOfFirst(m + 1 + d + 1, dts) = SizeOfFirst(m + 1 + d, dts) + SizeOf(dts[m + 1 + d + 1])
    BY <2>1, SizeStep
  <2>3. /\ SizeOfFirst(m + 1, dts) \in Nat /\ SizeOfFirst(m + 1 + d, dts) \in Nat
        /\ SizeOf(dts[m + 1 + d + 1]) \in Nat
    BY <1>1, <2>1, SizeIsNat, SizePositive
  <2> QED BY <1>3, <2>1, <2>2, <2>3
<1>4. \A d \in Nat : d \in T
  <2> HIDE DEF T
  <2> QED BY <1>2, <1>3, Induction
<1>5. n - (m + 1) \in Nat /\ m + 1 + (n - (m + 1)) = n
  OBVIOUS
<1>6. SizeOfFirst(m + 1, dts) =< SizeOfFirst(n, dts)
  BY <1>4, <1>5
<1> QED BY <1>6, SizeStep

\* No two values begin at the same byte.
LEMMA BeginsOnce ==
    ASSUME NEW dts, NEW m \in Nat, NEW n \in Nat, SizeOfFirst(m, dts) = SizeOfFirst(n, dts)
    PROVE  m = n
<1>1. ASSUME NEW i \in Nat, NEW j \in Nat, i < j PROVE SizeOfFirst(i, dts) < SizeOfFirst(j, dts)
  <2>1. SizeOfFirst(i, dts) + SizeOf(dts[i + 1]) =< SizeOfFirst(j, dts)
    BY <1>1, SizeGrows
  <2> QED BY <2>1, SizeIsNat, SizePositive
<1>2. SizeOfFirst(m, dts) \in Nat /\ SizeOfFirst(n, dts) \in Nat
  BY SizeIsNat
<1>3. ~ (m < n) /\ ~ (n < m)
  BY <1>1, <1>2
<1> QED BY <1>3

\* Rows of the same columns, one behind the other.
LEMMA SizeOfRows ==
    ASSUME NEW f, NEW g, NEW C \in Nat, NEW R \in Nat,
           \A r \in 0 .. R - 1 : \A k \in 1 .. C : SizeOf(f[r * C + k]) = SizeOf(g[k])
    PROVE  /\ \A r \in 0 .. R : SizeOfFirst(r * C, f) = r * SizeOfFirst(C, g)
           /\ \A r \in 0 .. R - 1 : \A k \in 0 .. C :
                 SizeOfFirst(r * C + k, f) = r * SizeOfFirst(C, g) + SizeOfFirst(k, g)
<1> DEFINE S == SizeOfFirst(C, g)
           T == {r \in Nat : r =< R => SizeOfFirst(r * C, f) = r * S}
<1>1. S \in Nat
  BY SizeIsNat
<1>2. ASSUME NEW r \in 0 .. R - 1, NEW k \in 0 .. C
      PROVE  SizeOfFirst(r * C + k, f) = SizeOfFirst(r * C, f) + SizeOfFirst(k, g)
  <2>1. r * C \in Nat /\ k \in Nat
    OBVIOUS
  <2>2. \A j \in 1 .. k : SizeOf(f[r * C + j]) = SizeOf(g[j])
    <3>1. \A j \in 1 .. C : SizeOf(f[r * C + j]) = SizeOf(g[j])
      BY Zenon
    <3>2. \A j \in 1 .. k : j \in 1 .. C
      OBVIOUS
    <3> QED BY <3>1, <3>2, Zenon
  <2> QED BY <2>1, <2>2, SizesAlike
<1>3. 0 \in T
  <2>1. 0 * C = 0 /\ 0 * S = 0
    BY <1>1
  <2> QED BY <2>1, SizeStep
<1>4. ASSUME NEW r \in Nat, r \in T PROVE r + 1 \in T
  <2>1. SUFFICES ASSUME r + 1 =< R PROVE SizeOfFirst((r + 1) * C, f) = (r + 1) * S
    OBVIOUS
  <2>2. r \in 0 .. R - 1 /\ C \in 0 .. C
    BY <2>1
  <2>3. SizeOfFirst(r * C + C, f) = SizeOfFirst(r * C, f) + S
    BY <1>2, <2>2
  <2>4. SizeOfFirst(r * C, f) = r * S
    BY <1>4, <2>1
  <2>5. (r + 1) * C = r * C + C /\ (r + 1) * S = r * S + S
    BY <1>1
  <2> QED BY <2>3, <2>4, <2>5
<1>5. \A r \in Nat : r \in T
  <2> HIDE DEF T
  <2> QED BY <1>3, <1>4, Induction
<1>6. \A r \in 0 .. R : SizeOfFirst(r * C, f) = r * S
  BY <1>5
<1>7. ASSUME NEW r \in 0 .. R - 1, NEW k \in 0 .. C
      PROVE  SizeOfFirst(r * C + k, f) = r * S + SizeOfFirst(k, g)
  <2>1. r \in 0 .. R
    OBVIOUS
  <2> QED BY <1>2, <1>6, <2>1
<1> QED BY <1>6, <1>7
-----------------------------------------------------------------------------
\* A value holds what was asked for if it is that, or the integer 0 that a real
\* column gets when it is not given: its bytes are those of 0.0.
Holds(v, dt, w) ==
    \/ TypeOf(v) = dt /\ w = v
    \/ dt = "real" /\ v = [int |-> 0] /\ w = [float |-> <<"0">>]

Shapes(t, a) ==
    /\ t = [columns |-> t.columns, data |-> t.data, rowSize |-> t.rowSize]
    /\ a = [rows |-> a.rows, fits |-> a.fits]
    /\ IsSequence(t.columns) /\ IsSequence(a.rows)
    /\ t.data \in Seq(CellValues)
    /\ a.fits \in BOOLEAN

Counts(t, a) ==
    /\ \A i \in DOMAIN t.columns : t.columns[i].dt \in DataTypes
    /\ t.rowSize = SizeOfFirst(Len(t.columns), Types(t.columns))
    /\ Len(t.data) = Len(t.columns) * Len(a.rows)

\* The rows lie one behind the other, the values of each in the columns' order.
RowsHold(t, a) ==
    /\ IsInjective(Names(t.columns))
    /\ \A r \in 0 .. Len(a.rows) - 1 : \A k \in 1 .. Len(t.columns) :
          Holds(t.data[r * Len(t.columns) + k], t.columns[k].dt,
                a.rows[r + 1][t.columns[k].name])

TableInv(t, a) == Shapes(t, a) /\ Counts(t, a) /\ (a.fits => RowsHold(t, a))

EngineInv ==
    /\ DOMAIN tables = DOMAIN asked
    /\ captured \in Captures
    /\ result = [statement |-> result.statement, outcome |-> result.outcome,
                 rows |-> result.rows]
    /\ result.outcome \in {"none", "ok", "throw", "undefined"}
    /\ tables = [x \in DOMAIN tables |-> tables[x]]
    /\ asked = [x \in DOMAIN asked |-> asked[x]]
    /\ \A name \in DOMAIN tables : TableInv(tables[name], asked[name])
-----------------------------------------------------------------------------
(* Reading a table whose rows fit.                                         *)

\* Only what cannot be read is a failure.
LEMMA ValueFacts ==
    /\ \A v \in CellValues : ~IsFailure(v)
    /\ CellValues \subseteq ReadValues
    /\ \A w \in ReadValues : IsFailure(w) => w = Undefined
    /\ IsFailure(Undefined) /\ IsFailure(Thrown) /\ ~IsFailure([float |-> <<"0">>])
<1>1. ~IsFailure([int |-> 0]) /\ ~IsFailure([float |-> <<"0">>])
  BY DEF IsFailure, Is
<1>2. \A v \in CellValues : ~IsFailure(v)
  <2>1. \A e \in Inserts : \A v \in Range(e.values) : ~IsFailure(v)
    BY StorageEngineAssumption, Zenon
  <2>2. ASSUME NEW v \in CellValues
        PROVE  v = [int |-> 0] \/ \E e \in Inserts : v \in Range(e.values)
    BY Zenon DEF CellValues
  <2> QED BY <1>1, <2>1, <2>2
<1>3. \A x : ~IsFailure([unknown |-> x])
  BY DEF IsFailure, Is
<1>4. IsFailure(Undefined) /\ IsFailure(Thrown)
  BY DEF IsFailure, Is, Undefined, Thrown
<1> QED BY <1>1, <1>2, <1>3, <1>4 DEF ReadValues

\* Whatever bytes are read, they make one of ReadValues.
LEMMA ReadAtType ==
    ASSUME NEW data, data \in Seq(CellValues), NEW position, NEW dt
    PROVE  ReadAt(data, position, dt) \in ReadValues
<1> DEFINE here == {i \in DOMAIN data : BytesOf(data, i - 1) = position}
<1>1. ASSUME \E i \in here : TRUE
      PROVE  data[CHOOSE i \in here : TRUE] \in CellValues
  <2>1. (CHOOSE i \in here : TRUE) \in DOMAIN data
    <3>1. \A i \in here : i \in DOMAIN data
      OBVIOUS
    <3> HIDE DEF here
    <3> QED BY <1>1, <3>1
  <2> HIDE DEF here
  <2> QED BY <2>1
<1>2. \A v : Reinterpreted(v, dt) \in ReadValues
  BY DEF Reinterpreted, ReadValues
<1>3. /\ CellValues \subseteq ReadValues /\ Undefined \in ReadValues
      /\ [unknown |-> "int"] \in ReadValues /\ [unknown |-> "float"] \in ReadValues
  BY DEF ReadValues
<1>4. ReadAt(data, position, dt) =
        IF position + SizeOf(dt) > BytesOf(data, Len(data)) THEN Undefined
        ELSE IF \E i \in here : TypeOf(data[i]) = dt THEN data[CHOOSE i \in here : TRUE]
        ELSE IF \E i \in here : TypeOf(data[i]) # "varchar"
             THEN Reinterpreted(data[CHOOSE i \in here : TRUE], dt)
        ELSE IF dt = "varchar" THEN Undefined
        ELSE [unknown |-> IF dt = "integer" THEN "int" ELSE "float"]
  BY DEF ReadAt
<1> HIDE DEF here
<1> QED BY <1>1, <1>2, <1>3, <1>4

\* A value takes as many bytes as what it holds would.
LEMMA HeldSize ==
    ASSUME NEW v, NEW dt, NEW w, Holds(v, dt, w)
    PROVE  SizeOf(TypeOf(v)) = SizeOf(dt)
<1>1. TypeOf([int |-> 0]) = "integer"
  BY DEF TypeOf, Is
<1> QED BY <1>1 DEF Holds, SizeOf

\* What the proofs use of a table.
LEMMA TableFacts ==
    ASSUME NEW t, NEW a, TableInv(t, a)
    PROVE  /\ IsSequence(t.columns) /\ IsSequence(a.rows)
           /\ Len(t.columns) \in Nat /\ DOMAIN t.columns = 1 .. Len(t.columns)
           /\ Len(a.rows) \in Nat /\ DOMAIN a.rows = 1 .. Len(a.rows)
           /\ t.data \in Seq(CellValues)
           /\ Len(t.data) \in Nat /\ DOMAIN t.data = 1 .. Len(t.data)
           /\ Len(t.data) = Len(t.columns) * Len(a.rows)
           /\ t.rowSize = SizeOfFirst(Len(t.columns), Types(t.columns))
           /\ t.rowSize \in Nat
<1>1. /\ IsSequence(t.columns) /\ IsSequence(a.rows) /\ t.data \in Seq(CellValues)
      /\ Len(t.data) = Len(t.columns) * Len(a.rows)
      /\ t.rowSize = SizeOfFirst(Len(t.columns), Types(t.columns))
  BY Zenon DEF TableInv, Shapes, Counts
<1>2. /\ Len(t.columns) \in Nat /\ DOMAIN t.columns = 1 .. Len(t.columns)
      /\ Len(a.rows) \in Nat /\ DOMAIN a.rows = 1 .. Len(a.rows)
  BY <1>1, SequenceFacts
<1>3. Len(t.data) \in Nat /\ DOMAIN t.data = 1 .. Len(t.data)
  <2>1. t.data \in Seq(CellValues)
    BY <1>1
  <2> QED BY <2>1
<1> QED BY <1>1, <1>2, <1>3, SizeIsNat

\* Where the value of a column of a row is.
LEMMA Located ==
    ASSUME NEW t, NEW a, TableInv(t, a), a.fits,
           NEW r \in 0 .. Len(a.rows) - 1, NEW k \in 1 .. Len(t.columns)
    PROVE  /\ r * Len(t.columns) + k \in 1 .. Len(t.data)
           /\ BytesOf(t.data, (r * Len(t.columns) + k) - 1)
                = r * t.rowSize + SizeOfFirst(k - 1, Types(t.columns))
           /\ Holds(t.data[r * Len(t.columns) + k], t.columns[k].dt,
                    a.rows[r + 1][t.columns[k].name])
<1> DEFINE C == Len(t.columns)
           R == Len(a.rows)
           f == [i \in DOMAIN t.data |-> TypeOf(t.data[i])]
           g == Types(t.columns)
<1>1. /\ C \in Nat /\ R \in Nat /\ Len(t.data) = C * R /\ DOMAIN t.data = 1 .. Len(t.data)
      /\ IsSequence(t.columns) /\ DOMAIN t.columns = 1 .. C
      /\ t.rowSize = SizeOfFirst(C, g)
  BY TableFacts
<1>2. \A i \in 1 .. C : g[i] = t.columns[i].dt
  BY <1>1, ColumnSequences
<1>3. \A p \in 0 .. R - 1 : \A i \in 1 .. C :
         Holds(t.data[p * C + i], t.columns[i].dt, a.rows[p + 1][t.columns[i].name])
  BY Zenon DEF TableInv, RowsHold
<1>4. ASSUME NEW p \in 0 .. R - 1, NEW i \in 1 .. C PROVE p * C + i \in 1 .. C * R
  <2>1. p \in Nat /\ i \in Nat /\ p + 1 =< R /\ 1 =< i /\ i =< C
    BY <1>1
  <2> HIDE DEF C, R
  <2>2. p * C \in Nat /\ (p + 1) * C = p * C + C
    BY <1>1, <2>1
  <2>3. (p + 1) * C =< R * C
    BY <1>1, <2>1
  <2>4. R * C = C * R /\ C * R \in Nat
    BY <1>1
  <2> DEFINE x == p * C
             y == C * R
  <2>5. x \in Nat /\ y \in Nat /\ x + C =< y
    BY <2>2, <2>3, <2>4
  <2> HIDE DEF x, y
  <2>6. x + i \in 1 .. y
    BY <1>1, <2>1, <2>5
  <2> QED BY <2>6 DEF x, y
<1>5. ASSUME NEW p \in 0 .. R - 1, NEW i \in 1 .. C PROVE SizeOf(f[p * C + i]) = SizeOf(g[i])
  <2>1. p * C + i \in DOMAIN t.data
    BY <1>1, <1>4
  <2>2. f[p * C + i] = TypeOf(t.data[p * C + i])
    BY <2>1
  <2>3. SizeOf(TypeOf(t.data[p * C + i])) = SizeOf(t.columns[i].dt)
    BY <1>3, HeldSize
  <2> QED BY <1>2, <2>2, <2>3
<1>6. k - 1 \in 0 .. C /\ (r * C + k) - 1 = r * C + (k - 1) /\ r \in 0 .. R - 1
  BY <1>1
<1>7. SizeOfFirst(r * C + (k - 1), f) = r * SizeOfFirst(C, g) + SizeOfFirst(k - 1, g)
  <2>1. \A p \in 0 .. R - 1 : \A i \in 1 .. C : SizeOf(f[p * C + i]) = SizeOf(g[i])
    BY <1>5
  <2> HIDE DEF C, R, f, g
  <2>2. \A p \in 0 .. R - 1 : \A i \in 0 .. C :
           SizeOfFirst(p * C + i, f) = p * SizeOfFirst(C, g) + SizeOfFirst(i, g)
    BY <1>1, <2>1, SizeOfRows, Zenon
  <2> QED BY <1>6, <2>2, Zenon
<1>8. BytesOf(t.data, (r * C + k) - 1) = r * t.rowSize + SizeOfFirst(k - 1, g)
  <2> HIDE DEF C, R, g
  <2>1. \A i : BytesOf(t.data, i) = SizeOfFirst(i, f)
    BY DEF BytesOf
  <2> HIDE DEF f
  <2>2. (r * C + k) - 1 = r * C + (k - 1)
    BY <1>6
  <2>3. BytesOf(t.data, (r * C + k) - 1) = SizeOfFirst(r * C + (k - 1), f)
    BY <2>1, <2>2, Zenon
  <2> QED BY <1>1, <1>7, <2>3, Zenon
<1>9. r * C + k \in 1 .. Len(t.data)
  BY <1>1, <1>4
<1> QED BY <1>3, <1>8, <1>9

\* A value is read where it lies, as the one that was asked for.
LEMMA ReadsTheValue ==
    ASSUME NEW t, NEW a, TableInv(t, a), a.fits,
           NEW r \in 0 .. Len(a.rows) - 1, NEW k \in 1 .. Len(t.columns)
    PROVE  /\ ReadAt(t.data, r * t.rowSize + SizeOfFirst(k - 1, Types(t.columns)),
                     t.columns[k].dt)
                = a.rows[r + 1][t.columns[k].name]
           /\ ~IsFailure(a.rows[r + 1][t.columns[k].name])
<1>0. /\ r * Len(t.columns) + k \in 1 .. Len(t.data)
      /\ BytesOf(t.data, (r * Len(t.columns) + k) - 1)
            = r * t.rowSize + SizeOfFirst(k - 1, Types(t.columns))
      /\ Holds(t.data[r * Len(t.columns) + k], t.columns[k].dt,
               a.rows[r + 1][t.columns[k].name])
  BY Located, Zenon
<1> DEFINE n == r * Len(t.columns) + k
           position == r * t.rowSize + SizeOfFirst(k - 1, Types(t.columns))
           dt == t.columns[k].dt
           w == a.rows[r + 1][t.columns[k].name]
           types == [i \in DOMAIN t.data |-> TypeOf(t.data[i])]
           here == {i \in DOMAIN t.data : BytesOf(t.data, i - 1) = position}
<1>1. /\ n \in 1 .. Len(t.data) /\ BytesOf(t.data, n - 1) = position
      /\ Holds(t.data[n], dt, w)
  BY <1>0, Zenon
<1>2. /\ t.data \in Seq(CellValues) /\ DOMAIN t.data = 1 .. Len(t.data)
      /\ Len(t.data) \in Nat
  BY TableFacts
<1>3. \A i : BytesOf(t.data, i) = SizeOfFirst(i, types)
  BY DEF BytesOf
<1>4. here = {n}
  <2>1. n \in here
    BY <1>1, <1>2
  <2>2. ASSUME NEW i \in here PROVE i = n
    <3>1. i \in Nat /\ n \in Nat /\ i - 1 \in Nat /\ n - 1 \in Nat
      BY <1>1, <1>2
    <3>2. SizeOfFirst(i - 1, types) = SizeOfFirst(n - 1, types)
      BY <1>1, <1>3
    <3>3. i - 1 = n - 1
      <4> HIDE DEF n, types, here
      <4> QED BY <3>1, <3>2, BeginsOnce
    <3> QED BY <3>1, <3>3
  <2> HIDE DEF here, n
  <2> QED BY <2>1, <2>2
<1>5. (CHOOSE i \in here : TRUE) = n
  <2> HIDE DEF here, n
  <2> QED BY <1>4
<1>6. ~ (position + SizeOf(dt) > BytesOf(t.data, Len(t.data)))
  <2>1. n - 1 \in Nat /\ n - 1 < Len(t.data) /\ n - 1 + 1 = n
    BY <1>1, <1>2
  <2>2. SizeOfFirst(n - 1, types) + SizeOf(types[n]) =< SizeOfFirst(Len(t.data), types)
    <3> HIDE DEF n, types
    <3> QED BY <1>2, <2>1, SizeGrows
  <2>3. types[n] = TypeOf(t.data[n])
    BY <1>1, <1>2
  <2>4. SizeOf(types[n]) = SizeOf(dt)
    BY <1>1, <2>3, HeldSize
  <2>5. /\ SizeOfFirst(n - 1, types) \in Nat /\ SizeOfFirst(Len(t.data), types) \in Nat
        /\ SizeOf(dt) \in Nat
    <3> HIDE DEF n, types, dt
    <3> QED BY <1>2, <2>1, SizeIsNat, SizePositive
  <2>6. position + SizeOf(dt) =< BytesOf(t.data, Len(t.data))
    <3> HIDE DEF n, types, dt, position
    <3> QED BY <1>1, <1>3, <2>2, <2>4
  <2>7. position = SizeOfFirst(n - 1, types) /\ BytesOf(t.data, Len(t.data)) = SizeOfFirst(Len(t.data), types)
    BY <1>1, <1>3
  <2> HIDE DEF n, types, dt, position
  <2> QED BY <2>5, <2>6, <2>7
<1>7. ReadAt(t.data, position, dt) =
        IF position + SizeOf(dt) > BytesOf(t.data, Len(t.data)) THEN Undefined
        ELSE IF \E i \in here : TypeOf(t.data[i]) = dt THEN t.data[CHOOSE i \in here : TRUE]
        ELSE IF \E i \in here : TypeOf(t.data[i]) # "varchar"
             THEN Reinterpreted(t.data[CHOOSE i \in here : TRUE], dt)
        ELSE IF dt = "varchar" THEN Undefined
        ELSE [unknown |-> IF dt = "integer" THEN "int" ELSE "float"]
  BY DEF ReadAt
<1>8. ReadAt(t.data, position, dt) =
        IF TypeOf(t.data[n]) = dt THEN t.data[n]
        ELSE IF TypeOf(t.data[n]) # "varchar" THEN Reinterpreted(t.data[n], dt)
        ELSE IF dt = "varchar" THEN Undefined
        ELSE [unknown |-> IF dt = "integer" THEN "int" ELSE "float"]
  <2>1. (\E i \in here : TypeOf(t.data[i]) = dt) <=> TypeOf(t.data[n]) = dt
    <3> HIDE DEF n, dt, here
    <3> QED BY <1>4
  <2>2. (\E i \in here : TypeOf(t.data[i]) # "varchar") <=> TypeOf(t.data[n]) # "varchar"
    <3> HIDE DEF n, here
    <3> QED BY <1>4
  <2> HIDE DEF n, dt, position, here
  <2> QED BY <1>5, <1>6, <1>7, <2>1, <2>2, Zenon
<1>9. t.data[n] \in CellValues
  <2> HIDE DEF n
  <2> QED BY <1>1, <1>2
<1>10. CASE TypeOf(t.data[n]) = dt /\ w = t.data[n]
  <2>1. ReadAt(t.data, position, dt) = t.data[n] /\ ~IsFailure(t.data[n])
    <3> HIDE DEF n, dt, position
    <3> QED BY <1>8, <1>9, <1>10, ValueFacts
  <2>2. ReadAt(t.data, position, dt) = w /\ ~IsFailure(w)
    <3> HIDE DEF n, dt, position, w
    <3> QED BY <1>10, <2>1
  <2> QED BY <2>2, Zenon
<1>11. CASE dt = "real" /\ t.data[n] = [int |-> 0] /\ w = [float |-> <<"0">>]
  <2>1. TypeOf([int |-> 0]) = "integer"
    BY DEF TypeOf, Is
  <2>2. Reinterpreted([int |-> 0], "real") = [float |-> <<"0">>]
    BY DEF Reinterpreted
  <2>3. ReadAt(t.data, position, dt) = w /\ ~IsFailure(w)
    <3> HIDE DEF n, dt, position, w
    <3> QED BY <1>8, <1>11, <2>1, <2>2, ValueFacts
  <2> QED BY <2>3, Zenon
<1> HIDE DEF n, dt, position, w
<1>12. \/ TypeOf(t.data[n]) = dt /\ w = t.data[n]
       \/ dt = "real" /\ t.data[n] = [int |-> 0] /\ w = [float |-> <<"0">>]
  BY <1>1, Zenon DEF Holds
<1> QED BY <1>10, <1>11, <1>12 DEF w, dt, position

\* A table with columns has as many rows as were inserted.
LEMMA CountsTheRows ==
    ASSUME NEW t, NEW a, TableInv(t, a), a.fits, Len(t.columns) # 0
    PROVE  RowCount(t) = Len(a.rows)
<1> DEFINE C == Len(t.columns)
           R == Len(a.rows)
           S == t.rowSize
           f == [i \in DOMAIN t.data |-> TypeOf(t.data[i])]
           g == Types(t.columns)
           bytes == BytesOf(t.data, Len(t.data))
<1>1. /\ C \in Nat /\ R \in Nat /\ Len(t.data) = C * R /\ DOMAIN t.data = 1 .. Len(t.data)
      /\ IsSequence(t.columns) /\ DOMAIN t.columns = 1 .. C
      /\ S = SizeOfFirst(C, g) /\ S \in Nat /\ Len(t.data) \in Nat
  BY TableFacts
<1>2. S > 0
  <2>1. 0 < C /\ 0 + 1 = 1
    BY <1>1
  <2>2. SizeOfFirst(0, g) + SizeOf(g[1]) =< SizeOfFirst(C, g)
    <3> HIDE DEF C, g
    <3> QED BY <1>1, <2>1, SizeGrows
  <2> HIDE DEF C, g, S
  <2> QED BY <1>1, <2>2, SizeStep, SizePositive
<1>3. CASE R = 0
  <2>1. Len(t.data) = 0
    BY <1>1, <1>3
  <2>2. bytes = 0
    BY <2>1, SizeStep DEF BytesOf
  <2> QED BY <1>3, <2>2 DEF RowCount
<1>4. CASE R # 0
  <2>1. R - 1 \in 0 .. R - 1 /\ C \in 1 .. C /\ 1 \in 1 .. C
    BY <1>1, <1>4
  <2>2. /\ (R - 1) * C + C = Len(t.data) /\ Len(t.data) # 0
        /\ BytesOf(t.data, ((R - 1) * C + C) - 1) = (R - 1) * S + SizeOfFirst(C - 1, g)
        /\ Holds(t.data[(R - 1) * C + C], t.columns[C].dt, a.rows[R - 1 + 1][t.columns[C].name])
    <3>1. (R - 1) * C + C = C * R
      <4> HIDE DEF C, R
      <4> QED BY <1>1
    <3>2. C * R # 0
      <4>1. C > 0 /\ R > 0
        BY <1>1, <1>4
      <4> HIDE DEF C, R
      <4> QED BY <1>1, <4>1
    <3> QED BY <1>1, <2>1, <3>1, <3>2, Located, Zenon
  <2>3. bytes = R * S
    <3> DEFINE n == Len(t.data)
    <3>1. n - 1 \in Nat /\ n - 1 + 1 = n /\ n \in DOMAIN t.data
      <4>1. n \in Nat /\ n # 0 /\ DOMAIN t.data = 1 .. n
        BY <1>1, <2>2
      <4> HIDE DEF n
      <4> QED BY <4>1
    <3>2. bytes = SizeOfFirst(n - 1, f) + SizeOf(f[n])
      <4>1. bytes = SizeOfFirst(n, f)
        BY DEF BytesOf
      <4> HIDE DEF n, f, bytes
      <4> QED BY <3>1, <4>1, SizeStep
    <3>3. SizeOf(f[n]) = SizeOf(t.columns[C].dt)
      <4>1. f[n] = TypeOf(t.data[n])
        BY <3>1
      <4> QED BY <2>2, <4>1, HeldSize
    <3>4. SizeOfFirst(n - 1, f) = (R - 1) * S + SizeOfFirst(C - 1, g)
      <4>1. BytesOf(t.data, n - 1) = SizeOfFirst(n - 1, f)
        BY DEF BytesOf
      <4> HIDE DEF C, R, S, f, g
      <4>2. ((R - 1) * C + C) - 1 = n - 1
        BY <2>2
      <4>3. BytesOf(t.data, n - 1) = (R - 1) * S + SizeOfFirst(C - 1, g)
        BY <2>2, <4>2, Zenon
      <4> HIDE DEF n
      <4> QED BY <4>1, <4>3
    <3>5. SizeOfFirst(C, g) = SizeOfFirst(C - 1, g) + SizeOf(t.columns[C].dt)
      <4>1. C - 1 \in Nat /\ C - 1 + 1 = C /\ C \in DOMAIN t.columns
        BY <1>1, <2>1
      <4>2. g[C] = t.columns[C].dt
        BY <1>1, <4>1, ColumnSequences
      <4> HIDE DEF C, g
      <4> QED BY <4>1, <4>2, SizeStep
    <3>6. (R - 1) * S + S = R * S /\ (R - 1) * S \in Int
      <4> HIDE DEF R, S
      <4> QED BY <1>1
    <3>7. SizeOfFirst(C - 1, g) \in Nat /\ SizeOf(t.columns[C].dt) \in Nat
      <4>1. C - 1 \in Nat
        BY <1>1, <2>1
      <4> QED BY <4>1, SizeIsNat, SizePositive
    <3> HIDE DEF C, R, S, n, f, g, bytes
    <3> QED BY <1>1, <3>2, <3>3, <3>4, <3>5, <3>6, <3>7
  <2>4. R * S # 0 /\ (R * S + S - 1) \div S = R
    <3>1. R > 0 /\ S > 0 /\ R \in Nat /\ S \in Nat
      BY <1>1, <1>2, <1>4
    <3>2. R * S # 0
      <4> HIDE DEF R, S
      <4> QED BY <3>1
    <3>3. (R * S + S - 1) \div S = R
      <4> HIDE DEF R, S
      <4> QED BY <3>1, SMTT(20)
    <3> QED BY <3>2, <3>3
  <2> QED BY <2>3, <2>4 DEF RowCount
<1> QED BY <1>3, <1>4

\* Whatever a table holds, it has a number of rows.
LEMMA CountsRows == ASSUME NEW t, NEW a, TableInv(t, a) PROVE RowCount(t) \in Nat
<1> DEFINE bytes == BytesOf(t.data, Len(t.data))
           C == Len(t.columns)
           S == t.rowSize
<1>1. /\ C \in Nat /\ Len(a.rows) \in Nat /\ Len(t.data) = C * Len(a.rows)
      /\ S = SizeOfFirst(C, Types(t.columns)) /\ S \in Nat /\ Len(t.data) \in Nat
  BY TableFacts
<1>2. bytes \in Nat
  BY <1>1, SizeIsNat DEF BytesOf
<1>3. CASE bytes = 0
  BY <1>3 DEF RowCount
<1>4. CASE bytes # 0
  <2>1. C # 0
    <3>1. SUFFICES ASSUME C = 0 PROVE FALSE
      OBVIOUS
    <3>2. Len(t.data) = 0
      BY <1>1, <3>1
    <3> QED BY <1>4, <3>2, SizeStep DEF BytesOf
  <2>2. SizeOfFirst(0, Types(t.columns)) + SizeOf(Types(t.columns)[0 + 1])
           =< SizeOfFirst(C, Types(t.columns))
    <3>1. 0 < C /\ 0 \in Nat
      BY <1>1, <2>1
    <3> HIDE DEF C
    <3> QED BY <1>1, <3>1, SizeGrows
  <2>3. S > 0
    <3> HIDE DEF C, S
    <3> QED BY <1>1, <2>2, SizeStep, SizePositive
  <2>4. (bytes + S - 1) \div S \in Nat
    <3> HIDE DEF bytes, S
    <3> QED BY <1>1, <1>2, <1>4, <2>3, SMTT(20)
  <2> QED BY <1>4, <2>4 DEF RowCount
<1> QED BY <1>3, <1>4
-----------------------------------------------------------------------------
(* What fetch() makes of a table, and a select of that.                    *)

\* A name occurs finitely often.
LEMMA PlacesFinite ==
    ASSUME NEW columns, IsSequence(columns), NEW name
    PROVE  IsFiniteSet({i \in DOMAIN columns : columns[i] = name})
<1>1. Len(columns) \in Nat /\ DOMAIN columns = 1 .. Len(columns)
  BY SequenceFacts
<1>2. IsFiniteSet(1 .. Len(columns))
  BY <1>1, FS_Interval
<1>3. {i \in DOMAIN columns : columns[i] = name} \subseteq 1 .. Len(columns)
  BY <1>1
<1> QED BY <1>2, <1>3, FS_Subset

\* How often is a number,
LEMMA TimesType == ASSUME NEW columns, IsSequence(columns), NEW name
                   PROVE  Times(columns, name) \in Nat
BY PlacesFinite, FS_CardinalityType DEF Times

\* and 1 if no name is repeated.
LEMMA TimesOnce ==
    ASSUME NEW columns, IsInjective(columns), NEW name \in Range(columns)
    PROVE  Times(columns, name) = 1
<1>1. PICK k \in DOMAIN columns : columns[k] = name
  BY DEF Range
<1>2. {i \in DOMAIN columns : columns[i] = name} = {k}
  BY <1>1 DEF IsInjective
<1> QED BY <1>2, FS_Singleton DEF Times

\* A row that is fetched has a value of ReadValues for each column.
LEMMA FetchesValues ==
    ASSUME NEW t, NEW a, TableInv(t, a), NEW columns, NEW idx
    PROVE  FetchedRow(t, columns, idx) \in [Range(columns) -> ReadValues]
<1>1. t.data \in Seq(CellValues)
  BY TableFacts
<1>2. Undefined \in ReadValues
  BY DEF ReadValues
<1>3. \A position, dt : ReadAt(t.data, position, dt) \in ReadValues
  BY <1>1, ReadAtType
<1> QED BY <1>2, <1>3 DEF FetchedRow

\* A row is fetched as it was asked for.
LEMMA FetchesTheRow ==
    ASSUME NEW t, NEW a, TableInv(t, a), a.fits,
           NEW columns, IsInjective(columns), Range(columns) \subseteq Range(Names(t.columns)),
           NEW idx \in 0 .. Len(a.rows) - 1, NEW name \in Range(columns)
    PROVE  /\ FetchedRow(t, columns, idx)[name] = a.rows[idx + 1][name]
           /\ ~IsFailure(a.rows[idx + 1][name])
<1> DEFINE k == FirstIndex(Names(t.columns), name)
<1>1. IsSequence(t.columns) /\ Len(a.rows) \in Nat /\ Len(t.columns) \in Nat
  BY TableFacts
<1>2. k \in 1 .. Len(t.columns) /\ t.columns[k].name = name
  <2>1. name \in Range(Names(t.columns))
    OBVIOUS
  <2> QED BY <1>1, <2>1, FirstColumn, Zenon
<1>3. idx \div Times(columns, name) = idx
  <2>1. Times(columns, name) = 1 /\ idx \in Nat
    BY <1>1, TimesOnce
  <2> QED BY <2>1
<1>4. ~ (idx >= RowCount(t))
  <2>1. Len(t.columns) # 0
    BY <1>1, <1>2
  <2>2. RowCount(t) = Len(a.rows)
    BY <2>1, CountsTheRows
  <2> QED BY <1>1, <2>2
<1>5. FetchedRow(t, columns, idx)[name]
        = ReadAt(t.data, idx * t.rowSize + SizeOfFirst(k - 1, Types(t.columns)),
                 t.columns[k].dt)
  <2> DEFINE row == idx \div Times(columns, name)
  <2>1. FetchedRow(t, columns, idx)[name] =
          IF row >= RowCount(t) THEN Undefined
          ELSE ReadAt(t.data, row * t.rowSize + Offset(t, name), ColumnType(t, name))
    BY DEF FetchedRow
  <2>2. Offset(t, name) = SizeOfFirst(k - 1, Types(t.columns))
        /\ ColumnType(t, name) = t.columns[k].dt
    BY Zenon DEF Offset, ColumnType
  <2>3. row = idx
    BY <1>3
  <2> HIDE DEF row, k
  <2> QED BY <1>4, <2>1, <2>2, <2>3
<1>6. /\ ReadAt(t.data, idx * t.rowSize + SizeOfFirst(k - 1, Types(t.columns)),
                t.columns[k].dt)
           = a.rows[idx + 1][t.columns[k].name]
      /\ ~IsFailure(a.rows[idx + 1][t.columns[k].name])
  <2> HIDE DEF k
  <2> QED BY <1>2, ReadsTheValue, Zenon
<1> HIDE DEF k
<1> QED BY <1>2, <1>5, <1>6

\* An answer only depends on the columns that are named.
LEMMA AnswersAlike ==
    ASSUME NEW e \in Selects, ColumnsOf(e) # <<>>, NEW v, NEW w,
           \A name \in Range(ColumnsOf(e)) : v[name] = w[name] /\ ~IsFailure(w[name])
    PROVE  Answer(e, v) = Answer(e, w) /\ ~IsFailure(Answer(e, w))
<1> DEFINE columns == ColumnsOf(e)
<1>1. IsSequence(columns)
  BY StorageEngineAssumption, Zenon
<1>2. Len(columns) \in Nat /\ DOMAIN columns = 1 .. Len(columns)
  BY <1>1, SequenceFacts
<1>3. \A i \in DOMAIN columns : v[columns[i]] = w[columns[i]] /\ ~IsFailure(w[columns[i]])
  BY DEF Range
<1>4. CASE Len(columns) = 1
  <2>1. 1 \in DOMAIN columns
    BY <1>2, <1>4
  <2> QED BY <1>3, <1>4, <2>1 DEF Answer
<1>5. CASE Len(columns) # 1
  <2>1. \A x : ~IsFailure([vector |-> x])
    BY DEF IsFailure, Is
  <2> HIDE DEF columns
  <2>2. [i \in DOMAIN columns |-> v[columns[i]]] = [i \in DOMAIN columns |-> w[columns[i]]]
    BY <1>3
  <2> QED BY <1>5, <2>1, <2>2 DEF Answer, columns
<1> QED BY <1>4, <1>5

-----------------------------------------------------------------------------
(* A query prints a run of the rows' values.                               *)

FirstOf(e, t, c) == Evaluate(e, FetchedRow(t, ColumnsOf(e), 0), c)

ValuesOf(e, t, name, c) ==
    [i \in 1 .. RowCount(t) * Times(ColumnsOf(e), name) |->
        Evaluate(e, FetchedRow(t, ColumnsOf(e), i - 1), FirstOf(e, t, c).captured).values]

\* Facts about the evaluator, one at a time.
LEMMA EvaluatorFacts ==
    ASSUME NEW e \in Selects, NEW row \in [Range(ColumnsOf(e)) -> ReadValues],
           NEW c \in Captures
    PROVE  /\ Evaluate(e, row, c).captured \in Captures
           /\ \A v \in Evaluate(e, row, c).values : IsFailure(v) => v \in {Thrown, Undefined}
           /\ (\A name \in Range(ColumnsOf(e)) : ~IsFailure(row[name])) =>
                 /\ PlainColumns(e) => Evaluate(e, row, c) = Result({Answer(e, row)}, c)
                 /\ ~UsesOperators(e) => Undefined \notin Evaluate(e, row, c).values
<1>1. DOMAIN row = Range(ColumnsOf(e))
  OBVIOUS
<1> QED BY <1>1, EvaluatorAssumption, Zenon

\* A run takes a value of each, in order, up to the first failure.
LEMMA RunFacts ==
    ASSUME NEW n \in Nat, NEW values, DOMAIN values = 1 .. n, NEW run \in Runs(values)
    PROVE  /\ Len(run) \in 1 .. n /\ DOMAIN run = 1 .. Len(run)
           /\ run = [i \in 1 .. Len(run) |-> run[i]]
           /\ \A i \in 1 .. Len(run) : run[i] \in values[i]
           /\ Len(run) < Len(values) => IsFailure(Last(run))
<1>1. PICK m \in 1 .. n : run \in [1 .. m -> UNION Range(values)]
  BY DEF Runs
<1>2. Len(run) = m /\ DOMAIN run = 1 .. m /\ run = [i \in 1 .. m |-> run[i]]
  <2> DEFINE U == UNION Range(values)
  <2>1. run \in [1 .. m -> U] /\ m \in Nat
    BY <1>1
  <2> HIDE DEF U
  <2>2. run \in Seq(U)
    BY <2>1
  <2> QED BY <2>1, <2>2
<1>3. /\ \A i \in DOMAIN run : run[i] \in values[i]
      /\ Len(run) < Len(values) => IsFailure(Last(run))
  BY Zenon DEF Runs
<1> QED BY <1>1, <1>2, <1>3

\* A query of a table ends in a known way; of rows that fit, it prints all of them.
LEMMA QueryRuns ==
    ASSUME NEW t, NEW a, TableInv(t, a), NEW e \in Selects, ColumnsOf(e) # <<>>,
           Range(ColumnsOf(e)) \subseteq Range(Names(t.columns)),
           NEW c \in Captures, NEW name \in Range(ColumnsOf(e)),
           NEW run \in Runs(ValuesOf(e, t, name, c))
    PROVE  /\ FirstOf(e, t, c).captured \in Captures
           /\ IsFailure(Last(run)) => Last(run) \in {Thrown, Undefined}
           /\ a.fits /\ a.rows # <<>> /\ IsInjective(ColumnsOf(e)) =>
                 /\ ~UsesOperators(e) => Last(run) # Undefined
                 /\ PlainColumns(e) =>
                      /\ ~IsFailure(Last(run))
                      /\ run = [i \in DOMAIN a.rows |-> Answer(e, a.rows[i])]
<1> DEFINE columns == ColumnsOf(e)
           values == ValuesOf(e, t, name, c)
           n == RowCount(t) * Times(columns, name)
           row(i) == FetchedRow(t, columns, i)
           d == FirstOf(e, t, c).captured
<1>1. IsSequence(columns)
  BY StorageEngineAssumption, Zenon
<1>2. n \in Nat
  <2>1. RowCount(t) \in Nat /\ Times(columns, name) \in Nat
    <3> HIDE DEF columns
    <3> QED BY <1>1, CountsRows, TimesType
  <2> QED BY <2>1
<1>3. /\ DOMAIN values = 1 .. n
      /\ \A i \in 1 .. n : values[i] = Evaluate(e, row(i - 1), d).values
  BY DEF ValuesOf
<1>4. Len(values) = n
  <2>1. values = [i \in 1 .. n |-> values[i]]
    BY DEF ValuesOf
  <2> HIDE DEF n, values
  <2> QED BY <1>2, <1>3, <2>1, IsSequenceIf
<1>5. \A i : row(i) \in [Range(columns) -> ReadValues]
  BY FetchesValues, Zenon
<1>6. d \in Captures
  BY <1>5, EvaluatorFacts, Zenon DEF FirstOf
<1>7. /\ Len(run) \in 1 .. n /\ DOMAIN run = 1 .. Len(run)
      /\ run = [i \in 1 .. Len(run) |-> run[i]]
      /\ \A i \in 1 .. Len(run) : run[i] \in values[i]
      /\ Len(run) < n => IsFailure(Last(run))
  <2> HIDE DEF n, values
  <2> QED BY <1>2, <1>3, <1>4, RunFacts DEF values
<1>8. Len(run) \in 1 .. Len(run) /\ Len(run) \in Nat
  BY <1>2, <1>7
<1>9. \A i \in 1 .. Len(run) : run[i] \in Evaluate(e, row(i - 1), d).values
  <2> HIDE DEF n, values, row, d
  <2> QED BY <1>2, <1>3, <1>7
<1>10. Last(run) \in Evaluate(e, row(Len(run) - 1), d).values
  BY <1>8, <1>9, Zenon DEF Last
<1>11. IsFailure(Last(run)) => Last(run) \in {Thrown, Undefined}
  BY <1>5, <1>6, <1>10, EvaluatorFacts, Zenon
<1>12. ASSUME a.fits, a.rows # <<>>, IsInjective(ColumnsOf(e))
       PROVE  /\ ~UsesOperators(e) => Last(run) # Undefined
              /\ PlainColumns(e) =>
                   /\ ~IsFailure(Last(run))
                   /\ run = [i \in DOMAIN a.rows |-> Answer(e, a.rows[i])]
  <2>1. Len(t.columns) \in Nat /\ Len(a.rows) \in Nat /\ DOMAIN a.rows = 1 .. Len(a.rows)
    BY TableFacts
  <2>2. n = Len(a.rows)
    <3>1. Times(columns, name) = 1
      BY <1>12, TimesOnce
    <3>2. Len(t.columns) # 0
      <4>1. name \in Range(Names(t.columns)) /\ IsSequence(t.columns)
        BY TableFacts
      <4>2. FirstIndex(Names(t.columns), name) \in 1 .. Len(t.columns)
        BY <4>1, FirstColumn
      <4> QED BY <2>1, <4>2
    <3>3. RowCount(t) = Len(a.rows)
      BY <1>12, <3>2, CountsTheRows
    <3> QED BY <2>1, <3>1, <3>3
  <2>3. ASSUME NEW i \in 1 .. n
        PROVE  \A x \in Range(columns) : /\ row(i - 1)[x] = a.rows[i][x]
                                         /\ ~IsFailure(a.rows[i][x])
                                         /\ ~IsFailure(row(i - 1)[x])
    <3>1. i - 1 \in 0 .. Len(a.rows) - 1 /\ i - 1 + 1 = i
      BY <2>1, <2>2
    <3>2. \A x \in Range(columns) : /\ row(i - 1)[x] = a.rows[i - 1 + 1][x]
                                    /\ ~IsFailure(a.rows[i - 1 + 1][x])
      BY <1>12, <3>1, FetchesTheRow, Zenon
    <3> QED BY <3>1, <3>2, Zenon
  <2>4. ASSUME ~UsesOperators(e) PROVE Last(run) # Undefined
    <3>1. Len(run) \in 1 .. n
      BY <1>7
    <3>2. Undefined \notin Evaluate(e, row(Len(run) - 1), d).values
      BY <1>5, <1>6, <2>3, <2>4, <3>1, EvaluatorFacts, Zenon
    <3> QED BY <1>10, <3>2
  <2>5. ASSUME PlainColumns(e)
        PROVE  /\ ~IsFailure(Last(run))
               /\ run = [i \in DOMAIN a.rows |-> Answer(e, a.rows[i])]
    <3>1. ASSUME NEW i \in 1 .. Len(run)
          PROVE  run[i] = Answer(e, a.rows[i]) /\ ~IsFailure(run[i])
      <4>1. i \in 1 .. n
        <5> HIDE DEF n
        <5> QED BY <1>2, <1>7
      <4>2. Evaluate(e, row(i - 1), d) = Result({Answer(e, row(i - 1))}, d)
        <5>1. \A x \in Range(ColumnsOf(e)) : ~IsFailure(row(i - 1)[x])
          BY <2>3, <4>1
        <5>2. row(i - 1) \in [Range(ColumnsOf(e)) -> ReadValues]
          BY <1>5
        <5> HIDE DEF row, d
        <5> QED BY <1>6, <2>5, <5>1, <5>2, EvaluatorFacts, Zenon
      <4>3. run[i] = Answer(e, row(i - 1))
        <5>1. \A x, y : Result({x}, y).values = {x}
          BY DEF Result
        <5>2. Evaluate(e, row(i - 1), d).values = {Answer(e, row(i - 1))}
          BY <4>2, <5>1, Zenon
        <5> HIDE DEF row, d
        <5> QED BY <1>9, <5>2
      <4>4. Answer(e, row(i - 1)) = Answer(e, a.rows[i]) /\ ~IsFailure(Answer(e, a.rows[i]))
        <5>1. \A x \in Range(ColumnsOf(e)) :
                 row(i - 1)[x] = a.rows[i][x] /\ ~IsFailure(a.rows[i][x])
          BY <2>3, <4>1
        <5> DEFINE w == a.rows[i]
                   v == row(i - 1)
        <5> HIDE DEF row, v, w
        <5>2. \A x \in Range(ColumnsOf(e)) : v[x] = w[x] /\ ~IsFailure(w[x])
          BY <5>1, Zenon DEF v, w
        <5>3. Answer(e, v) = Answer(e, w) /\ ~IsFailure(Answer(e, w))
          BY <5>2, AnswersAlike, Zenon
        <5> QED BY <5>3, Zenon DEF v, w
      <4> QED BY <4>3, <4>4, Zenon
    <3>2. ~IsFailure(Last(run))
      BY <1>8, <3>1, Zenon DEF Last
    <3>3. Len(run) = Len(a.rows)
      <4> HIDE DEF n
      <4> QED BY <1>2, <1>7, <2>2, <3>2
    <3>4. run = [i \in 1 .. Len(run) |-> Answer(e, a.rows[i])]
      BY <1>7, <3>1
    <3> QED BY <2>1, <3>2, <3>3, <3>4
  <2> QED BY <2>4, <2>5
<1> QED BY <1>6, <1>11, <1>12
-----------------------------------------------------------------------------
(* What becomes of a table.                                                *)

\* A new table is as the invariant says.
LEMMA CreatedTable ==
    ASSUME NEW e \in Creates,
           \A i \in DOMAIN e.tblColumns : e.tblColumns[i].type \in DOMAIN typeNames
    PROVE  TableInv(NewTable(e), [rows |-> <<>>, fits |-> IsInjective(Names(e.tblColumns))])
<1> DEFINE n == Len(e.tblColumns)
           columns == [i \in DOMAIN e.tblColumns |->
                         [name |-> e.tblColumns[i].name, dt |-> typeNames[e.tblColumns[i].type]]]
           t == NewTable(e)
           a == [rows |-> <<>>, fits |-> IsInjective(Names(e.tblColumns))]
<1>1. n \in Nat /\ DOMAIN e.tblColumns = 1 .. n
  BY StorageEngineAssumption, SequenceFacts
<1>2. /\ DOMAIN columns = 1 .. n /\ columns = [i \in 1 .. n |-> columns[i]]
      /\ \A i \in 1 .. n : columns[i].name = e.tblColumns[i].name
  BY <1>1
<1>3. \A i \in DOMAIN columns : columns[i].dt \in DataTypes
  BY StorageEngineAssumption
<1>4. IsSequence(columns) /\ Len(columns) = n
  <2> HIDE DEF columns, n
  <2> QED BY <1>1, <1>2, IsSequenceIf
<1>5. t = [columns |-> columns, data |-> <<>>, rowSize |-> SizeOfFirst(Len(columns), Types(columns))]
  BY Zenon DEF NewTable
<1>6. /\ t.columns = columns /\ t.data = <<>>
      /\ t.rowSize = SizeOfFirst(Len(columns), Types(columns))
      /\ t = [columns |-> t.columns, data |-> t.data, rowSize |-> t.rowSize]
  <2> HIDE DEF columns, t
  <2> QED BY <1>5
<1>7. a.rows = <<>> /\ a = [rows |-> a.rows, fits |-> a.fits] /\ a.fits \in BOOLEAN
      /\ a.fits = IsInjective(Names(e.tblColumns))
  BY DEF IsInjective
<1>8. /\ IsSequence(<<>>) /\ <<>> \in Seq(CellValues) /\ Len(<<>>) = 0
  <2>1. <<>> \in Seq(Range(<<>>))
    <3> HIDE DEF Range
    <3> QED OBVIOUS
  <2> QED BY <2>1 DEF IsSequence
<1>9. Names(columns) = Names(e.tblColumns)
  BY <1>1, <1>2 DEF Names
<1> HIDE DEF t, a, columns
<1>10. Shapes(t, a)
  BY <1>4, <1>6, <1>7, <1>8 DEF Shapes
<1>11. Counts(t, a)
  <2>1. n * 0 = 0
    BY <1>1
  <2> QED BY <1>3, <1>4, <1>6, <1>7, <1>8, <2>1 DEF Counts
<1>12. a.fits => RowsHold(t, a)
  BY <1>6, <1>7, <1>8, <1>9 DEF RowsHold
<1> QED BY <1>10, <1>11, <1>12, Zenon DEF TableInv, t, a

\* An insert with enough values serialises one for each column.
LEMMA CellsType ==
    ASSUME NEW e \in Inserts, NEW columns, IsSequence(columns), ~MissesValue(e, columns)
    PROVE  /\ Cells(e, columns) \in Seq(CellValues) /\ Len(Cells(e, columns)) = Len(columns)
           /\ \A k \in 1 .. Len(columns) :
                 Cells(e, columns)[k] = IF IsGiven(e, columns[k].name)
                                        THEN e.values[FirstIndex(e.columns, columns[k].name)]
                                        ELSE [int |-> 0]
<1> DEFINE n == Len(columns)
<1>1. n \in Nat /\ DOMAIN columns = 1 .. n
  BY SequenceFacts
<1>2. IsSequence(e.columns) /\ IsSequence(e.values)
  BY StorageEngineAssumption, Zenon
<1>3. /\ DOMAIN Cells(e, columns) = 1 .. n
      /\ Cells(e, columns) = [k \in 1 .. n |-> Cells(e, columns)[k]]
      /\ \A k \in 1 .. n :
            Cells(e, columns)[k] = IF IsGiven(e, columns[k].name)
                                   THEN e.values[FirstIndex(e.columns, columns[k].name)]
                                   ELSE [int |-> 0]
  BY <1>1 DEF Cells
<1>4. ASSUME NEW k \in 1 .. n PROVE Cells(e, columns)[k] \in CellValues
  <2>1. CASE ~IsGiven(e, columns[k].name)
    <3>1. [int |-> 0] \in CellValues
      BY DEF CellValues
    <3> QED BY <1>3, <2>1, <3>1
  <2>2. CASE IsGiven(e, columns[k].name)
    <3> DEFINE j == FirstIndex(e.columns, columns[k].name)
    <3>1. j \in DOMAIN e.columns
      BY <1>2, <2>2, FirstIs, Zenon DEF IsGiven
    <3>2. ~ (j > Len(e.values))
      BY <1>1, <2>2, Zenon DEF MissesValue
    <3>3. j \in DOMAIN e.values
      <4>1. /\ Len(e.columns) \in Nat /\ DOMAIN e.columns = 1 .. Len(e.columns)
            /\ Len(e.values) \in Nat /\ DOMAIN e.values = 1 .. Len(e.values)
        BY <1>2, SequenceFacts
      <4> HIDE DEF j
      <4> QED BY <3>1, <3>2, <4>1
    <3>4. e.values[j] \in CellValues
      <4>1. e.values[j] \in Range(e.values)
        <5> HIDE DEF j
        <5> QED BY <3>3 DEF Range
      <4> QED BY <4>1, Zenon DEF CellValues
    <3> QED BY <1>3, <2>2, <3>4
  <2> QED BY <2>1, <2>2
<1>5. Cells(e, columns) \in [1 .. n -> CellValues]
  <2> HIDE DEF n
  <2> QED BY <1>3, <1>4
<1>6. Cells(e, columns) \in Seq(CellValues) /\ Len(Cells(e, columns)) = n
  <2> DEFINE s == Cells(e, columns)
             V == CellValues
  <2> HIDE DEF s, V, n
  <2>1. n \in Nat /\ s \in [1 .. n -> V]
    BY <1>1, <1>5 DEF s, V
  <2>2. s \in Seq(V) /\ Len(s) = n
    BY <2>1
  <2> QED BY <2>2 DEF s, V
<1> QED BY <1>3, <1>6

\* What is serialised for a row that fits is what was asked for.
LEMMA CellsHold ==
    ASSUME NEW e \in Inserts, NEW columns, IsSequence(columns), ~MissesValue(e, columns),
           \A i \in DOMAIN columns : columns[i].dt \in DataTypes,
           IsInjective(Names(columns)), RowFits(e, columns), NEW k \in 1 .. Len(columns)
    PROVE  Holds(Cells(e, columns)[k], columns[k].dt, AskedRow(e, columns)[columns[k].name])
<1> DEFINE name == columns[k].name
<1>1. k \in DOMAIN columns
  BY SequenceFacts
<1>2. name = Names(columns)[k] /\ k \in DOMAIN Names(columns) /\ IsSequence(Names(columns))
  BY <1>1, ColumnSequences
<1>3. name \in Range(Names(columns)) /\ FirstIndex(Names(columns), name) = k
  <2>1. name \in Range(Names(columns))
    BY <1>2 DEF Range
  <2> QED BY <1>2, <2>1, OnlyIs
<1>4. AskedRow(e, columns)[name] =
        IF IsGiven(e, name) THEN e.values[FirstIndex(e.columns, name)]
        ELSE IF columns[k].dt = "real" THEN [float |-> <<"0">>] ELSE [int |-> 0]
  <2>1. AskedRow(e, columns)[name] =
          IF IsGiven(e, name) THEN e.values[FirstIndex(e.columns, name)]
          ELSE IF columns[FirstIndex(Names(columns), name)].dt = "real" THEN [float |-> <<"0">>]
          ELSE [int |-> 0]
    <3> HIDE DEF name
    <3> QED BY <1>3 DEF AskedRow
  <2> HIDE DEF name
  <2> QED BY <1>3, <2>1
<1>5. Cells(e, columns)[k] = IF IsGiven(e, name) THEN e.values[FirstIndex(e.columns, name)]
                             ELSE [int |-> 0]
  BY CellsType, Zenon
<1>6. IF IsGiven(e, name)
      THEN TypeOf(e.values[FirstIndex(e.columns, name)]) = columns[k].dt
      ELSE columns[k].dt # "varchar"
  BY <1>1, Zenon DEF RowFits
<1>7. columns[k].dt \in DataTypes
  BY <1>1
<1>8. TypeOf([int |-> 0]) = "integer"
  BY DEF TypeOf, Is
<1> HIDE DEF name
<1>9. Holds(Cells(e, columns)[k], columns[k].dt, AskedRow(e, columns)[name])
  BY <1>4, <1>5, <1>6, <1>7, <1>8 DEF Holds, DataTypes
<1> QED BY <1>9 DEF name

\* A table is a record of three fields.
LEMMA DataReplaced ==
    ASSUME NEW t, t = [columns |-> t.columns, data |-> t.data, rowSize |-> t.rowSize], NEW w
    PROVE  [t EXCEPT !.data = w] = [columns |-> t.columns, data |-> w, rowSize |-> t.rowSize]
<1>1. PICK x, y, z : t = [columns |-> x, data |-> y, rowSize |-> z]
  BY Zenon
<1>2. t.columns = x /\ t.rowSize = z
  BY <1>1
<1>3. [t EXCEPT !.data = w] = [columns |-> x, data |-> w, rowSize |-> z]
  BY <1>1
<1> QED BY <1>2, <1>3, Zenon

\* A table stays as the invariant says when a row is put into it.
LEMMA InsertedTable ==
    ASSUME NEW t, NEW a, TableInv(t, a), NEW e \in Inserts, ~MissesValue(e, t.columns)
    PROVE  TableInv([t EXCEPT !.data = @ \o Cells(e, t.columns)],
                    [rows |-> Append(a.rows, AskedRow(e, t.columns)),
                     fits |-> a.fits /\ RowFits(e, t.columns)])
<1> DEFINE cells == Cells(e, t.columns)
           data == t.data \o cells
           rows == Append(a.rows, AskedRow(e, t.columns))
           u == [t EXCEPT !.data = @ \o cells]
           b == [rows |-> rows, fits |-> a.fits /\ RowFits(e, t.columns)]
           C == Len(t.columns)
           R == Len(a.rows)
<1>1. /\ IsSequence(t.columns) /\ IsSequence(a.rows) /\ t.data \in Seq(CellValues)
      /\ C \in Nat /\ DOMAIN t.columns = 1 .. C /\ R \in Nat /\ DOMAIN a.rows = 1 .. R
      /\ Len(t.data) = C * R /\ DOMAIN t.data = 1 .. C * R
  BY TableFacts
<1>2. /\ t = [columns |-> t.columns, data |-> t.data, rowSize |-> t.rowSize]
      /\ a = [rows |-> a.rows, fits |-> a.fits] /\ a.fits \in BOOLEAN
      /\ \A i \in DOMAIN t.columns : t.columns[i].dt \in DataTypes
      /\ t.rowSize = SizeOfFirst(Len(t.columns), Types(t.columns))
      /\ a.fits => RowsHold(t, a)
  BY Zenon DEF TableInv, Shapes, Counts
<1>3. u = [columns |-> t.columns, data |-> data, rowSize |-> t.rowSize]
  <2> HIDE DEF cells
  <2>1. [t EXCEPT !.data = t.data \o cells]
          = [columns |-> t.columns, data |-> t.data \o cells, rowSize |-> t.rowSize]
    BY <1>2, DataReplaced, Zenon
  <2> QED BY <2>1, Zenon
<1>4. u.columns = t.columns /\ u.data = data /\ u.rowSize = t.rowSize
  <2> HIDE DEF u, data
  <2> QED BY <1>3
<1>5. b.rows = rows /\ b.fits = (a.fits /\ RowFits(e, t.columns))
  <2> HIDE DEF rows
  <2> QED OBVIOUS
<1>6. /\ cells \in Seq(CellValues) /\ Len(cells) = C
  BY <1>1, CellsType
<1>7. /\ data \in Seq(CellValues) /\ Len(data) = C * R + C
      /\ \A i \in 1 .. C * R : data[i] = t.data[i]
      /\ \A k \in 1 .. C : data[C * R + k] = cells[k]
  <2> DEFINE y == t.data
             V == CellValues
             m == C * R
  <2>1. y \in Seq(V) /\ cells \in Seq(V) /\ Len(y) = m /\ Len(cells) = C /\ C \in Nat
        /\ m \in Nat
    <3>1. m \in Nat
      <4> HIDE DEF C, R
      <4> QED BY <1>1
    <3> HIDE DEF C, R, cells, V
    <3> QED BY <1>1, <1>6, <3>1, Zenon DEF V
  <2> HIDE DEF y, V, m, cells, C
  <2>2. /\ y \o cells \in Seq(V) /\ Len(y \o cells) = m + C
        /\ \A i \in 1 .. m : (y \o cells)[i] = y[i]
        /\ \A k \in 1 .. C : (y \o cells)[m + k] = cells[k]
    BY <2>1
  <2> QED BY <2>2 DEF y, V, m
<1>8. /\ IsSequence(rows) /\ Len(rows) = R + 1
      /\ \A r \in 1 .. R : rows[r] = a.rows[r]
      /\ rows[R + 1] = AskedRow(e, t.columns)
  <2> DEFINE s == a.rows
             x == AskedRow(e, t.columns)
             V == Range(a.rows) \cup {x}
  <2>1. s \in Seq(V) /\ Len(s) = R /\ R \in Nat
    <3> DEFINE U == Range(s)
    <3>1. s \in Seq(U) /\ Len(s) = R /\ R \in Nat
      BY <1>1, SequenceFacts
    <3>2. U \subseteq V
      OBVIOUS
    <3> HIDE DEF U, s, x, V, R
    <3>3. s \in [1 .. R -> V]
      BY <3>1, <3>2
    <3> QED BY <3>1, <3>3
  <2> HIDE DEF s, x, V, R
  <2>2. x \in V
    BY DEF V
  <2>3. /\ Append(s, x) \in Seq(V) /\ Len(Append(s, x)) = R + 1
        /\ \A r \in 1 .. R : Append(s, x)[r] = s[r]
        /\ Append(s, x)[R + 1] = x
    BY <2>1, <2>2
  <2>4. IsSequence(Append(s, x))
    BY <2>3, SequenceIs
  <2> QED BY <2>3, <2>4 DEF s, x
<1>9. Shapes(u, b)
  <2>1. b = [rows |-> b.rows, fits |-> b.fits] /\ b.fits \in BOOLEAN
    <3>1. (a.fits /\ RowFits(e, t.columns)) \in BOOLEAN
      OBVIOUS
    <3> HIDE DEF rows
    <3> QED BY <3>1
  <2> HIDE DEF u, b, rows, data
  <2> QED BY <1>1, <1>3, <1>4, <1>5, <1>7, <1>8, <2>1, Zenon DEF Shapes
<1>10. Counts(u, b)
  <2>1. C * (R + 1) = C * R + C
    <3> HIDE DEF C, R
    <3> QED BY <1>1
  <2>2. Len(u.data) = Len(u.columns) * Len(b.rows)
    <3> HIDE DEF u, b, rows, data, R
    <3> QED BY <1>4, <1>5, <1>7, <1>8, <2>1, Zenon
  <2> HIDE DEF u, b
  <2> QED BY <1>2, <1>4, <2>2, Zenon DEF Counts
<1>11. ASSUME b.fits PROVE RowsHold(u, b)
  <2>1. a.fits /\ RowFits(e, t.columns) /\ RowsHold(t, a)
    BY <1>2, <1>5, <1>11
  <2>2. IsInjective(Names(t.columns))
    BY <2>1 DEF RowsHold
  <2>3. ASSUME NEW r \in 0 .. Len(b.rows) - 1, NEW k \in 1 .. C
        PROVE  Holds(data[r * C + k], t.columns[k].dt, rows[r + 1][t.columns[k].name])
    <3>1. r \in 0 .. R - 1 \/ r = R
      <4> HIDE DEF b, rows, R
      <4> QED BY <1>1, <1>5, <1>8
    <3>2. CASE r \in 0 .. R - 1
      <4>1. Holds(t.data[r * C + k], t.columns[k].dt, a.rows[r + 1][t.columns[k].name])
        BY <2>1, <3>2, Zenon DEF RowsHold
      <4>2. r * C + k \in 1 .. C * R
        BY <1>1, <2>1, <3>2, Located
      <4>3. r + 1 \in 1 .. R
        BY <1>1, <3>2
      <4> HIDE DEF data, rows, C, R
      <4> QED BY <1>7, <1>8, <4>1, <4>2, <4>3, Zenon
    <3>3. CASE r = R
      <4>1. Holds(cells[k], t.columns[k].dt, AskedRow(e, t.columns)[t.columns[k].name])
        BY <1>1, <1>2, <2>1, <2>2, CellsHold, Zenon
      <4>2. r * C + k = C * R + k
        <5> HIDE DEF C, R
        <5> QED BY <1>1, <3>3
      <4>3. data[r * C + k] = cells[k]
        <5> HIDE DEF data, cells, C, R
        <5> QED BY <1>7, <4>2, Zenon
      <4>4. rows[r + 1] = AskedRow(e, t.columns)
        <5> HIDE DEF rows, R
        <5> QED BY <1>8, <3>3
      <4> HIDE DEF data, rows, cells, C, R
      <4> QED BY <4>1, <4>3, <4>4, Zenon
    <3> QED BY <3>1, <3>2, <3>3
  <2> HIDE DEF u, b, data, rows
  <2> QED BY <1>4, <1>5, <2>2, <2>3, Zenon DEF RowsHold
<1> HIDE DEF u, b
<1>12. TableInv(u, b)
  BY <1>9, <1>10, <1>11, Zenon DEF TableInv
<1> QED BY <1>12, Zenon DEF u, b
-----------------------------------------------------------------------------
(* The steps.                                                              *)

\* What is appended to leaves what was there.
LEMMA PrefixFacts ==
    ASSUME NEW V, NEW s \in Seq(V), NEW c \in Seq(V)
    PROVE  IsPrefix(s, s) /\ IsPrefix(s, s \o c)
<1>1. Len(s) \in Nat /\ Len(s) =< Len(s) /\ Len(s) =< Len(s \o c)
  OBVIOUS
<1>2. SubSeq(s, 1, Len(s)) = SubSeq(s \o c, 1, Len(s))
  OBVIOUS
<1> QED BY <1>1, <1>2 DEF IsPrefix

\* What a statement comes to.
LEMMA CameFacts ==
    ASSUME NEW e, NEW outcome, NEW rows, Came(e, outcome, rows)
    PROVE  /\ result'.statement = e /\ result'.outcome = outcome /\ result'.rows = rows
           /\ result' = [statement |-> result'.statement, outcome |-> result'.outcome,
                         rows |-> result'.rows]
BY DEF Came

\* The step OnlyInsertsAppend allows.
AppendsOnly ==
    \A name \in DOMAIN tables :
       /\ name \in DOMAIN tables'
       /\ tables'[name].columns = tables[name].columns
       /\ IsPrefix(tables[name].data, tables'[name].data)
       /\ tables'[name].data # tables[name].data =>
             /\ result'.statement.kind = "insert"
             /\ result'.statement.tblName = name
             /\ result'.outcome = "ok"

\* A step that leaves the tables alone keeps the invariant.
LEMMA TablesKept ==
    ASSUME EngineInv, UNCHANGED <<tables, asked>>, captured' \in Captures,
           result' = [statement |-> result'.statement, outcome |-> result'.outcome,
                      rows |-> result'.rows],
           result'.outcome \in {"none", "ok", "throw", "undefined"}
    PROVE  EngineInv' /\ AppendsOnly
<1>1. EngineInv'
  BY Zenon DEF EngineInv
<1>2. ASSUME NEW name \in DOMAIN tables
      PROVE  IsPrefix(tables[name].data, tables[name].data)
  <2>1. TableInv(tables[name], asked[name])
    BY Zenon DEF EngineInv
  <2>2. tables[name].data \in Seq(CellValues)
    BY <2>1, TableFacts
  <2> QED BY <2>2, PrefixFacts, Zenon
<1>3. AppendsOnly
  BY <1>2, Zenon DEF AppendsOnly
<1> QED BY <1>1, <1>3

\* A create keeps the invariant, changes no table and is defined.
LEMMA CreateStep ==
    ASSUME EngineInv, NEW e \in Creates, createTable(e)
    PROVE  EngineInv' /\ AppendsOnly /\ result'.statement = e /\ result'.outcome # "undefined"
<1>0. captured' = captured /\ captured' \in Captures
  BY DEF createTable, EngineInv
<1>1. CASE /\ \E i \in DOMAIN e.tblColumns : e.tblColumns[i].type \notin DOMAIN typeNames
           /\ Came(e, "throw", <<>>)
           /\ UNCHANGED <<tables, asked>>
  BY <1>0, <1>1, CameFacts, TablesKept
<1>2. CASE /\ \A i \in DOMAIN e.tblColumns : e.tblColumns[i].type \in DOMAIN typeNames
           /\ tables' = Inserting(tables, e.tblName, NewTable(e))
           /\ asked' = Inserting(asked, e.tblName,
                                 [rows |-> <<>>, fits |-> IsInjective(Names(e.tblColumns))])
           /\ Came(e, "ok", <<>>)
  <2> DEFINE t == NewTable(e)
             a == [rows |-> <<>>, fits |-> IsInjective(Names(e.tblColumns))]
  <2>1. TableInv(t, a)
    BY <1>2, CreatedTable
  <2> HIDE DEF t, a
  <2>2. tables' = Inserting(tables, e.tblName, t) /\ asked' = Inserting(asked, e.tblName, a)
    BY <1>2 DEF t, a
  <2>3. DOMAIN tables = DOMAIN asked
    BY DEF EngineInv
  <2>4. /\ DOMAIN tables' = DOMAIN tables \cup {e.tblName}
        /\ tables' = [x \in DOMAIN tables' |-> tables'[x]]
        /\ \A x \in DOMAIN tables : tables'[x] = tables[x]
        /\ e.tblName \notin DOMAIN tables => tables'[e.tblName] = t
    BY <2>2 DEF Inserting
  <2>5. /\ DOMAIN asked' = DOMAIN asked \cup {e.tblName}
        /\ asked' = [x \in DOMAIN asked' |-> asked'[x]]
        /\ \A x \in DOMAIN asked : asked'[x] = asked[x]
        /\ e.tblName \notin DOMAIN asked => asked'[e.tblName] = a
    BY <2>2 DEF Inserting
  <2>6. ASSUME NEW x \in DOMAIN tables' PROVE TableInv(tables'[x], asked'[x])
    <3>1. CASE x \in DOMAIN tables
      <4>1. TableInv(tables[x], asked[x])
        BY <3>1, Zenon DEF EngineInv
      <4>2. tables'[x] = tables[x] /\ asked'[x] = asked[x]
        BY <2>3, <2>4, <2>5, <3>1
      <4> QED BY <4>1, <4>2, Zenon
    <3>2. CASE x \notin DOMAIN tables
      <4>1. x = e.tblName /\ tables'[x] = t /\ asked'[x] = a
        BY <2>3, <2>4, <2>5, <3>2
      <4> QED BY <2>1, <4>1, Zenon
    <3> QED BY <3>1, <3>2
  <2>7. /\ result'.statement = e /\ result'.outcome = "ok"
        /\ result' = [statement |-> result'.statement, outcome |-> result'.outcome,
                      rows |-> result'.rows]
    BY <1>2, CameFacts, Zenon
  <2>8. EngineInv'
    <3>1. DOMAIN tables' = DOMAIN asked'
      BY <2>3, <2>4, <2>5, Zenon
    <3> QED BY <1>0, <2>4, <2>5, <2>6, <2>7, <3>1 DEF EngineInv
  <2>9. ASSUME NEW x \in DOMAIN tables
        PROVE  /\ x \in DOMAIN tables' /\ tables'[x] = tables[x]
               /\ IsPrefix(tables[x].data, tables[x].data)
    <3>1. TableInv(tables[x], asked[x])
      BY Zenon DEF EngineInv
    <3>2. tables[x].data \in Seq(CellValues)
      BY <3>1, TableFacts
    <3> QED BY <2>4, <3>2, PrefixFacts, Zenon
  <2>10. AppendsOnly
    BY <2>9, Zenon DEF AppendsOnly
  <2> QED BY <2>7, <2>8, <2>10
<1> QED BY <1>1, <1>2, Zenon DEF createTable

\* An insert is only undefined if it has too few values.
LEMMA MissingValue ==
    ASSUME NEW e \in Inserts, NEW columns, MissesValue(e, columns)
    PROVE  Len(e.values) < Len(e.columns)
<1>1. PICK i \in DOMAIN columns :
         IsGiven(e, columns[i].name) /\ FirstIndex(e.columns, columns[i].name) > Len(e.values)
  BY Zenon DEF MissesValue
<1>2. IsSequence(e.columns) /\ IsSequence(e.values)
  BY StorageEngineAssumption, Zenon
<1>3. FirstIndex(e.columns, columns[i].name) \in DOMAIN e.columns
  BY <1>1, <1>2, FirstIs, Zenon DEF IsGiven
<1>4. /\ Len(e.columns) \in Nat /\ DOMAIN e.columns = 1 .. Len(e.columns) /\ Len(e.values) \in Nat
  BY <1>2, SequenceFacts
<1> QED BY <1>1, <1>3, <1>4

\* An insert keeps the invariant and appends, and is undefined only with too few values.
LEMMA InsertStep ==
    ASSUME EngineInv, NEW e \in Inserts, insertIntoTable(e)
    PROVE  /\ EngineInv' /\ AppendsOnly /\ result'.statement = e
           /\ result'.outcome = "undefined" => Len(e.values) < Len(e.columns)
<1>0. captured' = captured /\ captured' \in Captures
  BY DEF insertIntoTable, EngineInv
<1>1. CASE Came(e, "throw", <<>>) /\ UNCHANGED <<tables, asked>>
  <2>1. /\ result'.statement = e /\ result'.outcome = "throw"
        /\ result' = [statement |-> result'.statement, outcome |-> result'.outcome,
                      rows |-> result'.rows]
    BY <1>1, CameFacts, Zenon
  <2>2. EngineInv' /\ AppendsOnly
    BY <1>0, <1>1, <2>1, TablesKept
  <2> QED BY <2>1, <2>2
<1>2. CASE e.tblName \in DOMAIN tables /\ Inserted(e, tables[e.tblName])
  <2> DEFINE n == e.tblName
             t == tables[n]
             a == asked[n]
             u == [t EXCEPT !.data = @ \o Cells(e, t.columns)]
             b == [rows |-> Append(a.rows, AskedRow(e, t.columns)),
                   fits |-> a.fits /\ RowFits(e, t.columns)]
  <2>1. n \in DOMAIN tables /\ n \in DOMAIN asked /\ TableInv(t, a)
    BY <1>2, Zenon DEF EngineInv
  <2>2. CASE MissesValue(e, t.columns) /\ Came(e, "undefined", <<>>)
             /\ UNCHANGED <<tables, asked>>
    <3>1. /\ result'.statement = e /\ result'.outcome = "undefined"
          /\ result' = [statement |-> result'.statement, outcome |-> result'.outcome,
                        rows |-> result'.rows]
      BY <2>2, CameFacts, Zenon
    <3>2. EngineInv' /\ AppendsOnly
      BY <1>0, <2>2, <3>1, TablesKept
    <3>3. Len(e.values) < Len(e.columns)
      BY <2>2, MissingValue, Zenon
    <3> QED BY <3>1, <3>2, <3>3
  <2>3. CASE /\ ~MissesValue(e, t.columns)
             /\ tables' = [tables EXCEPT ![e.tblName].data = @ \o Cells(e, t.columns)]
             /\ asked' = [asked EXCEPT
                   ![e.tblName] = [rows |-> Append(@.rows, AskedRow(e, t.columns)),
                                   fits |-> @.fits /\ RowFits(e, t.columns)]]
             /\ Came(e, "ok", <<>>)
    <3>1. TableInv(u, b)
      BY <2>1, <2>3, InsertedTable, Zenon
    <3>2. /\ tables = [x \in DOMAIN tables |-> tables[x]] /\ asked = [x \in DOMAIN asked |-> asked[x]]
          /\ DOMAIN tables = DOMAIN asked
      BY Zenon DEF EngineInv
    <3>3. /\ DOMAIN tables' = DOMAIN tables
          /\ tables' = [x \in DOMAIN tables |-> IF x = n THEN u ELSE tables[x]]
      <4>1. tables' = [tables EXCEPT ![n] = u]
        BY <2>3, Zenon
      <4> HIDE DEF n, u
      <4> QED BY <4>1
    <3>4. /\ DOMAIN asked' = DOMAIN asked
          /\ asked' = [x \in DOMAIN asked |-> IF x = n THEN b ELSE asked[x]]
      <4>1. asked' = [asked EXCEPT ![n] = b]
        BY <2>3, Zenon
      <4> HIDE DEF n, b
      <4> QED BY <4>1
    <3>5. \A x \in DOMAIN tables : /\ tables'[x] = IF x = n THEN u ELSE tables[x]
                                   /\ asked'[x] = IF x = n THEN b ELSE asked[x]
      <4> HIDE DEF n, u, b
      <4> QED BY <3>2, <3>3, <3>4, Zenon
    <3>6. /\ result'.statement = e /\ result'.outcome = "ok"
          /\ result' = [statement |-> result'.statement, outcome |-> result'.outcome,
                        rows |-> result'.rows]
      BY <2>3, CameFacts, Zenon
    <3>7. ASSUME NEW x \in DOMAIN tables' PROVE TableInv(tables'[x], asked'[x])
      <4>1. x \in DOMAIN tables /\ TableInv(tables[x], asked[x])
        BY <3>3, Zenon DEF EngineInv
      <4>2. CASE x = n
        <5>1. tables'[x] = u /\ asked'[x] = b
          <6> HIDE DEF n, u, b
          <6> QED BY <3>5, <4>1, <4>2
        <5> HIDE DEF u, b
        <5> QED BY <3>1, <5>1, Zenon
      <4>3. CASE x # n
        <5>1. tables'[x] = tables[x] /\ asked'[x] = asked[x]
          <6> HIDE DEF n, u, b
          <6> QED BY <3>5, <4>1, <4>3
        <5> QED BY <4>1, <5>1, Zenon
      <4> QED BY <4>2, <4>3
    <3>8. EngineInv'
      <4>1. DOMAIN tables' = DOMAIN asked'
        BY <3>2, <3>3, <3>4, Zenon
      <4>2. /\ tables' = [x \in DOMAIN tables' |-> tables'[x]]
            /\ asked' = [x \in DOMAIN asked' |-> asked'[x]]
        <5> HIDE DEF n, u, b
        <5> QED BY <3>3, <3>4
      <4> QED BY <1>0, <3>6, <3>7, <4>1, <4>2 DEF EngineInv
    <3>9. ASSUME NEW x \in DOMAIN tables
          PROVE  /\ x \in DOMAIN tables'
                 /\ tables'[x].columns = tables[x].columns
                 /\ IsPrefix(tables[x].data, tables'[x].data)
                 /\ tables'[x].data # tables[x].data => x = n
      <4>1. TableInv(tables[x], asked[x])
        BY Zenon DEF EngineInv
      <4>2. tables[x].data \in Seq(CellValues)
        BY <4>1, TableFacts
      <4>3. CASE x # n
        <5>1. tables'[x] = tables[x]
          <6> HIDE DEF n, u, b
          <6> QED BY <3>5, <4>3
        <5> QED BY <3>3, <4>2, <5>1, PrefixFacts, Zenon
      <4>4. CASE x = n
        <5>1. tables'[x] = u
          <6> HIDE DEF n, u, b
          <6> QED BY <3>5, <4>4
        <5>2. t = [columns |-> t.columns, data |-> t.data, rowSize |-> t.rowSize]
          BY <2>1, Zenon DEF TableInv, Shapes
        <5>3. u = [columns |-> t.columns, data |-> t.data \o Cells(e, t.columns),
                   rowSize |-> t.rowSize]
          <6> HIDE DEF t
          <6> QED BY <5>2, DataReplaced, Zenon
        <5>4. u.columns = t.columns /\ u.data = t.data \o Cells(e, t.columns)
          <6> HIDE DEF t, u
          <6> QED BY <5>3
        <5>5. t.data \in Seq(CellValues) /\ IsSequence(t.columns)
          BY <2>1, TableFacts
        <5>6. Cells(e, t.columns) \in Seq(CellValues)
          BY <2>3, <5>5, CellsType
        <5>7. IsPrefix(t.data, u.data)
          <6> HIDE DEF t, u
          <6> QED BY <5>4, <5>5, <5>6, PrefixFacts, Zenon
        <5>8. tables[x] = t
          BY <4>4
        <5> HIDE DEF t, u, n
        <5> QED BY <3>3, <4>4, <5>1, <5>4, <5>7, <5>8, Zenon
      <4> QED BY <4>3, <4>4
    <3>10. e.kind = "insert"
      BY StorageEngineAssumption
    <3>11. AppendsOnly
      BY <3>6, <3>9, <3>10, Zenon DEF AppendsOnly
    <3> QED BY <3>6, <3>8, <3>11
  <2> QED BY <1>2, <2>2, <2>3, Zenon DEF Inserted
<1> QED BY <1>1, <1>2, Zenon DEF insertIntoTable

\* A query keeps the invariant and the tables, prints the rows of a good query, and is
\* undefined only for a cause.
LEMMA QueryStep ==
    ASSUME EngineInv, NEW e \in Selects, queryDataFromTable(e)
    PROVE  /\ EngineInv' /\ AppendsOnly /\ UNCHANGED <<tables, asked>>
           /\ result'.statement = e
           /\ ColumnsOf(e) # <<>> /\ IsGoodQuery(e) =>
                 /\ result'.outcome = "ok"
                 /\ result'.rows = [i \in DOMAIN asked[e.tblName].rows |->
                                       Answer(e, asked[e.tblName].rows[i])]
           /\ result'.outcome = "undefined" =>
                 \/ UsesOperators(e)
                 \/ asked[e.tblName].rows = <<>>
                 \/ ~IsInjective(ColumnsOf(e))
                 \/ ~asked[e.tblName].fits
<1> DEFINE columns == ColumnsOf(e)
           t == tables[e.tblName]
           a == asked[e.tblName]
<1>0. UNCHANGED <<tables, asked>> /\ captured \in Captures
  BY Zenon DEF queryDataFromTable, EngineInv
<1>1. ASSUME NEW run,
             (IF IsFailure(Last(run)) THEN Came(e, Last(run).failure, Front(run))
                                      ELSE Came(e, "ok", run)),
             IsFailure(Last(run)) => Last(run) \in {Thrown, Undefined},
             captured' \in Captures
      PROVE  /\ EngineInv' /\ AppendsOnly /\ result'.statement = e
             /\ ~IsFailure(Last(run)) => result'.outcome = "ok" /\ result'.rows = run
             /\ result'.outcome = "undefined" => Last(run) = Undefined
  <2>1. Thrown.failure = "throw" /\ Undefined.failure = "undefined"
    BY DEF Thrown, Undefined
  <2>2. CASE IsFailure(Last(run))
    <3>1. Came(e, Last(run).failure, Front(run))
      BY <1>1, <2>2
    <3>2. /\ result'.statement = e /\ result'.outcome = Last(run).failure
          /\ result' = [statement |-> result'.statement, outcome |-> result'.outcome,
                        rows |-> result'.rows]
      BY <3>1, CameFacts, Zenon
    <3>3. /\ result'.outcome \in {"throw", "undefined"}
          /\ result'.outcome = "undefined" => Last(run) = Undefined
      BY <1>1, <2>1, <2>2, <3>2
    <3>4. EngineInv' /\ AppendsOnly
      BY <1>0, <1>1, <3>2, <3>3, TablesKept
    <3> QED BY <2>2, <3>2, <3>3, <3>4
  <2>3. CASE ~IsFailure(Last(run))
    <3>1. Came(e, "ok", run)
      BY <1>1, <2>3
    <3>2. /\ result'.statement = e /\ result'.outcome = "ok" /\ result'.rows = run
          /\ result' = [statement |-> result'.statement, outcome |-> result'.outcome,
                        rows |-> result'.rows]
      BY <3>1, CameFacts, Zenon
    <3>3. EngineInv' /\ AppendsOnly
      BY <1>0, <1>1, <3>2, TablesKept
    <3> QED BY <2>3, <3>2, <3>3
  <2> QED BY <2>2, <2>3
<1>2. CASE /\ columns = <<>>
           /\ LET r == Evaluate(e, <<>>, captured)
              IN  /\ captured' = r.captured
                  /\ \E v \in r.values : Printed(e, <<v>>)
  <2>1. PICK v \in Evaluate(e, <<>>, captured).values : Printed(e, <<v>>)
    BY <1>2
  <2>2. Last(<<v>>) = v
    BY DEF Last
  <2>3. <<>> \in [Range(columns) -> ReadValues] /\ Range(columns) = {}
    <3>1. Range(<<>>) = {}
      BY DEF Range
    <3>2. <<>> \in [{} -> ReadValues]
      OBVIOUS
    <3> QED BY <1>2, <3>1, <3>2, Zenon
  <2>4. /\ Evaluate(e, <<>>, captured).captured \in Captures
        /\ IsFailure(v) => v \in {Thrown, Undefined}
        /\ ~UsesOperators(e) => Undefined \notin Evaluate(e, <<>>, captured).values
    BY <1>0, <2>3, EvaluatorFacts, Zenon
  <2>5. captured' \in Captures
    BY <1>2, <2>4
  <2>6. IF IsFailure(Last(<<v>>)) THEN Came(e, Last(<<v>>).failure, Front(<<v>>))
                                  ELSE Came(e, "ok", <<v>>)
    BY <2>1, Zenon DEF Printed
  <2>7. /\ EngineInv' /\ AppendsOnly /\ result'.statement = e
        /\ result'.outcome = "undefined" => v = Undefined
    BY <1>1, <2>2, <2>4, <2>5, <2>6, Zenon
  <2>8. result'.outcome = "undefined" => UsesOperators(e)
    BY <2>4, <2>7
  <2> QED BY <1>0, <1>2, <2>7, <2>8, Zenon
<1>3. CASE /\ columns # <<>>
           /\ e.tblName \in DOMAIN tables
           /\ Range(columns) \subseteq Range(Names(t.columns))
           /\ Queried(e, t, columns)
  <2>1. TableInv(t, a)
    BY <1>3, Zenon DEF EngineInv
  <2>2. CASE RowCount(t) = 0 /\ Came(e, "undefined", <<>>) /\ UNCHANGED captured
    <3>1. /\ result'.statement = e /\ result'.outcome = "undefined"
          /\ result' = [statement |-> result'.statement, outcome |-> result'.outcome,
                        rows |-> result'.rows]
      BY <2>2, CameFacts, Zenon
    <3>2. EngineInv' /\ AppendsOnly
      BY <1>0, <2>2, <3>1, TablesKept
    <3>3. a.fits => a.rows = <<>>
      <4>1. ASSUME a.fits PROVE Len(a.rows) = 0
        <5>1. Len(t.columns) # 0
          <6>1. IsSequence(columns) /\ columns # <<>>
            BY <1>3, StorageEngineAssumption, Zenon
          <6>2. columns \in Seq(Range(columns))
            BY <6>1, Zenon DEF IsSequence
          <6>3. PICK x \in Range(columns) : TRUE
            <7>1. 1 \in DOMAIN columns
              <8> DEFINE U == Range(columns)
              <8>1. columns \in Seq(U)
                BY <6>2
              <8> HIDE DEF U, columns
              <8> QED BY <6>1, <8>1
            <7> HIDE DEF columns
            <7> QED BY <7>1 DEF Range
          <6>4. x \in Range(Names(t.columns)) /\ IsSequence(t.columns)
            BY <1>3, <2>1, <6>3, TableFacts
          <6>5. FirstIndex(Names(t.columns), x) \in 1 .. Len(t.columns) /\ Len(t.columns) \in Nat
            BY <2>1, <6>4, FirstColumn, TableFacts
          <6> QED BY <6>5
        <5>2. RowCount(t) = Len(a.rows)
          BY <2>1, <4>1, <5>1, CountsTheRows, Zenon
        <5> QED BY <2>2, <5>2
      <4>2. IsSequence(a.rows)
        BY <2>1, TableFacts
      <4>3. Len(a.rows) = 0 => a.rows = <<>>
        <5> DEFINE s == a.rows
                   U == Range(s)
        <5>1. s \in Seq(U)
          BY <4>2 DEF IsSequence
        <5>2. Len(s) = 0 => s = <<>>
          <6> HIDE DEF s, U
          <6> QED BY <5>1
        <5> QED BY <5>2
      <4> QED BY <4>1, <4>3
    <3>4. ~IsGoodQuery(e)
      BY <3>3, Zenon DEF IsGoodQuery
    <3> QED BY <1>0, <3>1, <3>2, <3>3, <3>4, Zenon
  <2>3. CASE \E name \in Range(columns) :
               LET maxIndex == RowCount(t) * Times(columns, name)
                   first == Evaluate(e, FetchedRow(t, columns, 0), captured)
                   values == [i \in 1 .. maxIndex |->
                       Evaluate(e, FetchedRow(t, columns, i - 1), first.captured).values]
               IN  /\ captured' = first.captured
                   /\ \E run \in Runs(values) : Printed(e, run)
    <3>1. PICK name \in Range(columns) :
             /\ captured' = FirstOf(e, t, captured).captured
             /\ \E run \in Runs(ValuesOf(e, t, name, captured)) : Printed(e, run)
      BY <2>3, Zenon DEF FirstOf, ValuesOf
    <3>2. PICK run \in Runs(ValuesOf(e, t, name, captured)) : Printed(e, run)
      BY <3>1
    <3>3. /\ FirstOf(e, t, captured).captured \in Captures
          /\ IsFailure(Last(run)) => Last(run) \in {Thrown, Undefined}
          /\ a.fits /\ a.rows # <<>> /\ IsInjective(ColumnsOf(e)) =>
                /\ ~UsesOperators(e) => Last(run) # Undefined
                /\ PlainColumns(e) =>
                     /\ ~IsFailure(Last(run))
                     /\ run = [i \in DOMAIN a.rows |-> Answer(e, a.rows[i])]
      <4>1. /\ ColumnsOf(e) # <<>> /\ captured \in Captures
            /\ Range(ColumnsOf(e)) \subseteq Range(Names(t.columns))
            /\ name \in Range(ColumnsOf(e))
            /\ run \in Runs(ValuesOf(e, t, name, captured))
        BY <1>0, <1>3
      <4> HIDE DEF t, a
      <4>2. e \in Selects /\ TableInv(t, a)
        BY <2>1
      <4> QED BY <4>1, <4>2, QueryRuns
    <3>4. captured' \in Captures
      BY <3>1, <3>3
    <3>5. IF IsFailure(Last(run)) THEN Came(e, Last(run).failure, Front(run))
                                  ELSE Came(e, "ok", run)
      BY <3>2, Zenon DEF Printed
    <3>6. /\ EngineInv' /\ AppendsOnly /\ result'.statement = e
          /\ ~IsFailure(Last(run)) => result'.outcome = "ok" /\ result'.rows = run
          /\ result'.outcome = "undefined" => Last(run) = Undefined
      BY <1>1, <3>3, <3>4, <3>5, Zenon
    <3>7. IsGoodQuery(e) => /\ PlainColumns(e) /\ IsInjective(ColumnsOf(e)) /\ a.fits
                            /\ a.rows # <<>>
      BY Zenon DEF IsGoodQuery
    <3> QED BY <1>0, <3>3, <3>6, <3>7, Zenon
  <2> QED BY <1>3, <2>2, <2>3, Zenon DEF Queried
<1>4. CASE /\ IF columns = <<>> THEN e.tblName \notin DOMAIN tables \cup {<<>>}
              ELSE e.tblName \in DOMAIN tables =>
                     ~(Range(columns) \subseteq Range(Names(t.columns)))
           /\ Came(e, "throw", <<>>)
           /\ UNCHANGED captured
  <2>1. /\ result'.statement = e /\ result'.outcome = "throw"
        /\ result' = [statement |-> result'.statement, outcome |-> result'.outcome,
                      rows |-> result'.rows]
    BY <1>4, CameFacts, Zenon
  <2>2. EngineInv' /\ AppendsOnly
    BY <1>0, <1>4, <2>1, TablesKept
  <2>3. ColumnsOf(e) # <<>> => ~IsGoodQuery(e)
    BY <1>4, Zenon DEF IsGoodQuery
  <2> QED BY <1>0, <2>1, <2>2, <2>3
<1> QED BY <1>2, <1>3, <1>4, Zenon DEF queryDataFromTable

\* Destroying a statement keeps the invariant and all but what is captured.
LEMMA DestroyStep ==
    ASSUME EngineInv, destroyStatement
    PROVE  EngineInv' /\ AppendsOnly /\ UNCHANGED <<tables, result, asked>>
<1>1. UNCHANGED <<tables, result, asked>> /\ captured' \in Captures
  BY DEF destroyStatement, Captures
<1>2. /\ result' = [statement |-> result'.statement, outcome |-> result'.outcome,
                    rows |-> result'.rows]
      /\ result'.outcome \in {"none", "ok", "throw", "undefined"}
  BY <1>1, Zenon DEF EngineInv
<1>3. EngineInv' /\ AppendsOnly
  BY <1>1, <1>2, TablesKept
<1> QED BY <1>1, <1>3

\* At first there is no table and no statement.
LEMMA EngineInit == Init => EngineInv /\ result.outcome = "none"
<1> SUFFICES ASSUME Init PROVE EngineInv /\ result.outcome = "none"
  OBVIOUS
<1>1. DOMAIN tables = {} /\ DOMAIN asked = {}
  BY DEF Init
<1>2. tables = [x \in DOMAIN tables |-> tables[x]] /\ asked = [x \in DOMAIN asked |-> asked[x]]
  BY DEF Init
<1>3. /\ result = [statement |-> result.statement, outcome |-> result.outcome,
                   rows |-> result.rows]
      /\ result.outcome = "none"
  BY DEF Init
<1>4. captured \in Captures
  BY DEF Init, Captures
<1> QED BY <1>1, <1>2, <1>3, <1>4 DEF EngineInv

\* Every step keeps the invariant and the tables' contents.
LEMMA EngineStep == EngineInv /\ [Next]_vars => EngineInv' /\ [AppendsOnly]_vars
<1> SUFFICES ASSUME EngineInv, [Next]_vars PROVE EngineInv' /\ [AppendsOnly]_vars
  OBVIOUS
<1>1. CASE UNCHANGED vars
  <2>1. EngineInv'
    BY <1>1 DEF EngineInv, vars
  <2> QED BY <1>1, <2>1
<1>2. ASSUME NEW e \in Creates, createTable(e) PROVE EngineInv' /\ AppendsOnly
  BY <1>2, CreateStep
<1>3. ASSUME NEW e \in Inserts, insertIntoTable(e) PROVE EngineInv' /\ AppendsOnly
  BY <1>3, InsertStep
<1>4. ASSUME NEW e \in Selects, queryDataFromTable(e) PROVE EngineInv' /\ AppendsOnly
  BY <1>4, QueryStep
<1>5. CASE destroyStatement
  BY <1>5, DestroyStep
<1> QED BY <1>1, <1>2, <1>3, <1>4, <1>5 DEF Next

\* The tables and what was asked of them agree in every state of every execution
\* (storage_engine.cpp:73-217).
THEOREM EngineTypeCorrect == Spec => []TypeOK
<1>1. Init => EngineInv
  BY EngineInit
<1>2. EngineInv /\ [Next]_vars => EngineInv'
  BY EngineStep
<1>3. EngineInv => TypeOK
  BY DEF EngineInv, TypeOK, TableInv, Counts
<1> QED BY <1>1, <1>2, <1>3, PTL DEF Spec

\* No step of any execution changes a table but by a successful insert into it,
\* which appends (storage_engine.cpp:73-83, 183-217).
THEOREM TablesOnlyGrow == Spec => OnlyInsertsAppend
<1>1. Init => EngineInv
  BY EngineInit
<1>2. EngineInv /\ [Next]_vars => EngineInv' /\ [AppendsOnly]_vars
  BY EngineStep
<1>3. Spec => [][AppendsOnly]_vars
  BY <1>1, <1>2, PTL DEF Spec
<1> QED BY <1>3 DEF OnlyInsertsAppend, AppendsOnly

\* Whatever the tables, the statements and the expressions: a select of columns of
\* rows that fit prints the rows as they were asked for
\* (storage_engine.cpp:48-68, 131-154).
THEOREM SelectsAreRight == Spec => []SelectsReturnWhatWasInserted
<1>1. Init => EngineInv /\ SelectsReturnWhatWasInserted
  BY EngineInit DEF SelectsReturnWhatWasInserted
<1>2. ASSUME EngineInv, SelectsReturnWhatWasInserted, [Next]_vars
      PROVE  EngineInv' /\ SelectsReturnWhatWasInserted'
  <2>1. EngineInv'
    BY <1>2, EngineStep
  <2>2. ASSUME UNCHANGED <<tables, result, asked>> PROVE SelectsReturnWhatWasInserted'
    BY <1>2, <2>2 DEF SelectsReturnWhatWasInserted, IsGoodQuery
  <2>3. ASSUME NEW e \in Creates, createTable(e) PROVE SelectsReturnWhatWasInserted'
    <3>1. result'.statement.kind = "create"
      BY <1>2, <2>3, CreateStep, StorageEngineAssumption
    <3> QED BY <3>1 DEF SelectsReturnWhatWasInserted
  <2>4. ASSUME NEW e \in Inserts, insertIntoTable(e) PROVE SelectsReturnWhatWasInserted'
    <3>1. result'.statement.kind = "insert"
      BY <1>2, <2>4, InsertStep, StorageEngineAssumption
    <3> QED BY <3>1 DEF SelectsReturnWhatWasInserted
  <2>5. ASSUME NEW e \in Selects, queryDataFromTable(e) PROVE SelectsReturnWhatWasInserted'
    <3>1. /\ UNCHANGED <<tables, asked>>
          /\ result'.statement = e
          /\ ColumnsOf(e) # <<>> /\ IsGoodQuery(e) =>
                /\ result'.outcome = "ok"
                /\ result'.rows = [i \in DOMAIN asked[e.tblName].rows |->
                                      Answer(e, asked[e.tblName].rows[i])]
      BY <1>2, <2>5, QueryStep, Zenon
    <3> QED BY <3>1, Zenon DEF SelectsReturnWhatWasInserted, IsGoodQuery
  <2>6. ASSUME destroyStatement PROVE SelectsReturnWhatWasInserted'
    BY <1>2, <2>2, <2>6, DestroyStep
  <2>7. ASSUME UNCHANGED vars PROVE SelectsReturnWhatWasInserted'
    BY <2>2, <2>7 DEF vars
  <2>8. SelectsReturnWhatWasInserted'
    BY <1>2, <2>3, <2>4, <2>5, <2>6, <2>7, Zenon DEF Next
  <2> QED BY <2>1, <2>8
<1> QED BY <1>1, <1>2, PTL DEF Spec

\* Whatever the tables, the statements and the expressions: what is undefined has
\* one of the five causes (storage_engine.cpp:54-61, 151, 213-215,
\* parser.hpp:235-418).
THEOREM UndefinedIsExplained == Spec => []UndefinedHasACause
<1>1. Init => EngineInv /\ UndefinedHasACause
  BY EngineInit DEF UndefinedHasACause
<1>2. ASSUME EngineInv, UndefinedHasACause, [Next]_vars
      PROVE  EngineInv' /\ UndefinedHasACause'
  <2>1. EngineInv'
    BY <1>2, EngineStep
  <2>2. ASSUME UNCHANGED <<tables, result, asked>> PROVE UndefinedHasACause'
    BY <1>2, <2>2 DEF UndefinedHasACause
  <2>3. ASSUME NEW e \in Creates, createTable(e) PROVE UndefinedHasACause'
    <3>1. result'.outcome # "undefined"
      BY <1>2, <2>3, CreateStep
    <3> QED BY <3>1 DEF UndefinedHasACause
  <2>4. ASSUME NEW e \in Inserts, insertIntoTable(e) PROVE UndefinedHasACause'
    <3>1. /\ result'.statement = e /\ e.kind = "insert"
          /\ result'.outcome = "undefined" => Len(e.values) < Len(e.columns)
      BY <1>2, <2>4, InsertStep, StorageEngineAssumption
    <3> QED BY <3>1 DEF UndefinedHasACause
  <2>5. ASSUME NEW e \in Selects, queryDataFromTable(e) PROVE UndefinedHasACause'
    <3>1. /\ UNCHANGED asked /\ result'.statement = e
          /\ result'.outcome = "undefined" =>
                \/ UsesOperators(e)
                \/ asked[e.tblName].rows = <<>>
                \/ ~IsInjective(ColumnsOf(e))
                \/ ~asked[e.tblName].fits
      BY <1>2, <2>5, QueryStep, Zenon
    <3>2. e.kind # "insert"
      BY StorageEngineAssumption
    <3> QED BY <3>1, <3>2, Zenon DEF UndefinedHasACause
  <2>6. ASSUME destroyStatement PROVE UndefinedHasACause'
    BY <1>2, <2>2, <2>6, DestroyStep
  <2>7. ASSUME UNCHANGED vars PROVE UndefinedHasACause'
    BY <2>2, <2>7 DEF vars
  <2>8. UndefinedHasACause'
    BY <1>2, <2>3, <2>4, <2>5, <2>6, <2>7, Zenon DEF Next
  <2> QED BY <2>1, <2>8
<1> QED BY <1>1, <1>2, PTL DEF Spec
=============================================================================
