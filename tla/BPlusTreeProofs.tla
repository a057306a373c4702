---------------------------- MODULE BPlusTreeProofs ----------------------------
(***************************************************************************)
(* Theorems about BPlusTree, for any keys, records, bounds and capacities, *)
(* as long as leaves and inner nodes have room for the same number of      *)
(* elements, as in every tree the repository builds                        *)
(* (tests/b_plus_tree/b_plus_tree.cpp instantiates records and page ids    *)
(* with one type).  Where they differ the first root is given the room of   *)
(* a leaf (b_plus_tree.hpp:195), and a split of it may lose a slot.         *)
(*                                                                         *)
(* First what the operators of BPlusTreeNode do to a node: searches stay   *)
(* inside it and find what is there, insertions and splits leave no hole   *)
(* and lose no slot.                                                       *)
(***************************************************************************)
EXTENDS BPlusTree, FiniteSetTheorems, SequenceTheorems, WellFoundedInduction, TLAPS

\* What a leaf and an inner node are, with n.max_size = cap, keys from K,
\* records from R and children from P.
IsLeaf(n, cap, K, R) ==
    /\ n = [type |-> "leaf", max_size |-> cap, current_size |-> n.current_size,
            keys |-> n.keys, values |-> n.values]
    /\ n.current_size \in 1 .. cap
    /\ n.keys \in [0 .. cap - 1 -> K \cup {NoKey}]
    /\ n.values \in [0 .. cap - 1 -> R \cup {NoKey}]
    /\ \A i \in 0 .. cap - 1 :
          IF i < n.current_size THEN n.keys[i] \in K /\ n.values[i] \in R
                                ELSE n.keys[i] = NoKey /\ n.values[i] = NoKey

IsInner(n, cap, K, P) ==
    /\ n = [type |-> "inner", max_size |-> cap, current_size |-> n.current_size,
            keys |-> n.keys, values |-> n.values]
    /\ n.current_size \in 2 .. cap
    /\ n.keys \in [0 .. cap - 1 -> K \cup {NoKey}]
    /\ n.values \in [0 .. cap - 1 -> P \cup {NoKey}]
    /\ \A i \in 0 .. cap - 1 :
          /\ i < n.current_size - 1 => n.keys[i] \in K
          /\ i >= n.current_size => n.keys[i] = NoKey
          /\ IF i < n.current_size THEN n.values[i] \in P ELSE n.values[i] = NoKey
-----------------------------------------------------------------------------
(* Searching.                                                              *)

\* The natural numbers are well ordered.
LEMMA LeastNat ==
    ASSUME NEW T, T \subseteq Nat, T # {}
    PROVE  \E m \in T : \A n \in T : m =< n
<1>1. IsWellFoundedOn(OpToRel(<, Nat), Nat)
  BY NatLessThanWellFounded, Zenon
<1>2. PICK m \in T : \A n \in T : ~ (<<n, m>> \in OpToRel(<, Nat))
  BY <1>1, WFMin, Zenon
<1>3. ASSUME NEW n \in T PROVE ~ (n < m)
  <2>1. <<n, m>> \notin OpToRel(<, Nat)
    BY <1>2
  <2>2. OpToRel(<, Nat) = {ss \in Nat \X Nat : ss[1] < ss[2]}
    BY Zenon DEF OpToRel
  <2>3. <<n, m>> \in Nat \X Nat
    OBVIOUS
  <2> QED BY <2>1, <2>2, <2>3
<1> QED BY <1>3

\* A set of natural numbers contains its minimum.
LEMMA MinIsIn ==
    ASSUME NEW S, S \subseteq Nat, S # {}
    PROVE  Min(S) \in S
<1>1. \E x \in S : \A y \in S : x =< y
  BY LeastNat
<1> QED BY <1>1 DEF Min

\* The recursion of the binary searches is well founded: the loop of
\* b_plus_tree_node.hpp:155-162 ends, because what is left shrinks.
LEMMA BisectFunction ==
    ASSUME NEW left, NEW high \in Nat
    PROVE  \E f : /\ f = [r \in (0 .. high) \X (0 .. high) |->
                            IF r[2] > r[1]
                            THEN IF (r[1] + r[2]) \div 2 \in left THEN f[<<r[1], (r[1] + r[2]) \div 2>>]
                                      ELSE f[<<(r[1] + r[2]) \div 2 + 1, r[2]>>]
                            ELSE r[1]]
                  /\ Bisect(left, high) = f[<<0, high>>]
<1> DEFINE R == (0 .. high) \X (0 .. high)
           Halve(f, r) == IF r[2] > r[1]
                            THEN IF (r[1] + r[2]) \div 2 \in left THEN f[<<r[1], (r[1] + r[2]) \div 2>>]
                                      ELSE f[<<(r[1] + r[2]) \div 2 + 1, r[2]>>]
                            ELSE r[1]
           G(f) == [r \in R |-> Halve(f, r)]
           Good(f, m) == \A r \in R : r[2] - r[1] < m => f[r] = Halve(f, r)
           Bad == {m \in Nat : ~ \E f \in [R -> 0 .. high] : Good(f, m)}
           E == CHOOSE f : f = G(f)
<1>1. Bad = {}
  <2>1. SUFFICES ASSUME Bad # {} PROVE FALSE
    OBVIOUS
  <2>2. PICK m \in Bad : \A n \in Bad : m =< n
    <3>1. Bad \subseteq Nat
      OBVIOUS
    <3> HIDE DEF Bad
    <3> QED BY <2>1, <3>1, LeastNat
  <2>3. m # 0
    <3>1. [r \in R |-> r[1]] \in [R -> 0 .. high]
      OBVIOUS
    <3>2. Good([r \in R |-> r[1]], 0)
      OBVIOUS
    <3> QED BY <3>1, <3>2, <2>2
  <2>4. m - 1 \in Nat /\ m - 1 \notin Bad
    <3>1. m \in Nat
      OBVIOUS
    <3> HIDE DEF Bad
    <3> QED BY <2>2, <2>3, <3>1
  <2>5. PICK f \in [R -> 0 .. high] : Good(f, m - 1)
    BY <2>4
  <2> DEFINE g == [r \in R |-> IF r[2] - r[1] < m - 1 THEN f[r] ELSE Halve(f, r)]
  <2>6. ASSUME NEW r \in R, r[2] > r[1]
        PROVE  /\ <<r[1], (r[1] + r[2]) \div 2>> \in R
               /\ (r[1] + r[2]) \div 2 - r[1] < r[2] - r[1]
               /\ <<(r[1] + r[2]) \div 2 + 1, r[2]>> \in R
               /\ r[2] - ((r[1] + r[2]) \div 2 + 1) < r[2] - r[1]
    BY <2>6
  <2>7. g \in [R -> 0 .. high]
    BY <2>6
  <2>8. Good(g, m)
    <3>1. SUFFICES ASSUME NEW r \in R, r[2] - r[1] < m PROVE g[r] = Halve(g, r)
      OBVIOUS
    <3>2. g[r] = Halve(f, r)
      BY <2>5
    <3>3. r[2] > r[1] => /\ g[<<r[1], (r[1] + r[2]) \div 2>>] = f[<<r[1], (r[1] + r[2]) \div 2>>]
                         /\ g[<<(r[1] + r[2]) \div 2 + 1, r[2]>>] = f[<<(r[1] + r[2]) \div 2 + 1, r[2]>>]
      BY <3>1, <2>6
    <3> QED BY <3>2, <3>3
  <2> QED BY <2>2, <2>7, <2>8
<1>2. \E f : f = G(f)
  <2>1. PICK f \in [R -> 0 .. high] : Good(f, high + 1)
    <3>1. high + 1 \in Nat /\ high + 1 \notin Bad
      <4> HIDE DEF Bad
      <4> QED BY <1>1
    <3> HIDE DEF Good
    <3> QED BY <3>1
  <2>2. \A r \in R : r[2] - r[1] < high + 1
    OBVIOUS
  <2>3. \A r \in R : f[r] = Halve(f, r)
    BY <2>1, <2>2
  <2> QED BY <2>1, <2>3
<1>3. E = G(E)
  <2> HIDE DEF G
  <2> QED BY <1>2
<1>4. Bisect(left, high) = E[<<0, high>>]
  BY DEF Bisect
<1> QED BY <1>3, <1>4

\* So it ends inside the node.
LEMMA BisectInRange ==
    ASSUME NEW left, NEW high \in Nat
    PROVE  Bisect(left, high) \in 0 .. high
<1> DEFINE R == (0 .. high) \X (0 .. high)
<1>1. PICK f : /\ f = [r \in R |->
                          IF r[2] > r[1]
                          THEN IF (r[1] + r[2]) \div 2 \in left
                               THEN f[<<r[1], (r[1] + r[2]) \div 2>>]
                               ELSE f[<<(r[1] + r[2]) \div 2 + 1, r[2]>>]
                          ELSE r[1]]
               /\ Bisect(left, high) = f[<<0, high>>]
  BY BisectFunction
<1> DEFINE Bad == {m \in Nat : \E r \in R : r[2] - r[1] = m /\ f[r] \notin 0 .. high}
<1>2. Bad = {}
  <2>1. SUFFICES ASSUME Bad # {} PROVE FALSE
    OBVIOUS
  <2>2. PICK m \in Bad : \A n \in Bad : m =< n
    <3>1. Bad \subseteq Nat
      OBVIOUS
    <3> HIDE DEF Bad
    <3> QED BY <2>1, <3>1, LeastNat
  <2>3. PICK r \in R : r[2] - r[1] = m /\ f[r] \notin 0 .. high
    OBVIOUS
  <2>4. r[2] > r[1]
    BY <1>1, <2>3
  <2> DEFINE middle == (r[1] + r[2]) \div 2
             s == IF middle \in left THEN <<r[1], middle>> ELSE <<middle + 1, r[2]>>
  <2>5. s \in R /\ s[2] - s[1] \in Nat /\ s[2] - s[1] < m
    BY <2>3, <2>4
  <2>6. f[r] = f[s]
    BY <1>1, <2>4
  <2>7. s[2] - s[1] \in Bad
    BY <2>3, <2>5, <2>6
  <2> QED BY <2>2, <2>5, <2>7
<1>3. <<0, high>> \in R /\ high - 0 \in Nat
  OBVIOUS
<1>4. f[<<0, high>>] \in 0 .. high
  BY <1>2, <1>3
<1> QED BY <1>1, <1>4

\* An insertion goes to one of the slots in use, or behind them.
LEMMA PlaceInRange ==
    ASSUME NEW n, NEW k, NEW size \in Nat \ {0}
    PROVE  PlaceFor(n, k, size) \in 0 .. size
<1>1. CASE n.current_size < 5
  <2> DEFINE S == {i \in 0 .. size - 1 : n.keys[i] > k} \cup {size}
  <2>1. S \subseteq 0 .. size /\ S # {}
    OBVIOUS
  <2>2. Min(S) \in S
    <3>1. S \subseteq Nat
      BY <2>1
    <3> HIDE DEF S
    <3> QED BY <2>1, <3>1, MinIsIn
  <2>3. PlaceFor(n, k, size) = Min(S)
    BY <1>1 DEF PlaceFor, FirstAbove
  <2> QED BY <2>1, <2>2, <2>3
<1>2. CASE ~(n.current_size < 5)
  <2> DEFINE L == {i \in 0 .. size - 1 : n.keys[i] >= k}
  <2>1. Bisect(L, size - 1) \in 0 .. size - 1
    <3> HIDE DEF L
    <3> QED BY BisectInRange
  <2>2. PlaceFor(n, k, size) = size \/ PlaceFor(n, k, size) = Bisect(L, size - 1)
    BY <1>2 DEF PlaceFor
  <2> QED BY <2>1, <2>2
<1> QED BY <1>1, <1>2

\* A search descends into one of the children.
LEMMA ChildInRange ==
    ASSUME NEW n, NEW k, n.current_size \in Nat, n.current_size >= 2
    PROVE  inner_find_index(n, k) \in 0 .. n.current_size - 1
<1> DEFINE high == n.current_size - 2
           L == {i \in 0 .. high : n.keys[i] > k}
<1>1. Bisect(L, high) \in 0 .. high
  <2>1. high \in Nat
    OBVIOUS
  <2> HIDE DEF L, high
  <2> QED BY <2>1, BisectInRange
<1>2. \/ inner_find_index(n, k) = n.current_size - 1
      \/ inner_find_index(n, k) = Bisect(L, high)
  BY DEF inner_find_index
<1> QED BY <1>1, <1>2
-----------------------------------------------------------------------------
(* Inserting.                                                              *)

\* The root that holds the first key (b_plus_tree_node.hpp:121-138).
LEMMA FirstNodeIsLeaf ==
    ASSUME NEW cap \in Nat, cap >= 1, NEW K, NEW R, NEW k \in K, NEW v \in R
    PROVE  /\ IsLeaf(init_first_node(cap, k, v), cap, K, R)
           /\ init_first_node(cap, k, v).current_size = 1
<1> DEFINE n == init_first_node(cap, k, v)
           keys == [i \in 0 .. cap - 1 |-> IF i < 1 THEN [j \in {0} |-> k][i] ELSE NoKey]
           values == [i \in 0 .. cap - 1 |-> IF i < 1 THEN [j \in {0} |-> v][i] ELSE NoKey]
<1>1. n = [type |-> "leaf", max_size |-> cap, current_size |-> 1,
           keys |-> keys, values |-> values]
  BY DEF init_first_node, NewNode
<1>2. \A i \in 0 .. cap - 1 : IF i < 1 THEN keys[i] = k /\ values[i] = v
                                       ELSE keys[i] = NoKey /\ values[i] = NoKey
  OBVIOUS
<1>3. keys \in [0 .. cap - 1 -> K \cup {NoKey}] /\ values \in [0 .. cap - 1 -> R \cup {NoKey}]
  BY <1>2
<1> HIDE DEF n, keys, values
<1>4. IsLeaf(n, cap, K, R) /\ n.current_size = 1
  BY <1>1, <1>2, <1>3 DEF IsLeaf
<1> QED BY <1>4 DEF n

\* Moving the slots up keeps a function on the slots.
LEMMA ShiftedType ==
    ASSUME NEW cap \in Nat, NEW S, NEW f \in [0 .. cap - 1 -> S], NEW x \in S,
           NEW size \in Nat, size < cap, NEW where \in 0 .. size
    PROVE  Shifted(f, where, x, size) \in [0 .. cap - 1 -> S]
<1>1. DOMAIN f = 0 .. cap - 1
  OBVIOUS
<1>2. ASSUME NEW i \in 0 .. cap - 1
      PROVE  (IF i = where THEN x
              ELSE f[IF i \in where + 1 .. size THEN i - 1 ELSE i]) \in S
  OBVIOUS
<1> QED BY <1>1, <1>2 DEF Shifted

\* What is in a slot then.
LEMMA ShiftedAt ==
    ASSUME NEW cap \in Nat, NEW f, DOMAIN f = 0 .. cap - 1, NEW x,
           NEW size \in Nat, NEW where \in Int, NEW i \in 0 .. cap - 1
    PROVE  /\ i = where => Shifted(f, where, x, size)[i] = x
           /\ where < i /\ i =< size => Shifted(f, where, x, size)[i] = f[i - 1]
           /\ i < where \/ (where < i /\ size < i) => Shifted(f, where, x, size)[i] = f[i]
BY DEF Shifted

\* An insertion changes three fields.
LEMMA Refilled ==
    ASSUME NEW n, NEW type, NEW cap, NEW size, NEW keys, NEW values,
           n = [type |-> type, max_size |-> cap, current_size |-> size,
                keys |-> keys, values |-> values],
           NEW size2, NEW keys2, NEW values2
    PROVE  [n EXCEPT !.keys = keys2, !.values = values2, !.current_size = size2]
              = [type |-> type, max_size |-> cap, current_size |-> size2,
                 keys |-> keys2, values |-> values2]
<1> DEFINE a == [n EXCEPT !.keys = keys2]
           b == [a EXCEPT !.values = values2]
           c == [b EXCEPT !.current_size = size2]
<1>1. a = [type |-> type, max_size |-> cap, current_size |-> size,
           keys |-> keys2, values |-> values]
  OBVIOUS
<1>2. b = [type |-> type, max_size |-> cap, current_size |-> size,
           keys |-> keys2, values |-> values2]
  <2> HIDE DEF a
  <2> QED BY <1>1
<1>3. c = [type |-> type, max_size |-> cap, current_size |-> size2,
           keys |-> keys2, values |-> values2]
  <2> HIDE DEF b
  <2> QED BY <1>2
<1>4. c = [n EXCEPT !.keys = keys2, !.values = values2, !.current_size = size2]
  BY Zenon
<1> QED BY <1>3, <1>4, Zenon

\* An insertion in a leaf with room (b_plus_tree_node.hpp:193-220).
LEMMA InsertKeepsLeaf ==
    ASSUME NEW cap \in Nat, NEW K, NEW R, NEW n, IsLeaf(n, cap, K, R),
           can_insert_trivially(n), NEW k \in K, NEW v \in R
    PROVE  /\ IsLeaf(trivial_insert(n, k, v), cap, K, R)
           /\ trivial_insert(n, k, v).current_size = n.current_size + 1
<1> DEFINE size == n.current_size
           oldkeys == n.keys
           oldvalues == n.values
           where == leaf_find_index_for_insert(n, k)
           keys == Shifted(oldkeys, where, k, size)
           values == Shifted(oldvalues, where, v, size)
           filled == trivial_insert(n, k, v)
<1>1. size \in Nat /\ size >= 1 /\ size < cap
  BY DEF IsLeaf, can_insert_trivially
<1>2. where \in 0 .. size
  BY <1>1, PlaceInRange DEF leaf_find_index_for_insert
<1>3. filled = [n EXCEPT !.keys = keys, !.values = values, !.current_size = size + 1]
  BY DEF trivial_insert
<1>4. n = [type |-> "leaf", max_size |-> cap, current_size |-> size,
           keys |-> oldkeys, values |-> oldvalues]
  BY DEF IsLeaf
<1>5. /\ oldkeys \in [0 .. cap - 1 -> K \cup {NoKey}]
      /\ oldvalues \in [0 .. cap - 1 -> R \cup {NoKey}]
  BY DEF IsLeaf
<1>6. \A i \in 0 .. cap - 1 :
         IF i < size THEN oldkeys[i] \in K /\ oldvalues[i] \in R
                     ELSE oldkeys[i] = NoKey /\ oldvalues[i] = NoKey
  BY DEF IsLeaf
<1> HIDE DEF where, filled, size, oldkeys, oldvalues
<1>7. keys \in [0 .. cap - 1 -> K \cup {NoKey}] /\ values \in [0 .. cap - 1 -> R \cup {NoKey}]
  <2>1. k \in K \cup {NoKey} /\ v \in R \cup {NoKey}
    OBVIOUS
  <2>2. where \in 0 .. size
    BY <1>1, <1>2
  <2>3. keys \in [0 .. cap - 1 -> K \cup {NoKey}]
    <3> DEFINE S == K \cup {NoKey}
    <3>1. oldkeys \in [0 .. cap - 1 -> S] /\ k \in S
      BY <1>5, <2>1
    <3> HIDE DEF S
    <3>2. keys \in [0 .. cap - 1 -> S]
      BY <1>1, <1>2, <3>1, ShiftedType
    <3> QED BY <3>2 DEF S
  <2>4. values \in [0 .. cap - 1 -> R \cup {NoKey}]
    <3> DEFINE S == R \cup {NoKey}
    <3>1. oldvalues \in [0 .. cap - 1 -> S] /\ v \in S
      BY <1>5, <2>1
    <3> HIDE DEF S
    <3>2. values \in [0 .. cap - 1 -> S]
      BY <1>1, <2>2, <3>1, ShiftedType
    <3> QED BY <3>2 DEF S
  <2> QED BY <2>3, <2>4
<1>8. ASSUME NEW i \in 0 .. cap - 1
      PROVE  IF i < size + 1 THEN keys[i] \in K /\ values[i] \in R
                             ELSE keys[i] = NoKey /\ values[i] = NoKey
  <2>1. DOMAIN oldkeys = 0 .. cap - 1 /\ DOMAIN oldvalues = 0 .. cap - 1
    BY <1>5
  <2>2. /\ i = where => keys[i] = k
        /\ where < i /\ i =< size => keys[i] = oldkeys[i - 1]
        /\ i < where \/ (where < i /\ size < i) => keys[i] = oldkeys[i]
    BY <1>1, <1>2, <2>1, ShiftedAt
  <2>3. /\ i = where => values[i] = v
        /\ where < i /\ i =< size => values[i] = oldvalues[i - 1]
        /\ i < where \/ (where < i /\ size < i) => values[i] = oldvalues[i]
    <3>1. where \in Int
      BY <1>1, <1>2
    <3> QED BY <1>1, <2>1, <3>1, ShiftedAt
  <2> HIDE DEF keys, values
  <2> QED BY <1>1, <1>2, <1>6, <2>2, <2>3
<1> HIDE DEF keys, values
<1>9. filled = [type |-> "leaf", max_size |-> cap, current_size |-> size + 1,
                keys |-> keys, values |-> values]
  BY <1>3, <1>4, Refilled, Zenon
<1>10. IsLeaf(filled, cap, K, R) /\ filled.current_size = size + 1
  <2>1. /\ filled.current_size = size + 1 /\ filled.keys = keys /\ filled.values = values
        /\ filled = [type |-> "leaf", max_size |-> cap, current_size |-> filled.current_size,
                     keys |-> filled.keys, values |-> filled.values]
    BY <1>9
  <2> HIDE DEF filled
  <2> QED BY <1>1, <1>7, <1>8, <2>1 DEF IsLeaf
<1> QED BY <1>10 DEF filled, size

\* A leaf that was split off is entered in the node above
\* (b_plus_tree_node.hpp:357-396).
LEMMA InsertKeepsInner ==
    ASSUME NEW cap \in Nat, NEW K, NEW P, NEW n, IsInner(n, cap, K, P),
           can_insert_trivially(n), NEW p \in P, NEW new, new.keys[0] \in K
    PROVE  /\ IsInner(trivial_insert_leaf_node(n, p, new), cap, K, P)
           /\ trivial_insert_leaf_node(n, p, new).current_size = n.current_size + 1
<1> DEFINE size == n.current_size
           oldkeys == n.keys
           oldvalues == n.values
           k == new.keys[0]
           where == inner_find_index_for_insert(n, k)
           keys == Shifted(oldkeys, where, k, size)
           values == Shifted(oldvalues, where + 1, p, size)
           filled == trivial_insert_leaf_node(n, p, new)
<1>1. size \in Nat /\ size >= 2 /\ size < cap
  BY DEF IsInner, can_insert_trivially
<1>2. where \in 0 .. size - 1
  <2>1. size - 1 \in Nat \ {0} /\ where = PlaceFor(n, k, size - 1)
    BY <1>1 DEF inner_find_index_for_insert
  <2>2. PlaceFor(n, k, size - 1) \in 0 .. size - 1
    BY <2>1, PlaceInRange
  <2> QED BY <2>1, <2>2
<1>11. k \in K
  OBVIOUS
<1>3. filled = [n EXCEPT !.keys = keys, !.values = values, !.current_size = size + 1]
  BY DEF trivial_insert_leaf_node
<1>4. n = [type |-> "inner", max_size |-> cap, current_size |-> size,
           keys |-> oldkeys, values |-> oldvalues]
  BY DEF IsInner
<1>5. /\ oldkeys \in [0 .. cap - 1 -> K \cup {NoKey}]
      /\ oldvalues \in [0 .. cap - 1 -> P \cup {NoKey}]
  BY DEF IsInner
<1>6. \A i \in 0 .. cap - 1 :
         /\ i < size - 1 => oldkeys[i] \in K
         /\ i >= size => oldkeys[i] = NoKey
         /\ IF i < size THEN oldvalues[i] \in P ELSE oldvalues[i] = NoKey
  BY DEF IsInner
<1> HIDE DEF where, filled, size, oldkeys, oldvalues, k
<1>7. keys \in [0 .. cap - 1 -> K \cup {NoKey}] /\ values \in [0 .. cap - 1 -> P \cup {NoKey}]
  <2>1. k \in K \cup {NoKey} /\ p \in P \cup {NoKey}
    BY <1>11
  <2>2. where + 1 \in 0 .. size
    BY <1>1, <1>2
  <2>3. keys \in [0 .. cap - 1 -> K \cup {NoKey}]
    <3> DEFINE S == K \cup {NoKey}
    <3>1. oldkeys \in [0 .. cap - 1 -> S] /\ k \in S
      BY <1>5, <2>1
    <3> HIDE DEF S
    <3>2. keys \in [0 .. cap - 1 -> S]
      BY <1>1, <1>2, <3>1, ShiftedType
    <3> QED BY <3>2 DEF S
  <2>4. values \in [0 .. cap - 1 -> P \cup {NoKey}]
    <3> DEFINE S == P \cup {NoKey}
    <3>1. oldvalues \in [0 .. cap - 1 -> S] /\ p \in S
      BY <1>5, <2>1
    <3> HIDE DEF S
    <3>2. values \in [0 .. cap - 1 -> S]
      BY <1>1, <2>2, <3>1, ShiftedType
    <3> QED BY <3>2 DEF S
  <2> QED BY <2>3, <2>4
<1>8. ASSUME NEW i \in 0 .. cap - 1
      PROVE  /\ i < size => keys[i] \in K
             /\ i >= size + 1 => keys[i] = NoKey
             /\ IF i < size + 1 THEN values[i] \in P ELSE values[i] = NoKey
  <2>1. DOMAIN oldkeys = 0 .. cap - 1 /\ DOMAIN oldvalues = 0 .. cap - 1
    BY <1>5
  <2>2. /\ i = where => keys[i] = k
        /\ where < i /\ i =< size => keys[i] = oldkeys[i - 1]
        /\ i < where \/ (where < i /\ size < i) => keys[i] = oldkeys[i]
    BY <1>1, <1>2, <2>1, ShiftedAt
  <2>3. /\ i = where + 1 => values[i] = p
        /\ where + 1 < i /\ i =< size => values[i] = oldvalues[i - 1]
        /\ i < where + 1 \/ (where + 1 < i /\ size < i) => values[i] = oldvalues[i]
    <3>1. where + 1 \in Int
      BY <1>1, <1>2
    <3> QED BY <1>1, <2>1, <3>1, ShiftedAt
  <2> HIDE DEF keys, values
  <2> QED BY <1>1, <1>2, <1>6, <2>2, <2>3, <1>11
<1> HIDE DEF keys, values
<1>9. filled = [type |-> "inner", max_size |-> cap, current_size |-> size + 1,
                keys |-> keys, values |-> values]
  BY <1>3, <1>4, Refilled, Zenon
<1>10. IsInner(filled, cap, K, P) /\ filled.current_size = size + 1
  <2>1. /\ filled.current_size = size + 1 /\ filled.keys = keys /\ filled.values = values
        /\ filled = [type |-> "inner", max_size |-> cap, current_size |-> filled.current_size,
                     keys |-> filled.keys, values |-> filled.values]
    BY <1>9
  <2> HIDE DEF filled
  <2> QED BY <1>1, <1>7, <1>8, <2>1 DEF IsInner
<1> QED BY <1>10 DEF filled, size

-----------------------------------------------------------------------------
(* New nodes and splits.                                                   *)

\* A leaf filled from two functions.
LEMMA NewNodeIsLeaf ==
    ASSUME NEW cap \in Nat, NEW size \in 1 .. cap, NEW K, NEW R, NEW keys, NEW values,
           \A i \in 0 .. size - 1 : keys[i] \in K /\ values[i] \in R
    PROVE  /\ IsLeaf(NewNode("leaf", cap, size, keys, values), cap, K, R)
           /\ NewNode("leaf", cap, size, keys, values).current_size = size
<1> DEFINE n == NewNode("leaf", cap, size, keys, values)
           ks == [i \in 0 .. cap - 1 |-> IF i < size THEN keys[i] ELSE NoKey]
           vs == [i \in 0 .. cap - 1 |-> IF i < size THEN values[i] ELSE NoKey]
<1>1. n = [type |-> "leaf", max_size |-> cap, current_size |-> size,
           keys |-> ks, values |-> vs]
  BY DEF NewNode
<1>2. ks \in [0 .. cap - 1 -> K \cup {NoKey}] /\ vs \in [0 .. cap - 1 -> R \cup {NoKey}]
  OBVIOUS
<1>3. ASSUME NEW i \in 0 .. cap - 1
      PROVE  IF i < size THEN ks[i] \in K /\ vs[i] \in R ELSE ks[i] = NoKey /\ vs[i] = NoKey
  OBVIOUS
<1> HIDE DEF n, ks, vs
<1>4. IsLeaf(n, cap, K, R) /\ n.current_size = size
  BY <1>1, <1>2, <1>3 DEF IsLeaf
<1> QED BY <1>4 DEF n

\* An inner node, whose last key may be a key or not.
LEMMA NewNodeIsInner ==
    ASSUME NEW cap \in Nat, NEW size \in 2 .. cap, NEW K, NEW P, NEW keys, NEW values,
           \A i \in 0 .. size - 1 : /\ i < size - 1 => keys[i] \in K
                                    /\ keys[i] \in K \cup {NoKey}
                                    /\ values[i] \in P
    PROVE  /\ IsInner(NewNode("inner", cap, size, keys, values), cap, K, P)
           /\ NewNode("inner", cap, size, keys, values).current_size = size
           /\ NewNode("inner", cap, size, keys, values).keys[size - 1] = keys[size - 1]
<1> DEFINE n == NewNode("inner", cap, size, keys, values)
           ks == [i \in 0 .. cap - 1 |-> IF i < size THEN keys[i] ELSE NoKey]
           vs == [i \in 0 .. cap - 1 |-> IF i < size THEN values[i] ELSE NoKey]
<1>1. n = [type |-> "inner", max_size |-> cap, current_size |-> size,
           keys |-> ks, values |-> vs]
  BY DEF NewNode
<1>2. ks \in [0 .. cap - 1 -> K \cup {NoKey}] /\ vs \in [0 .. cap - 1 -> P \cup {NoKey}]
  OBVIOUS
<1>3. ASSUME NEW i \in 0 .. cap - 1
      PROVE  /\ i < size - 1 => ks[i] \in K
             /\ i >= size => ks[i] = NoKey
             /\ IF i < size THEN vs[i] \in P ELSE vs[i] = NoKey
  OBVIOUS
<1>4. ks[size - 1] = keys[size - 1]
  OBVIOUS
<1> HIDE DEF n, ks, vs
<1>5. IsInner(n, cap, K, P) /\ n.current_size = size /\ n.keys[size - 1] = keys[size - 1]
  BY <1>1, <1>2, <1>3, <1>4 DEF IsInner
<1> QED BY <1>5 DEF n

\* A full leaf is split into two leaves with room, each at least half full,
\* for every number of slots, odd or even (b_plus_tree_node.hpp:94, 205-247).
THEOREM LeafSplits ==
    ASSUME NEW cap \in Nat, cap >= 2, NEW K, NEW R, NEW n, IsLeaf(n, cap, K, R),
           n.current_size = cap
    PROVE  LET split == leaf_split_node(cap, n)
           IN  /\ IsLeaf(split.left, cap, K, R)
               /\ IsLeaf(split.right, cap, K, R)
               /\ split.left.current_size < cap /\ split.left.current_size >= cap \div 2
               /\ split.right.current_size < cap /\ split.right.current_size >= cap \div 2
<1> DEFINE half == cap \div 2
           last == half - LeafParity(cap)
           size == half + ((LeafParity(cap) + 1) % 2)
           Copy(f) == [j \in 0 .. cap - 1 |->
                         IF j = last THEN f[cap - 1]
                         ELSE IF half + j < cap - 1 THEN f[half + j] ELSE NoKey]
           split == leaf_split_node(cap, n)
           left == NewNode("leaf", cap, half, n.keys, n.values)
           right == NewNode("leaf", cap, size, Copy(n.keys), Copy(n.values))
<1>1. /\ half \in 1 .. cap - 1
      /\ last \in 0 .. half
      /\ size = last + 1
      /\ size >= half /\ size < cap
      /\ half + last = cap - 1
  BY DEF LeafParity
<1>2. n.type = "leaf" /\ n.max_size = cap
  BY DEF IsLeaf
<1>3. split.left = left /\ split.right = right
  BY <1>2 DEF leaf_split_node, Lower, Upper
<1>4. \A i \in 0 .. cap - 1 : n.keys[i] \in K /\ n.values[i] \in R
  BY DEF IsLeaf
<1>5. IsLeaf(left, cap, K, R) /\ left.current_size = half
  <2>1. half \in 1 .. cap /\ \A i \in 0 .. half - 1 : n.keys[i] \in K /\ n.values[i] \in R
    BY <1>1, <1>4
  <2> DEFINE ks == n.keys
             vs == n.values
  <2>2. half \in 1 .. cap /\ \A i \in 0 .. half - 1 : ks[i] \in K /\ vs[i] \in R
    BY <2>1
  <2> HIDE DEF half, ks, vs
  <2>3. IsLeaf(NewNode("leaf", cap, half, ks, vs), cap, K, R)
        /\ NewNode("leaf", cap, half, ks, vs).current_size = half
    BY <2>2, NewNodeIsLeaf
  <2> QED BY <2>3 DEF ks, vs
<1>6. IsLeaf(right, cap, K, R) /\ right.current_size = size
  <2>1. ASSUME NEW i \in 0 .. size - 1
        PROVE  Copy(n.keys)[i] \in K /\ Copy(n.values)[i] \in R
    <3>1. i \in 0 .. cap - 1 /\ (i = last \/ half + i < cap - 1) /\ half + i \in Nat
      BY <1>1
    <3>2. cap - 1 \in 0 .. cap - 1
      OBVIOUS
    <3> HIDE DEF half, last, size
    <3> QED BY <1>4, <3>1, <3>2
  <2>2. size \in 1 .. cap
    BY <1>1
  <2> DEFINE ks == Copy(n.keys)
             vs == Copy(n.values)
  <2>3. \A i \in 0 .. size - 1 : ks[i] \in K /\ vs[i] \in R
    BY <2>1
  <2> HIDE DEF size, ks, vs
  <2>4. IsLeaf(NewNode("leaf", cap, size, ks, vs), cap, K, R)
        /\ NewNode("leaf", cap, size, ks, vs).current_size = size
    BY <2>2, <2>3, NewNodeIsLeaf
  <2> QED BY <2>4 DEF ks, vs
<1>7. /\ IsLeaf(split.left, cap, K, R) /\ IsLeaf(split.right, cap, K, R)
      /\ split.left.current_size = half /\ split.right.current_size = size
  <2> HIDE DEF left, right, split
  <2> QED BY <1>3, <1>5, <1>6
<1> HIDE DEF split, size
<1> QED BY <1>1, <1>7 DEF split

\* A full inner node is split into two, for every number of slots from five on,
\* and the last key of the left one is a key: the one that goes to the root
\* (b_plus_tree_node.hpp:284, 398-419; b_plus_tree.hpp:34-36).
THEOREM InnerSplits ==
    ASSUME NEW cap \in Nat, cap >= 5, NEW K, NEW P, NEW n, IsInner(n, cap, K, P),
           n.current_size = cap
    PROVE  LET split == inner_split_node(cap, n)
           IN  /\ IsInner(split.left, cap, K, P)
               /\ IsInner(split.right, cap, K, P)
               /\ split.left.current_size < cap
               /\ split.right.current_size < cap
               /\ split.left.keys[split.left.current_size - 1] \in K
<1> DEFINE half == cap \div 2
           last == half - InnerParity(cap)
           size == half + 1
           rest == size - InnerParity(cap)
           Copy(f) == [j \in 0 .. cap - 1 |->
                         IF j = last THEN f[cap - 1]
                         ELSE IF half + 1 + j < cap - 1 THEN f[half + 1 + j] ELSE NoKey]
           split == inner_split_node(cap, n)
           left == NewNode("inner", cap, size, n.keys, n.values)
           right == NewNode("inner", cap, rest, Copy(n.keys), Copy(n.values))
<1>1. /\ half \in 2 .. cap - 2
      /\ size = half + 1
      /\ last \in 1 .. half
      /\ rest = last + 1
      /\ rest < cap
      /\ half + 1 + last = cap - 1
  BY DEF InnerParity
<1>2. n.type = "inner" /\ n.max_size = cap
  BY DEF IsInner
<1>3. split.left = left /\ split.right = right
  BY <1>2 DEF inner_split_node, Lower, Upper
<1>4. \A i \in 0 .. cap - 1 : /\ n.values[i] \in P
                              /\ n.keys[i] \in K \cup {NoKey}
                              /\ i < cap - 1 => n.keys[i] \in K
  BY DEF IsInner
<1>5. IsInner(left, cap, K, P) /\ left.current_size = size /\ left.keys[size - 1] \in K
  <2>1. size \in 2 .. cap /\ \A i \in 0 .. size - 1 : /\ i < size - 1 => n.keys[i] \in K
                                                      /\ n.keys[i] \in K \cup {NoKey}
                                                      /\ n.values[i] \in P
    BY <1>1, <1>4
  <2>2. n.keys[size - 1] \in K
    BY <1>1, <1>4
  <2> DEFINE ks == n.keys
             vs == n.values
  <2>3. size \in 2 .. cap /\ \A i \in 0 .. size - 1 : /\ i < size - 1 => ks[i] \in K
                                                      /\ ks[i] \in K \cup {NoKey}
                                                      /\ vs[i] \in P
    BY <2>1
  <2> HIDE DEF size, ks, vs
  <2>4. /\ IsInner(NewNode("inner", cap, size, ks, vs), cap, K, P)
        /\ NewNode("inner", cap, size, ks, vs).current_size = size
        /\ NewNode("inner", cap, size, ks, vs).keys[size - 1] = ks[size - 1]
    BY <2>3, NewNodeIsInner
  <2> QED BY <2>2, <2>4 DEF ks, vs
<1>6. IsInner(right, cap, K, P) /\ right.current_size = rest
  <2>1. ASSUME NEW i \in 0 .. rest - 1
        PROVE  /\ i < rest - 1 => Copy(n.keys)[i] \in K
               /\ Copy(n.keys)[i] \in K \cup {NoKey}
               /\ Copy(n.values)[i] \in P
    <3>1. /\ i \in 0 .. cap - 1 /\ half + 1 + i \in Nat
          /\ IF i < rest - 1 THEN i # last /\ half + 1 + i < cap - 1 ELSE i = last
      BY <1>1
    <3>2. cap - 1 \in 0 .. cap - 1
      OBVIOUS
    <3> HIDE DEF half, last, rest
    <3> QED BY <1>4, <3>1, <3>2
  <2>2. rest \in 2 .. cap
    BY <1>1
  <2> DEFINE ks == Copy(n.keys)
             vs == Copy(n.values)
  <2>3. \A i \in 0 .. rest - 1 : /\ i < rest - 1 => ks[i] \in K
                                 /\ ks[i] \in K \cup {NoKey}
                                 /\ vs[i] \in P
    BY <2>1
  <2> HIDE DEF rest, ks, vs
  <2>4. IsInner(NewNode("inner", cap, rest, ks, vs), cap, K, P)
        /\ NewNode("inner", cap, rest, ks, vs).current_size = rest
    BY <2>2, <2>3, NewNodeIsInner
  <2> QED BY <2>4 DEF ks, vs
<1>7. /\ IsInner(split.left, cap, K, P) /\ IsInner(split.right, cap, K, P)
      /\ split.left.current_size = size /\ split.right.current_size = rest
      /\ split.left.keys[size - 1] \in K
  <2> HIDE DEF left, right, split
  <2> QED BY <1>3, <1>5, <1>6
<1>8. size < cap
  BY <1>1
<1> HIDE DEF split, size, rest
<1> QED BY <1>1, <1>7, <1>8 DEF split

\* A root over two nodes (b_plus_tree.hpp:29-49, 186-207).
LEMMA RootIsInner ==
    ASSUME NEW cap \in Nat, cap >= 3, NEW K, NEW P, NEW k \in K, NEW p \in P, NEW q \in P
    PROVE  LET n == NewNode("inner", cap, 2, [i \in {0, 1} |-> IF i = 0 THEN k ELSE NoKey],
                                             [i \in {0, 1} |-> IF i = 0 THEN p ELSE q])
           IN  IsInner(n, cap, K, P) /\ n.current_size = 2
<1> DEFINE ks == [i \in {0, 1} |-> IF i = 0 THEN k ELSE NoKey]
           vs == [i \in {0, 1} |-> IF i = 0 THEN p ELSE q]
<1>1. /\ 2 \in 2 .. cap
      /\ \A i \in 0 .. 2 - 1 : /\ i < 2 - 1 => ks[i] \in K
                               /\ ks[i] \in K \cup {NoKey}
                               /\ vs[i] \in P
  OBVIOUS
<1> HIDE DEF ks, vs
<1>2. IsInner(NewNode("inner", cap, 2, ks, vs), cap, K, P)
      /\ NewNode("inner", cap, 2, ks, vs).current_size = 2
  BY <1>1, NewNodeIsInner
<1> QED BY <1>2 DEF ks, vs

\* The key that went to the root is taken out of the left part
\* (b_plus_tree.hpp:38).
LEMMA BlankedIsInner ==
    ASSUME NEW cap \in Nat, NEW K, NEW P, NEW n, IsInner(n, cap, K, P)
    PROVE  LET m == [n EXCEPT !.keys[n.current_size - 1] = NoKey]
           IN  IsInner(m, cap, K, P) /\ m.current_size = n.current_size
<1> DEFINE last == n.current_size - 1
           keys == [n.keys EXCEPT ![last] = NoKey]
           m == [n EXCEPT !.keys[n.current_size - 1] = NoKey]
<1>1. m = [type |-> "inner", max_size |-> cap, current_size |-> n.current_size,
           keys |-> keys, values |-> n.values]
  <2> DEFINE ks == n.keys
             vs == n.values
             size == n.current_size
  <2>1. n = [type |-> "inner", max_size |-> cap, current_size |-> size,
             keys |-> ks, values |-> vs]
    BY DEF IsInner
  <2>2. m = [n EXCEPT !.keys = keys]
    BY Zenon
  <2> HIDE DEF ks, vs, size, keys, m
  <2>3. m = [type |-> "inner", max_size |-> cap, current_size |-> size,
             keys |-> keys, values |-> vs]
    BY <2>1, <2>2
  <2> QED BY <2>3 DEF size, vs
<1>2. keys \in [0 .. cap - 1 -> K \cup {NoKey}]
  BY DEF IsInner
<1>3. ASSUME NEW i \in 0 .. cap - 1
      PROVE  /\ i < n.current_size - 1 => keys[i] \in K
             /\ i >= n.current_size => keys[i] = NoKey
             /\ IF i < n.current_size THEN n.values[i] \in P ELSE n.values[i] = NoKey
  BY DEF IsInner
<1> HIDE DEF m, keys
<1>4. IsInner(m, cap, K, P) /\ m.current_size = n.current_size
  BY <1>1, <1>2, <1>3 DEF IsInner
<1> QED BY <1>4 DEF m

\* More pages may become children.
LEMMA InnerGrows ==
    ASSUME NEW cap, NEW K, NEW P, NEW Q, P \subseteq Q, NEW n, IsInner(n, cap, K, P)
    PROVE  IsInner(n, cap, K, Q)
<1>1. n.values \in [0 .. cap - 1 -> Q \cup {NoKey}]
  BY DEF IsInner
<1> QED BY <1>1 DEF IsInner
-----------------------------------------------------------------------------
(* What the searches find.                                                 *)

\* The first `size' slots hold keys, in order and each once.
Sorted(keys, size) ==
    /\ \A i \in 0 .. size - 1 : keys[i] \in Int
    /\ \A i, j \in 0 .. size - 1 : i < j => keys[i] < keys[j]

\* When the slots to go left at are those from m on, the binary search ends at m:
\* it finds what a look at every slot would (b_plus_tree_node.hpp:155-162,
\* 346-353, 487-494).
THEOREM BisectFindsFirst ==
    ASSUME NEW high \in Nat, NEW m \in 0 .. high, NEW left,
           \A i \in 0 .. high - 1 : i \in left <=> i >= m
    PROVE  Bisect(left, high) = m
<1> DEFINE R == (0 .. high) \X (0 .. high)
<1>1. PICK f : /\ f = [r \in R |->
                          IF r[2] > r[1]
                          THEN IF (r[1] + r[2]) \div 2 \in left
                               THEN f[<<r[1], (r[1] + r[2]) \div 2>>]
                               ELSE f[<<(r[1] + r[2]) \div 2 + 1, r[2]>>]
                          ELSE r[1]]
               /\ Bisect(left, high) = f[<<0, high>>]
  BY BisectFunction
<1> DEFINE Bad == {d \in Nat : \E r \in R : /\ r[2] - r[1] = d
                                            /\ r[1] =< m /\ m =< r[2]
                                            /\ f[r] # m}
<1>2. Bad = {}
  <2>1. SUFFICES ASSUME Bad # {} PROVE FALSE
    OBVIOUS
  <2>2. PICK d \in Bad : \A e \in Bad : d =< e
    <3>1. Bad \subseteq Nat
      OBVIOUS
    <3> HIDE DEF Bad
    <3> QED BY <2>1, <3>1, LeastNat
  <2>3. PICK r \in R : r[2] - r[1] = d /\ r[1] =< m /\ m =< r[2] /\ f[r] # m
    OBVIOUS
  <2>10. r[1] \in 0 .. high /\ r[2] \in 0 .. high
    OBVIOUS
  <2>4. r[2] > r[1]
    <3>1. SUFFICES ASSUME ~ (r[2] > r[1]) PROVE FALSE
      OBVIOUS
    <3>2. r[1] = m
      BY <2>10, <2>3, <3>1
    <3>3. f[r] = r[1]
      BY <1>1, <3>1
    <3> QED BY <2>3, <3>2, <3>3
  <2> DEFINE middle == (r[1] + r[2]) \div 2
             s == IF middle \in left THEN <<r[1], middle>> ELSE <<middle + 1, r[2]>>
  <2>5. s \in R /\ s[2] - s[1] \in Nat /\ s[2] - s[1] < d
    BY <2>3, <2>4
  <2>6. middle \in 0 .. high - 1
    BY <2>3, <2>4
  <2>7. s[1] =< m /\ m =< s[2]
    <3>1. CASE middle \in left
      BY <2>3, <2>6, <3>1
    <3>2. CASE middle \notin left
      BY <2>3, <2>6, <3>2
    <3> QED BY <3>1, <3>2
  <2>8. f[r] = f[s]
    BY <1>1, <2>4
  <2>9. s[2] - s[1] \in Bad
    BY <2>3, <2>5, <2>7, <2>8
  <2> QED BY <2>2, <2>5, <2>9
<1>3. <<0, high>> \in R /\ high - 0 \in Nat
  OBVIOUS
<1>4. f[<<0, high>>] = m
  BY <1>2, <1>3
<1> QED BY <1>1, <1>4

\* In a sorted node the slots with keys from some value on are the last ones.
LEMMA FirstSlot ==
    ASSUME NEW keys, NEW high \in Nat, Sorted(keys, high + 1),
           NEW S, S \subseteq 0 .. high, high \in S,
           \A i, j \in 0 .. high : i \in S /\ i < j => j \in S
    PROVE  \E m \in 0 .. high : \A i \in 0 .. high : i \in S <=> i >= m
<1>1. PICK m \in S : \A i \in S : m =< i
  <2>1. S \subseteq Nat /\ S # {}
    OBVIOUS
  <2> QED BY <2>1, LeastNat
<1>2. ASSUME NEW i \in 0 .. high PROVE i \in S <=> i >= m
  BY <1>1
<1> QED BY <1>1, <1>2

\* A search goes down to the child that the keys around it stand for
\* (b_plus_tree_node.hpp:475-498).
THEOREM SearchGoesDown ==
    ASSUME NEW n, NEW k \in Int, n.current_size \in Nat, n.current_size >= 2,
           Sorted(n.keys, n.current_size - 1)
    PROVE  /\ inner_find_index(n, k) \in 0 .. n.current_size - 1
           /\ \A i \in 0 .. n.current_size - 2 :
                 n.keys[i] > k <=> i >= inner_find_index(n, k)
<1> DEFINE high == n.current_size - 2
           keys == n.keys
           S == {i \in 0 .. high : keys[i] > k}
           c == inner_find_index(n, k)
<1>1. high \in Nat /\ Sorted(keys, high + 1)
  OBVIOUS
<1>2. c = IF k >= keys[high] THEN high + 1 ELSE Bisect(S, high)
  BY DEF inner_find_index
<1>3. n.current_size = high + 2
  OBVIOUS
<1> HIDE DEF c, high, keys
<1>4. /\ \A i \in 0 .. high : keys[i] \in Int
      /\ \A i, j \in 0 .. high : i < j => keys[i] < keys[j]
  BY <1>1 DEF Sorted
<1>5. CASE k >= keys[high]
  <2>1. c = high + 1
    BY <1>2, <1>5
  <2>2. ASSUME NEW i \in 0 .. high PROVE ~ (keys[i] > k)
    BY <1>1, <1>4, <1>5
  <2> QED BY <1>1, <1>3, <2>1, <2>2 DEF c, high, keys
<1>6. CASE ~ (k >= keys[high])
  <2>1. high \in S
    BY <1>1, <1>4, <1>6
  <2>2. \A i, j \in 0 .. high : i \in S /\ i < j => j \in S
    BY <1>4
  <2>3. S \subseteq 0 .. high
    OBVIOUS
  <2>4. \A i \in 0 .. high : i \in S <=> keys[i] > k
    OBVIOUS
  <2>5. c = Bisect(S, high)
    BY <1>2, <1>6
  <2> HIDE DEF S
  <2>6. PICK m \in 0 .. high : \A i \in 0 .. high : i \in S <=> i >= m
    BY <1>1, <2>1, <2>2, <2>3, FirstSlot
  <2>7. \A i \in 0 .. high - 1 : i \in S <=> i >= m
    BY <1>1, <2>6
  <2>8. c = m
    BY <1>1, <2>5, <2>7, BisectFindsFirst
  <2>9. c \in 0 .. high + 1 /\ \A i \in 0 .. high : keys[i] > k <=> i >= c
    BY <1>1, <2>4, <2>6, <2>8
  <2> QED BY <1>1, <1>3, <2>9 DEF c, high, keys
<1> QED BY <1>5, <1>6

\* A key that is not there yet is given the slot before the first key above it,
\* whichever way the slot is searched for (b_plus_tree_node.hpp:135-166,
\* 326-357).
THEOREM PlaceKeepsOrder ==
    ASSUME NEW n, NEW k \in Int, NEW size \in Nat \ {0}, Sorted(n.keys, size),
           \A i \in 0 .. size - 1 : n.keys[i] # k
    PROVE  /\ PlaceFor(n, k, size) \in 0 .. size
           /\ \A i \in 0 .. size - 1 : n.keys[i] > k <=> i >= PlaceFor(n, k, size)
<1> DEFINE keys == n.keys
           c == PlaceFor(n, k, size)
           high == size - 1
           S == {i \in 0 .. high : keys[i] > k}
           T == {i \in 0 .. high : keys[i] >= k}
<1>1. high \in Nat /\ Sorted(keys, high + 1) /\ size = high + 1
  OBVIOUS
<1>2. c = IF n.current_size < 5 THEN Min(S \cup {size})
          ELSE IF k > keys[high] THEN size ELSE Bisect(T, high)
  BY DEF PlaceFor, FirstAbove
<1>3. \A i \in 0 .. high : keys[i] # k
  OBVIOUS
<1> HIDE DEF c, high, keys
<1>4. /\ \A i \in 0 .. high : keys[i] \in Int
      /\ \A i, j \in 0 .. high : i < j => keys[i] < keys[j]
  BY <1>1 DEF Sorted
<1>5. /\ T = S
      /\ \A i \in 0 .. high : i \in S <=> keys[i] > k
      /\ S \subseteq 0 .. high
  BY <1>3, <1>4
<1>6. \A i, j \in 0 .. high : i \in S /\ i < j => j \in S
  BY <1>4
<1> HIDE DEF S, T
<1>7. c \in 0 .. size /\ \A i \in 0 .. high : i \in S <=> i >= c
  <2>1. CASE high \in S
    <3>1. PICK m \in 0 .. high : \A i \in 0 .. high : i \in S <=> i >= m
      BY <1>1, <1>5, <1>6, <2>1, FirstSlot
    <3>2. c = m
      <4>1. CASE n.current_size < 5
        <5>1. Min(S \cup {size}) = m
          <6> DEFINE U == S \cup {size}
          <6>1. m \in U
            BY <1>1, <3>1
          <6>2. ASSUME NEW i \in U PROVE m =< i /\ i \in Nat
            <7>1. CASE i = size
              BY <1>1, <7>1
            <7>2. CASE i \in S
              <8>1. i \in 0 .. high
                BY <1>5, <7>2
              <8> QED BY <1>1, <3>1, <7>2, <8>1
            <7> QED BY <7>1, <7>2
          <6> HIDE DEF U
          <6>3. Min(U) = CHOOSE x \in U : \A y \in U : x =< y
            BY Zenon DEF Min
          <6>5. Min(U) \in U /\ \A y \in U : Min(U) =< y
            BY <6>1, <6>2, <6>3, Zenon
          <6>6. Min(U) =< m /\ m =< Min(U) /\ Min(U) \in Nat
            BY <6>1, <6>2, <6>5, Zenon
          <6>4. Min(U) = m
            BY <6>6
          <6> QED BY <6>4 DEF U
        <5> QED BY <1>2, <4>1, <5>1
      <4>2. CASE ~ (n.current_size < 5)
        <5>1. ~ (k > keys[high])
          BY <1>1, <1>4, <1>5, <2>1
        <5>2. \A i \in 0 .. high - 1 : i \in S <=> i >= m
          BY <1>1, <3>1
        <5> QED BY <1>1, <1>2, <1>5, <4>2, <5>1, <5>2, BisectFindsFirst
      <4> QED BY <4>1, <4>2
    <3> QED BY <1>1, <3>1, <3>2
  <2>2. CASE high \notin S
    <3>1. S = {}
      BY <1>1, <1>5, <1>6, <2>2
    <3>2. c = size
      <4>1. Min({} \cup {size}) = size
        BY DEF Min
      <4>2. k > keys[high]
        BY <1>1, <1>3, <1>4, <1>5, <2>2
      <4> QED BY <1>2, <3>1, <4>1, <4>2
    <3> QED BY <1>1, <3>1, <3>2
  <2> QED BY <2>1, <2>2
<1> QED BY <1>1, <1>5, <1>7 DEF c, high, keys

\* The search of a leaf, as the function its definition chooses.
LEMMA LeafSearchFunction ==
    ASSUME NEW n, NEW k, n.current_size \in Nat \ {0}
    PROVE  LET top == n.current_size - 1
               R == (0 .. top) \X (-1 .. top)
               Middle(r) == IF r[1] + r[2] < 0 THEN 0 ELSE (r[1] + r[2]) \div 2
           IN  \E f : /\ f = [r \in R |->
                                IF r[2] > r[1] /\ n.keys[Middle(r)] # k
                                THEN IF n.keys[Middle(r)] > k
                                     THEN f[<<r[1], Middle(r) - 1>>]
                                     ELSE f[<<Middle(r) + 1, r[2]>>]
                                ELSE Middle(r)]
                      /\ leaf_find_index(n, k)
                            = IF n.keys[f[<<0, top>>]] = k THEN f[<<0, top>>] ELSE NoIndex
<1> DEFINE top == n.current_size - 1
           R == (0 .. top) \X (-1 .. top)
           Middle(r) == IF r[1] + r[2] < 0 THEN 0 ELSE (r[1] + r[2]) \div 2
           Halve(f, r) == IF r[2] > r[1] /\ n.keys[Middle(r)] # k
                            THEN IF n.keys[Middle(r)] > k
                                 THEN f[<<r[1], Middle(r) - 1>>]
                                 ELSE f[<<Middle(r) + 1, r[2]>>]
                            ELSE Middle(r)
           G(f) == [r \in R |-> Halve(f, r)]
           E == CHOOSE f : f = G(f)
           Good(f, m) == \A r \in R : r[2] - r[1] < m => f[r] = Halve(f, r)
           Bad == {m \in Nat : ~ \E f \in [R -> 0 .. top] : Good(f, m)}
<1>1. top \in Nat
  OBVIOUS
<1>2. ASSUME NEW r \in R
      PROVE  /\ r[1] \in Int /\ r[2] \in Int /\ r[2] - r[1] =< top
             /\ Middle(r) \in 0 .. top
             /\ r[2] > r[1] => /\ <<r[1], Middle(r) - 1>> \in R
                               /\ <<Middle(r) + 1, r[2]>> \in R
                               /\ Middle(r) - 1 - r[1] < r[2] - r[1]
                               /\ r[2] - (Middle(r) + 1) < r[2] - r[1]
  <2>1. r[1] \in 0 .. top /\ r[2] \in -1 .. top
    OBVIOUS
  <2> HIDE DEF top
  <2> QED BY <1>1, <2>1
<1>6. Bad = {}
  <2>1. SUFFICES ASSUME Bad # {} PROVE FALSE
    OBVIOUS
  <2>2. PICK m \in Bad : \A x \in Bad : m =< x
    <3>1. Bad \subseteq Nat
      OBVIOUS
    <3> HIDE DEF Bad
    <3> QED BY <2>1, <3>1, LeastNat
  <2>3. m # 0
    <3> DEFINE out == [r \in R |-> Middle(r)]
    <3>1. out \in [R -> 0 .. top]
      BY <1>2
    <3>2. ASSUME NEW r \in R, r[2] - r[1] < 0 PROVE out[r] = Halve(out, r)
      <4>1. ~ (r[2] > r[1])
        BY <1>2, <3>2
      <4> QED BY <4>1
    <3> HIDE DEF out
    <3> QED BY <3>1, <3>2, <2>2
  <2>4. m - 1 \in Nat /\ m - 1 \notin Bad
    <3>1. m \in Nat
      OBVIOUS
    <3> HIDE DEF Bad
    <3> QED BY <2>2, <2>3, <3>1
  <2>5. PICK f \in [R -> 0 .. top] : Good(f, m - 1)
    BY <2>4
  <2> DEFINE g == [r \in R |-> IF r[2] - r[1] < m - 1 THEN f[r] ELSE Halve(f, r)]
  <2>6. g \in [R -> 0 .. top]
    BY <1>2
  <2>7. Good(g, m)
    <3>1. SUFFICES ASSUME NEW r \in R, r[2] - r[1] < m PROVE g[r] = Halve(g, r)
      OBVIOUS
    <3>2. g[r] = Halve(f, r)
      BY <2>5
    <3>3. ASSUME NEW s \in R, s[2] - s[1] < r[2] - r[1] PROVE g[s] = f[s]
      <4>1. s[2] - s[1] < m - 1
        BY <1>2, <2>4, <3>1, <3>3
      <4> QED BY <4>1
    <3>4. r[2] > r[1] =>
             /\ g[<<r[1], Middle(r) - 1>>] = f[<<r[1], Middle(r) - 1>>]
             /\ g[<<Middle(r) + 1, r[2]>>] = f[<<Middle(r) + 1, r[2]>>]
      <4> DEFINE s == <<r[1], Middle(r) - 1>>
                 t == <<Middle(r) + 1, r[2]>>
      <4>1. r[2] > r[1] => /\ s \in R /\ s[2] - s[1] < r[2] - r[1]
                          /\ t \in R /\ t[2] - t[1] < r[2] - r[1]
        BY <1>2
      <4> HIDE DEF s, t, g
      <4>2. r[2] > r[1] => g[s] = f[s] /\ g[t] = f[t]
        BY <3>3, <4>1
      <4> QED BY <4>2 DEF s, t
    <3> HIDE DEF g
    <3> QED BY <3>2, <3>4
  <2> QED BY <2>2, <2>6, <2>7
<1>3. \E f : f = G(f)
  <2>1. PICK f \in [R -> 0 .. top] : Good(f, top + 1)
    <3>1. top + 1 \in Nat /\ top + 1 \notin Bad
      <4> HIDE DEF Bad
      <4> QED BY <1>1, <1>6
    <3> HIDE DEF Good
    <3> QED BY <3>1
  <2>2. \A r \in R : r[2] - r[1] < top + 1
    BY <1>1, <1>2
  <2>3. \A r \in R : f[r] = Halve(f, r)
    BY <2>1, <2>2
  <2> QED BY <2>1, <2>3
<1>4. E = G(E)
  <2> HIDE DEF G
  <2> QED BY <1>3
<1>5. leaf_find_index(n, k) = IF n.keys[E[<<0, top>>]] = k THEN E[<<0, top>>] ELSE NoIndex
  BY DEF leaf_find_index
<1> QED BY <1>4, <1>5

\* find_index of a leaf with something in it stays inside it, and what it returns
\* holds the key; when the keys are in order and it returns nothing, the key is in
\* no slot (b_plus_tree_node.hpp:168-191).
THEOREM LeafSearchFinds ==
    ASSUME NEW n, NEW k \in Int, n.current_size \in Nat \ {0}
    PROVE  /\ \/ leaf_find_index(n, k) = NoIndex
              \/ /\ leaf_find_index(n, k) \in Slots(n)
                 /\ n.keys[leaf_find_index(n, k)] = k
           /\ Sorted(n.keys, n.current_size) /\ leaf_find_index(n, k) = NoIndex =>
                 \A i \in Slots(n) : n.keys[i] # k
<1> DEFINE top == n.current_size - 1
           R == (0 .. top) \X (-1 .. top)
           Middle(r) == IF r[1] + r[2] < 0 THEN 0 ELSE (r[1] + r[2]) \div 2
           keys == n.keys
<1>1. PICK f : /\ f = [r \in R |->
                          IF r[2] > r[1] /\ n.keys[Middle(r)] # k
                          THEN IF n.keys[Middle(r)] > k
                               THEN f[<<r[1], Middle(r) - 1>>]
                               ELSE f[<<Middle(r) + 1, r[2]>>]
                          ELSE Middle(r)]
               /\ leaf_find_index(n, k)
                     = IF n.keys[f[<<0, top>>]] = k THEN f[<<0, top>>] ELSE NoIndex
  BY LeafSearchFunction
<1>2. \A r \in R : f[r] = IF r[2] > r[1] /\ keys[Middle(r)] # k
                          THEN IF keys[Middle(r)] > k
                               THEN f[<<r[1], Middle(r) - 1>>]
                               ELSE f[<<Middle(r) + 1, r[2]>>]
                          ELSE Middle(r)
  BY <1>1
<1>3. leaf_find_index(n, k) = IF keys[f[<<0, top>>]] = k THEN f[<<0, top>>] ELSE NoIndex
  BY <1>1
<1>4. top \in Nat /\ Slots(n) = 0 .. top
  BY DEF Slots
<1>5. Sorted(n.keys, n.current_size) =>
         /\ \A i \in 0 .. top : keys[i] \in Int
         /\ \A i, j \in 0 .. top : i < j => keys[i] < keys[j]
  BY DEF Sorted
<1> HIDE DEF top, keys
<1>6. ASSUME NEW r \in R
      PROVE  /\ r[1] \in 0 .. top /\ r[2] \in -1 .. top
             /\ Middle(r) \in 0 .. top
             /\ r[2] > r[1] => /\ <<r[1], Middle(r) - 1>> \in R
                               /\ <<Middle(r) + 1, r[2]>> \in R
                               /\ r[1] =< Middle(r) /\ Middle(r) < r[2]
  <2>1. r[1] \in 0 .. top /\ r[2] \in -1 .. top
    OBVIOUS
  <2> QED BY <1>4, <2>1
<1> DEFINE Size(r) == IF r[2] > r[1] THEN r[2] - r[1] ELSE 0
<1>7. ASSUME NEW r \in R PROVE f[r] \in 0 .. top
  <2> DEFINE Bad == {m \in Nat : \E s \in R : Size(s) = m /\ f[s] \notin 0 .. top}
  <2>1. SUFFICES ASSUME Bad # {} PROVE FALSE
    <3>1. Size(r) \in Nat
      BY <1>4, <1>6
    <3> QED BY <3>1
  <2>2. PICK m \in Bad : \A x \in Bad : m =< x
    <3>1. Bad \subseteq Nat
      OBVIOUS
    <3> HIDE DEF Bad
    <3> QED BY <2>1, <3>1, LeastNat
  <2>3. PICK s \in R : Size(s) = m /\ f[s] \notin 0 .. top
    OBVIOUS
  <2>4. s[2] > s[1] /\ keys[Middle(s)] # k
    BY <1>2, <1>6, <2>3
  <2> DEFINE next == IF keys[Middle(s)] > k THEN <<s[1], Middle(s) - 1>>
                                            ELSE <<Middle(s) + 1, s[2]>>
  <2>5. next \in R /\ f[s] = f[next]
    BY <1>2, <1>6, <2>4
  <2>6. Size(next) \in Nat /\ Size(next) < m
    <3>1. m = s[2] - s[1]
      BY <2>3, <2>4
    <3>2. /\ s[1] \in 0 .. top /\ s[2] \in -1 .. top /\ Middle(s) \in 0 .. top
          /\ s[1] =< Middle(s) /\ Middle(s) < s[2]
      BY <1>6, <2>4
    <3> DEFINE mid == Middle(s)
    <3>3. /\ mid \in Int /\ s[1] \in Int /\ s[2] \in Int
          /\ s[1] =< mid /\ mid < s[2]
      BY <3>2
    <3> HIDE DEF mid
    <3>4. \/ next[1] = s[1] /\ next[2] = mid - 1
          \/ next[1] = mid + 1 /\ next[2] = s[2]
      BY DEF mid
    <3>6. m \in Nat
      OBVIOUS
    <3> HIDE DEF next, Bad, R
    <3>5. next[1] \in Int /\ next[2] \in Int /\ next[2] - next[1] < m /\ m > 0
      BY <3>1, <3>3, <3>4, <3>6
    <3> QED BY <3>5, <3>6
  <2>7. Size(next) \in Bad
    <3> HIDE DEF next
    <3> QED BY <2>3, <2>5, <2>6
  <2> HIDE DEF Bad, Size
  <2>8. m \in Nat
    BY DEF Bad
  <2> QED BY <2>2, <2>6, <2>7, <2>8
<1>8. <<0, top>> \in R
  BY <1>4
<1>9. ASSUME Sorted(n.keys, n.current_size), NEW j \in 0 .. top, keys[j] = k
      PROVE  keys[f[<<0, top>>]] = k
  <2> DEFINE Bad == {m \in Nat : \E s \in R : /\ Size(s) = m
                                              /\ s[1] =< j /\ j =< s[2]
                                              /\ keys[f[s]] # k}
  <2>1. SUFFICES ASSUME Bad # {} PROVE FALSE
    <3>1. Size(<<0, top>>) \in Nat
      BY <1>4
    <3> QED BY <1>4, <1>8, <3>1
  <2>2. PICK m \in Bad : \A x \in Bad : m =< x
    <3>1. Bad \subseteq Nat
      OBVIOUS
    <3> HIDE DEF Bad
    <3> QED BY <2>1, <3>1, LeastNat
  <2>3. PICK s \in R : Size(s) = m /\ s[1] =< j /\ j =< s[2] /\ keys[f[s]] # k
    OBVIOUS
  <2>4. s[2] > s[1] /\ keys[Middle(s)] # k
    <3>1. CASE s[2] > s[1]
      BY <1>2, <2>3, <3>1
    <3>2. CASE ~ (s[2] > s[1])
      <4>1. Middle(s) = j
        BY <1>4, <1>6, <2>3, <3>2
      <4>2. f[s] = Middle(s)
        BY <1>2, <3>2
      <4> QED BY <1>9, <2>3, <4>1, <4>2
    <3> QED BY <3>1, <3>2
  <2> DEFINE next == IF keys[Middle(s)] > k THEN <<s[1], Middle(s) - 1>>
                                            ELSE <<Middle(s) + 1, s[2]>>
  <2>5. next \in R /\ f[s] = f[next]
    BY <1>2, <1>6, <2>4
  <2>6. next[1] =< j /\ j =< next[2]
    <3>1. /\ \A i \in 0 .. top : keys[i] \in Int
          /\ \A x, y \in 0 .. top : x < y => keys[x] < keys[y]
      BY <1>5, <1>9
    <3>2. /\ Middle(s) \in 0 .. top /\ keys[Middle(s)] \in Int
          /\ s[1] \in 0 .. top /\ s[2] \in -1 .. top
      BY <1>6, <3>1
    <3> DEFINE mid == Middle(s)
    <3> HIDE DEF mid
    <3>3. mid < j => keys[mid] < k
      BY <1>4, <1>9, <3>1, <3>2 DEF mid
    <3>4. j < mid => keys[mid] > k
      BY <1>4, <1>9, <3>1, <3>2 DEF mid
    <3>5. mid # j
      BY <1>9, <2>4 DEF mid
    <3>6. /\ keys[mid] > k => next[1] = s[1] /\ next[2] = mid - 1
          /\ ~ (keys[mid] > k) => next[1] = mid + 1 /\ next[2] = s[2]
      BY DEF mid
    <3>7. mid \in 0 .. top /\ keys[mid] \in Int
      BY <3>2 DEF mid
    <3> HIDE DEF next
    <3>8. CASE keys[mid] > k
      <4>1. ~ (mid < j)
        BY <3>3, <3>7, <3>8
      <4> QED BY <1>4, <2>3, <3>2, <3>5, <3>6, <3>7, <3>8, <4>1
    <3>9. CASE ~ (keys[mid] > k)
      <4>1. ~ (j < mid)
        BY <3>4, <3>7, <3>9
      <4> QED BY <1>4, <2>3, <3>2, <3>5, <3>6, <3>7, <3>9, <4>1
    <3> QED BY <3>8, <3>9
  <2>7. Size(next) \in Nat /\ Size(next) < m
    <3>1. m = s[2] - s[1]
      BY <2>3, <2>4
    <3>2. /\ s[1] \in 0 .. top /\ s[2] \in -1 .. top /\ Middle(s) \in 0 .. top
          /\ s[1] =< Middle(s) /\ Middle(s) < s[2]
      BY <1>6, <2>4
    <3> DEFINE mid == Middle(s)
    <3>3. /\ mid \in Int /\ s[1] \in Int /\ s[2] \in Int
          /\ s[1] =< mid /\ mid < s[2]
      BY <3>2
    <3> HIDE DEF mid
    <3>4. \/ next[1] = s[1] /\ next[2] = mid - 1
          \/ next[1] = mid + 1 /\ next[2] = s[2]
      BY DEF mid
    <3>6. m \in Nat
      OBVIOUS
    <3> HIDE DEF next, Bad, R
    <3>5. next[1] \in Int /\ next[2] \in Int /\ next[2] - next[1] < m /\ m > 0
      BY <3>1, <3>3, <3>4, <3>6
    <3> QED BY <3>5, <3>6
  <2>8. Size(next) \in Bad
    <3> HIDE DEF next
    <3> QED BY <2>3, <2>5, <2>6, <2>7
  <2> HIDE DEF Bad, Size
  <2>9. m \in Nat
    BY DEF Bad
  <2> QED BY <2>2, <2>7, <2>8, <2>9
<1>10. f[<<0, top>>] \in 0 .. top
  BY <1>7, <1>8
<1>11. NoIndex \notin 0 .. top
  BY <1>4 DEF NoIndex
<1> QED BY <1>3, <1>4, <1>9, <1>10, <1>11 DEF keys
-----------------------------------------------------------------------------
(* What is in which slot.                                                  *)

\* An insertion puts the key and its record in a slot, and moves the slots from
\* there on up (b_plus_tree_node.hpp:193-214).
LEMMA InsertedSlots ==
    ASSUME NEW cap \in Nat, NEW K, NEW R, NEW n, IsLeaf(n, cap, K, R),
           can_insert_trivially(n), NEW k \in K, NEW v \in R
    PROVE  LET filled == trivial_insert(n, k, v)
               where == leaf_find_index_for_insert(n, k)
           IN  /\ where \in 0 .. n.current_size
               /\ filled.current_size = n.current_size + 1
               /\ \A i \in 0 .. n.current_size :
                     /\ i = where => filled.keys[i] = k /\ filled.values[i] = v
                     /\ i < where => /\ filled.keys[i] = n.keys[i]
                                     /\ filled.values[i] = n.values[i]
                     /\ i > where => /\ filled.keys[i] = n.keys[i - 1]
                                     /\ filled.values[i] = n.values[i - 1]
<1> DEFINE size == n.current_size
           oldkeys == n.keys
           oldvalues == n.values
           where == leaf_find_index_for_insert(n, k)
           keys == Shifted(oldkeys, where, k, size)
           values == Shifted(oldvalues, where, v, size)
           filled == trivial_insert(n, k, v)
<1>1. size \in Nat /\ size >= 1 /\ size < cap
  BY DEF IsLeaf, can_insert_trivially
<1>2. where \in 0 .. size
  BY <1>1, PlaceInRange DEF leaf_find_index_for_insert
<1>3. filled = [n EXCEPT !.keys = keys, !.values = values, !.current_size = size + 1]
  BY DEF trivial_insert
<1>4. n = [type |-> "leaf", max_size |-> cap, current_size |-> size,
           keys |-> oldkeys, values |-> oldvalues]
  BY DEF IsLeaf
<1>5. DOMAIN oldkeys = 0 .. cap - 1 /\ DOMAIN oldvalues = 0 .. cap - 1
  BY DEF IsLeaf
<1> HIDE DEF where, filled, size, oldkeys, oldvalues
<1>6. ASSUME NEW i \in 0 .. size
      PROVE  /\ i = where => keys[i] = k /\ values[i] = v
             /\ i < where => keys[i] = oldkeys[i] /\ values[i] = oldvalues[i]
             /\ i > where => keys[i] = oldkeys[i - 1] /\ values[i] = oldvalues[i - 1]
  <2>1. i \in 0 .. cap - 1 /\ where \in Int
    BY <1>1, <1>2
  <2>2. /\ i = where => keys[i] = k
        /\ where < i /\ i =< size => keys[i] = oldkeys[i - 1]
        /\ i < where \/ (where < i /\ size < i) => keys[i] = oldkeys[i]
    BY <1>1, <1>5, <2>1, ShiftedAt
  <2>3. /\ i = where => values[i] = v
        /\ where < i /\ i =< size => values[i] = oldvalues[i - 1]
        /\ i < where \/ (where < i /\ size < i) => values[i] = oldvalues[i]
    BY <1>1, <1>5, <2>1, ShiftedAt
  <2> HIDE DEF keys, values
  <2> QED BY <1>1, <2>1, <2>2, <2>3
<1> HIDE DEF keys, values
<1>7. filled = [type |-> "leaf", max_size |-> cap, current_size |-> size + 1,
                keys |-> keys, values |-> values]
  BY <1>3, <1>4, Refilled, Zenon
<1>8. filled.keys = keys /\ filled.values = values /\ filled.current_size = size + 1
  BY <1>7
<1> QED BY <1>2, <1>6, <1>8 DEF where, filled, size, oldkeys, oldvalues

\* The keys and records of a leaf.
Pairs(n) == {<<n.keys[i], n.values[i]>> : i \in Slots(n)}

\* It adds one pair and loses none.
LEMMA InsertAddsPair ==
    ASSUME NEW cap \in Nat, NEW K, NEW R, NEW n, IsLeaf(n, cap, K, R),
           can_insert_trivially(n), NEW k \in K, NEW v \in R
    PROVE  Pairs(trivial_insert(n, k, v)) = Pairs(n) \cup {<<k, v>>}
<1> DEFINE filled == trivial_insert(n, k, v)
           where == leaf_find_index_for_insert(n, k)
           size == n.current_size
           keys == n.keys
           values == n.values
<1>1. size \in Nat
  BY DEF IsLeaf
<1>2. /\ where \in 0 .. size
      /\ filled.current_size = size + 1
      /\ \A i \in 0 .. size :
            /\ i = where => filled.keys[i] = k /\ filled.values[i] = v
            /\ i < where => filled.keys[i] = keys[i] /\ filled.values[i] = values[i]
            /\ i > where => filled.keys[i] = keys[i - 1] /\ filled.values[i] = values[i - 1]
  BY InsertedSlots
<1>3. /\ Pairs(n) = {<<keys[i], values[i]>> : i \in 0 .. size - 1}
      /\ Pairs(filled) = {<<filled.keys[i], filled.values[i]>> : i \in 0 .. filled.current_size - 1}
  BY DEF Pairs, Slots
<1> HIDE DEF filled, where, size, keys, values
<1>4. Pairs(filled) = {<<filled.keys[i], filled.values[i]>> : i \in 0 .. size}
  <2>1. 0 .. filled.current_size - 1 = 0 .. size
    BY <1>1, <1>2
  <2> QED BY <1>3, <2>1
<1>5. ASSUME NEW i \in 0 .. size
      PROVE  <<filled.keys[i], filled.values[i]>> \in Pairs(n) \cup {<<k, v>>}
  <2>1. CASE i = where
    BY <1>2, <2>1
  <2>2. CASE i < where
    <3>1. i \in 0 .. size - 1
      BY <1>1, <1>2, <2>2
    <3> QED BY <1>2, <1>3, <2>2, <3>1
  <2>3. CASE i > where
    <3>1. i - 1 \in 0 .. size - 1
      BY <1>1, <1>2, <2>3
    <3>2. filled.keys[i] = keys[i - 1] /\ filled.values[i] = values[i - 1]
      BY <1>2, <2>3
    <3> QED BY <1>3, <3>1, <3>2
  <2> QED BY <1>1, <1>2, <2>1, <2>2, <2>3
<1>6. <<k, v>> \in Pairs(filled)
  BY <1>2, <1>4
<1>7. ASSUME NEW i \in 0 .. size - 1 PROVE <<keys[i], values[i]>> \in Pairs(filled)
  <2>1. CASE i < where
    <3>1. i \in 0 .. size
      BY <1>1
    <3> QED BY <1>2, <1>4, <2>1, <3>1
  <2>2. CASE ~ (i < where)
    <3> DEFINE j == i + 1
    <3>1. j \in 0 .. size /\ j > where /\ j - 1 = i
      BY <1>1, <1>2, <2>2
    <3> HIDE DEF j
    <3>2. filled.keys[j] = keys[i] /\ filled.values[j] = values[i]
      BY <1>2, <3>1
    <3> QED BY <1>4, <3>1, <3>2
  <2> QED BY <2>1, <2>2
<1>8. Pairs(filled) = Pairs(n) \cup {<<k, v>>}
  BY <1>3, <1>4, <1>5, <1>6, <1>7
<1> QED BY <1>8 DEF filled

\* A new key leaves a leaf in order.
LEMMA InsertKeepsSorted ==
    ASSUME NEW cap \in Nat, NEW K, K \subseteq Int, NEW R, NEW n, IsLeaf(n, cap, K, R),
           can_insert_trivially(n), NEW k \in K, NEW v \in R,
           Sorted(n.keys, n.current_size), \A i \in Slots(n) : n.keys[i] # k
    PROVE  Sorted(trivial_insert(n, k, v).keys, n.current_size + 1)
<1> DEFINE filled == trivial_insert(n, k, v)
           where == leaf_find_index_for_insert(n, k)
           size == n.current_size
           keys == n.keys
<1>1. size \in Nat \ {0} /\ k \in Int
  BY DEF IsLeaf
<1>2. /\ where \in 0 .. size
      /\ \A i \in 0 .. size : /\ i = where => filled.keys[i] = k
                              /\ i < where => filled.keys[i] = keys[i]
                              /\ i > where => filled.keys[i] = keys[i - 1]
  BY InsertedSlots
<1>3. \A i \in 0 .. size - 1 : keys[i] > k <=> i >= where
  <2>1. \A i \in 0 .. n.current_size - 1 : n.keys[i] # k
    BY DEF Slots
  <2>2. \A i \in 0 .. n.current_size - 1 :
           n.keys[i] > k <=> i >= PlaceFor(n, k, n.current_size)
    BY <1>1, <2>1, PlaceKeepsOrder
  <2> QED BY <2>2 DEF leaf_find_index_for_insert
<1>4. /\ \A i \in 0 .. size - 1 : keys[i] \in Int
      /\ \A i, j \in 0 .. size - 1 : i < j => keys[i] < keys[j]
      /\ \A i \in 0 .. size - 1 : keys[i] # k
  BY DEF Sorted, Slots
<1> HIDE DEF filled, where, size, keys
<1>5. ASSUME NEW i \in 0 .. size
      PROVE  /\ filled.keys[i] \in Int
             /\ i < where => filled.keys[i] < k
             /\ i > where => filled.keys[i] > k
  <2>1. CASE i = where
    BY <1>1, <1>2, <2>1
  <2>2. CASE i < where
    <3>1. i \in 0 .. size - 1
      BY <1>1, <1>2, <2>2
    <3> QED BY <1>1, <1>2, <1>3, <1>4, <2>2, <3>1
  <2>3. CASE i > where
    <3>1. i - 1 \in 0 .. size - 1 /\ i - 1 >= where
      BY <1>1, <1>2, <2>3
    <3>2. filled.keys[i] = keys[i - 1]
      BY <1>2, <2>3
    <3> QED BY <1>1, <1>2, <1>3, <1>4, <2>3, <3>1, <3>2
  <2> QED BY <1>1, <1>2, <2>1, <2>2, <2>3
<1>6. ASSUME NEW i \in 0 .. size, NEW j \in 0 .. size, i < j
      PROVE  filled.keys[i] < filled.keys[j]
  <2>1. CASE i =< where /\ where =< j
    BY <1>1, <1>2, <1>5, <1>6, <2>1
  <2>2. CASE j < where
    <3>1. i \in 0 .. size - 1 /\ j \in 0 .. size - 1 /\ i < where
      BY <1>1, <1>2, <1>6, <2>2
    <3> QED BY <1>2, <1>4, <1>6, <2>2, <3>1
  <2>3. CASE i > where
    <3>1. i - 1 \in 0 .. size - 1 /\ j - 1 \in 0 .. size - 1 /\ j > where /\ i - 1 < j - 1
      BY <1>1, <1>2, <1>6, <2>3
    <3>2. filled.keys[i] = keys[i - 1] /\ filled.keys[j] = keys[j - 1]
      BY <1>2, <2>3, <3>1
    <3> QED BY <1>4, <3>1, <3>2
  <2> QED BY <1>1, <1>2, <2>1, <2>2, <2>3
<1>7. Sorted(filled.keys, size + 1)
  BY <1>1, <1>5, <1>6 DEF Sorted
<1> QED BY <1>7 DEF filled, size

\* A leaf that is split leaves its lower slots where they are and gives the others
\* to the new one, in order (b_plus_tree_node.hpp:222-247).
LEMMA LeafSplitSlots ==
    ASSUME NEW cap \in Nat, cap >= 2, NEW K, NEW R, NEW n, IsLeaf(n, cap, K, R),
           n.current_size = cap
    PROVE  LET left == leaf_split_node(cap, n).left
               right == leaf_split_node(cap, n).right
           IN  /\ left.current_size \in 1 .. cap - 1
               /\ right.current_size \in 1 .. cap - 1
               /\ left.current_size + right.current_size = cap
               /\ \A i \in 0 .. left.current_size - 1 :
                     left.keys[i] = n.keys[i] /\ left.values[i] = n.values[i]
               /\ \A i \in 0 .. right.current_size - 1 :
                     /\ right.keys[i] = n.keys[left.current_size + i]
                     /\ right.values[i] = n.values[left.current_size + i]
<1> DEFINE half == cap \div 2
           last == half - LeafParity(cap)
           size == half + ((LeafParity(cap) + 1) % 2)
           Copy(f) == [j \in 0 .. cap - 1 |->
                         IF j = last THEN f[cap - 1]
                         ELSE IF half + j < cap - 1 THEN f[half + j] ELSE NoKey]
           left == leaf_split_node(cap, n).left
           right == leaf_split_node(cap, n).right
<1>1. /\ half \in 1 .. cap - 1
      /\ last \in 0 .. half
      /\ size = last + 1
      /\ size >= half /\ size < cap
      /\ half + last = cap - 1
  BY DEF LeafParity
<1>2. n.type = "leaf" /\ n.max_size = cap
  BY DEF IsLeaf
<1>3. /\ left = NewNode("leaf", cap, half, n.keys, n.values)
      /\ right = NewNode("leaf", cap, size, Copy(n.keys), Copy(n.values))
  BY <1>2 DEF leaf_split_node, Lower, Upper
<1>4. left.current_size = half /\ right.current_size = size
  BY <1>3 DEF NewNode
<1>5. ASSUME NEW i \in 0 .. half - 1
      PROVE  left.keys[i] = n.keys[i] /\ left.values[i] = n.values[i]
  <2>1. i \in 0 .. cap - 1 /\ i < half
    BY <1>1
  <2> HIDE DEF half, left
  <2> QED BY <1>3, <2>1 DEF NewNode
<1>6. ASSUME NEW i \in 0 .. size - 1
      PROVE  /\ right.keys[i] = n.keys[half + i]
             /\ right.values[i] = n.values[half + i]
  <2>1. i \in 0 .. cap - 1 /\ i < size /\ (i # last => half + i < cap - 1)
        /\ (i = last => half + i = cap - 1)
    BY <1>1
  <2> DEFINE ks == Copy(n.keys)
             vs == Copy(n.values)
  <2>2. ks[i] = n.keys[half + i] /\ vs[i] = n.values[half + i]
    <3> HIDE DEF half, last, size
    <3> QED BY <2>1
  <2>3. right = NewNode("leaf", cap, size, ks, vs)
    BY <1>3
  <2> HIDE DEF size, right, ks, vs
  <2>4. right.keys[i] = ks[i] /\ right.values[i] = vs[i]
    BY <2>1, <2>3 DEF NewNode
  <2> QED BY <2>2, <2>4
<1> HIDE DEF half, last, size, left, right
<1>7. half + size = cap /\ half \in 1 .. cap - 1 /\ size \in 1 .. cap - 1
  BY <1>1
<1> QED BY <1>4, <1>5, <1>6, <1>7 DEF left, right

\* The same of an inner node, whose last slot below the cut keeps the key that
\* separates the two (b_plus_tree_node.hpp:398-419).
LEMMA InnerSplitSlots ==
    ASSUME NEW cap \in Nat, cap >= 5, NEW K, NEW P, NEW n, IsInner(n, cap, K, P),
           n.current_size = cap
    PROVE  LET left == inner_split_node(cap, n).left
               right == inner_split_node(cap, n).right
           IN  /\ left.current_size \in 2 .. cap - 1
               /\ right.current_size \in 2 .. cap - 1
               /\ left.current_size + right.current_size = cap
               /\ \A i \in 0 .. left.current_size - 1 :
                     left.keys[i] = n.keys[i] /\ left.values[i] = n.values[i]
               /\ \A i \in 0 .. right.current_size - 1 :
                     /\ right.keys[i] = n.keys[left.current_size + i]
                     /\ right.values[i] = n.values[left.current_size + i]
<1> DEFINE half == cap \div 2
           last == half - InnerParity(cap)
           size == half + 1
           rest == size - InnerParity(cap)
           Copy(f) == [j \in 0 .. cap - 1 |->
                         IF j = last THEN f[cap - 1]
                         ELSE IF half + 1 + j < cap - 1 THEN f[half + 1 + j] ELSE NoKey]
           left == inner_split_node(cap, n).left
           right == inner_split_node(cap, n).right
<1>1. /\ half \in 2 .. cap - 2
      /\ size = half + 1
      /\ last \in 1 .. half
      /\ rest = last + 1
      /\ rest < cap
      /\ half + 1 + last = cap - 1
  BY DEF InnerParity
<1>2. n.type = "inner" /\ n.max_size = cap
  BY DEF IsInner
<1>3. /\ left = NewNode("inner", cap, size, n.keys, n.values)
      /\ right = NewNode("inner", cap, rest, Copy(n.keys), Copy(n.values))
  BY <1>2 DEF inner_split_node, Lower, Upper
<1>4. left.current_size = size /\ right.current_size = rest
  BY <1>3 DEF NewNode
<1>5. ASSUME NEW i \in 0 .. size - 1
      PROVE  left.keys[i] = n.keys[i] /\ left.values[i] = n.values[i]
  <2>1. i \in 0 .. cap - 1 /\ i < size
    BY <1>1
  <2> HIDE DEF size, left
  <2> QED BY <1>3, <2>1 DEF NewNode
<1>6. ASSUME NEW i \in 0 .. rest - 1
      PROVE  /\ right.keys[i] = n.keys[size + i]
             /\ right.values[i] = n.values[size + i]
  <2>1. /\ i \in 0 .. cap - 1 /\ i < rest /\ size + i = half + 1 + i
        /\ i # last => half + 1 + i < cap - 1
        /\ i = last => half + 1 + i = cap - 1
    BY <1>1
  <2> DEFINE ks == Copy(n.keys)
             vs == Copy(n.values)
  <2>2. ks[i] = n.keys[size + i] /\ vs[i] = n.values[size + i]
    <3> HIDE DEF half, last, size, rest
    <3> QED BY <2>1
  <2>3. right = NewNode("inner", cap, rest, ks, vs)
    BY <1>3
  <2> HIDE DEF rest, right, ks, vs
  <2>4. right.keys[i] = ks[i] /\ right.values[i] = vs[i]
    BY <2>1, <2>3 DEF NewNode
  <2> QED BY <2>2, <2>4
<1>7. size + rest = cap /\ size \in 2 .. cap - 1 /\ rest \in 2 .. cap - 1
  BY <1>1
<1> HIDE DEF half, last, size, rest, left, right
<1> QED BY <1>4, <1>5, <1>6, <1>7 DEF left, right

\* A leaf that was split off is entered behind its left part: its first key in
\* the slot found, its page in the next (b_plus_tree_node.hpp:357-396).
LEMMA EnteredSlots ==
    ASSUME NEW cap \in Nat, NEW K, NEW P, NEW n, IsInner(n, cap, K, P),
           can_insert_trivially(n), NEW p \in P, NEW new, new.keys[0] \in K
    PROVE  LET filled == trivial_insert_leaf_node(n, p, new)
               where == inner_find_index_for_insert(n, new.keys[0])
           IN  /\ where \in 0 .. n.current_size - 1
               /\ filled.current_size = n.current_size + 1
               /\ \A i \in 0 .. n.current_size :
                     /\ i = where => filled.keys[i] = new.keys[0]
                     /\ i < where => filled.keys[i] = n.keys[i]
                     /\ i > where => filled.keys[i] = n.keys[i - 1]
                     /\ i = where + 1 => filled.values[i] = p
                     /\ i < where + 1 => filled.values[i] = n.values[i]
                     /\ i > where + 1 => filled.values[i] = n.values[i - 1]
<1> DEFINE size == n.current_size
           oldkeys == n.keys
           oldvalues == n.values
           k == new.keys[0]
           where == inner_find_index_for_insert(n, k)
           keys == Shifted(oldkeys, where, k, size)
           values == Shifted(oldvalues, where + 1, p, size)
           filled == trivial_insert_leaf_node(n, p, new)
<1>1. size \in Nat /\ size >= 2 /\ size < cap
  BY DEF IsInner, can_insert_trivially
<1>2. where \in 0 .. size - 1
  <2>1. size - 1 \in Nat \ {0} /\ where = PlaceFor(n, k, size - 1)
    BY <1>1 DEF inner_find_index_for_insert
  <2>2. PlaceFor(n, k, size - 1) \in 0 .. size - 1
    BY <2>1, PlaceInRange
  <2> QED BY <2>1, <2>2
<1>3. filled = [n EXCEPT !.keys = keys, !.values = values, !.current_size = size + 1]
  BY DEF trivial_insert_leaf_node
<1>4. n = [type |-> "inner", max_size |-> cap, current_size |-> size,
           keys |-> oldkeys, values |-> oldvalues]
  BY DEF IsInner
<1>5. DOMAIN oldkeys = 0 .. cap - 1 /\ DOMAIN oldvalues = 0 .. cap - 1
  BY DEF IsInner
<1> HIDE DEF where, filled, size, oldkeys, oldvalues, k
<1>6. ASSUME NEW i \in 0 .. size
      PROVE  /\ i = where => keys[i] = k
             /\ i < where => keys[i] = oldkeys[i]
             /\ i > where => keys[i] = oldkeys[i - 1]
             /\ i = where + 1 => values[i] = p
             /\ i < where + 1 => values[i] = oldvalues[i]
             /\ i > where + 1 => values[i] = oldvalues[i - 1]
  <2>1. i \in 0 .. cap - 1 /\ where \in Int /\ where + 1 \in Int
    BY <1>1, <1>2
  <2>2. /\ i = where => keys[i] = k
        /\ where < i /\ i =< size => keys[i] = oldkeys[i - 1]
        /\ i < where \/ (where < i /\ size < i) => keys[i] = oldkeys[i]
    BY <1>1, <1>5, <2>1, ShiftedAt
  <2>3. /\ i = where + 1 => values[i] = p
        /\ where + 1 < i /\ i =< size => values[i] = oldvalues[i - 1]
        /\ i < where + 1 \/ (where + 1 < i /\ size < i) => values[i] = oldvalues[i]
    BY <1>1, <1>5, <2>1, ShiftedAt
  <2> HIDE DEF keys, values
  <2> QED BY <1>1, <2>1, <2>2, <2>3
<1> HIDE DEF keys, values
<1>7. filled = [type |-> "inner", max_size |-> cap, current_size |-> size + 1,
                keys |-> keys, values |-> values]
  BY <1>3, <1>4, Refilled, Zenon
<1>8. filled.keys = keys /\ filled.values = values /\ filled.current_size = size + 1
  BY <1>7
<1> QED BY <1>2, <1>6, <1>8 DEF where, filled, size, oldkeys, oldvalues, k

-----------------------------------------------------------------------------
(* The tree.                                                               *)

EqualCapacities == \A c \in Capacities : c.leaf = c.inner
-----------------------------------------------------------------------------
(* The inductive invariant.                                                *)

\* Pages that are allocated and that the call under way has not written yet.
IsPending(p) == \/ call.step = "first" /\ p = m_root_page_id
                \/ call.step \in {"split_leaf", "split_inner"} /\ p = call.new_page
                \/ call.step \in {"new_root", "root_over"} /\ p = call.new_root

\* The pages that may be children.
Ready == {p \in 0 .. m_next_page - 1 : ~IsPending(p)}

Leaf(p) == IsLeaf(contents[p], capacity.leaf, Keys, Range(RecordOf))

Inner(p) == IsInner(contents[p], capacity.leaf, Keys, Ready)

Basics == /\ capacity \in Capacities
          /\ m_root_page_id \in Pages \cup {NoPage}
          /\ m_next_page \in 0 .. MaxPages
          /\ DOMAIN contents = Pages
          /\ dirty \subseteq Pages
          /\ pins \in [Pages -> Nat]
          /\ m_frame_queue \in Seq(Pages)
          /\ failures \in Nat

\* A page is blank, a leaf, or an inner node over pages that have been written.
NodesAreNodes == \A p \in Pages : contents[p] = BlankPage \/ Leaf(p) \/ Inner(p)

\* No page is in use before it is written.
FreshPagesAreBlank ==
    \A p \in Pages : p \notin Ready => contents[p] = BlankPage /\ pins[p] = 0

\* The root, and the way down from it.
PathFromRoot ==
    /\ m_root_page_id # NoPage => m_root_page_id \in Ready \/ call.step = "first"
    /\ m_frame_queue # <<>> =>
          m_root_page_id # NoPage /\ m_frame_queue[1] = m_root_page_id
    /\ \A i \in DOMAIN m_frame_queue : contents[m_frame_queue[i]].type = "inner"

Count(q, p) == Cardinality({i \in DOMAIN q : q[i] = p})

\* The pins of inner nodes: those of the queue, that of a node just split off,
\* and that of the root that is split.
InnerPins ==
    ~Aborted => \A p \in Pages :
       contents[p].type = "inner" =>
          pins[p] = Count(m_frame_queue, p) + (IF p = call.new_page THEN 1 ELSE 0)
                    + (IF call.step = "root_over" /\ p = m_root_page_id THEN 1 ELSE 0)

\* With no request failed, a node has room unless it is the one being split.
HasRoom(p) ==
    LET n == contents[p]
    IN  /\ n.max_size = capacity.leaf
        /\ \/ n.current_size < capacity.leaf
           \/ call.step = "split_leaf" /\ p = call.at
           \/ call.step = "split_inner" /\ p = Last(m_frame_queue)
        /\ n.type = "leaf" /\ p # m_root_page_id => n.current_size >= capacity.leaf \div 2

NodesHaveRoom == failures = 0 => \A p \in Ready : HasRoom(p)
-----------------------------------------------------------------------------
(* What holds at each point of a call.                                     *)

Steps == {"idle", "first", "find", "dump", "descend", "split_leaf", "new_root",
          "climb", "split_inner", "root_victim", "root_over"}

CallType ==
    /\ call \in [step : Steps, key : Keys \cup {NoKey}, at : Pages \cup {NoPage},
                 new_page : Pages \cup {NoPage}, previous : Pages \cup {NoPage},
                 new_root : Pages \cup {NoPage}, page_ids : Seq(Pages)]
    /\ Aborted => call.step = "idle"
    /\ call.step \notin {"idle", "first"} => m_root_page_id # NoPage
    /\ call.step \in {"idle", "first", "find", "dump", "descend"} =>
          call.new_page = NoPage

RoomFor(n) == m_next_page + n =< MaxPages

\* The leaf the key was inserted in: pinned and dirty to the end of the call.
Inserted == /\ call.at \in Ready
            /\ contents[call.at].type = "leaf"
            /\ call.at \in dirty
            /\ pins[call.at] >= 1

\* A leaf that was just split off and hangs nowhere yet.
NewLeaf(p) == /\ p \in Ready
              /\ p # call.at
              /\ Leaf(p)
              /\ contents[p].current_size >= capacity.leaf \div 2
              /\ p \in dirty
              /\ pins[p] = 1

\* The root was split.
RootSplit == /\ m_root_page_id \in dirty
             /\ contents[m_root_page_id].type = "inner"
             /\ contents[m_root_page_id].keys[contents[m_root_page_id].current_size - 1] \in Keys
             /\ m_root_page_id # call.new_page
             /\ \E p \in dirty : contents[p].type = "leaf" /\ pins[p] = 0

\* Its right part, or that of an inner node below it, hangs nowhere yet.
NewInner == /\ call.new_page \in Ready
            /\ contents[call.new_page].type = "inner"
            /\ call.new_page \in dirty
            /\ m_frame_queue = <<>> => RootSplit

AtFirst == call.step = "first" => /\ m_root_page_id \in 0 .. m_next_page - 1
                                  /\ call.key \in Keys
                                  /\ m_frame_queue = <<>>

AtSearch == /\ call.step \in {"find", "dump", "descend"} => call.at \in Ready
            /\ call.step = "dump" => call.page_ids \in Seq(Ready)

AtDescent == call.step = "descend" => /\ call.key \in Keys
                                      /\ RoomFor(3)
                                      /\ m_frame_queue = <<>> => call.at = m_root_page_id

AtSplitLeaf == call.step = "split_leaf" =>
    /\ Inserted
    /\ Leaf(call.at)
    /\ contents[call.at].current_size = capacity.leaf
    /\ m_frame_queue = <<>> => call.at = m_root_page_id
    /\ call.new_page \in 0 .. m_next_page - 1
    /\ RoomFor(2)

AtNewRoot == call.step = "new_root" =>
    /\ Inserted
    /\ call.at = m_root_page_id
    /\ contents[call.at].current_size >= capacity.leaf \div 2
    /\ m_frame_queue = <<>>
    /\ NewLeaf(call.new_page)
    /\ call.new_root \in 0 .. m_next_page - 1

AtClimb == call.step = "climb" =>
    /\ Inserted
    /\ \/ call.new_page = NoPage
       \/ NewLeaf(call.new_page) /\ m_frame_queue # <<>> /\ RoomFor(2)
       \/ NewInner /\ RoomFor(1)

AtSplitInner == call.step = "split_inner" =>
    /\ Inserted
    /\ NewLeaf(call.previous)
    /\ m_frame_queue # <<>>
    /\ Last(m_frame_queue) \in dirty
    /\ contents[Last(m_frame_queue)].current_size = capacity.leaf
    /\ call.new_page \in 0 .. m_next_page - 1
    /\ RoomFor(1)

AtNewRootOver ==
    /\ call.step \in {"root_victim", "root_over"} =>
          Inserted /\ NewInner /\ m_frame_queue = <<>>
    /\ call.step = "root_victim" => RoomFor(1)
    /\ call.step = "root_over" => call.new_root \in 0 .. m_next_page - 1

Points == /\ AtFirst
          /\ AtSearch
          /\ AtDescent
          /\ AtSplitLeaf
          /\ AtNewRoot
          /\ AtClimb
          /\ AtSplitInner
          /\ AtNewRootOver

TreeInv == /\ Basics
           /\ NodesAreNodes
           /\ FreshPagesAreBlank
           /\ PathFromRoot
           /\ InnerPins
           /\ NodesHaveRoom
           /\ CallType
           /\ Points
           /\ OnlyInnerSplitsAbort
           /\ InsertReturnsTrue
-----------------------------------------------------------------------------
(* Queues and the pool.                                                    *)

\* Entering a node in the queue counts it once more.
LEMMA CountAppend ==
    ASSUME NEW S, NEW q \in Seq(S), NEW a \in S, NEW p
    PROVE  /\ Count(q, p) \in Nat
           /\ Count(Append(q, a), p) = Count(q, p) + (IF p = a THEN 1 ELSE 0)
<1> DEFINE n == Len(q)
           A == {i \in DOMAIN q : q[i] = p}
           B == {i \in DOMAIN Append(q, a) : Append(q, a)[i] = p}
<1>1. n \in Nat /\ DOMAIN q = 1 .. n /\ DOMAIN Append(q, a) = 1 .. n + 1
  OBVIOUS
<1>2. Append(q, a)[n + 1] = a /\ \A i \in 1 .. n : Append(q, a)[i] = q[i]
  OBVIOUS
<1>3. IsFiniteSet(A) /\ Cardinality(A) \in Nat
  <2>1. IsFiniteSet(1 .. n)
    BY <1>1, FS_Interval
  <2>2. A \subseteq 1 .. n
    BY <1>1
  <2> HIDE DEF A, n
  <2> QED BY <2>1, <2>2, FS_Subset, FS_CardinalityType
<1>4. B = IF p = a THEN A \cup {n + 1} ELSE A
  BY <1>1, <1>2
<1>5. n + 1 \notin A
  BY <1>1
<1> HIDE DEF A, B, n
<1>6. Cardinality(B) = Cardinality(A) + (IF p = a THEN 1 ELSE 0)
  <2>1. IsFiniteSet(A) /\ n + 1 \notin A => Cardinality(A \cup {n + 1}) = Cardinality(A) + 1
    BY FS_AddElement
  <2> QED BY <1>3, <1>4, <1>5, <2>1
<1> QED BY <1>3, <1>6 DEF Count, A, B

LEMMA CountType ==
    ASSUME NEW S, NEW q \in Seq(S), NEW p
    PROVE  Count(q, p) \in Nat
<1> DEFINE A == {i \in DOMAIN q : q[i] = p}
<1>1. IsFiniteSet(1 .. Len(q)) /\ A \subseteq 1 .. Len(q)
  BY FS_Interval
<1> HIDE DEF A
<1>2. IsFiniteSet(A)
  BY <1>1, FS_Subset
<1>3. Cardinality(A) \in Nat
  BY <1>2, FS_CardinalityType
<1> QED BY <1>3 DEF Count, A

\* The last node leaves the queue.
LEMMA CountFront ==
    ASSUME NEW S, NEW q \in Seq(S), q # <<>>, NEW p
    PROVE  /\ Front(q) \in Seq(S)
           /\ Last(q) \in S
           /\ Last(q) = q[Len(q)] /\ Len(q) \in DOMAIN q
           /\ Count(Front(q), p) \in Nat
           /\ Count(q, p) = Count(Front(q), p) + (IF p = Last(q) THEN 1 ELSE 0)
           /\ Front(q) # <<>> => Front(q)[1] = q[1]
           /\ Front(q) = <<>> => Last(q) = q[1]
           /\ \A i \in DOMAIN Front(q) : i \in DOMAIN q /\ Front(q)[i] = q[i]
<1> DEFINE f == Front(q)
           a == Last(q)
<1>1. Len(q) \in Nat \ {0} /\ DOMAIN q = 1 .. Len(q)
  OBVIOUS
<1>2. /\ f \in Seq(S) /\ Len(f) = Len(q) - 1
      /\ \A i \in 1 .. Len(q) - 1 : f[i] = q[i]
  BY <1>1 DEF Front
<1>3. a = q[Len(q)] /\ a \in S
  BY <1>1 DEF Last
<1> HIDE DEF f, a
<1>4. q = Append(f, a)
  <2>1. /\ Append(f, a) \in Seq(S)
        /\ Len(Append(f, a)) = Len(f) + 1
        /\ \A i \in 1 .. Len(f) : Append(f, a)[i] = f[i]
        /\ Append(f, a)[Len(f) + 1] = a
    BY <1>2, <1>3, AppendProperties
  <2>2. Len(Append(f, a)) = Len(q)
    BY <1>1, <1>2, <2>1
  <2>3. \A i \in 1 .. Len(q) : Append(f, a)[i] = q[i]
    BY <1>1, <1>2, <1>3, <2>1
  <2> QED BY <2>1, <2>2, <2>3, SeqEqual
<1>5. Count(f, p) \in Nat /\ Count(q, p) = Count(f, p) + (IF p = a THEN 1 ELSE 0)
  BY <1>2, <1>3, <1>4, CountAppend
<1>6. DOMAIN f = 1 .. Len(q) - 1
  BY <1>1, <1>2
<1>7. f # <<>> => f[1] = q[1]
  BY <1>1, <1>2
<1>8. f = <<>> => a = q[1]
  <2>1. f = <<>> => Len(f) = 0
    OBVIOUS
  <2>2. Len(q) \in Nat /\ Len(f) = Len(q) - 1
    BY <1>1, <1>2
  <2>3. f = <<>> => Len(q) = 1
    BY <2>1, <2>2
  <2> QED BY <1>3, <2>3
<1>9. \A i \in DOMAIN f : i \in DOMAIN q /\ f[i] = q[i]
  BY <1>1, <1>2, <1>6
<1> QED BY <1>1, <1>2, <1>3, <1>5, <1>7, <1>8, <1>9 DEF f, a

\* What is not in the queue is not counted.
LEMMA CountNone ==
    ASSUME NEW q, NEW p, \A i \in DOMAIN q : q[i] # p
    PROVE  Count(q, p) = 0
<1>1. {i \in DOMAIN q : q[i] = p} = {}
  OBVIOUS
<1> QED BY <1>1, FS_EmptySet DEF Count

\* A request writes a page back only if it is not pinned
\* (buffer_pool.hpp:212-235).
LEMMA RequestKeepsPinned ==
    ASSUME Basics, NEW p, NEW ds \in AfterRequest(p)
    PROVE  /\ ds \subseteq dirty
           /\ \A q \in dirty : pins[q] # 0 => q \in ds
           /\ InMemory(p) => ds = dirty
BY DEF AfterRequest, Flushable
-----------------------------------------------------------------------------
(* What the invariant says of nodes, and of steps that leave them alone.   *)

LEMMA Facts ==
    ASSUME EqualCapacities, TreeInv
    PROVE  /\ capacity.leaf \in Nat /\ capacity.leaf >= 5
           /\ capacity.inner = capacity.leaf
           /\ Ready \subseteq Pages
           /\ Ready \subseteq 0 .. m_next_page - 1
           /\ NoPage \notin Pages
           /\ \A p \in Pages : contents[p].type = "inner" => p \in Ready /\ Inner(p)
           /\ \A p \in Pages : contents[p].type = "leaf" \/ contents[p].type = "inner"
           /\ \A p \in Pages : contents[p].type = "leaf" /\ contents[p].max_size # 0 => Leaf(p)
           /\ failures = 0 => \A p \in Ready : contents[p].max_size = capacity.leaf
<1>1. capacity.leaf \in Nat /\ capacity.leaf >= 5 /\ capacity.inner = capacity.leaf
  BY TreeAssumption DEF TreeInv, Basics, EqualCapacities
<1>2. Ready \subseteq 0 .. m_next_page - 1 /\ 0 .. m_next_page - 1 \subseteq Pages
  BY TreeAssumption DEF TreeInv, Basics, Pages, Ready
<1>3. NoPage \notin Pages
  BY DEF NoPage, Pages
<1>4. ASSUME NEW p \in Pages
      PROVE  /\ contents[p].type = "inner" => p \in Ready /\ Inner(p)
             /\ contents[p].type = "leaf" \/ contents[p].type = "inner"
             /\ contents[p].type = "leaf" /\ contents[p].max_size # 0 => Leaf(p)
  <2>1. contents[p] = BlankPage \/ Leaf(p) \/ Inner(p)
    BY DEF TreeInv, NodesAreNodes
  <2>2. BlankPage.type = "leaf" /\ BlankPage.max_size = 0
    BY DEF BlankPage
  <2>3. Leaf(p) => contents[p].type = "leaf"
    BY DEF Leaf, IsLeaf
  <2>4. Inner(p) => contents[p].type = "inner"
    BY DEF Inner, IsInner
  <2>5. p \notin Ready => contents[p] = BlankPage
    BY DEF TreeInv, FreshPagesAreBlank
  <2> QED BY <2>1, <2>2, <2>3, <2>4, <2>5
<1>5. failures = 0 => \A p \in Ready : contents[p].max_size = capacity.leaf
  BY DEF TreeInv, NodesHaveRoom, HasRoom
<1> QED BY <1>1, <1>2, <1>3, <1>4, <1>5

\* A search that descends reaches a page that was written.
LEMMA ChildIsReady ==
    ASSUME EqualCapacities, TreeInv, NEW p \in Pages, contents[p].type = "inner", NEW k
    PROVE  contents[p].values[inner_find_index(contents[p], k)] \in Ready
<1> DEFINE n == contents[p]
           i == inner_find_index(n, k)
<1>1. IsInner(n, capacity.leaf, Keys, Ready) /\ capacity.leaf \in Nat
  BY Facts DEF Inner
<1> HIDE DEF n
<1>2. n.current_size \in Nat /\ n.current_size >= 2 /\ n.current_size =< capacity.leaf
  BY <1>1 DEF IsInner
<1>3. i \in 0 .. n.current_size - 1
  BY <1>2, ChildInRange
<1> HIDE DEF i
<1>4. n.values[i] \in Ready
  BY <1>1, <1>2, <1>3 DEF IsInner
<1> QED BY <1>4 DEF n, i

\* Steps at which no page is being written.
Reading == {"idle", "find", "dump", "descend", "climb", "root_victim"}

LEMMA ReadyWhenReading ==
    /\ call.step \in Reading => Ready = 0 .. m_next_page - 1
    /\ call'.step \in Reading => Ready' = 0 .. m_next_page' - 1
BY DEF Reading, Ready, IsPending

\* A step that writes no page keeps the nodes.
LEMMA NodesStay ==
    ASSUME TreeInv, UNCHANGED <<capacity, contents>>, Ready \subseteq Ready',
           \A p \in Pages : p \notin Ready' => pins'[p] = 0
    PROVE  NodesAreNodes' /\ FreshPagesAreBlank'
<1>1. NodesAreNodes'
  <2>1. SUFFICES ASSUME NEW p \in Pages
                 PROVE  contents[p] = BlankPage \/ Leaf(p)' \/ Inner(p)'
    BY DEF NodesAreNodes
  <2>2. contents[p] = BlankPage \/ Leaf(p) \/ Inner(p)
    BY DEF TreeInv, NodesAreNodes
  <2>3. Leaf(p) => Leaf(p)'
    BY DEF Leaf
  <2>4. Inner(p) => Inner(p)'
    BY InnerGrows DEF Inner
  <2> QED BY <2>2, <2>3, <2>4
<1>2. FreshPagesAreBlank'
  BY DEF FreshPagesAreBlank, TreeInv
<1> QED BY <1>1, <1>2

\* Nor does it change how full they are.
LEMMA RoomStays ==
    ASSUME TreeInv, UNCHANGED <<capacity, m_root_page_id, contents>>,
           failures' = 0 => /\ failures = 0
                            /\ Ready' = Ready
                            /\ call.step \notin {"split_leaf", "split_inner"}
    PROVE  NodesHaveRoom'
BY DEF TreeInv, NodesHaveRoom, HasRoom
-----------------------------------------------------------------------------
(* The end of a call.                                                      *)

\* A call that ends without writing a page leaves the tree as it was.
LEMMA CallEnds ==
    ASSUME EqualCapacities, TreeInv,
           UNCHANGED <<capacity, tree, contents, m_frame_queue>>,
           call' = Idle, call.step # "first",
           dirty' \subseteq dirty, pins' \in [Pages -> Nat], failures' \in Nat,
           \A p \in Pages : p \notin Ready => pins'[p] = 0,
           InnerPins', OnlyInnerSplitsAbort', InsertReturnsTrue',
           failures' = 0 => failures = 0 /\ call.step \in Reading
    PROVE  TreeInv'
<1>1. call'.step = "idle" /\ call'.new_page = NoPage
  BY DEF Idle
<1>2. Ready \subseteq Ready' /\ (call.step \in Reading => Ready' = Ready)
  BY <1>1, ReadyWhenReading DEF tree, Reading, Ready
<1>3. Basics'
  BY DEF TreeInv, Basics, tree
<1>4. NodesAreNodes' /\ FreshPagesAreBlank'
  BY <1>2, NodesStay
<1>5. PathFromRoot'
  BY <1>2 DEF TreeInv, PathFromRoot, tree
<1>6. NodesHaveRoom'
  BY <1>2, RoomStays DEF tree, Reading
<1>7. CallType'
  BY <1>1 DEF CallType, Idle, Steps
<1>8. Points'
  BY <1>1 DEF Points, AtFirst, AtSearch, AtDescent, AtSplitLeaf, AtNewRoot, AtClimb,
              AtSplitInner, AtNewRootOver
<1> QED BY <1>3, <1>4, <1>5, <1>6, <1>7, <1>8 DEF TreeInv

\* A failed assertion.
LEMMA AbortKeeps ==
    ASSUME EqualCapacities, TreeInv, NEW why, Abort(why),
           why \in {"assert_leaf_has_room", "assert_inner_has_room", "assert_false"},
           call.step \in {"descend", "climb"},
           failures = 0 => why = "assert_false"
    PROVE  TreeInv'
<1>1. /\ UNCHANGED <<capacity, tree, contents, m_frame_queue, dirty, pins, failures>>
      /\ call' = Idle /\ outcome' = why
  BY DEF Abort, pool
<1>2. Aborted'
  BY <1>1 DEF Aborted
<1>3. call.step \in Reading /\ call.step # "first"
  BY DEF Reading
<1>4. /\ dirty \subseteq Pages /\ pins \in [Pages -> Nat] /\ failures \in Nat
      /\ \A p \in Pages : p \notin Ready => pins[p] = 0
  BY DEF TreeInv, Basics, FreshPagesAreBlank
<1>5. InnerPins'
  BY <1>2 DEF InnerPins
<1>6. OnlyInnerSplitsAbort' /\ InsertReturnsTrue'
  BY <1>1 DEF OnlyInnerSplitsAbort, InsertReturnsTrue
<1> QED BY <1>1, <1>3, <1>4, <1>5, <1>6, CallEnds

LEMMA FullLeafKeeps ==
    ASSUME EqualCapacities, TreeInv, FullLeaf
    PROVE  TreeInv'
<1>1. /\ call.step = "descend" /\ contents[call.at].type = "leaf"
      /\ ~can_insert_trivially(contents[call.at]) /\ Abort("assert_leaf_has_room")
  BY DEF FullLeaf
<1>2. call.at \in Ready
  BY <1>1 DEF TreeInv, Points, AtSearch
<1>3. failures # 0
  <2>1. ASSUME failures = 0 PROVE FALSE
    <3>1. HasRoom(call.at)
      BY <1>2, <2>1 DEF TreeInv, NodesHaveRoom
    <3> QED BY <1>1, <3>1 DEF HasRoom, can_insert_trivially
  <2> QED BY <2>1
<1> QED BY <1>1, <1>3, AbortKeeps

LEMMA FullInnerKeeps ==
    ASSUME EqualCapacities, TreeInv, FullInner
    PROVE  TreeInv'
<1>1. /\ call.step = "climb" /\ m_frame_queue # <<>>
      /\ ~can_insert_trivially(contents[Last(m_frame_queue)])
      /\ Abort("assert_inner_has_room")
  BY DEF FullInner
<1>2. m_frame_queue \in Seq(Pages)
  BY DEF TreeInv, Basics
<1>3. Last(m_frame_queue) \in Pages /\ Last(m_frame_queue) = m_frame_queue[Len(m_frame_queue)]
      /\ Len(m_frame_queue) \in DOMAIN m_frame_queue
  BY <1>1, <1>2, CountFront
<1>4. contents[Last(m_frame_queue)].type = "inner"
  BY <1>3 DEF TreeInv, PathFromRoot
<1>5. Last(m_frame_queue) \in Ready
  BY <1>3, <1>4, Facts
<1>6. failures # 0
  <2>1. ASSUME failures = 0 PROVE FALSE
    <3>1. HasRoom(Last(m_frame_queue))
      BY <1>5, <2>1 DEF TreeInv, NodesHaveRoom
    <3> QED BY <1>1, <3>1 DEF HasRoom, can_insert_trivially
  <2> QED BY <2>1
<1> QED BY <1>1, <1>6, AbortKeeps

LEMMA InnerChildKeeps ==
    ASSUME EqualCapacities, TreeInv, InnerChild
    PROVE  TreeInv'
BY AbortKeeps DEF InnerChild

\* An exception leaves pages and pins as they are (buffer_pool.hpp:212-235).
LEMMA ThrowKeeps ==
    ASSUME EqualCapacities, TreeInv, Throw
    PROVE  TreeInv'
<1>1. /\ Wanted # NoPage /\ ~InMemory(Wanted) /\ Flushable = {}
      /\ UNCHANGED <<capacity, tree, contents, m_frame_queue, dirty, pins>>
      /\ failures' = failures + 1 /\ call' = Idle /\ outcome' = "threw"
  BY DEF Throw, pool
<1>2. /\ dirty \subseteq Pages /\ pins \in [Pages -> Nat] /\ failures \in Nat
      /\ \A p \in Pages : p \notin Ready => pins[p] = 0 /\ contents[p] = BlankPage
  BY DEF TreeInv, Basics, FreshPagesAreBlank
<1>3. call.step \notin {"idle", "first", "climb"}
  BY <1>1 DEF Wanted
<1>4. call.step # "root_over"
  <2>1. ASSUME call.step = "root_over" PROVE FALSE
    <3>1. NewInner /\ m_frame_queue = <<>>
      BY <2>1 DEF TreeInv, Points, AtNewRootOver
    <3>2. \E p \in dirty : pins[p] = 0
      BY <3>1 DEF NewInner, RootSplit
    <3> QED BY <1>1, <3>2 DEF Flushable
  <2> QED BY <2>1
<1>5. call.step # "root_victim"
  <2>1. ASSUME call.step = "root_victim" PROVE FALSE
    <3>1. NewInner /\ m_frame_queue = <<>>
      BY <2>1 DEF TreeInv, Points, AtNewRootOver
    <3>2. m_root_page_id \in dirty
      BY <3>1 DEF NewInner, RootSplit
    <3>3. Wanted = m_root_page_id
      BY <2>1 DEF Wanted
    <3> QED BY <1>1, <3>2, <3>3 DEF InMemory
  <2> QED BY <2>1
<1>6. ~Aborted
  BY <1>3 DEF TreeInv, CallType
<1>7. call.step \in {"find", "dump", "descend", "split_leaf", "new_root", "split_inner"}
  <2>1. call.step \in Steps
    BY DEF TreeInv, CallType
  <2> QED BY <1>3, <1>4, <1>5, <2>1 DEF Steps
<1>8. ASSUME NEW p \in Pages, contents[p].type = "inner" PROVE p # call.new_page
  <2>1. CASE call.step \in {"find", "dump", "descend"}
    BY <2>1, Facts DEF TreeInv, CallType
  <2>2. CASE call.step \in {"split_leaf", "split_inner"}
    <3>1. call.new_page \notin Ready
      BY <2>2 DEF Ready, IsPending
    <3> QED BY <1>8, <3>1, Facts
  <2>3. CASE call.step = "new_root"
    <3>1. Leaf(call.new_page)
      BY <2>3 DEF TreeInv, Points, AtNewRoot, NewLeaf
    <3> QED BY <1>8, <3>1 DEF Leaf, IsLeaf
  <2> QED BY <1>7, <2>1, <2>2, <2>3
<1>9. InnerPins'
  <2>1. SUFFICES ASSUME NEW p \in Pages, contents[p].type = "inner"
                 PROVE  pins[p] = Count(m_frame_queue, p)
    <3>1. call'.step = "idle" /\ call'.new_page = NoPage
      BY <1>1 DEF Idle
    <3>3. \A p \in Pages : contents[p].type = "inner" => p # NoPage /\ pins[p] = Count(m_frame_queue, p)
      BY <2>1, Facts
    <3>4. \A p \in Pages : contents[p].type = "inner" => pins[p] \in Nat
      BY <1>2
    <3> QED BY <1>1, <3>1, <3>3, <3>4 DEF InnerPins
  <2>2. pins[p] = Count(m_frame_queue, p) + 0 + 0
    BY <1>4, <1>6, <1>8, <2>1 DEF TreeInv, InnerPins
  <2>3. Count(m_frame_queue, p) \in Nat
    BY CountType DEF TreeInv, Basics
  <2> QED BY <2>2, <2>3
<1>10. OnlyInnerSplitsAbort' /\ InsertReturnsTrue'
  BY <1>1, <1>2 DEF OnlyInnerSplitsAbort, InsertReturnsTrue
<1>11. failures' \in Nat /\ failures' # 0
  BY <1>1, <1>2
<1> QED BY <1>1, <1>2, <1>3, <1>9, <1>10, <1>11, CallEnds
-----------------------------------------------------------------------------
(* The start of a call, and the searches.                                  *)

\* A call that starts, and one that looks for the next page, change nothing.
LEMMA CallGoesOn ==
    ASSUME EqualCapacities, TreeInv,
           UNCHANGED <<capacity, tree, contents, failures>>,
           call.step \in Reading, call'.step \in Reading,
           dirty' \subseteq Pages, pins' \in [Pages -> Nat],
           \A p \in Pages : p \notin Ready => pins'[p] = 0,
           m_frame_queue' \in Seq(Pages),
           m_frame_queue' # <<>> => m_root_page_id # NoPage /\ m_frame_queue'[1] = m_root_page_id,
           \A i \in DOMAIN m_frame_queue' : contents[m_frame_queue'[i]].type = "inner",
           CallType', InnerPins', Points', OnlyInnerSplitsAbort', InsertReturnsTrue'
    PROVE  TreeInv'
<1>1. Ready' = Ready
  BY ReadyWhenReading DEF tree
<1>2. Basics'
  BY DEF TreeInv, Basics, tree
<1>3. NodesAreNodes' /\ FreshPagesAreBlank'
  BY <1>1, NodesStay
<1>4. PathFromRoot'
  <2>1. m_root_page_id # NoPage => m_root_page_id \in Ready
    BY DEF TreeInv, PathFromRoot, Reading
  <2> QED BY <1>1, <2>1 DEF PathFromRoot, tree
<1>5. NodesHaveRoom'
  BY <1>1, RoomStays DEF tree, Reading
<1> QED BY <1>2, <1>3, <1>4, <1>5 DEF TreeInv

\* Between calls.
LEMMA Between ==
    ASSUME EqualCapacities, TreeInv, IsIdle
    PROVE  /\ call.step = "idle" /\ call.step \in Reading
           /\ call.new_page = NoPage
           /\ \A p \in Pages : contents[p].type = "inner" => pins[p] = Count(m_frame_queue, p)
           /\ dirty \subseteq Pages /\ pins \in [Pages -> Nat] /\ failures \in Nat
           /\ m_frame_queue \in Seq(Pages)
           /\ \A p \in Pages : p \notin Ready => pins[p] = 0
           /\ m_frame_queue # <<>> =>
                 m_root_page_id # NoPage /\ m_frame_queue[1] = m_root_page_id
           /\ \A i \in DOMAIN m_frame_queue : contents[m_frame_queue[i]].type = "inner"
           /\ m_root_page_id # NoPage => m_root_page_id \in Ready /\ m_root_page_id \in Pages
<1>1. call.step = "idle" /\ ~Aborted
  BY DEF IsIdle
<1>2. call.new_page = NoPage
  BY <1>1 DEF TreeInv, CallType
<1>3. ASSUME NEW p \in Pages, contents[p].type = "inner"
      PROVE  pins[p] = Count(m_frame_queue, p)
  <2>1. p # NoPage
    BY Facts
  <2>2. pins[p] = Count(m_frame_queue, p) + 0 + 0
    BY <1>1, <1>2, <1>3, <2>1 DEF TreeInv, InnerPins
  <2>3. Count(m_frame_queue, p) \in Nat
    BY CountType DEF TreeInv, Basics
  <2> QED BY <2>2, <2>3
<1>4. m_root_page_id # NoPage => m_root_page_id \in Ready /\ m_root_page_id \in Pages
  BY <1>1, Facts DEF TreeInv, PathFromRoot
<1> QED BY <1>1, <1>2, <1>3, <1>4 DEF TreeInv, Basics, FreshPagesAreBlank, PathFromRoot, Reading

\* What a call that starts needs.
LEMMA CallStarts ==
    ASSUME EqualCapacities, TreeInv, IsIdle,
           UNCHANGED <<capacity, tree, pool, m_frame_queue, failures>>,
           NEW step \in {"find", "dump", "descend"},
           NEW key \in Keys \cup {NoKey},
           step = "descend" => key \in Keys /\ RoomFor(3),
           m_root_page_id # NoPage,
           call' = [step |-> step, key |-> key, at |-> m_root_page_id, new_page |-> NoPage,
                    previous |-> NoPage, new_root |-> NoPage, page_ids |-> <<>>],
           outcome' = "ok"
    PROVE  TreeInv'
<1>1. /\ call'.step = step /\ call'.key = key /\ call'.at = m_root_page_id
      /\ call'.new_page = NoPage /\ call'.previous = NoPage /\ call'.new_root = NoPage
      /\ call'.page_ids = <<>>
  OBVIOUS
<1>2. UNCHANGED <<contents, dirty, pins>>
  BY DEF pool
<1>3. m_root_page_id \in Pages /\ <<>> \in Seq(Pages) /\ <<>> \in Seq(Ready')
  BY Between, EmptySeq
<1>4. m_root_page_id' = m_root_page_id /\ m_next_page' = m_next_page
  BY DEF tree
<1>5. ~Aborted'
  BY DEF Aborted
<1>6. CallType'
  <2>1. call' \in [step : Steps, key : Keys \cup {NoKey}, at : Pages \cup {NoPage},
                   new_page : Pages \cup {NoPage}, previous : Pages \cup {NoPage},
                   new_root : Pages \cup {NoPage}, page_ids : Seq(Pages)]
    BY <1>3 DEF Steps
  <2> QED BY <1>1, <1>4, <1>5, <2>1 DEF CallType
<1>7. InnerPins'
  <2>1. ASSUME NEW p \in Pages, contents[p].type = "inner"
        PROVE  pins[p] = Count(m_frame_queue, p) + 0 + 0 /\ p # NoPage
    BY <2>1, Between, Facts
  <2> QED BY <1>1, <1>2, <2>1 DEF InnerPins
<1>8. m_root_page_id \in Ready'
  BY <1>1, <1>4, Between, ReadyWhenReading DEF Reading
<1>9. Points'
  <2>1. AtSearch'
    BY <1>1, <1>3, <1>8 DEF AtSearch
  <2>2. AtDescent'
    BY <1>1, <1>4 DEF AtDescent, RoomFor
  <2> QED BY <1>1, <2>1, <2>2 DEF Points, AtFirst, AtSplitLeaf, AtNewRoot, AtClimb,
                                  AtSplitInner, AtNewRootOver
<1>10. OnlyInnerSplitsAbort' /\ InsertReturnsTrue'
  BY <1>5 DEF OnlyInnerSplitsAbort, InsertReturnsTrue
<1>11. call.step \in Reading /\ call'.step \in Reading
  BY <1>1, Between DEF Reading
<1> QED BY <1>2, <1>6, <1>7, <1>9, <1>10, <1>11, Between, CallGoesOn

\* A search or a dump before there is a root.
LEMMA NoRootKeeps ==
    ASSUME EqualCapacities, TreeInv, IsIdle,
           UNCHANGED <<capacity, tree, pool, m_frame_queue, failures, call>>,
           outcome' \in {"no_root", "assert_page_id"},
           m_root_page_id = NoPage
    PROVE  TreeInv'
<1>1. UNCHANGED <<contents, dirty, pins>>
  BY DEF pool
<1>2. UNCHANGED <<m_root_page_id, m_next_page>>
  BY DEF tree
<1>3. call.step = "idle"
  BY Between
<1>4. CallType'
  BY <1>2, <1>3 DEF TreeInv, CallType
<1>5. InnerPins'
  <2>1. ~Aborted
    BY DEF IsIdle
  <2> QED BY <1>1, <1>2, <2>1 DEF TreeInv, InnerPins
<1>6. Points'
  BY <1>3 DEF Points, AtFirst, AtSearch, AtDescent, AtSplitLeaf, AtNewRoot, AtClimb,
              AtSplitInner, AtNewRootOver
<1>7. OnlyInnerSplitsAbort' /\ InsertReturnsTrue'
  BY <1>2 DEF OnlyInnerSplitsAbort, InsertReturnsTrue
<1>8. call.step \in Reading /\ call'.step \in Reading
  BY <1>3 DEF Reading
<1> QED BY <1>1, <1>4, <1>5, <1>6, <1>7, <1>8, Between, CallGoesOn

LEMMA StartFindKeeps ==
    ASSUME EqualCapacities, TreeInv, NEW k \in Keys, StartFind(k)
    PROVE  TreeInv'
<1>1. /\ IsIdle
      /\ UNCHANGED <<capacity, tree, pool, m_frame_queue, failures>>
  BY DEF StartFind
<1>2. CASE m_root_page_id = NoPage
  BY <1>1, <1>2, NoRootKeeps DEF StartFind
<1>3. CASE m_root_page_id # NoPage
  <2>1. /\ call' = [step |-> "find", key |-> k, at |-> m_root_page_id, new_page |-> NoPage,
                    previous |-> NoPage, new_root |-> NoPage, page_ids |-> <<>>]
        /\ outcome' = "ok"
    BY <1>3 DEF StartFind, Idle
  <2> QED BY <1>1, <1>3, <2>1, CallStarts
<1> QED BY <1>2, <1>3

LEMMA StartDumpKeeps ==
    ASSUME EqualCapacities, TreeInv, StartDump
    PROVE  TreeInv'
<1>1. /\ IsIdle
      /\ UNCHANGED <<capacity, tree, pool, m_frame_queue, failures>>
  BY DEF StartDump
<1>2. CASE m_root_page_id = NoPage
  BY <1>1, <1>2, NoRootKeeps DEF StartDump
<1>3. CASE m_root_page_id # NoPage
  <2>1. /\ call' = [step |-> "dump", key |-> NoKey, at |-> m_root_page_id, new_page |-> NoPage,
                    previous |-> NoPage, new_root |-> NoPage, page_ids |-> <<>>]
        /\ outcome' = "ok"
    BY <1>3 DEF StartDump, Idle
  <2> QED BY <1>1, <1>3, <2>1, CallStarts
<1> QED BY <1>2, <1>3

LEMMA StartInsertKeeps ==
    ASSUME EqualCapacities, TreeInv, NEW k \in Keys, HasPages, StartInsert(k)
    PROVE  TreeInv'
<1>1. /\ IsIdle /\ m_root_page_id # NoPage
      /\ call' = [step |-> "descend", key |-> k, at |-> m_root_page_id, new_page |-> NoPage,
                  previous |-> NoPage, new_root |-> NoPage, page_ids |-> <<>>]
      /\ outcome' = "ok"
      /\ UNCHANGED <<capacity, tree, pool, m_frame_queue, failures>>
  BY DEF StartInsert, Idle
<1>2. RoomFor(3)
  BY DEF HasPages, RoomFor
<1> QED BY <1>1, <1>2, CallStarts

\* The fields of the call under way.
LEMMA CallFields ==
    ASSUME TreeInv
    PROVE  /\ call = [step |-> call.step, key |-> call.key, at |-> call.at,
                      new_page |-> call.new_page, previous |-> call.previous,
                      new_root |-> call.new_root, page_ids |-> call.page_ids]
           /\ call.step \in Steps /\ call.key \in Keys \cup {NoKey}
           /\ call.at \in Pages \cup {NoPage} /\ call.new_page \in Pages \cup {NoPage}
           /\ call.previous \in Pages \cup {NoPage} /\ call.new_root \in Pages \cup {NoPage}
           /\ call.page_ids \in Seq(Pages)
BY DEF TreeInv, CallType

LEMMA FindKeeps ==
    ASSUME EqualCapacities, TreeInv, Find
    PROVE  TreeInv'
<1> DEFINE n == contents[call.at]
<1>1. /\ call.step = "find" /\ dirty' \in AfterRequest(call.at)
      /\ UNCHANGED <<capacity, tree, contents, m_frame_queue, failures>>
  BY DEF Find
<1>2. call.at \in Ready /\ call.at \in Pages
  BY <1>1, Facts DEF TreeInv, Points, AtSearch
<1>3. call.step \in Reading /\ ~Aborted /\ call.new_page = NoPage
      /\ m_root_page_id # NoPage
  BY <1>1 DEF TreeInv, CallType, Reading
<1>4. /\ dirty' \subseteq dirty /\ dirty \subseteq Pages /\ pins \in [Pages -> Nat]
      /\ failures \in Nat /\ m_frame_queue \in Seq(Pages)
      /\ \A p \in Pages : p \notin Ready => pins[p] = 0
  BY <1>1, RequestKeepsPinned DEF TreeInv, Basics, FreshPagesAreBlank
<1>5. ASSUME NEW p \in Pages, contents[p].type = "inner"
      PROVE  pins[p] = Count(m_frame_queue, p) + 0 + 0 /\ p # NoPage
  BY <1>1, <1>3, <1>5, Facts DEF TreeInv, InnerPins
<1>6. CASE n.type = "inner"
  <2>1. call' = [call EXCEPT !.at = n.values[inner_find_index(n, call.key)]]
        /\ UNCHANGED <<pins, found, outcome>>
    BY <1>6 DEF Find
  <2> DEFINE child == n.values[inner_find_index(n, call.key)]
  <2>2. child \in Ready /\ child \in Pages
    BY <1>2, <1>6, ChildIsReady, Facts
  <2> HIDE DEF child
  <2>3. call' = [step |-> call.step, key |-> call.key, at |-> child,
                 new_page |-> call.new_page, previous |-> call.previous,
                 new_root |-> call.new_root, page_ids |-> call.page_ids]
    BY <2>1, CallFields DEF child
  <2>4. call'.step = "find" /\ call'.at = child /\ call'.new_page = NoPage
    BY <1>1, <1>3, <2>3
  <2>5. CallType'
    <3>1. call' \in [step : Steps, key : Keys \cup {NoKey}, at : Pages \cup {NoPage},
                     new_page : Pages \cup {NoPage}, previous : Pages \cup {NoPage},
                     new_root : Pages \cup {NoPage}, page_ids : Seq(Pages)]
      BY <2>2, <2>3, CallFields
    <3>2. ~Aborted'
      BY <1>3, <2>1 DEF Aborted
    <3> QED BY <1>1, <1>3, <2>4, <3>1, <3>2 DEF CallType, tree
  <2>6. InnerPins'
    BY <1>1, <1>5, <2>1, <2>4 DEF InnerPins
  <2>7. Ready' = Ready
    BY <1>1, <1>3, <2>4, ReadyWhenReading DEF tree, Reading
  <2>8. Points'
    BY <2>2, <2>4, <2>7 DEF Points, AtFirst, AtSearch, AtDescent, AtSplitLeaf, AtNewRoot,
                            AtClimb, AtSplitInner, AtNewRootOver
  <2>9. OnlyInnerSplitsAbort' /\ InsertReturnsTrue'
    BY <1>1, <2>1 DEF TreeInv, OnlyInnerSplitsAbort, InsertReturnsTrue, Aborted, tree
  <2>10. /\ m_frame_queue # <<>> =>
               m_root_page_id # NoPage /\ m_frame_queue[1] = m_root_page_id
         /\ \A i \in DOMAIN m_frame_queue : contents[m_frame_queue[i]].type = "inner"
    BY DEF TreeInv, PathFromRoot
  <2>11. call'.step \in Reading
    BY <2>4 DEF Reading
  <2> QED BY <1>1, <1>3, <1>4, <2>1, <2>5, <2>6, <2>8, <2>9, <2>10, <2>11, CallGoesOn
<1>7. CASE n.type # "inner"
  <2>1. call' = Idle
    BY <1>7 DEF Find
  <2>2. pins' = pins \/ pins' = Pinned(call.at)
    BY <1>7 DEF Find
  <2>3. /\ pins' \in [Pages -> Nat]
        /\ \A p \in Pages : p # call.at => pins'[p] = pins[p]
    BY <1>2, <1>4, <2>2 DEF Pinned
  <2>4. /\ n.current_size = 0 => outcome' = "assert_not_empty"
        /\ n.current_size # 0 => outcome' = outcome
    BY <1>7 DEF Find
  <2>5. failures = 0 => n.current_size # 0
    <3>1. failures = 0 => n.max_size # 0
      BY <1>2, Facts
    <3>2. n.max_size # 0 => Leaf(call.at)
      BY <1>2, <1>7, Facts
    <3>3. Leaf(call.at) => n.current_size # 0
      BY DEF Leaf, IsLeaf
    <3> QED BY <3>1, <3>2, <3>3
  <2> HIDE DEF n
  <2>6. InnerPins'
    <3>1. \A p \in Pages : contents[p].type = "inner" => p # call.at
      BY <1>7 DEF n
    <3>2. call'.step = "idle" /\ call'.new_page = NoPage
      BY <2>1 DEF Idle
    <3> QED BY <1>1, <1>5, <2>3, <3>1, <3>2 DEF InnerPins
  <2>7. OnlyInnerSplitsAbort'
    BY <1>1, <1>3, <2>4, <2>5 DEF OnlyInnerSplitsAbort, Aborted, tree
  <2>8. InsertReturnsTrue'
    BY <2>4 DEF TreeInv, InsertReturnsTrue
  <2>9. \A p \in Pages : p \notin Ready => pins'[p] = 0
    BY <1>2, <1>4, <2>3
  <2>10. call.step # "first" /\ failures' \in Nat /\ (failures' = 0 => failures = 0 /\ call.step \in Reading)
    BY <1>1, <1>3, <1>4
  <2> QED BY <1>1, <1>4, <2>1, <2>3, <2>6, <2>7, <2>8, <2>9, <2>10, CallEnds
<1> QED BY <1>6, <1>7

\* The children of a node are pages.
LEMMA ChildrenAreReady ==
    ASSUME EqualCapacities, TreeInv, NEW p \in Pages, contents[p].type = "inner"
    PROVE  [i \in 1 .. contents[p].current_size |-> contents[p].values[i - 1]] \in Seq(Ready)
<1> DEFINE size == contents[p].current_size
           vs == contents[p].values
           e(i) == vs[i - 1]
<1>1. /\ size \in Nat
      /\ \A i \in 1 .. size : e(i) \in Ready
  <2>1. IsInner(contents[p], capacity.leaf, Keys, Ready) /\ capacity.leaf \in Nat
    BY Facts DEF Inner
  <2>2. /\ size \in 2 .. capacity.leaf
        /\ \A i \in 0 .. capacity.leaf - 1 : i < size => vs[i] \in Ready
    BY <2>1 DEF IsInner
  <2> HIDE DEF size, vs
  <2> QED BY <2>1, <2>2
<1> HIDE DEF size, vs
<1>2. [i \in 1 .. size |-> vs[i - 1]] \in Seq(Ready)
  BY <1>1
<1> QED BY <1>2 DEF size, vs

LEMMA DumpKeeps ==
    ASSUME EqualCapacities, TreeInv, Dump
    PROVE  TreeInv'
<1> DEFINE n == contents[call.at]
           children == IF n.type = "leaf" THEN <<>>
                       ELSE [i \in 1 .. n.current_size |-> n.values[i - 1]]
           page_ids == call.page_ids \o children
<1>1. /\ call.step = "dump" /\ dirty' \in AfterRequest(call.at)
      /\ UNCHANGED <<capacity, tree, contents, pins, m_frame_queue, found, outcome, failures>>
      /\ call' = IF page_ids = <<>> THEN Idle
                 ELSE [call EXCEPT !.at = Head(page_ids), !.page_ids = Tail(page_ids)]
  BY DEF Dump
<1>2. call.at \in Ready /\ call.at \in Pages /\ call.page_ids \in Seq(Ready)
  BY <1>1, Facts DEF TreeInv, Points, AtSearch
<1>3. call.step \in Reading /\ ~Aborted /\ call.new_page = NoPage /\ m_root_page_id # NoPage
  BY <1>1 DEF TreeInv, CallType, Reading
<1>4. /\ dirty' \subseteq dirty /\ dirty \subseteq Pages /\ pins \in [Pages -> Nat]
      /\ failures \in Nat /\ m_frame_queue \in Seq(Pages)
      /\ \A p \in Pages : p \notin Ready => pins[p] = 0
  BY <1>1, RequestKeepsPinned DEF TreeInv, Basics, FreshPagesAreBlank
<1>5. ASSUME NEW p \in Pages, contents[p].type = "inner"
      PROVE  pins[p] = Count(m_frame_queue, p) + 0 + 0 /\ p # NoPage
  BY <1>1, <1>3, <1>5, Facts DEF TreeInv, InnerPins
<1>6. OnlyInnerSplitsAbort' /\ InsertReturnsTrue'
  BY <1>1 DEF TreeInv, OnlyInnerSplitsAbort, InsertReturnsTrue, Aborted, tree
<1>7. page_ids \in Seq(Ready)
  <2>1. children \in Seq(Ready)
    <3>1. n.type = "leaf" \/ n.type = "inner"
      BY <1>2, Facts
    <3> QED BY <1>2, <3>1, ChildrenAreReady, EmptySeq
  <2> HIDE DEF children
  <2> QED BY <1>2, <2>1, ConcatProperties
<1> HIDE DEF page_ids
<1>8. CASE page_ids = <<>>
  <2>1. call' = Idle
    BY <1>1, <1>8
  <2>2. InnerPins'
    <3>1. call'.step = "idle" /\ call'.new_page = NoPage
      BY <2>1 DEF Idle
    <3> QED BY <1>1, <1>5, <3>1 DEF InnerPins
  <2> QED BY <1>1, <1>3, <1>4, <1>6, <2>1, <2>2, CallEnds
<1>9. CASE page_ids # <<>>
  <2>1. call' = [call EXCEPT !.at = Head(page_ids), !.page_ids = Tail(page_ids)]
    BY <1>1, <1>9
  <2> DEFINE h == Head(page_ids)
             t == Tail(page_ids)
  <2>2. h \in Ready /\ h \in Pages /\ t \in Seq(Ready) /\ t \in Seq(Pages)
    <3>1. h \in Ready /\ t \in Seq(Ready)
      BY <1>7, <1>9, HeadTailProperties
    <3> HIDE DEF h, t
    <3> QED BY <3>1, Facts, SeqMonotonic
  <2> HIDE DEF h, t
  <2>3. call' = [step |-> call.step, key |-> call.key, at |-> h,
                 new_page |-> call.new_page, previous |-> call.previous,
                 new_root |-> call.new_root, page_ids |-> t]
    <3> DEFINE a == [call EXCEPT !.at = h]
               b == [a EXCEPT !.page_ids = t]
    <3>1. a = [step |-> call.step, key |-> call.key, at |-> h,
               new_page |-> call.new_page, previous |-> call.previous,
               new_root |-> call.new_root, page_ids |-> call.page_ids]
      BY CallFields
    <3> HIDE DEF a
    <3>2. b = [step |-> call.step, key |-> call.key, at |-> h,
               new_page |-> call.new_page, previous |-> call.previous,
               new_root |-> call.new_root, page_ids |-> t]
      BY <3>1
    <3>3. call' = b
      BY <2>1, Zenon DEF a, h, t
    <3> QED BY <3>2, <3>3
  <2>4. call'.step = "dump" /\ call'.at = h /\ call'.new_page = NoPage /\ call'.page_ids = t
    <3>1. /\ call'.step = call.step
          /\ call'.at = h
          /\ call'.new_page = call.new_page
          /\ call'.page_ids = t
      BY <2>3
    <3> QED BY <1>1, <1>3, <3>1
  <2>5. CallType'
    <3>1. call' \in [step : Steps, key : Keys \cup {NoKey}, at : Pages \cup {NoPage},
                     new_page : Pages \cup {NoPage}, previous : Pages \cup {NoPage},
                     new_root : Pages \cup {NoPage}, page_ids : Seq(Pages)]
      BY <2>2, <2>3, CallFields
    <3>2. ~Aborted'
      BY <1>1, <1>3 DEF Aborted
    <3> QED BY <1>1, <1>3, <2>4, <3>1, <3>2 DEF CallType, tree
  <2>6. InnerPins'
    BY <1>1, <1>5, <2>4 DEF InnerPins
  <2>7. Ready' = Ready
    BY <1>1, <1>3, <2>4, ReadyWhenReading DEF tree, Reading
  <2>8. Points'
    BY <2>2, <2>4, <2>7 DEF Points, AtFirst, AtSearch, AtDescent, AtSplitLeaf, AtNewRoot,
                            AtClimb, AtSplitInner, AtNewRootOver
  <2>9. /\ m_frame_queue # <<>> =>
               m_root_page_id # NoPage /\ m_frame_queue[1] = m_root_page_id
        /\ \A i \in DOMAIN m_frame_queue : contents[m_frame_queue[i]].type = "inner"
    BY DEF TreeInv, PathFromRoot
  <2>10. call'.step \in Reading
    BY <2>4 DEF Reading
  <2> QED BY <1>1, <1>3, <1>4, <1>6, <2>5, <2>6, <2>8, <2>9, <2>10, CallGoesOn
<1> QED BY <1>8, <1>9
-----------------------------------------------------------------------------
(* The first key.                                                          *)

LEMMA StartFirstKeeps ==
    ASSUME EqualCapacities, TreeInv, NEW k \in Keys, HasPages, StartFirst(k)
    PROVE  TreeInv'
<1>1. /\ IsIdle /\ m_root_page_id = NoPage
      /\ m_root_page_id' = m_next_page /\ m_next_page' = m_next_page + 1
      /\ call' = [step |-> "first", key |-> k, at |-> NoPage, new_page |-> NoPage,
                  previous |-> NoPage, new_root |-> NoPage, page_ids |-> <<>>]
      /\ outcome' = "ok"
      /\ UNCHANGED <<capacity, contents, dirty, pins, m_frame_queue, failures>>
  BY DEF StartFirst, Idle, pool
<1>2. /\ call'.step = "first" /\ call'.key = k /\ call'.new_page = NoPage
  BY <1>1
<1>3. m_frame_queue = <<>>
  BY <1>1 DEF TreeInv, PathFromRoot
<1>4. m_next_page \in Nat /\ m_next_page + 3 =< MaxPages
  BY DEF TreeInv, Basics, HasPages
<1>5. m_root_page_id' \in Pages /\ m_next_page' \in 0 .. MaxPages
  BY <1>1, <1>4, TreeAssumption DEF Pages
<1>6. Ready' = Ready
  <2>1. Ready = 0 .. m_next_page - 1
    BY <1>1, Between, ReadyWhenReading
  <2>2. Ready' = {p \in 0 .. m_next_page : p # m_next_page}
    BY <1>1, <1>2, <1>4 DEF Ready, IsPending
  <2> QED BY <1>4, <2>1, <2>2
<1>7. ~Aborted'
  BY <1>1 DEF Aborted
<1>8. Basics'
  BY <1>1, <1>5 DEF TreeInv, Basics
<1>9. NodesAreNodes' /\ FreshPagesAreBlank'
  <2>1. \A p \in Pages : p \notin Ready => pins'[p] = 0
    BY <1>1 DEF TreeInv, FreshPagesAreBlank
  <2> QED BY <1>1, <1>6, <2>1, NodesStay
<1>10. PathFromRoot'
  BY <1>1, <1>2, <1>3 DEF PathFromRoot
<1>11. InnerPins'
  <2>1. \A p \in Pages : contents[p].type = "inner" => pins[p] = Count(m_frame_queue, p) + 0 + 0
    BY <1>1, Between, CountType
  <2> QED BY <1>1, <1>2, <2>1, Facts DEF InnerPins
<1>12. NodesHaveRoom'
  <2>1. SUFFICES ASSUME failures = 0, NEW p \in Ready PROVE HasRoom(p)'
    BY <1>1, <1>6 DEF NodesHaveRoom
  <2>2. HasRoom(p)
    BY <2>1 DEF TreeInv, NodesHaveRoom
  <2>3. p # m_root_page_id /\ call.step = "idle"
    BY <1>1, Facts, Between
  <2> QED BY <1>1, <2>2, <2>3 DEF HasRoom
<1>13. CallType'
  <2>1. <<>> \in Seq(Pages)
    BY EmptySeq
  <2>2. call' \in [step : Steps, key : Keys \cup {NoKey}, at : Pages \cup {NoPage},
                   new_page : Pages \cup {NoPage}, previous : Pages \cup {NoPage},
                   new_root : Pages \cup {NoPage}, page_ids : Seq(Pages)]
    BY <1>1, <2>1 DEF Steps
  <2> QED BY <1>2, <1>7, <2>2 DEF CallType
<1>14. Points'
  <2>1. AtFirst'
    BY <1>1, <1>2, <1>3, <1>4 DEF AtFirst
  <2> QED BY <1>2, <2>1 DEF Points, AtSearch, AtDescent, AtSplitLeaf, AtNewRoot,
                            AtClimb, AtSplitInner, AtNewRootOver
<1>15. OnlyInnerSplitsAbort' /\ InsertReturnsTrue'
  BY <1>1, <1>7 DEF OnlyInnerSplitsAbort, InsertReturnsTrue
<1> QED BY <1>8, <1>9, <1>10, <1>11, <1>12, <1>13, <1>14, <1>15 DEF TreeInv

\* A step that ends a call and writes some of the pages.
LEMMA Ended ==
    ASSUME call' = Idle,
           outcome' = outcome \/ outcome' = "ok", ~Aborted
    PROVE  CallType' /\ Points' /\ OnlyInnerSplitsAbort'
<1>1. call'.step = "idle" /\ call'.new_page = NoPage
  BY DEF Idle
<1>2. CallType'
  BY <1>1, EmptySeq DEF CallType, Idle, Steps
<1>3. Points'
  BY <1>1 DEF Points, AtFirst, AtSearch, AtDescent, AtSplitLeaf, AtNewRoot, AtClimb,
              AtSplitInner, AtNewRootOver
<1>4. ~Aborted'
  BY DEF Aborted
<1> QED BY <1>2, <1>3, <1>4 DEF OnlyInnerSplitsAbort

LEMMA FirstKeeps ==
    ASSUME EqualCapacities, TreeInv, First
    PROVE  TreeInv'
<1> DEFINE root == m_root_page_id
           n == init_first_node(capacity.leaf, call.key, RecordOf[call.key])
<1>1. /\ call.step = "first" /\ call' = Idle
      /\ contents' = [contents EXCEPT ![root] = n]
      /\ UNCHANGED <<capacity, m_root_page_id, m_next_page, dirty, pins, m_frame_queue,
                     outcome, failures>>
  BY DEF First, tree
<1>2. /\ root \in 0 .. m_next_page - 1 /\ call.key \in Keys /\ m_frame_queue = <<>>
      /\ call.new_page = NoPage /\ ~Aborted
  BY <1>1 DEF TreeInv, Points, AtFirst, CallType
<1>3. root \in Pages /\ root # NoPage
  BY <1>2, TreeAssumption DEF TreeInv, Basics, Pages, NoPage
<1>4. call'.step = "idle" /\ call'.new_page = NoPage
  BY <1>1 DEF Idle
<1>5. Ready' = Ready \cup {root} /\ root \notin Ready
  BY <1>1, <1>2, <1>4 DEF Ready, IsPending
<1>6. IsLeaf(n, capacity.leaf, Keys, Range(RecordOf)) /\ n.current_size = 1
  <2>1. RecordOf[call.key] \in Range(RecordOf)
    BY <1>2, TreeAssumption DEF Range
  <2> DEFINE cap == capacity.leaf
             k == call.key
             v == RecordOf[call.key]
             R == Range(RecordOf)
  <2>2. cap \in Nat /\ cap >= 1 /\ k \in Keys /\ v \in R
    BY <1>2, <2>1, Facts
  <2> HIDE DEF cap, k, v, R
  <2>3. IsLeaf(init_first_node(cap, k, v), cap, Keys, R)
        /\ init_first_node(cap, k, v).current_size = 1
    BY <2>2, FirstNodeIsLeaf
  <2> QED BY <2>3 DEF cap, k, v, R
<1> HIDE DEF n
<1>7. DOMAIN contents = Pages
  BY DEF TreeInv, Basics
<1>8. contents'[root] = n /\ \A p \in Pages : p # root => contents'[p] = contents[p]
  BY <1>1, <1>3, <1>7
<1>9. n.type = "leaf" /\ n.max_size = capacity.leaf
  BY <1>6 DEF IsLeaf
<1> HIDE DEF root
<1>10. Basics'
  BY <1>1, <1>7 DEF TreeInv, Basics
<1>11. NodesAreNodes'
  <2>1. SUFFICES ASSUME NEW p \in Pages
                 PROVE  contents'[p] = BlankPage \/ Leaf(p)' \/ Inner(p)'
    BY DEF NodesAreNodes
  <2>2. CASE p = root
    BY <1>1, <1>6, <1>8, <2>2 DEF Leaf
  <2>3. CASE p # root
    <3>1. contents[p] = BlankPage \/ Leaf(p) \/ Inner(p)
      BY DEF TreeInv, NodesAreNodes
    <3>2. contents'[p] = contents[p]
      BY <1>8, <2>3
    <3>3. Leaf(p) => Leaf(p)'
      BY <1>1, <3>2 DEF Leaf
    <3>4. Inner(p) => Inner(p)'
      BY <1>1, <1>5, <3>2, InnerGrows DEF Inner
    <3> QED BY <3>1, <3>2, <3>3, <3>4
  <2> QED BY <2>2, <2>3
<1>12. FreshPagesAreBlank'
  BY <1>1, <1>5, <1>8 DEF TreeInv, FreshPagesAreBlank
<1>13. PathFromRoot'
  BY <1>1, <1>2, <1>3, <1>5 DEF PathFromRoot, root
<1>14. InnerPins'
  <2>1. SUFFICES ASSUME NEW p \in Pages, contents'[p].type = "inner"
                 PROVE  pins[p] = Count(m_frame_queue, p) + 0 + 0 /\ p # NoPage
    BY <1>1, <1>4 DEF InnerPins
  <2>2. contents[p].type = "inner" /\ p # NoPage
    BY <1>8, <1>9, <2>1, Facts
  <2> QED BY <1>1, <1>2, <2>2 DEF TreeInv, InnerPins
<1>15. NodesHaveRoom'
  <2>1. SUFFICES ASSUME failures = 0, NEW p \in Ready' PROVE HasRoom(p)'
    BY <1>1 DEF NodesHaveRoom
  <2>2. CASE p = root
    BY <1>1, <1>6, <1>8, <1>9, <2>2, Facts DEF HasRoom, root
  <2>3. CASE p # root
    <3>1. p \in Ready /\ p \in Pages
      BY <1>5, <2>3, Facts
    <3>2. HasRoom(p) /\ contents'[p] = contents[p]
      BY <1>8, <2>1, <2>3, <3>1 DEF TreeInv, NodesHaveRoom
    <3> QED BY <1>1, <1>4, <3>2 DEF HasRoom
  <2> QED BY <2>2, <2>3
<1>16. CallType' /\ Points' /\ OnlyInnerSplitsAbort'
  BY <1>1, <1>2, Ended
<1>17. InsertReturnsTrue'
  BY <1>1 DEF TreeInv, InsertReturnsTrue
<1> QED BY <1>10, <1>11, <1>12, <1>13, <1>14, <1>15, <1>16, <1>17 DEF TreeInv
-----------------------------------------------------------------------------
(* Down, and up again.                                                     *)

\* Before the leaf is reached.
LEMMA DescendKeeps ==
    ASSUME EqualCapacities, TreeInv, Descend
    PROVE  TreeInv'
<1> DEFINE n == contents[call.at]
           child == n.values[inner_find_index(n, call.key)]
<1>1. /\ call.step = "descend" /\ n.type = "inner"
      /\ call' = [call EXCEPT !.at = child]
      /\ pins' = Pinned(call.at) /\ dirty' \in AfterRequest(call.at)
      /\ m_frame_queue' = Append(m_frame_queue, call.at)
      /\ UNCHANGED <<capacity, tree, contents, found, outcome, failures>>
  BY DEF Descend
<1>2. /\ call.at \in Ready /\ call.at \in Pages /\ call.key \in Keys /\ RoomFor(3)
      /\ m_frame_queue = <<>> => call.at = m_root_page_id
  BY <1>1, Facts DEF TreeInv, Points, AtSearch, AtDescent
<1>3. call.step \in Reading /\ ~Aborted /\ call.new_page = NoPage /\ m_root_page_id # NoPage
  BY <1>1 DEF TreeInv, CallType, Reading
<1>4. /\ dirty' \subseteq Pages /\ pins \in [Pages -> Nat] /\ m_frame_queue \in Seq(Pages)
      /\ \A p \in Pages : p \notin Ready => pins[p] = 0
  BY <1>1, RequestKeepsPinned DEF TreeInv, Basics, FreshPagesAreBlank
<1>5. child \in Ready /\ child \in Pages
  BY <1>1, <1>2, ChildIsReady, Facts
<1> HIDE DEF child
<1>6. call' = [step |-> call.step, key |-> call.key, at |-> child,
               new_page |-> call.new_page, previous |-> call.previous,
               new_root |-> call.new_root, page_ids |-> call.page_ids]
  BY <1>1, CallFields
<1>7. call'.step = "descend" /\ call'.key = call.key /\ call'.at = child /\ call'.new_page = NoPage
  BY <1>1, <1>3, <1>6
<1>8. /\ pins' \in [Pages -> Nat]
      /\ \A p \in Pages : pins'[p] = pins[p] + (IF p = call.at THEN 1 ELSE 0)
  BY <1>1, <1>2, <1>4 DEF Pinned
<1>9. /\ m_frame_queue' \in Seq(Pages) /\ m_frame_queue' # <<>>
      /\ m_frame_queue'[1] = m_root_page_id
      /\ \A i \in DOMAIN m_frame_queue' : contents[m_frame_queue'[i]].type = "inner"
  <2> DEFINE q == m_frame_queue
             a == call.at
  <2>1. /\ Append(q, a) \in Seq(Pages) /\ Append(q, a) # <<>>
        /\ \A i \in 1 .. Len(q) : Append(q, a)[i] = q[i]
        /\ Append(q, a)[Len(q) + 1] = a /\ Len(Append(q, a)) = Len(q) + 1
    BY <1>2, <1>4, AppendProperties
  <2>2. Len(q) \in Nat /\ DOMAIN q = 1 .. Len(q)
    BY <1>4
  <2>3. DOMAIN Append(q, a) = 1 .. Len(q) + 1
    BY <2>1, <2>2
  <2>4. q # <<>> => q[1] = m_root_page_id /\ Len(q) # 0
    BY <1>4 DEF TreeInv, PathFromRoot
  <2>5. q = <<>> => Len(q) = 0 /\ a = m_root_page_id
    BY <1>2
  <2>6. \A i \in 1 .. Len(q) : contents[q[i]].type = "inner"
    BY <2>2 DEF TreeInv, PathFromRoot
  <2>7. contents[a].type = "inner"
    BY <1>1
  <2> HIDE DEF q, a
  <2>8. Append(q, a)[1] = m_root_page_id
    BY <2>1, <2>2, <2>4, <2>5
  <2>9. \A i \in 1 .. Len(q) + 1 : contents[Append(q, a)[i]].type = "inner"
    BY <2>1, <2>2, <2>6, <2>7
  <2>10. m_frame_queue' = Append(q, a)
    BY <1>1 DEF q, a
  <2> QED BY <2>1, <2>3, <2>8, <2>9, <2>10
<1>10. CallType'
  <2>1. call' \in [step : Steps, key : Keys \cup {NoKey}, at : Pages \cup {NoPage},
                   new_page : Pages \cup {NoPage}, previous : Pages \cup {NoPage},
                   new_root : Pages \cup {NoPage}, page_ids : Seq(Pages)]
    BY <1>5, <1>6, CallFields
  <2>2. ~Aborted'
    BY <1>1, <1>3 DEF Aborted
  <2> QED BY <1>1, <1>3, <1>7, <2>1, <2>2 DEF CallType, tree
<1>11. InnerPins'
  <2>1. SUFFICES ASSUME NEW p \in Pages, contents[p].type = "inner"
                 PROVE  pins'[p] = Count(m_frame_queue', p) + 0 + 0 /\ p # NoPage
    BY <1>1, <1>7 DEF InnerPins
  <2>2. pins[p] = Count(m_frame_queue, p) + 0 + 0 /\ p # NoPage
    BY <1>1, <1>3, <2>1, Facts DEF TreeInv, InnerPins
  <2>3. /\ Count(m_frame_queue, p) \in Nat
        /\ Count(m_frame_queue', p) = Count(m_frame_queue, p) + (IF p = call.at THEN 1 ELSE 0)
    BY <1>1, <1>2, <1>4, CountAppend
  <2> QED BY <1>8, <2>2, <2>3
<1>12. Ready' = Ready
  BY <1>1, <1>3, <1>7, ReadyWhenReading DEF tree, Reading
<1>13. Points'
  <2>1. AtDescent'
    BY <1>1, <1>2, <1>7, <1>9 DEF AtDescent, RoomFor, tree
  <2> QED BY <1>5, <1>7, <1>12, <2>1
          DEF Points, AtFirst, AtSearch, AtSplitLeaf, AtNewRoot, AtClimb, AtSplitInner,
              AtNewRootOver
<1>14. OnlyInnerSplitsAbort' /\ InsertReturnsTrue'
  BY <1>1 DEF TreeInv, OnlyInnerSplitsAbort, InsertReturnsTrue, Aborted, tree
<1>15. call'.step \in Reading
  BY <1>7 DEF Reading
<1>16. ASSUME NEW p \in Pages, p \notin Ready PROVE pins'[p] = 0
  <2>1. p # call.at /\ pins[p] = 0
    BY <1>2, <1>4, <1>16
  <2> QED BY <1>8, <2>1
<1> QED BY <1>1, <1>3, <1>4, <1>8, <1>9, <1>10, <1>11, <1>13, <1>14, <1>15, <1>16, CallGoesOn

\* The node at the end of the queue.
LEMMA QueueTop ==
    ASSUME EqualCapacities, TreeInv, call.step \in {"climb", "split_inner"},
           m_frame_queue # <<>>
    PROVE  /\ Last(m_frame_queue) \in Ready /\ Last(m_frame_queue) \in Pages
           /\ contents[Last(m_frame_queue)].type = "inner"
           /\ Inner(Last(m_frame_queue))
           /\ pins[Last(m_frame_queue)] >= 1
           /\ m_root_page_id # NoPage
           /\ Front(m_frame_queue) \in Seq(Pages)
           /\ Front(m_frame_queue) # <<>> => Front(m_frame_queue)[1] = m_root_page_id
           /\ Front(m_frame_queue) = <<>> => Last(m_frame_queue) = m_root_page_id
           /\ \A i \in DOMAIN Front(m_frame_queue) :
                 contents[Front(m_frame_queue)[i]].type = "inner"
           /\ \A p \in Pages :
                 /\ Count(Front(m_frame_queue), p) \in Nat
                 /\ contents[p].type = "inner" =>
                       pins[p] = Count(Front(m_frame_queue), p)
                                 + (IF p = Last(m_frame_queue) THEN 1 ELSE 0)
                                 + (IF p = call.new_page THEN 1 ELSE 0)
<1> DEFINE q == m_frame_queue
           f == Front(q)
           at == Last(q)
<1>1. q \in Seq(Pages) /\ q # <<>> /\ pins \in [Pages -> Nat] /\ m_root_page_id # NoPage
  BY DEF TreeInv, Basics, CallType
<1>2. /\ f \in Seq(Pages) /\ at \in Pages
      /\ at = q[Len(q)] /\ Len(q) \in DOMAIN q
      /\ f # <<>> => f[1] = q[1]
      /\ f = <<>> => at = q[1]
      /\ \A i \in DOMAIN f : i \in DOMAIN q /\ f[i] = q[i]
  <2> HIDE DEF q
  <2> QED BY <1>1, CountFront
<1>3. /\ q[1] = m_root_page_id
      /\ \A i \in DOMAIN q : contents[q[i]].type = "inner"
  BY <1>1 DEF TreeInv, PathFromRoot
<1>4. ASSUME NEW p \in Pages
      PROVE  /\ Count(f, p) \in Nat
             /\ Count(q, p) = Count(f, p) + (IF p = at THEN 1 ELSE 0)
  <2> HIDE DEF q
  <2> QED BY <1>1, CountFront
<1>5. ~Aborted
  BY DEF TreeInv, CallType
<1>6. ASSUME NEW p \in Pages, contents[p].type = "inner"
      PROVE  pins[p] = Count(q, p) + (IF p = call.new_page THEN 1 ELSE 0) + 0
  BY <1>5, <1>6 DEF TreeInv, InnerPins
<1> HIDE DEF q, f, at
<1>7. contents[at].type = "inner" /\ at \in Ready /\ Inner(at)
  BY <1>2, <1>3, Facts
<1>8. ASSUME NEW p \in Pages, contents[p].type = "inner"
      PROVE  pins[p] = Count(f, p) + (IF p = at THEN 1 ELSE 0)
                       + (IF p = call.new_page THEN 1 ELSE 0)
  BY <1>4, <1>6, <1>8
<1>9. pins[at] >= 1
  <2>1. Count(f, at) \in Nat
    BY <1>2, <1>4
  <2>2. pins[at] = Count(f, at) + 1 + (IF at = call.new_page THEN 1 ELSE 0)
    BY <1>2, <1>7, <1>8
  <2> QED BY <2>1, <2>2
<1> QED BY <1>1, <1>2, <1>3, <1>4, <1>7, <1>8, <1>9 DEF q, f, at

LEMMA ClimbUnpinKeeps ==
    ASSUME EqualCapacities, TreeInv, ClimbUnpin
    PROVE  TreeInv'
<1> DEFINE at == Last(m_frame_queue)
           f == Front(m_frame_queue)
<1>1. /\ call.step = "climb" /\ m_frame_queue # <<>> /\ call.new_page = NoPage
      /\ pins' = Unpinned(at) /\ m_frame_queue' = f
      /\ UNCHANGED <<capacity, tree, contents, dirty, call, found, outcome, failures>>
  BY DEF ClimbUnpin, PopQueue
<1>2. /\ at \in Ready /\ at \in Pages /\ contents[at].type = "inner" /\ pins[at] >= 1
      /\ m_root_page_id # NoPage /\ f \in Seq(Pages)
      /\ f # <<>> => f[1] = m_root_page_id
      /\ \A i \in DOMAIN f : contents[f[i]].type = "inner"
  BY <1>1, QueueTop
<1>3. ASSUME NEW p \in Pages, contents[p].type = "inner"
      PROVE  /\ pins[p] = Count(f, p) + (IF p = at THEN 1 ELSE 0) + 0
             /\ Count(f, p) \in Nat /\ p # NoPage
  BY <1>1, <1>3, QueueTop, Facts
<1> HIDE DEF at, f
<1>4. /\ dirty \subseteq Pages /\ pins \in [Pages -> Nat]
      /\ \A p \in Pages : p \notin Ready => pins[p] = 0
  BY DEF TreeInv, Basics, FreshPagesAreBlank
<1>5. /\ pins' \in [Pages -> Nat]
      /\ pins'[at] = pins[at] - 1
      /\ \A p \in Pages : p # at => pins'[p] = pins[p]
  <2>1. pins[at] - 1 \in Nat
    BY <1>2, <1>4
  <2> QED BY <1>1, <1>2, <1>4, <2>1 DEF Unpinned
<1>6. \A p \in Pages : p \notin Ready => pins'[p] = 0
  BY <1>2, <1>4, <1>5
<1>7. CallType'
  BY <1>1 DEF TreeInv, CallType, Aborted, tree
<1>8. InnerPins'
  <2>1. SUFFICES ASSUME NEW p \in Pages, contents[p].type = "inner"
                 PROVE  pins'[p] = Count(f, p) + 0 + 0
    BY <1>1, <1>3 DEF InnerPins
  <2> QED BY <1>3, <1>5, <2>1
<1>9. Ready' = Ready
  BY <1>1, ReadyWhenReading DEF tree, Reading
<1>10. Points'
  <2>1. Inserted /\ call.at \in Pages
    BY <1>1, Facts DEF TreeInv, Points, AtClimb, Inserted
  <2>2. call.at # at
    BY <1>2, <2>1 DEF Inserted
  <2>3. Inserted'
    BY <1>1, <1>5, <1>9, <2>1, <2>2 DEF Inserted
  <2>4. AtClimb'
    BY <1>1, <2>3 DEF AtClimb
  <2> QED BY <1>1, <2>4 DEF Points, AtFirst, AtSearch, AtDescent, AtSplitLeaf, AtNewRoot,
                            AtSplitInner, AtNewRootOver
<1>11. OnlyInnerSplitsAbort' /\ InsertReturnsTrue'
  BY <1>1 DEF TreeInv, OnlyInnerSplitsAbort, InsertReturnsTrue, Aborted, tree
<1>12. call.step \in Reading /\ call'.step \in Reading
  BY <1>1 DEF Reading
<1> QED BY <1>1, <1>2, <1>4, <1>5, <1>6, <1>7, <1>8, <1>10, <1>11, <1>12, CallGoesOn

\* At the top.  There is a dirty page to flush: the leaf, at least, whose pin
\* has kept it in memory (b_plus_tree.hpp:209, 269).
LEMMA FinishKeeps ==
    ASSUME EqualCapacities, TreeInv, Finish
    PROVE  TreeInv'
<1>1. /\ call.step = "climb" /\ m_frame_queue = <<>>
      /\ UNCHANGED <<capacity, tree, contents, m_frame_queue, found, failures>>
  BY DEF Finish
<1>2. /\ call.step \in Reading /\ ~Aborted /\ call.step # "first"
      /\ m_root_page_id # NoPage
  BY <1>1 DEF TreeInv, CallType, Reading
<1>3. Inserted /\ call.at \in Pages
  BY <1>1, Facts DEF TreeInv, Points, AtClimb, Inserted
<1>4. /\ dirty \subseteq Pages /\ pins \in [Pages -> Nat] /\ failures \in Nat
      /\ m_frame_queue \in Seq(Pages)
      /\ \A p \in Pages : p \notin Ready => pins[p] = 0
  BY DEF TreeInv, Basics, FreshPagesAreBlank
<1>5. \A p \in Pages : Count(<<>>, p) = 0
  BY CountNone
<1>6. CASE call.new_page = NoPage
  <2>1. /\ dirty' = {} /\ pins' = [p \in Pages |-> IF p \in dirty THEN 0 ELSE pins[p]]
        /\ outcome' = "ok" /\ call' = Idle
    <3>1. dirty # {}
      BY <1>3 DEF Inserted
    <3> QED BY <1>6, <3>1 DEF Finish, FlushAll
  <2>2. pins' \in [Pages -> Nat] /\ \A p \in Pages : pins'[p] = 0 \/ pins'[p] = pins[p]
    BY <1>4, <2>1
  <2>3. InnerPins'
    <3>1. SUFFICES ASSUME NEW p \in Pages, contents[p].type = "inner"
                   PROVE  pins'[p] = Count(<<>>, p) + 0 + 0 /\ p # NoPage
      BY <1>1, <2>1 DEF InnerPins, Idle
    <3>2. pins[p] = Count(<<>>, p) + 0 + 0 /\ p # NoPage
      BY <1>1, <1>2, <1>6, <3>1, Facts DEF TreeInv, InnerPins
    <3> QED BY <1>5, <2>2, <3>2
  <2>4. OnlyInnerSplitsAbort' /\ InsertReturnsTrue'
    BY <2>1 DEF OnlyInnerSplitsAbort, InsertReturnsTrue, Aborted
  <2>5. \A p \in Pages : p \notin Ready => pins'[p] = 0
    BY <1>4, <2>2
  <2> QED BY <1>1, <1>2, <1>4, <2>1, <2>2, <2>3, <2>4, <2>5, CallEnds
<1>7. CASE call.new_page # NoPage
  <2>1. call' = [call EXCEPT !.step = "root_victim"] /\ UNCHANGED <<dirty, pins, outcome>>
    BY <1>7 DEF Finish
  <2>2. call' = [step |-> "root_victim", key |-> call.key, at |-> call.at,
                 new_page |-> call.new_page, previous |-> call.previous,
                 new_root |-> call.new_root, page_ids |-> call.page_ids]
    BY <2>1, CallFields
  <2>3. call'.step = "root_victim" /\ call'.at = call.at /\ call'.new_page = call.new_page
    BY <2>2
  <2>4. CallType'
    <3>1. call' \in [step : Steps, key : Keys \cup {NoKey}, at : Pages \cup {NoPage},
                     new_page : Pages \cup {NoPage}, previous : Pages \cup {NoPage},
                     new_root : Pages \cup {NoPage}, page_ids : Seq(Pages)]
      BY <2>2, CallFields DEF Steps
    <3>2. ~Aborted'
      BY <1>2, <2>1 DEF Aborted
    <3> QED BY <1>1, <1>2, <2>3, <3>1, <3>2 DEF CallType, tree
  <2>5. InnerPins'
    BY <1>1, <1>2, <2>1, <2>3 DEF TreeInv, InnerPins, Aborted, tree
  <2>6. Ready' = Ready
    BY <1>1, <2>3, ReadyWhenReading DEF tree, Reading
  <2>7. Points'
    <3>1. NewInner /\ RoomFor(1)
      BY <1>1, <1>7 DEF TreeInv, Points, AtClimb
    <3>2. Inserted'
      BY <1>1, <1>3, <2>1, <2>3, <2>6 DEF Inserted
    <3>3. NewInner'
      BY <1>1, <2>1, <2>3, <2>6, <3>1 DEF NewInner, RootSplit, tree
    <3>4. AtNewRootOver'
      BY <1>1, <2>3, <3>1, <3>2, <3>3 DEF AtNewRootOver, RoomFor, tree
    <3> QED BY <2>3, <3>4 DEF Points, AtFirst, AtSearch, AtDescent, AtSplitLeaf, AtNewRoot,
                              AtClimb, AtSplitInner
  <2>8. OnlyInnerSplitsAbort' /\ InsertReturnsTrue'
    BY <1>1, <2>1 DEF TreeInv, OnlyInnerSplitsAbort, InsertReturnsTrue, Aborted, tree
  <2>9. call'.step \in Reading
    BY <2>3 DEF Reading
  <2> QED BY <1>1, <1>2, <1>4, <2>1, <2>4, <2>5, <2>7, <2>8, <2>9, CallGoesOn
<1> QED BY <1>6, <1>7
-----------------------------------------------------------------------------
(* Steps that write nodes.                                                 *)

\* It is enough to look at the pages that are written.
LEMMA NodesWritten ==
    ASSUME TreeInv, capacity' = capacity, Ready \subseteq Ready',
           NEW W, W \subseteq Ready',
           \A p \in Pages : p \notin W => contents'[p] = contents[p],
           \A p \in W : \/ IsLeaf(contents'[p], capacity.leaf, Keys, Range(RecordOf))
                        \/ IsInner(contents'[p], capacity.leaf, Keys, Ready'),
           \A p \in Pages : p \notin Ready' => pins'[p] = 0
    PROVE  NodesAreNodes' /\ FreshPagesAreBlank'
<1>1. NodesAreNodes'
  <2>1. SUFFICES ASSUME NEW p \in Pages
                 PROVE  contents'[p] = BlankPage \/ Leaf(p)' \/ Inner(p)'
    BY DEF NodesAreNodes
  <2>2. CASE p \in W
    BY <2>2 DEF Leaf, Inner
  <2>3. CASE p \notin W
    <3>1. contents[p] = BlankPage \/ Leaf(p) \/ Inner(p)
      BY DEF TreeInv, NodesAreNodes
    <3>2. contents'[p] = contents[p]
      BY <2>3
    <3>3. Leaf(p) => Leaf(p)'
      BY <3>2 DEF Leaf
    <3>4. Inner(p) => Inner(p)'
      BY <3>2, InnerGrows DEF Inner
    <3> QED BY <3>1, <3>2, <3>3, <3>4
  <2> QED BY <2>2, <2>3
<1>2. FreshPagesAreBlank'
  BY DEF FreshPagesAreBlank, TreeInv
<1> QED BY <1>1, <1>2

\* The pages that a step may leave out.
LEMMA RoomKept ==
    ASSUME EqualCapacities, TreeInv, UNCHANGED <<capacity, failures>>, failures = 0,
           NEW p \in Ready, contents'[p] = contents[p],
           call.step = "split_leaf" => p # call.at,
           call.step = "split_inner" => p # Last(m_frame_queue),
           p = m_root_page_id => \/ m_root_page_id' = m_root_page_id
                                 \/ contents[p].type = "inner"
                                 \/ contents[p].current_size >= capacity.leaf \div 2
    PROVE  HasRoom(p)'
<1>1. HasRoom(p)
  BY DEF TreeInv, NodesHaveRoom
<1>2. contents[p].type = "leaf" \/ contents[p].type = "inner"
  BY Facts
<1> QED BY <1>1, <1>2 DEF HasRoom

LEMMA InsertInLeafKeeps ==
    ASSUME EqualCapacities, TreeInv, InsertInLeaf
    PROVE  TreeInv'
<1> DEFINE at == call.at
           n == contents[at]
           filled == trivial_insert(n, call.key, RecordOf[call.key])
           cap == capacity.leaf
<1>1. /\ call.step = "descend" /\ n.type = "leaf" /\ can_insert_trivially(n)
      /\ contents' = [contents EXCEPT ![at] = filled]
      /\ pins' = Pinned(at)
      /\ dirty' \in {ds \cup {at} : ds \in AfterRequest(at)}
      /\ UNCHANGED <<capacity, m_root_page_id, m_frame_queue, found, outcome, failures>>
  BY DEF InsertInLeaf
<1>2. /\ IF should_split(filled)
         THEN /\ call' = [call EXCEPT !.step = "split_leaf", !.new_page = m_next_page]
              /\ m_next_page' = m_next_page + 1
         ELSE /\ call' = [call EXCEPT !.step = "climb"]
              /\ m_next_page' = m_next_page
  BY DEF InsertInLeaf
<1>3. /\ at \in Ready /\ at \in Pages /\ call.key \in Keys /\ RoomFor(3)
      /\ m_frame_queue = <<>> => at = m_root_page_id
  BY <1>1, Facts DEF TreeInv, Points, AtSearch, AtDescent
<1>4. ~Aborted /\ call.new_page = NoPage /\ m_root_page_id # NoPage /\ call.step \in Reading
  BY <1>1 DEF TreeInv, CallType, Reading
<1>5. /\ dirty \subseteq Pages /\ pins \in [Pages -> Nat] /\ DOMAIN contents = Pages
      /\ m_next_page \in Nat /\ failures \in Nat /\ capacity \in Capacities
      /\ m_frame_queue \in Seq(Pages) /\ m_root_page_id \in Pages
      /\ \A p \in Pages : p \notin Ready => pins[p] = 0 /\ contents[p] = BlankPage
  BY <1>4 DEF TreeInv, Basics, FreshPagesAreBlank
<1>6. cap \in Nat /\ cap >= 5 /\ NoPage \notin Pages /\ Leaf(at)
  <2>1. cap \in Nat /\ cap >= 5 /\ NoPage \notin Pages
    BY Facts
  <2>2. n = BlankPage \/ Leaf(at) \/ Inner(at)
    BY <1>3 DEF TreeInv, NodesAreNodes
  <2>3. n # BlankPage
    BY <1>1 DEF can_insert_trivially, BlankPage
  <2>4. Inner(at) => n.type = "inner"
    BY DEF Inner, IsInner
  <2> QED BY <1>1, <2>1, <2>2, <2>3, <2>4
<1>7. IsLeaf(filled, cap, Keys, Range(RecordOf)) /\ filled.current_size = n.current_size + 1
  <2>1. RecordOf[call.key] \in Range(RecordOf)
    BY <1>3, TreeAssumption DEF Range
  <2> DEFINE k == call.key
             v == RecordOf[call.key]
             R == Range(RecordOf)
  <2>2. cap \in Nat /\ k \in Keys /\ v \in R /\ IsLeaf(n, cap, Keys, R) /\ can_insert_trivially(n)
    BY <1>1, <1>3, <1>6, <2>1 DEF Leaf
  <2> HIDE DEF cap, k, v, R, n
  <2>3. /\ IsLeaf(trivial_insert(n, k, v), cap, Keys, R)
        /\ trivial_insert(n, k, v).current_size = n.current_size + 1
    BY <2>2, InsertKeepsLeaf
  <2> QED BY <2>3 DEF k, v, R
<1> HIDE DEF filled
<1>8. filled.type = "leaf" /\ filled.max_size = cap /\ filled.current_size \in 1 .. cap
  BY <1>7 DEF IsLeaf
<1>9. should_split(filled) <=> filled.current_size = cap
  BY <1>8 DEF should_split
<1>10. n.current_size \in Nat /\ n.type = "leaf" /\ n.max_size = cap
  BY <1>6 DEF Leaf, IsLeaf
<1>11. contents'[at] = filled /\ \A p \in Pages : p # at => contents'[p] = contents[p]
  BY <1>1, <1>3, <1>5
<1>12. /\ pins' \in [Pages -> Nat] /\ pins'[at] >= 1
       /\ \A p \in Pages : p # at => pins'[p] = pins[p]
  BY <1>1, <1>3, <1>5 DEF Pinned
<1>13. dirty' \subseteq Pages /\ at \in dirty'
  <2>1. PICK ds \in AfterRequest(at) : dirty' = ds \cup {at}
    BY <1>1
  <2>2. ds \subseteq dirty
    BY <2>1, RequestKeepsPinned DEF TreeInv
  <2> QED BY <1>3, <1>5, <2>1, <2>2
<1>14. m_next_page + 3 =< MaxPages /\ MaxPages \in Nat
  BY <1>3, TreeAssumption DEF RoomFor
<1>15. /\ call'.at = at
       /\ call'.step = IF filled.current_size = cap THEN "split_leaf" ELSE "climb"
       /\ call'.new_page = IF filled.current_size = cap THEN m_next_page ELSE NoPage
       /\ m_next_page' = IF filled.current_size = cap THEN m_next_page + 1 ELSE m_next_page
       /\ call' \in [step : Steps, key : Keys \cup {NoKey}, at : Pages \cup {NoPage},
                     new_page : Pages \cup {NoPage}, previous : Pages \cup {NoPage},
                     new_root : Pages \cup {NoPage}, page_ids : Seq(Pages)]
  <2>1. CASE filled.current_size = cap
    <3>1. m_next_page \in Pages
      BY <1>5, <1>14 DEF Pages
    <3>2. /\ call' = [step |-> "split_leaf", key |-> call.key, at |-> call.at,
                      new_page |-> m_next_page, previous |-> call.previous,
                      new_root |-> call.new_root, page_ids |-> call.page_ids]
          /\ m_next_page' = m_next_page + 1
      BY <1>2, <1>9, <2>1, CallFields
    <3> QED BY <2>1, <3>1, <3>2, CallFields DEF Steps
  <2>2. CASE filled.current_size # cap
    <3>1. /\ call' = [step |-> "climb", key |-> call.key, at |-> call.at,
                      new_page |-> call.new_page, previous |-> call.previous,
                      new_root |-> call.new_root, page_ids |-> call.page_ids]
          /\ m_next_page' = m_next_page
      BY <1>2, <1>9, <2>2, CallFields
    <3> QED BY <1>4, <2>2, <3>1, CallFields DEF Steps
  <2> QED BY <2>1, <2>2
<1>16. Ready' = Ready
  <2>1. Ready = 0 .. m_next_page - 1
    BY <1>4, ReadyWhenReading
  <2>2. CASE filled.current_size = cap
    <3>1. Ready' = {p \in 0 .. m_next_page : p # m_next_page}
      BY <1>5, <1>15, <2>2 DEF Ready, IsPending
    <3> QED BY <1>5, <2>1, <3>1
  <2>3. CASE filled.current_size # cap
    BY <1>15, <2>1, <2>3, ReadyWhenReading DEF Reading
  <2> QED BY <2>2, <2>3
<1>17. Basics'
  <2>1. DOMAIN contents' = Pages
    BY <1>1, <1>5
  <2>2. m_next_page' \in 0 .. MaxPages
    BY <1>5, <1>14, <1>15
  <2> QED BY <1>1, <1>5, <1>12, <1>13, <2>1, <2>2 DEF Basics
<1>18. NodesAreNodes' /\ FreshPagesAreBlank'
  <2> DEFINE W == {at}
  <2>1. \A p \in W : IsLeaf(contents'[p], capacity.leaf, Keys, Range(RecordOf))
    BY <1>7, <1>11
  <2>2. ASSUME NEW p \in Pages, p \notin Ready' PROVE pins'[p] = 0
    <3>1. p # at /\ pins[p] = 0
      BY <1>3, <1>5, <1>16, <2>2
    <3> QED BY <1>12, <3>1
  <2>3. W \subseteq Ready' /\ Ready \subseteq Ready'
    BY <1>3, <1>16
  <2>4. \A p \in Pages : p \notin W => contents'[p] = contents[p]
    BY <1>11
  <2> HIDE DEF W
  <2> QED BY <1>1, <2>1, <2>2, <2>3, <2>4, NodesWritten
<1> HIDE DEF at, n, cap
<1>19. PathFromRoot'
  <2>1. /\ m_root_page_id \in Ready
        /\ m_frame_queue # <<>> => m_frame_queue[1] = m_root_page_id
        /\ \A i \in DOMAIN m_frame_queue : contents[m_frame_queue[i]].type = "inner"
    BY <1>1, <1>4 DEF TreeInv, PathFromRoot
  <2>2. \A i \in DOMAIN m_frame_queue : m_frame_queue[i] \in Pages
    BY <1>5, ElementOfSeq
  <2>3. \A i \in DOMAIN m_frame_queue : m_frame_queue[i] # at
    BY <1>10, <2>1 DEF n
  <2> QED BY <1>1, <1>4, <1>11, <1>16, <2>1, <2>2, <2>3 DEF PathFromRoot
<1>20. InnerPins'
  <2>1. SUFFICES ASSUME NEW p \in Pages, contents'[p].type = "inner"
                 PROVE  pins'[p] = Count(m_frame_queue, p) + 0 + 0 /\ p # call'.new_page
    BY <1>1, <1>15 DEF InnerPins
  <2>2. p # at /\ contents[p].type = "inner"
    BY <1>8, <1>11, <2>1
  <2>3. pins[p] = Count(m_frame_queue, p) + 0 + 0 /\ p # NoPage
    BY <1>1, <1>4, <1>6, <2>2 DEF TreeInv, InnerPins
  <2>4. p \in Ready /\ p # m_next_page
    BY <1>5, <2>2, Facts
  <2> QED BY <1>12, <1>15, <2>2, <2>3, <2>4
<1>21. NodesHaveRoom'
  <2>1. SUFFICES ASSUME failures = 0, NEW p \in Ready PROVE HasRoom(p)'
    BY <1>1, <1>16 DEF NodesHaveRoom
  <2>2. CASE p = at
    <3>1. HasRoom(at)
      BY <2>1, <1>3 DEF TreeInv, NodesHaveRoom
    <3>2. /\ filled.current_size < cap \/ call'.step = "split_leaf"
          /\ at # m_root_page_id => filled.current_size >= cap \div 2
      BY <1>1, <1>6, <1>7, <1>8, <1>10, <1>15, <3>1 DEF HasRoom, n, cap
    <3> QED BY <1>1, <1>8, <1>11, <1>15, <2>2, <3>2 DEF HasRoom, cap
  <2>3. CASE p # at
    <3>1. p \in Pages /\ contents'[p] = contents[p]
      BY <1>11, <2>3, Facts
    <3> QED BY <1>1, <2>1, <3>1, RoomKept
  <2> QED BY <2>2, <2>3
<1>22. CallType'
  <2>1. ~Aborted'
    BY <1>1, <1>4 DEF Aborted
  <2> QED BY <1>1, <1>4, <1>15, <2>1 DEF CallType
<1>23. Points'
  <2>1. Inserted'
    BY <1>3, <1>8, <1>11, <1>12, <1>13, <1>15, <1>16 DEF Inserted
  <2>2. AtSplitLeaf'
    <3>1. SUFFICES ASSUME filled.current_size = cap PROVE AtSplitLeaf'
      BY <1>15 DEF AtSplitLeaf
    <3>2. IsLeaf(contents'[at], capacity'.leaf, Keys, Range(RecordOf))
      BY <1>1, <1>7, <1>11 DEF cap
    <3>3. Leaf(call.at)'
      BY <1>15, <3>2 DEF Leaf
    <3>4. /\ contents'[call'.at].current_size = capacity'.leaf
          /\ m_frame_queue' = <<>> => call'.at = m_root_page_id'
          /\ call'.new_page \in 0 .. m_next_page' - 1
      BY <1>1, <1>3, <1>5, <1>11, <1>15, <3>1 DEF cap
    <3>5. RoomFor(2)'
      BY <1>5, <1>14, <1>15, <3>1 DEF RoomFor
    <3> QED BY <2>1, <3>3, <3>4, <3>5 DEF AtSplitLeaf
  <2>3. AtClimb'
    BY <1>15, <2>1 DEF AtClimb
  <2> QED BY <1>15, <2>2, <2>3 DEF Points, AtFirst, AtSearch, AtDescent, AtNewRoot,
                                  AtSplitInner, AtNewRootOver
<1>24. OnlyInnerSplitsAbort' /\ InsertReturnsTrue'
  BY <1>1 DEF TreeInv, OnlyInnerSplitsAbort, InsertReturnsTrue, Aborted
<1> QED BY <1>17, <1>18, <1>19, <1>20, <1>21, <1>22, <1>23, <1>24 DEF TreeInv

LEMMA RequestedAndDirty ==
    ASSUME Basics, NEW p \in Pages,
           dirty' \in {ds \cup {p} : ds \in AfterRequest(p)}
    PROVE  /\ dirty' \subseteq Pages
           /\ p \in dirty'
           /\ \A q \in dirty : pins[q] # 0 => q \in dirty'
           /\ InMemory(p) => dirty \subseteq dirty'
<1>1. PICK ds \in AfterRequest(p) : dirty' = ds \cup {p}
  OBVIOUS
<1>2. /\ ds \subseteq dirty
      /\ \A q \in dirty : pins[q] # 0 => q \in ds
      /\ InMemory(p) => ds = dirty
  BY <1>1, RequestKeepsPinned
<1>3. dirty \subseteq Pages
  BY DEF Basics
<1> QED BY <1>1, <1>2, <1>3

LEMMA SplitLeafKeeps ==
    ASSUME EqualCapacities, TreeInv, SplitLeaf
    PROVE  TreeInv'
<1> DEFINE at == call.at
           new == call.new_page
           cap == capacity.leaf
           split == leaf_split_node(cap, contents[at])
           left == split.left
           right == split.right
<1>1. /\ call.step = "split_leaf"
      /\ contents' = [contents EXCEPT ![at] = left, ![new] = right]
      /\ pins' = Pinned(new)
      /\ dirty' \in {ds \cup {new} : ds \in AfterRequest(new)}
      /\ UNCHANGED <<capacity, m_root_page_id, m_frame_queue, found, outcome, failures>>
  BY DEF SplitLeaf
<1>2. /\ IF m_frame_queue = <<>>
         THEN /\ call' = [call EXCEPT !.step = "new_root", !.new_root = m_next_page]
              /\ m_next_page' = m_next_page + 1
         ELSE /\ call' = [call EXCEPT !.step = "climb"]
              /\ m_next_page' = m_next_page
  BY DEF SplitLeaf
<1>3. /\ at \in Ready /\ at \in Pages /\ at \in dirty /\ pins[at] >= 1 /\ Leaf(at)
      /\ contents[at].current_size = cap
      /\ m_frame_queue = <<>> => at = m_root_page_id
      /\ new \in 0 .. m_next_page - 1 /\ m_next_page + 2 =< MaxPages
  BY <1>1, Facts DEF TreeInv, Points, AtSplitLeaf, Inserted, RoomFor
<1>4. ~Aborted /\ m_root_page_id # NoPage
  BY <1>1 DEF TreeInv, CallType
<1>5. /\ dirty \subseteq Pages /\ pins \in [Pages -> Nat] /\ DOMAIN contents = Pages
      /\ m_next_page \in Nat /\ failures \in Nat /\ capacity \in Capacities
      /\ m_frame_queue \in Seq(Pages) /\ m_root_page_id \in Pages
      /\ \A p \in Pages : p \notin Ready => pins[p] = 0 /\ contents[p] = BlankPage
  BY <1>4 DEF TreeInv, Basics, FreshPagesAreBlank
<1>6. /\ cap \in Nat /\ cap >= 5 /\ NoPage \notin Pages /\ MaxPages \in Nat
      /\ Ready = {p \in 0 .. m_next_page - 1 : p # new}
  BY <1>1, TreeAssumption, Facts DEF Ready, IsPending
<1>7. /\ new \in Pages /\ new \notin Ready /\ new # at
      /\ pins[new] = 0 /\ contents[new] = BlankPage
  <2>1. new \in Pages
    BY <1>3, <1>5, <1>6 DEF Pages
  <2> QED BY <1>3, <1>5, <1>6, <2>1
<1>8. /\ IsLeaf(left, cap, Keys, Range(RecordOf)) /\ IsLeaf(right, cap, Keys, Range(RecordOf))
      /\ left.current_size < cap /\ left.current_size >= cap \div 2
      /\ right.current_size < cap /\ right.current_size >= cap \div 2
  <2> DEFINE n == contents[at]
             R == Range(RecordOf)
  <2>1. cap \in Nat /\ cap >= 2 /\ IsLeaf(n, cap, Keys, R) /\ n.current_size = cap
    BY <1>3, <1>6 DEF Leaf
  <2> HIDE DEF cap, n, R
  <2>2. /\ IsLeaf(leaf_split_node(cap, n).left, cap, Keys, R)
        /\ IsLeaf(leaf_split_node(cap, n).right, cap, Keys, R)
        /\ leaf_split_node(cap, n).left.current_size < cap
        /\ leaf_split_node(cap, n).left.current_size >= cap \div 2
        /\ leaf_split_node(cap, n).right.current_size < cap
        /\ leaf_split_node(cap, n).right.current_size >= cap \div 2
    BY <2>1, LeafSplits
  <2> QED BY <2>2 DEF n, R
<1> HIDE DEF split, left, right
<1>9. /\ left.type = "leaf" /\ left.max_size = cap
      /\ right.type = "leaf" /\ right.max_size = cap
  BY <1>8 DEF IsLeaf
<1>10. contents[at].type = "leaf" /\ BlankPage.type = "leaf"
  BY <1>3 DEF Leaf, IsLeaf, BlankPage
<1> HIDE DEF cap
<1>11. /\ contents'[at] = left /\ contents'[new] = right
       /\ \A p \in Pages : p # at /\ p # new => contents'[p] = contents[p]
       /\ DOMAIN contents' = Pages
  BY <1>1, <1>3, <1>5, <1>7
<1>12. /\ pins' \in [Pages -> Nat] /\ pins'[new] = 1
       /\ \A p \in Pages : p # new => pins'[p] = pins[p]
  BY <1>1, <1>5, <1>7 DEF Pinned
<1>13. dirty' \subseteq Pages /\ at \in dirty' /\ new \in dirty'
  <2>1. Basics /\ pins[at] # 0
    BY <1>3 DEF TreeInv
  <2> HIDE DEF at, new
  <2> QED BY <1>1, <1>3, <1>7, <2>1, RequestedAndDirty
<1>14. /\ call'.at = at /\ call'.new_page = new
       /\ call'.step = IF m_frame_queue = <<>> THEN "new_root" ELSE "climb"
       /\ m_frame_queue = <<>> => call'.new_root = m_next_page
       /\ m_next_page' = IF m_frame_queue = <<>> THEN m_next_page + 1 ELSE m_next_page
       /\ call' \in [step : Steps, key : Keys \cup {NoKey}, at : Pages \cup {NoPage},
                     new_page : Pages \cup {NoPage}, previous : Pages \cup {NoPage},
                     new_root : Pages \cup {NoPage}, page_ids : Seq(Pages)]
  <2>1. CASE m_frame_queue = <<>>
    <3>1. m_next_page \in Pages
      BY <1>3, <1>5, <1>6 DEF Pages
    <3>2. /\ call' = [step |-> "new_root", key |-> call.key, at |-> call.at,
                      new_page |-> call.new_page, previous |-> call.previous,
                      new_root |-> m_next_page, page_ids |-> call.page_ids]
          /\ m_next_page' = m_next_page + 1
      BY <1>2, <2>1, CallFields
    <3> QED BY <2>1, <3>1, <3>2, CallFields DEF Steps
  <2>2. CASE m_frame_queue # <<>>
    <3>1. /\ call' = [step |-> "climb", key |-> call.key, at |-> call.at,
                      new_page |-> call.new_page, previous |-> call.previous,
                      new_root |-> call.new_root, page_ids |-> call.page_ids]
          /\ m_next_page' = m_next_page
      BY <1>2, <2>2, CallFields
    <3> QED BY <2>2, <3>1, CallFields DEF Steps
  <2> QED BY <2>1, <2>2
<1> HIDE DEF at, new
<1>15. Ready' = Ready \cup {new}
  <2>1. CASE m_frame_queue = <<>>
    <3>1. Ready' = {p \in 0 .. m_next_page : p # m_next_page}
      BY <1>5, <1>14, <2>1 DEF Ready, IsPending
    <3> QED BY <1>3, <1>5, <1>6, <3>1
  <2>2. CASE m_frame_queue # <<>>
    <3>1. Ready' = 0 .. m_next_page - 1
      BY <1>14, <2>2, ReadyWhenReading DEF Reading
    <3> QED BY <1>3, <1>6, <3>1
  <2> QED BY <2>1, <2>2
<1>16. Basics'
  <2>1. m_next_page' \in 0 .. MaxPages
    BY <1>3, <1>5, <1>6, <1>14
  <2> QED BY <1>1, <1>5, <1>11, <1>12, <1>13, <2>1 DEF Basics
<1>17. NodesAreNodes' /\ FreshPagesAreBlank'
  <2> DEFINE W == {at, new}
  <2>1. \A p \in W : IsLeaf(contents'[p], capacity.leaf, Keys, Range(RecordOf))
    BY <1>8, <1>11 DEF cap
  <2>2. ASSUME NEW p \in Pages, p \notin Ready' PROVE pins'[p] = 0
    <3>1. p # new /\ pins[p] = 0
      BY <1>5, <1>15, <2>2
    <3> QED BY <1>12, <3>1
  <2>3. W \subseteq Ready' /\ Ready \subseteq Ready'
    BY <1>3, <1>15
  <2>4. \A p \in Pages : p \notin W => contents'[p] = contents[p]
    BY <1>11
  <2> HIDE DEF W
  <2> QED BY <1>1, <2>1, <2>2, <2>3, <2>4, NodesWritten
<1>18. PathFromRoot'
  <2>1. /\ m_root_page_id \in Ready
        /\ m_frame_queue # <<>> => m_frame_queue[1] = m_root_page_id
        /\ \A i \in DOMAIN m_frame_queue : contents[m_frame_queue[i]].type = "inner"
    BY <1>1, <1>4 DEF TreeInv, PathFromRoot
  <2>2. \A i \in DOMAIN m_frame_queue : m_frame_queue[i] \in Pages
    BY <1>5, ElementOfSeq
  <2>3. \A i \in DOMAIN m_frame_queue : m_frame_queue[i] # at /\ m_frame_queue[i] # new
    BY <1>7, <1>10, <2>1
  <2> QED BY <1>1, <1>4, <1>11, <1>15, <2>1, <2>2, <2>3 DEF PathFromRoot
<1>19. InnerPins'
  <2>1. SUFFICES ASSUME NEW p \in Pages, contents'[p].type = "inner"
                 PROVE  pins'[p] = Count(m_frame_queue, p) + 0 + 0 /\ p # new
    BY <1>1, <1>14 DEF InnerPins
  <2>2. p # at /\ p # new /\ contents[p].type = "inner"
    BY <1>9, <1>11, <2>1
  <2>3. pins[p] = Count(m_frame_queue, p) + 0 + 0
    BY <1>1, <1>4, <2>2 DEF TreeInv, InnerPins, new
  <2> QED BY <1>12, <2>2, <2>3
<1>20. NodesHaveRoom'
  <2>1. SUFFICES ASSUME failures = 0, NEW p \in Ready' PROVE HasRoom(p)'
    BY <1>1 DEF NodesHaveRoom
  <2>2. CASE p = at \/ p = new
    BY <1>1, <1>8, <1>9, <1>11, <2>2 DEF HasRoom, cap
  <2>3. CASE p # at /\ p # new
    <3>1. p \in Ready /\ p \in Pages /\ contents'[p] = contents[p]
      BY <1>11, <1>15, <2>3, Facts
    <3> QED BY <1>1, <2>1, <2>3, <3>1, RoomKept DEF at
  <2> QED BY <2>2, <2>3
<1>21. CallType'
  <2>1. ~Aborted'
    BY <1>1, <1>4 DEF Aborted
  <2> QED BY <1>1, <1>4, <1>14, <2>1 DEF CallType
<1>22. Points'
  <2>1. Inserted'
    BY <1>3, <1>7, <1>9, <1>11, <1>12, <1>13, <1>14, <1>15 DEF Inserted
  <2>2. NewLeaf(new)'
    <3>1. IsLeaf(contents'[new], capacity'.leaf, Keys, Range(RecordOf))
      BY <1>1, <1>8, <1>11 DEF cap
    <3>2. contents'[new].current_size >= capacity'.leaf \div 2
      BY <1>1, <1>8, <1>11 DEF cap
    <3>3. new' = new
      BY <1>14 DEF new
    <3> QED BY <1>7, <1>12, <1>13, <1>14, <1>15, <3>1, <3>2, <3>3 DEF NewLeaf, Leaf
  <2>3. NewLeaf(call.new_page)'
    BY <2>2 DEF new
  <2>4. AtNewRoot'
    <3>1. SUFFICES ASSUME m_frame_queue = <<>> PROVE AtNewRoot'
      BY <1>14 DEF AtNewRoot
    <3>2. /\ call'.at = m_root_page_id' /\ m_frame_queue' = <<>>
          /\ contents'[call'.at].current_size >= capacity'.leaf \div 2
      BY <1>1, <1>3, <1>8, <1>11, <1>14, <3>1 DEF cap
    <3>3. call'.new_root \in 0 .. m_next_page' - 1
      BY <1>5, <1>14, <3>1
    <3> QED BY <2>1, <2>3, <3>2, <3>3 DEF AtNewRoot
  <2>5. AtClimb'
    BY <1>1, <1>3, <1>14, <2>1, <2>3 DEF AtClimb, RoomFor
  <2> QED BY <1>14, <2>4, <2>5 DEF Points, AtFirst, AtSearch, AtDescent, AtSplitLeaf,
                                  AtSplitInner, AtNewRootOver
<1>23. OnlyInnerSplitsAbort' /\ InsertReturnsTrue'
  BY <1>1 DEF TreeInv, OnlyInnerSplitsAbort, InsertReturnsTrue, Aborted
<1> QED BY <1>16, <1>17, <1>18, <1>19, <1>20, <1>21, <1>22, <1>23 DEF TreeInv

\* A root over two leaves (b_plus_tree.hpp:186-209).
LEMMA NewRootOverLeavesKeeps ==
    ASSUME EqualCapacities, TreeInv, NewRootOverLeaves
    PROVE  TreeInv'
<1> DEFINE at == call.at
           new == call.new_page
           root == call.new_root
           cap == capacity.leaf
           k == contents[new].keys[0]
           keys == [i \in {0, 1} |-> IF i = 0 THEN k ELSE NoKey]
           children == [i \in {0, 1} |-> IF i = 0 THEN m_root_page_id ELSE new]
           n == NewNode("inner", cap, 2, keys, children)
           ds == dirty \cup {root}
<1>1. /\ call.step = "new_root"
      /\ contents' = [contents EXCEPT ![root] = n]
      /\ m_root_page_id' = root
      /\ pins' = [p \in Pages |-> IF p \in ds THEN 0 ELSE pins[p]]
      /\ dirty' = {} /\ outcome' = "ok" /\ call' = Idle
      /\ UNCHANGED <<capacity, m_next_page, m_frame_queue, failures>>
  BY DEF NewRootOverLeaves, FlushAll
<1>2. /\ at \in Ready /\ at \in Pages /\ at = m_root_page_id /\ contents[at].type = "leaf"
      /\ contents[at].current_size >= cap \div 2
      /\ m_frame_queue = <<>>
      /\ new \in Ready /\ new \in Pages /\ new # at /\ Leaf(new)
      /\ root \in 0 .. m_next_page - 1
  BY <1>1, Facts DEF TreeInv, Points, AtNewRoot, Inserted, NewLeaf
<1>3. ~Aborted
  BY <1>1 DEF TreeInv, CallType
<1>4. /\ dirty \subseteq Pages /\ pins \in [Pages -> Nat] /\ DOMAIN contents = Pages
      /\ m_next_page \in 0 .. MaxPages /\ failures \in Nat /\ capacity \in Capacities
      /\ m_frame_queue \in Seq(Pages)
      /\ \A p \in Pages : p \notin Ready => pins[p] = 0
  BY DEF TreeInv, Basics, FreshPagesAreBlank
<1>5. /\ cap \in Nat /\ cap >= 5 /\ NoPage \notin Pages
      /\ Ready = {p \in 0 .. m_next_page - 1 : p # root}
  BY <1>1, Facts DEF Ready, IsPending
<1>6. root \in Pages /\ root \notin Ready /\ root # at /\ root # new /\ root # NoPage
  <2>1. root \in Pages
    BY <1>2, <1>4, TreeAssumption DEF Pages
  <2> QED BY <1>2, <1>5, <2>1
<1>7. call'.step = "idle" /\ call'.new_page = NoPage
  BY <1>1 DEF Idle
<1>8. Ready' = Ready \cup {root}
  <2>1. Ready' = 0 .. m_next_page - 1
    BY <1>1, <1>7, ReadyWhenReading DEF Reading
  <2> QED BY <1>2, <1>5, <2>1
<1>9. k \in Keys
  <2>1. IsLeaf(contents[new], cap, Keys, Range(RecordOf))
    BY <1>2 DEF Leaf
  <2> HIDE DEF cap
  <2> QED BY <1>5, <2>1 DEF IsLeaf
<1> HIDE DEF k
<1>10. IsInner(n, cap, Keys, Ready') /\ n.current_size = 2
  <2> DEFINE p == m_root_page_id
             P == Ready'
  <2>1. cap \in Nat /\ cap >= 3 /\ k \in Keys /\ p \in P /\ new \in P
    BY <1>2, <1>5, <1>8, <1>9
  <2> HIDE DEF cap, p, new, P
  <2>2. LET m == NewNode("inner", cap, 2, [i \in {0, 1} |-> IF i = 0 THEN k ELSE NoKey],
                                          [i \in {0, 1} |-> IF i = 0 THEN p ELSE new])
        IN  IsInner(m, cap, Keys, P) /\ m.current_size = 2
    BY <2>1, RootIsInner
  <2> QED BY <2>2 DEF p, P
<1> HIDE DEF n
<1>11. n.type = "inner" /\ n.max_size = cap
  BY <1>10 DEF IsInner
<1> HIDE DEF at, new, root, cap
<1>12. /\ contents'[root] = n
       /\ \A p \in Pages : p # root => contents'[p] = contents[p]
       /\ DOMAIN contents' = Pages
  BY <1>1, <1>4, <1>6
<1>13. /\ pins' \in [Pages -> Nat] /\ pins'[root] = 0
       /\ \A p \in Pages : pins'[p] = 0 \/ pins'[p] = pins[p]
  BY <1>1, <1>4, <1>6
<1>14. Basics'
  BY <1>1, <1>4, <1>6, <1>12, <1>13 DEF Basics
<1>15. NodesAreNodes' /\ FreshPagesAreBlank'
  <2> DEFINE W == {root}
  <2>1. \A p \in W : IsInner(contents'[p], capacity.leaf, Keys, Ready')
    BY <1>10, <1>12 DEF cap
  <2>2. ASSUME NEW p \in Pages, p \notin Ready' PROVE pins'[p] = 0
    <3>1. pins[p] = 0
      BY <1>4, <1>8, <2>2
    <3> QED BY <1>13, <3>1
  <2>3. W \subseteq Ready' /\ Ready \subseteq Ready'
    BY <1>8
  <2>4. \A p \in Pages : p \notin W => contents'[p] = contents[p]
    BY <1>12
  <2> HIDE DEF W
  <2> QED BY <1>1, <2>1, <2>2, <2>3, <2>4, NodesWritten
<1>16. PathFromRoot'
  BY <1>1, <1>2, <1>8 DEF PathFromRoot
<1>17. InnerPins'
  <2>1. SUFFICES ASSUME NEW p \in Pages, contents'[p].type = "inner"
                 PROVE  pins'[p] = Count(<<>>, p) + 0 + 0 /\ p # NoPage
    BY <1>1, <1>2, <1>7 DEF InnerPins
  <2>2. Count(<<>>, p) = 0 /\ p # NoPage
    BY <1>5, CountNone
  <2>3. CASE p = root
    BY <1>13, <2>2, <2>3
  <2>4. CASE p # root
    <3>1. contents[p].type = "inner" /\ p # new
      BY <1>2, <1>12, <2>1, <2>4 DEF Leaf, IsLeaf
    <3>2. pins[p] = Count(<<>>, p) + 0 + 0
      BY <1>1, <1>2, <1>3, <3>1 DEF TreeInv, InnerPins, new
    <3> QED BY <1>13, <2>2, <3>2
  <2> QED BY <2>3, <2>4
<1>18. NodesHaveRoom'
  <2>1. SUFFICES ASSUME failures = 0, NEW p \in Ready' PROVE HasRoom(p)'
    BY <1>1 DEF NodesHaveRoom
  <2>2. CASE p = root
    BY <1>1, <1>5, <1>10, <1>11, <1>12, <2>2 DEF HasRoom, cap
  <2>3. CASE p # root
    <3>1. p \in Ready /\ p \in Pages /\ contents'[p] = contents[p]
      BY <1>8, <1>12, <2>3, Facts
    <3>2. p = m_root_page_id => contents[p].current_size >= capacity.leaf \div 2
      BY <1>2 DEF cap
    <3> QED BY <1>1, <2>1, <3>1, <3>2, RoomKept
  <2> QED BY <2>2, <2>3
<1>19. CallType' /\ Points' /\ OnlyInnerSplitsAbort'
  BY <1>1, <1>3, Ended
<1>20. InsertReturnsTrue'
  BY <1>1 DEF InsertReturnsTrue
<1> QED BY <1>14, <1>15, <1>16, <1>17, <1>18, <1>19, <1>20 DEF TreeInv

\* The root that was split is requested for its key (b_plus_tree.hpp:29-33).
LEMMA RootVictimKeeps ==
    ASSUME EqualCapacities, TreeInv, RootVictim
    PROVE  TreeInv'
<1> DEFINE root == m_root_page_id
<1>1. /\ call.step = "root_victim"
      /\ pins' = Pinned(root)
      /\ dirty' \in {ds \cup {root} : ds \in AfterRequest(root)}
      /\ call' = [call EXCEPT !.step = "root_over", !.new_root = m_next_page]
      /\ m_next_page' = m_next_page + 1
      /\ UNCHANGED <<capacity, m_root_page_id, contents, m_frame_queue, outcome, failures>>
  BY DEF RootVictim
<1>2. /\ Inserted /\ NewInner /\ RootSplit /\ m_frame_queue = <<>>
      /\ m_next_page + 1 =< MaxPages
  BY <1>1 DEF TreeInv, Points, AtNewRootOver, RoomFor, NewInner
<1>3. /\ ~Aborted /\ root # NoPage /\ root \in Ready /\ root \in Pages
      /\ call.step \in Reading
  BY <1>1, Facts DEF TreeInv, CallType, PathFromRoot, Reading
<1>4. /\ dirty \subseteq Pages /\ pins \in [Pages -> Nat] /\ DOMAIN contents = Pages
      /\ m_next_page \in Nat /\ failures \in Nat /\ capacity \in Capacities
      /\ m_frame_queue \in Seq(Pages)
      /\ \A p \in Pages : p \notin Ready => pins[p] = 0
  BY DEF TreeInv, Basics, FreshPagesAreBlank
<1>5. m_next_page \in Pages
  BY <1>2, <1>4, TreeAssumption DEF Pages
<1>6. call' = [step |-> "root_over", key |-> call.key, at |-> call.at,
               new_page |-> call.new_page, previous |-> call.previous,
               new_root |-> m_next_page, page_ids |-> call.page_ids]
  BY <1>1, CallFields
<1>7. /\ call'.step = "root_over" /\ call'.at = call.at /\ call'.new_page = call.new_page
      /\ call'.new_root = m_next_page
  BY <1>6
<1>8. Ready' = Ready
  <2>1. Ready = 0 .. m_next_page - 1
    BY <1>3, ReadyWhenReading
  <2>2. Ready' = {p \in 0 .. m_next_page : p # m_next_page}
    BY <1>1, <1>4, <1>7 DEF Ready, IsPending
  <2> QED BY <1>4, <2>1, <2>2
<1>9. dirty' = dirty
  <2>1. Basics /\ root \in dirty
    BY <1>2 DEF TreeInv, RootSplit
  <2>2. PICK ds \in AfterRequest(root) : dirty' = ds \cup {root}
    BY <1>1
  <2>3. ds = dirty
    BY <2>1, <2>2, RequestKeepsPinned DEF InMemory
  <2> QED BY <2>1, <2>2, <2>3
<1>10. /\ pins' \in [Pages -> Nat] /\ pins'[root] = pins[root] + 1
       /\ \A p \in Pages : p # root => pins'[p] = pins[p]
  BY <1>1, <1>3, <1>4 DEF Pinned
<1>11. Basics'
  <2>1. m_next_page' \in 0 .. MaxPages
    BY <1>1, <1>2, <1>4, TreeAssumption
  <2> QED BY <1>1, <1>3, <1>4, <1>9, <1>10, <2>1 DEF Basics
<1>12. NodesAreNodes' /\ FreshPagesAreBlank'
  <2>1. ASSUME NEW p \in Pages, p \notin Ready' PROVE pins'[p] = 0
    <3>1. p # root /\ pins[p] = 0
      BY <1>3, <1>4, <1>8, <2>1
    <3> QED BY <1>10, <3>1
  <2> QED BY <1>1, <1>8, <2>1, NodesStay
<1>13. PathFromRoot'
  BY <1>1, <1>2, <1>3, <1>8 DEF PathFromRoot
<1>14. InnerPins'
  <2>1. SUFFICES ASSUME NEW p \in Pages, contents[p].type = "inner"
                 PROVE  pins'[p] = Count(m_frame_queue, p) + (IF p = call.new_page THEN 1 ELSE 0)
                                   + (IF p = root THEN 1 ELSE 0)
    BY <1>1, <1>7 DEF InnerPins
  <2>2. pins[p] = Count(m_frame_queue, p) + (IF p = call.new_page THEN 1 ELSE 0) + 0
    BY <1>1, <1>3, <2>1 DEF TreeInv, InnerPins
  <2>3. Count(m_frame_queue, p) \in Nat
    BY <1>4, CountType
  <2> QED BY <1>10, <2>2, <2>3
<1>15. NodesHaveRoom'
  BY <1>1, <1>8, RoomStays
<1>16. CallType'
  <2>1. call' \in [step : Steps, key : Keys \cup {NoKey}, at : Pages \cup {NoPage},
                   new_page : Pages \cup {NoPage}, previous : Pages \cup {NoPage},
                   new_root : Pages \cup {NoPage}, page_ids : Seq(Pages)]
    BY <1>5, <1>6, CallFields DEF Steps
  <2>2. ~Aborted'
    BY <1>1, <1>3 DEF Aborted
  <2> QED BY <1>1, <1>3, <1>7, <2>1, <2>2 DEF CallType
<1>17. Points'
  <2>1. Inserted'
    <3>1. call.at # root /\ call.at \in Pages
      BY <1>2, Facts DEF Inserted, RootSplit
    <3> QED BY <1>1, <1>2, <1>7, <1>8, <1>9, <1>10, <3>1 DEF Inserted
  <2>2. RootSplit'
    <3>1. PICK p \in dirty : contents[p].type = "leaf" /\ pins[p] = 0
      BY <1>2 DEF RootSplit
    <3>2. p # root /\ p \in Pages
      BY <1>2, <1>4, <3>1 DEF RootSplit
    <3>3. \E q \in dirty' : contents'[q].type = "leaf" /\ pins'[q] = 0
      BY <1>1, <1>9, <1>10, <3>1, <3>2
    <3> QED BY <1>1, <1>2, <1>7, <1>9, <3>3 DEF RootSplit
  <2>3. NewInner'
    BY <1>1, <1>2, <1>7, <1>8, <1>9, <2>2 DEF NewInner
  <2>4. call'.new_root \in 0 .. m_next_page' - 1
    BY <1>1, <1>4, <1>7
  <2>5. AtNewRootOver'
    BY <1>1, <1>2, <1>7, <2>1, <2>3, <2>4 DEF AtNewRootOver
  <2> QED BY <1>7, <2>5 DEF Points, AtFirst, AtSearch, AtDescent, AtSplitLeaf, AtNewRoot,
                            AtClimb, AtSplitInner
<1>18. OnlyInnerSplitsAbort' /\ InsertReturnsTrue'
  BY <1>1 DEF TreeInv, OnlyInnerSplitsAbort, InsertReturnsTrue, Aborted
<1> QED BY <1>11, <1>12, <1>13, <1>14, <1>15, <1>16, <1>17, <1>18 DEF TreeInv

\* A root over the two parts of the old one, whose last key moves up
\* (b_plus_tree.hpp:29-49).
LEMMA NewRootOverInnerKeeps ==
    ASSUME EqualCapacities, TreeInv, NewRootOverInner
    PROVE  TreeInv'
<1> DEFINE old == m_root_page_id
           new == call.new_page
           root == call.new_root
           cap == capacity.leaf
           victim == contents[old]
           last == victim.current_size - 1
           k == victim.keys[last]
           n == NewNode("inner", capacity.inner, 2,
                        [i \in {0, 1} |-> IF i = 0 THEN k ELSE NoKey],
                        [i \in {0, 1} |-> IF i = 0 THEN old ELSE new])
           m == [victim EXCEPT !.keys[last] = NoKey]
           ds == dirty \cup {root}
<1>1. /\ call.step = "root_over"
      /\ contents' = [contents EXCEPT ![root] = n, ![old].keys[last] = NoKey]
      /\ m_root_page_id' = root
      /\ pins' = [p \in Pages |-> IF p \in ds THEN 0 ELSE pins[p]]
      /\ dirty' = {} /\ outcome' = "ok" /\ call' = Idle
      /\ UNCHANGED <<capacity, m_next_page, m_frame_queue, failures>>
  BY DEF NewRootOverInner, FlushAll
<1>2. /\ m_frame_queue = <<>> /\ root \in 0 .. m_next_page - 1
      /\ NewInner /\ RootSplit
  BY <1>1 DEF TreeInv, Points, AtNewRootOver, NewInner
<1>3. /\ ~Aborted /\ old \in Ready /\ old \in Pages
      /\ new \in Ready /\ new \in Pages /\ new # old
      /\ old \in dirty /\ new \in dirty
      /\ victim.type = "inner" /\ k \in Keys
  BY <1>1, <1>2, Facts DEF TreeInv, CallType, PathFromRoot, NewInner, RootSplit
<1>4. /\ dirty \subseteq Pages /\ pins \in [Pages -> Nat] /\ DOMAIN contents = Pages
      /\ m_next_page \in 0 .. MaxPages /\ failures \in Nat /\ capacity \in Capacities
      /\ m_frame_queue \in Seq(Pages)
      /\ \A p \in Pages : p \notin Ready => pins[p] = 0
  BY DEF TreeInv, Basics, FreshPagesAreBlank
<1>5. /\ cap \in Nat /\ cap >= 5 /\ capacity.inner = cap /\ NoPage \notin Pages
      /\ Ready = {p \in 0 .. m_next_page - 1 : p # root}
      /\ Inner(old)
  BY <1>1, <1>3, Facts DEF Ready, IsPending
<1>6. root \in Pages /\ root \notin Ready /\ root # old /\ root # new /\ root # NoPage
  <2>1. root \in Pages
    BY <1>2, <1>4, TreeAssumption DEF Pages
  <2> QED BY <1>3, <1>5, <2>1
<1>7. call'.step = "idle" /\ call'.new_page = NoPage
  BY <1>1 DEF Idle
<1>8. Ready' = Ready \cup {root}
  <2>1. Ready' = 0 .. m_next_page - 1
    BY <1>1, <1>7, ReadyWhenReading DEF Reading
  <2> QED BY <1>2, <1>5, <2>1
<1>9. IsInner(n, cap, Keys, Ready') /\ n.current_size = 2
  <2> DEFINE P == Ready'
  <2>1. cap \in Nat /\ cap >= 3 /\ k \in Keys /\ old \in P /\ new \in P
    BY <1>3, <1>5, <1>8
  <2>2. n = NewNode("inner", cap, 2, [i \in {0, 1} |-> IF i = 0 THEN k ELSE NoKey],
                                     [i \in {0, 1} |-> IF i = 0 THEN old ELSE new])
    BY <1>5
  <2> HIDE DEF cap, k, old, new, P, n
  <2>3. LET r == NewNode("inner", cap, 2, [i \in {0, 1} |-> IF i = 0 THEN k ELSE NoKey],
                                          [i \in {0, 1} |-> IF i = 0 THEN old ELSE new])
        IN  IsInner(r, cap, Keys, P) /\ r.current_size = 2
    BY <2>1, RootIsInner
  <2> QED BY <2>2, <2>3 DEF P
<1>10. IsInner(m, cap, Keys, Ready') /\ m.current_size = victim.current_size
  <2> DEFINE P == Ready'
  <2>1. IsInner(victim, cap, Keys, Ready) /\ Ready \subseteq P
    BY <1>5, <1>8 DEF Inner
  <2> HIDE DEF cap, victim, P
  <2>2. IsInner(victim, cap, Keys, P)
    BY <2>1, InnerGrows
  <2>3. LET r == [victim EXCEPT !.keys[victim.current_size - 1] = NoKey]
        IN  IsInner(r, cap, Keys, P) /\ r.current_size = victim.current_size
    BY <1>5, <2>2, BlankedIsInner
  <2> QED BY <2>3 DEF P
<1> HIDE DEF n
<1>11. /\ n.type = "inner" /\ n.max_size = cap
       /\ m.type = "inner" /\ m.max_size = cap
  BY <1>9, <1>10 DEF IsInner
<1>12. /\ contents'[root] = n /\ contents'[old] = m
       /\ \A p \in Pages : p # root /\ p # old => contents'[p] = contents[p]
       /\ DOMAIN contents' = Pages
  <2> DEFINE c == [contents EXCEPT ![root] = n]
  <2>1. c[root] = n /\ c[old] = victim /\ DOMAIN c = Pages
        /\ \A p \in Pages : p # root => c[p] = contents[p]
    BY <1>3, <1>4, <1>6
  <2>2. contents' = [c EXCEPT ![old] = [c[old] EXCEPT !.keys[last] = NoKey]]
    BY <1>1, Zenon
  <2> HIDE DEF c
  <2>3. contents' = [c EXCEPT ![old] = m]
    BY <2>1, <2>2
  <2> HIDE DEF m
  <2> QED BY <1>3, <1>6, <2>1, <2>3
<1> HIDE DEF m, victim, k, last, old, new, root, cap
<1>13. /\ pins' \in [Pages -> Nat] /\ pins'[root] = 0 /\ pins'[old] = 0 /\ pins'[new] = 0
       /\ \A p \in Pages : pins'[p] = 0 \/ pins'[p] = pins[p]
  BY <1>1, <1>3, <1>4, <1>6
<1>14. Basics'
  BY <1>1, <1>4, <1>6, <1>12, <1>13 DEF Basics
<1>15. NodesAreNodes' /\ FreshPagesAreBlank'
  <2> DEFINE W == {root, old}
  <2>1. \A p \in W : IsInner(contents'[p], capacity.leaf, Keys, Ready')
    BY <1>9, <1>10, <1>12 DEF cap
  <2>2. ASSUME NEW p \in Pages, p \notin Ready' PROVE pins'[p] = 0
    <3>1. pins[p] = 0
      BY <1>4, <1>8, <2>2
    <3> QED BY <1>13, <3>1
  <2>3. W \subseteq Ready' /\ Ready \subseteq Ready'
    BY <1>3, <1>8
  <2>4. \A p \in Pages : p \notin W => contents'[p] = contents[p]
    BY <1>12
  <2> HIDE DEF W
  <2> QED BY <1>1, <2>1, <2>2, <2>3, <2>4, NodesWritten
<1>16. PathFromRoot'
  BY <1>1, <1>2, <1>8 DEF PathFromRoot
<1>17. InnerPins'
  <2>1. SUFFICES ASSUME NEW p \in Pages, contents'[p].type = "inner"
                 PROVE  pins'[p] = Count(<<>>, p) + 0 + 0 /\ p # NoPage
    BY <1>1, <1>2, <1>7 DEF InnerPins
  <2>2. Count(<<>>, p) = 0 /\ p # NoPage
    BY <1>5, CountNone
  <2>3. CASE p = root \/ p = old \/ p = new
    <3>1. pins'[p] = 0
      BY <1>13, <2>3
    <3> QED BY <2>2, <3>1
  <2>4. CASE p # root /\ p # old /\ p # new
    <3>1. contents[p].type = "inner"
      BY <1>12, <2>1, <2>4
    <3>2. pins[p] = Count(<<>>, p) + 0 + 0
      BY <1>1, <1>2, <1>3, <2>4, <3>1 DEF TreeInv, InnerPins, new, old
    <3> QED BY <1>13, <2>2, <3>2
  <2> QED BY <2>3, <2>4
<1>18. NodesHaveRoom'
  <2>1. SUFFICES ASSUME failures = 0, NEW p \in Ready' PROVE HasRoom(p)'
    BY <1>1 DEF NodesHaveRoom
  <2>2. CASE p = root
    BY <1>1, <1>5, <1>9, <1>11, <1>12, <2>2 DEF HasRoom, cap
  <2>3. CASE p = old
    <3>1. HasRoom(old)
      BY <1>3, <2>1 DEF TreeInv, NodesHaveRoom
    <3>2. m.current_size < cap
      BY <1>1, <1>10, <3>1 DEF HasRoom, cap, victim
    <3> QED BY <1>1, <1>11, <1>12, <2>3, <3>2 DEF HasRoom, cap
  <2>4. CASE p # root /\ p # old
    <3>1. p \in Ready /\ p \in Pages /\ contents'[p] = contents[p]
      BY <1>8, <1>12, <2>4, Facts
    <3> QED BY <1>1, <2>1, <2>4, <3>1, RoomKept DEF old
  <2> QED BY <2>2, <2>3, <2>4
<1>19. CallType' /\ Points' /\ OnlyInnerSplitsAbort'
  BY <1>1, <1>3, Ended
<1>20. InsertReturnsTrue'
  BY <1>1 DEF InsertReturnsTrue
<1> QED BY <1>14, <1>15, <1>16, <1>17, <1>18, <1>19, <1>20 DEF TreeInv

\* The leaf split off is entered in the node above (b_plus_tree.hpp:212-263).
LEMMA ClimbInsertKeeps ==
    ASSUME EqualCapacities, TreeInv, ClimbInsert
    PROVE  TreeInv'
<1> DEFINE at == Last(m_frame_queue)
           f == Front(m_frame_queue)
           new == call.new_page
           n == contents[at]
           filled == trivial_insert_leaf_node(n, new, contents[new])
           cap == capacity.leaf
<1>1. /\ call.step = "climb" /\ m_frame_queue # <<>> /\ new # NoPage
      /\ contents[new].type = "leaf"
      /\ can_insert_trivially(n)
      /\ contents' = [contents EXCEPT ![at] = filled]
      /\ dirty' = dirty \cup {at}
      /\ UNCHANGED <<capacity, m_root_page_id, found, outcome, failures>>
  BY DEF ClimbInsert
<1>2. IF should_split(filled)
      THEN /\ call' = [call EXCEPT !.step = "split_inner", !.previous = new,
                                   !.new_page = m_next_page]
           /\ m_next_page' = m_next_page + 1
           /\ pins' = pins /\ m_frame_queue' = m_frame_queue
      ELSE /\ call' = [call EXCEPT !.new_page = NoPage]
           /\ pins' = [Unpinned(new) EXCEPT ![at] = @ - 1]
           /\ m_frame_queue' = f
           /\ m_next_page' = m_next_page
  BY DEF ClimbInsert, PopQueue
<1>3. /\ at \in Ready /\ at \in Pages /\ n.type = "inner" /\ Inner(at)
      /\ pins[at] >= 1 /\ m_root_page_id # NoPage
      /\ f \in Seq(Pages)
      /\ f # <<>> => f[1] = m_root_page_id
      /\ \A i \in DOMAIN f : contents[f[i]].type = "inner"
  BY <1>1, QueueTop
<1>4. /\ Inserted /\ call.at \in Pages
      /\ NewLeaf(new) /\ new \in Pages /\ m_next_page + 2 =< MaxPages
  BY <1>1, Facts DEF TreeInv, Points, AtClimb, NewInner, Inserted, NewLeaf, RoomFor
<1>5. /\ new \in Ready /\ pins[new] = 1 /\ Leaf(new) /\ new \in dirty
      /\ new # call.at /\ contents[call.at].type = "leaf" /\ call.at \in Ready
      /\ call.at \in dirty /\ pins[call.at] >= 1
      /\ contents[new].current_size >= cap \div 2
  BY <1>4 DEF NewLeaf, Inserted
<1>6. ~Aborted /\ call.step \in Reading
  BY <1>1 DEF TreeInv, CallType, Reading
<1>7. /\ dirty \subseteq Pages /\ pins \in [Pages -> Nat] /\ DOMAIN contents = Pages
      /\ m_next_page \in Nat /\ failures \in Nat /\ capacity \in Capacities
      /\ m_frame_queue \in Seq(Pages) /\ m_root_page_id \in Pages
      /\ \A p \in Pages : p \notin Ready => pins[p] = 0 /\ contents[p] = BlankPage
  BY <1>3 DEF TreeInv, Basics, FreshPagesAreBlank
<1>8. /\ cap \in Nat /\ cap >= 5 /\ NoPage \notin Pages /\ MaxPages \in Nat
      /\ Ready = 0 .. m_next_page - 1
  BY <1>6, TreeAssumption, Facts, ReadyWhenReading
<1>9. IsInner(filled, cap, Keys, Ready) /\ filled.current_size = n.current_size + 1
  <2> DEFINE sibling == contents[new]
  <2>1. sibling.keys[0] \in Keys
    <3>1. IsLeaf(sibling, cap, Keys, Range(RecordOf))
      BY <1>5 DEF Leaf
    <3> HIDE DEF sibling, cap
    <3> QED BY <1>8, <3>1 DEF IsLeaf
  <2> DEFINE P == Ready
  <2>2. /\ cap \in Nat /\ IsInner(n, cap, Keys, P) /\ can_insert_trivially(n)
        /\ new \in P /\ sibling.keys[0] \in Keys
    BY <1>1, <1>3, <1>5, <1>8, <2>1 DEF Inner
  <2> HIDE DEF sibling, cap, n, new, P
  <2>3. /\ IsInner(trivial_insert_leaf_node(n, new, sibling), cap, Keys, P)
        /\ trivial_insert_leaf_node(n, new, sibling).current_size = n.current_size + 1
    BY <2>2, InsertKeepsInner
  <2> QED BY <2>3 DEF sibling, P
<1> HIDE DEF filled
<1>10. filled.type = "inner" /\ filled.max_size = cap /\ filled.current_size \in 2 .. cap
  BY <1>9 DEF IsInner
<1>11. should_split(filled) <=> filled.current_size = cap
  BY <1>10 DEF should_split
<1>12. at # new /\ at # call.at
  BY <1>1, <1>3, <1>5
<1>13. ASSUME NEW p \in Pages, contents[p].type = "inner"
       PROVE  /\ Count(f, p) \in Nat
              /\ pins[p] = Count(f, p) + (IF p = at THEN 1 ELSE 0)
              /\ pins[p] = Count(m_frame_queue, p)
              /\ p # NoPage /\ p # m_next_page
  <2>1. p # new
    BY <1>1, <1>13
  <2>2. /\ Count(f, p) \in Nat
        /\ pins[p] = Count(f, p) + (IF p = at THEN 1 ELSE 0) + 0
    BY <1>1, <1>13, <2>1, QueueTop
  <2>3. pins[p] = Count(m_frame_queue, p) + 0 + 0
    BY <1>1, <1>6, <1>13, <2>1 DEF TreeInv, InnerPins
  <2>4. Count(m_frame_queue, p) \in Nat
    BY <1>7, CountType
  <2>5. p \in Ready /\ p # NoPage
    BY <1>13, Facts
  <2>6. p # m_next_page
    BY <1>7, <1>8, <2>5
  <2> QED BY <2>2, <2>3, <2>4, <2>5, <2>6
<1> HIDE DEF at, f, new, n, cap
<1>14. /\ contents'[at] = filled
       /\ \A p \in Pages : p # at => contents'[p] = contents[p]
       /\ DOMAIN contents' = Pages
  BY <1>1, <1>3, <1>7
<1>15. dirty' \subseteq Pages /\ at \in dirty' /\ dirty \subseteq dirty'
  BY <1>1, <1>3, <1>7
<1>16. CASE filled.current_size = cap
  <2>1. m_next_page \in Pages
    BY <1>4, <1>7, <1>8 DEF Pages
  <2>2. /\ call' = [call EXCEPT !.step = "split_inner", !.previous = new,
                                !.new_page = m_next_page]
        /\ m_next_page' = m_next_page + 1
        /\ pins' = pins /\ m_frame_queue' = m_frame_queue
    BY <1>2, <1>11, <1>16
  <2>3. call' = [step |-> "split_inner", key |-> call.key, at |-> call.at,
                 new_page |-> m_next_page, previous |-> new,
                 new_root |-> call.new_root, page_ids |-> call.page_ids]
    BY <2>2, CallFields
  <2>4. /\ call'.step = "split_inner" /\ call'.at = call.at
        /\ call'.new_page = m_next_page /\ call'.previous = new
    BY <2>3
  <2>5. Ready' = Ready
    <3>1. Ready' = {p \in 0 .. m_next_page : p # m_next_page}
      BY <1>7, <2>2, <2>4 DEF Ready, IsPending
    <3> QED BY <1>7, <1>8, <3>1
  <2>6. Basics'
    <3>1. m_next_page' \in 0 .. MaxPages
      BY <1>4, <1>7, <1>8, <2>2
    <3> QED BY <1>1, <1>7, <1>14, <1>15, <2>2, <3>1 DEF Basics
  <2>7. NodesAreNodes' /\ FreshPagesAreBlank'
    <3> DEFINE W == {at}
    <3>1. \A p \in W : IsInner(contents'[p], capacity.leaf, Keys, Ready')
      BY <1>9, <1>14, <2>5 DEF cap
    <3>2. \A p \in Pages : p \notin Ready' => pins'[p] = 0
      BY <1>7, <2>2, <2>5
    <3>3. W \subseteq Ready' /\ Ready \subseteq Ready'
      BY <1>3, <2>5
    <3>4. \A p \in Pages : p \notin W => contents'[p] = contents[p]
      BY <1>14
    <3> HIDE DEF W
    <3> QED BY <1>1, <3>1, <3>2, <3>3, <3>4, NodesWritten
  <2>8. PathFromRoot'
    <3>1. /\ m_root_page_id \in Ready /\ m_frame_queue[1] = m_root_page_id
          /\ \A i \in DOMAIN m_frame_queue : contents[m_frame_queue[i]].type = "inner"
      BY <1>1, <1>3 DEF TreeInv, PathFromRoot
    <3>2. \A i \in DOMAIN m_frame_queue : m_frame_queue[i] \in Pages
      BY <1>7, ElementOfSeq
    <3>3. \A i \in DOMAIN m_frame_queue : contents'[m_frame_queue[i]].type = "inner"
      BY <1>10, <1>14, <3>1, <3>2
    <3> QED BY <1>1, <1>3, <2>2, <2>5, <3>1, <3>3 DEF PathFromRoot
  <2>9. InnerPins'
    <3>1. SUFFICES ASSUME NEW p \in Pages, contents'[p].type = "inner"
                   PROVE  pins[p] = Count(m_frame_queue, p) + 0 + 0 /\ p # m_next_page
      BY <1>1, <2>2, <2>4 DEF InnerPins
    <3>2. contents[p].type = "inner"
      BY <1>3, <1>14, <3>1 DEF n
    <3> QED BY <1>13, <1>7, <3>2
  <2>10. NodesHaveRoom'
    <3>1. SUFFICES ASSUME failures = 0, NEW p \in Ready PROVE HasRoom(p)'
      BY <1>1, <2>5 DEF NodesHaveRoom
    <3>2. CASE p = at
      <4>1. p = Last(m_frame_queue')
        BY <2>2, <3>2 DEF at
      <4> QED BY <1>1, <1>10, <1>14, <2>4, <3>2, <4>1 DEF HasRoom, cap
    <3>3. CASE p # at
      <4>1. p \in Pages /\ contents'[p] = contents[p]
        BY <1>14, <3>3, Facts
      <4> QED BY <1>1, <3>1, <4>1, RoomKept
    <3> QED BY <3>2, <3>3
  <2>11. CallType'
    <3>1. call' \in [step : Steps, key : Keys \cup {NoKey}, at : Pages \cup {NoPage},
                     new_page : Pages \cup {NoPage}, previous : Pages \cup {NoPage},
                     new_root : Pages \cup {NoPage}, page_ids : Seq(Pages)]
      BY <1>4, <2>1, <2>3, CallFields DEF Steps
    <3>2. ~Aborted'
      BY <1>1, <1>6 DEF Aborted
    <3> QED BY <1>1, <1>3, <2>4, <3>1, <3>2 DEF CallType
  <2>12. Points'
    <3>1. Inserted'
      BY <1>5, <1>12, <1>14, <1>15, <1>4, <2>2, <2>4, <2>5 DEF Inserted
    <3>2. NewLeaf(call.previous)'
      <4>1. contents'[call'.previous] = contents[new]
        BY <1>4, <1>12, <1>14, <2>4
      <4>2. Leaf(call.previous)'
        BY <1>1, <1>5, <4>1 DEF Leaf
      <4> QED BY <1>1, <1>5, <1>15, <2>2, <2>4, <2>5, <4>1, <4>2 DEF NewLeaf, cap
    <3>3. /\ m_frame_queue' # <<>> /\ Last(m_frame_queue') = at
          /\ contents'[Last(m_frame_queue')].current_size = capacity'.leaf
      BY <1>1, <1>14, <1>16, <2>2 DEF at, cap
    <3>4. call'.new_page \in 0 .. m_next_page' - 1 /\ RoomFor(1)'
      BY <1>4, <1>7, <1>8, <2>2, <2>4 DEF RoomFor
    <3>5. AtSplitInner'
      BY <1>15, <3>1, <3>2, <3>3, <3>4 DEF AtSplitInner
    <3> QED BY <2>4, <3>5 DEF Points, AtFirst, AtSearch, AtDescent, AtSplitLeaf, AtNewRoot,
                              AtClimb, AtNewRootOver
  <2>13. OnlyInnerSplitsAbort' /\ InsertReturnsTrue'
    BY <1>1 DEF TreeInv, OnlyInnerSplitsAbort, InsertReturnsTrue, Aborted
  <2> QED BY <2>6, <2>7, <2>8, <2>9, <2>10, <2>11, <2>12, <2>13 DEF TreeInv
<1>17. CASE filled.current_size # cap
  <2>1. /\ call' = [call EXCEPT !.new_page = NoPage]
        /\ pins' = [Unpinned(new) EXCEPT ![at] = @ - 1]
        /\ m_frame_queue' = f
        /\ m_next_page' = m_next_page
    BY <1>2, <1>11, <1>17
  <2>2. call' = [step |-> "climb", key |-> call.key, at |-> call.at,
                 new_page |-> NoPage, previous |-> call.previous,
                 new_root |-> call.new_root, page_ids |-> call.page_ids]
    BY <1>1, <2>1, CallFields
  <2>3. call'.step = "climb" /\ call'.at = call.at /\ call'.new_page = NoPage
    BY <2>2
  <2>4. Ready' = Ready
    BY <1>8, <2>1, <2>3, ReadyWhenReading DEF Reading
  <2>5. /\ pins' \in [Pages -> Nat] /\ pins'[new] = 0 /\ pins'[at] = pins[at] - 1
        /\ \A p \in Pages : p # at /\ p # new => pins'[p] = pins[p]
    <3> DEFINE ps == Unpinned(new)
    <3>1. /\ ps \in [Pages -> Nat] /\ ps[new] = 0
          /\ \A p \in Pages : p # new => ps[p] = pins[p]
      BY <1>4, <1>5, <1>7 DEF Unpinned
    <3> HIDE DEF ps
    <3>2. ps[at] = pins[at] /\ pins[at] - 1 \in Nat
      BY <1>3, <1>7, <1>12, <3>1
    <3>3. pins' = [ps EXCEPT ![at] = pins[at] - 1]
      BY <2>1, <3>2 DEF ps
    <3> QED BY <1>3, <1>4, <1>12, <3>1, <3>2, <3>3
  <2>6. Basics'
    <3>1. m_next_page' \in 0 .. MaxPages
      BY <1>4, <1>7, <1>8, <2>1
    <3> QED BY <1>1, <1>3, <1>7, <1>14, <1>15, <2>1, <2>5, <3>1 DEF Basics
  <2>7. NodesAreNodes' /\ FreshPagesAreBlank'
    <3> DEFINE W == {at}
    <3>1. \A p \in W : IsInner(contents'[p], capacity.leaf, Keys, Ready')
      BY <1>9, <1>14, <2>4 DEF cap
    <3>2. ASSUME NEW p \in Pages, p \notin Ready' PROVE pins'[p] = 0
      <4>1. p # at /\ p # new /\ pins[p] = 0
        BY <1>3, <1>5, <1>7, <2>4, <3>2
      <4> QED BY <2>5, <4>1
    <3>3. W \subseteq Ready' /\ Ready \subseteq Ready'
      BY <1>3, <2>4
    <3>4. \A p \in Pages : p \notin W => contents'[p] = contents[p]
      BY <1>14
    <3> HIDE DEF W
    <3> QED BY <1>1, <3>1, <3>2, <3>3, <3>4, NodesWritten
  <2>8. PathFromRoot'
    <3>1. m_root_page_id \in Ready
      BY <1>1, <1>3 DEF TreeInv, PathFromRoot
    <3>2. \A i \in DOMAIN f : f[i] \in Pages
      BY <1>3, ElementOfSeq
    <3>3. \A i \in DOMAIN f : contents'[f[i]].type = "inner"
      BY <1>3, <1>10, <1>14, <3>2
    <3> QED BY <1>1, <1>3, <2>1, <2>4, <3>1, <3>3 DEF PathFromRoot
  <2>9. InnerPins'
    <3>1. SUFFICES ASSUME NEW p \in Pages, contents'[p].type = "inner"
                   PROVE  pins'[p] = Count(f, p) + 0 + 0 /\ p # NoPage
      BY <1>1, <2>1, <2>3 DEF InnerPins
    <3>2. contents[p].type = "inner" /\ p # new
      BY <1>1, <1>3, <1>12, <1>14, <3>1 DEF n
    <3>3. /\ Count(f, p) \in Nat /\ p # NoPage
          /\ pins[p] = Count(f, p) + (IF p = at THEN 1 ELSE 0)
      BY <1>13, <3>2
    <3> QED BY <2>5, <3>2, <3>3
  <2>10. NodesHaveRoom'
    <3>1. SUFFICES ASSUME failures = 0, NEW p \in Ready PROVE HasRoom(p)'
      BY <1>1, <2>4 DEF NodesHaveRoom
    <3>2. CASE p = at
      BY <1>1, <1>8, <1>10, <1>14, <1>17, <3>2 DEF HasRoom, cap
    <3>3. CASE p # at
      <4>1. p \in Pages /\ contents'[p] = contents[p]
        BY <1>14, <3>3, Facts
      <4> QED BY <1>1, <3>1, <4>1, RoomKept
    <3> QED BY <3>2, <3>3
  <2>11. CallType'
    <3>1. call' \in [step : Steps, key : Keys \cup {NoKey}, at : Pages \cup {NoPage},
                     new_page : Pages \cup {NoPage}, previous : Pages \cup {NoPage},
                     new_root : Pages \cup {NoPage}, page_ids : Seq(Pages)]
      BY <2>2, CallFields DEF Steps
    <3>2. ~Aborted'
      BY <1>1, <1>6 DEF Aborted
    <3> QED BY <1>1, <1>3, <2>3, <3>1, <3>2 DEF CallType
  <2>12. Points'
    <3>1. Inserted'
      BY <1>4, <1>5, <1>12, <1>14, <1>15, <2>3, <2>4, <2>5 DEF Inserted
    <3>2. AtClimb'
      BY <2>3, <3>1 DEF AtClimb
    <3> QED BY <2>3, <3>2 DEF Points, AtFirst, AtSearch, AtDescent, AtSplitLeaf, AtNewRoot,
                              AtSplitInner, AtNewRootOver
  <2>13. OnlyInnerSplitsAbort' /\ InsertReturnsTrue'
    BY <1>1 DEF TreeInv, OnlyInnerSplitsAbort, InsertReturnsTrue, Aborted
  <2> QED BY <2>6, <2>7, <2>8, <2>9, <2>10, <2>11, <2>12, <2>13 DEF TreeInv
<1> QED BY <1>16, <1>17

\* The node above was filled (b_plus_tree.hpp:243-258).  When it was the root,
\* the key between its two parts is the last one of the left part.
LEMMA SplitInnerKeeps ==
    ASSUME EqualCapacities, TreeInv, SplitInner
    PROVE  TreeInv'
<1> DEFINE at == Last(m_frame_queue)
           f == Front(m_frame_queue)
           new == call.new_page
           leaf == call.previous
           cap == capacity.leaf
           split == inner_split_node(capacity.inner, contents[at])
           left == split.left
           right == split.right
<1>1. /\ call.step = "split_inner"
      /\ contents' = [contents EXCEPT ![at] = left, ![new] = right]
      /\ pins' = [Pinned(new) EXCEPT ![leaf] = @ - 1, ![at] = @ - 1]
      /\ dirty' \in {ds \cup {new} : ds \in AfterRequest(new)}
      /\ m_frame_queue' = f
      /\ call' = [call EXCEPT !.step = "climb", !.previous = NoPage]
      /\ UNCHANGED <<capacity, m_root_page_id, m_next_page, outcome, failures>>
  BY DEF SplitInner, PopQueue, tree
<1>2. /\ Inserted /\ call.at \in Pages
      /\ NewLeaf(leaf) /\ leaf \in Pages
      /\ m_frame_queue # <<>> /\ at \in dirty
      /\ contents[at].current_size = cap
      /\ new \in 0 .. m_next_page - 1 /\ m_next_page + 1 =< MaxPages
  BY <1>1, Facts DEF TreeInv, Points, AtSplitInner, Inserted, NewLeaf, RoomFor
<1>3. /\ at \in Ready /\ at \in Pages /\ contents[at].type = "inner" /\ Inner(at)
      /\ pins[at] >= 1 /\ m_root_page_id # NoPage
      /\ f \in Seq(Pages)
      /\ f # <<>> => f[1] = m_root_page_id
      /\ f = <<>> => at = m_root_page_id
      /\ \A i \in DOMAIN f : contents[f[i]].type = "inner"
  BY <1>1, <1>2, QueueTop
<1>4. /\ leaf \in Ready /\ pins[leaf] = 1 /\ Leaf(leaf) /\ leaf \in dirty
      /\ contents[leaf].type = "leaf"
      /\ leaf # call.at /\ contents[call.at].type = "leaf" /\ call.at \in Ready
      /\ call.at \in dirty /\ pins[call.at] >= 1
  BY <1>2 DEF NewLeaf, Inserted, Leaf, IsLeaf
<1>5. ~Aborted
  BY <1>1 DEF TreeInv, CallType
<1>6. /\ dirty \subseteq Pages /\ pins \in [Pages -> Nat] /\ DOMAIN contents = Pages
      /\ m_next_page \in 0 .. MaxPages /\ failures \in Nat /\ capacity \in Capacities
      /\ m_root_page_id \in Pages
      /\ \A p \in Pages : p \notin Ready => pins[p] = 0 /\ contents[p] = BlankPage
  BY <1>3 DEF TreeInv, Basics, FreshPagesAreBlank
<1>7. /\ cap \in Nat /\ cap >= 5 /\ capacity.inner = cap
      /\ NoPage \notin Pages /\ MaxPages \in Nat
      /\ Ready = {p \in 0 .. m_next_page - 1 : p # new}
  BY <1>1, TreeAssumption, Facts DEF Ready, IsPending
<1>8. /\ new \in Pages /\ new \notin Ready
      /\ pins[new] = 0 /\ contents[new] = BlankPage /\ contents[new].type = "leaf"
  <2>1. new \in Pages
    BY <1>2, <1>6, <1>7 DEF Pages
  <2> QED BY <1>2, <1>6, <1>7, <2>1 DEF BlankPage
<1>9. call' = [step |-> "climb", key |-> call.key, at |-> call.at,
               new_page |-> call.new_page, previous |-> NoPage,
               new_root |-> call.new_root, page_ids |-> call.page_ids]
  BY <1>1, CallFields
<1>10. call'.step = "climb" /\ call'.at = call.at /\ call'.new_page = new
  BY <1>9
<1>11. Ready' = Ready \cup {new}
  <2>1. Ready' = 0 .. m_next_page - 1
    BY <1>1, <1>10, ReadyWhenReading DEF Reading
  <2> QED BY <1>2, <1>7, <2>1
<1>12. /\ IsInner(left, cap, Keys, Ready') /\ IsInner(right, cap, Keys, Ready')
       /\ left.current_size < cap /\ right.current_size < cap
       /\ left.keys[left.current_size - 1] \in Keys
  <2> DEFINE n == contents[at]
             P == Ready'
  <2>1. IsInner(n, cap, Keys, Ready) /\ Ready \subseteq P
    BY <1>3, <1>11 DEF Inner
  <2>2. split = inner_split_node(cap, n)
    BY <1>7
  <2>3. cap \in Nat /\ cap >= 5 /\ n.current_size = cap
    BY <1>2, <1>7
  <2> HIDE DEF cap, n, P, split
  <2>4. IsInner(n, cap, Keys, P)
    BY <2>1, InnerGrows
  <2>5. /\ IsInner(inner_split_node(cap, n).left, cap, Keys, P)
        /\ IsInner(inner_split_node(cap, n).right, cap, Keys, P)
        /\ inner_split_node(cap, n).left.current_size < cap
        /\ inner_split_node(cap, n).right.current_size < cap
        /\ inner_split_node(cap, n).left.keys[inner_split_node(cap, n).left.current_size - 1] \in Keys
    BY <2>3, <2>4, InnerSplits
  <2> QED BY <2>2, <2>5 DEF P
<1> HIDE DEF split, left, right
<1>13. /\ left.type = "inner" /\ left.max_size = cap
       /\ right.type = "inner" /\ right.max_size = cap
  BY <1>12 DEF IsInner
<1>14. new # at /\ new # leaf /\ new # call.at /\ at # leaf /\ at # call.at
  BY <1>3, <1>4, <1>8
<1>15. ASSUME NEW p \in Pages, contents[p].type = "inner"
       PROVE  /\ Count(f, p) \in Nat
              /\ pins[p] = Count(f, p) + (IF p = at THEN 1 ELSE 0)
  <2>1. p # new
    BY <1>8, <1>15
  <2>2. /\ Count(f, p) \in Nat
        /\ pins[p] = Count(f, p) + (IF p = at THEN 1 ELSE 0) + 0
    BY <1>1, <1>2, <1>15, <2>1, QueueTop
  <2> QED BY <2>2
<1>16. dirty' \subseteq Pages /\ new \in dirty' /\ at \in dirty' /\ leaf \in dirty'
       /\ call.at \in dirty'
  <2>1. Basics /\ pins[at] # 0 /\ pins[leaf] # 0 /\ pins[call.at] # 0
    BY <1>3, <1>4 DEF TreeInv
  <2> HIDE DEF at, new, leaf
  <2> QED BY <1>1, <1>2, <1>4, <1>8, <2>1, RequestedAndDirty
<1> HIDE DEF at, f, new, leaf, cap
<1>17. /\ contents'[at] = left /\ contents'[new] = right
       /\ \A p \in Pages : p # at /\ p # new => contents'[p] = contents[p]
       /\ DOMAIN contents' = Pages
  BY <1>1, <1>3, <1>6, <1>8, <1>14
<1>18. /\ pins' \in [Pages -> Nat] /\ pins'[new] = 1 /\ pins'[leaf] = 0
       /\ pins'[at] = pins[at] - 1
       /\ \A p \in Pages : p # at /\ p # new /\ p # leaf => pins'[p] = pins[p]
  <2> DEFINE ps == Pinned(new)
  <2>1. /\ ps \in [Pages -> Nat] /\ ps[new] = 1
        /\ \A p \in Pages : p # new => ps[p] = pins[p]
    BY <1>6, <1>8 DEF Pinned
  <2>2. pins' = [ps EXCEPT ![leaf] = @ - 1, ![at] = @ - 1]
    BY <1>1
  <2> HIDE DEF ps
  <2>3. ps[leaf] = 1 /\ ps[at] = pins[at] /\ pins[at] - 1 \in Nat
    BY <1>2, <1>3, <1>4, <1>6, <1>14, <2>1
  <2> QED BY <1>2, <1>3, <1>8, <1>14, <2>1, <2>2, <2>3
<1>19. Basics'
  BY <1>1, <1>3, <1>6, <1>16, <1>17, <1>18 DEF Basics
<1>20. NodesAreNodes' /\ FreshPagesAreBlank'
  <2> DEFINE W == {at, new}
  <2>1. \A p \in W : IsInner(contents'[p], capacity.leaf, Keys, Ready')
    BY <1>12, <1>17 DEF cap
  <2>2. ASSUME NEW p \in Pages, p \notin Ready' PROVE pins'[p] = 0
    <3>1. p # new /\ p # at /\ p # leaf /\ pins[p] = 0
      BY <1>3, <1>4, <1>6, <1>11, <2>2
    <3> QED BY <1>18, <3>1
  <2>3. W \subseteq Ready' /\ Ready \subseteq Ready'
    BY <1>3, <1>11
  <2>4. \A p \in Pages : p \notin W => contents'[p] = contents[p]
    BY <1>17
  <2> HIDE DEF W
  <2> QED BY <1>1, <2>1, <2>2, <2>3, <2>4, NodesWritten
<1>21. PathFromRoot'
  <2>1. m_root_page_id \in Ready
    BY <1>1, <1>3 DEF TreeInv, PathFromRoot
  <2>2. \A i \in DOMAIN f : f[i] \in Pages
    BY <1>3, ElementOfSeq
  <2>3. \A i \in DOMAIN f : contents'[f[i]].type = "inner"
    BY <1>3, <1>13, <1>17, <2>2
  <2> QED BY <1>1, <1>3, <1>11, <2>1, <2>3 DEF PathFromRoot
<1>22. InnerPins'
  <2>1. SUFFICES ASSUME NEW p \in Pages, contents'[p].type = "inner"
                 PROVE  pins'[p] = Count(f, p) + (IF p = new THEN 1 ELSE 0) + 0
    BY <1>1, <1>10 DEF InnerPins
  <2>2. CASE p = new
    <3>1. \A i \in DOMAIN f : f[i] # new
      BY <1>3, <1>8
    <3>2. Count(f, new) = 0
      BY <3>1, CountNone
    <3> QED BY <1>18, <2>2, <3>2
  <2>3. CASE p # new
    <3>1. contents[p].type = "inner" /\ p # leaf
      BY <1>3, <1>4, <1>14, <1>17, <2>1, <2>3
    <3>2. /\ Count(f, p) \in Nat
          /\ pins[p] = Count(f, p) + (IF p = at THEN 1 ELSE 0)
      BY <1>15, <3>1
    <3> QED BY <1>18, <2>3, <3>1, <3>2
  <2> QED BY <2>2, <2>3
<1>23. NodesHaveRoom'
  <2>1. SUFFICES ASSUME failures = 0, NEW p \in Ready' PROVE HasRoom(p)'
    BY <1>1 DEF NodesHaveRoom
  <2>2. CASE p = at \/ p = new
    BY <1>1, <1>12, <1>13, <1>17, <2>2 DEF HasRoom, cap
  <2>3. CASE p # at /\ p # new
    <3>1. p \in Ready /\ p \in Pages /\ contents'[p] = contents[p]
      BY <1>11, <1>17, <2>3, Facts
    <3> QED BY <1>1, <2>1, <2>3, <3>1, RoomKept DEF at
  <2> QED BY <2>2, <2>3
<1>24. CallType'
  <2>1. call' \in [step : Steps, key : Keys \cup {NoKey}, at : Pages \cup {NoPage},
                   new_page : Pages \cup {NoPage}, previous : Pages \cup {NoPage},
                   new_root : Pages \cup {NoPage}, page_ids : Seq(Pages)]
    BY <1>9, CallFields DEF Steps
  <2>2. ~Aborted'
    BY <1>1, <1>5 DEF Aborted
  <2> QED BY <1>1, <1>3, <1>10, <2>1, <2>2 DEF CallType
<1>25. Points'
  <2>1. Inserted'
    <3>1. contents'[call.at] = contents[call.at] /\ pins'[call.at] = pins[call.at]
      BY <1>2, <1>4, <1>14, <1>17, <1>18
    <3> QED BY <1>4, <1>10, <1>11, <1>16, <3>1 DEF Inserted
  <2>2. f = <<>> => RootSplit'
    <3>1. SUFFICES ASSUME f = <<>> PROVE RootSplit'
      OBVIOUS
    <3>2. m_root_page_id' = at
      BY <1>1, <1>3, <3>1
    <3>3. contents'[leaf].type = "leaf" /\ pins'[leaf] = 0 /\ leaf \in dirty'
      BY <1>2, <1>4, <1>14, <1>16, <1>17, <1>18
    <3> QED BY <1>10, <1>12, <1>13, <1>14, <1>16, <1>17, <3>2, <3>3 DEF RootSplit
  <2>3. NewInner'
    BY <1>1, <1>10, <1>11, <1>13, <1>16, <1>17, <2>2 DEF NewInner
  <2>4. AtClimb'
    BY <1>1, <1>2, <1>10, <2>1, <2>3 DEF AtClimb, RoomFor
  <2> QED BY <1>10, <2>4 DEF Points, AtFirst, AtSearch, AtDescent, AtSplitLeaf, AtNewRoot,
                            AtSplitInner, AtNewRootOver
<1>26. OnlyInnerSplitsAbort' /\ InsertReturnsTrue'
  BY <1>1 DEF TreeInv, OnlyInnerSplitsAbort, InsertReturnsTrue, Aborted
<1> QED BY <1>19, <1>20, <1>21, <1>22, <1>23, <1>24, <1>25, <1>26 DEF TreeInv
-----------------------------------------------------------------------------
(* The invariant holds.                                                    *)

LEMMA InitGood == Init => TreeInv
<1> SUFFICES ASSUME Init PROVE TreeInv
  OBVIOUS
<1>1. /\ capacity \in Capacities /\ m_root_page_id = NoPage /\ m_next_page = 0
      /\ contents = [p \in Pages |-> BlankPage] /\ dirty = {}
      /\ pins = [p \in Pages |-> 0] /\ m_frame_queue = <<>> /\ call = Idle
      /\ outcome = "ok" /\ failures = 0
  BY DEF Init
<1>2. call.step = "idle" /\ call.new_page = NoPage /\ ~Aborted
  BY <1>1 DEF Idle, Aborted
<1>3. Ready = {}
  BY <1>1 DEF Ready
<1>4. Basics
  BY <1>1, TreeAssumption, EmptySeq DEF Basics
<1>5. NodesAreNodes /\ FreshPagesAreBlank
  BY <1>1 DEF NodesAreNodes, FreshPagesAreBlank
<1>6. PathFromRoot
  BY <1>1 DEF PathFromRoot
<1>7. InnerPins
  BY <1>1 DEF InnerPins, BlankPage
<1>8. NodesHaveRoom
  BY <1>3 DEF NodesHaveRoom
<1>9. CallType
  BY <1>1, <1>2, EmptySeq DEF CallType, Idle, Steps
<1>10. Points
  BY <1>2 DEF Points, AtFirst, AtSearch, AtDescent, AtSplitLeaf, AtNewRoot, AtClimb,
              AtSplitInner, AtNewRootOver
<1>11. OnlyInnerSplitsAbort /\ InsertReturnsTrue
  BY <1>1 DEF OnlyInnerSplitsAbort, InsertReturnsTrue
<1> QED BY <1>4, <1>5, <1>6, <1>7, <1>8, <1>9, <1>10, <1>11 DEF TreeInv

LEMMA StutterKeeps ==
    ASSUME TreeInv, UNCHANGED vars
    PROVE  TreeInv'
<1>1. /\ UNCHANGED <<capacity, m_root_page_id, m_next_page, contents, dirty, pins,
                     m_frame_queue, call, outcome, failures>>
  BY DEF vars, tree, pool
<1>2. Ready' = Ready
  BY <1>1 DEF Ready, IsPending
<1>3. Basics' /\ PathFromRoot' /\ InnerPins' /\ CallType'
  BY <1>1, <1>2 DEF TreeInv, Basics, PathFromRoot, InnerPins, CallType, Aborted
<1>4. NodesAreNodes' /\ FreshPagesAreBlank'
  BY <1>1, <1>2 DEF TreeInv, NodesAreNodes, FreshPagesAreBlank, Leaf, Inner
<1>5. NodesHaveRoom'
  BY <1>1, <1>2 DEF TreeInv, NodesHaveRoom, HasRoom
<1>6. Points'
  BY <1>1, <1>2 DEF TreeInv, Points, AtFirst, AtSearch, AtDescent, AtSplitLeaf, AtNewRoot,
                    AtClimb, AtSplitInner, AtNewRootOver, RoomFor, Inserted, NewLeaf, Leaf,
                    NewInner, RootSplit
<1>7. OnlyInnerSplitsAbort' /\ InsertReturnsTrue'
  BY <1>1 DEF TreeInv, OnlyInnerSplitsAbort, InsertReturnsTrue, Aborted
<1> QED BY <1>3, <1>4, <1>5, <1>6, <1>7 DEF TreeInv

LEMMA NextGood ==
    ASSUME EqualCapacities, TreeInv, [Next]_vars
    PROVE  TreeInv'
<1>1. CASE Insert
  <2>1. PICK k \in Offered : StartFirst(k) \/ StartInsert(k)
    BY <1>1 DEF Insert
  <2>2. k \in Keys /\ HasPages
    BY <1>1, <2>1 DEF Insert, Offered, Absent
  <2> QED BY <2>1, <2>2, StartFirstKeeps, StartInsertKeeps
<1>2. CASE Search
  <2>1. PICK k \in Keys : StartFind(k)
    BY <1>2 DEF Search
  <2> QED BY <2>1, StartFindKeeps
<1>3. CASE Find
  BY <1>3, FindKeeps
<1>4. CASE StartDump
  BY <1>4, StartDumpKeeps
<1>5. CASE Dump
  BY <1>5, DumpKeeps
<1>6. CASE First
  BY <1>6, FirstKeeps
<1>7. CASE Descend
  BY <1>7, DescendKeeps
<1>8. CASE InsertInLeaf
  BY <1>8, InsertInLeafKeeps
<1>9. CASE FullLeaf
  BY <1>9, FullLeafKeeps
<1>10. CASE SplitLeaf
  BY <1>10, SplitLeafKeeps
<1>11. CASE NewRootOverLeaves
  BY <1>11, NewRootOverLeavesKeeps
<1>12. CASE ClimbUnpin
  BY <1>12, ClimbUnpinKeeps
<1>13. CASE ClimbInsert
  BY <1>13, ClimbInsertKeeps
<1>14. CASE FullInner
  BY <1>14, FullInnerKeeps
<1>15. CASE InnerChild
  BY <1>15, InnerChildKeeps
<1>16. CASE SplitInner
  BY <1>16, SplitInnerKeeps
<1>17. CASE Finish
  BY <1>17, FinishKeeps
<1>18. CASE RootVictim
  BY <1>18, RootVictimKeeps
<1>19. CASE NewRootOverInner
  BY <1>19, NewRootOverInnerKeeps
<1>20. CASE Throw
  BY <1>20, ThrowKeeps
<1>21. CASE UNCHANGED vars
  BY <1>21, StutterKeeps
<1> QED BY <1>1, <1>2, <1>3, <1>4, <1>5, <1>6, <1>7, <1>8, <1>9, <1>10, <1>11, <1>12,
           <1>13, <1>14, <1>15, <1>16, <1>17, <1>18, <1>19, <1>20, <1>21 DEF Next

LEMMA TreeInvHolds == ASSUME EqualCapacities PROVE Spec => []TreeInv
<1>1. Init => TreeInv
  BY InitGood
<1>2. TreeInv /\ [Next]_vars => TreeInv'
  BY NextGood
<1> QED BY <1>1, <1>2, PTL DEF Spec
-----------------------------------------------------------------------------
(* What follows.                                                           *)

\* The types, and no hole in a node: for every capacity from five on, odd or
\* even, insertions and splits fill the slots below current_size and no other
\* (b_plus_tree_node.hpp:193-247, 359-419).
THEOREM TreeTypeCorrect == ASSUME EqualCapacities PROVE Spec => []TypeOK
<1>1. TreeInv => TypeOK
  <2>1. SUFFICES ASSUME TreeInv PROVE TypeOK
    OBVIOUS
  <2>2. /\ Basics
        /\ Ready \subseteq Pages /\ capacity.leaf \in Nat
        /\ NoKey \notin Keys /\ NoKey \notin Pages
    BY <2>1, TreeAssumption, Facts DEF TreeInv, NoKey, Pages
  <2>3. ASSUME NEW p \in Pages
        PROVE  LET n == contents[p]
               IN  /\ n.type \in {"leaf", "inner"}
                   /\ n.current_size \in 0 .. n.max_size
                   /\ DOMAIN n.keys = 0 .. n.max_size - 1
                   /\ DOMAIN n.values = 0 .. n.max_size - 1
                   /\ \A i \in DOMAIN n.keys :
                         IF n.type = "leaf"
                         THEN IF i \in Slots(n)
                              THEN n.keys[i] \in Keys /\ n.values[i] \in Range(RecordOf)
                              ELSE n.keys[i] = NoKey /\ n.values[i] = NoKey
                         ELSE /\ i < n.current_size - 1 => n.keys[i] \in Keys
                              /\ n.keys[i] \in Keys => i \in Slots(n)
                              /\ n.values[i] \in Pages <=> i \in Slots(n)
    <3> DEFINE n == contents[p]
               cap == capacity.leaf
               R == Range(RecordOf)
    <3>1. n = BlankPage \/ IsLeaf(n, cap, Keys, R) \/ IsInner(n, cap, Keys, Ready)
      BY <2>1 DEF TreeInv, NodesAreNodes, Leaf, Inner
    <3>2. cap \in Nat
      BY <2>2
    <3> HIDE DEF n, cap, R
    <3>3. CASE n = BlankPage
      BY <3>3 DEF n, BlankPage
    <3>4. CASE IsLeaf(n, cap, Keys, R)
      <4>1. n.type = "leaf" /\ n.max_size = cap /\ n.current_size \in 0 .. cap
            /\ DOMAIN n.keys = 0 .. cap - 1 /\ DOMAIN n.values = 0 .. cap - 1
        BY <3>2, <3>4 DEF IsLeaf
      <4>2. ASSUME NEW i \in 0 .. cap - 1
            PROVE  IF i \in Slots(n) THEN n.keys[i] \in Keys /\ n.values[i] \in R
                                     ELSE n.keys[i] = NoKey /\ n.values[i] = NoKey
        <5>1. i \in Slots(n) <=> i < n.current_size
          BY <3>2, <4>1 DEF Slots
        <5> QED BY <3>4, <5>1 DEF IsLeaf
      <4> QED BY <4>1, <4>2 DEF n, R
    <3>5. CASE IsInner(n, cap, Keys, Ready)
      <4>1. n.type = "inner" /\ n.max_size = cap /\ n.current_size \in 0 .. cap
            /\ DOMAIN n.keys = 0 .. cap - 1 /\ DOMAIN n.values = 0 .. cap - 1
        BY <3>2, <3>5 DEF IsInner
      <4>2. ASSUME NEW i \in 0 .. cap - 1
            PROVE  /\ i < n.current_size - 1 => n.keys[i] \in Keys
                   /\ n.keys[i] \in Keys => i \in Slots(n)
                   /\ n.values[i] \in Pages <=> i \in Slots(n)
        <5>1. i \in Slots(n) <=> i < n.current_size
          BY <3>2, <4>1 DEF Slots
        <5>2. i \in Slots(n) \/ i >= n.current_size
          BY <3>2, <4>1, <5>1
        <5>3. /\ i < n.current_size - 1 => n.keys[i] \in Keys
              /\ i >= n.current_size => n.keys[i] = NoKey
              /\ IF i < n.current_size THEN n.values[i] \in Ready ELSE n.values[i] = NoKey
          BY <3>5 DEF IsInner
        <5> QED BY <2>2, <5>1, <5>2, <5>3
      <4>3. n.type \in {"leaf", "inner"} /\ n.type # "leaf"
        BY <4>1
      <4> QED BY <4>1, <4>2, <4>3 DEF n
    <3> QED BY <3>1, <3>3, <3>4, <3>5
  <2> QED BY <2>2, <2>3 DEF TypeOK, Basics
<1> QED BY <1>1, TreeInvHolds, PTL

\* A call leaves room in every node, and half of the room of a leaf in use, so
\* that no insertion meets a full node (b_plus_tree_node.hpp:169, 476-480).
THEOREM NodesStayHalfFull == ASSUME EqualCapacities PROVE Spec => []Occupancy
<1>1. TreeInv => Occupancy
  <2>1. SUFFICES ASSUME TreeInv, Working, NEW p \in 0 .. m_next_page - 1
                 PROVE  LET n == contents[p]
                        IN  /\ n.max_size = Capacity(n)
                            /\ can_insert_trivially(n)
                            /\ n.current_size >= IF n.type = "inner" THEN 2
                                                 ELSE IF p = m_root_page_id THEN 1
                                                 ELSE capacity.leaf \div 2
    BY DEF Occupancy
  <2>2. call.step = "idle" /\ failures = 0
    BY <2>1 DEF Working, IsIdle
  <2>3. p \in Ready
    BY <2>1, <2>2, ReadyWhenReading DEF Reading
  <2>4. /\ p \in Pages /\ capacity.inner = capacity.leaf
        /\ capacity.leaf \in Nat /\ capacity.leaf >= 5
    BY <2>1, <2>3, Facts
  <2>5. HasRoom(p)
    BY <2>1, <2>2, <2>3 DEF TreeInv, NodesHaveRoom
  <2>6. /\ contents[p].max_size = capacity.leaf
        /\ contents[p].current_size < capacity.leaf
        /\ contents[p].type = "leaf" /\ p # m_root_page_id =>
              contents[p].current_size >= capacity.leaf \div 2
    BY <2>2, <2>5 DEF HasRoom
  <2>7. Leaf(p) \/ Inner(p)
    <3>1. BlankPage.max_size = 0
      BY DEF BlankPage
    <3> QED BY <2>1, <2>4, <2>6, <3>1 DEF TreeInv, NodesAreNodes
  <2>8. /\ Leaf(p) => contents[p].type = "leaf" /\ contents[p].current_size >= 1
        /\ Inner(p) => contents[p].type = "inner" /\ contents[p].current_size >= 2
    BY <2>4 DEF Leaf, IsLeaf, Inner, IsInner
  <2> QED BY <2>4, <2>6, <2>7, <2>8 DEF Capacity, can_insert_trivially
<1> QED BY <1>1, TreeInvHolds, PTL

\* Between calls the pins of inner nodes are those of the queue, also after an
\* exception, so that the next insertion gives them back (b_plus_tree.hpp:140,
\* 212-263).
THEOREM QueueHoldsThePins == ASSUME EqualCapacities PROVE Spec => []InnerPinsAreQueued
<1>1. TreeInv => InnerPinsAreQueued
  BY Between DEF InnerPinsAreQueued, Count
<1> QED BY <1>1, TreeInvHolds, PTL

\* While no request fails, one assertion can: the one an inner node below an
\* inner node runs into (b_plus_tree_node.hpp:136, 195, 362, 425).
THEOREM OneAssertionFails == ASSUME EqualCapacities PROVE Spec => []OnlyInnerSplitsAbort
<1>1. TreeInv => OnlyInnerSplitsAbort
  BY DEF TreeInv
<1> QED BY <1>1, TreeInvHolds, PTL

\* There is always a dirty page to flush at the end of an insertion, whatever the
\* requests have flushed before (b_plus_tree.hpp:209, 269).
THEOREM InsertionsReportSuccess == ASSUME EqualCapacities PROVE Spec => []InsertReturnsTrue
<1>1. TreeInv => InsertReturnsTrue
  BY DEF TreeInv
<1> QED BY <1>1, TreeInvHolds, PTL

\* A node of the queue is counted there.
LEMMA CountedInQueue ==
    ASSUME NEW q \in Seq(Pages), NEW p \in Range(q)
    PROVE  Count(q, p) >= 1
<1>1. PICK i \in DOMAIN q : q[i] = p
  BY DEF Range
<1> DEFINE places == {j \in DOMAIN q : q[j] = p}
<1>2. i \in places
  BY <1>1
<1>3. IsFiniteSet(places)
  <2>1. DOMAIN q = 1 .. Len(q) /\ 1 \in Int /\ Len(q) \in Int
    OBVIOUS
  <2>2. IsFiniteSet(DOMAIN q)
    BY <2>1, FS_Interval
  <2> QED BY <2>2, FS_Subset
<1> HIDE DEF places
<1>4. Cardinality(places) \in Nat /\ Cardinality(places) # 0
  BY <1>2, <1>3, FS_CardinalityType, FS_EmptySet
<1>5. Cardinality(places) >= 1
  BY <1>4
<1> QED BY <1>5 DEF Count, places

\* The tree points to no frame that a request may take for another page
\* (b_plus_tree.hpp:140, 153-159, 219-263, 21-45).
THEOREM HeldFramesStay == ASSUME EqualCapacities PROVE Spec => []HeldFramesArePinned
<1>1. ASSUME TreeInv, ~Aborted, NEW p \in FramesInUse PROVE pins[p] > 0
  <2>1. /\ m_frame_queue \in Seq(Pages) /\ pins \in [Pages -> Nat]
        /\ m_root_page_id \in Pages \cup {NoPage}
        /\ InnerPins /\ Points /\ CallType
    BY <1>1 DEF TreeInv, Basics
  <2>2. \A q \in Pages : contents[q].type = "inner" =>
           pins[q] = Count(m_frame_queue, q) + (IF q = call.new_page THEN 1 ELSE 0)
                     + (IF call.step = "root_over" /\ q = m_root_page_id THEN 1 ELSE 0)
    BY <1>1, <2>1 DEF InnerPins
  <2>3. \A q \in Pages : Count(m_frame_queue, q) \in Nat
    BY <2>1, CountType
  <2>4. CASE p \in Range(m_frame_queue)
    <3>1. p \in Pages /\ contents[p].type = "inner"
      BY <1>1, <2>1, <2>4 DEF TreeInv, PathFromRoot, Range
    <3>2. Count(m_frame_queue, p) >= 1
      BY <2>1, <2>4, CountedInQueue
    <3> QED BY <2>2, <2>3, <3>1, <3>2
  <2>5. CASE call.step = "split_leaf" /\ p = call.at
    <3>1. Inserted
      BY <2>1, <2>5 DEF Points, AtSplitLeaf
    <3>2. call.at \in Pages /\ pins[call.at] >= 1
      BY <1>1, <3>1, Facts DEF Inserted, Ready, Pages
    <3>3. pins[call.at] \in Nat
      BY <2>1, <3>2
    <3> QED BY <2>5, <3>2, <3>3
  <2>6. CASE call.step = "split_inner" /\ p = call.previous
    <3>1. NewLeaf(call.previous)
      BY <2>1, <2>6 DEF Points, AtSplitInner
    <3> QED BY <2>6, <3>1 DEF NewLeaf
  <2>7. CASE call.step = "root_over" /\ p = m_root_page_id
    <3>1. RootSplit /\ p \in Pages
      BY <2>1, <2>7 DEF Points, AtNewRootOver, NewInner, CallType
    <3> QED BY <2>2, <2>3, <2>7, <3>1 DEF RootSplit
  <2>8. CASE call.step \in {"new_root", "climb"} /\ p = call.new_page /\ p # NoPage
    <3>1. NewLeaf(p) \/ NewInner
      BY <2>1, <2>8 DEF Points, AtNewRoot, AtClimb
    <3>2. CASE NewLeaf(p)
      BY <3>2 DEF NewLeaf
    <3>3. CASE NewInner
      <4>1. p \in Pages /\ contents[p].type = "inner"
        BY <2>1, <2>8, <3>3 DEF NewInner, CallType
      <4> QED BY <2>2, <2>3, <2>8, <4>1
    <3> QED BY <3>1, <3>2, <3>3
  <2>9. \/ p \in Range(m_frame_queue)
        \/ call.step = "split_leaf" /\ p = call.at
        \/ call.step = "split_inner" /\ p = call.previous
        \/ call.step = "root_over" /\ p = m_root_page_id
        \/ call.step \in {"new_root", "climb"} /\ p = call.new_page /\ p # NoPage
    BY DEF FramesInUse
  <2> QED BY <2>4, <2>5, <2>6, <2>7, <2>8, <2>9
<1>2. TreeInv => HeldFramesArePinned
  BY <1>1 DEF HeldFramesArePinned
<1> QED BY <1>2, TreeInvHolds, PTL
=============================================================================
