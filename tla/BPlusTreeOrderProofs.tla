------------------------ MODULE BPlusTreeOrderProofs ------------------------
(***************************************************************************)
(* The order of the keys over the whole tree, and what follows from it:    *)
(* the tree implements Dictionary, and is balanced.                        *)
(*                                                                         *)
(* Each page of the tree has a span, the keys it stands for, and a height. *)
(* They are not written anywhere: the invariant says that there are some   *)
(* that fit.                                                               *)
(***************************************************************************)
EXTENDS BPlusTreeProofs

(* How a node fits its span.                                               *)

\* The keys of a leaf are in order, and in its span.
LeafFits(n, own) ==
    /\ Sorted(n.keys, n.current_size)
    /\ \A i \in Slots(n) : n.keys[i] \in own

\* x goes down by slot i of an inner node.
Belongs(n, i, x) ==
    /\ i > 0 => n.keys[i - 1] =< x
    /\ i < n.current_size - 1 => x < n.keys[i]

\* The keys of an inner node are in order, and cut its span into those of its
\* children.
InnerFits(n, K, span, own) ==
    /\ Sorted(n.keys, n.current_size - 1)
    /\ \A i \in 0 .. n.current_size - 2 : n.keys[i] \in own
    /\ \A i \in Slots(n) : \A x \in K :
          x \in span[n.values[i]] <=> x \in own /\ Belongs(n, i, x)

\* A search goes down by the slot the key belongs to.
LEMMA SearchBelongs ==
    ASSUME NEW n, NEW k \in Int, n.current_size \in Nat, n.current_size >= 2,
           Sorted(n.keys, n.current_size - 1)
    PROVE  inner_find_index(n, k) \in Slots(n) /\ Belongs(n, inner_find_index(n, k), k)
<1> DEFINE i == inner_find_index(n, k)
           keys == n.keys
           size == n.current_size
<1>1. /\ i \in 0 .. size - 1
      /\ \A j \in 0 .. size - 2 : keys[j] > k <=> j >= i
  BY SearchGoesDown
<1>2. \A j \in 0 .. size - 2 : keys[j] \in Int
  BY DEF Sorted
<1>3. size \in Nat /\ size >= 2
  OBVIOUS
<1> HIDE DEF i, keys, size
<1>4. i > 0 => keys[i - 1] =< k
  <2>1. i > 0 => i - 1 \in 0 .. size - 2 /\ ~ (i - 1 >= i)
    BY <1>1, <1>3
  <2> QED BY <1>1, <1>2, <2>1
<1>5. i < size - 1 => k < keys[i]
  <2>1. i < size - 1 => i \in 0 .. size - 2 /\ i >= i
    BY <1>1, <1>3
  <2> QED BY <1>1, <1>2, <2>1
<1> QED BY <1>1, <1>4, <1>5 DEF Slots, Belongs, i, keys, size

\* No key belongs to two slots.
LEMMA OneSlot ==
    ASSUME NEW n, NEW x \in Int, n.current_size \in Nat,
           Sorted(n.keys, n.current_size - 1),
           NEW i \in Slots(n), NEW j \in Slots(n), Belongs(n, i, x), Belongs(n, j, x)
    PROVE  i = j
<1> DEFINE keys == n.keys
           size == n.current_size
<1>1. /\ \A a \in 0 .. size - 2 : keys[a] \in Int
      /\ \A a, b \in 0 .. size - 2 : a < b => keys[a] < keys[b]
  BY DEF Sorted
<1>2. /\ i \in 0 .. size - 1 /\ j \in 0 .. size - 1 /\ size \in Nat
      /\ i > 0 => keys[i - 1] =< x
      /\ i < size - 1 => x < keys[i]
      /\ j > 0 => keys[j - 1] =< x
      /\ j < size - 1 => x < keys[j]
  BY DEF Slots, Belongs
<1> HIDE DEF keys, size
<1>3. ASSUME NEW a \in 0 .. size - 1, NEW b \in 0 .. size - 1, a < b,
             keys[b - 1] =< x, x < keys[a]
      PROVE  FALSE
  <2>1. a \in 0 .. size - 2 /\ b - 1 \in 0 .. size - 2
    BY <1>2, <1>3
  <2>2. a = b - 1 \/ a < b - 1
    BY <1>2, <1>3
  <2>3. keys[a] =< keys[b - 1]
    BY <1>1, <2>1, <2>2
  <2> QED BY <1>1, <1>3, <2>1, <2>3
<1>4. ~ (i < j)
  <2>1. i < j => j > 0 /\ i < size - 1
    BY <1>2
  <2> QED BY <1>2, <1>3, <2>1
<1>5. ~ (j < i)
  <2>1. j < i => i > 0 /\ j < size - 1
    BY <1>2
  <2> QED BY <1>2, <1>3, <2>1
<1> QED BY <1>2, <1>4, <1>5

\* A new key in a leaf.
LEMMA InsertFits ==
    ASSUME NEW cap \in Nat, NEW K, K \subseteq Int, NEW R, NEW n, IsLeaf(n, cap, K, R),
           can_insert_trivially(n), NEW k \in K, NEW v \in R, NEW own,
           LeafFits(n, own), k \in own, \A i \in Slots(n) : n.keys[i] # k
    PROVE  LeafFits(trivial_insert(n, k, v), own)
<1> DEFINE filled == trivial_insert(n, k, v)
           where == leaf_find_index_for_insert(n, k)
           size == n.current_size
           keys == n.keys
<1>1. /\ size \in Nat
      /\ \A i \in 0 .. size - 1 : keys[i] \in own
  BY DEF IsLeaf, LeafFits, Slots
<1>2. /\ where \in 0 .. size
      /\ filled.current_size = size + 1
      /\ \A i \in 0 .. size : /\ i = where => filled.keys[i] = k
                              /\ i < where => filled.keys[i] = keys[i]
                              /\ i > where => filled.keys[i] = keys[i - 1]
  BY InsertedSlots
<1>3. Sorted(filled.keys, size + 1)
  BY InsertKeepsSorted DEF LeafFits
<1> HIDE DEF filled, where, size, keys
<1>4. ASSUME NEW i \in 0 .. size PROVE filled.keys[i] \in own
  <2>1. \/ i = where
        \/ i < where /\ i \in 0 .. size - 1
        \/ i > where /\ i - 1 \in 0 .. size - 1
    BY <1>1, <1>2
  <2> QED BY <1>1, <1>2, <2>1
<1>5. Slots(filled) = 0 .. size
  BY <1>1, <1>2 DEF Slots
<1> QED BY <1>2, <1>3, <1>4, <1>5 DEF LeafFits, filled

\* The parts of a leaf that is split: each fits its side of the first key of the
\* right part.
LEMMA LeafSplitFits ==
    ASSUME NEW cap \in Nat, cap >= 2, NEW K, K \subseteq Int, NEW R, NEW n,
           IsLeaf(n, cap, K, R), n.current_size = cap, NEW own, LeafFits(n, own)
    PROVE  LET left == leaf_split_node(cap, n).left
               right == leaf_split_node(cap, n).right
           IN  /\ LeafFits(left, own)
               /\ LeafFits(right, own)
               /\ \A i \in Slots(left), j \in Slots(right) : left.keys[i] < right.keys[j]
<1> DEFINE left == leaf_split_node(cap, n).left
           right == leaf_split_node(cap, n).right
           keys == n.keys
           a == left.current_size
           b == right.current_size
<1>1. /\ a \in 1 .. cap - 1 /\ b \in 1 .. cap - 1 /\ a + b = cap
      /\ \A i \in 0 .. a - 1 : left.keys[i] = keys[i]
      /\ \A i \in 0 .. b - 1 : right.keys[i] = keys[a + i]
  BY LeafSplitSlots
<1>2. /\ \A i \in 0 .. cap - 1 : keys[i] \in Int /\ keys[i] \in own
      /\ \A i, j \in 0 .. cap - 1 : i < j => keys[i] < keys[j]
  BY DEF LeafFits, Sorted, Slots
<1>3. Slots(left) = 0 .. a - 1 /\ Slots(right) = 0 .. b - 1
  BY DEF Slots
<1>4. left.current_size = a /\ right.current_size = b
  OBVIOUS
<1> HIDE DEF left, right, keys, a, b
<1>5. /\ \A i \in 0 .. a - 1 : i \in 0 .. cap - 1
      /\ \A i \in 0 .. b - 1 : a + i \in 0 .. cap - 1
  BY <1>1
<1>6. LeafFits(left, own)
  <2>1. \A i \in 0 .. a - 1 : left.keys[i] \in Int /\ left.keys[i] \in own
    BY <1>1, <1>2, <1>5
  <2>2. \A i, j \in 0 .. a - 1 : i < j => left.keys[i] < left.keys[j]
    BY <1>1, <1>2, <1>5
  <2> QED BY <1>3, <1>4, <2>1, <2>2 DEF LeafFits, Sorted
<1>7. LeafFits(right, own)
  <2>1. \A i \in 0 .. b - 1 : right.keys[i] \in Int /\ right.keys[i] \in own
    BY <1>1, <1>2, <1>5
  <2>2. ASSUME NEW i \in 0 .. b - 1, NEW j \in 0 .. b - 1, i < j
        PROVE  right.keys[i] < right.keys[j]
    <3>1. a + i < a + j
      BY <1>1, <2>2
    <3> QED BY <1>1, <1>2, <1>5, <3>1
  <2> QED BY <1>3, <1>4, <2>1, <2>2 DEF LeafFits, Sorted
<1>8. ASSUME NEW i \in 0 .. a - 1, NEW j \in 0 .. b - 1 PROVE left.keys[i] < right.keys[j]
  <2>1. i < a + j
    BY <1>1
  <2> QED BY <1>1, <1>2, <1>5, <2>1
<1> QED BY <1>3, <1>6, <1>7, <1>8 DEF left, right

\* A root over two parts of all keys.
LEMMA NewRootFits ==
    ASSUME NEW cap \in Nat, cap >= 2, NEW K, K \subseteq Int, NEW k \in K, NEW a, NEW b,
           NEW f, f[0] = k, NEW g, g[0] = a, g[1] = b,
           NEW span,
           \A x \in K : x \in span[a] <=> x < k,
           \A x \in K : x \in span[b] <=> x >= k
    PROVE  InnerFits(NewNode("inner", cap, 2, f, g), K, span, K)
<1> DEFINE n == NewNode("inner", cap, 2, f, g)
<1>1. /\ n.current_size = 2
      /\ n.keys = [i \in 0 .. cap - 1 |-> IF i < 2 THEN f[i] ELSE NoKey]
      /\ n.values = [i \in 0 .. cap - 1 |-> IF i < 2 THEN g[i] ELSE NoKey]
  BY DEF NewNode
<1>2. n.keys[0] = k /\ n.values[0] = a /\ n.values[1] = b
  BY <1>1
<1> HIDE DEF n
<1>3. Sorted(n.keys, 1)
  BY <1>2 DEF Sorted
<1>4. \A i \in 0 .. 0 : n.keys[i] \in K
  BY <1>2
<1>5. ASSUME NEW i \in 0 .. 1, NEW x \in K
      PROVE  x \in span[n.values[i]] <=> Belongs(n, i, x)
  <2>1. CASE i = 0
    <3>1. Belongs(n, i, x) <=> x < k
      BY <1>1, <1>2, <2>1 DEF Belongs
    <3> QED BY <1>2, <2>1, <3>1
  <2>2. CASE i = 1
    <3>1. Belongs(n, i, x) <=> k =< x
      BY <1>1, <1>2, <2>2 DEF Belongs
    <3> QED BY <1>2, <2>2, <3>1
  <2> QED BY <2>1, <2>2
<1>6. n.current_size - 1 = 1 /\ n.current_size - 2 = 0 /\ Slots(n) = 0 .. 1
  BY <1>1 DEF Slots
<1>7. InnerFits(n, K, span, K)
  BY <1>3, <1>4, <1>5, <1>6 DEF InnerFits
<1> QED BY <1>7 DEF n

\* A leaf that was split off is entered behind the leaf it was split from, whose
\* span it shares: its first key is the slot's, because the keys that go down by
\* the slot surround it.
LEMMA EnteredFits ==
    ASSUME NEW cap \in Nat, NEW K, K \subseteq Int, NEW P, NEW n, IsInner(n, cap, K, P),
           can_insert_trivially(n), NEW p \in P, NEW new, new.keys[0] \in K,
           NEW own, NEW span, InnerFits(n, K, span, own),
           NEW i \in Slots(n), new.keys[0] \in span[n.values[i]],
           NEW y \in K, y \in span[n.values[i]], y < new.keys[0],
           NEW span2,
           \A x \in K : x \in span2[n.values[i]] <=> x \in span[n.values[i]] /\ x < new.keys[0],
           \A x \in K : x \in span2[p] <=> x \in span[n.values[i]] /\ x >= new.keys[0],
           \A j \in Slots(n) : j # i => span2[n.values[j]] = span[n.values[j]]
    PROVE  InnerFits(trivial_insert_leaf_node(n, p, new), K, span2, own)
<1> DEFINE filled == trivial_insert_leaf_node(n, p, new)
           k == new.keys[0]
           where == inner_find_index_for_insert(n, k)
           size == n.current_size
           keys == n.keys
           values == n.values
<1>1. /\ size \in Nat /\ size >= 2 /\ i \in 0 .. size - 1
      /\ k \in Int /\ k \in K /\ y \in Int /\ y < k
      /\ Slots(n) = 0 .. size - 1
  <2>1. size \in Nat /\ size >= 2
    BY DEF IsInner
  <2>2. Slots(n) = 0 .. size - 1 /\ i \in Slots(n)
    BY DEF Slots
  <2>3. k \in K /\ y \in K /\ y < k
    OBVIOUS
  <2> HIDE DEF size, k
  <2> QED BY <2>1, <2>2, <2>3
<1>2. /\ \A j \in 0 .. size - 2 : keys[j] \in Int /\ keys[j] \in own
      /\ \A j, l \in 0 .. size - 2 : j < l => keys[j] < keys[l]
  <2>1. Sorted(keys, size - 1) /\ \A j \in 0 .. size - 2 : keys[j] \in own
    BY DEF InnerFits
  <2> HIDE DEF keys, size
  <2>2. size - 1 - 1 = size - 2
    BY <1>1
  <2> QED BY <2>1, <2>2 DEF Sorted
<1>3. \A j \in 0 .. size - 1 : \A x \in K :
         x \in span[values[j]] <=> /\ x \in own
                                   /\ j > 0 => keys[j - 1] =< x
                                   /\ j < size - 1 => x < keys[j]
  BY DEF InnerFits, Belongs, Slots
<1>4. /\ where \in 0 .. size - 1
      /\ filled.current_size = size + 1
      /\ \A j \in 0 .. size :
            /\ j = where => filled.keys[j] = k
            /\ j < where => filled.keys[j] = keys[j]
            /\ j > where => filled.keys[j] = keys[j - 1]
            /\ j = where + 1 => filled.values[j] = p
            /\ j < where + 1 => filled.values[j] = values[j]
            /\ j > where + 1 => filled.values[j] = values[j - 1]
  BY EnteredSlots
<1>5. (\A j \in 0 .. size - 2 : keys[j] # k) =>
         \A j \in 0 .. size - 2 : keys[j] > k <=> j >= where
  <2>1. size - 1 \in Nat \ {0}
    BY <1>1
  <2>2. Sorted(n.keys, size - 1)
    BY DEF InnerFits
  <2>3. size - 1 - 1 = size - 2
    BY <1>1
  <2>4. where = PlaceFor(n, k, size - 1)
    BY DEF inner_find_index_for_insert
  <2> HIDE DEF where, size, k
  <2> QED BY <1>1, <2>1, <2>2, <2>3, <2>4, PlaceKeepsOrder DEF keys
<1>6. /\ k \in span[values[i]] /\ y \in span[values[i]]
      /\ \A x \in K : x \in span2[values[i]] <=> x \in span[values[i]] /\ x < k
      /\ \A x \in K : x \in span2[p] <=> x \in span[values[i]] /\ x >= k
      /\ \A j \in 0 .. size - 1 : j # i => span2[values[j]] = span[values[j]]
  BY <1>1
<1>7. K \subseteq Int /\ y \in K
  OBVIOUS
<1> HIDE DEF filled, k, where, size, keys, values
<1>8. /\ k \in own
      /\ i > 0 => keys[i - 1] < k
      /\ i < size - 1 => k < keys[i]
  <2>1. k \in own /\ (i < size - 1 => k < keys[i])
    BY <1>1, <1>3, <1>6
  <2>2. i > 0 => keys[i - 1] =< y /\ i - 1 \in 0 .. size - 2
    BY <1>1, <1>3, <1>6, <1>7
  <2>3. i > 0 => keys[i - 1] < k
    BY <1>1, <1>2, <2>2
  <2> QED BY <2>1, <2>3
<1>9. ASSUME NEW j \in 0 .. size - 2
      PROVE  /\ j < i => keys[j] < k
             /\ j >= i => k < keys[j]
  <2>1. ASSUME j < i PROVE keys[j] < k
    <3>1. i > 0 /\ i - 1 \in 0 .. size - 2 /\ (j = i - 1 \/ j < i - 1)
      BY <1>1, <2>1
    <3> QED BY <1>1, <1>2, <1>8, <3>1
  <2>2. ASSUME j >= i PROVE k < keys[j]
    <3>1. i < size - 1 /\ i \in 0 .. size - 2 /\ (j = i \/ i < j)
      BY <1>1, <2>2
    <3> QED BY <1>1, <1>2, <1>8, <3>1
  <2> QED BY <2>1, <2>2
<1>10. where = i
  <2>1. \A j \in 0 .. size - 2 : keys[j] # k
    BY <1>1, <1>2, <1>9
  <2>2. \A j \in 0 .. size - 2 : j >= i <=> j >= where
    BY <1>1, <1>2, <1>5, <1>9, <2>1
  <2>3. where \in 0 .. size - 1
    BY <1>4
  <2>4. ASSUME i < where PROVE FALSE
    <3>1. i \in 0 .. size - 2
      BY <1>1, <2>3, <2>4
    <3>2. i >= i <=> i >= where
      BY <2>2, <3>1
    <3> QED BY <1>1, <2>3, <2>4, <3>2
  <2>5. ASSUME where < i PROVE FALSE
    <3>1. where \in 0 .. size - 2
      BY <1>1, <2>3, <2>5
    <3>2. where >= i <=> where >= where
      BY <2>2, <3>1
    <3> QED BY <1>1, <2>3, <2>5, <3>2
  <2> QED BY <1>1, <2>3, <2>4, <2>5
<1>11. \A j \in 0 .. size :
            /\ j = i => filled.keys[j] = k
            /\ j < i => filled.keys[j] = keys[j]
            /\ j > i => filled.keys[j] = keys[j - 1]
            /\ j = i + 1 => filled.values[j] = p
            /\ j < i + 1 => filled.values[j] = values[j]
            /\ j > i + 1 => filled.values[j] = values[j - 1]
  BY <1>4, <1>10
<1>12. ASSUME NEW j \in 0 .. size - 1
       PROVE  filled.keys[j] \in Int /\ filled.keys[j] \in own
  <2>1. \/ j = i
        \/ j < i /\ j \in 0 .. size - 2
        \/ j > i /\ j - 1 \in 0 .. size - 2
    BY <1>1
  <2>2. j \in 0 .. size
    BY <1>1
  <2> QED BY <1>1, <1>2, <1>8, <1>11, <2>1, <2>2
<1>13. ASSUME NEW j \in 0 .. size - 1, NEW l \in 0 .. size - 1, j < l
       PROVE  filled.keys[j] < filled.keys[l]
  <2>1. j \in 0 .. size /\ l \in 0 .. size
    BY <1>1
  <2>2. CASE j = i
    <3>1. l > i /\ l - 1 \in 0 .. size - 2 /\ l - 1 >= i
      BY <1>1, <1>13, <2>2
    <3> QED BY <1>9, <1>11, <2>1, <2>2, <3>1
  <2>3. CASE l = i
    <3>1. j < i /\ j \in 0 .. size - 2
      BY <1>1, <1>13, <2>3
    <3> QED BY <1>9, <1>11, <2>1, <2>3, <3>1
  <2>4. CASE l < i
    <3>1. j < i /\ j \in 0 .. size - 2 /\ l \in 0 .. size - 2
      BY <1>1, <1>13, <2>4
    <3> QED BY <1>2, <1>11, <1>13, <2>1, <2>4, <3>1
  <2>5. CASE j < i /\ l > i
    <3>1. j \in 0 .. size - 2 /\ l - 1 \in 0 .. size - 2 /\ j < l - 1
      BY <1>1, <2>5
    <3> QED BY <1>2, <1>11, <2>1, <2>5, <3>1
  <2>6. CASE j > i
    <3>1. l > i /\ j - 1 \in 0 .. size - 2 /\ l - 1 \in 0 .. size - 2 /\ j - 1 < l - 1
      BY <1>1, <1>13, <2>6
    <3> QED BY <1>2, <1>11, <2>1, <2>6, <3>1
  <2> QED BY <1>1, <2>2, <2>3, <2>4, <2>5, <2>6
<1>14. ASSUME NEW j \in 0 .. size, NEW x \in K
       PROVE  x \in span2[filled.values[j]] <=>
                 /\ x \in own
                 /\ j > 0 => filled.keys[j - 1] =< x
                 /\ j < size => x < filled.keys[j]
  <2>1. x \in Int
    BY <1>7
  <2>2. CASE j < i
    <3>1. j \in 0 .. size - 1 /\ j < size - 1 /\ j < size /\ j # i /\ j < i + 1
      BY <1>1, <2>2
    <3>2. j > 0 => j - 1 \in 0 .. size /\ j - 1 < i
      BY <1>1, <2>2
    <3>3. filled.values[j] = values[j] /\ filled.keys[j] = keys[j]
      BY <1>11, <2>2, <3>1
    <3>4. j > 0 => filled.keys[j - 1] = keys[j - 1]
      BY <1>11, <3>2
    <3>5. span2[filled.values[j]] = span[values[j]]
      BY <1>6, <3>1, <3>3
    <3> QED BY <1>3, <3>1, <3>3, <3>4, <3>5
  <2>3. CASE j = i
    <3>1. j \in 0 .. size - 1 /\ j < size /\ j < i + 1
      BY <1>1, <2>3
    <3>2. j > 0 => j - 1 \in 0 .. size /\ j - 1 < i
      BY <1>1, <2>3
    <3>3. filled.values[j] = values[i] /\ filled.keys[j] = k
      BY <1>11, <2>3, <3>1
    <3>4. j > 0 => filled.keys[j - 1] = keys[i - 1]
      BY <1>11, <2>3, <3>2
    <3>5. x \in span2[filled.values[j]] <=> x \in span[values[i]] /\ x < k
      BY <1>6, <3>3
    <3>6. x \in span[values[i]] <=> /\ x \in own
                                    /\ i > 0 => keys[i - 1] =< x
                                    /\ i < size - 1 => x < keys[i]
      BY <1>1, <1>3
    <3>7. x < k /\ i < size - 1 => x < keys[i]
      <4>1. i < size - 1 => i \in 0 .. size - 2
        BY <1>1
      <4> QED BY <1>1, <1>2, <1>8, <2>1, <4>1
    <3> QED BY <2>3, <3>1, <3>3, <3>4, <3>5, <3>6, <3>7
  <2>4. CASE j = i + 1
    <3>1. i \in 0 .. size /\ j > 0 /\ j - 1 = i /\ (j < size <=> i < size - 1) /\ j > i
      BY <1>1, <2>4
    <3>2. filled.values[j] = p /\ filled.keys[j - 1] = k
      BY <1>11, <2>4, <3>1
    <3>3. j < size => filled.keys[j] = keys[i]
      BY <1>11, <3>1
    <3>4. x \in span2[filled.values[j]] <=> x \in span[values[i]] /\ x >= k
      BY <1>6, <3>2
    <3>5. x \in span[values[i]] <=> /\ x \in own
                                    /\ i > 0 => keys[i - 1] =< x
                                    /\ i < size - 1 => x < keys[i]
      BY <1>1, <1>3
    <3>6. x >= k /\ i > 0 => keys[i - 1] =< x
      <4>1. i > 0 => i - 1 \in 0 .. size - 2
        BY <1>1
      <4> QED BY <1>1, <1>2, <1>8, <2>1, <4>1
    <3>7. x >= k <=> k =< x
      BY <1>1, <2>1
    <3> QED BY <3>1, <3>2, <3>3, <3>4, <3>5, <3>6, <3>7
  <2>5. CASE j > i + 1
    <3>1. /\ j - 1 \in 0 .. size - 1 /\ j - 1 # i /\ j > 0 /\ j - 1 > 0 /\ j > i /\ j - 1 > i
          /\ j - 1 \in 0 .. size /\ (j < size <=> j - 1 < size - 1)
      BY <1>1, <2>5
    <3>2. filled.values[j] = values[j - 1] /\ filled.keys[j] = keys[j - 1]
      BY <1>11, <2>5, <3>1
    <3>3. filled.keys[j - 1] = keys[j - 1 - 1]
      BY <1>11, <3>1
    <3>4. span2[filled.values[j]] = span[values[j - 1]]
      BY <1>6, <3>1, <3>2
    <3>5. x \in span[values[j - 1]] <=> /\ x \in own
                                        /\ j - 1 > 0 => keys[j - 1 - 1] =< x
                                        /\ j - 1 < size - 1 => x < keys[j - 1]
      BY <1>3, <3>1
    <3> QED BY <3>1, <3>2, <3>3, <3>4, <3>5
  <2> QED BY <1>1, <2>2, <2>3, <2>4, <2>5
<1>15. /\ Slots(filled) = 0 .. size
       /\ filled.current_size - 1 = size
       /\ filled.current_size - 2 = size - 1
  BY <1>1, <1>4 DEF Slots
<1>16. Sorted(filled.keys, size)
  BY <1>12, <1>13 DEF Sorted
<1>17. InnerFits(filled, K, span2, own)
  BY <1>12, <1>14, <1>15, <1>16 DEF InnerFits, Belongs
<1> QED BY <1>17 DEF filled

\* The parts of an inner node that is split fit their sides of the separating key.
LEMMA InnerSplitFits ==
    ASSUME NEW cap \in Nat, cap >= 5, NEW K, K \subseteq Int, NEW P, NEW n,
           IsInner(n, cap, K, P), n.current_size = cap,
           NEW span, NEW own, own \subseteq K, InnerFits(n, K, span, own),
           NEW lower, NEW upper, NEW separator,
           separator = inner_split_node(cap, n).left.keys
                          [inner_split_node(cap, n).left.current_size - 1],
           \A x \in K : x \in lower <=> x \in own /\ x < separator,
           \A x \in K : x \in upper <=> x \in own /\ x >= separator
    PROVE  /\ InnerFits(inner_split_node(cap, n).left, K, span, lower)
           /\ InnerFits(inner_split_node(cap, n).right, K, span, upper)
<1> DEFINE left == inner_split_node(cap, n).left
           right == inner_split_node(cap, n).right
           keys == n.keys
           values == n.values
           a == left.current_size
           b == right.current_size
<1>1. /\ a \in 2 .. cap - 1 /\ b \in 2 .. cap - 1 /\ a + b = cap
      /\ \A i \in 0 .. a - 1 : left.keys[i] = keys[i] /\ left.values[i] = values[i]
      /\ \A i \in 0 .. b - 1 : /\ right.keys[i] = keys[a + i]
                               /\ right.values[i] = values[a + i]
  BY InnerSplitSlots
<1>2. /\ \A i \in 0 .. cap - 2 : keys[i] \in Int /\ keys[i] \in own /\ keys[i] \in K
      /\ \A i, j \in 0 .. cap - 2 : i < j => keys[i] < keys[j]
  BY DEF InnerFits, Sorted
<1>3. \A i \in 0 .. cap - 1 : \A x \in K :
         x \in span[values[i]] <=> /\ x \in own
                                   /\ i > 0 => keys[i - 1] =< x
                                   /\ i < cap - 1 => x < keys[i]
  BY DEF InnerFits, Belongs, Slots
<1>4. /\ Slots(left) = 0 .. a - 1 /\ Slots(right) = 0 .. b - 1
      /\ left.current_size = a /\ right.current_size = b
  BY DEF Slots
<1>5. separator = left.keys[a - 1]
  OBVIOUS
<1> HIDE DEF left, right, keys, values, a, b
<1>6. separator = keys[a - 1] /\ a - 1 \in 0 .. cap - 2 /\ separator \in Int
  <2>1. a - 1 \in 0 .. a - 1 /\ a - 1 \in 0 .. cap - 2
    BY <1>1
  <2> QED BY <1>1, <1>2, <1>5, <2>1
<1>7. InnerFits(left, K, span, lower)
  <2>1. \A i \in 0 .. a - 2 : i \in 0 .. a - 1 /\ i \in 0 .. cap - 2 /\ i < a - 1
    BY <1>1
  <2>2. ASSUME NEW i \in 0 .. a - 2
        PROVE  left.keys[i] = keys[i] /\ keys[i] < separator /\ left.keys[i] \in lower
    BY <1>1, <1>2, <1>6, <2>1
  <2>3. Sorted(left.keys, a - 1)
    <3>1. \A i \in 0 .. a - 2 : left.keys[i] \in Int
      BY <1>2, <2>1, <2>2
    <3>2. \A i, j \in 0 .. a - 2 : i < j => left.keys[i] < left.keys[j]
      BY <1>2, <2>1, <2>2
    <3>3. a - 1 - 1 = a - 2
      BY <1>1
    <3> QED BY <3>1, <3>2, <3>3 DEF Sorted
  <2>4. ASSUME NEW i \in 0 .. a - 1, NEW x \in K
        PROVE  x \in span[left.values[i]] <=> x \in lower /\ Belongs(left, i, x)
    <3>1. /\ i \in 0 .. cap - 1 /\ i < cap - 1 /\ x \in Int
          /\ left.values[i] = values[i]
          /\ i > 0 => i - 1 \in 0 .. a - 1
      BY <1>1
    <3>2. i > 0 => left.keys[i - 1] = keys[i - 1]
      BY <1>1, <3>1
    <3>3. x \in span[left.values[i]] <=> /\ x \in own
                                         /\ i > 0 => keys[i - 1] =< x
                                         /\ x < keys[i]
      BY <1>3, <3>1
    <3>4. Belongs(left, i, x) <=> /\ i > 0 => keys[i - 1] =< x
                                  /\ i < a - 1 => x < left.keys[i]
      BY <1>4, <3>2 DEF Belongs
    <3>5. x \in lower <=> x \in own /\ x < separator
      OBVIOUS
    <3>6. CASE i = a - 1
      <4>1. keys[i] = separator /\ ~ (i < a - 1)
        BY <1>1, <1>6, <3>6
      <4> QED BY <3>3, <3>4, <3>5, <4>1
    <3>7. CASE i # a - 1
      <4>1. i \in 0 .. a - 2 /\ i < a - 1
        BY <1>1, <3>7
      <4>2. left.keys[i] = keys[i] /\ keys[i] < separator /\ keys[i] \in Int
        BY <1>2, <2>1, <2>2, <4>1
      <4>3. x < keys[i] => x < separator
        BY <1>6, <3>1, <4>2
      <4> QED BY <3>3, <3>4, <3>5, <4>1, <4>2, <4>3
    <3> QED BY <3>6, <3>7
  <2> QED BY <1>4, <2>2, <2>3, <2>4 DEF InnerFits
<1>8. InnerFits(right, K, span, upper)
  <2>1. \A i \in 0 .. b - 2 : /\ i \in 0 .. b - 1 /\ a + i \in 0 .. cap - 2
                              /\ a - 1 < a + i
    BY <1>1
  <2>2. ASSUME NEW i \in 0 .. b - 2
        PROVE  /\ right.keys[i] = keys[a + i] /\ separator < keys[a + i]
               /\ right.keys[i] \in Int /\ right.keys[i] \in upper
    <3>1. right.keys[i] = keys[a + i] /\ separator < keys[a + i]
      BY <1>1, <1>2, <1>6, <2>1
    <3> QED BY <1>2, <1>6, <2>1, <3>1
  <2>3. Sorted(right.keys, b - 1)
    <3>1. ASSUME NEW i \in 0 .. b - 2, NEW j \in 0 .. b - 2, i < j
          PROVE  right.keys[i] < right.keys[j]
      <4>1. a + i < a + j
        BY <1>1, <3>1
      <4> QED BY <1>2, <2>1, <2>2, <4>1
    <3>2. b - 1 - 1 = b - 2
      BY <1>1
    <3> QED BY <2>2, <3>1, <3>2 DEF Sorted
  <2>4. ASSUME NEW i \in 0 .. b - 1, NEW x \in K
        PROVE  x \in span[right.values[i]] <=> x \in upper /\ Belongs(right, i, x)
    <3> DEFINE c == a + i
    <3>0. right.values[i] = values[c] /\ x \in Int
      BY <1>1
    <3>1. c \in 0 .. cap - 1 /\ c > 0 /\ (c < cap - 1 <=> i < b - 1)
      <4>1. a \in Nat /\ a > 1 /\ b \in Nat /\ a + b = cap
        BY <1>1
      <4> QED BY <4>1
    <3> HIDE DEF c
    <3>2. x \in span[right.values[i]] <=> /\ x \in own
                                          /\ keys[c - 1] =< x
                                          /\ i < b - 1 => x < keys[c]
      BY <1>3, <3>0, <3>1
    <3>3. i < b - 1 => right.keys[i] = keys[c]
      BY <1>1 DEF c
    <3>4. Belongs(right, i, x) <=> /\ i > 0 => right.keys[i - 1] =< x
                                   /\ i < b - 1 => x < keys[c]
      BY <1>4, <3>3 DEF Belongs
    <3>5. x \in upper <=> x \in own /\ x >= separator
      OBVIOUS
    <3>6. x >= separator <=> separator =< x
      BY <1>6, <3>0
    <3>7. CASE i = 0
      <4>1. c - 1 = a - 1
        BY <1>1, <3>7 DEF c
      <4> QED BY <1>6, <3>2, <3>4, <3>5, <3>6, <3>7, <4>1
    <3>8. CASE i > 0
      <4>1. i - 1 \in 0 .. b - 2 /\ a + (i - 1) = c - 1
        BY <1>1, <3>8 DEF c
      <4>2. right.keys[i - 1] = keys[c - 1] /\ separator < keys[c - 1]
        BY <2>2, <4>1
      <4>3. keys[c - 1] \in Int
        BY <1>2, <2>1, <4>1
      <4>4. keys[c - 1] =< x => separator =< x
        BY <1>6, <3>0, <4>2, <4>3
      <4> QED BY <3>2, <3>4, <3>5, <3>6, <3>8, <4>2, <4>4
    <3> QED BY <1>1, <3>7, <3>8
  <2> QED BY <1>4, <2>2, <2>3, <2>4 DEF InnerFits
<1> QED BY <1>7, <1>8 DEF left, right

\* What a span is cut into is of no concern to keys that are blanked.
LEMMA FitsAlike ==
    ASSUME NEW n, NEW m, n.current_size \in Nat, m.current_size = n.current_size,
           \A i \in 0 .. n.current_size - 2 : m.keys[i] = n.keys[i],
           \A i \in Slots(n) : m.values[i] = n.values[i],
           NEW K, NEW span, NEW span2, NEW own, NEW own2,
           InnerFits(n, K, span, own),
           \A i \in Slots(n) : \A x \in K : x \in span2[n.values[i]] <=> x \in span[n.values[i]],
           \A x : x \in own2 <=> x \in own
    PROVE  InnerFits(m, K, span2, own2)
<1> DEFINE size == n.current_size
<1>1. /\ m.current_size = size /\ size \in Nat
      /\ Slots(n) = 0 .. size - 1 /\ Slots(m) = 0 .. size - 1
  BY DEF Slots
<1>2. /\ \A i \in 0 .. size - 2 : m.keys[i] = n.keys[i] /\ n.keys[i] \in own
      /\ \A i \in 0 .. size - 1 : m.values[i] = n.values[i]
  BY <1>1 DEF InnerFits
<1>3. Sorted(n.keys, size - 1)
  BY DEF InnerFits
<1>4. \A i \in 0 .. size - 1 : \A x \in K :
         x \in span[n.values[i]] <=> x \in own /\ Belongs(n, i, x)
  BY <1>1 DEF InnerFits
<1>5. n.current_size = size
  OBVIOUS
<1>6. \A i \in 0 .. size - 1 : \A x \in K :
         x \in span2[n.values[i]] <=> x \in span[n.values[i]]
  BY <1>1
<1> HIDE DEF size
<1>7. Sorted(m.keys, size - 1)
  <2>1. size - 1 - 1 = size - 2
    BY <1>1
  <2> QED BY <1>2, <1>3, <2>1 DEF Sorted
<1>8. ASSUME NEW i \in 0 .. size - 1, NEW x \in K
      PROVE  Belongs(m, i, x) <=> Belongs(n, i, x)
  <2>1. /\ i > 0 => m.keys[i - 1] = n.keys[i - 1]
        /\ i < size - 1 => m.keys[i] = n.keys[i]
    <3>1. /\ i > 0 => i - 1 \in 0 .. size - 2
          /\ i < size - 1 => i \in 0 .. size - 2
      BY <1>1
    <3> QED BY <1>2, <3>1
  <2> QED BY <1>1, <1>5, <2>1 DEF Belongs
<1>9. ASSUME NEW i \in 0 .. size - 1, NEW x \in K
      PROVE  x \in span2[m.values[i]] <=> x \in own2 /\ Belongs(m, i, x)
  BY <1>2, <1>4, <1>6, <1>8
<1> QED BY <1>1, <1>2, <1>7, <1>9 DEF InnerFits

-----------------------------------------------------------------------------
(* The order of the whole tree.                                            *)

\* A leaf that was split off and that no inner node knows yet.
IsHanging(p) == /\ p = call.new_page
                /\ call.step \in {"new_root", "climb"}
                /\ contents[p].type = "leaf"

\* The pages of the tree, as a search sees it.
Linked == {p \in Ready : ~IsHanging(p)}

\* A node fits its span, and is one higher than its children.
NodeOrder(span, height, p) ==
    LET n == contents[p]
    IN  /\ n.type = "leaf" => height[p] = 0 /\ LeafFits(n, span[p])
        /\ n.type = "inner" =>
              /\ InnerFits(n, Keys, span, span[p])
              /\ \A i \in Slots(n) :
                    n.values[i] \in Linked /\ height[n.values[i]] + 1 = height[p]

\* No two pages of one height stand for the same key: a page is a child once.
Apart(span, height) ==
    \A p, q \in Linked : \A x \in Keys :
       height[p] = height[q] /\ x \in span[p] /\ x \in span[q] => p = q

\* The root was split and has no root above it yet.
Cut == \/ call.step \in {"root_victim", "root_over"}
       \/ /\ call.step = "climb"
          /\ call.new_page # NoPage
          /\ contents[call.new_page].type = "inner"

\* The key between its parts.
Separator == contents[m_root_page_id].keys[contents[m_root_page_id].current_size - 1]

\* The root stands for all keys, or its two parts do.
RootOrder(span, height) ==
    m_root_page_id \in Ready =>
       /\ \A q \in Linked : height[q] =< height[m_root_page_id]
       /\ ~Cut => \A x \in Keys : x \in span[m_root_page_id]
       /\ Cut => /\ height[call.new_page] = height[m_root_page_id]
                 /\ \A x \in Keys : /\ x \in span[m_root_page_id] <=> x < Separator
                                    /\ x \in span[call.new_page] <=> x >= Separator

Shape(span, height) ==
    /\ \A p \in Linked : NodeOrder(span, height, p)
    /\ Apart(span, height)
    /\ RootOrder(span, height)

\* A search is on its way to its key.
OnTheWay(span) == call.step \in {"find", "descend"} =>
                     call.at \in Linked /\ call.key \in span[call.at]

\* The end of the queue is the parent of the page the call is at.
ParentQueued ==
    /\ m_frame_queue # <<>>
    /\ \/ call.step \in {"descend", "split_leaf"}
       \/ call.step = "climb" /\ call.new_page # NoPage
    => \E i \in Slots(contents[Last(m_frame_queue)]) :
          contents[Last(m_frame_queue)].values[i] = call.at

\* The two parts of a leaf that was split share the span of the left one.
LeavesInOrder(span) ==
    call.new_page \in Ready /\ IsHanging(call.new_page) =>
       LET left  == contents[call.at]
           right == contents[call.new_page]
       IN  /\ LeafFits(right, span[call.at])
           /\ \A i \in Slots(left), j \in Slots(right) : left.keys[i] < right.keys[j]

CallOrder(span) ==
    /\ OnTheWay(span)
    /\ call.step \in {"idle", "first", "find", "dump"} => m_frame_queue = <<>>
    /\ m_root_page_id = NoPage \/ call.step = "first" => Ready = {}
    /\ ParentQueued
    /\ LeavesInOrder(span)

Ordered(span, height) == Shape(span, height) /\ CallOrder(span)

\* A call on its way to the assertion that fails.
Doomed == /\ call.step = "climb"
          /\ m_frame_queue # <<>>
          /\ call.new_page # NoPage
          /\ contents[call.new_page].type = "inner"

\* No request has failed, and no assertion will.
Fine == failures = 0 /\ ~Aborted /\ ~Doomed

Spans == [Pages -> SUBSET Keys]

Heights == [Pages -> Nat]

\* A key is inserted once.
NewKey ==
    call.step \in {"first", "descend"} =>
       /\ call.key \in Keys
       /\ \A p \in Pages : contents[p].type = "leaf" =>
             \A i \in Slots(contents[p]) : contents[p].keys[i] # call.key

SearchKey == call.step = "find" => call.key \in Keys

OrderInv ==
    /\ TreeInv
    /\ NewKey
    /\ SearchKey
    /\ Fine => \E span \in Spans, height \in Heights : Ordered(span, height)
-----------------------------------------------------------------------------
(* Steps that leave the tree alone.                                        *)

\* No page is added to the tree or changed.
LEMMA ShapeStays ==
    ASSUME NEW span, NEW height, Shape(span, height),
           UNCHANGED <<contents, m_root_page_id>>, Linked' = Linked, Cut' <=> Cut,
           Cut => call'.new_page = call.new_page,
           m_root_page_id \in Ready' => m_root_page_id \in Ready
    PROVE  Shape(span, height)'
<1>1. ASSUME NEW p \in Linked PROVE NodeOrder(span, height, p)'
  <2>1. NodeOrder(span, height, p)
    BY DEF Shape
  <2> QED BY <2>1 DEF NodeOrder
<1>2. Apart(span, height)'
  BY DEF Shape, Apart
<1>3. RootOrder(span, height)'
  <2>1. RootOrder(span, height) /\ Separator' = Separator
    BY DEF Shape, Separator
  <2> HIDE DEF Cut, Linked, Separator
  <2> QED BY <2>1 DEF RootOrder
<1> QED BY <1>1, <1>2, <1>3 DEF Shape

\* The call is at a step at which no page is written, and has split nothing.
QuietPoint == \/ call.step \in {"idle", "find", "dump", "descend"}
              \/ call.step = "climb" /\ call.new_page = NoPage

LEMMA Quiet ==
    ASSUME EqualCapacities, TreeInv, QuietPoint
    PROVE  Ready = 0 .. m_next_page - 1 /\ Linked = Ready /\ ~Cut
<1>1. call.new_page = NoPage
  BY DEF TreeInv, CallType, QuietPoint
<1>2. Ready = 0 .. m_next_page - 1
  BY ReadyWhenReading DEF Reading, QuietPoint
<1>3. NoPage \notin Ready
  BY <1>2, Facts DEF NoPage
<1>4. Linked = Ready
  BY <1>1, <1>3 DEF Linked, IsHanging
<1>5. ~Cut
  BY <1>1 DEF Cut, QuietPoint
<1> QED BY <1>2, <1>4, <1>5

LEMMA QuietNext ==
    ASSUME EqualCapacities, TreeInv', QuietPoint'
    PROVE  /\ Ready' = 0 .. m_next_page' - 1
           /\ Linked' = Ready'
           /\ ~Cut'
           /\ ~ (call'.new_page \in Ready')
<1>1. call'.new_page = NoPage
  BY DEF TreeInv, CallType, QuietPoint
<1>2. Ready' = 0 .. m_next_page' - 1
  BY ReadyWhenReading DEF Reading, QuietPoint
<1>3. NoPage \notin Ready'
  BY <1>2 DEF NoPage, TreeInv, Basics
<1>4. Linked' = Ready'
  BY <1>1, <1>3 DEF Linked, IsHanging
<1>5. ~Cut'
  BY <1>1 DEF Cut, QuietPoint
<1> QED BY <1>1, <1>2, <1>3, <1>4, <1>5

\* A step from one quiet point to another.
LEMMA QuietStep ==
    ASSUME EqualCapacities, TreeInv, TreeInv', NEW span, NEW height, Ordered(span, height),
           UNCHANGED <<contents, tree>>, QuietPoint, QuietPoint',
           OnTheWay(span)', ParentQueued',
           call'.step \in {"idle", "find", "dump"} => m_frame_queue' = <<>>
    PROVE  Ordered(span, height)'
<1>1. /\ Ready = 0 .. m_next_page - 1 /\ Linked = Ready /\ ~Cut
      /\ call.step # "first" /\ call'.step # "first"
  BY Quiet DEF QuietPoint
<1>2. /\ Ready' = 0 .. m_next_page' - 1 /\ Linked' = Ready' /\ ~Cut'
      /\ ~ (call'.new_page \in Ready')
  BY QuietNext
<1>3. Ready' = Ready /\ m_root_page_id' = m_root_page_id
  BY <1>1, <1>2 DEF tree
<1>4. Shape(span, height)'
  <2>1. /\ Shape(span, height) /\ UNCHANGED <<contents, m_root_page_id>>
        /\ Linked' = Linked /\ (Cut' <=> Cut) /\ ~Cut
        /\ m_root_page_id \in Ready' => m_root_page_id \in Ready
    BY <1>1, <1>2, <1>3 DEF Ordered
  <2> QED BY <2>1, ShapeStays
<1>5. m_root_page_id' = NoPage => Ready' = {}
  BY <1>3 DEF Ordered, CallOrder
<1>6. LeavesInOrder(span)'
  BY <1>2 DEF LeavesInOrder
<1> QED BY <1>1, <1>4, <1>5, <1>6 DEF Ordered, CallOrder

\* A call starts at the root.
LEMMA StartOrdered ==
    ASSUME EqualCapacities, TreeInv, TreeInv', NEW span, NEW height, Ordered(span, height),
           NEW k, StartDump \/ (k \in Keys /\ (StartFind(k) \/ StartInsert(k)))
    PROVE  Ordered(span, height)'
<1>1. /\ call.step = "idle" /\ ~Aborted
      /\ UNCHANGED <<contents, tree, m_frame_queue>>
  BY DEF StartFind, StartDump, StartInsert, IsIdle, pool
<1>2. QuietPoint /\ m_frame_queue' = <<>>
  BY <1>1 DEF QuietPoint, Ordered, CallOrder
<1>3. CASE call' = call
  <2>1. QuietPoint' /\ call'.step = "idle"
    BY <1>1, <1>3 DEF QuietPoint
  <2>2. OnTheWay(span)' /\ ParentQueued'
    BY <2>1, <1>2 DEF OnTheWay, ParentQueued
  <2> QED BY <1>1, <1>2, <2>1, <2>2, QuietStep
<1>4. CASE /\ m_root_page_id # NoPage /\ call'.step \in {"find", "dump", "descend"}
           /\ call'.at = m_root_page_id
           /\ call'.step \in {"find", "descend"} => call'.key = k /\ k \in Keys
  <2>1. QuietPoint'
    BY <1>4 DEF QuietPoint
  <2>2. Linked = Ready /\ ~Cut /\ m_root_page_id \in Ready
    BY <1>1, <1>2, <1>4, Quiet DEF TreeInv, PathFromRoot
  <2>3. Linked' = Ready' /\ Ready' = Ready
    <3>1. Ready' = 0 .. m_next_page' - 1 /\ Linked' = Ready'
      BY <2>1, QuietNext
    <3>2. Ready = 0 .. m_next_page - 1
      BY <1>2, Quiet
    <3> QED BY <1>1, <3>1, <3>2 DEF tree
  <2>4. k \in Keys => k \in span[m_root_page_id]
    BY <2>2 DEF Ordered, Shape, RootOrder
  <2>5. OnTheWay(span)' /\ ParentQueued'
    BY <1>2, <1>4, <2>2, <2>3, <2>4 DEF OnTheWay, ParentQueued
  <2> QED BY <1>1, <1>2, <2>1, <2>5, QuietStep
<1>5. CASE call' # call
  <2>1. /\ m_root_page_id # NoPage
        /\ \/ /\ k \in Keys
              /\ call' = [Idle EXCEPT !.step = "find", !.key = k, !.at = m_root_page_id]
           \/ call' = [Idle EXCEPT !.step = "dump", !.at = m_root_page_id]
           \/ /\ k \in Keys
              /\ call' = [Idle EXCEPT !.step = "descend", !.key = k, !.at = m_root_page_id]
    BY <1>5 DEF StartFind, StartDump, StartInsert
  <2> QED BY <1>4, <2>1 DEF Idle
<1> QED BY <1>3, <1>5

\* A search that goes down stays on its way.
LEMMA ChildOrdered ==
    ASSUME EqualCapacities, TreeInv, NEW span, NEW height, Ordered(span, height),
           NEW p \in Linked, contents[p].type = "inner", NEW k \in Keys, k \in span[p]
    PROVE  LET i == inner_find_index(contents[p], k)
           IN  /\ i \in Slots(contents[p])
               /\ contents[p].values[i] \in Linked
               /\ k \in span[contents[p].values[i]]
<1> DEFINE n == contents[p]
           i == inner_find_index(n, k)
<1>1. /\ InnerFits(n, Keys, span, span[p])
      /\ \A j \in Slots(n) : n.values[j] \in Linked
  BY DEF Ordered, Shape, NodeOrder
<1>2. n.current_size \in Nat /\ n.current_size >= 2
  <2>1. p \in Pages
    BY Facts DEF Linked
  <2>2. IsInner(n, capacity.leaf, Keys, Ready) /\ capacity.leaf \in Nat
    BY <2>1, Facts DEF Inner
  <2> HIDE DEF n
  <2> QED BY <2>2 DEF IsInner
<1>3. k \in Int
  BY TreeAssumption
<1> HIDE DEF n
<1>4. i \in Slots(n) /\ Belongs(n, i, k)
  <2>1. Sorted(n.keys, n.current_size - 1)
    BY <1>1 DEF InnerFits
  <2> QED BY <1>2, <1>3, <2>1, SearchBelongs
<1>5. k \in span[n.values[i]]
  BY <1>1, <1>4 DEF InnerFits
<1> QED BY <1>1, <1>4, <1>5 DEF n

LEMMA FindOrdered ==
    ASSUME EqualCapacities, TreeInv, TreeInv', NEW span, NEW height, Ordered(span, height),
           SearchKey, Find
    PROVE  Ordered(span, height)'
<1>1. call.step = "find" /\ UNCHANGED <<contents, tree, m_frame_queue>>
  BY DEF Find
<1>2. QuietPoint /\ m_frame_queue' = <<>>
  BY <1>1 DEF QuietPoint, Ordered, CallOrder
<1>3. Linked = Ready /\ Ready = 0 .. m_next_page - 1
  BY <1>2, Quiet
<1>4. call.at \in Linked /\ call.key \in span[call.at] /\ call.key \in Keys
  BY <1>1 DEF Ordered, CallOrder, OnTheWay, SearchKey
<1>5. CASE call' = Idle
  <2>1. QuietPoint' /\ call'.step = "idle"
    BY <1>5 DEF QuietPoint, Idle
  <2>2. OnTheWay(span)' /\ ParentQueued'
    BY <2>1, <1>2 DEF OnTheWay, ParentQueued
  <2> QED BY <1>1, <1>2, <2>1, <2>2, QuietStep
<1>6. CASE call' # Idle
  <2> DEFINE child == contents[call.at].values[inner_find_index(contents[call.at], call.key)]
  <2>1. contents[call.at].type = "inner" /\ call' = [call EXCEPT !.at = child]
    BY <1>6 DEF Find
  <2>2. child \in Linked /\ call.key \in span[child]
    BY <1>4, <2>1, ChildOrdered
  <2> HIDE DEF child
  <2>3. call'.step = "find" /\ call'.at = child /\ call'.key = call.key
    BY <1>1, <2>1, CallFields
  <2>4. QuietPoint'
    BY <2>3 DEF QuietPoint
  <2>5. Linked' = Linked
    <3>1. Ready' = 0 .. m_next_page' - 1 /\ Linked' = Ready'
      BY <2>4, QuietNext
    <3> QED BY <1>1, <1>3, <3>1 DEF tree
  <2>6. OnTheWay(span)' /\ ParentQueued'
    BY <1>2, <2>2, <2>3, <2>5 DEF OnTheWay, ParentQueued
  <2> QED BY <1>1, <1>2, <2>4, <2>6, QuietStep
<1> QED BY <1>5, <1>6

LEMMA DumpOrdered ==
    ASSUME EqualCapacities, TreeInv, TreeInv', NEW span, NEW height, Ordered(span, height),
           Dump
    PROVE  Ordered(span, height)'
<1>1. call.step = "dump" /\ UNCHANGED <<contents, tree, m_frame_queue>>
  BY DEF Dump
<1>2. QuietPoint /\ m_frame_queue' = <<>>
  BY <1>1 DEF QuietPoint, Ordered, CallOrder
<1>3. call'.step \in {"idle", "dump"}
  <2>1. call' = Idle \/ \E at, page_ids : call' = [call EXCEPT !.at = at, !.page_ids = page_ids]
    BY DEF Dump
  <2>2. ASSUME NEW at, NEW page_ids, call' = [call EXCEPT !.at = at, !.page_ids = page_ids]
        PROVE  call'.step = "dump"
    BY <1>1, <2>2, CallFields
  <2>3. Idle.step = "idle"
    BY DEF Idle
  <2> QED BY <2>1, <2>2, <2>3
<1>4. QuietPoint' /\ OnTheWay(span)' /\ ParentQueued'
  BY <1>2, <1>3 DEF QuietPoint, OnTheWay, ParentQueued
<1> QED BY <1>1, <1>2, <1>3, <1>4, QuietStep

LEMMA DescendOrdered ==
    ASSUME EqualCapacities, TreeInv, TreeInv', NEW span, NEW height, Ordered(span, height),
           NewKey, Descend
    PROVE  Ordered(span, height)'
<1> DEFINE i == inner_find_index(contents[call.at], call.key)
           child == contents[call.at].values[i]
<1>1. /\ call.step = "descend" /\ UNCHANGED <<contents, tree>>
      /\ contents[call.at].type = "inner"
      /\ call' = [call EXCEPT !.at = child]
      /\ m_frame_queue' = Append(m_frame_queue, call.at)
  BY DEF Descend
<1>2. QuietPoint
  BY <1>1 DEF QuietPoint
<1>3. Linked = Ready /\ Ready = 0 .. m_next_page - 1
  BY <1>2, Quiet
<1>4. call.at \in Linked /\ call.key \in span[call.at] /\ call.key \in Keys
  BY <1>1 DEF Ordered, CallOrder, OnTheWay, NewKey
<1>5. i \in Slots(contents[call.at]) /\ child \in Linked /\ call.key \in span[child]
  BY <1>1, <1>4, ChildOrdered
<1>6. contents[call.at].values[i] = child
  OBVIOUS
<1> HIDE DEF child, i
<1>7. call'.step = "descend" /\ call'.at = child /\ call'.key = call.key
  BY <1>1, CallFields
<1>8. QuietPoint'
  BY <1>7 DEF QuietPoint
<1>9. Linked' = Linked
  <2>1. Ready' = 0 .. m_next_page' - 1 /\ Linked' = Ready'
    BY <1>8, QuietNext
  <2> QED BY <1>1, <1>3, <2>1 DEF tree
<1>10. Last(m_frame_queue') = call.at
  <2>1. m_frame_queue \in Seq(Pages) /\ call.at \in Pages
    BY <1>3, <1>4, Facts DEF TreeInv, Basics
  <2> QED BY <1>1, <2>1, AppendProperties DEF Last
<1>11. OnTheWay(span)' /\ ParentQueued'
  BY <1>1, <1>5, <1>6, <1>7, <1>9, <1>10 DEF OnTheWay, ParentQueued
<1> QED BY <1>1, <1>2, <1>7, <1>8, <1>11, QuietStep

LEMMA ClimbUnpinOrdered ==
    ASSUME EqualCapacities, TreeInv, TreeInv', NEW span, NEW height, Ordered(span, height),
           ClimbUnpin
    PROVE  Ordered(span, height)'
<1>1. /\ call.step = "climb" /\ call.new_page = NoPage /\ call' = call
      /\ UNCHANGED <<contents, tree>>
  BY DEF ClimbUnpin
<1>2. QuietPoint /\ QuietPoint'
  BY <1>1 DEF QuietPoint
<1>3. OnTheWay(span)' /\ ParentQueued'
  BY <1>1 DEF OnTheWay, ParentQueued
<1> QED BY <1>1, <1>2, <1>3, QuietStep

LEMMA StartFirstOrdered ==
    ASSUME EqualCapacities, TreeInv, NEW span, NEW height, Ordered(span, height),
           NEW k \in Keys, StartFirst(k)
    PROVE  Ordered(span, height)'
<1>1. /\ call.step = "idle" /\ m_root_page_id = NoPage
      /\ m_root_page_id' = m_next_page /\ m_next_page' = m_next_page + 1
      /\ call'.step = "first" /\ m_frame_queue' = m_frame_queue
  BY DEF StartFirst, IsIdle, Idle
<1>2. Ready = {} /\ m_frame_queue' = <<>>
  BY <1>1 DEF Ordered, CallOrder
<1>3. Ready = 0 .. m_next_page - 1 /\ m_next_page \in Nat
  BY <1>1, Quiet DEF QuietPoint, TreeInv, Basics
<1>4. Ready' = {}
  <2>1. ASSUME NEW p \in Ready' PROVE FALSE
    <3>1. p \in 0 .. m_next_page /\ p # m_next_page
      BY <1>1, <1>3 DEF Ready, IsPending
    <3>2. p \in 0 .. m_next_page - 1
      BY <1>3, <3>1
    <3> QED BY <1>2, <1>3, <3>2
  <2> QED BY <2>1
<1>5. Linked' = {}
  BY <1>4 DEF Linked
<1>6. Shape(span, height)'
  BY <1>4, <1>5 DEF Shape, Apart, RootOrder
<1>7. CallOrder(span)'
  BY <1>1, <1>2, <1>4 DEF CallOrder, OnTheWay, ParentQueued, LeavesInOrder
<1> QED BY <1>6, <1>7 DEF Ordered

\* The first root stands for all keys.
LEMMA FirstOrdered ==
    ASSUME EqualCapacities, TreeInv, TreeInv', NEW span, NEW height, Ordered(span, height),
           First
    PROVE  \E span2 \in Spans, height2 \in Heights : Ordered(span2, height2)'
<1> DEFINE root == m_root_page_id
           node == init_first_node(capacity.leaf, call.key, RecordOf[call.key])
<1>1. /\ call.step = "first" /\ contents' = [contents EXCEPT ![root] = node]
      /\ call' = Idle /\ UNCHANGED <<tree, m_frame_queue>>
  BY DEF First
<1>2. root \in 0 .. m_next_page - 1 /\ call.key \in Keys /\ m_frame_queue = <<>>
  BY <1>1 DEF TreeInv, Points, AtFirst
<1>3. Ready = {} /\ root \in Pages /\ DOMAIN contents = Pages
  <2>1. Ready = {}
    BY <1>1 DEF Ordered, CallOrder
  <2>2. m_next_page \in 0 .. MaxPages /\ DOMAIN contents = Pages
    BY DEF TreeInv, Basics
  <2> QED BY <1>2, <2>1, <2>2, TreeAssumption DEF Pages
<1>4. QuietPoint' /\ call'.step = "idle" /\ root' = root
  BY <1>1 DEF QuietPoint, Idle, tree
<1>5. Ready' = 0 .. m_next_page - 1 /\ Linked' = Ready' /\ ~Cut' /\ ~ (call'.new_page \in Ready')
  <2>1. Ready' = 0 .. m_next_page' - 1 /\ Linked' = Ready' /\ ~Cut' /\ ~ (call'.new_page \in Ready')
    BY <1>4, QuietNext
  <2> QED BY <1>1, <2>1 DEF tree
<1>6. \A p \in 0 .. m_next_page - 1 : p = root
  BY <1>1, <1>3 DEF Ready, IsPending
<1>7. node.type = "leaf" /\ node.current_size = 1 /\ node.keys[0] = call.key
  <2>1. 0 \in 0 .. capacity.leaf - 1
    BY Facts
  <2> QED BY <2>1 DEF init_first_node, NewNode
<1>8. contents'[root] = node
  BY <1>1, <1>3
<1> HIDE DEF node, root
<1>9. LeafFits(node, Keys)
  <2>1. node.keys[0] \in Keys /\ node.keys[0] \in Int
    <3>1. Keys \subseteq Int
      BY TreeAssumption
    <3> QED BY <1>2, <1>7, <3>1
  <2>2. \A i \in 0 .. 0 : i = 0
    OBVIOUS
  <2>3. 1 - 1 = 0
    OBVIOUS
  <2> QED BY <1>7, <2>1, <2>2, <2>3 DEF LeafFits, Sorted, Slots
<1>10. PICK span2 \in Spans : span2 = [p \in Pages |-> Keys]
  BY DEF Spans
<1>11. PICK height2 \in Heights : height2 = [p \in Pages |-> 0]
  BY DEF Heights
<1>12. span2[root] = Keys /\ height2[root] = 0
  BY <1>3, <1>10, <1>11
<1>13. \A p \in Linked' : p = root
  BY <1>5, <1>6
<1>14. Shape(span2, height2)'
  <2>1. ASSUME NEW p \in Linked' PROVE NodeOrder(span2, height2, p)'
    <3>1. p = root /\ contents'[p] = node
      BY <1>8, <1>13
    <3> QED BY <1>7, <1>9, <1>12, <3>1 DEF NodeOrder
  <2>2. Apart(span2, height2)'
    BY <1>13 DEF Apart
  <2>3. RootOrder(span2, height2)'
    BY <1>4, <1>5, <1>12, <1>13 DEF RootOrder, root
  <2> QED BY <2>1, <2>2, <2>3 DEF Shape
<1>15. CallOrder(span2)'
  <2>1. m_frame_queue' = <<>> /\ m_root_page_id' # NoPage
    BY <1>1, <1>2, <1>3, <1>4, Facts DEF root
  <2> QED BY <1>4, <1>5, <2>1 DEF CallOrder, OnTheWay, ParentQueued, LeavesInOrder
<1> QED BY <1>14, <1>15 DEF Ordered

\* At the top: the call ends, or the root is cut.
LEMMA FinishOrdered ==
    ASSUME EqualCapacities, TreeInv, TreeInv', NEW span, NEW height, Ordered(span, height),
           Finish
    PROVE  Ordered(span, height)'
<1>1. /\ call.step = "climb" /\ m_frame_queue = <<>>
      /\ UNCHANGED <<tree, contents, m_frame_queue>>
  BY DEF Finish
<1>2. CASE call.new_page = NoPage
  <2>1. call'.step = "idle"
    BY <1>2 DEF Finish, FlushAll, Idle
  <2>2. QuietPoint /\ QuietPoint'
    BY <1>1, <1>2, <2>1 DEF QuietPoint
  <2>3. OnTheWay(span)' /\ ParentQueued'
    BY <1>1, <2>1 DEF OnTheWay, ParentQueued
  <2> QED BY <1>1, <2>2, <2>3, QuietStep
<1>3. CASE call.new_page # NoPage
  <2>1. call' = [call EXCEPT !.step = "root_victim"]
    BY <1>3 DEF Finish
  <2>2. call'.step = "root_victim" /\ call'.new_page = call.new_page
    BY <2>1, CallFields
  <2>3. contents[call.new_page].type = "inner"
    BY <1>1, <1>3 DEF TreeInv, Points, AtClimb, NewInner
  <2>4. Ready = 0 .. m_next_page - 1 /\ Ready' = 0 .. m_next_page' - 1
    BY <1>1, <2>2, ReadyWhenReading DEF Reading
  <2>5. Ready' = Ready /\ m_root_page_id' = m_root_page_id
    BY <1>1, <2>4 DEF tree
  <2>6. Linked = Ready /\ Linked' = Ready'
    BY <2>2, <2>3 DEF Linked, IsHanging
  <2>7. Cut /\ Cut'
    BY <1>1, <1>3, <2>2, <2>3 DEF Cut
  <2>8. Shape(span, height)'
    <3>1. /\ Shape(span, height) /\ UNCHANGED <<contents, m_root_page_id>>
          /\ Linked' = Linked /\ (Cut' <=> Cut) /\ call'.new_page = call.new_page
          /\ m_root_page_id \in Ready' => m_root_page_id \in Ready
      BY <1>1, <2>2, <2>5, <2>6, <2>7 DEF Ordered
    <3> QED BY <3>1, ShapeStays
  <2>9. CallOrder(span)'
    <3>1. m_root_page_id' # NoPage
      BY <1>1, <2>5 DEF TreeInv, CallType
    <3>2. ~IsHanging(call.new_page)'
      BY <2>2 DEF IsHanging
    <3> QED BY <1>1, <2>2, <3>1, <3>2 DEF CallOrder, OnTheWay, ParentQueued, LeavesInOrder, IsHanging
  <2> QED BY <2>8, <2>9 DEF Ordered
<1> QED BY <1>2, <1>3

LEMMA RootVictimOrdered ==
    ASSUME EqualCapacities, TreeInv, TreeInv', NEW span, NEW height, Ordered(span, height),
           RootVictim
    PROVE  Ordered(span, height)'
<1>1. /\ call.step = "root_victim"
      /\ call' = [call EXCEPT !.step = "root_over", !.new_root = m_next_page]
      /\ m_next_page' = m_next_page + 1
      /\ UNCHANGED <<m_root_page_id, contents, m_frame_queue>>
  BY DEF RootVictim
<1>2. call'.step = "root_over" /\ call'.new_page = call.new_page /\ call'.new_root = m_next_page
  <2>1. m_next_page \in Nat
    BY DEF TreeInv, Basics
  <2> HIDE DEF Pages
  <2> QED BY <1>1, CallFields
<1>3. Ready = 0 .. m_next_page - 1 /\ m_next_page \in Nat
  BY <1>1, ReadyWhenReading DEF Reading, TreeInv, Basics
<1>4. Ready' = Ready
  <2>1. Ready' = {p \in 0 .. m_next_page : p # m_next_page}
    BY <1>1, <1>2, <1>3 DEF Ready, IsPending
  <2> QED BY <1>3, <2>1
<1>5. Linked = Ready /\ Linked' = Ready'
  BY <1>1, <1>2 DEF Linked, IsHanging
<1>6. Cut /\ Cut'
  BY <1>1, <1>2 DEF Cut
<1>7. Shape(span, height)'
  <2>1. /\ Shape(span, height) /\ UNCHANGED <<contents, m_root_page_id>>
        /\ Linked' = Linked /\ (Cut' <=> Cut) /\ call'.new_page = call.new_page
        /\ m_root_page_id \in Ready' => m_root_page_id \in Ready
    BY <1>1, <1>2, <1>4, <1>5, <1>6 DEF Ordered
  <2> QED BY <2>1, ShapeStays
<1>8. CallOrder(span)'
  <2>1. m_root_page_id' # NoPage
    BY <1>1 DEF TreeInv, CallType
  <2> QED BY <1>2, <2>1 DEF CallOrder, OnTheWay, ParentQueued, LeavesInOrder, IsHanging
<1> QED BY <1>7, <1>8 DEF Ordered
-----------------------------------------------------------------------------
(* Steps that change the tree.                                             *)

\* The keys of one leaf change, within its span.
LEMMA LeafChanges ==
    ASSUME NEW span, NEW height, Shape(span, height),
           NEW at \in Linked, contents[at].type = "leaf",
           contents'[at].type = "leaf", LeafFits(contents'[at], span[at]),
           \A p \in Linked : p # at => contents'[p] = contents[p],
           Linked' = Linked, m_root_page_id' = m_root_page_id, ~Cut, ~Cut',
           m_root_page_id \in Ready' => m_root_page_id \in Ready
    PROVE  Shape(span, height)'
<1>1. ASSUME NEW p \in Linked PROVE NodeOrder(span, height, p)'
  <2>1. NodeOrder(span, height, p)
    BY DEF Shape
  <2>2. CASE p = at
    <3>1. height[at] = 0
      BY <2>1, <2>2 DEF NodeOrder
    <3> QED BY <2>2, <3>1 DEF NodeOrder
  <2>3. CASE p # at
    <3>1. contents'[p] = contents[p]
      BY <2>3
    <3> QED BY <2>1, <3>1 DEF NodeOrder
  <2> QED BY <2>2, <2>3
<1>2. Apart(span, height)'
  BY DEF Shape, Apart
<1>3. RootOrder(span, height)'
  <2>1. RootOrder(span, height)
    BY DEF Shape
  <2> HIDE DEF Cut, Linked
  <2> QED BY <2>1 DEF RootOrder
<1> QED BY <1>1, <1>2, <1>3 DEF Shape

\* At the end of the queue is an inner node.
LEMMA QueueEnd ==
    ASSUME EqualCapacities, TreeInv, m_frame_queue # <<>>
    PROVE  /\ Last(m_frame_queue) \in Pages
           /\ Last(m_frame_queue) \in Linked
           /\ contents[Last(m_frame_queue)].type = "inner"
<1>1. m_frame_queue \in Seq(Pages)
  BY DEF TreeInv, Basics
<1>2. /\ Last(m_frame_queue) \in Pages /\ Len(m_frame_queue) \in DOMAIN m_frame_queue
      /\ Last(m_frame_queue) = m_frame_queue[Len(m_frame_queue)]
  BY <1>1, CountFront
<1>3. contents[Last(m_frame_queue)].type = "inner"
  BY <1>2 DEF TreeInv, PathFromRoot
<1>4. Last(m_frame_queue) \in Ready
  BY <1>2, <1>3, Facts
<1> QED BY <1>2, <1>3, <1>4 DEF Linked, IsHanging

LEMMA InsertInLeafOrdered ==
    ASSUME EqualCapacities, TreeInv, TreeInv', NEW span, NEW height, Ordered(span, height),
           NewKey, InsertInLeaf
    PROVE  Ordered(span, height)'
<1> DEFINE at == call.at
           n == contents[at]
           filled == trivial_insert(n, call.key, RecordOf[call.key])
<1>1. /\ call.step = "descend" /\ n.type = "leaf" /\ can_insert_trivially(n)
      /\ contents' = [contents EXCEPT ![at] = filled]
      /\ UNCHANGED <<m_root_page_id, m_frame_queue>>
      /\ \/ /\ call' = [call EXCEPT !.step = "split_leaf", !.new_page = m_next_page]
            /\ m_next_page' = m_next_page + 1
         \/ /\ call' = [call EXCEPT !.step = "climb"]
            /\ m_next_page' = m_next_page
  BY DEF InsertInLeaf
<1>2. /\ Ready = 0 .. m_next_page - 1 /\ Linked = Ready /\ ~Cut /\ m_next_page \in Nat
      /\ call.new_page = NoPage /\ m_root_page_id # NoPage /\ NoPage \notin Ready
  BY <1>1, Quiet, Facts DEF QuietPoint, TreeInv, Basics, CallType
<1>3. /\ at \in Linked /\ at \in Pages /\ call.key \in span[at] /\ call.key \in Keys
      /\ DOMAIN contents = Pages
      /\ \A i \in Slots(n) : n.keys[i] # call.key
  <2>1. at \in Linked /\ call.key \in span[at]
    BY <1>1 DEF Ordered, CallOrder, OnTheWay
  <2>2. at \in Pages /\ DOMAIN contents = Pages
    BY <1>2, <2>1, Facts DEF TreeInv, Basics
  <2> QED BY <1>1, <2>1, <2>2 DEF NewKey
<1>4. IsLeaf(n, capacity.leaf, Keys, Range(RecordOf)) /\ capacity.leaf \in Nat
  <2>1. n.max_size # 0
    <3>1. NodesAreNodes
      BY DEF TreeInv
    <3>2. BlankPage.current_size = 0 /\ BlankPage.max_size = 0
      BY DEF BlankPage
    <3>3. ~can_insert_trivially(BlankPage)
      BY <3>2 DEF can_insert_trivially
    <3>4. Leaf(at) => n.max_size = capacity.leaf
      BY DEF Leaf, IsLeaf
    <3>5. Inner(at) => n.type = "inner"
      BY DEF Inner, IsInner
    <3> QED BY <1>1, <1>3, <3>1, <3>3, <3>4, <3>5, Facts DEF NodesAreNodes
  <2> QED BY <1>1, <1>3, <2>1, Facts DEF Leaf
<1>5. LeafFits(n, span[at])
  BY <1>1, <1>3 DEF Ordered, Shape, NodeOrder
<1>6. RecordOf[call.key] \in Range(RecordOf)
  BY <1>3, TreeAssumption DEF Range
<1>7. contents'[at] = filled /\ \A p \in Pages : p # at => contents'[p] = contents[p]
  BY <1>1, <1>3
<1>8. Keys \subseteq Int
  BY TreeAssumption
<1> HIDE DEF n
<1>9. LeafFits(filled, span[at])
  BY <1>1, <1>3, <1>4, <1>5, <1>6, <1>8, InsertFits
<1>10. filled.type = "leaf"
  <2>1. IsLeaf(filled, capacity.leaf, Keys, Range(RecordOf))
    BY <1>1, <1>3, <1>4, <1>6, InsertKeepsLeaf
  <2> HIDE DEF filled
  <2> QED BY <2>1 DEF IsLeaf
<1> HIDE DEF filled
<1>11. /\ call'.at = at
       /\ \/ call'.step = "split_leaf" /\ call'.new_page = m_next_page
          \/ call'.step = "climb" /\ call'.new_page = NoPage
  BY <1>1, <1>2, CallFields
<1>12. Ready' = Ready
  <2>1. CASE call'.step = "split_leaf"
    <3>1. m_next_page' = m_next_page + 1 /\ call'.new_page = m_next_page
      <4>1. call' # [call EXCEPT !.step = "climb"]
        <5>1. [call EXCEPT !.step = "climb"].step = "climb"
          BY CallFields
        <5> QED BY <2>1, <5>1
      <4> QED BY <1>1, <1>11, <2>1, <4>1
    <3>2. Ready' = {p \in 0 .. m_next_page : p # m_next_page}
      BY <1>2, <2>1, <3>1 DEF Ready, IsPending
    <3> QED BY <1>2, <3>2
  <2>2. CASE call'.step = "climb"
    <3>1. m_next_page' = m_next_page
      <4>1. call' # [call EXCEPT !.step = "split_leaf", !.new_page = m_next_page]
        <5>1. [call EXCEPT !.step = "split_leaf", !.new_page = m_next_page].step = "split_leaf"
          BY CallFields
        <5> QED BY <2>2, <5>1
      <4> QED BY <1>1, <4>1
    <3>2. Ready' = 0 .. m_next_page' - 1
      BY <2>2, ReadyWhenReading DEF Reading
    <3> QED BY <1>2, <3>1, <3>2
  <2> QED BY <1>11, <2>1, <2>2
<1>13. Linked' = Linked /\ ~Cut' /\ (call'.step = "climb" => call'.new_page = NoPage)
  BY <1>2, <1>11, <1>12 DEF Linked, IsHanging, Cut
<1>14. Shape(span, height)'
  <2>1. /\ Shape(span, height) /\ at \in Linked /\ contents[at].type = "leaf"
        /\ contents'[at].type = "leaf" /\ LeafFits(contents'[at], span[at])
        /\ Linked' = Linked /\ m_root_page_id' = m_root_page_id /\ ~Cut /\ ~Cut'
        /\ m_root_page_id \in Ready' => m_root_page_id \in Ready
    BY <1>1, <1>2, <1>3, <1>7, <1>9, <1>10, <1>12, <1>13 DEF Ordered, n
  <2>2. \A p \in Linked : p # at => contents'[p] = contents[p]
    BY <1>2, <1>7, Facts
  <2> HIDE DEF at
  <2> QED BY <2>1, <2>2, LeafChanges
<1>15. CallOrder(span)'
  <2>1. ParentQueued'
    <3>1. m_frame_queue # <<>> => contents'[Last(m_frame_queue)] = contents[Last(m_frame_queue)]
      BY <1>1, <1>7, QueueEnd DEF n
    <3>2. m_frame_queue # <<>> =>
             \E i \in Slots(contents[Last(m_frame_queue)]) : contents[Last(m_frame_queue)].values[i] = at
      BY <1>1 DEF Ordered, CallOrder, ParentQueued
    <3>3. m_frame_queue' = m_frame_queue /\ call'.at = at
      BY <1>1, <1>11
    <3> HIDE DEF at
    <3> QED BY <3>1, <3>2, <3>3 DEF ParentQueued
  <2>2. LeavesInOrder(span)'
    BY <1>2, <1>11, <1>12 DEF LeavesInOrder, IsHanging
  <2>3. OnTheWay(span)'
    BY <1>11 DEF OnTheWay
  <2>4. m_root_page_id' # NoPage /\ call'.step \notin {"idle", "first", "find", "dump"}
    BY <1>1, <1>2, <1>11
  <2> QED BY <2>1, <2>2, <2>3, <2>4 DEF CallOrder
<1> QED BY <1>14, <1>15 DEF Ordered

LEMMA SplitLeafOrdered ==
    ASSUME EqualCapacities, TreeInv, NEW span, NEW height, Ordered(span, height),
           SplitLeaf
    PROVE  Ordered(span, height)'
<1> DEFINE at == call.at
           new == call.new_page
           cap == capacity.leaf
           n == contents[at]
           left == leaf_split_node(cap, n).left
           right == leaf_split_node(cap, n).right
<1>1. /\ call.step = "split_leaf"
      /\ contents' = [contents EXCEPT ![at] = left, ![new] = right]
      /\ UNCHANGED <<m_root_page_id, m_frame_queue>>
      /\ \/ /\ call' = [call EXCEPT !.step = "new_root", !.new_root = m_next_page]
            /\ m_next_page' = m_next_page + 1
         \/ /\ call' = [call EXCEPT !.step = "climb"]
            /\ m_next_page' = m_next_page
  BY DEF SplitLeaf
<1>2. /\ at \in Ready /\ at \in Pages /\ IsLeaf(n, cap, Keys, Range(RecordOf))
      /\ n.current_size = cap /\ cap \in Nat /\ cap >= 2
      /\ new \in 0 .. m_next_page - 1
  BY <1>1, Facts DEF TreeInv, Points, AtSplitLeaf, Inserted, Leaf
<1>3. /\ m_next_page \in 0 .. MaxPages /\ DOMAIN contents = Pages /\ m_root_page_id # NoPage
      /\ Ready = {p \in 0 .. m_next_page - 1 : p # new}
      /\ new \in Pages /\ new \notin Ready /\ new # at /\ contents[new].type = "leaf"
  <2>1. m_next_page \in 0 .. MaxPages /\ DOMAIN contents = Pages /\ m_root_page_id # NoPage
    BY <1>1 DEF TreeInv, Basics, CallType
  <2>2. Ready = {p \in 0 .. m_next_page - 1 : p # new}
    BY <1>1 DEF Ready, IsPending
  <2>3. new \in Pages
    BY <1>2, <2>1, TreeAssumption DEF Pages
  <2>4. contents[new] = BlankPage
    BY <2>2, <2>3 DEF TreeInv, FreshPagesAreBlank
  <2> QED BY <1>2, <2>1, <2>2, <2>3, <2>4 DEF BlankPage
<1>4. Linked = Ready /\ ~Cut
  BY <1>1 DEF Linked, IsHanging, Cut
<1>5. n.type = "leaf" /\ LeafFits(n, span[at])
  <2>1. n.type = "leaf"
    <3> HIDE DEF n, cap
    <3> QED BY <1>2 DEF IsLeaf
  <2> QED BY <1>2, <1>4, <2>1 DEF Ordered, Shape, NodeOrder
<1>6. Keys \subseteq Int
  BY TreeAssumption
<1> HIDE DEF n, cap
<1>7. /\ LeafFits(left, span[at]) /\ LeafFits(right, span[at])
      /\ \A i \in Slots(left), j \in Slots(right) : left.keys[i] < right.keys[j]
  BY <1>2, <1>5, <1>6, LeafSplitFits
<1>8. left.type = "leaf" /\ right.type = "leaf"
  <2>1. IsLeaf(left, cap, Keys, Range(RecordOf)) /\ IsLeaf(right, cap, Keys, Range(RecordOf))
    BY <1>2, LeafSplits
  <2> HIDE DEF left, right
  <2> QED BY <2>1 DEF IsLeaf
<1> HIDE DEF left, right
<1>9. /\ contents'[at] = left /\ contents'[new] = right
      /\ \A p \in Pages : p # at /\ p # new => contents'[p] = contents[p]
  BY <1>1, <1>2, <1>3
<1>10. /\ call'.at = at /\ call'.new_page = new
       /\ call'.step \in {"new_root", "climb"}
       /\ Ready' = 0 .. m_next_page - 1
  <2>1. m_next_page \in Nat
    BY <1>3
  <2>2. CASE /\ call' = [call EXCEPT !.step = "new_root", !.new_root = m_next_page]
             /\ m_next_page' = m_next_page + 1
    <3>1. call'.step = "new_root" /\ call'.new_root = m_next_page
          /\ call'.at = at /\ call'.new_page = new
      <4> HIDE DEF at, new
      <4> QED BY <2>2, CallFields DEF at, new
    <3>2. Ready' = {p \in 0 .. m_next_page : p # m_next_page}
      BY <2>1, <2>2, <3>1 DEF Ready, IsPending
    <3> QED BY <2>1, <3>1, <3>2
  <2>3. CASE call' = [call EXCEPT !.step = "climb"] /\ m_next_page' = m_next_page
    <3>1. call'.step = "climb" /\ call'.at = at /\ call'.new_page = new
      BY <2>3, CallFields
    <3> QED BY <2>3, <3>1, ReadyWhenReading DEF Reading
  <2> QED BY <1>1, <2>2, <2>3
<1>11. Linked' = Linked
  <2>1. \A p : IsHanging(p)' <=> p = new
    BY <1>8, <1>9, <1>10 DEF IsHanging
  <2> QED BY <1>3, <1>4, <1>10, <2>1 DEF Linked
<1>12. ~Cut'
  BY <1>8, <1>9, <1>10 DEF Cut
<1>13. m_root_page_id \in Ready
  BY <1>1, <1>3 DEF TreeInv, PathFromRoot
<1>14. Shape(span, height)'
  <2>1. /\ Shape(span, height) /\ at \in Linked /\ contents[at].type = "leaf"
        /\ contents'[at].type = "leaf" /\ LeafFits(contents'[at], span[at])
        /\ Linked' = Linked /\ m_root_page_id' = m_root_page_id /\ ~Cut /\ ~Cut'
        /\ m_root_page_id \in Ready' => m_root_page_id \in Ready
    BY <1>1, <1>2, <1>4, <1>5, <1>7, <1>8, <1>9, <1>11, <1>12, <1>13 DEF Ordered, n
  <2>2. \A p \in Linked : p # at => contents'[p] = contents[p]
    BY <1>3, <1>4, <1>9, Facts
  <2> HIDE DEF at
  <2> QED BY <2>1, <2>2, LeafChanges
<1>15. CallOrder(span)'
  <2>1. ParentQueued'
    <3>1. m_frame_queue # <<>> => contents'[Last(m_frame_queue)] = contents[Last(m_frame_queue)]
      BY <1>3, <1>5, <1>9, QueueEnd DEF n
    <3>2. m_frame_queue # <<>> =>
             \E i \in Slots(contents[Last(m_frame_queue)]) : contents[Last(m_frame_queue)].values[i] = at
      BY <1>1 DEF Ordered, CallOrder, ParentQueued
    <3>3. m_frame_queue' = m_frame_queue /\ call'.at = at
      BY <1>1, <1>10
    <3> HIDE DEF at
    <3> QED BY <3>1, <3>2, <3>3 DEF ParentQueued
  <2>2. LeavesInOrder(span)'
    BY <1>7, <1>9, <1>10 DEF LeavesInOrder
  <2>3. OnTheWay(span)' /\ m_root_page_id' # NoPage /\ call'.step \notin {"idle", "first", "find", "dump"}
    BY <1>1, <1>3, <1>10 DEF OnTheWay
  <2> QED BY <2>1, <2>2, <2>3 DEF CallOrder
<1> QED BY <1>14, <1>15 DEF Ordered

\* The parts of a leaf that was split, each on its side of the first key of the
\* right one.
LEMMA HalvesFit ==
    ASSUME NEW left, NEW right, NEW own, LeafFits(left, own), LeafFits(right, own),
           \A i \in Slots(left), j \in Slots(right) : left.keys[i] < right.keys[j],
           right.current_size \in Nat \ {0}, own \subseteq Int,
           NEW lower, \A x : x \in lower <=> x \in own /\ x < right.keys[0],
           NEW upper, \A x : x \in upper <=> x \in own /\ x >= right.keys[0]
    PROVE  LeafFits(left, lower) /\ LeafFits(right, upper)
<1>1. 0 \in Slots(right)
  BY DEF Slots
<1>2. \A i \in Slots(left) : left.keys[i] \in lower
  BY <1>1 DEF LeafFits
<1>3. ASSUME NEW i \in Slots(right) PROVE right.keys[i] \in upper
  <2>1. /\ \A j \in Slots(right) : right.keys[j] \in own /\ right.keys[j] \in Int
        /\ \A j, l \in Slots(right) : j < l => right.keys[j] < right.keys[l]
    BY DEF LeafFits, Sorted, Slots
  <2>2. i = 0 \/ 0 < i
    BY DEF Slots
  <2>3. right.keys[i] >= right.keys[0]
    BY <1>1, <2>1, <2>2
  <2> QED BY <2>1, <2>3
<1> QED BY <1>2, <1>3 DEF LeafFits

\* The first root with children: the two leaves stand for what is below the first
\* key of the second, and for the others.
LEMMA NewRootOverLeavesOrdered ==
    ASSUME EqualCapacities, TreeInv, TreeInv', NEW span \in Spans, NEW height \in Heights,
           Ordered(span, height), NewRootOverLeaves
    PROVE  \E span2 \in Spans, height2 \in Heights : Ordered(span2, height2)'
<1> DEFINE at == call.at
           new == call.new_page
           root == call.new_root
           cap == capacity.leaf
           left == contents[at]
           right == contents[new]
           k == right.keys[0]
           keys == [i \in {0, 1} |-> IF i = 0 THEN right.keys[0] ELSE NoKey]
           children == [i \in {0, 1} |-> IF i = 0 THEN m_root_page_id ELSE new]
           n == NewNode("inner", cap, 2, keys, children)
<1>1. /\ call.step = "new_root"
      /\ contents' = [contents EXCEPT ![root] = n]
      /\ m_root_page_id' = root
      /\ call' = Idle
      /\ UNCHANGED <<m_next_page, m_frame_queue>>
  BY DEF NewRootOverLeaves, FlushAll
<1>2. /\ at \in Ready /\ at \in Pages /\ at = m_root_page_id /\ left.type = "leaf"
      /\ m_frame_queue = <<>>
      /\ new \in Ready /\ new \in Pages /\ new # at
      /\ IsLeaf(right, cap, Keys, Range(RecordOf))
      /\ root \in 0 .. m_next_page - 1
  BY <1>1, Facts DEF TreeInv, Points, AtNewRoot, Inserted, NewLeaf, Leaf
<1>3. /\ m_next_page \in 0 .. MaxPages /\ DOMAIN contents = Pages /\ cap \in Nat /\ cap >= 2
      /\ Ready = {p \in 0 .. m_next_page - 1 : p # root}
      /\ root \in Pages /\ root \notin Ready /\ NoPage \notin Pages
  <2>1. m_next_page \in 0 .. MaxPages /\ DOMAIN contents = Pages
    BY DEF TreeInv, Basics
  <2>2. Ready = {p \in 0 .. m_next_page - 1 : p # root}
    BY <1>1 DEF Ready, IsPending
  <2>3. root \in Pages
    BY <1>2, <2>1, TreeAssumption DEF Pages
  <2> QED BY <2>1, <2>2, <2>3, Facts
<1>4. right.type = "leaf" /\ right.current_size \in Nat \ {0} /\ k \in Keys
  <2> HIDE DEF right, cap
  <2> QED BY <1>2, <1>3 DEF IsLeaf
<1>5. Linked = {p \in Ready : p # new}
  BY <1>1, <1>4 DEF Linked, IsHanging
<1>6. /\ QuietPoint' /\ call'.step = "idle" /\ m_frame_queue' = <<>>
  BY <1>1, <1>2 DEF QuietPoint, Idle
<1>7. Ready' = 0 .. m_next_page - 1 /\ Linked' = Ready' /\ ~Cut' /\ ~ (call'.new_page \in Ready')
  <2>1. Ready' = 0 .. m_next_page' - 1 /\ Linked' = Ready' /\ ~Cut' /\ ~ (call'.new_page \in Ready')
    BY <1>6, QuietNext
  <2> QED BY <1>1, <2>1
<1>8. /\ \A p \in Linked' : p \in Linked \/ p = new \/ p = root
      /\ at \in Linked /\ new \notin Linked /\ root \notin Linked /\ new # root /\ at # root
      /\ at \in Linked' /\ new \in Linked' /\ root \in Linked'
  BY <1>2, <1>3, <1>5, <1>7
<1>9. contents'[root] = n /\ \A p \in Pages : p # root => contents'[p] = contents[p]
  BY <1>1, <1>3
<1>10. ~Cut
  BY <1>1 DEF Cut
<1>11. /\ \A x \in Keys : x \in span[at]
       /\ \A p \in Linked : height[p] = 0 /\ contents[p].type = "leaf" /\ LeafFits(contents[p], span[p])
  <2>1. /\ \A q \in Linked : height[q] =< height[at]
        /\ \A x \in Keys : x \in span[at]
    BY <1>2, <1>10 DEF Ordered, Shape, RootOrder
  <2>2. height[at] = 0
    BY <1>2, <1>8 DEF Ordered, Shape, NodeOrder
  <2>3. ASSUME NEW p \in Linked
        PROVE  height[p] = 0 /\ contents[p].type = "leaf" /\ LeafFits(contents[p], span[p])
    <3>1. p \in Pages /\ height[p] \in Nat
      BY <1>5, Facts DEF Heights
    <3>2. height[p] = 0
      BY <2>1, <2>2, <3>1
    <3>3. NodeOrder(span, height, p)
      BY DEF Ordered, Shape
    <3>4. contents[p].type = "inner" => FALSE
      <4>1. SUFFICES ASSUME contents[p].type = "inner" PROVE FALSE
        OBVIOUS
      <4>2. IsInner(contents[p], cap, Keys, Ready)
        BY <3>1, <4>1, Facts DEF Inner
      <4>3. 0 \in Slots(contents[p])
        <5> DEFINE m == contents[p]
        <5> HIDE DEF m
        <5>1. IsInner(m, cap, Keys, Ready) => 0 \in Slots(m)
          BY <1>3 DEF IsInner, Slots
        <5> QED BY <4>2, <5>1 DEF m
      <4> DEFINE child == contents[p].values[0]
      <4>4. child \in Linked /\ height[child] + 1 = height[p]
        BY <3>3, <4>1, <4>3 DEF NodeOrder
      <4>5. height[child] \in Nat
        BY <1>5, <4>4, Facts DEF Heights
      <4> HIDE DEF child
      <4> QED BY <3>2, <4>4, <4>5
    <3> QED BY <3>1, <3>2, <3>3, <3>4, Facts DEF NodeOrder
  <2> QED BY <2>1, <2>3
<1>12. /\ LeafFits(right, span[at])
       /\ \A i \in Slots(left), j \in Slots(right) : left.keys[i] < right.keys[j]
  <2>1. new \in Ready /\ IsHanging(new)
    BY <1>1, <1>2, <1>4 DEF IsHanging
  <2> QED BY <2>1 DEF Ordered, CallOrder, LeavesInOrder
<1>13. span[at] = Keys /\ Keys \subseteq Int
  <2>1. span[at] \subseteq Keys
    BY <1>2 DEF Spans
  <2>2. Keys \subseteq span[at]
    BY <1>11
  <2>3. Keys \subseteq Int
    BY TreeAssumption
  <2> DEFINE own == span[at]
  <2> HIDE DEF own
  <2>4. own = Keys
    BY <2>1, <2>2 DEF own
  <2> QED BY <2>3, <2>4 DEF own
<1>14. n.type = "inner" /\ n.current_size = 2 /\ n.values[0] = at /\ n.values[1] = new
  BY <1>2, <1>3 DEF NewNode
<1> DEFINE lower == {x \in Keys : x < k}
           upper == {x \in Keys : x >= k}
<1>15. PICK span2 \in Spans :
          span2 = [p \in Pages |-> IF p = at THEN lower
                                   ELSE IF p = new THEN upper
                                   ELSE IF p = root THEN Keys ELSE span[p]]
  BY DEF Spans
<1>16. PICK height2 \in Heights :
          height2 = [p \in Pages |-> IF p = root THEN 1 ELSE 0]
  BY DEF Heights
<1>17. /\ span2[at] = lower /\ span2[new] = upper /\ span2[root] = Keys
       /\ \A p \in Linked : p # at => span2[p] = span[p]
       /\ height2[at] = 0 /\ height2[new] = 0 /\ height2[root] = 1
       /\ \A p \in Linked : height2[p] = 0
  BY <1>2, <1>3, <1>5, <1>8, <1>15, <1>16, Facts
<1>18. /\ LeafFits(left, lower) /\ LeafFits(right, upper)
  <2>1. LeafFits(left, Keys) /\ LeafFits(right, Keys)
    BY <1>8, <1>11, <1>12, <1>13
  <2>2. /\ \A x : x \in lower <=> x \in Keys /\ x < right.keys[0]
        /\ \A x : x \in upper <=> x \in Keys /\ x >= right.keys[0]
    OBVIOUS
  <2> HIDE DEF left, right, lower, upper
  <2> QED BY <1>4, <1>12, <1>13, <2>1, <2>2, HalvesFit
<1>19. InnerFits(n, Keys, span2, Keys)
  <2>1. keys[0] = k /\ children[0] = at /\ children[1] = new
    BY <1>2
  <2>2. /\ \A x \in Keys : x \in span2[at] <=> x < k
        /\ \A x \in Keys : x \in span2[new] <=> x >= k
    BY <1>17
  <2> HIDE DEF keys, children, k, at, new, cap
  <2> QED BY <1>3, <1>4, <1>13, <2>1, <2>2, NewRootFits
<1> HIDE DEF n, keys, children
<1>20. Shape(span2, height2)'
  <2>1. ASSUME NEW p \in Linked' PROVE NodeOrder(span2, height2, p)'
    <3>1. CASE p = root
      <4>1. contents'[p] = n /\ Slots(n) = 0 .. 1
        BY <1>9, <1>14, <3>1 DEF Slots
      <4>2. ASSUME NEW i \in 0 .. 1
            PROVE  n.values[i] \in Linked' /\ height2[n.values[i]] + 1 = height2[p]
        <5>1. i = 0 \/ i = 1
          OBVIOUS
        <5> QED BY <1>8, <1>14, <1>17, <3>1, <5>1
      <4> QED BY <1>14, <1>17, <1>19, <3>1, <4>1, <4>2 DEF NodeOrder
    <3>2. CASE p = new
      <4>1. contents'[p] = right
        BY <1>2, <1>8, <1>9, <3>2
      <4> QED BY <1>4, <1>17, <1>18, <3>2, <4>1 DEF NodeOrder
    <3>3. CASE p = at
      <4>1. contents'[p] = left
        BY <1>2, <1>8, <1>9, <3>3
      <4> QED BY <1>2, <1>17, <1>18, <3>3, <4>1 DEF NodeOrder
    <3>4. CASE p \in Linked /\ p # at
      <4>1. contents'[p] = contents[p]
        BY <1>5, <1>8, <1>9, <3>4, Facts
      <4>2. height2[p] = 0 /\ contents[p].type = "leaf" /\ LeafFits(contents[p], span2[p])
        BY <1>11, <1>17, <3>4
      <4> QED BY <4>1, <4>2 DEF NodeOrder
    <3> QED BY <1>8, <3>1, <3>2, <3>3, <3>4
  <2>2. Apart(span2, height2)'
    <3>1. ASSUME NEW p \in Linked', NEW q \in Linked', NEW x \in Keys,
                 height2[p] = height2[q], x \in span2[p], x \in span2[q]
          PROVE  p = q
      <4>1. ASSUME NEW a \in Linked, NEW b \in Linked, x \in span[a], x \in span[b]
            PROVE  a = b
        <5>1. height[a] = height[b]
          BY <1>11
        <5> QED BY <4>1, <5>1 DEF Ordered, Shape, Apart
      <4>2. p = root <=> q = root
        BY <1>8, <1>17, <3>1
      <4>3. ASSUME NEW a \in Linked, x \in span2[a] PROVE x \in span[a] /\ (a = at => x < k)
        BY <1>11, <1>17, <4>3
      <4>4. ASSUME NEW a \in Linked, x \in span2[a], x \in span2[new] PROVE FALSE
        <5>1. a = at /\ x < k
          BY <1>8, <1>11, <4>1, <4>3, <4>4
        <5>2. x >= k /\ x \in Int /\ k \in Int
          BY <1>4, <1>13, <1>17, <4>4
        <5> QED BY <5>1, <5>2
      <4> QED BY <1>8, <3>1, <4>1, <4>2, <4>3, <4>4
    <3> QED BY <3>1 DEF Apart
  <2>3. RootOrder(span2, height2)'
    <3>1. \A q \in Linked' : height2[q] =< 1
      BY <1>8, <1>17
    <3> QED BY <1>1, <1>7, <1>17, <3>1 DEF RootOrder
  <2> QED BY <2>1, <2>2, <2>3 DEF Shape
<1>21. CallOrder(span2)'
  <2>1. m_root_page_id' # NoPage
    BY <1>1, <1>3
  <2> QED BY <1>6, <1>7, <2>1 DEF CallOrder, OnTheWay, ParentQueued, LeavesInOrder
<1> QED BY <1>20, <1>21 DEF Ordered

\* A leaf that was split off is entered in the node above: it takes what its left
\* part stood for from its first key on.  No other node has the left part as a
\* child, because the keys in it go down one way.
LEMMA ClimbInsertOrdered ==
    ASSUME EqualCapacities, TreeInv, NEW span \in Spans, NEW height \in Heights,
           Ordered(span, height), failures = 0, ClimbInsert
    PROVE  \E span2 \in Spans, height2 \in Heights : Ordered(span2, height2)'
<1> DEFINE above == Last(m_frame_queue)
           at == call.at
           new == call.new_page
           cap == capacity.leaf
           left == contents[at]
           right == contents[new]
           k == right.keys[0]
           n == contents[above]
           filled == trivial_insert_leaf_node(n, new, right)
<1>1. /\ call.step = "climb" /\ m_frame_queue # <<>> /\ new # NoPage
      /\ right.type = "leaf" /\ can_insert_trivially(n)
      /\ contents' = [contents EXCEPT ![above] = filled]
      /\ m_root_page_id' = m_root_page_id
      /\ \/ /\ call' = [call EXCEPT !.step = "split_inner", !.previous = new,
                                    !.new_page = m_next_page]
            /\ m_next_page' = m_next_page + 1
         \/ /\ call' = [call EXCEPT !.new_page = NoPage]
            /\ m_next_page' = m_next_page
  BY DEF ClimbInsert
<1>2. /\ at \in Ready /\ at \in Pages /\ left.type = "leaf"
      /\ new \in Ready /\ new \in Pages /\ new # at
      /\ IsLeaf(right, cap, Keys, Range(RecordOf))
  BY <1>1, Facts DEF TreeInv, Points, AtClimb, Inserted, NewLeaf, NewInner, Leaf
<1>3. /\ m_next_page \in 0 .. MaxPages /\ DOMAIN contents = Pages /\ cap \in Nat /\ cap >= 2
      /\ Ready = 0 .. m_next_page - 1 /\ NoPage \notin Pages
      /\ m_root_page_id # NoPage /\ m_root_page_id \in Pages /\ m_root_page_id \in Ready
  <2>1. m_next_page \in 0 .. MaxPages /\ DOMAIN contents = Pages
    BY DEF TreeInv, Basics
  <2>2. Ready = 0 .. m_next_page - 1
    BY <1>1, ReadyWhenReading DEF Reading
  <2>3. m_root_page_id # NoPage /\ m_root_page_id \in Ready
    BY <1>1 DEF TreeInv, CallType, PathFromRoot
  <2> QED BY <2>1, <2>2, <2>3, Facts
<1>4. right.current_size \in Nat \ {0} /\ k \in Keys
  <2> HIDE DEF right, cap
  <2> QED BY <1>2, <1>3 DEF IsLeaf
<1>5. /\ Linked = {p \in Ready : p # new}
      /\ \A p \in Linked : p \in Pages /\ p # new
      /\ at \in Linked
  <2>1. Linked = {p \in Ready : p # new}
    BY <1>1 DEF Linked, IsHanging
  <2> QED BY <1>2, <2>1, Facts
<1>6. /\ above \in Pages /\ above \in Linked /\ n.type = "inner"
      /\ IsInner(n, cap, Keys, Ready)
      /\ above # at /\ above # new /\ m_root_page_id # at /\ m_root_page_id # new
  <2>1. above \in Pages /\ above \in Linked /\ n.type = "inner"
    BY <1>1, QueueEnd
  <2>2. IsInner(n, cap, Keys, Ready)
    BY <2>1, Facts DEF Inner
  <2>3. contents[m_root_page_id].type = "inner"
    <3>1. m_frame_queue \in Seq(Pages)
      BY DEF TreeInv, Basics
    <3>2. 1 \in DOMAIN m_frame_queue
      BY <1>1, <3>1
    <3> QED BY <1>1, <3>2 DEF TreeInv, PathFromRoot
  <2> QED BY <1>1, <1>2, <2>1, <2>2, <2>3
<1>7. PICK i \in Slots(n) : n.values[i] = at
  BY <1>1 DEF Ordered, CallOrder, ParentQueued
<1>8. /\ LeafFits(right, span[at])
      /\ \A a \in Slots(left), b \in Slots(right) : left.keys[a] < right.keys[b]
  <2>1. IsHanging(new)
    BY <1>1 DEF IsHanging
  <2> QED BY <1>2, <2>1 DEF Ordered, CallOrder, LeavesInOrder
<1>9. \A p \in Linked : NodeOrder(span, height, p)
  BY DEF Ordered, Shape
<1>10. LeafFits(left, span[at]) /\ height[at] = 0
  BY <1>2, <1>5, <1>9 DEF NodeOrder
<1>11. /\ InnerFits(n, Keys, span, span[above])
       /\ \A j \in Slots(n) : n.values[j] \in Linked /\ height[n.values[j]] + 1 = height[above]
       /\ height[above] = 1
  BY <1>6, <1>7, <1>9, <1>10 DEF NodeOrder
<1>12. Keys \subseteq Int /\ span[at] \subseteq Keys
  BY <1>2, TreeAssumption DEF Spans
<1>13. k \in span[at]
  BY <1>4, <1>8 DEF LeafFits, Slots
<1>14. PICK y \in Keys : y \in span[at] /\ y < k
  <2>1. left.current_size \in Nat \ {0}
    <3>1. IsLeaf(left, cap, Keys, Range(RecordOf))
      BY <1>2, <1>3, Facts DEF Leaf
    <3> HIDE DEF left, cap
    <3> QED BY <1>3, <3>1 DEF IsLeaf
  <2>2. 0 \in Slots(left) /\ 0 \in Slots(right)
    BY <1>4, <2>1 DEF Slots
  <2> QED BY <1>8, <1>10, <1>12, <2>2 DEF LeafFits
<1>15. ASSUME NEW q \in Linked, contents[q].type = "inner", NEW j \in Slots(contents[q]),
              contents[q].values[j] = at
       PROVE  q = above /\ j = i
  <2>1. /\ InnerFits(contents[q], Keys, span, span[q])
        /\ height[at] + 1 = height[q]
    BY <1>9, <1>15 DEF NodeOrder
  <2>2. k \in span[q] /\ Belongs(contents[q], j, k)
    BY <1>4, <1>13, <1>15, <2>1 DEF InnerFits
  <2>3. k \in span[above] /\ Belongs(n, i, k)
    BY <1>4, <1>7, <1>11, <1>13 DEF InnerFits
  <2>4. height[q] = height[above]
    BY <1>10, <1>11, <2>1
  <2>5. q = above
    BY <1>4, <1>6, <2>2, <2>3, <2>4 DEF Ordered, Shape, Apart
  <2>6. j \in Slots(n) /\ Belongs(n, j, k) /\ Sorted(n.keys, n.current_size - 1) /\ k \in Int
    BY <1>4, <1>11, <1>12, <1>15, <2>2, <2>5 DEF InnerFits
  <2>7. n.current_size \in Nat
    <3> HIDE DEF n, cap
    <3> QED BY <1>3, <1>6 DEF IsInner
  <2> HIDE DEF n, k
  <2>8. j = i
    BY <2>3, <2>6, <2>7, OneSlot
  <2> QED BY <2>5, <2>8
<1> DEFINE lower == {x \in span[at] : x < k}
           upper == {x \in span[at] : x >= k}
<1>16. PICK span2 \in Spans :
          span2 = [p \in Pages |-> IF p = at THEN lower ELSE IF p = new THEN upper ELSE span[p]]
  BY <1>12 DEF Spans
<1>17. PICK height2 \in Heights :
          height2 = [p \in Pages |-> IF p = new THEN 0 ELSE height[p]]
  BY DEF Heights
<1>18. /\ span2[at] = lower /\ span2[new] = upper
       /\ \A p \in Pages : p # at /\ p # new => span2[p] = span[p]
       /\ height2[new] = 0
       /\ \A p \in Pages : p # new => height2[p] = height[p]
  BY <1>2, <1>16, <1>17
<1>19. /\ call'.at = at
       /\ \/ call'.step = "split_inner" /\ call'.new_page = m_next_page
          \/ call'.step = "climb" /\ call'.new_page = NoPage
       /\ Ready' = Ready
  <2>1. m_next_page \in Nat
    BY <1>3
  <2>2. CASE /\ call' = [call EXCEPT !.step = "split_inner", !.previous = new,
                                     !.new_page = m_next_page]
             /\ m_next_page' = m_next_page + 1
    <3>1. call' = [step |-> "split_inner", key |-> call.key, at |-> call.at,
                   new_page |-> m_next_page, previous |-> new,
                   new_root |-> call.new_root, page_ids |-> call.page_ids]
      BY <2>2, CallFields
    <3>2. call'.step = "split_inner" /\ call'.new_page = m_next_page /\ call'.at = at
      BY <3>1
    <3>3. Ready' = {p \in 0 .. m_next_page : p # m_next_page}
      BY <2>1, <2>2, <3>2 DEF Ready, IsPending
    <3> QED BY <1>3, <2>1, <3>2, <3>3
  <2>3. CASE call' = [call EXCEPT !.new_page = NoPage] /\ m_next_page' = m_next_page
    <3>1. call'.step = "climb" /\ call'.new_page = NoPage /\ call'.at = at
      BY <1>1, <2>3, CallFields
    <3> QED BY <1>3, <2>3, <3>1, ReadyWhenReading DEF Reading
  <2> QED BY <1>1, <2>2, <2>3
<1>20. /\ Linked' = Ready /\ ~Cut'
       /\ \A p \in Linked' : p \in Linked \/ p = new
       /\ new \in Linked' /\ Linked \subseteq Linked'
  <2>1. ~Cut'
    BY <1>19 DEF Cut
  <2>2. NoPage \notin Ready
    BY <1>3 DEF NoPage
  <2>3. Linked' = Ready
    <3>1. ASSUME NEW p \in Ready PROVE ~IsHanging(p)'
      BY <1>19, <2>2, <3>1 DEF IsHanging
    <3> QED BY <1>19, <3>1 DEF Linked
  <2> QED BY <1>2, <1>5, <2>1, <2>3
<1>21. contents'[above] = filled /\ \A p \in Pages : p # above => contents'[p] = contents[p]
  BY <1>1, <1>3, <1>6
<1>22. InnerFits(filled, Keys, span2, span[above])
  <2>1. /\ k \in span[n.values[i]] /\ y \in span[n.values[i]]
        /\ \A x \in Keys : x \in span2[n.values[i]] <=> x \in span[n.values[i]] /\ x < k
        /\ \A x \in Keys : x \in span2[new] <=> x \in span[n.values[i]] /\ x >= k
    BY <1>7, <1>13, <1>14, <1>18
  <2>2. ASSUME NEW j \in Slots(n), j # i PROVE span2[n.values[j]] = span[n.values[j]]
    <3>1. n.values[j] \in Linked /\ n.values[j] # at
      BY <1>6, <1>11, <1>15, <2>2
    <3> HIDE DEF n, at
    <3> QED BY <1>5, <1>18, <3>1
  <2>3. can_insert_trivially(n) /\ new \in Ready /\ right.keys[0] \in Keys
        /\ IsInner(n, cap, Keys, Ready) /\ InnerFits(n, Keys, span, span[above])
        /\ i \in Slots(n) /\ y < right.keys[0] /\ cap \in Nat /\ Keys \subseteq Int
    BY <1>1, <1>2, <1>3, <1>4, <1>6, <1>7, <1>11, <1>12, <1>14
  <2> DEFINE P == Ready
             own == span[above]
  <2> HIDE DEF n, cap, new, right, P, own
  <2> QED BY <2>1, <2>2, <2>3, EnteredFits DEF P, own
<1>23. /\ filled.type = "inner"
       /\ \A j \in Slots(filled) :
             filled.values[j] \in Linked' /\ height2[filled.values[j]] + 1 = height2[above]
  <2> DEFINE P == {p \in Linked' : height2[p] + 1 = height2[above]}
  <2>1. new \in P
    BY <1>6, <1>11, <1>18, <1>20
  <2>2. ASSUME NEW j \in Slots(n) PROVE n.values[j] \in P
    <3>1. n.values[j] \in Linked /\ height[n.values[j]] + 1 = height[above]
      BY <1>11
    <3> DEFINE child == n.values[j]
    <3>2. height2[child] = height[child] /\ height2[above] = height[above] /\ child \in Linked'
      BY <1>5, <1>6, <1>18, <1>20, <3>1
    <3> HIDE DEF child
    <3>3. child \in P
      BY <3>1, <3>2 DEF child
    <3> QED BY <3>3 DEF child
  <2> HIDE DEF P
  <2>3. IsInner(n, cap, Keys, P)
    <3> HIDE DEF n, cap
    <3>1. n.current_size \in 2 .. cap
      BY <1>6 DEF IsInner
    <3>2. \A j \in 0 .. cap - 1 : j < n.current_size => n.values[j] \in P
      BY <1>3, <2>2, <3>1 DEF Slots
    <3>3. n.values \in [0 .. cap - 1 -> P \cup {NoKey}]
      BY <1>6, <3>2 DEF IsInner
    <3> QED BY <1>6, <3>2, <3>3 DEF IsInner
  <2>4. can_insert_trivially(n) /\ right.keys[0] \in Keys
    BY <1>1, <1>4
  <2>5. IsInner(filled, cap, Keys, P)
    <3> HIDE DEF n, cap, new, right
    <3> QED BY <1>3, <2>1, <2>3, <2>4, InsertKeepsInner
  <2> HIDE DEF filled
  <2>6. filled.type = "inner" /\ \A j \in Slots(filled) : filled.values[j] \in P
    <3> HIDE DEF cap
    <3> QED BY <1>3, <2>5 DEF IsInner, Slots
  <2> QED BY <2>6 DEF P
<1>24. LeafFits(left, lower) /\ LeafFits(right, upper)
  <2>1. /\ LeafFits(left, span[at]) /\ LeafFits(right, span[at]) /\ span[at] \subseteq Int
        /\ \A x : x \in lower <=> x \in span[at] /\ x < right.keys[0]
        /\ \A x : x \in upper <=> x \in span[at] /\ x >= right.keys[0]
    BY <1>8, <1>10, <1>12
  <2> DEFINE own == span[at]
  <2> HIDE DEF left, right, lower, upper, own
  <2> QED BY <1>4, <1>8, <2>1, HalvesFit DEF own
<1> HIDE DEF n, filled
<1>25. Shape(span2, height2)'
  <2>1. ASSUME NEW p \in Linked' PROVE NodeOrder(span2, height2, p)'
    <3>1. CASE p = above
      <4>1. contents'[p] = filled /\ span2[p] = span[above]
        BY <1>6, <1>18, <1>21, <3>1
      <4> QED BY <1>22, <1>23, <3>1, <4>1 DEF NodeOrder
    <3>2. CASE p = new
      <4>1. contents'[p] = right
        BY <1>2, <1>6, <1>21, <3>2
      <4> QED BY <1>1, <1>18, <1>24, <3>2, <4>1 DEF NodeOrder
    <3>3. CASE p = at
      <4>1. contents'[p] = left /\ height2[at] = 0
        BY <1>2, <1>6, <1>10, <1>18, <1>21, <3>3
      <4> QED BY <1>2, <1>18, <1>24, <3>3, <4>1 DEF NodeOrder
    <3>4. CASE p \in Linked /\ p # at /\ p # above
      <4> DEFINE m == contents[p]
      <4>1. /\ contents'[p] = m /\ span2[p] = span[p] /\ height2[p] = height[p] /\ p \in Pages
            /\ NodeOrder(span, height, p)
        BY <1>5, <1>9, <1>18, <1>21, <3>4
      <4>2. CASE m.type = "leaf"
        BY <4>1, <4>2 DEF NodeOrder
      <4>3. CASE m.type = "inner"
        <5>1. /\ InnerFits(m, Keys, span, span[p])
              /\ \A j \in Slots(m) : m.values[j] \in Linked /\ height[m.values[j]] + 1 = height[p]
          BY <4>1, <4>3 DEF NodeOrder
        <5>2. ASSUME NEW j \in Slots(m)
              PROVE  /\ span2[m.values[j]] = span[m.values[j]]
                     /\ height2[m.values[j]] = height[m.values[j]]
                     /\ m.values[j] \in Linked'
          <6>1. m.values[j] \in Linked /\ m.values[j] # at
            BY <1>15, <3>4, <4>3, <5>1
          <6> HIDE DEF m, at
          <6> QED BY <1>5, <1>18, <1>20, <6>1
        <5>3. m.current_size \in Nat
          <6>1. IsInner(m, cap, Keys, Ready)
            BY <4>1, <4>3, Facts DEF Inner
          <6> HIDE DEF m, cap
          <6> QED BY <1>3, <6>1 DEF IsInner
        <5>4. InnerFits(m, Keys, span2, span2[p])
          <6> DEFINE own == span[p]
          <6>1. \A j \in Slots(m) : \A x \in Keys : x \in span2[m.values[j]] <=> x \in span[m.values[j]]
            BY <5>2
          <6> HIDE DEF m, own
          <6>2. InnerFits(m, Keys, span2, own)
            BY <5>1, <5>3, <6>1, FitsAlike DEF own
          <6> QED BY <4>1, <6>2 DEF own
        <5> QED BY <4>1, <4>3, <5>1, <5>2, <5>4 DEF NodeOrder
      <4> QED BY <4>1, <4>2, <4>3, Facts
    <3> QED BY <1>20, <3>1, <3>2, <3>3, <3>4
  <2>2. Apart(span2, height2)'
    <3>1. ASSUME NEW p \in Linked', NEW q \in Linked', NEW x \in Keys,
                 height2[p] = height2[q], x \in span2[p], x \in span2[q]
          PROVE  p = q
      <4>1. ASSUME NEW a \in Linked, x \in span2[a]
            PROVE  x \in span[a] /\ (a = at => x < k) /\ height2[a] = height[a]
        BY <1>5, <1>18, <4>1
      <4>2. ASSUME NEW a \in Linked, NEW b \in Linked, x \in span2[a], x \in span2[b],
                   height2[a] = height2[b]
            PROVE  a = b
        BY <4>1, <4>2 DEF Ordered, Shape, Apart
      <4>3. ASSUME NEW a \in Linked, x \in span2[a], x \in span2[new],
                   height2[a] = height2[new]
            PROVE  FALSE
        <5>1. x \in span[at] /\ x >= k
          BY <1>18, <4>3
        <5>2. height[a] = height[at] /\ x \in span[a]
          BY <1>10, <1>18, <4>1, <4>3
        <5>3. a = at
          BY <1>5, <5>1, <5>2 DEF Ordered, Shape, Apart
        <5>4. x < k /\ x \in Int /\ k \in Int
          BY <1>4, <1>12, <4>1, <4>3, <5>3
        <5> QED BY <5>1, <5>4
      <4> QED BY <1>20, <3>1, <4>2, <4>3
    <3> QED BY <3>1 DEF Apart
  <2>3. RootOrder(span2, height2)'
    <3>1. ~Cut
      BY <1>1, <1>2 DEF Cut
    <3>2. /\ \A q \in Linked : height[q] =< height[m_root_page_id]
          /\ \A x \in Keys : x \in span[m_root_page_id]
      BY <1>3, <3>1 DEF Ordered, Shape, RootOrder
    <3>3. span2[m_root_page_id] = span[m_root_page_id]
          /\ height2[m_root_page_id] = height[m_root_page_id]
          /\ height[m_root_page_id] \in Nat
      BY <1>3, <1>6, <1>18 DEF Heights
    <3>4. \A q \in Linked' : height2[q] =< height2[m_root_page_id]
      BY <1>5, <1>18, <1>20, <3>2, <3>3
    <3> QED BY <1>1, <1>20, <3>2, <3>3, <3>4 DEF RootOrder
  <2> QED BY <2>1, <2>2, <2>3 DEF Shape
<1>26. CallOrder(span2)'
  <2>1. call'.step \notin {"idle", "first", "find", "dump", "descend"} /\ m_root_page_id' # NoPage
    BY <1>1, <1>3, <1>19
  <2>2. ParentQueued'
    BY <1>19 DEF ParentQueued
  <2>3. LeavesInOrder(span2)'
    <3>1. NoPage \notin Ready
      BY <1>3 DEF NoPage
    <3> QED BY <1>19, <3>1 DEF LeavesInOrder, IsHanging
  <2> QED BY <2>1, <2>2, <2>3 DEF CallOrder, OnTheWay
<1> QED BY <1>25, <1>26 DEF Ordered

\* The root is split: its left part stands for the keys below its last one, the
\* node split off for the others.
LEMMA SplitInnerOrdered ==
    ASSUME EqualCapacities, TreeInv, NEW span \in Spans, NEW height \in Heights,
           Ordered(span, height), Front(m_frame_queue) = <<>>, SplitInner
    PROVE  \E span2 \in Spans, height2 \in Heights : Ordered(span2, height2)'
<1> DEFINE root == m_root_page_id
           new == call.new_page
           cap == capacity.leaf
           n == contents[root]
           left == inner_split_node(cap, n).left
           right == inner_split_node(cap, n).right
           separator == left.keys[left.current_size - 1]
<1>1. /\ call.step = "split_inner" /\ m_frame_queue # <<>>
      /\ Last(m_frame_queue) = root /\ root # NoPage
      /\ m_frame_queue' = <<>> /\ m_root_page_id' = root /\ m_next_page' = m_next_page
      /\ call' = [call EXCEPT !.step = "climb", !.previous = NoPage]
  <2>1. call.step = "split_inner" /\ m_frame_queue # <<>>
    BY DEF SplitInner, TreeInv, Points, AtSplitInner
  <2>2. Last(m_frame_queue) = root /\ root # NoPage
    BY <2>1, QueueTop
  <2> QED BY <2>1, <2>2 DEF SplitInner, PopQueue, tree
<1>2. contents' = [contents EXCEPT ![root] = left, ![new] = right]
  BY <1>1, Facts DEF SplitInner
<1>3. /\ root \in Ready /\ root \in Pages /\ n.type = "inner"
      /\ IsInner(n, cap, Keys, Ready) /\ n.current_size = cap
      /\ new \in 0 .. m_next_page - 1 /\ cap \in Nat /\ cap >= 5
  BY <1>1, QueueTop, Facts DEF TreeInv, Points, AtSplitInner, Inner
<1>4. /\ m_next_page \in 0 .. MaxPages /\ DOMAIN contents = Pages
      /\ Ready = {p \in 0 .. m_next_page - 1 : p # new}
      /\ new \in Pages /\ new \notin Ready /\ Ready \subseteq Pages /\ new # NoPage
  <2>1. m_next_page \in 0 .. MaxPages /\ DOMAIN contents = Pages
    BY DEF TreeInv, Basics
  <2>2. Ready = {p \in 0 .. m_next_page - 1 : p # new}
    BY <1>1 DEF Ready, IsPending
  <2>3. new \in Pages
    BY <1>3, <2>1, TreeAssumption DEF Pages
  <2> QED BY <2>1, <2>2, <2>3, Facts
<1>5. Linked = Ready /\ ~Cut
  BY <1>1 DEF Linked, IsHanging, Cut
<1>6. call'.step = "climb" /\ call'.new_page = new /\ Ready' = Ready \cup {new}
  <2>1. call' = [step |-> "climb", key |-> call.key, at |-> call.at,
                 new_page |-> call.new_page, previous |-> NoPage,
                 new_root |-> call.new_root, page_ids |-> call.page_ids]
    BY <1>1, CallFields
  <2>2. call'.step = "climb" /\ call'.new_page = new
    BY <2>1
  <2>3. Ready' = 0 .. m_next_page - 1
    BY <1>1, <2>2, ReadyWhenReading DEF Reading
  <2> QED BY <1>3, <1>4, <2>2, <2>3
<1>7. \A p \in Linked : NodeOrder(span, height, p)
  BY DEF Ordered, Shape
<1>8. /\ InnerFits(n, Keys, span, span[root])
      /\ \A i \in Slots(n) : n.values[i] \in Linked /\ height[n.values[i]] + 1 = height[root]
  BY <1>3, <1>5, <1>7 DEF NodeOrder
<1>9. /\ \A q \in Linked : height[q] =< height[root]
      /\ \A x \in Keys : x \in span[root]
      /\ span[root] \subseteq Keys
      /\ \A q \in Linked : height[q] \in Nat
  BY <1>3, <1>4, <1>5 DEF Ordered, Shape, RootOrder, Spans, Heights
<1>10. Keys \subseteq Int
  BY TreeAssumption
<1> DEFINE P == {p \in Linked : height[p] + 1 = height[root]}
<1>11. /\ IsInner(left, cap, Keys, P) /\ IsInner(right, cap, Keys, P)
       /\ separator \in Keys
  <2>1. ASSUME NEW i \in Slots(n) PROVE n.values[i] \in P
    BY <1>8
  <2> HIDE DEF n, P, cap
  <2>2. IsInner(n, cap, Keys, P)
    <3>1. n.current_size \in 2 .. cap
      BY <1>3 DEF IsInner
    <3>2. \A j \in 0 .. cap - 1 : j < n.current_size => n.values[j] \in P
      BY <1>3, <2>1, <3>1 DEF Slots
    <3>3. n.values \in [0 .. cap - 1 -> P \cup {NoKey}]
      BY <1>3, <3>2 DEF IsInner
    <3> QED BY <1>3, <3>2, <3>3 DEF IsInner
  <2> QED BY <1>3, <2>2, InnerSplits
<1> DEFINE lower == {x \in Keys : x < separator}
           upper == {x \in Keys : x >= separator}
<1>12. InnerFits(left, Keys, span, lower) /\ InnerFits(right, Keys, span, upper)
  <2> DEFINE own == span[root]
  <2>1. /\ own \subseteq Keys /\ InnerFits(n, Keys, span, own)
        /\ \A x \in Keys : x \in lower <=> x \in own /\ x < separator
        /\ \A x \in Keys : x \in upper <=> x \in own /\ x >= separator
    BY <1>8, <1>9
  <2>2. separator = inner_split_node(cap, n).left.keys[inner_split_node(cap, n).left.current_size - 1]
    OBVIOUS
  <2> HIDE DEF own, lower, upper, separator, left, right, n, cap
  <2> QED BY <1>3, <1>10, <2>1, <2>2, InnerSplitFits DEF left, right
<1>13. PICK span2 \in Spans :
          span2 = [p \in Pages |-> IF p = root THEN lower ELSE IF p = new THEN upper ELSE span[p]]
  BY DEF Spans
<1>14. PICK height2 \in Heights :
          height2 = [p \in Pages |-> IF p = new THEN height[root] ELSE height[p]]
  BY <1>3 DEF Heights
<1>15. /\ root # new /\ span2[root] = lower /\ span2[new] = upper
       /\ \A p \in Linked : /\ p \in Pages /\ p # new /\ height2[p] = height[p]
                            /\ p # root => span2[p] = span[p]
       /\ height2[new] = height[root] /\ height2[root] = height[root]
  BY <1>3, <1>4, <1>5, <1>13, <1>14
<1>16. /\ contents'[root] = left /\ contents'[new] = right
       /\ \A p \in Pages : p # root /\ p # new => contents'[p] = contents[p]
  BY <1>2, <1>3, <1>4, <1>15
<1>17. left.type = "inner" /\ right.type = "inner"
  <2> HIDE DEF left, right
  <2> QED BY <1>11 DEF IsInner
<1>18. Linked' = Linked \cup {new} /\ Cut'
  <2>1. contents'[new].type = "inner"
    BY <1>16, <1>17
  <2>2. \A p : ~IsHanging(p)'
    BY <1>6, <2>1 DEF IsHanging
  <2> QED BY <1>4, <1>5, <1>6, <2>1, <2>2 DEF Linked, Cut
<1>19. ASSUME NEW p \in P
       PROVE  /\ p \in Linked /\ p # root /\ span2[p] = span[p]
              /\ p \in Linked' /\ height2[p] + 1 = height[root]
  <2>1. p \in Linked /\ height[p] + 1 = height[root]
    OBVIOUS
  <2>2. p # root
    BY <1>9, <2>1
  <2> QED BY <1>15, <1>18, <2>1, <2>2
<1>20. ASSUME NEW m, IsInner(m, cap, Keys, P), NEW own, InnerFits(m, Keys, span, own)
       PROVE  /\ InnerFits(m, Keys, span2, own)
              /\ \A i \in Slots(m) :
                    m.values[i] \in Linked' /\ height2[m.values[i]] + 1 = height[root]
  <2> HIDE DEF P, cap
  <2>1. m.current_size \in Nat /\ \A i \in Slots(m) : m.values[i] \in P
    BY <1>3, <1>20 DEF IsInner, Slots
  <2>2. \A i \in Slots(m) : \A x \in Keys : x \in span2[m.values[i]] <=> x \in span[m.values[i]]
    BY <1>19, <2>1
  <2>3. InnerFits(m, Keys, span2, own)
    BY <1>20, <2>1, <2>2, FitsAlike
  <2> QED BY <1>19, <2>1, <2>3
<1> HIDE DEF n, left, right, P
<1>21. Shape(span2, height2)'
  <2>1. ASSUME NEW p \in Linked' PROVE NodeOrder(span2, height2, p)'
    <3>1. CASE p = root
      <4>1. /\ InnerFits(left, Keys, span2, lower)
            /\ \A i \in Slots(left) :
                  left.values[i] \in Linked' /\ height2[left.values[i]] + 1 = height[root]
        BY <1>11, <1>12, <1>20
      <4>2. contents'[p] = left /\ span2[p] = lower /\ height2[p] = height[root]
        BY <1>15, <1>16, <3>1
      <4> HIDE DEF lower, upper
      <4> QED BY <1>17, <4>1, <4>2 DEF NodeOrder
    <3>2. CASE p = new
      <4>1. /\ InnerFits(right, Keys, span2, upper)
            /\ \A i \in Slots(right) :
                  right.values[i] \in Linked' /\ height2[right.values[i]] + 1 = height[root]
        BY <1>11, <1>12, <1>20
      <4>2. contents'[p] = right /\ span2[p] = upper /\ height2[p] = height[root]
        BY <1>15, <1>16, <3>2
      <4> HIDE DEF lower, upper
      <4> QED BY <1>17, <4>1, <4>2 DEF NodeOrder
    <3>3. CASE p \in Linked /\ p # root
      <4> DEFINE m == contents[p]
      <4>1. /\ contents'[p] = m /\ span2[p] = span[p] /\ height2[p] = height[p] /\ p \in Pages
            /\ NodeOrder(span, height, p)
        BY <1>7, <1>15, <1>16, <3>3
      <4>2. CASE m.type = "leaf"
        BY <4>1, <4>2 DEF NodeOrder
      <4>3. CASE m.type = "inner"
        <5>1. /\ InnerFits(m, Keys, span, span[p])
              /\ \A j \in Slots(m) : m.values[j] \in Linked /\ height[m.values[j]] + 1 = height[p]
          BY <4>1, <4>3 DEF NodeOrder
        <5>2. ASSUME NEW q \in Linked, height[q] + 1 = height[p]
              PROVE  span2[q] = span[q] /\ height2[q] = height[q] /\ q \in Linked'
          <6>1. q # root
            BY <1>3, <1>5, <1>9, <3>3, <5>2
          <6> QED BY <1>15, <1>18, <6>1
        <5>3. m.current_size \in Nat
          <6>1. IsInner(m, cap, Keys, Ready)
            BY <4>1, <4>3, Facts DEF Inner
          <6> HIDE DEF m, cap
          <6> QED BY <1>3, <6>1 DEF IsInner
        <5>4. InnerFits(m, Keys, span2, span2[p])
          <6> DEFINE own == span[p]
          <6>1. \A j \in Slots(m) : \A x \in Keys : x \in span2[m.values[j]] <=> x \in span[m.values[j]]
            BY <5>1, <5>2
          <6> HIDE DEF m, own
          <6>2. InnerFits(m, Keys, span2, own)
            BY <5>1, <5>3, <6>1, FitsAlike DEF own
          <6> QED BY <4>1, <6>2 DEF own
        <5> QED BY <4>1, <4>3, <5>1, <5>2, <5>4 DEF NodeOrder
      <4> QED BY <4>1, <4>2, <4>3, Facts
    <3> QED BY <1>18, <3>1, <3>2, <3>3
  <2>2. Apart(span2, height2)'
    <3>1. ASSUME NEW p \in Linked', NEW q \in Linked', NEW x \in Keys,
                 height2[p] = height2[q], x \in span2[p], x \in span2[q]
          PROVE  p = q
      <4>1. ASSUME NEW a \in Linked, x \in span2[a]
            PROVE  x \in span[a] /\ (a = root => x < separator) /\ height2[a] = height[a]
        BY <1>9, <1>15, <4>1
      <4>2. ASSUME NEW a \in Linked, NEW b \in Linked, x \in span2[a], x \in span2[b],
                   height2[a] = height2[b]
            PROVE  a = b
        BY <4>1, <4>2 DEF Ordered, Shape, Apart
      <4>3. ASSUME NEW a \in Linked, x \in span2[a], x \in span2[new],
                   height2[a] = height2[new]
            PROVE  FALSE
        <5>1. x >= separator /\ x \in Int /\ separator \in Int
          BY <1>10, <1>11, <1>15, <4>3
        <5>2. height[a] = height[root] /\ x \in span[a] /\ x \in span[root]
          BY <1>9, <1>15, <4>1, <4>3
        <5>3. a = root
          BY <1>3, <1>5, <5>2 DEF Ordered, Shape, Apart
        <5> QED BY <4>1, <4>3, <5>1, <5>3
      <4> QED BY <1>18, <3>1, <4>2, <4>3
    <3> QED BY <3>1 DEF Apart
  <2>3. RootOrder(span2, height2)'
    <3>1. Separator' = separator
      BY <1>1, <1>16 DEF Separator
    <3>2. \A q \in Linked' : height2[q] =< height2[root]
      BY <1>3, <1>5, <1>9, <1>15, <1>18
    <3>3. height2[call'.new_page] = height2[root]
      BY <1>6, <1>15
    <3>4. \A x \in Keys : /\ x \in span2[root] <=> x < separator
                          /\ x \in span2[call'.new_page] <=> x >= separator
      BY <1>6, <1>15
    <3> HIDE DEF separator
    <3> QED BY <1>1, <1>18, <3>1, <3>2, <3>3, <3>4 DEF RootOrder
  <2> QED BY <2>1, <2>2, <2>3 DEF Shape
<1>22. CallOrder(span2)'
  <2>1. LeavesInOrder(span2)'
    BY <1>6, <1>16, <1>17 DEF LeavesInOrder, IsHanging
  <2> QED BY <1>1, <1>6, <2>1 DEF CallOrder, OnTheWay, ParentQueued
<1> QED BY <1>21, <1>22 DEF Ordered

\* A root over a root that was split, whose last key moves up.
LEMMA NewRootOverInnerOrdered ==
    ASSUME EqualCapacities, TreeInv, TreeInv', NEW span \in Spans, NEW height \in Heights,
           Ordered(span, height), NewRootOverInner
    PROVE  \E span2 \in Spans, height2 \in Heights : Ordered(span2, height2)'
<1> DEFINE old == m_root_page_id
           new == call.new_page
           root == call.new_root
           cap == capacity.leaf
           victim == contents[old]
           last == victim.current_size - 1
           k == victim.keys[last]
           keys == [i \in {0, 1} |-> IF i = 0 THEN k ELSE NoKey]
           children == [i \in {0, 1} |-> IF i = 0 THEN old ELSE new]
           n == NewNode("inner", cap, 2, keys, children)
           m == [victim EXCEPT !.keys[last] = NoKey]
<1>1. /\ call.step = "root_over" /\ m_frame_queue = <<>>
      /\ contents' = [contents EXCEPT ![root] = n, ![old].keys[last] = NoKey]
      /\ m_root_page_id' = root
      /\ call' = Idle
      /\ UNCHANGED <<m_next_page, m_frame_queue>>
  BY Facts DEF NewRootOverInner, FlushAll, TreeInv, Points, AtNewRootOver
<1>2. /\ root \in 0 .. m_next_page - 1
      /\ NewInner /\ RootSplit
  BY <1>1 DEF TreeInv, Points, AtNewRootOver, NewInner
<1>3. /\ old \in Ready /\ old \in Pages /\ new \in Ready /\ new \in Pages /\ new # old
      /\ victim.type = "inner" /\ k \in Keys
      /\ IsInner(victim, cap, Keys, Ready) /\ cap \in Nat /\ cap >= 5
  BY <1>1, <1>2, Facts DEF TreeInv, CallType, PathFromRoot, NewInner, RootSplit, Inner
<1>4. /\ m_next_page \in 0 .. MaxPages /\ DOMAIN contents = Pages
      /\ Ready = {p \in 0 .. m_next_page - 1 : p # root}
      /\ root \in Pages /\ root \notin Ready /\ NoPage \notin Pages /\ Ready \subseteq Pages
  <2>1. m_next_page \in 0 .. MaxPages /\ DOMAIN contents = Pages
    BY DEF TreeInv, Basics
  <2>2. Ready = {p \in 0 .. m_next_page - 1 : p # root}
    BY <1>1 DEF Ready, IsPending
  <2>3. root \in Pages
    BY <1>2, <2>1, TreeAssumption DEF Pages
  <2> QED BY <2>1, <2>2, <2>3, Facts
<1>5. Linked = Ready /\ Cut
  BY <1>1 DEF Linked, IsHanging, Cut
<1>6. QuietPoint' /\ call'.step = "idle" /\ m_frame_queue' = <<>>
  BY <1>1 DEF QuietPoint, Idle
<1>7. Linked' = Linked \cup {root} /\ ~Cut' /\ ~ (call'.new_page \in Ready')
      /\ root \notin Linked
  <2>1. Ready' = 0 .. m_next_page' - 1 /\ Linked' = Ready' /\ ~Cut' /\ ~ (call'.new_page \in Ready')
    BY <1>6, QuietNext
  <2> QED BY <1>1, <1>2, <1>4, <1>5, <2>1
<1>8. \A p \in Linked : NodeOrder(span, height, p)
  BY DEF Ordered, Shape
<1>9. /\ \A q \in Linked : height[q] =< height[old] /\ height[q] \in Nat
      /\ height[new] = height[old]
      /\ \A x \in Keys : /\ x \in span[old] <=> x < k
                         /\ x \in span[new] <=> x >= k
  <2>1. Separator = k
    BY DEF Separator
  <2> HIDE DEF k
  <2>2. /\ \A q \in Linked : height[q] =< height[old]
        /\ height[new] = height[old]
        /\ \A x \in Keys : /\ x \in span[old] <=> x < k
                           /\ x \in span[new] <=> x >= k
    BY <1>3, <1>5, <2>1 DEF Ordered, Shape, RootOrder
  <2> QED BY <1>4, <1>5, <2>2 DEF Heights
<1>10. Keys \subseteq Int
  BY TreeAssumption
<1>11. PICK span2 \in Spans : span2 = [p \in Pages |-> IF p = root THEN Keys ELSE span[p]]
  BY DEF Spans
<1>12. PICK height2 \in Heights :
          height2 = [p \in Pages |-> IF p = root THEN height[old] + 1 ELSE height[p]]
  <2> DEFINE top == height[old] + 1
  <2>1. top \in Nat /\ height \in [Pages -> Nat]
    BY <1>3, <1>5, <1>9 DEF Heights
  <2> HIDE DEF top
  <2>2. [p \in Pages |-> IF p = root THEN top ELSE height[p]] \in [Pages -> Nat]
    BY <2>1
  <2> QED BY <2>2 DEF Heights, top
<1>13. /\ span2[root] = Keys /\ height2[root] = height[old] + 1
       /\ \A p \in Linked : /\ p \in Pages /\ p # root /\ p \in Linked'
                            /\ span2[p] = span[p] /\ height2[p] = height[p]
  BY <1>4, <1>5, <1>7, <1>11, <1>12
<1>14. /\ n.type = "inner" /\ Slots(n) = 0 .. 1
       /\ n.values[0] = old /\ n.values[1] = new
  BY <1>3 DEF NewNode, Slots
<1>15. InnerFits(n, Keys, span2, Keys)
  <2>1. keys[0] = k /\ children[0] = old /\ children[1] = new
    BY <1>3
  <2>2. /\ \A x \in Keys : x \in span2[old] <=> x < k
        /\ \A x \in Keys : x \in span2[new] <=> x >= k
    BY <1>3, <1>5, <1>9, <1>13
  <2> HIDE DEF keys, children, k, old, new, cap
  <2> QED BY <1>3, <1>10, <2>1, <2>2, NewRootFits
<1>16. /\ victim.current_size \in Nat
       /\ m.type = "inner" /\ m.current_size = victim.current_size /\ m.values = victim.values
       /\ \A i \in 0 .. victim.current_size - 2 : m.keys[i] = victim.keys[i]
  <2> DEFINE ks == victim.keys
             vs == victim.values
             size == victim.current_size
             blanked == [ks EXCEPT ![size - 1] = NoKey]
  <2>1. victim = [type |-> "inner", max_size |-> cap, current_size |-> size,
                  keys |-> ks, values |-> vs]
        /\ size \in 2 .. cap /\ DOMAIN ks = 0 .. cap - 1
    <3> HIDE DEF victim, cap
    <3> QED BY <1>3 DEF IsInner
  <2>2. m = [victim EXCEPT !.keys = blanked]
    BY Zenon
  <2> HIDE DEF ks, vs, size, blanked, m, victim
  <2>3. m = [type |-> "inner", max_size |-> cap, current_size |-> size,
             keys |-> blanked, values |-> vs]
    BY <2>1, <2>2
  <2>4. \A i \in 0 .. size - 2 : blanked[i] = ks[i]
    BY <1>3, <2>1 DEF blanked
  <2>5. size \in Nat
    BY <1>3, <2>1
  <2> QED BY <2>3, <2>4, <2>5 DEF size, ks, vs
<1> HIDE DEF n, keys, children
<1>17. /\ contents'[root] = n /\ contents'[old] = m
       /\ \A p \in Pages : p # root /\ p # old => contents'[p] = contents[p]
  <2> DEFINE c == [contents EXCEPT ![root] = n]
  <2>1. c[root] = n /\ c[old] = victim /\ DOMAIN c = Pages
        /\ \A p \in Pages : p # root => c[p] = contents[p]
    BY <1>3, <1>4
  <2>2. contents' = [c EXCEPT ![old] = [c[old] EXCEPT !.keys[last] = NoKey]]
    BY <1>1, Zenon
  <2> HIDE DEF c
  <2>3. contents' = [c EXCEPT ![old] = m]
    BY <2>1, <2>2
  <2> HIDE DEF m
  <2> QED BY <1>3, <1>4, <2>1, <2>3
<1> HIDE DEF m
<1>18. ASSUME NEW p \in Linked, contents[p].type = "inner", NEW r, r.type = "inner",
              r.current_size = contents[p].current_size,
              contents[p].current_size \in Nat,
              \A i \in 0 .. contents[p].current_size - 2 : r.keys[i] = contents[p].keys[i],
              r.values = contents[p].values
       PROVE  /\ InnerFits(r, Keys, span2, span2[p])
              /\ \A j \in Slots(r) :
                    r.values[j] \in Linked' /\ height2[r.values[j]] + 1 = height2[p]
  <2> DEFINE w == contents[p]
             own == span[p]
  <2>1. /\ InnerFits(w, Keys, span, own)
        /\ \A j \in Slots(w) : w.values[j] \in Linked /\ height[w.values[j]] + 1 = height[p]
    BY <1>8, <1>18 DEF NodeOrder
  <2>2. \A j \in Slots(w) : \A x \in Keys : x \in span2[w.values[j]] <=> x \in span[w.values[j]]
    BY <1>13, <2>1
  <2>3. /\ w.current_size \in Nat /\ r.current_size = w.current_size
        /\ \A i \in 0 .. w.current_size - 2 : r.keys[i] = w.keys[i]
        /\ r.values = w.values
    BY <1>18
  <2>4. span2[p] = own /\ height2[p] = height[p]
    BY <1>13
  <2> HIDE DEF w, own
  <2>5. InnerFits(r, Keys, span2, own)
    BY <2>1, <2>2, <2>3, FitsAlike
  <2>6. Slots(r) = Slots(w)
    BY <2>3 DEF Slots
  <2>7. ASSUME NEW j \in Slots(w)
        PROVE  w.values[j] \in Linked' /\ height2[w.values[j]] + 1 = height[p]
    <3>1. w.values[j] \in Linked /\ height[w.values[j]] + 1 = height[p]
      BY <2>1
    <3> QED BY <1>13, <3>1
  <2> QED BY <2>3, <2>4, <2>5, <2>6, <2>7
<1>19. Shape(span2, height2)'
  <2>1. ASSUME NEW p \in Linked' PROVE NodeOrder(span2, height2, p)'
    <3>1. CASE p = root
      <4>1. contents'[p] = n
        BY <1>17, <3>1
      <4>2. ASSUME NEW i \in 0 .. 1
            PROVE  n.values[i] \in Linked' /\ height2[n.values[i]] + 1 = height2[p]
        <5>1. i = 0 \/ i = 1
          OBVIOUS
        <5> QED BY <1>3, <1>5, <1>9, <1>13, <1>14, <3>1, <5>1
      <4> QED BY <1>13, <1>14, <1>15, <3>1, <4>1, <4>2 DEF NodeOrder
    <3>2. CASE p = old
      <4>1. contents'[p] = m
        BY <1>17, <3>2
      <4>2. /\ InnerFits(m, Keys, span2, span2[p])
            /\ \A j \in Slots(m) :
                  m.values[j] \in Linked' /\ height2[m.values[j]] + 1 = height2[p]
        BY <1>3, <1>5, <1>16, <1>18, <3>2
      <4> QED BY <1>16, <4>1, <4>2 DEF NodeOrder
    <3>3. CASE p \in Linked /\ p # old
      <4> DEFINE w == contents[p]
      <4>1. /\ contents'[p] = w /\ span2[p] = span[p] /\ height2[p] = height[p] /\ p \in Pages
            /\ NodeOrder(span, height, p)
        BY <1>8, <1>13, <1>17, <3>3
      <4>2. CASE w.type = "leaf"
        BY <4>1, <4>2 DEF NodeOrder
      <4>3. CASE w.type = "inner"
        <5>1. w.current_size \in Nat
          <6>1. IsInner(w, cap, Keys, Ready)
            BY <4>1, <4>3, Facts DEF Inner
          <6> HIDE DEF w, cap
          <6> QED BY <1>3, <6>1 DEF IsInner
        <5>2. /\ InnerFits(w, Keys, span2, span2[p])
              /\ \A j \in Slots(w) :
                    w.values[j] \in Linked' /\ height2[w.values[j]] + 1 = height2[p]
          BY <1>18, <3>3, <4>3, <5>1
        <5> QED BY <4>1, <4>3, <5>2 DEF NodeOrder
      <4> QED BY <4>1, <4>2, <4>3, Facts
    <3> QED BY <1>7, <3>1, <3>2, <3>3
  <2>2. Apart(span2, height2)'
    <3>1. ASSUME NEW p \in Linked', NEW q \in Linked', NEW x \in Keys,
                 height2[p] = height2[q], x \in span2[p], x \in span2[q]
          PROVE  p = q
      <4>1. ASSUME NEW a \in Linked PROVE height2[a] # height2[root]
        BY <1>3, <1>5, <1>9, <1>13
      <4>2. CASE p \in Linked /\ q \in Linked
        BY <1>13, <3>1, <4>2 DEF Ordered, Shape, Apart
      <4> QED BY <1>7, <3>1, <4>1, <4>2
    <3> QED BY <3>1 DEF Apart
  <2>3. RootOrder(span2, height2)'
    <3>1. \A q \in Linked' : height2[q] =< height2[root]
      BY <1>3, <1>5, <1>7, <1>9, <1>13
    <3> QED BY <1>1, <1>7, <1>13, <3>1 DEF RootOrder
  <2> QED BY <2>1, <2>2, <2>3 DEF Shape
<1>20. CallOrder(span2)'
  <2>1. m_root_page_id' # NoPage
    BY <1>1, <1>4
  <2> QED BY <1>6, <1>7, <2>1 DEF CallOrder, OnTheWay, ParentQueued, LeavesInOrder
<1> QED BY <1>19, <1>20 DEF Ordered

-----------------------------------------------------------------------------
(* The order holds throughout.                                             *)

\* What a step leads to: only Insert and Descend to a place for a new key, only
\* Search and Find to a search.
LEMMA NextSteps ==
    ASSUME EqualCapacities, TreeInv, Next
    PROVE  /\ call'.step \in {"first", "descend"} => Insert \/ Descend
           /\ call'.step = "find" => Search \/ Find
<1>1. Idle.step = "idle"
  BY DEF Idle
<1>2. CASE \/ Insert /\ \E k \in Keys : StartFirst(k) \/ StartInsert(k)
  BY <1>2 DEF StartFirst, StartInsert, Idle
<1>3. CASE Search
  <2>1. PICK k \in Keys : StartFind(k)
    BY <1>3 DEF Search
  <2>2. call'.step \in {"idle", "find"}
    BY <1>1, <2>1 DEF StartFind, IsIdle, Idle
  <2> QED BY <1>3, <2>2
<1>4. CASE Find
  <2>1. call' = Idle \/ \E at : call' = [call EXCEPT !.at = at]
    BY <1>4 DEF Find
  <2>2. ASSUME NEW at, call' = [call EXCEPT !.at = at] PROVE call'.step = "find"
    BY <1>4, <2>2, CallFields DEF Find
  <2> QED BY <1>1, <1>4, <2>1, <2>2
<1>5. CASE StartDump
  BY <1>1, <1>5 DEF StartDump, IsIdle, Idle
<1>6. CASE Dump
  <2>1. call' = Idle \/ \E at, page_ids : call' = [call EXCEPT !.at = at, !.page_ids = page_ids]
    BY <1>6 DEF Dump
  <2>2. ASSUME NEW at, NEW page_ids, call' = [call EXCEPT !.at = at, !.page_ids = page_ids]
        PROVE  call'.step = "dump"
    BY <1>6, <2>2, CallFields DEF Dump
  <2> QED BY <1>1, <2>1, <2>2
<1>7. CASE \/ First \/ FullLeaf \/ FullInner \/ InnerChild \/ Throw
           \/ NewRootOverLeaves \/ NewRootOverInner
  <2>1. call' = Idle
    BY <1>7 DEF First, FullLeaf, FullInner, InnerChild, Throw, NewRootOverLeaves,
                NewRootOverInner, Abort, FlushAll
  <2> QED BY <1>1, <2>1
<1>8. CASE Descend
  <2>1. \E at : call' = [call EXCEPT !.at = at]
    BY <1>8 DEF Descend
  <2>2. call'.step = "descend"
    BY <1>8, <2>1, CallFields DEF Descend
  <2> QED BY <1>8, <2>2
<1>9. CASE InsertInLeaf
  <2>1. \/ call' = [call EXCEPT !.step = "split_leaf", !.new_page = m_next_page]
        \/ call' = [call EXCEPT !.step = "climb"]
    BY <1>9 DEF InsertInLeaf
  <2> QED BY <2>1, CallFields
<1>10. CASE SplitLeaf
  <2>1. \/ call' = [call EXCEPT !.step = "new_root", !.new_root = m_next_page]
        \/ call' = [call EXCEPT !.step = "climb"]
    BY <1>10 DEF SplitLeaf
  <2> QED BY <2>1, CallFields
<1>11. CASE ClimbUnpin
  BY <1>11 DEF ClimbUnpin
<1>12. CASE ClimbInsert
  <2>1. \/ call' = [call EXCEPT !.step = "split_inner", !.previous = call.new_page,
                                !.new_page = m_next_page]
        \/ call.step = "climb" /\ call' = [call EXCEPT !.new_page = NoPage]
    BY <1>12 DEF ClimbInsert
  <2> QED BY <2>1, CallFields
<1>13. CASE SplitInner
  <2>1. call' = [call EXCEPT !.step = "climb", !.previous = NoPage]
    BY <1>13 DEF SplitInner
  <2> QED BY <2>1, CallFields
<1>14. CASE Finish
  <2>1. call' = Idle \/ call' = [call EXCEPT !.step = "root_victim"]
    BY <1>14 DEF Finish, FlushAll
  <2> QED BY <1>1, <2>1, CallFields
<1>15. CASE RootVictim
  <2>1. call' = [call EXCEPT !.step = "root_over", !.new_root = m_next_page]
    BY <1>15 DEF RootVictim
  <2> QED BY <2>1, CallFields
<1>16. Insert => \E k \in Keys : StartFirst(k) \/ StartInsert(k)
  BY DEF Insert, Offered, Absent
<1> QED BY <1>2, <1>3, <1>4, <1>5, <1>6, <1>7, <1>8, <1>9, <1>10, <1>11, <1>12, <1>13, <1>14,
           <1>15, <1>16 DEF Next

\* The key of an insertion stays new until it is in a leaf.
LEMMA KeysAreNew ==
    ASSUME EqualCapacities, TreeInv, NewKey, SearchKey, Next
    PROVE  NewKey' /\ SearchKey'
<1>1. ASSUME Insert PROVE NewKey'
  <2>1. PICK k \in Offered : StartFirst(k) \/ StartInsert(k)
    BY <1>1 DEF Insert
  <2>2. k \in Absent
    BY <2>1 DEF Offered
  <2>3. UNCHANGED contents /\ call'.key = k
    BY <2>1 DEF StartFirst, StartInsert, pool, Idle
  <2>4. ASSUME NEW p \in Pages, contents[p].type = "leaf", NEW i \in Slots(contents[p])
        PROVE  contents[p].keys[i] # k
    <3> DEFINE r == <<contents[p].keys[i], contents[p].values[i]>>
    <3>1. r \in Records
      BY <2>4 DEF Records, LeafPages
    <3>2. r[1] # k
      BY <2>2, <3>1 DEF Absent
    <3> QED BY <3>2
  <2> QED BY <2>2, <2>3, <2>4 DEF NewKey, Absent
<1>2. ASSUME Descend PROVE NewKey'
  <2>1. \E at : call' = [call EXCEPT !.at = at]
    BY <1>2 DEF Descend
  <2>2. call'.key = call.key /\ UNCHANGED contents /\ call.step = "descend"
    BY <1>2, <2>1, CallFields DEF Descend
  <2> QED BY <2>2 DEF NewKey
<1>3. ASSUME Search PROVE SearchKey'
  <2>1. PICK k \in Keys : StartFind(k)
    BY <1>3 DEF Search
  <2>2. call'.step = "find" => call'.key = k
    BY <2>1 DEF StartFind, IsIdle, Idle
  <2> QED BY <2>2 DEF SearchKey
<1>4. ASSUME Find PROVE SearchKey'
  <2>1. call' = Idle \/ \E at : call' = [call EXCEPT !.at = at]
    BY <1>4 DEF Find
  <2>2. ASSUME NEW at, call' = [call EXCEPT !.at = at] PROVE call'.key = call.key
    BY <2>2, CallFields
  <2>3. Idle.step = "idle" /\ call.step = "find"
    BY <1>4 DEF Idle, Find
  <2> QED BY <2>1, <2>2, <2>3 DEF SearchKey
<1> QED BY <1>1, <1>2, <1>3, <1>4, NextSteps DEF NewKey, SearchKey

\* What has gone wrong stays wrong, and a call that is on its way to an assertion
\* fails in it.
LEMMA FineBefore ==
    ASSUME EqualCapacities, TreeInv, Next, Fine'
    PROVE  Fine
<1>1. failures = 0
  <2>1. failures' = failures \/ failures' = failures + 1
    BY DEF Next, Insert, Search, StartFirst, StartInsert, StartFind, Find, StartDump, Dump, First,
           Descend, InsertInLeaf, FullLeaf, SplitLeaf, NewRootOverLeaves, ClimbUnpin, ClimbInsert,
           FullInner, InnerChild, SplitInner, Finish, RootVictim, NewRootOverInner, Throw, Abort
  <2>2. failures \in Nat /\ failures' = 0
    BY DEF TreeInv, Basics, Fine
  <2> QED BY <2>1, <2>2
<1>2. ~Aborted
  <2>1. SUFFICES ASSUME Aborted PROVE FALSE
    OBVIOUS
  <2>2. call.step = "idle"
    BY <2>1 DEF TreeInv, CallType
  <2>3. ~IsIdle /\ Wanted = NoPage
    BY <2>1, <2>2 DEF IsIdle, Wanted
  <2> QED BY <2>2, <2>3
          DEF Next, Insert, Search, StartFind, Find, StartDump, Dump, First,
              Descend, InsertInLeaf, FullLeaf, SplitLeaf, NewRootOverLeaves, ClimbUnpin, ClimbInsert,
              FullInner, InnerChild, SplitInner, Finish, RootVictim, NewRootOverInner, Throw
<1>3. ~Doomed
  <2>1. SUFFICES ASSUME Doomed PROVE FALSE
    OBVIOUS
  <2>2. /\ call.step = "climb" /\ m_frame_queue # <<>> /\ call.new_page # NoPage
        /\ contents[call.new_page].type = "inner"
    BY <2>1 DEF Doomed
  <2>3. ~IsIdle /\ Wanted = NoPage
    BY <2>2 DEF IsIdle, Wanted
  <2>4. FullInner \/ InnerChild
    BY <2>2, <2>3
       DEF Next, Insert, Search, StartFind, Find, StartDump, Dump, First,
           Descend, InsertInLeaf, FullLeaf, SplitLeaf, NewRootOverLeaves, ClimbUnpin, ClimbInsert,
           SplitInner, Finish, RootVictim, NewRootOverInner, Throw
  <2>5. Aborted'
    BY <2>4 DEF FullInner, InnerChild, Abort, Aborted
  <2> QED BY <2>5 DEF Fine
<1> QED BY <1>1, <1>2, <1>3 DEF Fine

\* An inner node below another may be split, but then the call is doomed.
LEMMA OnlyRootSplits ==
    ASSUME EqualCapacities, TreeInv, SplitInner, Fine'
    PROVE  Front(m_frame_queue) = <<>>
<1> DEFINE at == Last(m_frame_queue)
           new == call.new_page
           split == inner_split_node(capacity.inner, contents[at])
<1>1. /\ call.step = "split_inner" /\ m_frame_queue # <<>>
      /\ contents' = [contents EXCEPT ![at] = split.left, ![new] = split.right]
      /\ m_frame_queue' = Front(m_frame_queue)
      /\ call' = [call EXCEPT !.step = "climb", !.previous = NoPage]
  BY DEF SplitInner, PopQueue, TreeInv, Points, AtSplitInner
<1>2. /\ contents[at].type = "inner" /\ DOMAIN contents = Pages
      /\ new \in 0 .. m_next_page - 1 /\ m_next_page \in 0 .. MaxPages
  BY <1>1, QueueTop DEF TreeInv, Basics, Points, AtSplitInner
<1>3. new \in Pages /\ new # NoPage
  BY <1>2, TreeAssumption DEF Pages, NoPage
<1>4. split.right.type = "inner"
  BY <1>2 DEF inner_split_node, Upper, NewNode
<1> HIDE DEF split
<1>5. contents'[new].type = "inner"
  BY <1>1, <1>2, <1>3, <1>4
<1>6. call'.step = "climb" /\ call'.new_page = new
  <2>1. call' = [step |-> "climb", key |-> call.key, at |-> call.at,
                 new_page |-> call.new_page, previous |-> NoPage,
                 new_root |-> call.new_root, page_ids |-> call.page_ids]
    BY <1>1, CallFields
  <2> QED BY <2>1
<1>7. ~Doomed'
  BY DEF Fine
<1> QED BY <1>1, <1>3, <1>5, <1>6, <1>7 DEF Doomed

LEMMA StutterOrdered ==
    ASSUME NEW span, NEW height, Ordered(span, height), UNCHANGED vars
    PROVE  Ordered(span, height)'
<1>1. UNCHANGED <<m_root_page_id, m_next_page, contents, m_frame_queue, call>>
  BY DEF vars, tree, pool
<1>2. Ready' = Ready
  BY <1>1 DEF Ready, IsPending
<1>3. Linked' = Linked /\ (Cut' <=> Cut)
  BY <1>1, <1>2 DEF Linked, IsHanging, Cut
<1>4. Shape(span, height)'
  <2>1. /\ Shape(span, height) /\ UNCHANGED <<contents, m_root_page_id>>
        /\ Linked' = Linked /\ (Cut' <=> Cut)
        /\ Cut => call'.new_page = call.new_page
        /\ m_root_page_id \in Ready' => m_root_page_id \in Ready
    BY <1>1, <1>2, <1>3 DEF Ordered
  <2> QED BY <2>1, ShapeStays
<1>5. CallOrder(span)'
  <2>1. OnTheWay(span)'
    BY <1>1, <1>3 DEF Ordered, CallOrder, OnTheWay
  <2>2. ParentQueued'
    BY <1>1 DEF Ordered, CallOrder, ParentQueued
  <2>3. LeavesInOrder(span)'
    BY <1>1, <1>2 DEF Ordered, CallOrder, LeavesInOrder, IsHanging
  <2> QED BY <1>1, <1>2, <2>1, <2>2, <2>3 DEF Ordered, CallOrder
<1> QED BY <1>4, <1>5 DEF Ordered

LEMMA InitOrdered == ASSUME Init PROVE OrderInv
<1>1. TreeInv /\ call.step = "idle" /\ m_frame_queue = <<>> /\ m_next_page = 0
      /\ m_root_page_id = NoPage
  BY InitGood DEF Init, Idle
<1>2. Ready = {}
  BY <1>1 DEF Ready
<1> DEFINE span == [p \in Pages |-> Keys]
           height == [p \in Pages |-> 0]
<1>3. span \in Spans /\ height \in Heights
  BY DEF Spans, Heights
<1> HIDE DEF span, height
<1>4. Ordered(span, height)
  <2>1. Linked = {}
    BY <1>2 DEF Linked
  <2>2. Shape(span, height)
    BY <1>2, <2>1 DEF Shape, Apart, RootOrder
  <2>3. CallOrder(span)
    BY <1>1, <1>2 DEF CallOrder, OnTheWay, ParentQueued, LeavesInOrder
  <2> QED BY <2>2, <2>3 DEF Ordered
<1> QED BY <1>1, <1>3, <1>4 DEF OrderInv, NewKey, SearchKey

LEMMA OrderNext ==
    ASSUME EqualCapacities, OrderInv, [Next]_vars
    PROVE  OrderInv'
<1>1. TreeInv /\ TreeInv' /\ NewKey /\ SearchKey
  BY NextGood DEF OrderInv
<1>2. NewKey' /\ SearchKey'
  <2>1. CASE Next
    BY <1>1, <2>1, KeysAreNew
  <2>2. CASE UNCHANGED vars
    BY <1>1, <2>2 DEF vars, pool, NewKey, SearchKey
  <2> QED BY <2>1, <2>2
<1>3. ASSUME Fine' PROVE (\E span \in Spans, height \in Heights : Ordered(span, height))'
  <2>1. Fine
    <3>1. CASE Next
      BY <1>1, <1>3, <3>1, FineBefore
    <3>2. CASE UNCHANGED vars
      BY <1>3, <3>2 DEF vars, pool, Fine, Aborted, Doomed
    <3> QED BY <3>1, <3>2
  <2>2. PICK span \in Spans, height \in Heights : Ordered(span, height)
    BY <2>1 DEF OrderInv
  <2>3. failures = 0
    BY <2>1 DEF Fine
  <2>4. SUFFICES \E span2 \in Spans, height2 \in Heights : Ordered(span2, height2)'
    BY DEF Spans, Heights
  <2>5. Ordered(span, height)' => \E span2 \in Spans, height2 \in Heights : Ordered(span2, height2)'
    OBVIOUS
  <2>6. CASE Insert
    <3>1. PICK k \in Keys : StartFirst(k) \/ StartInsert(k)
      BY <2>6 DEF Insert, Offered, Absent
    <3> QED BY <1>1, <2>2, <2>5, <3>1, StartFirstOrdered, StartOrdered
  <2>7. CASE Search
    <3>1. PICK k \in Keys : StartFind(k)
      BY <2>7 DEF Search
    <3> QED BY <1>1, <2>2, <2>5, <3>1, StartOrdered
  <2>8. CASE Find
    BY <1>1, <2>2, <2>5, <2>8, FindOrdered
  <2>9. CASE StartDump
    <3>1. PICK k : k = NoKey
      OBVIOUS
    <3>2. StartDump \/ (k \in Keys /\ (StartFind(k) \/ StartInsert(k)))
      BY <2>9
    <3>3. Ordered(span, height)'
      BY <1>1, <2>2, <3>2, StartOrdered
    <3> QED BY <2>5, <3>3
  <2>10. CASE Dump
    BY <1>1, <2>2, <2>5, <2>10, DumpOrdered
  <2>11. CASE First
    BY <1>1, <2>2, <2>11, FirstOrdered
  <2>12. CASE Descend
    BY <1>1, <2>2, <2>5, <2>12, DescendOrdered
  <2>13. CASE InsertInLeaf
    BY <1>1, <2>2, <2>5, <2>13, InsertInLeafOrdered
  <2>14. CASE SplitLeaf
    BY <1>1, <2>2, <2>5, <2>14, SplitLeafOrdered
  <2>15. CASE NewRootOverLeaves
    BY <1>1, <2>2, <2>15, NewRootOverLeavesOrdered
  <2>16. CASE ClimbUnpin
    BY <1>1, <2>2, <2>5, <2>16, ClimbUnpinOrdered
  <2>17. CASE ClimbInsert
    BY <1>1, <2>2, <2>3, <2>17, ClimbInsertOrdered
  <2>18. CASE SplitInner
    <3>1. Front(m_frame_queue) = <<>>
      BY <1>1, <1>3, <2>18, OnlyRootSplits
    <3> QED BY <1>1, <2>2, <2>18, <3>1, SplitInnerOrdered
  <2>19. CASE Finish
    BY <1>1, <2>2, <2>5, <2>19, FinishOrdered
  <2>20. CASE RootVictim
    BY <1>1, <2>2, <2>5, <2>20, RootVictimOrdered
  <2>21. CASE NewRootOverInner
    BY <1>1, <2>2, <2>21, NewRootOverInnerOrdered
  <2>22. CASE FullLeaf \/ FullInner \/ InnerChild
    <3>1. Aborted'
      BY <2>22 DEF FullLeaf, FullInner, InnerChild, Abort, Aborted
    <3> QED BY <1>3, <3>1 DEF Fine
  <2>23. CASE Throw
    <3>1. failures' = failures + 1 /\ failures' = 0
      BY <1>3, <2>23 DEF Throw, Fine
    <3> QED BY <2>3, <3>1
  <2>24. CASE UNCHANGED vars
    BY <2>2, <2>5, <2>24, StutterOrdered
  <2> QED BY <2>6, <2>7, <2>8, <2>9, <2>10, <2>11, <2>12, <2>13, <2>14, <2>15, <2>16, <2>17, <2>18,
             <2>19, <2>20, <2>21, <2>22, <2>23, <2>24 DEF Next
<1> QED BY <1>1, <1>2, <1>3 DEF OrderInv

LEMMA OrderHolds == ASSUME EqualCapacities PROVE Spec => []OrderInv
<1>1. Init => OrderInv
  BY InitOrdered
<1>2. OrderInv /\ [Next]_vars => OrderInv'
  BY OrderNext
<1> QED BY <1>1, <1>2, PTL DEF Spec

-----------------------------------------------------------------------------
(* The records of the tree.                                                *)

\* What a page contributes to them.
PairsAt(n) == IF n.type = "leaf" THEN Pairs(n) ELSE {}

LEMMA RecordsIn ==
    /\ \A r : r \in Records <=> \E p \in Pages : r \in PairsAt(contents[p])
    /\ \A r : r \in Records' <=> \E p \in Pages : r \in PairsAt(contents'[p])
<1>1. \A r : r \in Records <=> \E p \in Pages : r \in PairsAt(contents[p])
  BY DEF Records, LeafPages, PairsAt, Pairs
<1>2. \A r : r \in Records' <=> \E p \in Pages : r \in PairsAt(contents'[p])
  BY DEF Records, LeafPages, PairsAt, Pairs
<1> QED BY <1>1, <1>2

\* A page that is in no leaf's place contributes nothing.
LEMMA NothingAt ==
    /\ PairsAt(BlankPage) = {}
    /\ \A n : n.type = "inner" => PairsAt(n) = {}
<1>1. Slots(BlankPage) = {}
  BY DEF Slots, BlankPage
<1> QED BY <1>1 DEF PairsAt, Pairs

\* One page is written.
LEMMA OneWrite ==
    ASSUME NEW at \in Pages, DOMAIN contents = Pages, NEW n,
           contents' = [contents EXCEPT ![at] = n], NEW R,
           PairsAt(n) = PairsAt(contents[at]) \cup R
    PROVE  Records' = Records \cup R
<1>1. contents'[at] = n /\ \A p \in Pages : p # at => contents'[p] = contents[p]
  OBVIOUS
<1>2. \A r : r \in PairsAt(n) <=> r \in PairsAt(contents[at]) \/ r \in R
  OBVIOUS
<1>3. ASSUME NEW r PROVE r \in Records' <=> r \in Records \cup R
  <2>1. CASE r \in R
    BY <1>1, <1>2, <2>1, RecordsIn
  <2>2. CASE r \notin R
    <3>1. \A p \in Pages : r \in PairsAt(contents'[p]) <=> r \in PairsAt(contents[p])
      BY <1>1, <1>2, <2>2
    <3> QED BY <2>2, <3>1, RecordsIn
  <2> QED BY <2>1, <2>2
<1> DEFINE A == Records'
           B == Records \cup R
<1> HIDE DEF A, B
<1>4. A = B
  BY <1>3 DEF A, B
<1> QED BY <1>4 DEF A, B

\* Two pages are written: together they contribute what one did.
LEMMA TwoWrites ==
    ASSUME NEW at \in Pages, NEW new \in Pages, at # new, DOMAIN contents = Pages,
           NEW a, NEW b, contents'[at] = a, contents'[new] = b,
           \A p \in Pages : p # at /\ p # new => contents'[p] = contents[p],
           PairsAt(a) \cup PairsAt(b) = PairsAt(contents[at]) \cup PairsAt(contents[new])
    PROVE  Records' = Records
<1>1. \A r : r \in PairsAt(a) \/ r \in PairsAt(b)
                <=> r \in PairsAt(contents[at]) \/ r \in PairsAt(contents[new])
  OBVIOUS
<1>2. ASSUME NEW r PROVE r \in Records' <=> r \in Records
  <2>1. ASSUME NEW p \in Pages, r \in PairsAt(contents'[p])
        PROVE  \E q \in Pages : r \in PairsAt(contents[q])
    BY <1>1, <2>1
  <2>2. ASSUME NEW p \in Pages, r \in PairsAt(contents[p])
        PROVE  \E q \in Pages : r \in PairsAt(contents'[q])
    BY <1>1, <2>2
  <2> QED BY <2>1, <2>2, RecordsIn
<1> DEFINE A == Records'
           B == Records
<1> HIDE DEF A, B
<1>3. A = B
  BY <1>2 DEF A, B
<1> QED BY <1>3 DEF A, B

\* A leaf that is split keeps its pairs in its two parts.
LEMMA LeafSplitPairs ==
    ASSUME NEW cap \in Nat, cap >= 2, NEW K, NEW R, NEW n, IsLeaf(n, cap, K, R),
           n.current_size = cap
    PROVE  LET left == leaf_split_node(cap, n).left
               right == leaf_split_node(cap, n).right
           IN  PairsAt(left) \cup PairsAt(right) = PairsAt(n)
<1> DEFINE left == leaf_split_node(cap, n).left
           right == leaf_split_node(cap, n).right
           a == left.current_size
           b == right.current_size
<1>1. /\ a \in 1 .. cap - 1 /\ b \in 1 .. cap - 1 /\ a + b = cap
      /\ \A i \in 0 .. a - 1 : left.keys[i] = n.keys[i] /\ left.values[i] = n.values[i]
      /\ \A i \in 0 .. b - 1 : /\ right.keys[i] = n.keys[a + i]
                               /\ right.values[i] = n.values[a + i]
  <2>1. LET l == leaf_split_node(cap, n).left
            r == leaf_split_node(cap, n).right
        IN  /\ l.current_size \in 1 .. cap - 1
            /\ r.current_size \in 1 .. cap - 1
            /\ l.current_size + r.current_size = cap
            /\ \A i \in 0 .. l.current_size - 1 :
                  l.keys[i] = n.keys[i] /\ l.values[i] = n.values[i]
            /\ \A i \in 0 .. r.current_size - 1 :
                  /\ r.keys[i] = n.keys[l.current_size + i]
                  /\ r.values[i] = n.values[l.current_size + i]
    BY LeafSplitSlots
  <2> QED BY <2>1
<1>2. Slots(left) = 0 .. a - 1 /\ Slots(right) = 0 .. b - 1 /\ Slots(n) = 0 .. cap - 1
  BY DEF Slots
<1>3. n.type = "leaf" /\ left.type = "leaf" /\ right.type = "leaf"
  BY DEF IsLeaf, leaf_split_node, Lower, Upper, NewNode
<1> HIDE DEF left, right, a, b
<1>4. ASSUME NEW r \in Pairs(left) PROVE r \in Pairs(n)
  <2>1. PICK i \in 0 .. a - 1 : r = <<left.keys[i], left.values[i]>>
    BY <1>2 DEF Pairs
  <2>2. i \in 0 .. cap - 1
    BY <1>1
  <2> QED BY <1>1, <1>2, <2>1, <2>2 DEF Pairs
<1>5. ASSUME NEW r \in Pairs(right) PROVE r \in Pairs(n)
  <2>1. PICK i \in 0 .. b - 1 : r = <<right.keys[i], right.values[i]>>
    BY <1>2 DEF Pairs
  <2>2. a + i \in 0 .. cap - 1
    BY <1>1
  <2> QED BY <1>1, <1>2, <2>1, <2>2 DEF Pairs
<1>6. ASSUME NEW r \in Pairs(n) PROVE r \in Pairs(left) \/ r \in Pairs(right)
  <2>1. PICK i \in 0 .. cap - 1 : r = <<n.keys[i], n.values[i]>>
    BY <1>2 DEF Pairs
  <2>2. CASE i < a
    <3>1. i \in 0 .. a - 1
      BY <1>1, <2>2
    <3> QED BY <1>1, <1>2, <2>1, <3>1 DEF Pairs
  <2>3. CASE i >= a
    <3>1. i - a \in 0 .. b - 1 /\ a + (i - a) = i
      BY <1>1, <2>3
    <3> QED BY <1>1, <1>2, <2>1, <3>1 DEF Pairs
  <2> QED BY <1>1, <2>2, <2>3
<1>7. Pairs(left) \cup Pairs(right) = Pairs(n)
  BY <1>4, <1>5, <1>6
<1> QED BY <1>3, <1>7 DEF PairsAt, left, right

LEMMA FirstPair ==
    ASSUME NEW cap \in Nat, cap >= 1, NEW k, NEW v
    PROVE  PairsAt(init_first_node(cap, k, v)) = {<<k, v>>}
<1> DEFINE n == init_first_node(cap, k, v)
<1>1. n.type = "leaf" /\ n.current_size = 1 /\ n.keys[0] = k /\ n.values[0] = v
  <2>1. 0 \in 0 .. cap - 1
    OBVIOUS
  <2> QED BY <2>1 DEF init_first_node, NewNode
<1> HIDE DEF n
<1>2. Slots(n) = {0}
  BY <1>1 DEF Slots
<1> QED BY <1>1, <1>2 DEF PairsAt, Pairs, n

\* The steps that enter a key: it was not there.
LEMMA AddsRecord ==
    ASSUME EqualCapacities, TreeInv, NewKey, First \/ InsertInLeaf
    PROVE  /\ call.key \in Keys
           /\ \A r \in Records : r[1] # call.key
           /\ Records' = Records \cup {<<call.key, RecordOf[call.key]>>}
           /\ UNCHANGED <<found, failures>>
<1> DEFINE k == call.key
           v == RecordOf[k]
           cap == capacity.leaf
<1>1. call.step \in {"first", "descend"} /\ UNCHANGED <<found, failures>>
  BY DEF First, InsertInLeaf
<1>2. /\ k \in Keys
      /\ \A p \in Pages : contents[p].type = "leaf" =>
            \A i \in Slots(contents[p]) : contents[p].keys[i] # k
  BY <1>1 DEF NewKey
<1>3. ASSUME NEW r \in Records PROVE r[1] # k
  <2>1. PICK p \in Pages : r \in PairsAt(contents[p])
    BY RecordsIn
  <2>2. contents[p].type = "leaf" /\ r \in Pairs(contents[p])
    BY <2>1 DEF PairsAt
  <2>3. PICK i \in Slots(contents[p]) : r = <<contents[p].keys[i], contents[p].values[i]>>
    BY <2>2 DEF Pairs
  <2>4. r[1] = contents[p].keys[i]
    BY <2>3
  <2> QED BY <1>2, <2>2, <2>4
<1>4. DOMAIN contents = Pages /\ cap \in Nat /\ cap >= 1 /\ v \in Range(RecordOf)
  <2>1. v \in Range(RecordOf)
    BY <1>2, TreeAssumption DEF Range
  <2> QED BY <2>1, Facts DEF TreeInv, Basics
<1>5. CASE First
  <2> DEFINE root == m_root_page_id
  <2>1. call.step = "first" /\ contents' = [contents EXCEPT ![root] = init_first_node(cap, k, v)]
    BY <1>5 DEF First
  <2>2. root \in Pages /\ contents[root] = BlankPage
    <3>1. root \in 0 .. m_next_page - 1 /\ m_next_page \in 0 .. MaxPages
      BY <2>1 DEF TreeInv, Points, AtFirst, Basics
    <3>2. root \in Pages
      BY <3>1, TreeAssumption DEF Pages
    <3>3. root \notin Ready
      BY <2>1 DEF Ready, IsPending
    <3> QED BY <3>2, <3>3 DEF TreeInv, FreshPagesAreBlank
  <2> HIDE DEF k, v, cap, root
  <2>3. PairsAt(init_first_node(cap, k, v)) = PairsAt(contents[root]) \cup {<<k, v>>}
    <3>1. PairsAt(init_first_node(cap, k, v)) = {<<k, v>>} /\ PairsAt(contents[root]) = {}
      BY <1>4, <2>2, FirstPair, NothingAt
    <3> QED BY <3>1
  <2>4. Records' = Records \cup {<<k, v>>}
    BY <1>4, <2>1, <2>2, <2>3, OneWrite
  <2> QED BY <1>1, <1>2, <1>3, <2>4 DEF k, v
<1>6. CASE InsertInLeaf
  <2> DEFINE at == call.at
             n == contents[at]
             filled == trivial_insert(n, k, v)
  <2>1. /\ call.step = "descend" /\ n.type = "leaf" /\ can_insert_trivially(n)
        /\ contents' = [contents EXCEPT ![at] = filled]
    BY <1>6 DEF InsertInLeaf
  <2>2. at \in Pages /\ IsLeaf(n, cap, Keys, Range(RecordOf))
    <3>1. at \in Ready /\ at \in Pages
      BY <2>1, Facts DEF TreeInv, Points, AtSearch
    <3>2. n = BlankPage \/ IsLeaf(n, cap, Keys, Range(RecordOf)) \/ IsInner(n, cap, Keys, Ready)
      BY <3>1 DEF TreeInv, NodesAreNodes, Leaf, Inner
    <3>3. n # BlankPage
      BY <2>1 DEF BlankPage, can_insert_trivially
    <3> HIDE DEF n
    <3>4. IsInner(n, cap, Keys, Ready) => n.type = "inner"
      BY DEF IsInner
    <3> QED BY <2>1, <3>1, <3>2, <3>3, <3>4
  <2>3. PairsAt(filled) = PairsAt(n) \cup {<<k, v>>}
    <3> HIDE DEF n, k, v, cap
    <3>1. Pairs(filled) = Pairs(n) \cup {<<k, v>>}
      BY <1>2, <1>4, <2>1, <2>2, InsertAddsPair
    <3>2. IsLeaf(filled, cap, Keys, Range(RecordOf))
      BY <1>2, <1>4, <2>1, <2>2, InsertKeepsLeaf
    <3>3. filled.type = "leaf"
      <4> HIDE DEF filled
      <4> QED BY <3>2 DEF IsLeaf
    <3> QED BY <2>1, <3>1, <3>3 DEF PairsAt
  <2>4. Records' = Records \cup {<<k, v>>}
    <3>1. PairsAt(filled) = PairsAt(contents[at]) \cup {<<k, v>>}
      BY <2>3
    <3> HIDE DEF k, v, at, filled
    <3> QED BY <1>4, <2>1, <2>2, <3>1, OneWrite
  <2> QED BY <1>1, <1>2, <1>3, <2>4 DEF k, v
<1> QED BY <1>5, <1>6

\* The steps that write pages and leave the records as they are.
LEMMA SplitLeafKeepsRecords ==
    ASSUME EqualCapacities, TreeInv, SplitLeaf
    PROVE  Records' = Records
<1> DEFINE at == call.at
           new == call.new_page
           cap == capacity.leaf
           n == contents[at]
           left == leaf_split_node(cap, n).left
           right == leaf_split_node(cap, n).right
<1>1. call.step = "split_leaf" /\ contents' = [contents EXCEPT ![at] = left, ![new] = right]
  BY DEF SplitLeaf
<1>2. /\ at \in Ready /\ at \in Pages /\ IsLeaf(n, cap, Keys, Range(RecordOf))
      /\ n.current_size = cap /\ cap \in Nat /\ cap >= 2
      /\ new \in 0 .. m_next_page - 1
  BY <1>1, Facts DEF TreeInv, Points, AtSplitLeaf, Inserted, Leaf
<1>3. DOMAIN contents = Pages /\ new \in Pages /\ new # at /\ PairsAt(contents[new]) = {}
  <2>1. m_next_page \in 0 .. MaxPages /\ DOMAIN contents = Pages
    BY DEF TreeInv, Basics
  <2>2. new \notin Ready
    BY <1>1 DEF Ready, IsPending
  <2>3. new \in Pages
    BY <1>2, <2>1, TreeAssumption DEF Pages
  <2>4. contents[new] = BlankPage
    BY <2>2, <2>3 DEF TreeInv, FreshPagesAreBlank
  <2> QED BY <1>2, <2>1, <2>2, <2>3, <2>4, NothingAt
<1>4. PairsAt(left) \cup PairsAt(right) = PairsAt(n)
  <2> HIDE DEF n, cap
  <2> QED BY <1>2, LeafSplitPairs
<1>5. PairsAt(left) \cup PairsAt(right) = PairsAt(contents[at]) \cup PairsAt(contents[new])
  BY <1>3, <1>4
<1> HIDE DEF at, new, left, right
<1>6. /\ contents'[at] = left /\ contents'[new] = right
      /\ \A p \in Pages : p # at /\ p # new => contents'[p] = contents[p]
  BY <1>1, <1>2, <1>3
<1> QED BY <1>2, <1>3, <1>5, <1>6, TwoWrites

LEMMA InnerWritesKeepRecords ==
    ASSUME EqualCapacities, TreeInv,
           NewRootOverLeaves \/ ClimbInsert \/ SplitInner \/ NewRootOverInner
    PROVE  Records' = Records
<1>1. DOMAIN contents = Pages /\ m_next_page \in 0 .. MaxPages
  BY DEF TreeInv, Basics
<1>2. ASSUME NEW p \in 0 .. m_next_page - 1, IsPending(p)
      PROVE  p \in Pages /\ p \notin Ready /\ PairsAt(contents[p]) = {}
  <2>1. p \in Pages /\ p \notin Ready
    BY <1>1, <1>2, TreeAssumption DEF Pages, Ready
  <2>2. contents[p] = BlankPage
    BY <2>1 DEF TreeInv, FreshPagesAreBlank
  <2> QED BY <2>1, <2>2, NothingAt
<1>3. CASE NewRootOverLeaves
  <2> DEFINE root == call.new_root
  <2>1. PICK f, g : contents' = [contents EXCEPT ![root] = NewNode("inner", capacity.leaf, 2, f, g)]
    BY <1>3 DEF NewRootOverLeaves
  <2> DEFINE n == NewNode("inner", capacity.leaf, 2, f, g)
  <2>2. root \in Pages /\ PairsAt(contents[root]) = {}
    BY <1>2, <1>3 DEF NewRootOverLeaves, TreeInv, Points, AtNewRoot, IsPending
  <2>3. n.type = "inner"
    BY DEF NewNode
  <2>4. PairsAt(n) = PairsAt(contents[root]) \cup {}
    BY <2>2, <2>3, NothingAt
  <2> HIDE DEF n, root
  <2>5. Records' = Records \cup {}
    BY <1>1, <2>1, <2>2, <2>4, OneWrite DEF n
  <2> QED BY <2>5
<1>4. CASE ClimbInsert
  <2> DEFINE above == Last(m_frame_queue)
             n == trivial_insert_leaf_node(contents[above], call.new_page, contents[call.new_page])
  <2>1. /\ call.step = "climb" /\ m_frame_queue # <<>>
        /\ contents' = [contents EXCEPT ![above] = n]
    BY <1>4 DEF ClimbInsert
  <2>2. above \in Pages /\ contents[above].type = "inner" /\ Inner(above)
    BY <2>1, QueueTop
  <2>3. n.type = "inner"
    <3> DEFINE m == contents[above]
    <3>1. IsInner(m, capacity.leaf, Keys, Ready)
      BY <2>2 DEF Inner
    <3> HIDE DEF m
    <3>2. m = [type |-> "inner", max_size |-> capacity.leaf, current_size |-> m.current_size,
               keys |-> m.keys, values |-> m.values]
      BY <3>1 DEF IsInner
    <3>3. \A ks, vs, size : [m EXCEPT !.keys = ks, !.values = vs, !.current_size = size].type = "inner"
      BY <3>2
    <3>4. PICK ks, vs, size : n = [m EXCEPT !.keys = ks, !.values = vs, !.current_size = size]
      BY DEF trivial_insert_leaf_node, m
    <3> HIDE DEF n
    <3> QED BY <3>3, <3>4
  <2> HIDE DEF n, above
  <2>4. PairsAt(n) = PairsAt(contents[above]) \cup {}
    BY <2>2, <2>3, NothingAt
  <2>5. Records' = Records \cup {}
    BY <1>1, <2>1, <2>2, <2>4, OneWrite
  <2> QED BY <2>5
<1>5. CASE SplitInner
  <2> DEFINE at == Last(m_frame_queue)
             new == call.new_page
             split == inner_split_node(capacity.inner, contents[at])
             left == split.left
             right == split.right
  <2>1. /\ call.step = "split_inner" /\ m_frame_queue # <<>> /\ new \in 0 .. m_next_page - 1
        /\ contents' = [contents EXCEPT ![at] = left, ![new] = right]
    BY <1>5 DEF SplitInner, TreeInv, Points, AtSplitInner
  <2>2. at \in Pages /\ contents[at].type = "inner" /\ at \in Ready
    BY <2>1, QueueTop
  <2>3. new \in Pages /\ new # at /\ PairsAt(contents[new]) = {}
    BY <1>2, <2>1, <2>2 DEF IsPending
  <2>4. left.type = "inner" /\ right.type = "inner"
    BY <2>2 DEF inner_split_node, Lower, Upper, NewNode
  <2> HIDE DEF at, new, left, right
  <2>5. PairsAt(left) \cup PairsAt(right) = PairsAt(contents[at]) \cup PairsAt(contents[new])
    BY <2>2, <2>3, <2>4, NothingAt
  <2>6. /\ contents'[at] = left /\ contents'[new] = right
        /\ \A p \in Pages : p # at /\ p # new => contents'[p] = contents[p]
    BY <1>1, <2>1, <2>2, <2>3
  <2> QED BY <1>1, <2>2, <2>3, <2>5, <2>6, TwoWrites
<1>6. CASE NewRootOverInner
  <2> DEFINE old == m_root_page_id
             root == call.new_root
             last == contents[old].current_size - 1
  <2>1. PICK f, g : contents' = [contents EXCEPT ![root] = NewNode("inner", capacity.inner, 2, f, g),
                                                 ![old].keys[last] = NoKey]
    BY <1>6 DEF NewRootOverInner
  <2> DEFINE n == NewNode("inner", capacity.inner, 2, f, g)
             m == [contents[old] EXCEPT !.keys[last] = NoKey]
  <2>2. /\ call.step = "root_over" /\ root \in 0 .. m_next_page - 1 /\ RootSplit
    BY <1>6 DEF NewRootOverInner, TreeInv, Points, AtNewRootOver, NewInner
  <2>3. /\ root \in Pages /\ root \notin Ready /\ PairsAt(contents[root]) = {}
    BY <1>2, <2>2 DEF IsPending
  <2>4. old \in Ready /\ old \in Pages /\ contents[old].type = "inner"
        /\ IsInner(contents[old], capacity.leaf, Keys, Ready)
    BY <2>2, Facts DEF TreeInv, CallType, PathFromRoot, RootSplit, Inner
  <2>5. n.type = "inner"
    BY DEF NewNode
  <2>6. m.type = "inner"
    <3> DEFINE w == contents[old]
               ks == [w.keys EXCEPT ![last] = NoKey]
    <3>1. w = [type |-> "inner", max_size |-> capacity.leaf, current_size |-> w.current_size,
               keys |-> w.keys, values |-> w.values]
      <4> HIDE DEF w
      <4> QED BY <2>4 DEF IsInner, w
    <3>2. m = [w EXCEPT !.keys = ks]
      BY Zenon
    <3> HIDE DEF w, ks, m
    <3> QED BY <3>1, <3>2
  <2> HIDE DEF n
  <2>7. /\ contents'[root] = n /\ contents'[old] = m
        /\ \A p \in Pages : p # root /\ p # old => contents'[p] = contents[p]
    <3> DEFINE c == [contents EXCEPT ![root] = n]
    <3>1. c[root] = n /\ c[old] = contents[old] /\ DOMAIN c = Pages
          /\ \A p \in Pages : p # root => c[p] = contents[p]
      BY <1>1, <2>3, <2>4
    <3>2. contents' = [c EXCEPT ![old] = [c[old] EXCEPT !.keys[last] = NoKey]]
      BY <2>1, Zenon DEF n
    <3> HIDE DEF c
    <3>3. contents' = [c EXCEPT ![old] = m]
      BY <3>1, <3>2
    <3> HIDE DEF m
    <3> QED BY <2>3, <2>4, <3>1, <3>3
  <2> HIDE DEF m, old, root
  <2>8. PairsAt(n) \cup PairsAt(m) = PairsAt(contents[root]) \cup PairsAt(contents[old])
    BY <2>3, <2>4, <2>5, <2>6, NothingAt
  <2> QED BY <1>1, <2>3, <2>4, <2>7, <2>8, TwoWrites
<1> QED BY <1>3, <1>4, <1>5, <1>6

LEMMA ReadsKeepRecords == ASSUME UNCHANGED contents PROVE Records' = Records
BY DEF Records, LeafPages
-----------------------------------------------------------------------------
(* Refinement.                                                             *)

\* When nothing has gone wrong a leaf the search ends at is the only one that can
\* hold the key.
LEMMA MissIsRight ==
    ASSUME EqualCapacities, OrderInv, Fine, call.step = "find",
           contents[call.at].type = "leaf", contents[call.at].current_size # 0,
           leaf_find_index(contents[call.at], call.key) = NoIndex
    PROVE  \A r \in Records : r[1] # call.key
<1> DEFINE at == call.at
           k == call.key
           n == contents[at]
<1>1. TreeInv /\ k \in Keys
  BY DEF OrderInv, SearchKey
<1>2. PICK span \in Spans, height \in Heights : Ordered(span, height)
  BY DEF OrderInv
<1>3. Linked = Ready /\ Ready \subseteq Pages
  BY <1>1, Quiet, Facts DEF QuietPoint
<1>4. /\ at \in Linked /\ k \in span[at]
      /\ \A p \in Linked : NodeOrder(span, height, p)
  BY <1>2 DEF Ordered, CallOrder, OnTheWay, Shape
<1>5. height[at] = 0 /\ LeafFits(n, span[at])
  BY <1>4 DEF NodeOrder
<1>6. \A i \in Slots(n) : n.keys[i] # k
  <2>1. n.current_size \in Nat \ {0} /\ k \in Int /\ Sorted(n.keys, n.current_size)
    <3>1. IsLeaf(n, capacity.leaf, Keys, Range(RecordOf)) \/ n = BlankPage \/ Inner(at)
      BY <1>1, <1>3, <1>4 DEF TreeInv, NodesAreNodes, Leaf
    <3>2. Inner(at) => n.type = "inner"
      BY DEF Inner, IsInner
    <3>3. IsLeaf(n, capacity.leaf, Keys, Range(RecordOf)) => n.current_size \in Nat \ {0}
      <4> DEFINE cap == capacity.leaf
      <4>1. cap \in Nat
        BY <1>1, Facts
      <4> HIDE DEF cap, n
      <4> QED BY <4>1 DEF IsLeaf, cap
    <3>4. n # BlankPage
      BY DEF BlankPage
    <3>5. Sorted(n.keys, n.current_size)
      BY <1>5 DEF LeafFits
    <3>6. k \in Int
      <4>1. Keys \subseteq Int
        BY TreeAssumption
      <4> QED BY <1>1, <4>1
    <3> QED BY <3>1, <3>2, <3>3, <3>4, <3>5, <3>6
  <2>2. leaf_find_index(n, k) = NoIndex
    OBVIOUS
  <2> HIDE DEF n, k
  <2> QED BY <2>1, <2>2, LeafSearchFinds
<1>7. ASSUME NEW r \in Records, r[1] = k PROVE FALSE
  <2>1. PICK p \in Pages : r \in PairsAt(contents[p])
    BY RecordsIn
  <2>2. contents[p].type = "leaf" /\ r \in Pairs(contents[p])
    BY <2>1 DEF PairsAt
  <2>3. PICK i \in Slots(contents[p]) : r = <<contents[p].keys[i], contents[p].values[i]>>
    BY <2>2 DEF Pairs
  <2>4. contents[p].keys[i] = k
    BY <1>7, <2>3
  <2>5. p \in Linked
    <3>1. contents[p] # BlankPage
      <4>1. Slots(BlankPage) = {}
        BY DEF Slots, BlankPage
      <4> QED BY <2>3, <4>1
    <3> QED BY <1>1, <1>3, <3>1 DEF TreeInv, FreshPagesAreBlank
  <2>6. height[p] = 0 /\ k \in span[p]
    BY <1>4, <2>2, <2>3, <2>4, <2>5 DEF NodeOrder, LeafFits
  <2>7. p = at
    BY <1>1, <1>2, <1>4, <1>5, <2>5, <2>6 DEF Ordered, Shape, Apart
  <2> QED BY <1>6, <2>3, <2>4, <2>7
<1> QED BY <1>7

LEMMA FindIsRight ==
    ASSUME EqualCapacities, OrderInv, Find, found' # found
    PROVE  \E k \in Keys : Stored!Find(k)
<1> DEFINE at == call.at
           k == call.key
           n == contents[at]
           i == leaf_find_index(n, k)
           hits == {r \in Records : r[1] = k}
<1>1. call.step = "find" /\ UNCHANGED <<contents, failures>>
  BY DEF Find
<1>2. TreeInv /\ k \in Keys /\ at \in Pages
  BY <1>1, Facts DEF OrderInv, SearchKey, TreeInv, Points, AtSearch
<1>3. /\ n.type = "leaf" /\ n.current_size # 0
      /\ IF i = NoIndex THEN found' = <<k, Missing>> ELSE found' = <<k, n.values[i]>>
  <2>1. n.type = "inner" \/ n.type = "leaf"
    BY <1>2, Facts
  <2> HIDE DEF i
  <2> QED BY <2>1 DEF Find, i
<1>4. Records' = Records
  BY <1>1, ReadsKeepRecords
<1>5. found' \in hits \cup {m \in {<<k, Missing>>} : failures > 0 \/ hits = {}}
  <2>1. CASE i # NoIndex
    <3>1. n.current_size \in Nat \ {0} /\ k \in Int
      <4>1. IsLeaf(n, capacity.leaf, Keys, Range(RecordOf)) \/ n = BlankPage \/ Inner(at)
        BY <1>2 DEF TreeInv, NodesAreNodes, Leaf
      <4>2. Inner(at) => n.type = "inner"
        BY DEF Inner, IsInner
      <4>3. IsLeaf(n, capacity.leaf, Keys, Range(RecordOf)) => n.current_size \in Nat
        <5> DEFINE cap == capacity.leaf
        <5>1. cap \in Nat
          BY <1>2, Facts
        <5> HIDE DEF cap, n
        <5> QED BY <5>1 DEF IsLeaf, cap
      <4>4. n # BlankPage
        BY <1>3 DEF BlankPage
      <4>5. k \in Int
        <5>1. Keys \subseteq Int
          BY TreeAssumption
        <5> QED BY <1>2, <5>1
      <4> QED BY <1>3, <4>1, <4>2, <4>3, <4>4, <4>5
    <3>2. i \in Slots(n) /\ n.keys[i] = k
      <4> HIDE DEF n, k
      <4> QED BY <2>1, <3>1, LeafSearchFinds
    <3> HIDE DEF i
    <3>3. <<k, n.values[i]>> \in PairsAt(n)
      BY <1>3, <3>2 DEF PairsAt, Pairs
    <3>4. <<k, n.values[i]>> \in Records
      BY <1>2, <3>3, RecordsIn
    <3> QED BY <1>3, <2>1, <3>4
  <2>2. CASE i = NoIndex
    <3>1. failures > 0 \/ failures = 0
      BY <1>2 DEF TreeInv, Basics
    <3>2. failures = 0 => hits = {}
      <4>1. SUFFICES ASSUME failures = 0 PROVE hits = {}
        OBVIOUS
      <4>2. Fine
        BY <1>1, <1>2, <4>1 DEF Fine, Doomed, TreeInv, CallType
      <4> QED BY <1>1, <1>3, <2>2, <4>2, MissIsRight
    <3> HIDE DEF i, hits
    <3> QED BY <1>3, <2>2, <3>1, <3>2
  <2> QED BY <2>1, <2>2
<1> HIDE DEF hits
<1>6. Stored!Find(k)
  <2>1. UNCHANGED <<Records, failures > 0>>
    BY <1>1, <1>4
  <2> QED BY <1>5, <2>1 DEF Stored!Find, hits
<1> QED BY <1>2, <1>6

LEMMA StepImplements ==
    ASSUME EqualCapacities, OrderInv, [Next]_vars
    PROVE  [Stored!Next]_(Stored!vars)
<1>1. TreeInv /\ NewKey
  BY DEF OrderInv
<1>2. ASSUME Records' = Records, UNCHANGED <<found, failures>>
      PROVE  [Stored!Next]_(Stored!vars)
  <2>1. (failures > 0)' = (failures > 0)
    BY <1>2
  <2> QED BY <1>2, <2>1 DEF Stored!vars
<1>3. ASSUME UNCHANGED contents, found' = <<>>, UNCHANGED failures
      PROVE  [Stored!Next]_(Stored!vars)
  <2>1. Records' = Records
    BY <1>3, ReadsKeepRecords
  <2>2. Stored!Take
    BY <1>3, <2>1 DEF Stored!Take
  <2> QED BY <2>2 DEF Stored!Next
<1>4. CASE Insert
  <2>1. PICK k : StartFirst(k) \/ StartInsert(k)
    BY <1>4 DEF Insert
  <2> QED BY <1>3, <2>1 DEF StartFirst, StartInsert, pool
<1>5. CASE Search
  <2>1. PICK k : StartFind(k)
    BY <1>5 DEF Search
  <2> QED BY <1>3, <2>1 DEF StartFind, pool
<1>6. CASE StartDump
  BY <1>3, <1>6 DEF StartDump, pool
<1>7. CASE Find
  <2>1. CASE found' = found
    BY <1>2, <1>7, <2>1, ReadsKeepRecords DEF Find
  <2>2. CASE found' # found
    <3>1. \E k \in Keys : Stored!Find(k)
      BY <1>7, <2>2, FindIsRight
    <3> QED BY <2>2, <3>1 DEF Stored!Next
  <2> QED BY <2>1, <2>2
<1>8. CASE \/ Dump \/ Descend \/ ClimbUnpin \/ Finish \/ RootVictim
           \/ FullLeaf \/ FullInner \/ InnerChild \/ UNCHANGED vars
  <2>1. UNCHANGED <<contents, found, failures>>
    BY <1>8 DEF Dump, Descend, ClimbUnpin, Finish, RootVictim, FullLeaf, FullInner, InnerChild,
                Abort, vars, pool
  <2> QED BY <1>2, <2>1, ReadsKeepRecords
<1>9. CASE First \/ InsertInLeaf
  <2> DEFINE k == call.key
             r == <<k, RecordOf[k]>>
  <2>1. /\ k \in Keys
        /\ \A q \in Records : q[1] # k
        /\ Records' = Records \cup {r}
        /\ UNCHANGED <<found, failures>>
    BY <1>1, <1>9, AddsRecord
  <2>2. Records' # Records
    <3>1. r[1] = k /\ r \in Records'
      BY <2>1
    <3> QED BY <2>1, <3>1
  <2>3. UNCHANGED <<found, failures > 0>>
    BY <2>1
  <2>4. Stored!Insert(k)
    BY <2>1, <2>3 DEF Stored!Insert
  <2> HIDE DEF k
  <2> QED BY <2>1, <2>2, <2>4 DEF Stored!Next
<1>10. CASE SplitLeaf
  <2>1. UNCHANGED <<found, failures>>
    BY <1>10 DEF SplitLeaf
  <2> QED BY <1>1, <1>2, <1>10, <2>1, SplitLeafKeepsRecords
<1>11. CASE NewRootOverLeaves \/ ClimbInsert \/ SplitInner \/ NewRootOverInner
  <2>1. UNCHANGED <<found, failures>>
    BY <1>11 DEF NewRootOverLeaves, ClimbInsert, SplitInner, NewRootOverInner
  <2> QED BY <1>1, <1>2, <1>11, <2>1, InnerWritesKeepRecords
<1>12. CASE Throw
  <2>1. UNCHANGED <<contents, found>> /\ failures' = failures + 1 /\ failures \in Nat
    BY <1>1, <1>12 DEF Throw, pool, TreeInv, Basics
  <2>2. (failures > 0)' = TRUE
    BY <2>1
  <2>3. Stored!Break
    BY <2>1, <2>2, ReadsKeepRecords DEF Stored!Break
  <2> QED BY <2>3 DEF Stored!Next
<1> QED BY <1>4, <1>5, <1>6, <1>7, <1>8, <1>9, <1>10, <1>11, <1>12 DEF Next

\* The tree implements the dictionary: whatever leaves, inner nodes and roots are
\* split, a search finds the record of every key that was inserted and nothing
\* else, until a request fails; from then on it may miss, but what it finds is
\* right (b_plus_tree.hpp:89-270).
THEOREM TreeIsADictionary == ASSUME EqualCapacities PROVE Spec => ImplementsDictionary
<1>1. Init => Stored!Init
  <2> SUFFICES ASSUME Init PROVE Stored!Init
    OBVIOUS
  <2>1. Records = {}
    BY NothingAt, RecordsIn DEF Init
  <2>2. found = <<>> /\ (failures > 0) = FALSE
    BY DEF Init
  <2> QED BY <2>1, <2>2 DEF Stored!Init
<1>2. OrderInv /\ [Next]_vars => [Stored!Next]_(Stored!vars)
  BY StepImplements
<1>3. Spec => []OrderInv
  BY OrderHolds
<1> QED BY <1>1, <1>2, <1>3, PTL DEF Spec, ImplementsDictionary, Stored!Spec
-----------------------------------------------------------------------------
(* The shape of the tree follows from the order.                           *)

\* The tree between two calls.
LEMMA AtRest ==
    ASSUME EqualCapacities, OrderInv, Working
    PROVE  /\ TreeInv
           /\ Linked = 0 .. m_next_page - 1
           /\ Linked \subseteq Pages
           /\ ~Cut
           /\ m_root_page_id \in Linked
           /\ Ready = Linked
           /\ \E span \in Spans, height \in Heights : Shape(span, height)
<1>1. TreeInv /\ call.step = "idle" /\ ~Aborted /\ failures = 0 /\ m_root_page_id # NoPage
  BY DEF OrderInv, Working, IsIdle
<1>2. Ready = 0 .. m_next_page - 1 /\ Linked = Ready /\ ~Cut
  BY <1>1, Quiet DEF QuietPoint
<1>3. m_root_page_id \in Ready
  BY <1>1 DEF TreeInv, PathFromRoot
<1>4. Fine
  BY <1>1 DEF Fine, Doomed
<1>5. PICK span \in Spans, height \in Heights : Ordered(span, height)
  BY <1>4 DEF OrderInv
<1>6. Shape(span, height)
  BY <1>5 DEF Ordered
<1>7. Ready \subseteq Pages
  BY <1>1, Facts
<1> QED BY <1>1, <1>2, <1>3, <1>6, <1>7

\* The inner nodes are pages of the tree, with children that are.
LEMMA InnerAtRest ==
    ASSUME EqualCapacities, OrderInv, Working, NEW q \in InnerPages
    PROVE  /\ q \in Linked
           /\ contents[q].current_size \in Nat
           /\ contents[q].current_size >= 2
<1>1. TreeInv /\ Linked = Ready
  BY AtRest
<1>2. q \in Ready /\ Inner(q)
  BY <1>1, Facts DEF InnerPages
<1>3. capacity.leaf \in Nat
  BY <1>1, Facts
<1>4. contents[q].current_size \in 2 .. capacity.leaf
  BY <1>2 DEF Inner, IsInner
<1> QED BY <1>1, <1>2, <1>3, <1>4

\* A key that an inner node stands for, one of its children stands for.
LEMMA ChildFor ==
    ASSUME EqualCapacities, OrderInv, Working, NEW span, NEW height, Shape(span, height),
           NEW q \in InnerPages, NEW x \in Keys, x \in span[q]
    PROVE  \E i \in Slots(contents[q]) :
              /\ contents[q].values[i] \in Linked
              /\ x \in span[contents[q].values[i]]
              /\ height[contents[q].values[i]] + 1 = height[q]
<1> DEFINE n == contents[q]
<1>1. q \in Linked /\ n.current_size \in Nat /\ n.current_size >= 2 /\ n.type = "inner"
  BY InnerAtRest DEF InnerPages
<1>2. NodeOrder(span, height, q)
  BY <1>1 DEF Shape
<1>3. /\ InnerFits(n, Keys, span, span[q])
      /\ \A i \in Slots(n) : n.values[i] \in Linked /\ height[n.values[i]] + 1 = height[q]
  BY <1>1, <1>2 DEF NodeOrder
<1>4. x \in Int
  <2>1. Keys \subseteq Int
    BY TreeAssumption
  <2> QED BY <2>1
<1>5. Sorted(n.keys, n.current_size - 1)
  BY <1>3 DEF InnerFits
<1>6. \E i \in Slots(n) : Belongs(n, i, x)
  <2> HIDE DEF n
  <2>1. inner_find_index(n, x) \in Slots(n) /\ Belongs(n, inner_find_index(n, x), x)
    BY <1>1, <1>4, <1>5, SearchBelongs
  <2> QED BY <2>1
<1>7. PICK i \in Slots(n) : Belongs(n, i, x)
  BY <1>6
<1>8. x \in span[n.values[i]]
  BY <1>3, <1>7 DEF InnerFits
<1> QED BY <1>3, <1>8

\* Every page stands for some key: for those in it.
LEMMA SpansAreFilled ==
    ASSUME EqualCapacities, OrderInv, Occupancy, Working,
           NEW span \in Spans, NEW height, Shape(span, height), NEW p \in Linked
    PROVE  \E x \in Keys : x \in span[p]
<1> DEFINE n == contents[p]
<1>1. p \in 0 .. m_next_page - 1 /\ p \in Pages /\ TreeInv
  BY AtRest
<1>2. capacity.leaf \in Nat /\ capacity.leaf >= 5
  BY <1>1, Facts
<1>3. n.current_size >= IF n.type = "inner" THEN 2
                        ELSE IF p = m_root_page_id THEN 1 ELSE capacity.leaf \div 2
  BY <1>1 DEF Occupancy
<1>4. span[p] \subseteq Keys
  BY <1>1 DEF Spans
<1>5. NodeOrder(span, height, p)
  BY DEF Shape
<1>6. CASE n.type = "inner"
  <2>1. n.current_size \in Nat /\ n.current_size >= 2
    BY <1>1, <1>6, InnerAtRest DEF InnerPages
  <2>2. n.keys[0] \in span[p]
    <3>1. 0 \in 0 .. n.current_size - 2
      BY <2>1
    <3> QED BY <1>5, <1>6, <3>1 DEF NodeOrder, InnerFits
  <2> QED BY <1>4, <2>2
<1>7. CASE n.type # "inner"
  <2>1. n.type = "leaf"
    BY <1>1, <1>7, Facts
  <2>2. Leaf(p)
    <3>1. n.max_size # 0
      <4>1. n.max_size = capacity.leaf
        BY <1>1, <2>1 DEF Occupancy, Capacity
      <4> QED BY <1>2, <4>1
    <3> QED BY <1>1, <2>1, <3>1, Facts
  <2>3. n.current_size \in Nat
    <3> DEFINE cap == capacity.leaf
    <3>1. IsLeaf(n, cap, Keys, Range(RecordOf))
      BY <2>2 DEF Leaf
    <3>2. cap \in Nat
      BY <1>2
    <3> HIDE DEF cap, n
    <3> QED BY <3>1, <3>2 DEF IsLeaf
  <2>4. n.current_size >= 1
    BY <1>2, <1>3, <1>7, <2>3
  <2>5. 0 \in Slots(n)
    BY <2>3, <2>4 DEF Slots
  <2>6. n.keys[0] \in span[p]
    BY <1>5, <2>1, <2>5 DEF NodeOrder, LeafFits
  <2> QED BY <1>4, <2>6
<1> QED BY <1>6, <1>7

\* No page is higher than the root, leaves are at 0, and the root stands for all
\* keys.
LEMMA HeightsAtRest ==
    ASSUME EqualCapacities, OrderInv, Working,
           NEW span, NEW height \in Heights, Shape(span, height), NEW p \in Linked
    PROVE  /\ height[p] \in Nat
           /\ height[p] =< height[m_root_page_id]
           /\ height[p] # 0 => p \in InnerPages
           /\ contents[p].type = "leaf" => height[p] = 0
           /\ \A x \in Keys : x \in span[m_root_page_id]
<1>1. p \in Pages /\ TreeInv /\ m_root_page_id \in Ready /\ ~Cut
  BY AtRest
<1>2. height[p] \in Nat
  BY <1>1 DEF Heights
<1>3. RootOrder(span, height) /\ NodeOrder(span, height, p)
  BY DEF Shape
<1>4. contents[p].type = "leaf" => height[p] = 0
  BY <1>3 DEF NodeOrder
<1>5. contents[p].type = "leaf" \/ contents[p].type = "inner"
  BY <1>1, Facts
<1>6. /\ height[p] =< height[m_root_page_id]
      /\ \A x \in Keys : x \in span[m_root_page_id]
  <2> HIDE DEF Cut, Ready, Linked
  <2> QED BY <1>1, <1>3 DEF RootOrder
<1> QED BY <1>1, <1>2, <1>4, <1>5, <1>6 DEF InnerPages
\* At each height up to the root's, some page stands for a key.
LEMMA EachHeight ==
    ASSUME EqualCapacities, OrderInv, Working,
           NEW span, NEW height \in Heights, Shape(span, height), NEW x \in Keys,
           NEW h \in 0 .. height[m_root_page_id]
    PROVE  \E p \in Linked : height[p] = h /\ x \in span[p]
<1> DEFINE top == height[m_root_page_id]
           At(d) == \E p \in Linked : height[p] = top - d /\ x \in span[p]
           Bad == {d \in 0 .. top : ~At(d)}
<1>1. m_root_page_id \in Linked
  BY AtRest
<1>2. top \in Nat /\ x \in span[m_root_page_id]
  BY <1>1, HeightsAtRest
<1>3. At(0)
  BY <1>1, <1>2
<1>4. ASSUME NEW d \in 0 .. top - 1, At(d) PROVE At(d + 1)
  <2>1. PICK p \in Linked : height[p] = top - d /\ x \in span[p]
    BY <1>4
  <2>2. top - d # 0 /\ top - (d + 1) \in Int /\ top - (d + 1) = top - d - 1
    BY <1>2
  <2>3. p \in InnerPages
    BY <2>1, <2>2, HeightsAtRest
  <2>4. PICK i \in Slots(contents[p]) :
              /\ contents[p].values[i] \in Linked
              /\ x \in span[contents[p].values[i]]
              /\ height[contents[p].values[i]] + 1 = height[p]
    BY <2>1, <2>3, ChildFor
  <2>5. height[contents[p].values[i]] \in Nat
    BY <2>4, HeightsAtRest
  <2>6. height[contents[p].values[i]] = top - (d + 1)
    BY <1>2, <2>1, <2>2, <2>4, <2>5
  <2> QED BY <2>4, <2>6
<1> HIDE DEF At, top
<1>5. Bad = {}
  <2>1. SUFFICES ASSUME Bad # {} PROVE FALSE
    OBVIOUS
  <2>2. Bad \subseteq Nat
    BY <1>2
  <2> HIDE DEF Bad
  <2>3. PICK m \in Bad : \A n \in Bad : m =< n
    BY <2>1, <2>2, LeastNat
  <2>4. m \in 0 .. top /\ ~At(m)
    BY DEF Bad
  <2>5. m # 0
    BY <1>3, <2>4
  <2>6. m - 1 \in 0 .. top - 1 /\ m - 1 \in 0 .. top /\ m - 1 + 1 = m /\ ~ (m =< m - 1)
    BY <1>2, <2>4, <2>5
  <2>7. m - 1 \notin Bad
    BY <2>3, <2>6
  <2>8. At(m - 1)
    BY <2>6, <2>7 DEF Bad
  <2>9. At(m - 1 + 1)
    BY <1>4, <2>6, <2>8
  <2> QED BY <2>4, <2>6, <2>9
<1>6. top - h \in 0 .. top /\ top - (top - h) = h
  BY <1>2 DEF top
<1>7. At(top - h)
  BY <1>5, <1>6
<1> QED BY <1>6, <1>7 DEF At

\* A page is the root, or a child of a node one higher.
LEMMA EachHasAParent ==
    ASSUME EqualCapacities, OrderInv, Occupancy, Working,
           NEW span \in Spans, NEW height \in Heights, Shape(span, height), NEW p \in Linked
    PROVE  IF height[p] = height[m_root_page_id]
           THEN p = m_root_page_id
           ELSE \E q \in InnerPages : \E i \in Slots(contents[q]) :
                   contents[q].values[i] = p /\ height[q] = height[p] + 1
<1> DEFINE top == height[m_root_page_id]
<1>1. PICK x \in Keys : x \in span[p]
  BY SpansAreFilled
<1>2. Apart(span, height)
  BY DEF Shape
<1>3. /\ m_root_page_id \in Linked /\ x \in span[m_root_page_id]
      /\ height[p] \in Nat /\ top \in Nat /\ height[p] =< top
  BY AtRest, HeightsAtRest
<1>4. CASE height[p] = top
  <2>1. p = m_root_page_id
    BY <1>1, <1>2, <1>3, <1>4 DEF Apart
  <2> QED BY <1>4, <2>1
<1>5. CASE height[p] # top
  <2>1. height[p] + 1 \in 0 .. top /\ height[p] + 1 # 0
    BY <1>3, <1>5
  <2> HIDE DEF top
  <2>2. PICK q \in Linked : height[q] = height[p] + 1 /\ x \in span[q]
    BY <2>1, EachHeight DEF top
  <2>3. q \in InnerPages
    BY <2>1, <2>2, HeightsAtRest
  <2>4. PICK i \in Slots(contents[q]) :
              /\ contents[q].values[i] \in Linked
              /\ x \in span[contents[q].values[i]]
              /\ height[contents[q].values[i]] + 1 = height[q]
    BY <2>2, <2>3, ChildFor
  <2>5. height[contents[q].values[i]] \in Nat
    BY <2>4, HeightsAtRest
  <2>6. height[contents[q].values[i]] = height[p]
    BY <1>3, <2>2, <2>4, <2>5
  <2>7. contents[q].values[i] = p
    BY <1>1, <1>2, <2>4, <2>6 DEF Apart
  <2> QED BY <1>5, <2>2, <2>3, <2>7 DEF top
<1> QED BY <1>4, <1>5

\* The levels are the heights, counted from the root.
LEMMA LevelsAreHeights ==
    ASSUME EqualCapacities, OrderInv, Occupancy, Working,
           NEW span \in Spans, NEW height \in Heights, Shape(span, height), NEW d \in Nat
    PROVE  Level[d] = {p \in Linked : height[p] = height[m_root_page_id] - d}
<1> DEFINE top == height[m_root_page_id]
           Down(f, e) == IF e = 0 THEN {m_root_page_id} ELSE UNION {ChildrenOf(p) : p \in f[e - 1]}
           G(f) == [e \in Nat |-> Down(f, e)]
           F == [e \in Nat |-> {p \in Linked : height[p] = top - e}]
           L == CHOOSE f : f = G(f)
           Bad == {e \in Nat : L[e] # F[e]}
<1>1. m_root_page_id \in Linked /\ top \in Nat
  BY AtRest, HeightsAtRest
<1>2. ASSUME NEW e \in Nat PROVE F[e] = Down(F, e)
  <2>1. CASE e = 0
    <3>1. \A p \in Linked : height[p] = top => p = m_root_page_id
      BY EachHasAParent
    <3>2. top - e = top
      BY <1>1, <2>1
    <3>3. {p \in Linked : height[p] = top - e} = {m_root_page_id}
      BY <1>1, <3>1, <3>2
    <3> QED BY <2>1, <3>3
  <2>2. CASE e # 0
    <3>1. e - 1 \in Nat /\ top - (e - 1) \in Int /\ top - e \in Int
          /\ top - (e - 1) = top - e + 1 /\ top - e # top
      BY <1>1, <2>2
    <3>2. F[e - 1] = {p \in Linked : height[p] = top - (e - 1)}
      BY <3>1
    <3>3. ASSUME NEW p \in Linked, height[p] = top - e
          PROVE  \E q \in F[e - 1] : p \in ChildrenOf(q)
      <4>1. PICK q \in InnerPages : \E i \in Slots(contents[q]) :
                   contents[q].values[i] = p /\ height[q] = height[p] + 1
        BY <3>1, <3>3, EachHasAParent
      <4>2. q \in Linked
        BY InnerAtRest
      <4>3. q \in F[e - 1]
        BY <3>1, <3>2, <3>3, <4>1, <4>2
      <4>4. p \in ChildrenOf(q)
        BY <4>1 DEF ChildrenOf, InnerPages
      <4> QED BY <4>3, <4>4
    <3>4. ASSUME NEW q \in F[e - 1], NEW p \in ChildrenOf(q)
          PROVE  p \in Linked /\ height[p] = top - e
      <4>1. q \in Linked /\ height[q] = top - (e - 1)
        BY <3>2
      <4>2. contents[q].type = "inner" /\ \E i \in Slots(contents[q]) : p = contents[q].values[i]
        <5>1. contents[q].type # "leaf"
          BY DEF ChildrenOf
        <5>2. contents[q].type = "leaf" \/ contents[q].type = "inner"
          BY <4>1, AtRest, Facts
        <5> QED BY <5>1, <5>2 DEF ChildrenOf
      <4>3. NodeOrder(span, height, q)
        BY <4>1 DEF Shape
      <4>4. p \in Linked /\ height[p] + 1 = height[q]
        BY <4>2, <4>3 DEF NodeOrder
      <4>5. height[p] \in Nat
        BY <4>4, HeightsAtRest
      <4> QED BY <1>1, <3>1, <4>1, <4>4, <4>5
    <3>5. F[e] = {p \in Linked : height[p] = top - e}
      OBVIOUS
    <3>6. F[e] = UNION {ChildrenOf(q) : q \in F[e - 1]}
      <4> HIDE DEF F, top
      <4> QED BY <3>3, <3>4, <3>5
    <3> QED BY <2>2, <3>6
  <2> QED BY <2>1, <2>2
<1>3. F = G(F)
  <2> HIDE DEF Down
  <2>1. F = [e \in Nat |-> F[e]]
    OBVIOUS
  <2> HIDE DEF F
  <2> QED BY <1>2, <2>1
<1>4. L = G(L)
  <2> HIDE DEF G, F
  <2> QED BY <1>3
<1>5. \A e \in Nat : L[e] = Down(L, e)
  <2> HIDE DEF L, Down
  <2> QED BY <1>4
<1>6. Bad = {}
  <2>1. SUFFICES ASSUME Bad # {} PROVE FALSE
    OBVIOUS
  <2>2. Bad \subseteq Nat
    OBVIOUS
  <2> HIDE DEF F, L, G
  <2>3. PICK m \in Bad : \A n \in Bad : m =< n
    <3> HIDE DEF Bad
    <3> QED BY <2>1, <2>2, LeastNat
  <2>4. m \in Nat /\ L[m] # F[m]
    OBVIOUS
  <2>5. m # 0 => m - 1 \in Nat /\ ~ (m =< m - 1)
    BY <2>4
  <2>6. m # 0 => L[m - 1] = F[m - 1]
    BY <2>3, <2>5
  <2>7. Down(L, m) = Down(F, m)
    BY <2>6
  <2> HIDE DEF Down
  <2> QED BY <1>2, <1>5, <2>4, <2>7
<1>7. Level = L
  <2> QED BY DEF Level
<1>8. Level[d] = F[d]
  <2> HIDE DEF F, L
  <2> QED BY <1>6, <1>7
<1> QED BY <1>8
\* A tree is not higher than it has pages: one at each height, at least.
LEMMA HeightIsBounded ==
    ASSUME EqualCapacities, OrderInv, Occupancy, Working,
           NEW span \in Spans, NEW height \in Heights, Shape(span, height)
    PROVE  height[m_root_page_id] \in 0 .. MaxPages
<1> DEFINE top == height[m_root_page_id]
           f == [h \in 0 .. top |-> CHOOSE p \in Linked : height[p] = h]
<1>1. m_root_page_id \in Linked /\ top \in Nat
  BY AtRest, HeightsAtRest
<1>2. PICK x \in Keys : x \in span[m_root_page_id]
  BY <1>1, SpansAreFilled
<1>3. ASSUME NEW h \in 0 .. top PROVE f[h] \in Linked /\ height[f[h]] = h
  <2>1. \E p \in Linked : height[p] = h
    BY <1>2, EachHeight
  <2> QED BY <2>1
<1>4. f \in Injection(0 .. top, Linked)
  <2>1. f \in [0 .. top -> Linked]
    BY <1>3
  <2>2. \A a, b \in 0 .. top : f[a] = f[b] => a = b
    <3> HIDE DEF f
    <3> QED BY <1>3
  <2> HIDE DEF f
  <2> QED BY <2>1, <2>2 DEF Injection, IsInjective
<1>5. m_next_page \in 0 .. MaxPages /\ MaxPages \in Nat /\ Linked = 0 .. m_next_page - 1
  BY AtRest, TreeAssumption DEF TreeInv, Basics
<1>6. IsFiniteSet(Linked) /\ Cardinality(Linked) = m_next_page
  <2>1. /\ IsFiniteSet(0 .. m_next_page - 1)
        /\ Cardinality(0 .. m_next_page - 1)
              = IF 0 > m_next_page - 1 THEN 0 ELSE m_next_page - 1 - 0 + 1
    BY <1>5, FS_Interval
  <2> QED BY <1>5, <2>1
<1>7. Cardinality(0 .. top) = top + 1
  <2>1. Cardinality(0 .. top) = IF 0 > top THEN 0 ELSE top - 0 + 1
    BY <1>1, FS_Interval
  <2> QED BY <1>1, <2>1
<1>8. Cardinality(0 .. top) =< Cardinality(Linked)
  <2> HIDE DEF f, top
  <2> QED BY <1>4, <1>6, FS_Injection
<1> HIDE DEF top, f
<1>9. top \in 0 .. MaxPages
  BY <1>1, <1>5, <1>6, <1>7, <1>8
<1> QED BY <1>9 DEF top

\* No page is a child twice: it would stand for its keys in two places.
LEMMA ChildOnce ==
    ASSUME EqualCapacities, OrderInv, Occupancy, Working,
           NEW span \in Spans, NEW height \in Heights, Shape(span, height),
           NEW p \in InnerPages, NEW i \in Slots(contents[p])
    PROVE  /\ contents[p].values[i] # m_root_page_id
           /\ \A q \in InnerPages : \A j \in Slots(contents[q]) :
                 contents[p].values[i] = contents[q].values[j] => p = q /\ i = j
<1>1. ASSUME NEW q \in InnerPages
      PROVE  /\ q \in Linked
             /\ contents[q].current_size \in Nat
             /\ InnerFits(contents[q], Keys, span, span[q])
             /\ height[q] \in Nat /\ height[q] =< height[m_root_page_id]
             /\ \A j \in Slots(contents[q]) :
                   /\ contents[q].values[j] \in Linked
                   /\ height[contents[q].values[j]] + 1 = height[q]
                   /\ height[contents[q].values[j]] \in Nat
  <2>1. q \in Linked /\ contents[q].current_size \in Nat /\ contents[q].type = "inner"
    BY InnerAtRest DEF InnerPages
  <2>2. NodeOrder(span, height, q)
    BY <2>1 DEF Shape
  <2>3. /\ InnerFits(contents[q], Keys, span, span[q])
        /\ \A j \in Slots(contents[q]) :
              contents[q].values[j] \in Linked /\ height[contents[q].values[j]] + 1 = height[q]
    BY <2>1, <2>2 DEF NodeOrder
  <2> QED BY <2>1, <2>3, HeightsAtRest
<1>2. contents[p].values[i] # m_root_page_id
  BY <1>1
<1>3. ASSUME NEW q \in InnerPages, NEW j \in Slots(contents[q]),
             contents[p].values[i] = contents[q].values[j]
      PROVE  p = q /\ i = j
  <2> DEFINE c == contents[p].values[i]
  <2>1. c \in Linked
    BY <1>1
  <2>2. PICK x \in Keys : x \in span[c]
    BY <2>1, SpansAreFilled
  <2>3. /\ x \in span[p] /\ Belongs(contents[p], i, x)
        /\ x \in span[q] /\ Belongs(contents[q], j, x)
    BY <1>1, <1>3, <2>2 DEF InnerFits
  <2>4. height[p] = height[q]
    BY <1>1, <1>3
  <2>5. p = q
    BY <1>1, <2>2, <2>3, <2>4 DEF Shape, Apart
  <2>6. Keys \subseteq Int
    BY TreeAssumption
  <2>7. i = j
    <3>1. x \in Int /\ Sorted(contents[p].keys, contents[p].current_size - 1)
      BY <1>1, <2>6 DEF InnerFits
    <3>2. j \in Slots(contents[p]) /\ Belongs(contents[p], j, x)
      BY <2>3, <2>5
    <3> QED BY <1>1, <2>3, <3>1, <3>2, OneSlot
  <2> QED BY <2>5, <2>7
<1> QED BY <1>2, <1>3

\* Between two calls, as long as no request has failed, every page that was
\* allocated is in the tree, as the root or as the child of one slot of one node,
\* and all leaves are equally deep (b_plus_tree.hpp:152-157, 186-204, 243-267).
THEOREM TreeIsBalanced == ASSUME EqualCapacities PROVE Spec => []TreeShape
<1>1. OrderInv /\ Occupancy => TreeShape
  <2> SUFFICES ASSUME OrderInv, Occupancy, Working PROVE TreeShape
    BY DEF TreeShape
  <2>1. PICK span \in Spans, height \in Heights : Shape(span, height)
    BY AtRest
  <2> DEFINE top == height[m_root_page_id]
  <2>2. top \in 0 .. MaxPages /\ top \in Nat
    BY <2>1, HeightIsBounded, TreeAssumption
  <2>3. \A d \in Nat : Level[d] = {p \in Linked : height[p] = top - d}
    BY <2>1, LevelsAreHeights
  <2>4. Linked = 0 .. m_next_page - 1
    BY AtRest
  <2>5. \A p \in Linked : /\ height[p] \in Nat /\ height[p] =< top
                          /\ contents[p].type = "leaf" => height[p] = 0
    BY <2>1, HeightsAtRest
  <2>6. UNION {Level[d] : d \in 0 .. top} = 0 .. m_next_page - 1
    <3> HIDE DEF top, Linked
    <3>1. ASSUME NEW p \in Linked PROVE \E d \in 0 .. top : p \in Level[d]
      <4>1. top - height[p] \in 0 .. top /\ top - (top - height[p]) = height[p]
        BY <2>2, <2>5
      <4>2. p \in Level[top - height[p]]
        BY <2>3, <4>1
      <4> QED BY <4>1, <4>2
    <3>2. ASSUME NEW d \in 0 .. top, NEW p \in Level[d] PROVE p \in Linked
      BY <2>2, <2>3
    <3>3. UNION {Level[d] : d \in 0 .. top} = Linked
      BY <3>1, <3>2
    <3> QED BY <2>4, <3>3
  <2>7. ASSUME NEW p \in LeafPages, p < m_next_page PROVE p \in Level[top]
    <3>1. p \in Linked /\ contents[p].type = "leaf"
      BY <2>4, <2>7, TreeAssumption, AtRest DEF LeafPages, Pages, TreeInv, Basics
    <3> HIDE DEF top, Linked
    <3>2. height[p] = top - top
      BY <2>2, <2>5, <3>1
    <3> QED BY <2>2, <2>3, <3>1, <3>2
  <2>8. \A p, q \in InnerPages :
           \A i \in Slots(contents[p]), j \in Slots(contents[q]) :
              /\ contents[p].values[i] # m_root_page_id
              /\ contents[p].values[i] = contents[q].values[j] => p = q /\ i = j
    BY <2>1, ChildOnce
  <2> HIDE DEF top
  <2> QED BY <2>2, <2>6, <2>7, <2>8 DEF TreeShape
<1> QED BY <1>1, OrderHolds, NodesStayHalfFull, PTL
=============================================================================
