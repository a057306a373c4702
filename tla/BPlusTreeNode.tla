---------------------------- MODULE BPlusTreeNode ----------------------------
(***************************************************************************)
(* The nodes of the B+ tree (src/include/b_plus_tree/b_plus_tree_node.hpp) *)
(* as values: what a search in a node returns, and the node that insertion *)
(* or a split leaves.                                                      *)
(*                                                                         *)
(* A node has max_size slots, numbered from 0; slots from current_size on  *)
(* hold NoKey, whatever bytes the code leaves there, because it reads none *)
(* of them before it has written it.  A leaf has a record for each key.    *)
(* An inner node has a page id for each key, and its last key is           *)
(* invalid_key().  MAX stands for MAX_NUMBER_OF_ELEMENTS, which follows    *)
(* from the sizes of keys and values.  next_page_id and previous_page_id   *)
(* are written and never read, and left out.                               *)
(***************************************************************************)
EXTENDS Integers, FiniteSetsExt

NoKey == -99        \* K::invalid_key() and V::invalid_key()

NoIndex == -1       \* the empty optional of find_index

\* What the constructors make of a page of zeros.
BlankPage == [type |-> "leaf", max_size |-> 0, current_size |-> 0,
              keys |-> [i \in {} |-> NoKey], values |-> [i \in {} |-> NoKey]]

can_insert_trivially(n) == n.current_size < n.max_size

\* A mutation of should_split: one insertion later.
LateShouldSplit(n) == n.current_size > n.max_size

should_split(n) == n.current_size = n.max_size

Slots(n) == 0 .. n.current_size - 1

\* A node of the given type with the first slots filled from two functions.
NewNode(type, max_size, size, keys, values) ==
    LET Fill(f) == [i \in 0 .. max_size - 1 |-> IF i < size THEN f[i] ELSE NoKey]
    IN  [type |-> type, max_size |-> max_size, current_size |-> size,
         keys |-> Fill(keys), values |-> Fill(values)]

init_first_node(MAX, k, v) == NewNode("leaf", MAX, 1, [i \in {0} |-> k],
                                                      [i \in {0} |-> v])
-----------------------------------------------------------------------------
(* Searching.                                                              *)

\* The loop that looks for the first of the first `size' keys above k.
FirstAbove(n, k, size) ==
    Min({i \in 0 .. size - 1 : n.keys[i] > k} \cup {size})

\* The binary searches: the slot in 0 .. high at which the loop ends, when it
\* goes left at the slots of `left'.  r is what the loop has left, <<low, top>>.
Bisect(left, high) ==
    LET end[r \in (0 .. high) \X (0 .. high)] ==
          IF r[2] > r[1]
          THEN LET middle == (r[1] + r[2]) \div 2
               IN  IF middle \in left THEN end[<<r[1], middle>>]
                                      ELSE end[<<middle + 1, r[2]>>]
          ELSE r[1]
    IN  end[<<0, high>>]

\* Where k goes among the first `size' keys of n.  A short node is searched from
\* its start; `size' is one less than current_size in an inner node.
PlaceFor(n, k, size) ==
    IF n.current_size < 5
    THEN FirstAbove(n, k, size)
    ELSE IF k > n.keys[size - 1]
         THEN size
         ELSE Bisect({i \in 0 .. size - 1 : n.keys[i] >= k}, size - 1)

leaf_find_index_for_insert(n, k) == PlaceFor(n, k, n.current_size)

inner_find_index_for_insert(n, k) == PlaceFor(n, k, n.current_size - 1)

\* A binary search that stops at k.  (high + low) / 2 is 0 when high is -1.
leaf_find_index(n, k) ==
    LET top == n.current_size - 1
        end[r \in (0 .. top) \X (-1 .. top)] ==
          LET middle == IF r[1] + r[2] < 0 THEN 0 ELSE (r[1] + r[2]) \div 2
          IN  IF r[2] > r[1] /\ n.keys[middle] # k
              THEN IF n.keys[middle] > k THEN end[<<r[1], middle - 1>>]
                                         ELSE end[<<middle + 1, r[2]>>]
              ELSE middle
        found == end[<<0, top>>]
    IN  IF n.keys[found] = k THEN found ELSE NoIndex

\* The slot of the child to descend into: the first key above k, or the last
\* slot, whose key is invalid.
inner_find_index(n, k) ==
    LET high == n.current_size - 2
    IN  IF k >= n.keys[high]
        THEN n.current_size - 1
        ELSE Bisect({i \in 0 .. high : n.keys[i] > k}, high)
-----------------------------------------------------------------------------
(* Inserting.                                                              *)

\* The first `size' slots of f from `where' on move up, and x takes their place.
Shifted(f, where, x, size) ==
    [i \in DOMAIN f |-> IF i = where THEN x
                        ELSE f[IF i \in where + 1 .. size THEN i - 1 ELSE i]]

trivial_insert(n, k, v) ==
    LET where == leaf_find_index_for_insert(n, k)
    IN  [n EXCEPT !.keys = Shifted(@, where, k, n.current_size),
                  !.values = Shifted(@, where, v, n.current_size),
                  !.current_size = @ + 1]

\* A mutation of trivial_insert_leaf_node: the pages are not swapped.
UnswappedInsertLeafNode(n, page_id, new_node) ==
    LET k == new_node.keys[0]
        where == inner_find_index_for_insert(n, k)
    IN  [n EXCEPT !.keys = Shifted(@, where, k, n.current_size),
                  !.values = Shifted(@, where, page_id, n.current_size),
                  !.current_size = @ + 1]

\* The page of a leaf just split off goes behind the page it was split from:
\* the code inserts it before, and swaps the two.
trivial_insert_leaf_node(n, page_id, new_node) ==
    LET k == new_node.keys[0]
        where == inner_find_index_for_insert(n, k)
    IN  [n EXCEPT !.keys = Shifted(@, where, k, n.current_size),
                  !.values = Shifted(@, where + 1, page_id, n.current_size),
                  !.current_size = @ + 1]
-----------------------------------------------------------------------------
(* Splitting.                                                              *)

\* The upper part of a full node: slots from .. max_size - 2 are copied to the
\* start of the new node, and the last slot to slot `last' of it.
Upper(n, from, last, size) ==
    LET Copy(f) == [i \in 0 .. n.max_size - 1 |->
                       IF i = last THEN f[n.max_size - 1]
                       ELSE IF from + i < n.max_size - 1 THEN f[from + i]
                                                         ELSE NoKey]
    IN  NewNode(n.type, n.max_size, size, Copy(n.keys), Copy(n.values))

Lower(n, size) == NewNode(n.type, n.max_size, size, n.keys, n.values)

\* A mutation of LeafParity: odd for even.
InvertedLeafParity(MAX) == MAX % 2

\* something_to_be_renamed of a leaf
LeafParity(MAX) == (MAX + 1) % 2

\* something_to_be_renamed of an inner node
InnerParity(MAX) == IF MAX % 2 # 0 THEN 1 ELSE 2

leaf_split_node(MAX, n) ==
    LET half == n.max_size \div 2
        size == n.current_size \div 2
    IN  [left  |-> Lower(n, size),
         right |-> Upper(n, half, half - LeafParity(MAX),
                         size + ((LeafParity(MAX) + 1) % 2))]

\* The last key of the left part is the one that separates it from the right
\* part; create_root_with_inner_nodes takes it from there.
inner_split_node(MAX, n) ==
    LET half == n.max_size \div 2
        size == n.current_size \div 2 + 1
    IN  [left  |-> Lower(n, size),
         right |-> Upper(n, half + 1, half - InnerParity(MAX),
                         size - InnerParity(MAX))]
=============================================================================
