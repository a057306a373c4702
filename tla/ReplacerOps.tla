---------------------------- MODULE ReplacerOps ----------------------------
(***************************************************************************)
(* The operations of lru_k (src/src/buffer_pool/lru_k.cpp) on what the     *)
(* buffer pool can tell apart: for each frame, how many of its accesses    *)
(* are remembered (counted up to K, after which evict() treats all frames  *)
(* by distance) and whether it is evictable.  The timestamps themselves    *)
(* are in LruK, which implements Replacer, the state machine over these    *)
(* operators.                                                              *)
(*                                                                         *)
(* m_current_nodes is a total function: a frame that is not in the map has *)
(* the value NoNode.                                                       *)
(***************************************************************************)
EXTENDS Integers

CONSTANTS
    MaxFrames,      \* the number of frames (lru_k::m_size)
    K               \* lru_k::m_k

ASSUME ReplacerAssumption == /\ MaxFrames \in Nat
                             /\ K \in Nat \ {0}

Frames == 0 .. MaxFrames - 1

NoFrame == -1       \* INVALID_FRAME_ID, and the empty optional of evict()

Node == [hits : 0 .. K, is_evictable : BOOLEAN]

NoNode == [hits |-> 0, is_evictable |-> FALSE]

Present(nodes, f) == nodes[f].hits > 0

RecordAccess(nodes, f) ==
    [nodes EXCEPT ![f] =
        IF Present(nodes, f)
        THEN [hits |-> IF nodes[f].hits < K THEN nodes[f].hits + 1 ELSE K,
              is_evictable |-> nodes[f].is_evictable]
        ELSE [hits |-> 1, is_evictable |-> TRUE]]

SetEvictable(nodes, f, b) ==
    [nodes EXCEPT ![f] =
        IF Present(nodes, f) THEN [hits |-> nodes[f].hits, is_evictable |-> b]
                             ELSE nodes[f]]

Erase(nodes, f) == [nodes EXCEPT ![f] = NoNode]

\* A mutation of Remove: the condition the wrong way round.
InvertedRemove(nodes, f) ==
    [nodes EXCEPT ![f] = IF nodes[f].is_evictable THEN nodes[f] ELSE NoNode]

\* remove() leaves a node that is not evictable where it is.
Remove(nodes, f) ==
    [nodes EXCEPT ![f] = IF nodes[f].is_evictable THEN NoNode ELSE nodes[f]]

Evictable(nodes) == {f \in Frames : nodes[f].is_evictable}

\* The frames with fewer than K accesses, which evict() takes first, in the
\* order of their ids (std::map iterates by key).
Young(nodes) == {f \in Evictable(nodes) : nodes[f].hits < K}

\* The frames evict() may return.  Among the frames with K accesses or more the
\* timestamps decide, so every one of them is possible.
Victims(nodes) ==
    IF Young(nodes) = {}
    THEN Evictable(nodes)
    ELSE {f \in Young(nodes) : \A g \in Young(nodes) : f =< g}
=============================================================================
