----------------------------- MODULE MCBPlusTree -----------------------------
(***************************************************************************)
(* BPlusTree for TLC.                                                      *)
(***************************************************************************)
EXTENDS BPlusTree

\* A record of its own for each key.
MCRecordOf == [k \in Keys |-> 100 + k]

\* The smallest capacities, one odd and one even, whose inner nodes split into
\* nodes with two children or more.
MCCapacities == {[leaf |-> c, inner |-> c] : c \in {5, 6}}
=============================================================================
