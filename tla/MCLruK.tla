------------------------------- MODULE MCLruK -------------------------------
(***************************************************************************)
(* LruK for TLC: three frames (enough for two short histories beside a     *)
(* full one), K = 2 and six accesses, so that every frame can reach K      *)
(* accesses and be evicted by distance.                                    *)
(***************************************************************************)
EXTENDS LruK
=============================================================================
