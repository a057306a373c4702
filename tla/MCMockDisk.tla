----------------------------- MODULE MCMockDisk -----------------------------
(***************************************************************************)
(* MockDisk for TLC: five pages and a vector that grows by two, so that it *)
(* grows three times.                                                      *)
(***************************************************************************)
EXTENDS MockDisk
=============================================================================
