--------------------------- MODULE MCDiskManager ---------------------------
(***************************************************************************)
(* DiskManager for TLC.                                                    *)
(***************************************************************************)
EXTENDS DiskManager
=============================================================================
