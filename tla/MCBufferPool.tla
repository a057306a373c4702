---------------------------- MODULE MCBufferPool ----------------------------
(***************************************************************************)
(* BufferPool for TLC.                                                     *)
(***************************************************************************)
EXTENDS BufferPool
=============================================================================
