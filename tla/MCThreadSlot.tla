---------------------------- MODULE MCThreadSlot ----------------------------
(***************************************************************************)
(* Three threads, one of them the main thread, and two blocks: one thread  *)
(* too many for the memory there is.                                       *)
(***************************************************************************)
EXTENDS ThreadSlot
=============================================================================
