---------------------------- MODULE MCErasedBox ----------------------------
(***************************************************************************)
(* Four handles and two blocks: a block can be shared by three handles     *)
(* while a fourth makes another box, and a freed block is handed out again *)
(* while its last destructor has only just finished.                       *)
(***************************************************************************)
EXTENDS ErasedBox
=============================================================================
