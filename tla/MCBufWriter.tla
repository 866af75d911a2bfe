---------------------------- MODULE MCBufWriter ----------------------------
(***************************************************************************)
(* A buffer of three bytes, writes up to twice its size.                   *)
(***************************************************************************)
EXTENDS BufWriter
=============================================================================
