---------------------------- MODULE MCBufReader ----------------------------
(***************************************************************************)
(* Five bytes: a two byte rune, \r, \n, and a lead byte the input cuts     *)
(* short; a buffer of three.  The ending and the rune can straddle two     *)
(* windows, and the input is longer than one.                              *)
(***************************************************************************)
EXTENDS BufReader

MCWidth == <<2, 1, 1, 1, 1>>
MCLookahead == <<2, 1, 1, 1, 2>>

Bulk == {"discard", "write_to"}

\* One client leaves out the methods that fill over a held failure, the other the
\* put-back that write_to does not clear.
MCClients == {Methods \ Bulk, Methods \ {"unread_byte"}}
=============================================================================
