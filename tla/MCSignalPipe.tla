---------------------------- MODULE MCSignalPipe ----------------------------
(***************************************************************************)
(* Two threads, one of which sets the program up and then reads; a signal  *)
(* that can be caught and one that cannot.                                 *)
(***************************************************************************)
EXTENDS SignalPipe
=============================================================================
