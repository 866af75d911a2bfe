--------------------------- MODULE MCErrorRecords ---------------------------
(***************************************************************************)
(* Two threads, one library error, one foreign error, and a context that   *)
(* is a text or empty.  The threads are alike.                             *)
(***************************************************************************)
EXTENDS ErrorRecords, TLC

MCCodeOf == [text \in Ours |-> 1]
MCContexts == {<<"x">>, <<>>}
\* Many errors live at once, or captured ones, or some of both.
MCBounds == {[held |-> 2, links |-> 4, values |-> 0, message |-> 3],
             [held |-> 1, links |-> 3, values |-> 3, message |-> 3],
             [held |-> 2, links |-> 2, values |-> 1, message |-> 3]}
ThreadSymmetry == Permutations(Thread)
=============================================================================
