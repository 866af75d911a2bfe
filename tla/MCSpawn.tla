------------------------------- MODULE MCSpawn -------------------------------
(***************************************************************************)
(* A parent with its three streams and a file of its own, one with two of  *)
(* the streams closed, and one with all of them closed, so that the report *)
(* pipe falls among the slots.  One thread alone asks for every            *)
(* arrangement of three slots, the numbers nothing is open at included.    *)
(* Where all the streams are closed and the file is the other one, two     *)
(* threads start programs at once, and one of them may name the numbers    *)
(* the pipes of both get.                                                  *)
(***************************************************************************)
EXTENDS Spawn

CONSTANTS one, two, in, out, err, file, other

MCFd == 0 .. 9
Stream(name) == [file |-> name, cloexec |-> FALSE]
Private(name) == [file |-> name, cloexec |-> TRUE]

WithFirst(entries) ==
  [f \in MCFd |-> IF f + 1 \in DOMAIN entries THEN entries[f + 1] ELSE Free]

AllClosed(name) == WithFirst(<<Free, Free, Free, Free, Private(name)>>)
MCTables == {WithFirst(<<Stream(in), Stream(out), Stream(err), Private(file)>>),
             WithFirst(<<Stream(in), Free, Free, Private(file)>>),
             AllClosed(file), AllClosed(other)}

MCRequests ==
  [t \in Thread |-> [own \in SUBSET (Streams \cup Opened) |->
    IF file \in own THEN (IF t = one THEN [1 .. 3 -> -1 .. 4] \cup {<<>>, <<4>>} ELSE {})
    ELSE IF t = one THEN {<<0>>, <<4, 1>>} ELSE {<<4>>}]]
=============================================================================
