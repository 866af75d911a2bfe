-------------------------------- MODULE Spawn --------------------------------
(***************************************************************************)
(* Starting a program: fork, the descriptors of the child, exec, and the   *)
(* pipe on which the child says why it could not (core/syscall/shim/       *)
(* spawn.c under core.os.start_process).                                   *)
(*                                                                         *)
(* The threads of the parent share its descriptor table, so the pipe of    *)
(* one is inherited by the child of another.  A caller may name a number   *)
(* nothing is open at: the pipe of a start may then be what is there when  *)
(* the child looks.  What setsid, setpgid and chdir do is left out, except *)
(* that each can fail.                                                     *)
(***************************************************************************)
EXTENDS Integers, Sequences, FiniteSets, FiniteSetsExt, Functions

CONSTANTS
  Thread,      \* the threads that start programs
  Fd,          \* descriptor numbers, from 0
  Streams,     \* files the parent was started with, not close on exec
  Opened,      \* files core.os opened, close on exec
  Tables,      \* descriptor tables the parent may have
  Requests     \* Requests[t][own]: values of ProcAttr.files thread t may give while the
               \* program has the files own

ReadEnd(t) == <<"read", t>>
WriteEnd(t) == <<"write", t>>
File == Streams \cup Opened \cup {ReadEnd(t) : t \in Thread} \cup {WriteEnd(t) : t \in Thread}

NoFile == <<>>
Stale == <<"stale">>        \* what a number names at which no file of the program is open
Free == [file |-> NoFile, cloexec |-> FALSE]
Entry == [file : File, cloexec : BOOLEAN] \cup {Free}

ASSUME FdAssumption == Fd \subseteq Nat /\ {0, 1, 2} \subseteq Fd
ASSUME FileAssumption ==
  /\ Streams \cap Opened = {}
  /\ {NoFile, Stale} \cap (Streams \cup Opened) = {}
  /\ \A t \in Thread : {ReadEnd(t), WriteEnd(t)} \cap (Streams \cup Opened) = {}
\* What a caller names is -1 or a descriptor number, and every slot has a number.
ASSUME RequestAssumption ==
  \A t \in Thread : \A own \in SUBSET (Streams \cup Opened) : \A files \in Requests[t][own] :
    files \in Seq(Fd \cup {-1}) /\ 0 .. Len(files) - 1 \subseteq Fd
ASSUME TableAssumption == Tables \subseteq [Fd -> [file : Streams, cloexec : {FALSE}]
                                               \cup [file : Opened, cloexec : {TRUE}] \cup {Free}]

VARIABLES
  table,     \* the parent's descriptors
  call,      \* where a thread is in spawn, and its local variables
  child,     \* its last child: place, descriptors, arguments and loop index, and the
             \* files the caller named (history)
  said,      \* what is in the report pipe: nothing, less than an errno, an errno or more
  fate,      \* what became of the child (history)
  lent       \* whether a program was given an end of the report pipe (history)

vars == <<table, call, child, said, fate, lent>>

\* asked: the files named at the start (history).  result: what the call before answered.
Idle == [at |-> "idle", files |-> <<>>, asked |-> <<>>, got |-> "nothing", result |-> "none"]
NoChild == [at |-> "none", table |-> [f \in Fd |-> Free], fds |-> <<>>, i |-> 0, report |-> 0, asked |-> <<>>]

\* The slots the array of the child has an entry for, from 0.
Count(t) == Len(child[t].fds)
Slots(t) == 0 .. Count(t) - 1

Unused(tab, floor) == {f \in Fd : f >= floor /\ tab[f] = Free}
Holds(tab, file) == \E f \in Fd : tab[f].file = file
FdOf(tab, file) == CHOOSE f \in Fd : tab[f].file = file

Closed(tab, files) == [f \in Fd |-> IF tab[f].file \in files THEN Free ELSE tab[f]]

Init ==
  /\ table \in Tables
  /\ call = [t \in Thread |-> Idle]
  /\ child = [t \in Thread |-> NoChild]
  /\ said = [t \in Thread |-> "nothing"]
  /\ fate = [t \in Thread |-> "none"]
  /\ lent = [t \in Thread |-> FALSE]

-----------------------------------------------------------------------------
\* The files the program has, the report pipes aside.
Own == {table[f].file : f \in Fd} \cap (Streams \cup Opened)

\* The program's own file at a number.
FileAt(fd) == IF fd = -1 THEN NoFile
              ELSE IF table[fd].file \in Streams \cup Opened THEN table[fd].file ELSE Stale

Named(fds) == [i \in DOMAIN fds |-> FileAt(fds[i])]

\* start_process: an empty list means the three this process has.  Bounds: a thread has one
\* program at a time, and no process still has an end of the pipe of its start before, which
\* the model has no second name for.
Start(t, files) ==
  LET all == IF files = <<>> THEN <<0, 1, 2>> ELSE files IN
  /\ call[t].at = "idle" /\ child[t].at \in {"none", "reaped"}
  /\ \A u \in Thread : ~ Holds(child[u].table, ReadEnd(t)) /\ ~ Holds(child[u].table, WriteEnd(t))
  /\ call' = [call EXCEPT ![t] = [Idle EXCEPT !.at = "pipe", !.files = all, !.asked = Named(all)]]
  /\ child' = [child EXCEPT ![t] = NoChild]
  /\ fate' = [fate EXCEPT ![t] = "none"]
  /\ lent' = [lent EXCEPT ![t] = FALSE]
  /\ UNCHANGED <<table, said>>

Goto(t, place) == call' = [call EXCEPT ![t].at = place]
Answer(t, result) == call' = [call EXCEPT ![t] = [Idle EXCEPT !.result = result]]

\* A failure of the parent's own closes what there is of the pipe.
GiveUp(t) ==
  /\ table' = Closed(table, {ReadEnd(t), WriteEnd(t)})
  /\ Answer(t, "failed")

MakePipe(t) ==
  /\ call[t].at = "pipe"
  /\ \/ \E r, w \in Unused(table, 0) :
          /\ r < w /\ (\A f \in Unused(table, 0) : f < w => f = r)
          /\ table' = [table EXCEPT ![r] = [file |-> ReadEnd(t), cloexec |-> FALSE],
                                    ![w] = [file |-> WriteEnd(t), cloexec |-> FALSE]]
          /\ said' = [said EXCEPT ![t] = "nothing"]
          /\ Goto(t, "mark read")
     \/ GiveUp(t) /\ UNCHANGED said
  /\ UNCHANGED <<child, fate, lent>>

\* Close on exec, one end and then the other.
MarkRead(t) ==
  /\ call[t].at = "mark read"
  /\ \/ /\ table' = [table EXCEPT ![FdOf(table, ReadEnd(t))].cloexec = TRUE]
        /\ Goto(t, "mark write")
     \/ GiveUp(t)
  /\ UNCHANGED <<child, said, fate, lent>>

\* Variant: the write end is left as it is.
MarkWrite_Not(t) ==
  /\ call[t].at = "mark write"
  /\ Goto(t, "fork")
  /\ UNCHANGED <<table, child, said, fate, lent>>

MarkWrite(t) ==
  /\ call[t].at = "mark write"
  /\ \/ /\ table' = [table EXCEPT ![FdOf(table, WriteEnd(t))].cloexec = TRUE]
        /\ Goto(t, "fork")
     \/ GiveUp(t)
  /\ UNCHANGED <<child, said, fate, lent>>

\* The child has every descriptor there is at this moment, and closes the read end.
Fork(t) ==
  /\ call[t].at = "fork"
  /\ \/ /\ child' = [child EXCEPT ![t] =
              [NoChild EXCEPT !.at = "setup", !.table = Closed(table, {ReadEnd(t)}),
                              !.fds = call[t].files, !.report = FdOf(table, WriteEnd(t)),
                              !.asked = call[t].asked]]
        /\ Goto(t, "close")
        /\ UNCHANGED table
     \/ GiveUp(t) /\ UNCHANGED child
  /\ UNCHANGED <<said, fate, lent>>

\* Variant: the parent keeps its write end.
CloseWrite_Not(t) ==
  /\ call[t].at = "close"
  /\ Goto(t, "read")
  /\ UNCHANGED <<table, child, said, fate, lent>>

CloseWrite(t) ==
  /\ call[t].at = "close"
  /\ table' = Closed(table, {WriteEnd(t)})
  /\ Goto(t, "read")
  /\ UNCHANGED <<child, said, fate, lent>>

\* End of file: nobody has the write end any more.
Alone(t) == /\ ~ Holds(table, WriteEnd(t))
            /\ \A u \in Thread : ~ Holds(child[u].table, WriteEnd(t))

Read(t) ==
  /\ call[t].at = "read"
  /\ \/ said[t] = "errno" /\ call' = [call EXCEPT ![t].at = "close read", ![t].got = "errno"]
     \/ /\ said[t] = "part" \/ (said[t] = "nothing" /\ Alone(t))
        /\ call' = [call EXCEPT ![t].at = "close read", ![t].got = "end"]
  /\ UNCHANGED <<table, child, said, fate, lent>>

\* Variant: a failed start that does not collect its child.
CloseRead_NoWait(t) ==
  /\ call[t].at = "close read"
  /\ table' = Closed(table, {ReadEnd(t)})
  /\ Answer(t, IF call[t].got = "end" THEN "started" ELSE "failed")
  /\ UNCHANGED <<child, said, fate, lent>>

\* Four bytes are an errno of the child, which is waited for before the call answers;
\* anything less is a start.
CloseRead(t) ==
  /\ call[t].at = "close read"
  /\ table' = Closed(table, {ReadEnd(t)})
  /\ IF call[t].got = "end" THEN Answer(t, "started") ELSE Goto(t, "wait")
  /\ UNCHANGED <<child, said, fate, lent>>

WaitFailed(t) ==
  /\ call[t].at = "wait" /\ child[t].at = "exited"
  /\ child' = [child EXCEPT ![t].at = "reaped"]
  /\ Answer(t, "failed")
  /\ UNCHANGED <<table, said, fate, lent>>

\* Process.wait, by the caller.
Wait(t) ==
  /\ call[t].at = "idle" /\ child[t].at = "exited"
  /\ child' = [child EXCEPT ![t].at = "reaped"]
  /\ UNCHANGED <<table, call, said, fate, lent>>

-----------------------------------------------------------------------------
ChildAt(t, place) == child[t].at = place /\ UNCHANGED <<table, call>>

Exits(t) == child' = [child EXCEPT ![t] = [NoChild EXCEPT !.at = "exited"]]
Fails(t) == child' = [child EXCEPT ![t].at = "failed"]

\* Signals to their defaults, setsid, setpgid, chdir.
ChildSetup(t) ==
  /\ ChildAt(t, "setup")
  /\ child' = [child EXCEPT ![t].at = "report"] \/ Fails(t)
  /\ UNCHANGED <<said, fate, lent>>

\* move_above: the lowest free descriptor from count up, close on exec.
Above(t, tab) == Min(Unused(tab, Count(t)))
Dup(tab, from, to) == [tab EXCEPT ![to] = [file |-> tab[from].file, cloexec |-> TRUE]]

\* Variant: the report pipe stays where it is.
ChildMoveReport_Not(t) ==
  /\ ChildAt(t, "report")
  /\ child' = [child EXCEPT ![t].at = "first"]
  /\ UNCHANGED <<said, fate, lent>>

\* The report pipe gets out of the way of the slots.
ChildMoveReport(t) ==
  LET c == child[t] IN
  /\ ChildAt(t, "report")
  /\ \/ c.report >= Count(t) /\ child' = [child EXCEPT ![t].at = "first"]
     \/ /\ c.report < Count(t) /\ Unused(c.table, Count(t)) # {}
        /\ child' = [child EXCEPT ![t].at = "first", ![t].report = Above(t, c.table),
                                  ![t].table = Dup(@, c.report, Above(t, c.table))]
     \/ c.report < Count(t) /\ Fails(t)
  /\ UNCHANGED <<said, fate, lent>>

\* The loop goes on with the next slot, or past the last one to the next part.
Advance(t, c, next) ==
  child' = [child EXCEPT ![t] =
    IF c.i + 1 = Count(t) THEN [c EXCEPT !.i = 0, !.at = next] ELSE [c EXCEPT !.i = @ + 1]]

\* Variant: one pass of dup2.
ChildFirst_Not(t) ==
  /\ ChildAt(t, "first")
  /\ Advance(t, child[t], "second")
  /\ UNCHANGED <<said, fate, lent>>

\* First pass: a source in a slot that will be written before it is read moves above, which
\* fails when nothing is open there.
ChildFirst(t) ==
  LET c == child[t]
      source == c.fds[c.i + 1]
      moves == source >= 0 /\ source < c.i
  IN
  /\ ChildAt(t, "first")
  /\ \/ ~ moves /\ Advance(t, c, "second")
     \/ /\ moves /\ c.table[source] # Free /\ Unused(c.table, Count(t)) # {}
        /\ Advance(t, [c EXCEPT !.fds[c.i + 1] = Above(t, c.table),
                                !.table = Dup(@, source, Above(t, c.table))], "second")
     \/ moves /\ Fails(t)
  /\ UNCHANGED <<said, fate, lent>>

\* Second pass: the slot is closed, kept, or made a copy of its source.
ChildSecond(t) ==
  LET c == child[t]
      source == c.fds[c.i + 1]
      put(entry) == Advance(t, [c EXCEPT !.table[c.i] = entry], "exec")
  IN
  /\ ChildAt(t, "second")
  /\ \/ source < 0 /\ put(Free)
     \/ /\ source >= 0 /\ c.table[source] # Free
        /\ put([file |-> c.table[source].file, cloexec |-> FALSE])
     \/ source >= 0 /\ Fails(t)
  /\ UNCHANGED <<said, fate, lent>>

\* The program has this file in one of its slots.
InSlot(t, file) == \E i \in Slots(t) : child[t].table[i].file = file

\* execve closes what is close on exec, which no slot is.
ChildExec(t) ==
  /\ ChildAt(t, "exec")
  /\ \/ /\ child' = [child EXCEPT ![t].at = "running", ![t].table =
              [f \in Fd |-> IF @[f].cloexec THEN Free ELSE @[f]]]
        /\ fate' = [fate EXCEPT ![t] = "program"]
        /\ lent' = [u \in Thread |-> lent[u] \/ InSlot(t, ReadEnd(u)) \/ InSlot(t, WriteEnd(u))]
     \/ Fails(t) /\ UNCHANGED <<fate, lent>>
  /\ UNCHANGED said

\* The errno goes wherever the report descriptor leads, and the child exits.
ChildFailed(t) ==
  LET c == child[t] IN
  /\ ChildAt(t, "failed")
  /\ said' = IF c.table[c.report].file = WriteEnd(t) THEN [said EXCEPT ![t] = "errno"] ELSE said
  /\ Exits(t)
  /\ fate' = [fate EXCEPT ![t] = "failed"]
  /\ UNCHANGED lent

\* A signal ends the child before it has become the program.
ChildKilled(t) ==
  /\ child[t].at \in {"setup", "report", "first", "second", "exec", "failed"}
  /\ Exits(t)
  /\ fate' = [fate EXCEPT ![t] = "killed"]
  /\ UNCHANGED <<table, call, said, lent>>

\* The program ends, if it does.
ProgramEnds(t) ==
  /\ ChildAt(t, "running")
  /\ Exits(t)
  /\ UNCHANGED <<said, fate, lent>>

\* A program that was given an end of a report pipe uses it as it would any file.
ProgramWrites(t, u) ==
  /\ ChildAt(t, "running") /\ InSlot(t, WriteEnd(u)) /\ Holds(table, ReadEnd(u))
  /\ said[u] # "errno"
  /\ \E more \in {"part", "errno"} : said' = [said EXCEPT ![u] = more]
  /\ UNCHANGED <<child, fate, lent>>

ProgramReads(t, u) ==
  /\ ChildAt(t, "running") /\ InSlot(t, ReadEnd(u))
  /\ said[u] # "nothing"
  /\ \E rest \in {"nothing", "part"} : said' = [said EXCEPT ![u] = rest]
  /\ UNCHANGED <<child, fate, lent>>

-----------------------------------------------------------------------------
Parent(t) ==
  \/ MakePipe(t) \/ MarkRead(t) \/ MarkWrite(t) \/ Fork(t) \/ CloseWrite(t)
  \/ Read(t) \/ CloseRead(t) \/ WaitFailed(t)

Child(t) ==
  \/ ChildSetup(t) \/ ChildMoveReport(t) \/ ChildFirst(t) \/ ChildSecond(t)
  \/ ChildExec(t) \/ ChildFailed(t)

Next ==
  \E t \in Thread :
    \/ \E files \in Requests[t][Own] : Start(t, files)
    \/ Parent(t) \/ Child(t) \/ ChildKilled(t) \/ ProgramEnds(t) \/ Wait(t)
    \/ \E u \in Thread : ProgramWrites(t, u) \/ ProgramReads(t, u)

\* A thread in spawn runs, and so does a child until it is the program; a program need
\* not end.
Spec == Init /\ [][Next]_vars /\ \A t \in Thread : WF_vars(Parent(t)) /\ WF_vars(Child(t))

-----------------------------------------------------------------------------
Places == {"idle", "pipe", "mark read", "mark write", "fork", "close", "read", "close read", "wait"}
ChildPlaces == {"none", "setup", "report", "first", "second", "exec", "failed", "running",
                "exited", "reaped"}

\* Every variable in its range; past its move the report pipe is out of the slots.
TypeOK ==
  /\ table \in [Fd -> Entry]
  /\ \A t \in Thread :
       /\ call[t].at \in Places /\ call[t].got \in {"nothing", "errno", "end"}
       /\ child[t].at \in ChildPlaces /\ child[t].table \in [Fd -> Entry]
       /\ child[t].at \in {"first", "second", "exec"} => child[t].report >= Count(t)
  /\ said \in [Thread -> {"nothing", "part", "errno"}]
  /\ fate \in [Thread -> {"none", "program", "failed", "killed"}] /\ lent \in [Thread -> BOOLEAN]

Running(t) == child[t].at = "running"
Crossed(t) == \E u \in Thread \ {t} : Running(u) /\ Holds(child[u].table, WriteEnd(t))

(***************************************************************************)
(* The program has in every slot the file the caller named for it, however *)
(* sources and slots overlap, and nothing where it named none.  Where the  *)
(* caller named a number no file of the program was open at, it has the    *)
(* file of another slot or an end of a report pipe, never a file of the    *)
(* parent nobody named.                                                    *)
(***************************************************************************)
GivesWhatWasAsked ==
  \A t \in Thread : Running(t) =>
    \A i \in Slots(t) :
      LET have == child[t].table[i].file
          want == child[t].asked[i + 1]
      IN IF want = Stale THEN have \in Streams \cup Opened => have \in Range(child[t].asked)
         ELSE have = want

(***************************************************************************)
(* What spawn answers is what happened to the child: a failure before the  *)
(* exec is never taken for a start, nor a program that runs for a failure. *)
(* A child that is killed before the exec says nothing and counts as one   *)
(* that started.  A start whose pipe a program was given in a slot, for a  *)
(* number nothing was open at, may be answered by what that program        *)
(* writes.                                                                 *)
(***************************************************************************)
AnswersTruly ==
  \A t \in Thread : call[t].at = "idle" /\ ~ lent[t] =>
    /\ call[t].result = "started" => fate[t] \in {"program", "killed"}
    /\ call[t].result = "failed" => fate[t] # "program"

(***************************************************************************)
(* Nothing this library opened crosses into a program that was not given   *)
(* it, the pipe of its own start included; only the pipe of a start on     *)
(* another thread can, when the fork falls between pipe and fcntl.         *)
(***************************************************************************)
OpenedStaysBehind ==
  \A t \in Thread : Running(t) =>
    \A f \in Fd \ Slots(t) :
      child[t].table[f].file \notin Opened \cup {ReadEnd(t), WriteEnd(t)}

(***************************************************************************)
(* A start that is over has closed its pipe, and one that failed leaves no *)
(* process to collect.                                                     *)
(***************************************************************************)
NothingLeft ==
  \A t \in Thread : call[t].at = "idle" =>
    /\ ~ Holds(table, ReadEnd(t)) /\ ~ Holds(table, WriteEnd(t))
    /\ call[t].result = "failed" => child[t].at \in {"none", "reaped"}

(***************************************************************************)
(* A start is answered as soon as its own child has become the program or  *)
(* said why not, unless a program has the pipe: one of another thread by   *)
(* the race above, or any in the slot of a number nothing was open at.     *)
(***************************************************************************)
StartIsAnswered ==
  \A t \in Thread : call[t].at = "read" ~> (call[t].at = "idle" \/ Crossed(t) \/ lent[t])
=============================================================================
