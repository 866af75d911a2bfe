----------------------------- MODULE SignalPipe -----------------------------
(***************************************************************************)
(* The self pipe every caught signal goes down (core/syscall/shim/signal.c *)
(* under core/os/signal).                                                  *)
(*                                                                         *)
(* A handler runs on top of whatever its thread was doing, between any two *)
(* steps of it, and its own steps interleave with those of the other       *)
(* threads.  A byte in the pipe is the signal it names.                    *)
(***************************************************************************)
EXTENDS Naturals, Sequences, SequencesExt, FiniteSets

CONSTANTS
  Thread,        \* the program's threads
  Caller,        \* the threads that call notify, ignore and stop
  Reader,        \* the threads that read the pipe
  Signal,        \* the signals of this program
  Uncatchable,   \* those whose disposition nobody can change
  Pipe,          \* pipes the process has descriptors for
  Room,          \* bytes a pipe holds
  None           \* no pipe

ASSUME ThreadAssumption == Caller \subseteq Thread /\ Reader \subseteq Thread
ASSUME SignalAssumption == Uncatchable \subseteq Signal
ASSUME PipeAssumption == None \notin Pipe /\ Room \in Nat \ {0}
\* One thread sets the program up, as the comments of core_syscall_signal_pipe and
\* notify ask.
ASSUME CallerAssumption == \A t, u \in Caller : t = u

VARIABLES
  source, sink,     \* the two ends, as the pipe they belong to
  content,          \* the bytes in every pipe; a pipe not open has none
  open,             \* the pipes that are open
  disposition,      \* what the platform does with a signal
  original,         \* what it did before the program called anything (history)
  taken,            \* signals notify or ignore took over since their last stop (history)
  reset,            \* signals a stop of nothing taken over set to the default (history)
  saved, held,      \* what this file remembers of that
  errno,            \* of every thread
  frames,           \* the handlers running on a thread, the innermost last
  call,             \* the call a thread is in and its local variables
  result,           \* the errno a thread's last call reported, and the one it met
  given             \* the pipes notify has answered with (history)

ends == <<source, sink, content, open>>
memory == <<saved, held>>
history == <<original, taken, reset>>
vars == <<source, sink, content, open, disposition, original, taken, reset, saved, held,
          errno, frames, call, result, given>>

Dispositions == {"default", "ignore", "deliver"}
Errnos == {"none", "EMFILE", "EINVAL", "EBADF", "EINTR"}

\* pipe: the local variable ends.  was: the local variables was and back.
Idle == [op |-> "idle", sig |-> None, at |-> "idle", pipe |-> None, was |-> "none", own |-> "none"]

-----------------------------------------------------------------------------
Init ==
  /\ source = None /\ sink = None
  /\ content = [p \in Pipe |-> <<>>] /\ open = {}
  /\ disposition \in [Signal -> {"default", "ignore"}]
  /\ \A s \in Uncatchable : disposition[s] = "default"
  /\ original = disposition /\ taken = {} /\ reset = {}
  /\ saved = [s \in Signal |-> FALSE] /\ held = [s \in Signal |-> "none"]
  /\ errno = [t \in Thread |-> "none"]
  /\ frames = [t \in Thread |-> <<>>]
  /\ call = [t \in Thread |-> Idle]
  /\ result = [t \in Thread |-> [errno |-> "none", own |-> "none"]]
  /\ given = {}

\* A thread that no handler has borrowed is at this point of its call.
At(t, place) == call[t].at = place /\ frames[t] = <<>>

Goto(t, place) == call' = [call EXCEPT ![t].at = place]

\* A system call of this thread failed; what errno holds is read one step later.
Fails(t, e) ==
  /\ errno' = [errno EXCEPT ![t] = e]
  /\ call' = [call EXCEPT ![t].at = "fail", ![t].own = e]

Done(t) ==
  /\ call' = [call EXCEPT ![t] = Idle]
  /\ result' = [result EXCEPT ![t] = [errno |-> "none", own |-> "none"]]

Enter(t, op, s) ==
  /\ At(t, "idle") /\ t \in Caller
  /\ call' = [call EXCEPT ![t] = [Idle EXCEPT !.op = op, !.sig = s, !.at =
                CASE op = "notify" -> "look" [] op = "ignore" -> "act" [] OTHER -> "restore"]]
  /\ UNCHANGED <<ends, disposition, history, memory, errno, frames, result, given>>

\* The call returns the errno it finds.
Fail(t) ==
  /\ At(t, "fail")
  /\ result' = [result EXCEPT ![t] = [errno |-> errno[t], own |-> call[t].own]]
  /\ call' = [call EXCEPT ![t] = Idle]
  /\ UNCHANGED <<ends, disposition, history, memory, errno, frames, given>>

-----------------------------------------------------------------------------
\* Variant: a catch that installs the handler and leaves the pipe for later.
PipeLook_Later(t) ==
  /\ At(t, "look")
  /\ Goto(t, "act")
  /\ UNCHANGED <<ends, disposition, history, memory, errno, frames, result, given>>

\* core_syscall_signal_pipe, the first thing a catch does.
PipeLook(t) ==
  /\ At(t, "look")
  /\ Goto(t, IF source = None THEN "make" ELSE "act")
  /\ UNCHANGED <<ends, disposition, history, memory, errno, frames, result, given>>

PipeMake(t) ==
  /\ At(t, "make")
  /\ \/ \E p \in Pipe \ open :
          /\ open' = open \cup {p}
          /\ call' = [call EXCEPT ![t].at = "mark", ![t].pipe = p]
          /\ UNCHANGED errno
     \/ Fails(t, "EMFILE") /\ UNCHANGED open
  /\ UNCHANGED <<source, sink, content, disposition, history, memory, frames, result, given>>

\* The two fcntl calls; when one fails both ends are closed again.
PipeMark(t) ==
  /\ At(t, "mark")
  /\ \/ Goto(t, "source") /\ UNCHANGED <<open, errno>>
     \/ Fails(t, "EBADF") /\ open' = open \ {call[t].pipe}
  /\ UNCHANGED <<source, sink, content, disposition, history, memory, frames, result, given>>

PipeSource(t) ==
  /\ At(t, "source")
  /\ source' = call[t].pipe
  /\ Goto(t, "sink")
  /\ UNCHANGED <<sink, content, open, disposition, history, memory, errno, frames, result, given>>

PipeSink(t) ==
  /\ At(t, "sink")
  /\ sink' = call[t].pipe
  /\ Goto(t, "act")
  /\ UNCHANGED <<source, content, open, disposition, history, memory, errno, frames, result, given>>

-----------------------------------------------------------------------------
\* sigaction, of a catch or an ignore.
Act(t) ==
  LET s == call[t].sig IN
  /\ At(t, "act")
  /\ IF s \in Uncatchable
       THEN Fails(t, "EINVAL") /\ UNCHANGED <<disposition, taken>>
       ELSE /\ disposition' = [disposition EXCEPT ![s] =
                                 IF call[t].op = "notify" THEN "deliver" ELSE "ignore"]
            /\ taken' = taken \cup {s}
            /\ call' = [call EXCEPT ![t].at = "remember", ![t].was = disposition[s]]
            /\ UNCHANGED errno
  /\ UNCHANGED <<ends, original, reset, memory, frames, result, given>>

Remembered(t) ==
  /\ IF call[t].op = "notify" THEN Goto(t, "answer") /\ UNCHANGED result ELSE Done(t)
  /\ UNCHANGED <<ends, disposition, history, errno, frames, given>>

\* What was there is remembered the first time.
Remember(t) ==
  LET s == call[t].sig IN
  /\ At(t, "remember")
  /\ saved' = [saved EXCEPT ![s] = TRUE]
  /\ held' = IF saved[s] THEN held ELSE [held EXCEPT ![s] = call[t].was]
  /\ Remembered(t)

\* notify answers with the read end, which the catch has made sure of.
Answer(t) ==
  /\ At(t, "answer")
  /\ given' = given \cup {source}
  /\ Done(t)
  /\ UNCHANGED <<ends, disposition, history, memory, errno, frames>>

\* restore: with nothing remembered the signal goes to the platform default.
RestoreDefault(t) ==
  LET s == call[t].sig IN
  /\ At(t, "restore") /\ ~ saved[s]
  /\ IF s \in Uncatchable
       THEN Fails(t, "EINVAL") /\ UNCHANGED <<disposition, reset, result>>
       ELSE /\ disposition' = [disposition EXCEPT ![s] = "default"]
            /\ reset' = reset \cup {s}
            /\ Done(t)
            /\ UNCHANGED errno
  /\ UNCHANGED <<ends, original, taken, memory, frames, given>>

\* Variant: a stop that always leaves the platform's default.
RestoreTake_Default(t) ==
  LET s == call[t].sig IN
  /\ At(t, "restore") /\ saved[s]
  /\ call' = [call EXCEPT ![t].at = "back", ![t].was = "default"]
  /\ saved' = [saved EXCEPT ![s] = FALSE]
  /\ UNCHANGED <<ends, disposition, history, held, errno, frames, result, given>>

RestoreTake(t) ==
  LET s == call[t].sig IN
  /\ At(t, "restore") /\ saved[s]
  /\ call' = [call EXCEPT ![t].at = "back", ![t].was = held[s]]
  /\ saved' = [saved EXCEPT ![s] = FALSE]
  /\ UNCHANGED <<ends, disposition, history, held, errno, frames, result, given>>

RestoreBack(t) ==
  /\ At(t, "back")
  /\ disposition' = [disposition EXCEPT ![call[t].sig] = call[t].was]
  /\ taken' = taken \ {call[t].sig}
  /\ Done(t)
  /\ UNCHANGED <<ends, original, reset, memory, errno, frames, given>>

-----------------------------------------------------------------------------
\* A signal arrives on a thread that is not handling that signal already.
Interrupt(t, s) ==
  /\ disposition[s] = "deliver"
  /\ \A i \in DOMAIN frames[t] : frames[t][i].sig # s
  /\ frames' = [frames EXCEPT ![t] =
                  Append(@, [sig |-> s, at |-> "load", fd |-> None, errno |-> "none"])]
  /\ UNCHANGED <<ends, disposition, history, memory, errno, call, result, given>>

Handling(t, place) == frames[t] # <<>> /\ Last(frames[t]).at = place

Frame(t, f) == frames' = [frames EXCEPT ![t] = Append(Front(@), f)]

\* deliver: keep errno and load the write end.
HandlerLoad(t) ==
  /\ Handling(t, "load")
  /\ Frame(t, [Last(frames[t]) EXCEPT !.at = "write", !.fd = sink, !.errno = errno[t]])
  /\ UNCHANGED <<ends, disposition, history, memory, errno, call, result, given>>

\* write: the byte goes in, or the write is interrupted and made again, or there is no
\* pipe.  The write end is a blocking descriptor: a write to a full pipe waits.
HandlerWrite(t) ==
  LET f == Last(frames[t]) IN
  /\ Handling(t, "write")
  /\ \/ /\ f.fd = None
        /\ Frame(t, [f EXCEPT !.at = "return"])
        /\ UNCHANGED <<content, errno>>
     \/ /\ f.fd # None /\ Len(content[f.fd]) < Room
        /\ content' = [content EXCEPT ![f.fd] = Append(@, f.sig)]
        /\ Frame(t, [f EXCEPT !.at = "return"])
        /\ UNCHANGED errno
     \/ /\ f.fd # None /\ errno[t] # "EINTR"
        /\ errno' = [errno EXCEPT ![t] = "EINTR"]
        /\ UNCHANGED <<content, frames>>
  /\ UNCHANGED <<source, sink, open, disposition, history, memory, call, result, given>>

\* Variant: a handler that leaves errno as its write left it.
HandlerReturn_KeepsErrno(t) ==
  /\ Handling(t, "return")
  /\ frames' = [frames EXCEPT ![t] = Front(@)]
  /\ UNCHANGED <<ends, disposition, history, memory, errno, call, result, given>>

HandlerReturn(t) ==
  /\ Handling(t, "return")
  /\ errno' = [errno EXCEPT ![t] = Last(frames[t]).errno]
  /\ frames' = [frames EXCEPT ![t] = Front(@)]
  /\ UNCHANGED <<ends, disposition, history, memory, call, result, given>>

\* The program reads a byte from a pipe it was given.
Read(t) ==
  /\ t \in Reader /\ At(t, "idle")
  /\ \E p \in given :
       /\ content[p] # <<>>
       /\ content' = [content EXCEPT ![p] = Tail(@)]
  /\ UNCHANGED <<source, sink, open, disposition, history, memory, errno, frames, call, result, given>>

-----------------------------------------------------------------------------
Step(t) ==
  \/ Fail(t) \/ PipeLook(t) \/ PipeMake(t) \/ PipeMark(t) \/ PipeSource(t) \/ PipeSink(t)
  \/ Act(t) \/ Remember(t) \/ Answer(t)
  \/ RestoreDefault(t) \/ RestoreTake(t) \/ RestoreBack(t)

Handler(t) == HandlerLoad(t) \/ HandlerWrite(t) \/ HandlerReturn(t)

Next ==
  \E t \in Thread :
    \/ \E s \in Signal : Interrupt(t, s)
    \/ \E s \in Signal, op \in {"notify", "ignore", "stop"} : Enter(t, op, s)
    \/ Step(t) \/ Handler(t) \/ Read(t)

\* Threads and handlers run, a reader that can read does, and a write that waits for room
\* is not passed over for ever.
Spec ==
  /\ Init /\ [][Next]_vars
  /\ \A t \in Thread : WF_vars(Step(t)) /\ SF_vars(Handler(t)) /\ WF_vars(Read(t))

-----------------------------------------------------------------------------
\* Every variable in its range; a flag is set only with something remembered.
TypeOK ==
  /\ source \in Pipe \cup {None} /\ sink \in Pipe \cup {None}
  /\ open \subseteq Pipe /\ given \subseteq Pipe \cup {None}
  /\ \A p \in Pipe : content[p] \in Seq(Signal) /\ Len(content[p]) <= Room
  /\ disposition \in [Signal -> Dispositions] /\ original \in [Signal -> Dispositions]
  /\ taken \subseteq Signal /\ reset \subseteq Signal
  /\ saved \in [Signal -> BOOLEAN] /\ held \in [Signal -> Dispositions \cup {"none"}]
  /\ \A s \in Signal : saved[s] => held[s] # "none"
  /\ errno \in [Thread -> Errnos]

\* No handler ever runs before there is a pipe, or with one that is not the
\* program's (the comments of sink and core_syscall_signal_catch).
NoSignalInTheWindow ==
  \A t \in Thread : \A i \in DOMAIN frames[t] :
    frames[t][i].at # "load" => frames[t][i].fd \in open

\* The descriptor notify gives is the same one every time, and the one the
\* handlers write to.  This is of one calling thread, as the comment of
\* core_syscall_signal_pipe asks.
OnePipe == given \subseteq {sink}

(***************************************************************************)
(* A signal arrives where the program waits for it: from the first moment  *)
(* it can interrupt anything, its handler finds the one pipe whose other   *)
(* end notify handed out.                                                  *)
(***************************************************************************)
SignalsFindTheirReader == NoSignalInTheWindow /\ OnePipe

\* What a signal that was taken over has to go back to.
Before(s) == IF s \in reset THEN "default" ELSE original[s]

(***************************************************************************)
(* However notify, ignore and stop follow each other, the first stop after *)
(* any number of them puts back what the program started with, never this  *)
(* library's own handler or an earlier ignore.  A stop of a signal nothing *)
(* took over since its last stop leaves the platform's default, and that   *)
(* is then what a later stop puts back.                                    *)
(***************************************************************************)
StopRestores ==
  [][\A t \in Thread : call[t].op = "stop" /\ call'[t].op = "idle" /\ result'[t].errno = "none" =>
       LET s == call[t].sig IN
       disposition'[s] = IF s \in taken THEN Before(s) ELSE "default"]_vars

(***************************************************************************)
(* A handler that interrupts a call does not change why the call failed.   *)
(***************************************************************************)
ErrnoIsOwn == \A t \in Thread : result[t].errno = result[t].own

(***************************************************************************)
(* "A full pipe drops the byte": a handler returns whatever the pipe holds *)
(* and whichever thread it borrowed.                                       *)
(***************************************************************************)
HandlerReturns == \A t \in Thread : Handling(t, "write") ~> ~ Handling(t, "write")
-----------------------------------------------------------------------------
(* The inductive invariant behind SignalsFindTheirReader, ErrnoIsOwn and   *)
(* StopRestores.                                                           *)
Ours == {"look", "make", "mark", "source", "sink", "answer"}
Places == Ours \cup {"idle", "act", "remember", "restore", "back", "fail"}

Calls ==
  [op : {"idle", "notify", "ignore", "stop"}, sig : Signal \cup {None}, at : Places,
   pipe : Pipe \cup {None}, was : Dispositions \cup {"none"}, own : Errnos]
Frames ==
  [sig : Signal, at : {"load", "write", "return"}, fd : Pipe \cup {None}, errno : Errnos]

Typed ==
  /\ content \in [Pipe -> Seq(Signal)]
  /\ call \in [Thread -> Calls]
  /\ frames \in [Thread -> Seq(Frames)]
  /\ result \in [Thread -> [errno : Errnos, own : Errnos]]

\* What a thread's place in its call says of the call.
CallInv(t) ==
  /\ call[t].op = "idle" <=> call[t].at = "idle"
  /\ call[t].at # "idle" => t \in Caller /\ call[t].sig \in Signal
  /\ call[t].at \in Ours => call[t].op = "notify"
  /\ call[t].at \in {"act", "remember"} => call[t].op \in {"notify", "ignore"}
  /\ call[t].at \in {"restore", "back"} => call[t].op = "stop"
  /\ call[t].at = "fail" => call[t].own # "none"

\* The ends are of one open pipe, and the write end is the last to be set: before
\* the call that makes the pipe leaves it nothing was told to use it.
EndsInv(t) ==
  /\ call[t].at \in {"make", "mark", "source"} => source = None
  /\ call[t].at \in {"mark", "source"} => call[t].pipe \in open
  /\ call[t].at = "sink" => source = call[t].pipe /\ source \in open /\ sink = None
  /\ call[t].op = "notify" /\ call[t].at \in {"act", "remember", "answer"} => sink # None

PipeInv ==
  /\ source # None => source \in open
  /\ sink # None => sink = source
  /\ (\A t \in Thread : call[t].at # "sink") => sink = source
  /\ given \subseteq {sink} \ {None}
  /\ \A s \in Signal : disposition[s] = "deliver" => sink # None

FramesInv(t) ==
  /\ frames[t] # <<>> => sink # None
  /\ \A i \in DOMAIN frames[t] : frames[t][i].at # "load" => frames[t][i].fd = sink

\* What stop has to put back is known, or the call that knows it is on its way.
Between(s) == \E t \in Thread : call[t].at \in {"remember", "back"} /\ call[t].sig = s

DispositionInv ==
  /\ \A s \in Signal : original[s] # "deliver"
  /\ \A s \in Signal : s \in taken <=> saved[s] \/ Between(s)
  /\ \A s \in Signal : saved[s] => held[s] = Before(s)
  /\ \A s \in Signal : ~ saved[s] /\ ~ Between(s) => disposition[s] = Before(s)
  /\ \A t \in Thread : call[t].at = "back" =>
       call[t].was = Before(call[t].sig) /\ ~ saved[call[t].sig]
  /\ \A t \in Thread : call[t].at = "remember" =>
       /\ call[t].was # "none"
       /\ ~ saved[call[t].sig] => call[t].was = Before(call[t].sig)

\* The first handler to have loaded errno, and nobody before it, keeps the one the
\* call failed with.
Unloaded(t, n) == \A i \in 1 .. n : frames[t][i].at = "load"

ErrnoInv(t) ==
  /\ result[t].errno = result[t].own
  /\ call[t].at = "fail" =>
       /\ Unloaded(t, Len(frames[t])) => errno[t] = call[t].own
       /\ \A k \in DOMAIN frames[t] :
            Unloaded(t, k - 1) /\ frames[t][k].at # "load" => frames[t][k].errno = call[t].own

IInv ==
  /\ TypeOK /\ Typed /\ PipeInv /\ DispositionInv
  /\ \A t \in Thread : CallInv(t) /\ EndsInv(t) /\ FramesInv(t) /\ ErrnoInv(t)
=============================================================================
