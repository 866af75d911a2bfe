-------------------------- MODULE SignalPipeProofs --------------------------
(***************************************************************************)
(* For any threads, signals and pipes, and handlers interrupting anything  *)
(* and each other: a handler finds the one pipe whose other end notify     *)
(* gave out, stop puts back what the program started with, and no handler  *)
(* changes why a call failed.  One thread calls notify, ignore and stop    *)
(* (CallerAssumption).                                                     *)
(***************************************************************************)
EXTENDS SignalPipe, SequenceTheorems, TLAPS

(* What one thread's step leaves alone.                                    *)
LEMMA Moved ==
  ASSUME call \in [Thread -> Calls], NEW t \in Thread, NEW c \in Calls,
         call' = [call EXCEPT ![t] = c]
  PROVE  /\ call' \in [Thread -> Calls]
         /\ call'[t] = c
         /\ \A u \in Thread \ {t} : call'[u] = call[u]
OBVIOUS

\* While a thread is in a call no other one is.
LEMMA Lone ==
  ASSUME IInv, NEW t \in Thread, t \in Caller
  PROVE  \A u \in Thread \ {t} : call[u].at = "idle"
BY CallerAssumption DEF IInv, CallInv

StepOf(t) ==
  /\ \A u \in Thread \ {t} :
       call'[u] = call[u] /\ frames'[u] = frames[u] /\ errno'[u] = errno[u] /\ result'[u] = result[u]
  /\ sink' = sink \/ sink = None

LEMMA Others ==
  ASSUME IInv, NEW t \in Thread, t \in Caller, StepOf(t)
  PROVE  \A u \in Thread \ {t} : CallInv(u)' /\ EndsInv(u)' /\ FramesInv(u)' /\ ErrnoInv(u)'
<1> SUFFICES ASSUME NEW u \in Thread \ {t}
             PROVE  CallInv(u)' /\ EndsInv(u)' /\ FramesInv(u)' /\ ErrnoInv(u)'
  OBVIOUS
<1>1. call'[u] = call[u] /\ frames'[u] = frames[u] /\ errno'[u] = errno[u] /\ result'[u] = result[u]
  BY DEF StepOf
<1>2. call[u].at = "idle" /\ call'[u].at = "idle"
  BY <1>1, Lone
<1>3. CallInv(u) /\ FramesInv(u) /\ ErrnoInv(u)
  BY DEF IInv
<1>4. CallInv(u)'
  BY <1>1, <1>3 DEF CallInv
<1>5. EndsInv(u)'
  BY <1>2 DEF EndsInv
<1>6. FramesInv(u)'
  BY <1>1, <1>3 DEF FramesInv, StepOf
<1>7. ErrnoInv(u)'
  BY <1>1, <1>2, <1>3 DEF ErrnoInv
<1> QED
  BY <1>4, <1>5, <1>6, <1>7

LEMMA InitIInv == Init => IInv
<1> SUFFICES ASSUME Init PROVE IInv
  OBVIOUS
<1>1. Idle \in Calls
  BY DEF Idle, Calls, Places, Ours, Errnos
<1>2. TypeOK
  BY PipeAssumption DEF Init, TypeOK, Dispositions, Errnos, history
<1>3. Typed
  BY <1>1 DEF Init, Typed, Errnos
<1>4. PipeInv /\ DispositionInv
  BY DEF Init, PipeInv, DispositionInv, Before, Between, Idle
<1>5. ASSUME NEW t \in Thread PROVE CallInv(t) /\ EndsInv(t) /\ FramesInv(t) /\ ErrnoInv(t)
  BY DEF Init, CallInv, EndsInv, FramesInv, ErrnoInv, Idle, Ours
<1> QED
  BY <1>2, <1>3, <1>4, <1>5 DEF IInv

-----------------------------------------------------------------------------
(* A thread enters a call and leaves it.                                   *)

LEMMA EnterStep ==
  ASSUME IInv, NEW t \in Thread, NEW s \in Signal, NEW op \in {"notify", "ignore", "stop"},
         Enter(t, op, s)
  PROVE  IInv'
<1> DEFINE first == CASE op = "notify" -> "look" [] op = "ignore" -> "act" [] OTHER -> "restore"
           c == [Idle EXCEPT !.op = op, !.sig = s, !.at = first]
<1>1. /\ c \in Calls /\ c.op = op /\ c.sig = s /\ c.at = first
      /\ first \in {"look", "act", "restore"}
  BY DEF Idle, Calls, Places, Ours, Errnos
<1>2. /\ t \in Caller /\ frames[t] = <<>> /\ call[t].at = "idle"
      /\ call' = [call EXCEPT ![t] = c]
      /\ UNCHANGED <<ends, disposition, history, memory, errno, frames, result, given>>
  BY DEF Enter, At
<1>3. /\ call' \in [Thread -> Calls] /\ call'[t] = c
      /\ \A u \in Thread \ {t} : call'[u] = call[u]
  <2> HIDE DEF c
  <2> QED
    BY <1>1, <1>2, Moved DEF IInv, Typed
<1>4. TypeOK' /\ Typed'
  BY <1>2, <1>3 DEF IInv, TypeOK, Typed, ends, memory, history
<1>5. PipeInv'
  <2>1. \A u \in Thread : call'[u].at # "sink" <=> call[u].at # "sink"
    BY <1>1, <1>2, <1>3
  <2> QED
    BY <1>2, <2>1 DEF IInv, PipeInv, ends
<1>6. DispositionInv'
  <2>1. \A u \in Thread : ~ call'[u].at \in {"remember", "back"}
    BY <1>1, <1>2, <1>3, Lone
  <2>2. \A u \in Thread : ~ call[u].at \in {"remember", "back"}
    BY <1>2, Lone
  <2> QED
    BY <1>2, <2>1, <2>2 DEF IInv, DispositionInv, Before, Between, memory, history
<1>7. \A u \in Thread \ {t} : CallInv(u)' /\ EndsInv(u)' /\ FramesInv(u)' /\ ErrnoInv(u)'
  BY <1>2, <1>3, Others DEF StepOf, ends
<1>8. CallInv(t)' /\ EndsInv(t)'
  BY <1>1, <1>2, <1>3 DEF CallInv, EndsInv, Ours
<1>9. FramesInv(t)' /\ ErrnoInv(t)'
  BY <1>1, <1>2, <1>3 DEF IInv, FramesInv, ErrnoInv
<1> QED
  BY <1>4, <1>5, <1>6, <1>7, <1>8, <1>9 DEF IInv

-----------------------------------------------------------------------------
(* The steps of a call.                                                    *)

\* What is known of the thread in a call, and of what a step of it that moves it
\* to c has kept.
LEMMA Within ==
  ASSUME IInv, NEW t \in Thread, call[t].at # "idle", frames[t] = <<>>,
         NEW c \in Calls, call' = [call EXCEPT ![t] = c], UNCHANGED frames,
         \A u \in Thread \ {t} : errno'[u] = errno[u] /\ result'[u] = result[u],
         sink' = sink \/ sink = None
  PROVE  /\ call' \in [Thread -> Calls] /\ call'[t] = c
         /\ \A u \in Thread \ {t} : call'[u] = call[u] /\ call[u].at = "idle"
         /\ \A u \in Thread \ {t} : CallInv(u)' /\ EndsInv(u)' /\ FramesInv(u)' /\ ErrnoInv(u)'
         /\ FramesInv(t)'
         /\ call[t] \in Calls /\ call[t].sig \in Signal /\ t \in Caller
         /\ CallInv(t) /\ EndsInv(t) /\ ErrnoInv(t)
<1>1. call' \in [Thread -> Calls] /\ call'[t] = c /\ \A u \in Thread \ {t} : call'[u] = call[u]
  BY Moved DEF IInv, Typed
<1>2. /\ CallInv(t) /\ EndsInv(t) /\ ErrnoInv(t)
      /\ call[t] \in Calls /\ call[t].sig \in Signal /\ t \in Caller
  BY DEF IInv, Typed, CallInv
<1>3. StepOf(t)
  BY <1>1 DEF StepOf
<1>4. \A u \in Thread \ {t} : CallInv(u)' /\ EndsInv(u)' /\ FramesInv(u)' /\ ErrnoInv(u)'
  BY <1>2, <1>3, Others
<1>5. FramesInv(t)'
  BY DEF FramesInv
<1> QED
  BY <1>1, <1>2, <1>4, <1>5, Lone

\* Why the call failed is still in errno, however many handlers have run since.
LEMMA FailStep ==
  ASSUME IInv, NEW t \in Thread, Fail(t)
  PROVE  IInv'
<1>1. /\ call[t].at = "fail" /\ frames[t] = <<>>
      /\ result' = [result EXCEPT ![t] = [errno |-> errno[t], own |-> call[t].own]]
      /\ call' = [call EXCEPT ![t] = Idle]
      /\ UNCHANGED <<ends, disposition, history, memory, errno, frames, given>>
  BY DEF Fail, At
<1>2. Idle \in Calls
  BY DEF Idle, Calls, Places, Ours, Errnos
<1>3. /\ result' \in [Thread -> [errno : Errnos, own : Errnos]]
      /\ result'[t] = [errno |-> errno[t], own |-> call[t].own]
      /\ \A u \in Thread \ {t} : result'[u] = result[u]
  BY <1>1 DEF IInv, Typed, TypeOK, Calls, history
<1>4. /\ call' \in [Thread -> Calls] /\ call'[t] = Idle
      /\ \A u \in Thread \ {t} : call'[u] = call[u] /\ call[u].at = "idle"
      /\ \A u \in Thread \ {t} : CallInv(u)' /\ EndsInv(u)' /\ FramesInv(u)' /\ ErrnoInv(u)'
      /\ FramesInv(t)' /\ ErrnoInv(t)
  BY <1>1, <1>2, <1>3, Within DEF ends
<1>5. TypeOK' /\ Typed'
  BY <1>1, <1>3, <1>4 DEF IInv, TypeOK, Typed, ends, memory, history
<1>6. PipeInv'
  <2>1. \A u \in Thread : call[u].at # "sink"
    BY <1>1, <1>4
  <2> QED
    BY <1>1, <2>1 DEF IInv, PipeInv, ends
<1>7. DispositionInv'
  <2>1. \A u \in Thread : ~ call'[u].at \in {"remember", "back"}
    BY <1>4 DEF Idle
  <2>2. \A u \in Thread : ~ call[u].at \in {"remember", "back"}
    BY <1>1, <1>4
  <2> QED
    BY <1>1, <2>1, <2>2 DEF IInv, DispositionInv, Before, Between, memory, history
<1>8. CallInv(t)' /\ EndsInv(t)'
  BY <1>4 DEF CallInv, EndsInv, Idle, Ours
<1>9. ErrnoInv(t)'
  <2>1. errno[t] = call[t].own
    BY <1>1, <1>4 DEF ErrnoInv, Unloaded
  <2> QED
    BY <1>3, <1>4, <2>1 DEF ErrnoInv, Idle
<1> QED
  BY <1>4, <1>5, <1>6, <1>7, <1>8, <1>9 DEF IInv

LEMMA LookStep ==
  ASSUME IInv, NEW t \in Thread, PipeLook(t)
  PROVE  IInv'
<1> DEFINE place == IF source = None THEN "make" ELSE "act"
           c == [call[t] EXCEPT !.at = place]
<1>1. /\ call[t].at = "look" /\ frames[t] = <<>> /\ call' = [call EXCEPT ![t] = c]
      /\ UNCHANGED <<ends, disposition, history, memory, errno, frames, result, given>>
  BY DEF PipeLook, At, Goto
<1>2. c \in Calls /\ c.at = place /\ c.op = call[t].op /\ c.sig = call[t].sig
  BY DEF IInv, Typed, Calls, Places, Ours
<1> HIDE DEF c
<1>3. /\ call' \in [Thread -> Calls] /\ call'[t] = c
      /\ \A u \in Thread \ {t} : call'[u] = call[u] /\ call[u].at = "idle"
      /\ \A u \in Thread \ {t} : CallInv(u)' /\ EndsInv(u)' /\ FramesInv(u)' /\ ErrnoInv(u)'
      /\ FramesInv(t)' /\ CallInv(t) /\ ErrnoInv(t)
  BY <1>1, <1>2, Within DEF ends
<1>4. TypeOK' /\ Typed'
  BY <1>1, <1>3 DEF IInv, TypeOK, Typed, ends, memory, history
<1>5. \A u \in Thread : /\ call[u].at \notin {"sink", "remember", "back"}
                        /\ call'[u].at \notin {"sink", "remember", "back"}
  BY <1>1, <1>2, <1>3
<1>6. PipeInv'
  BY <1>1, <1>5 DEF IInv, PipeInv, ends
<1>7. DispositionInv'
  BY <1>1, <1>5 DEF IInv, DispositionInv, Before, Between, memory, history
<1>8. sink = source
  BY <1>5 DEF IInv, PipeInv
<1>9. CallInv(t)' /\ EndsInv(t)'
  BY <1>1, <1>2, <1>3, <1>8 DEF CallInv, EndsInv, Ours, ends
<1>10. ErrnoInv(t)'
  BY <1>1, <1>2, <1>3 DEF ErrnoInv
<1> QED
  BY <1>3, <1>4, <1>6, <1>7, <1>9, <1>10 DEF IInv

\* A system call of a call failed.  If the pipe is closed again nobody knew it.
LEMMA FailsStep ==
  ASSUME IInv, NEW t \in Thread, NEW e \in Errnos \ {"none"}, Fails(t, e), frames[t] = <<>>,
         call[t].at \in {"make", "mark", "act", "restore"},
         \/ open' = open
         \/ call[t].at = "mark" /\ open' = open \ {call[t].pipe},
         UNCHANGED <<source, sink, content, disposition, history, memory, frames, result, given>>
  PROVE  IInv'
<1> DEFINE c == [call[t] EXCEPT !.at = "fail", !.own = e]
<1>1. call' = [call EXCEPT ![t] = c] /\ errno' = [errno EXCEPT ![t] = e]
  BY DEF Fails
<1>2. /\ c \in Calls /\ c.at = "fail" /\ c.own = e
      /\ c.op = call[t].op /\ c.sig = call[t].sig
  BY DEF IInv, Typed, Calls, Places
<1> HIDE DEF c
<1>3. /\ errno' \in [Thread -> Errnos] /\ errno'[t] = e
      /\ \A u \in Thread \ {t} : errno'[u] = errno[u]
  BY <1>1 DEF IInv, TypeOK, history
<1>4. /\ call' \in [Thread -> Calls] /\ call'[t] = c
      /\ \A u \in Thread \ {t} : call'[u] = call[u] /\ call[u].at = "idle"
      /\ \A u \in Thread \ {t} : CallInv(u)' /\ EndsInv(u)' /\ FramesInv(u)' /\ ErrnoInv(u)'
      /\ FramesInv(t)' /\ CallInv(t) /\ EndsInv(t) /\ ErrnoInv(t)
  BY <1>1, <1>2, <1>3, Within
<1>5. open' \subseteq Pipe /\ (source # None => source \in open')
  BY DEF IInv, TypeOK, PipeInv, EndsInv, history
<1>6. TypeOK' /\ Typed'
  BY <1>3, <1>4, <1>5 DEF IInv, TypeOK, Typed, memory, history
<1>7. \A u \in Thread : /\ call[u].at \notin {"sink", "remember", "back"}
                        /\ call'[u].at \notin {"sink", "remember", "back"}
  BY <1>2, <1>4
<1>8. PipeInv'
  BY <1>5, <1>7 DEF IInv, PipeInv
<1>9. DispositionInv'
  BY <1>7 DEF IInv, DispositionInv, Before, Between, memory, history
<1>10. CallInv(t)' /\ EndsInv(t)'
  BY <1>2, <1>4 DEF CallInv, EndsInv, Ours
<1>11. ErrnoInv(t)'
  BY <1>2, <1>3, <1>4 DEF ErrnoInv
<1> QED
  BY <1>4, <1>6, <1>8, <1>9, <1>10, <1>11 DEF IInv

LEMMA MakeStep ==
  ASSUME IInv, NEW t \in Thread, PipeMake(t)
  PROVE  IInv'
<1>1. /\ call[t].at = "make" /\ frames[t] = <<>>
      /\ UNCHANGED <<source, sink, content, disposition, history, memory, frames, result, given>>
  BY DEF PipeMake, At
<1>2. CASE Fails(t, "EMFILE") /\ UNCHANGED open
  BY <1>1, <1>2, FailsStep DEF Errnos
<1>3. ASSUME NEW p \in Pipe \ open, open' = open \cup {p},
             call' = [call EXCEPT ![t].at = "mark", ![t].pipe = p], UNCHANGED errno
      PROVE  IInv'
  <2> DEFINE c == [call[t] EXCEPT !.at = "mark", !.pipe = p]
  <2>1. call' = [call EXCEPT ![t] = c]
    BY <1>3
  <2>2. c \in Calls /\ c.at = "mark" /\ c.pipe = p /\ c.op = call[t].op /\ c.sig = call[t].sig
    BY DEF IInv, Typed, Calls, Places, Ours
  <2> HIDE DEF c
  <2>3. /\ call' \in [Thread -> Calls] /\ call'[t] = c
        /\ \A u \in Thread \ {t} : call'[u] = call[u] /\ call[u].at = "idle"
        /\ \A u \in Thread \ {t} : CallInv(u)' /\ EndsInv(u)' /\ FramesInv(u)' /\ ErrnoInv(u)'
        /\ FramesInv(t)' /\ CallInv(t) /\ EndsInv(t) /\ ErrnoInv(t)
    BY <1>1, <1>3, <2>1, <2>2, Within
  <2>4. TypeOK' /\ Typed'
    BY <1>1, <1>3, <2>3 DEF IInv, TypeOK, Typed, memory, history
  <2>5. \A u \in Thread : /\ call[u].at \notin {"sink", "remember", "back"}
                          /\ call'[u].at \notin {"sink", "remember", "back"}
    BY <1>1, <2>2, <2>3
  <2>6. PipeInv'
    BY <1>1, <1>3, <2>5 DEF IInv, PipeInv
  <2>7. DispositionInv'
    BY <1>1, <2>5 DEF IInv, DispositionInv, Before, Between, memory, history
  <2>8. CallInv(t)' /\ EndsInv(t)' /\ ErrnoInv(t)'
    BY <1>1, <1>3, <2>2, <2>3 DEF CallInv, EndsInv, ErrnoInv, Ours
  <2> QED
    BY <2>3, <2>4, <2>6, <2>7, <2>8 DEF IInv
<1> QED
  BY <1>2, <1>3 DEF PipeMake

LEMMA MarkStep ==
  ASSUME IInv, NEW t \in Thread, PipeMark(t)
  PROVE  IInv'
<1>1. /\ call[t].at = "mark" /\ frames[t] = <<>>
      /\ UNCHANGED <<source, sink, content, disposition, history, memory, frames, result, given>>
  BY DEF PipeMark, At
<1>2. CASE Fails(t, "EBADF") /\ open' = open \ {call[t].pipe}
  BY <1>1, <1>2, FailsStep DEF Errnos
<1>3. CASE Goto(t, "source") /\ UNCHANGED <<open, errno>>
  <2> DEFINE c == [call[t] EXCEPT !.at = "source"]
  <2>1. call' = [call EXCEPT ![t] = c] /\ UNCHANGED <<open, errno>>
    BY <1>3 DEF Goto
  <2>2. c \in Calls /\ c.at = "source" /\ c.pipe = call[t].pipe /\ c.op = call[t].op /\ c.sig = call[t].sig
    BY DEF IInv, Typed, Calls, Places, Ours
  <2> HIDE DEF c
  <2>3. /\ call' \in [Thread -> Calls] /\ call'[t] = c
        /\ \A u \in Thread \ {t} : call'[u] = call[u] /\ call[u].at = "idle"
        /\ \A u \in Thread \ {t} : CallInv(u)' /\ EndsInv(u)' /\ FramesInv(u)' /\ ErrnoInv(u)'
        /\ FramesInv(t)' /\ CallInv(t) /\ EndsInv(t) /\ ErrnoInv(t)
    BY <1>1, <2>1, <2>2, Within
  <2>4. TypeOK' /\ Typed'
    BY <1>1, <2>1, <2>3 DEF IInv, TypeOK, Typed, memory, history
  <2>5. \A u \in Thread : /\ call[u].at \notin {"sink", "remember", "back"}
                          /\ call'[u].at \notin {"sink", "remember", "back"}
    BY <1>1, <2>2, <2>3
  <2>6. PipeInv'
    BY <1>1, <2>1, <2>5 DEF IInv, PipeInv
  <2>7. DispositionInv'
    BY <1>1, <2>5 DEF IInv, DispositionInv, Before, Between, memory, history
  <2>8. CallInv(t)' /\ EndsInv(t)' /\ ErrnoInv(t)'
    BY <1>1, <2>1, <2>2, <2>3 DEF CallInv, EndsInv, ErrnoInv, Ours
  <2> QED
    BY <2>3, <2>4, <2>6, <2>7, <2>8 DEF IInv
<1> QED
  BY <1>2, <1>3 DEF PipeMark

LEMMA SourceStep ==
  ASSUME IInv, NEW t \in Thread, PipeSource(t)
  PROVE  IInv'
<1> DEFINE c == [call[t] EXCEPT !.at = "sink"]
<1>1. /\ call[t].at = "source" /\ frames[t] = <<>> /\ call' = [call EXCEPT ![t] = c]
      /\ source' = call[t].pipe
      /\ UNCHANGED <<sink, content, open, disposition, history, memory, errno, frames, result, given>>
  BY DEF PipeSource, At, Goto
<1>2. c \in Calls /\ c.at = "sink" /\ c.pipe = call[t].pipe /\ c.op = call[t].op /\ c.sig = call[t].sig
  BY DEF IInv, Typed, Calls, Places, Ours
<1> HIDE DEF c
<1>3. /\ call' \in [Thread -> Calls] /\ call'[t] = c
      /\ \A u \in Thread \ {t} : call'[u] = call[u] /\ call[u].at = "idle"
      /\ \A u \in Thread \ {t} : CallInv(u)' /\ EndsInv(u)' /\ FramesInv(u)' /\ ErrnoInv(u)'
      /\ FramesInv(t)' /\ CallInv(t) /\ EndsInv(t) /\ ErrnoInv(t)
  BY <1>1, <1>2, Within
<1>4. source = None /\ sink = None /\ call[t].pipe \in open
  BY <1>1, <1>3 DEF IInv, PipeInv, EndsInv
<1>5. TypeOK' /\ Typed'
  BY <1>1, <1>3, <1>4 DEF IInv, TypeOK, Typed, memory, history
<1>6. PipeInv'
  BY <1>1, <1>2, <1>3, <1>4 DEF IInv, PipeInv
<1>7. DispositionInv'
  <2>1. \A u \in Thread : call[u].at \notin {"remember", "back"} /\ call'[u].at \notin {"remember", "back"}
    BY <1>1, <1>2, <1>3
  <2> QED
    BY <1>1, <2>1 DEF IInv, DispositionInv, Before, Between, memory, history
<1>8. CallInv(t)' /\ EndsInv(t)' /\ ErrnoInv(t)'
  BY <1>1, <1>2, <1>3, <1>4 DEF CallInv, EndsInv, ErrnoInv, Ours
<1> QED
  BY <1>3, <1>5, <1>6, <1>7, <1>8 DEF IInv

LEMMA SinkStep ==
  ASSUME IInv, NEW t \in Thread, PipeSink(t)
  PROVE  IInv'
<1> DEFINE c == [call[t] EXCEPT !.at = "act"]
<1>1. /\ call[t].at = "sink" /\ frames[t] = <<>> /\ call' = [call EXCEPT ![t] = c]
      /\ sink' = call[t].pipe
      /\ UNCHANGED <<source, content, open, disposition, history, memory, errno, frames, result, given>>
  BY DEF PipeSink, At, Goto
<1>2. c \in Calls /\ c.at = "act" /\ c.op = call[t].op /\ c.sig = call[t].sig
  BY DEF IInv, Typed, Calls, Places, Ours
<1> HIDE DEF c
<1>3. EndsInv(t) /\ source = call[t].pipe /\ source \in open /\ sink = None
  BY <1>1 DEF IInv, EndsInv
<1>4. /\ call' \in [Thread -> Calls] /\ call'[t] = c
      /\ \A u \in Thread \ {t} : call'[u] = call[u] /\ call[u].at = "idle"
      /\ \A u \in Thread \ {t} : CallInv(u)' /\ EndsInv(u)' /\ FramesInv(u)' /\ ErrnoInv(u)'
      /\ FramesInv(t)' /\ CallInv(t) /\ ErrnoInv(t)
  BY <1>1, <1>2, <1>3, Within
<1>5. TypeOK' /\ Typed' /\ source # None
  BY <1>1, <1>3, <1>4, PipeAssumption DEF IInv, TypeOK, Typed, memory, history
<1>6. PipeInv'
  BY <1>1, <1>3, <1>5 DEF IInv, PipeInv
<1>7. DispositionInv'
  <2>1. \A u \in Thread : call[u].at \notin {"remember", "back"} /\ call'[u].at \notin {"remember", "back"}
    BY <1>1, <1>2, <1>4
  <2> QED
    BY <1>1, <2>1 DEF IInv, DispositionInv, Before, Between, memory, history
<1>8. CallInv(t)' /\ EndsInv(t)' /\ ErrnoInv(t)'
  BY <1>1, <1>2, <1>3, <1>4, <1>5 DEF CallInv, EndsInv, ErrnoInv, Ours
<1> QED
  BY <1>4, <1>5, <1>6, <1>7, <1>8 DEF IInv

-----------------------------------------------------------------------------
(* What the platform does with a signal, and what is remembered of it.     *)

LEMMA ActStep ==
  ASSUME IInv, NEW t \in Thread, Act(t)
  PROVE  IInv'
<1> DEFINE s == call[t].sig
           new == IF call[t].op = "notify" THEN "deliver" ELSE "ignore"
           c == [call[t] EXCEPT !.at = "remember", !.was = disposition[s]]
<1>1. /\ call[t].at = "act" /\ frames[t] = <<>>
      /\ UNCHANGED <<source, sink, content, open, original, reset, memory, frames, result, given>>
  BY DEF Act, At, ends
<1>2. CASE Fails(t, "EINVAL") /\ UNCHANGED <<disposition, taken>>
  BY <1>1, <1>2, FailsStep DEF Errnos, history
<1>3. ASSUME disposition' = [disposition EXCEPT ![s] = new], taken' = taken \cup {s},
             call' = [call EXCEPT ![t].at = "remember", ![t].was = disposition[s]],
             UNCHANGED errno
      PROVE  IInv'
  <2>1. call' = [call EXCEPT ![t] = c]
    BY <1>3
  <2>2. /\ CallInv(t) /\ EndsInv(t) /\ ErrnoInv(t) /\ call[t] \in Calls /\ s \in Signal
        /\ disposition \in [Signal -> Dispositions]
    BY <1>1 DEF IInv, Typed, TypeOK, CallInv, history
  <2>3. /\ c \in Calls /\ c.at = "remember" /\ c.op = call[t].op /\ c.sig = s
        /\ c.was = disposition[s] /\ disposition[s] \in Dispositions
    BY <2>2 DEF Calls, Places
  <2> HIDE DEF c
  <2>4. /\ call' \in [Thread -> Calls] /\ call'[t] = c
        /\ \A u \in Thread \ {t} : call'[u] = call[u] /\ call[u].at = "idle"
        /\ \A u \in Thread \ {t} : CallInv(u)' /\ EndsInv(u)' /\ FramesInv(u)' /\ ErrnoInv(u)'
        /\ FramesInv(t)'
    BY <1>1, <1>3, <2>1, <2>3, Within
  <2>5. /\ disposition' \in [Signal -> Dispositions] /\ disposition'[s] = new
        /\ \A r \in Signal \ {s} : disposition'[r] = disposition[r]
    BY <1>3, <2>2 DEF Dispositions
  <2>6. TypeOK' /\ Typed'
    BY <1>1, <1>3, <2>4, <2>5 DEF IInv, TypeOK, Typed, memory, history
  <2>7. \A u \in Thread : call[u].at \notin {"sink", "remember", "back"}
    BY <1>1, <2>4
  <2>8. \A u \in Thread : call'[u].at \notin {"sink", "back"} /\ (call'[u].at = "remember" <=> u = t)
    BY <2>3, <2>4, <2>7
  <2>9. PipeInv'
    <3>1. new = "deliver" => sink # None
      BY <1>1, <2>2 DEF EndsInv
    <3> QED
      BY <1>1, <2>5, <2>7, <3>1 DEF IInv, PipeInv
  <2>10. DispositionInv'
    <3>1. ~ saved[s] => disposition[s] = Before(s)
      BY <2>2, <2>7 DEF IInv, DispositionInv, Between
    <3>2. \A r \in Signal : Between(r)' <=> r = s
      BY <2>3, <2>4, <2>8 DEF Between
    <3>3. \A r \in Signal \ {s} : ~ saved[r] => disposition'[r] = Before(r)
      BY <2>5, <2>7 DEF IInv, DispositionInv, Between
    <3>4. saved' = saved /\ held' = held /\ original' = original /\ \A r \in Signal : Before(r)' = Before(r)
      BY <1>1 DEF memory, Before
    <3>5. call'[t].sig = s /\ call'[t].was = disposition[s] /\ disposition[s] # "none"
      BY <2>3, <2>4 DEF Dispositions
    <3>6. \A r \in Signal : r \in taken' <=> saved'[r] \/ Between(r)'
      <4>1. \A r \in Signal : ~ Between(r)
        BY <2>7 DEF Between
      <4> QED
        BY <1>3, <3>2, <3>4, <4>1 DEF IInv, DispositionInv
    <3> QED
      BY <2>2, <2>8, <3>1, <3>2, <3>3, <3>4, <3>5, <3>6 DEF IInv, DispositionInv
  <2>11. CallInv(t)' /\ EndsInv(t)' /\ ErrnoInv(t)'
    BY <1>1, <1>3, <2>2, <2>3, <2>4 DEF CallInv, EndsInv, ErrnoInv, Ours
  <2> QED
    BY <2>4, <2>6, <2>9, <2>10, <2>11 DEF IInv
<1> QED
  BY <1>2, <1>3 DEF Act

\* The call is over, with nothing to report.
LEMMA DoneResult ==
  ASSUME Typed, NEW t \in Thread, Done(t)
  PROVE  /\ Idle \in Calls /\ call' = [call EXCEPT ![t] = Idle]
         /\ result' \in [Thread -> [errno : Errnos, own : Errnos]]
         /\ result'[t] = [errno |-> "none", own |-> "none"]
         /\ \A u \in Thread \ {t} : result'[u] = result[u]
<1>1. Idle \in Calls
  BY DEF Idle, Calls, Places, Ours, Errnos
<1> QED
  BY <1>1 DEF Done, Typed, Errnos

LEMMA DoneInv ==
  ASSUME IInv, NEW t \in Thread, Done(t), call[t].at # "idle", frames[t] = <<>>,
         UNCHANGED <<ends, frames, errno>>
  PROVE  /\ call' \in [Thread -> Calls] /\ call'[t] = Idle
         /\ result' \in [Thread -> [errno : Errnos, own : Errnos]]
         /\ \A u \in Thread \ {t} : call'[u] = call[u] /\ call[u].at = "idle"
         /\ \A u \in Thread : CallInv(u)' /\ EndsInv(u)' /\ FramesInv(u)' /\ ErrnoInv(u)'
<1>1. /\ Idle \in Calls /\ call' = [call EXCEPT ![t] = Idle]
      /\ result' \in [Thread -> [errno : Errnos, own : Errnos]]
      /\ result'[t] = [errno |-> "none", own |-> "none"]
      /\ \A u \in Thread \ {t} : result'[u] = result[u]
  BY DoneResult DEF IInv
<1>2. /\ call' \in [Thread -> Calls] /\ call'[t] = Idle
      /\ \A u \in Thread \ {t} : call'[u] = call[u] /\ call[u].at = "idle"
      /\ \A u \in Thread \ {t} : CallInv(u)' /\ EndsInv(u)' /\ FramesInv(u)' /\ ErrnoInv(u)'
      /\ FramesInv(t)'
  BY <1>1, Within DEF ends
<1>3. CallInv(t)' /\ EndsInv(t)' /\ ErrnoInv(t)'
  BY <1>1, <1>2 DEF CallInv, EndsInv, ErrnoInv, Idle, Ours
<1> QED
  BY <1>1, <1>2, <1>3

LEMMA RememberStep ==
  ASSUME IInv, NEW t \in Thread, Remember(t)
  PROVE  IInv'
<1> DEFINE s == call[t].sig
<1>1. /\ call[t].at = "remember" /\ frames[t] = <<>>
      /\ UNCHANGED <<source, sink, content, open, disposition, history, errno, frames, given>>
      /\ saved' = [saved EXCEPT ![s] = TRUE]
      /\ held' = IF saved[s] THEN held ELSE [held EXCEPT ![s] = call[t].was]
  BY DEF Remember, Remembered, At, ends
<1>2. /\ CallInv(t) /\ EndsInv(t) /\ ErrnoInv(t) /\ call[t] \in Calls /\ s \in Signal /\ t \in Caller
      /\ saved \in [Signal -> BOOLEAN] /\ held \in [Signal -> Dispositions \cup {"none"}]
      /\ \A r \in Signal : saved[r] => held[r] # "none"
  BY <1>1 DEF IInv, Typed, TypeOK, CallInv, history
<1>3. /\ \A r \in Signal : saved[r] => held[r] = Before(r)
      /\ call[t].was # "none" /\ (~ saved[s] => call[t].was = Before(s))
  BY <1>1 DEF IInv, DispositionInv
<1>4. saved' \in [Signal -> BOOLEAN] /\ \A r \in Signal \ {s} : saved'[r] = saved[r]
  BY <1>1, <1>2
<1>5. saved'[s]
  BY <1>1, <1>2
<1>6. /\ held' \in [Signal -> Dispositions \cup {"none"}]
      /\ \A r \in Signal \ {s} : held'[r] = held[r]
      /\ held'[s] = IF saved[s] THEN held[s] ELSE call[t].was
  BY <1>1, <1>2 DEF Calls
<1>7. \A r \in Signal : saved'[r] => held'[r] = Before(r) /\ held'[r] # "none"
  <2> SUFFICES ASSUME NEW r \in Signal, saved'[r]
               PROVE  held'[r] = Before(r) /\ held'[r] # "none"
    OBVIOUS
  <2>1. CASE r # s
    <3>1. saved[r] /\ held'[r] = held[r]
      BY <1>4, <1>6, <2>1
    <3> QED
      BY <1>2, <1>3, <3>1
  <2>2. CASE r = s /\ saved[s]
    <3>1. held'[r] = held[r]
      BY <1>6, <2>2
    <3> QED
      BY <1>2, <1>3, <2>2, <3>1
  <2>3. CASE r = s /\ ~ saved[s]
    BY <1>3, <1>6, <2>3
  <2> QED
    BY <2>1, <2>2, <2>3
<1>8. /\ call' \in [Thread -> Calls]
      /\ result' \in [Thread -> [errno : Errnos, own : Errnos]]
      /\ call'[t].at \in {"answer", "idle"}
      /\ \A u \in Thread \ {t} : call'[u] = call[u] /\ call[u].at = "idle"
      /\ \A u \in Thread : CallInv(u)' /\ EndsInv(u)' /\ FramesInv(u)' /\ ErrnoInv(u)'
  <2>1. CASE call[t].op = "notify"
    <3> DEFINE c == [call[t] EXCEPT !.at = "answer"]
    <3>1. call' = [call EXCEPT ![t] = c] /\ result' = result
      BY <2>1 DEF Remember, Remembered, Goto
    <3>2. c \in Calls /\ c.at = "answer" /\ c.op = call[t].op /\ c.sig = s
      BY <1>2 DEF Calls, Places, Ours
    <3> HIDE DEF c
    <3>3. /\ call' \in [Thread -> Calls] /\ call'[t] = c
          /\ \A u \in Thread \ {t} : call'[u] = call[u] /\ call[u].at = "idle"
          /\ \A u \in Thread \ {t} : CallInv(u)' /\ EndsInv(u)' /\ FramesInv(u)' /\ ErrnoInv(u)'
          /\ FramesInv(t)'
      BY <1>1, <3>1, <3>2, Within
    <3>4. CallInv(t)' /\ EndsInv(t)' /\ ErrnoInv(t)'
      BY <1>1, <1>2, <2>1, <3>1, <3>2, <3>3 DEF CallInv, EndsInv, ErrnoInv, Ours
    <3> QED
      BY <3>1, <3>2, <3>3, <3>4 DEF IInv, Typed
  <2>2. CASE call[t].op # "notify"
    <3>1. Done(t)
      BY <2>2 DEF Remember, Remembered
    <3> QED
      BY <1>1, <3>1, DoneInv DEF Idle, ends
  <2> QED
    BY <2>1, <2>2
<1>9. TypeOK' /\ Typed'
  BY <1>1, <1>4, <1>6, <1>7, <1>8 DEF IInv, TypeOK, Typed, history
<1>10. PipeInv'
  <2>1. \A u \in Thread : call[u].at # "sink" /\ call'[u].at # "sink"
    BY <1>1, <1>8
  <2> QED
    BY <1>1, <2>1 DEF IInv, PipeInv
<1>11. DispositionInv'
  <2>1. \A u \in Thread : call'[u].at \notin {"remember", "back"}
    BY <1>8
  <2>2. \A r \in Signal : ~ saved'[r] => disposition'[r] = Before(r)
    <3> SUFFICES ASSUME NEW r \in Signal, ~ saved'[r] PROVE disposition'[r] = Before(r)
      OBVIOUS
    <3>1. r # s /\ ~ saved[r]
      BY <1>4, <1>5
    <3>2. ~ Between(r)
      BY <1>8, <3>1 DEF Between
    <3> QED
      BY <1>1, <3>1, <3>2 DEF IInv, DispositionInv
  <2>3. \A r \in Signal : Before(r)' = Before(r)
    BY <1>1 DEF Before, history
  <2>4. \A r \in Signal : Between(r) <=> r = s
    BY <1>1, <1>8 DEF Between
  <2>5. \A r \in Signal : ~ Between(r)'
    BY <2>1 DEF Between
  <2>6. \A r \in Signal : r \in taken' <=> saved'[r] \/ Between(r)'
    BY <1>1, <1>4, <1>5, <2>4, <2>5 DEF IInv, DispositionInv, history
  <2> QED
    BY <1>1, <1>7, <2>1, <2>2, <2>3, <2>6 DEF IInv, DispositionInv, history
<1> QED
  BY <1>8, <1>9, <1>10, <1>11 DEF IInv

LEMMA AnswerStep ==
  ASSUME IInv, NEW t \in Thread, Answer(t)
  PROVE  IInv'
<1>1. /\ call[t].at = "answer" /\ frames[t] = <<>> /\ Done(t)
      /\ given' = given \cup {source}
      /\ UNCHANGED <<ends, disposition, history, memory, errno, frames>>
  BY DEF Answer, At
<1>2. /\ call' \in [Thread -> Calls] /\ call'[t] = Idle
      /\ result' \in [Thread -> [errno : Errnos, own : Errnos]]
      /\ \A u \in Thread \ {t} : call'[u] = call[u] /\ call[u].at = "idle"
      /\ \A u \in Thread : CallInv(u)' /\ EndsInv(u)' /\ FramesInv(u)' /\ ErrnoInv(u)'
  BY <1>1, DoneInv
<1>3. sink # None /\ source = sink
  BY <1>1 DEF IInv, PipeInv, EndsInv, CallInv, Ours
<1>4. TypeOK' /\ Typed'
  BY <1>1, <1>2, <1>3 DEF IInv, TypeOK, Typed, ends, memory, history
<1>5. \A u \in Thread : /\ call[u].at \notin {"sink", "remember", "back"}
                        /\ call'[u].at \notin {"sink", "remember", "back"}
  BY <1>1, <1>2 DEF Idle
<1>6. PipeInv'
  BY <1>1, <1>3, <1>5 DEF IInv, PipeInv, ends
<1>7. DispositionInv'
  BY <1>1, <1>5 DEF IInv, DispositionInv, Before, Between, memory, history
<1> QED
  BY <1>2, <1>4, <1>6, <1>7 DEF IInv

\* A disposition goes back to what it was before anything took the signal over, and
\* the call is over.
LEMMA PutBack ==
  ASSUME IInv, NEW t \in Thread, call[t].at \in {"restore", "back"}, frames[t] = <<>>,
         NEW s \in Signal, s = call[t].sig, ~ saved[s], NEW old, old = Before(s)',
         \A r \in Signal \ {s} : Before(r)' = Before(r),
         taken' = taken \ {s}, reset' \subseteq Signal,
         disposition' = [disposition EXCEPT ![s] = old], Done(t),
         UNCHANGED <<ends, original, memory, errno, frames, given>>
  PROVE  IInv'
<1>1. /\ call' \in [Thread -> Calls] /\ call'[t] = Idle
      /\ result' \in [Thread -> [errno : Errnos, own : Errnos]]
      /\ \A u \in Thread \ {t} : call'[u] = call[u] /\ call[u].at = "idle"
      /\ \A u \in Thread : CallInv(u)' /\ EndsInv(u)' /\ FramesInv(u)' /\ ErrnoInv(u)'
  BY DoneInv
<1>2. s \in Signal /\ disposition \in [Signal -> Dispositions] /\ original \in [Signal -> Dispositions]
  BY DEF IInv, TypeOK, CallInv, history
<1>3. old \in Dispositions
  BY <1>2 DEF Before, Dispositions
<1>4. /\ disposition' \in [Signal -> Dispositions] /\ disposition'[s] = old
      /\ \A r \in Signal \ {s} : disposition'[r] = disposition[r]
  BY <1>2, <1>3
<1>5. TypeOK' /\ Typed'
  BY <1>1, <1>4 DEF IInv, TypeOK, Typed, ends, memory, history
<1>6. \A u \in Thread : call[u].at # "sink" /\ call'[u].at \notin {"sink", "remember", "back"}
  BY <1>1 DEF Idle
<1>7. PipeInv'
  <2>1. ASSUME NEW r \in Signal, disposition'[r] = "deliver" PROVE sink # None
    <3>1. r # s
      BY <1>2, <1>4, <2>1 DEF Before, IInv, DispositionInv
    <3> QED
      BY <1>4, <2>1, <3>1 DEF IInv, PipeInv
  <2> QED
    BY <1>6, <2>1 DEF IInv, PipeInv, ends
<1>8. DispositionInv'
  <2>1. \A r \in Signal \ {s} : ~ Between(r)
    BY <1>1 DEF Between
  <2>2. \A r \in Signal : ~ Between(r)'
    BY <1>6 DEF Between
  <2>3. \A r \in Signal : ~ saved[r] => disposition'[r] = Before(r)'
    BY <1>4, <2>1 DEF IInv, DispositionInv
  <2>4. \A r \in Signal : saved[r] => held[r] = Before(r)'
    BY DEF IInv, DispositionInv
  <2>5. \A r \in Signal : r \in taken' <=> saved[r]
    BY <2>1 DEF IInv, DispositionInv
  <2>6. saved' = saved /\ held' = held /\ original' = original
    BY DEF memory
  <2> QED
    BY <1>6, <2>2, <2>3, <2>4, <2>5, <2>6 DEF IInv, DispositionInv
<1> QED
  BY <1>1, <1>5, <1>7, <1>8 DEF IInv

\* The platform's default, when nothing is remembered.
LEMMA RestoreDefaultStep ==
  ASSUME IInv, NEW t \in Thread, RestoreDefault(t)
  PROVE  IInv'
<1>0. PICK s \in Signal : s = call[t].sig
  BY DEF RestoreDefault, At, IInv, CallInv
<1>1. /\ call[t].at = "restore" /\ frames[t] = <<>> /\ ~ saved[s]
      /\ UNCHANGED <<ends, original, taken, memory, frames, given>>
  BY <1>0 DEF RestoreDefault, At
<1>2. CASE Fails(t, "EINVAL") /\ UNCHANGED <<disposition, reset, result>>
  BY <1>1, <1>2, FailsStep DEF Errnos, ends, history
<1>3. CASE /\ disposition' = [disposition EXCEPT ![s] = "default"]
           /\ reset' = reset \cup {s}
           /\ Done(t)
           /\ UNCHANGED errno
  <2>1. s \in Signal /\ t \in Caller /\ reset \subseteq Signal
    BY <1>1 DEF IInv, CallInv, TypeOK
  <2>2. Before(s)' = "default" /\ \A r \in Signal \ {s} : Before(r)' = Before(r)
    BY <1>1, <1>3 DEF Before
  <2>3. ~ Between(s)
    BY <1>1, <2>1, Lone DEF Between
  <2>4. taken' = taken \ {s}
    BY <1>1, <2>1, <2>3 DEF IInv, DispositionInv
  <2>5. reset' \subseteq Signal
    BY <1>3, <2>1
  <2> QED
    BY <1>0, <1>1, <1>3, <2>2, <2>4, <2>5, PutBack
<1> QED
  BY <1>0, <1>2, <1>3 DEF RestoreDefault

\* What was remembered is taken, and is on its way back.
LEMMA RestoreTakeStep ==
  ASSUME IInv, NEW t \in Thread, RestoreTake(t)
  PROVE  IInv'
<1> DEFINE s == call[t].sig
           c == [call[t] EXCEPT !.at = "back", !.was = held[s]]
<1>1. /\ call[t].at = "restore" /\ frames[t] = <<>> /\ saved[s]
      /\ call' = [call EXCEPT ![t] = c]
      /\ saved' = [saved EXCEPT ![s] = FALSE]
      /\ UNCHANGED <<ends, disposition, history, held, errno, frames, result, given>>
  BY DEF RestoreTake, At
<1>2. /\ CallInv(t) /\ ErrnoInv(t) /\ call[t] \in Calls /\ s \in Signal
      /\ saved \in [Signal -> BOOLEAN] /\ held \in [Signal -> Dispositions \cup {"none"}]
  BY <1>1 DEF IInv, Typed, TypeOK, CallInv, history
<1>3. c \in Calls /\ c.at = "back" /\ c.op = call[t].op /\ c.sig = s /\ c.was = held[s]
  BY <1>2 DEF Calls, Places
<1>4. held[s] = Before(s)
  BY <1>1, <1>2 DEF IInv, DispositionInv
<1> HIDE DEF c
<1>5. /\ call' \in [Thread -> Calls] /\ call'[t] = c
      /\ \A u \in Thread \ {t} : call'[u] = call[u] /\ call[u].at = "idle"
      /\ \A u \in Thread \ {t} : CallInv(u)' /\ EndsInv(u)' /\ FramesInv(u)' /\ ErrnoInv(u)'
      /\ FramesInv(t)'
  BY <1>1, <1>3, Within DEF ends
<1>6. saved' \in [Signal -> BOOLEAN] /\ \A r \in Signal \ {s} : saved'[r] = saved[r]
  BY <1>1, <1>2
<1>7. ~ saved'[s]
  BY <1>1, <1>2
<1>8. TypeOK'
  <2>1. \A r \in Signal : saved'[r] => held'[r] # "none"
    BY <1>1, <1>6, <1>7 DEF IInv, TypeOK, history
  <2> QED
    BY <1>1, <1>6, <2>1 DEF IInv, TypeOK, ends, history
<1>9. Typed'
  BY <1>1, <1>5 DEF IInv, Typed, ends
<1>10. PipeInv'
  <2>1. \A u \in Thread : call[u].at # "sink" /\ call'[u].at # "sink"
    BY <1>1, <1>3, <1>5
  <2> QED
    BY <1>1, <2>1 DEF IInv, PipeInv, ends
<1>11. DispositionInv'
  <2>1. \A r \in Signal : Before(r)' = Before(r)
    BY <1>1 DEF Before, history
  <2>2. \A r \in Signal : Between(r)' <=> r = s
    BY <1>3, <1>5 DEF Between
  <2>3. \A r \in Signal \ {s} : ~ saved'[r] => disposition'[r] = Before(r)
    <3>1. \A r \in Signal : ~ Between(r)
      BY <1>1, <1>5 DEF Between
    <3> QED
      BY <1>1, <1>6, <3>1 DEF IInv, DispositionInv
  <2>4. \A r \in Signal : saved'[r] => held'[r] = Before(r)
    BY <1>1, <1>6, <1>7 DEF IInv, DispositionInv
  <2>5. \A u \in Thread : /\ call'[u].at # "remember"
                          /\ call'[u].at = "back" => u = t
    BY <1>3, <1>5
  <2>6. (call[t].was = Before(call[t].sig))' /\ ~ saved'[call'[t].sig]
    BY <1>3, <1>4, <1>5, <1>7, <2>1, <1>2
  <2>7. \A r \in Signal : original'[r] # "deliver"
    BY <1>1 DEF IInv, DispositionInv, history
  <2>8. \A r \in Signal : ~ saved'[r] /\ ~ Between(r)' => disposition'[r] = Before(r)
    BY <2>2, <2>3
  <2>9. \A u \in Thread : (call[u].at = "back" => call[u].was = Before(call[u].sig) /\ ~ saved[call[u].sig])'
    BY <2>5, <2>6
  <2>10. \A r \in Signal : r \in taken' <=> saved'[r] \/ Between(r)'
    <3>1. \A r \in Signal : ~ Between(r)
      BY <1>1, <1>5 DEF Between
    <3> QED
      BY <1>1, <1>2, <1>6, <1>7, <2>2, <3>1 DEF IInv, DispositionInv, history
  <2> QED
    BY <2>1, <2>4, <2>5, <2>7, <2>8, <2>9, <2>10 DEF DispositionInv
<1>12. CallInv(t)' /\ EndsInv(t)' /\ ErrnoInv(t)'
  BY <1>1, <1>2, <1>3, <1>5 DEF CallInv, EndsInv, ErrnoInv, Ours
<1> QED
  BY <1>5, <1>8, <1>9, <1>10, <1>11, <1>12 DEF IInv

LEMMA RestoreBackStep ==
  ASSUME IInv, NEW t \in Thread, RestoreBack(t)
  PROVE  IInv'
<1>0. PICK s \in Signal : s = call[t].sig
  BY DEF RestoreBack, At, IInv, CallInv
<1>1. /\ call[t].at = "back" /\ frames[t] = <<>>
      /\ disposition' = [disposition EXCEPT ![s] = call[t].was]
      /\ taken' = taken \ {s}
      /\ Done(t)
      /\ UNCHANGED <<ends, original, reset, memory, errno, frames, given>>
  BY <1>0 DEF RestoreBack, At
<1>2. call[t].was = Before(s) /\ ~ saved[s]
  BY <1>0, <1>1 DEF IInv, DispositionInv
<1>3. \A r : Before(r)' = Before(r)
  BY <1>1 DEF Before
<1>4. reset' \subseteq Signal
  BY <1>1 DEF IInv, TypeOK
<1> QED
  BY <1>0, <1>1, <1>2, <1>3, <1>4, PutBack

-----------------------------------------------------------------------------
(* The handlers.                                                           *)

LEMMA Pushed ==
  ASSUME NEW q \in Seq(Frames), NEW f \in Frames
  PROVE  /\ Append(q, f) \in Seq(Frames) /\ Len(Append(q, f)) = Len(q) + 1
         /\ \A i \in 1 .. Len(q) : Append(q, f)[i] = q[i]
         /\ Append(q, f)[Len(q) + 1] = f
OBVIOUS

LEMMA Popped ==
  ASSUME NEW q \in Seq(Frames), q # <<>>
  PROVE  /\ Len(q) \in Nat \ {0} /\ Front(q) \in Seq(Frames) /\ Len(Front(q)) = Len(q) - 1
         /\ \A i \in 1 .. Len(q) - 1 : Front(q)[i] = q[i]
         /\ Last(q) = q[Len(q)] /\ Last(q) \in Frames
<1>1. Len(q) \in Nat \ {0}
  OBVIOUS
<1>2. /\ SubSeq(q, 1, Len(q) - 1) \in Seq(Frames)
      /\ Len(SubSeq(q, 1, Len(q) - 1)) = Len(q) - 1
      /\ \A i \in 1 .. Len(q) - 1 : SubSeq(q, 1, Len(q) - 1)[i] = q[i]
  <2> DEFINE n == Len(q) - 1
  <2>1. n \in Nat /\ \A i \in 1 .. n : q[i] \in Frames
    BY <1>1
  <2> HIDE DEF n
  <2>2. /\ SubSeq(q, 1, n) \in Seq(Frames)
        /\ Len(SubSeq(q, 1, n)) = IF 1 <= n THEN n - 1 + 1 ELSE 0
        /\ \A i \in 1 .. n - 1 + 1 : SubSeq(q, 1, n)[i] = q[1 + i - 1]
    <3>1. 1 \in Int /\ n \in Int
      BY <2>1
    <3> QED
      BY <2>1, <3>1, SubSeqProperties
  <2>3. Len(SubSeq(q, 1, n)) = n /\ \A i \in 1 .. n : SubSeq(q, 1, n)[i] = q[i]
    BY <2>1, <2>2
  <2> QED
    BY <2>2, <2>3 DEF n
<1>3. q[Len(q)] \in Frames
  BY <1>1
<1> QED
  BY <1>1, <1>2, <1>3 DEF Front, Last

LEMMA Replaced ==
  ASSUME NEW q \in Seq(Frames), q # <<>>, NEW f \in Frames
  PROVE  /\ Append(Front(q), f) \in Seq(Frames) /\ Len(Append(Front(q), f)) = Len(q)
         /\ \A i \in 1 .. Len(q) - 1 : Append(Front(q), f)[i] = q[i]
         /\ Append(Front(q), f)[Len(q)] = f
<1>1. /\ Len(q) \in Nat \ {0} /\ Front(q) \in Seq(Frames) /\ Len(Front(q)) = Len(q) - 1
      /\ \A i \in 1 .. Len(q) - 1 : Front(q)[i] = q[i]
  BY Popped
<1>2. /\ Append(Front(q), f) \in Seq(Frames) /\ Len(Append(Front(q), f)) = Len(Front(q)) + 1
      /\ \A i \in 1 .. Len(Front(q)) : Append(Front(q), f)[i] = Front(q)[i]
      /\ Append(Front(q), f)[Len(Front(q)) + 1] = f
  BY <1>1, Pushed
<1>3. Len(Front(q)) + 1 = Len(q)
  BY <1>1
<1> QED
  BY <1>1, <1>2, <1>3

\* A step of a handler on a thread is one of that thread's frames and errno.
LEMMA Borrowed ==
  ASSUME IInv, NEW t \in Thread,
         UNCHANGED <<source, sink, open, disposition, history, memory, call, result, given>>,
         content' \in [Pipe -> Seq(Signal)], \A p \in Pipe : Len(content'[p]) <= Room,
         frames' \in [Thread -> Seq(Frames)], errno' \in [Thread -> Errnos],
         \A u \in Thread \ {t} : frames'[u] = frames[u] /\ errno'[u] = errno[u],
         FramesInv(t)', ErrnoInv(t)'
  PROVE  IInv'
<1>1. TypeOK' /\ Typed'
  BY DEF IInv, TypeOK, Typed, memory, history
<1>2. PipeInv'
  BY DEF IInv, PipeInv
<1>3. DispositionInv'
  BY DEF IInv, DispositionInv, Before, Between, memory, history
<1>4. \A u \in Thread : CallInv(u)' /\ EndsInv(u)'
  BY DEF IInv, CallInv, EndsInv
<1>5. \A u \in Thread \ {t} : FramesInv(u)' /\ ErrnoInv(u)'
  <2> SUFFICES ASSUME NEW u \in Thread \ {t} PROVE FramesInv(u)' /\ ErrnoInv(u)'
    OBVIOUS
  <2>1. FramesInv(u)'
    BY DEF IInv, FramesInv
  <2>2. ErrnoInv(u)'
    <3>1. \A n : Unloaded(u, n)' <=> Unloaded(u, n)
      BY DEF Unloaded
    <3>2. frames'[u] = frames[u] /\ errno'[u] = errno[u] /\ ErrnoInv(u)
      BY DEF IInv
    <3> QED
      BY <3>1, <3>2 DEF ErrnoInv
  <2> QED
    BY <2>1, <2>2
<1> QED
  BY <1>1, <1>2, <1>3, <1>4, <1>5 DEF IInv

LEMMA InterruptStep ==
  ASSUME IInv, NEW t \in Thread, NEW s \in Signal, Interrupt(t, s)
  PROVE  IInv'
<1> DEFINE f == [sig |-> s, at |-> "load", fd |-> None, errno |-> "none"]
           q == frames[t]
<1>1. /\ disposition[s] = "deliver"
      /\ frames' = [frames EXCEPT ![t] = Append(q, f)]
      /\ UNCHANGED <<ends, disposition, history, memory, errno, call, result, given>>
  BY DEF Interrupt
<1>2. f \in Frames /\ f.at = "load" /\ q \in Seq(Frames) /\ frames \in [Thread -> Seq(Frames)]
  BY DEF Frames, Errnos, IInv, Typed
<1> HIDE DEF f
<1>3. /\ Append(q, f) \in Seq(Frames) /\ Len(Append(q, f)) = Len(q) + 1
      /\ \A i \in 1 .. Len(q) : Append(q, f)[i] = q[i]
      /\ Append(q, f)[Len(q) + 1] = f
      /\ Len(q) \in Nat /\ DOMAIN q = 1 .. Len(q) /\ DOMAIN Append(q, f) = 1 .. Len(q) + 1
  BY <1>2, Pushed
<1> DEFINE more == Append(q, f)
<1> HIDE DEF more
<1>4. /\ frames' \in [Thread -> Seq(Frames)] /\ frames'[t] = more
      /\ \A u \in Thread \ {t} : frames'[u] = frames[u]
  BY <1>1, <1>2, <1>3 DEF more
<1>5. FramesInv(t)'
  <2>1. sink # None /\ \A i \in DOMAIN q : q[i].at # "load" => q[i].fd = sink
    BY <1>1 DEF IInv, PipeInv, FramesInv
  <2>2. \A i \in 1 .. Len(q) + 1 : more[i].at # "load" => more[i].fd = sink
    BY <1>2, <1>3, <2>1 DEF more
  <2> QED
    BY <1>1, <1>3, <1>4, <2>1, <2>2 DEF FramesInv, more, ends
<1>6. ErrnoInv(t)'
  <2>1. ErrnoInv(t) /\ errno' = errno /\ call' = call /\ result' = result
    BY <1>1 DEF IInv
  <2>2. \A n \in 0 .. Len(q) : Unloaded(t, n)' <=> Unloaded(t, n)
    BY <1>3, <1>4 DEF Unloaded, more
  <2>3. DOMAIN more = 1 .. Len(q) + 1 /\ Len(more) = Len(q) + 1
        /\ (\A k \in 1 .. Len(q) : more[k] = q[k]) /\ more[Len(q) + 1].at = "load"
    BY <1>2, <1>3 DEF more
  <2>4. ASSUME call[t].at = "fail", Unloaded(t, Len(frames[t]))'
        PROVE  errno[t] = call[t].own
    <3>1. \A i \in 1 .. Len(more) : more[i].at = "load"
      BY <1>4, <2>4 DEF Unloaded
    <3>2. Unloaded(t, Len(q))
      BY <1>3, <2>3, <3>1 DEF Unloaded
    <3> QED
      BY <2>1, <2>4, <3>2 DEF ErrnoInv
  <2>5. ASSUME call[t].at = "fail", NEW k \in DOMAIN more, Unloaded(t, k - 1)', more[k].at # "load"
        PROVE  more[k].errno = call[t].own
    <3>1. k \in 1 .. Len(q) /\ more[k] = q[k] /\ k - 1 \in 0 .. Len(q)
      BY <1>3, <2>3, <2>5
    <3>2. Unloaded(t, k - 1)
      BY <2>2, <2>5, <3>1
    <3> QED
      BY <1>3, <2>1, <2>5, <3>1, <3>2 DEF ErrnoInv
  <2> QED
    BY <1>4, <2>1, <2>4, <2>5 DEF ErrnoInv
<1> QED
  BY <1>1, <1>4, <1>5, <1>6, Borrowed DEF ends, IInv, TypeOK, Typed, history

\* The innermost handler goes on, with the errno it keeps or has just loaded.
LEMMA GoesOn ==
  ASSUME IInv, NEW t \in Thread, frames[t] # <<>>, NEW f \in Frames,
         f.at # "load", f.fd = sink,
         f.errno = IF Last(frames[t]).at = "load" THEN errno[t] ELSE Last(frames[t]).errno,
         Frame(t, f),
         UNCHANGED <<source, sink, open, disposition, history, memory, errno, call, result, given>>,
         content' \in [Pipe -> Seq(Signal)], \A p \in Pipe : Len(content'[p]) <= Room
  PROVE  IInv'
<1> DEFINE q == frames[t]
           now == Append(Front(frames[t]), f)
<1>1. frames \in [Thread -> Seq(Frames)] /\ q \in Seq(Frames) /\ errno \in [Thread -> Errnos]
  BY DEF IInv, Typed, TypeOK, history
<1>2. /\ now \in Seq(Frames) /\ Len(now) = Len(q) /\ now[Len(q)] = f
      /\ \A i \in 1 .. Len(q) - 1 : now[i] = q[i]
  BY <1>1, Replaced
<1>3. Len(q) \in Nat \ {0} /\ Last(q) = q[Len(q)]
  BY <1>1, Popped
<1>4. /\ frames' = [frames EXCEPT ![t] = now]
      /\ errno' = errno /\ call' = call /\ result' = result /\ sink' = sink
  BY DEF Frame
<1> HIDE DEF now
<1>5. /\ frames' \in [Thread -> Seq(Frames)] /\ frames'[t] = now
      /\ \A u \in Thread \ {t} : frames'[u] = frames[u]
  BY <1>1, <1>2, <1>4
<1>6. DOMAIN now = 1 .. Len(q) /\ DOMAIN q = 1 .. Len(q)
  BY <1>1, <1>2
<1>7. FramesInv(t) /\ ErrnoInv(t) /\ sink # None
  BY DEF IInv, FramesInv
<1>8. FramesInv(t)'
  <2>1. ASSUME NEW i \in 1 .. Len(q), now[i].at # "load" PROVE now[i].fd = sink
    <3>1. CASE i = Len(q)
      BY <1>2, <3>1
    <3>2. CASE i # Len(q)
      <4>1. now[i] = q[i]
        BY <1>2, <1>3, <3>2
      <4> QED
        BY <1>6, <1>7, <2>1, <4>1 DEF FramesInv
    <3> QED
      BY <3>1, <3>2
  <2> QED
    BY <1>4, <1>5, <1>6, <1>7, <2>1 DEF FramesInv
<1>9. ErrnoInv(t)'
  <2>1. ASSUME NEW n \in 0 .. Len(q) - 1 PROVE Unloaded(t, n)' <=> Unloaded(t, n)
    <3>1. \A i \in 1 .. n : frames'[t][i] = q[i]
      <4>1. \A i \in 1 .. n : i \in 1 .. Len(q) - 1
        BY <1>3
      <4> QED
        BY <1>2, <1>5, <4>1
    <3> QED
      BY <3>1 DEF Unloaded
  <2>2. ASSUME Unloaded(t, Len(frames[t]))' PROVE FALSE
    <3>1. \A i \in 1 .. Len(now) : now[i].at = "load"
      BY <1>5, <2>2 DEF Unloaded
    <3> QED
      BY <1>2, <1>3, <3>1
  <2>3. ASSUME call[t].at = "fail", NEW k \in 1 .. Len(q), Unloaded(t, k - 1)'
        PROVE  now[k].at # "load" => now[k].errno = call[t].own
    <3>1. Unloaded(t, k - 1)
      BY <1>3, <2>1, <2>3
    <3>2. CASE k # Len(q)
      <4>1. now[k] = q[k]
        BY <1>2, <1>3, <3>2
      <4> QED
        BY <1>6, <1>7, <2>3, <3>1, <4>1 DEF ErrnoInv
    <3>3. CASE k = Len(q) /\ q[k].at # "load"
      <4>1. q[k].errno = call[t].own
        BY <1>6, <1>7, <2>3, <3>1, <3>3 DEF ErrnoInv
      <4> QED
        BY <1>2, <1>3, <3>3, <4>1
    <3>4. CASE k = Len(q) /\ q[k].at = "load"
      <4>1. Unloaded(t, Len(q))
        BY <1>3, <3>1, <3>4 DEF Unloaded
      <4>2. errno[t] = call[t].own
        BY <1>7, <2>3, <4>1 DEF ErrnoInv
      <4> QED
        BY <1>2, <1>3, <3>4, <4>2
    <3> QED
      BY <3>2, <3>3, <3>4
  <2> QED
    BY <1>4, <1>5, <1>6, <1>7, <2>2, <2>3 DEF ErrnoInv
<1> QED
  BY <1>1, <1>4, <1>5, <1>8, <1>9, Borrowed

LEMMA LoadStep ==
  ASSUME IInv, NEW t \in Thread, HandlerLoad(t)
  PROVE  IInv'
<1> DEFINE last == Last(frames[t])
           f == [last EXCEPT !.at = "write", !.fd = sink, !.errno = errno[t]]
<1>1. /\ frames[t] # <<>> /\ last.at = "load" /\ Frame(t, f)
      /\ UNCHANGED <<ends, disposition, history, memory, errno, call, result, given>>
  BY DEF HandlerLoad, Handling
<1>2. last \in Frames
  BY <1>1, Popped DEF IInv, Typed
<1>3. f \in Frames /\ f.at = "write" /\ f.fd = sink /\ f.errno = errno[t]
  BY <1>2 DEF Frames, IInv, TypeOK, history
<1> HIDE DEF f
<1>4. content' \in [Pipe -> Seq(Signal)] /\ \A p \in Pipe : Len(content'[p]) <= Room
  BY <1>1 DEF IInv, TypeOK, Typed, ends, history
<1> QED
  BY <1>1, <1>3, <1>4, GoesOn DEF ends

LEMMA WriteStep ==
  ASSUME IInv, NEW t \in Thread, HandlerWrite(t)
  PROVE  IInv'
<1> DEFINE last == Last(frames[t])
           f == [last EXCEPT !.at = "return"]
<1>1. /\ frames[t] # <<>> /\ last.at = "write"
      /\ UNCHANGED <<source, sink, open, disposition, history, memory, call, result, given>>
  BY DEF HandlerWrite, Handling
<1>2. /\ last \in Frames /\ last = frames[t][Len(frames[t])]
      /\ Len(frames[t]) \in Nat \ {0} /\ Len(frames[t]) \in DOMAIN frames[t]
  BY <1>1, Popped DEF IInv, Typed
<1>3. last.fd = sink /\ sink # None /\ sink \in Pipe
  BY <1>1, <1>2 DEF IInv, TypeOK, FramesInv, history
<1>4. f \in Frames /\ f.at = "return" /\ f.fd = sink /\ f.errno = last.errno
  BY <1>2, <1>3 DEF Frames
<1> HIDE DEF f
<1>5. content \in [Pipe -> Seq(Signal)] /\ \A p \in Pipe : Len(content[p]) <= Room
  BY DEF IInv, TypeOK, Typed, history
<1>6. CASE Frame(t, f) /\ UNCHANGED <<content, errno>>
  BY <1>1, <1>4, <1>5, <1>6, GoesOn
<1>7. CASE /\ Len(content[sink]) < Room
           /\ content' = [content EXCEPT ![sink] = Append(@, last.sig)]
           /\ Frame(t, f) /\ UNCHANGED errno
  <2>1. last.sig \in Signal /\ content[sink] \in Seq(Signal) /\ Len(content[sink]) \in Nat
    BY <1>2, <1>3, <1>5 DEF Frames
  <2>2. /\ Append(content[sink], last.sig) \in Seq(Signal)
        /\ Len(Append(content[sink], last.sig)) = Len(content[sink]) + 1
    BY <2>1
  <2>3. Len(content[sink]) + 1 <= Room
    BY <1>7, <2>1, PipeAssumption
  <2>4. content' \in [Pipe -> Seq(Signal)] /\ \A p \in Pipe : Len(content'[p]) <= Room
    BY <1>3, <1>5, <1>7, <2>2, <2>3
  <2> QED
    BY <1>1, <1>4, <1>7, <2>4, GoesOn
<1>8. CASE errno' = [errno EXCEPT ![t] = "EINTR"] /\ UNCHANGED <<content, frames>>
  <2>1. /\ errno' \in [Thread -> Errnos] /\ errno'[t] = "EINTR"
        /\ \A u \in Thread \ {t} : errno'[u] = errno[u]
    BY <1>8 DEF IInv, TypeOK, Errnos, history
  <2>2. FramesInv(t)'
    BY <1>1, <1>8 DEF IInv, FramesInv
  <2>3. ErrnoInv(t)'
    <3>1. ErrnoInv(t) /\ ~ Unloaded(t, Len(frames[t]))
      BY <1>1, <1>2 DEF IInv, Unloaded
    <3>2. \A n : Unloaded(t, n)' <=> Unloaded(t, n)
      BY <1>8 DEF Unloaded
    <3> QED
      BY <1>1, <1>8, <3>1, <3>2 DEF ErrnoInv
  <2> QED
    BY <1>1, <1>5, <1>8, <2>1, <2>2, <2>3, Borrowed DEF IInv, Typed
<1> QED
  BY <1>3, <1>6, <1>7, <1>8 DEF HandlerWrite, f

\* A handler gives errno back as it found it.
LEMMA ReturnStep ==
  ASSUME IInv, NEW t \in Thread, HandlerReturn(t)
  PROVE  IInv'
<1> DEFINE q == frames[t]
           less == Front(frames[t])
<1>1. /\ q # <<>> /\ Last(q).at = "return"
      /\ errno' = [errno EXCEPT ![t] = Last(q).errno]
      /\ frames' = [frames EXCEPT ![t] = less]
      /\ UNCHANGED <<ends, disposition, history, memory, call, result, given>>
  BY DEF HandlerReturn, Handling
<1>2. /\ q \in Seq(Frames) /\ frames \in [Thread -> Seq(Frames)] /\ errno \in [Thread -> Errnos]
      /\ FramesInv(t) /\ ErrnoInv(t)
  BY DEF IInv, Typed, TypeOK, history
<1>3. /\ Len(q) \in Nat \ {0} /\ less \in Seq(Frames) /\ Len(less) = Len(q) - 1
      /\ \A i \in 1 .. Len(q) - 1 : less[i] = q[i]
      /\ Last(q) = q[Len(q)] /\ Last(q) \in Frames
  BY <1>1, <1>2, Popped
<1>4. DOMAIN q = 1 .. Len(q) /\ DOMAIN less = 1 .. Len(q) - 1
  BY <1>2, <1>3
<1> HIDE DEF less
<1>5. /\ frames' \in [Thread -> Seq(Frames)] /\ frames'[t] = less
      /\ errno' \in [Thread -> Errnos] /\ errno'[t] = Last(q).errno
      /\ \A u \in Thread \ {t} : frames'[u] = frames[u] /\ errno'[u] = errno[u]
  BY <1>1, <1>2, <1>3 DEF Frames
<1>6. \A i \in DOMAIN less : i \in DOMAIN q /\ less[i] = q[i]
  BY <1>3, <1>4
<1>7. FramesInv(t)'
  <2>1. sink' = sink /\ sink # None
    BY <1>1, <1>2 DEF FramesInv, ends
  <2> QED
    BY <1>2, <1>5, <1>6, <2>1 DEF FramesInv
<1>8. ErrnoInv(t)'
  <2>1. ASSUME NEW n \in 0 .. Len(q) - 1 PROVE Unloaded(t, n)' <=> Unloaded(t, n)
    <3>1. \A i \in 1 .. n : frames'[t][i] = q[i]
      <4>1. \A i \in 1 .. n : i \in 1 .. Len(q) - 1
        BY <1>3
      <4> QED
        BY <1>3, <1>5, <4>1
    <3> QED
      BY <3>1 DEF Unloaded
  <2>2. ASSUME call[t].at = "fail", Unloaded(t, Len(frames[t]))'
        PROVE  errno'[t] = call[t].own
    <3>1. \A i \in 1 .. Len(less) : less[i].at = "load"
      BY <1>5, <2>2 DEF Unloaded
    <3>2. Unloaded(t, Len(q) - 1)
      BY <1>3, <3>1 DEF Unloaded
    <3> QED
      BY <1>1, <1>2, <1>3, <1>4, <1>5, <2>2, <3>2 DEF ErrnoInv
  <2>3. ASSUME call[t].at = "fail", NEW k \in DOMAIN less, Unloaded(t, k - 1)', less[k].at # "load"
        PROVE  less[k].errno = call[t].own
    <3>1. k - 1 \in 0 .. Len(q) - 1
      BY <1>3, <1>4
    <3>2. Unloaded(t, k - 1)
      BY <2>1, <2>3, <3>1
    <3> QED
      BY <1>2, <1>6, <2>3, <3>2 DEF ErrnoInv
  <2> QED
    BY <1>1, <1>2, <1>5, <2>2, <2>3 DEF ErrnoInv
<1>9. content' \in [Pipe -> Seq(Signal)] /\ \A p \in Pipe : Len(content'[p]) <= Room
  BY <1>1 DEF IInv, TypeOK, Typed, ends, history
<1> QED
  BY <1>1, <1>5, <1>7, <1>8, <1>9, Borrowed DEF ends

LEMMA ReadStep ==
  ASSUME IInv, NEW t \in Thread, Read(t)
  PROVE  IInv'
<1>1. PICK p \in given : content[p] # <<>> /\ content' = [content EXCEPT ![p] = Tail(@)]
  BY DEF Read
<1>2. UNCHANGED <<source, sink, open, disposition, history, memory, errno, frames, call, result, given>>
  BY DEF Read
<1>3. /\ content \in [Pipe -> Seq(Signal)] /\ \A r \in Pipe : Len(content[r]) <= Room
      /\ p \in Pipe
  BY DEF IInv, TypeOK, Typed, PipeInv, history
<1>4. /\ Tail(content[p]) \in Seq(Signal) /\ Len(Tail(content[p])) = Len(content[p]) - 1
      /\ Len(content[p]) \in Nat
  BY <1>1, <1>3
<1>5. Len(Tail(content[p])) <= Room
  BY <1>3, <1>4, PipeAssumption
<1>6. content' \in [Pipe -> Seq(Signal)] /\ \A r \in Pipe : Len(content'[r]) <= Room
  BY <1>1, <1>3, <1>4, <1>5
<1>7. FramesInv(t)' /\ ErrnoInv(t)'
  <2>1. FramesInv(t) /\ ErrnoInv(t)
    BY DEF IInv
  <2>2. \A n : Unloaded(t, n)' <=> Unloaded(t, n)
    BY <1>2 DEF Unloaded
  <2> QED
    BY <1>2, <2>1, <2>2 DEF FramesInv, ErrnoInv
<1> QED
  BY <1>2, <1>6, <1>7, Borrowed DEF IInv, TypeOK, Typed, history

LEMMA NextIInv == IInv /\ [Next]_vars => IInv'
<1> SUFFICES ASSUME IInv, [Next]_vars PROVE IInv'
  OBVIOUS
<1>1. ASSUME NEW t \in Thread, NEW s \in Signal, Interrupt(t, s) PROVE IInv'
  BY <1>1, InterruptStep
<1>2. ASSUME NEW t \in Thread, NEW s \in Signal, NEW op \in {"notify", "ignore", "stop"},
             Enter(t, op, s)
      PROVE  IInv'
  BY <1>2, EnterStep
<1>3. ASSUME NEW t \in Thread, Step(t) PROVE IInv'
  BY <1>3, FailStep, LookStep, MakeStep, MarkStep, SourceStep, SinkStep, ActStep, RememberStep,
     AnswerStep, RestoreDefaultStep, RestoreTakeStep, RestoreBackStep DEF Step
<1>4. ASSUME NEW t \in Thread, Handler(t) PROVE IInv'
  BY <1>4, LoadStep, WriteStep, ReturnStep DEF Handler
<1>5. ASSUME NEW t \in Thread, Read(t) PROVE IInv'
  BY <1>5, ReadStep
<1>6. CASE UNCHANGED vars
  <2>1. TypeOK' /\ Typed' /\ PipeInv' /\ DispositionInv'
    BY <1>6 DEF vars, ends, memory, IInv, TypeOK, Typed, PipeInv, DispositionInv, Before, Between, history
  <2>2. \A t \in Thread : CallInv(t)' /\ EndsInv(t)' /\ FramesInv(t)'
    BY <1>6 DEF vars, ends, IInv, CallInv, EndsInv, FramesInv
  <2>3. \A t \in Thread : ErrnoInv(t)'
    <3>1. \A t \in Thread : \A n : Unloaded(t, n)' <=> Unloaded(t, n)
      BY <1>6 DEF vars, Unloaded
    <3> QED
      BY <1>6, <3>1 DEF vars, IInv, ErrnoInv
  <2> QED
    BY <2>1, <2>2, <2>3 DEF IInv
<1> QED
  BY <1>1, <1>2, <1>3, <1>4, <1>5, <1>6 DEF Next

-----------------------------------------------------------------------------
(* The results.                                                            *)

THEOREM Invariance == Spec => []IInv
BY InitIInv, NextIInv, PTL DEF Spec

(***************************************************************************)
(* A handler finds the pipe there, from the first signal it can be run     *)
(* for, and notify never gives out the end of another one: the order in    *)
(* which core_syscall_signal_catch makes the pipe and installs the handler *)
(* is enough, without a lock.                                              *)
(***************************************************************************)
THEOREM HandlersFindThePipe == Spec => []SignalsFindTheirReader
<1>1. IInv => SignalsFindTheirReader
  <2> SUFFICES ASSUME IInv PROVE NoSignalInTheWindow /\ OnePipe
    BY DEF SignalsFindTheirReader
  <2>1. ASSUME NEW t \in Thread, NEW i \in DOMAIN frames[t], frames[t][i].at # "load"
        PROVE  frames[t][i].fd \in open
    <3>1. frames[t] # <<>> /\ FramesInv(t) /\ PipeInv
      BY DEF IInv
    <3> QED
      BY <2>1, <3>1 DEF FramesInv, PipeInv
  <2>2. OnePipe
    BY DEF IInv, PipeInv, OnePipe
  <2> QED
    BY <2>1, <2>2 DEF NoSignalInTheWindow
<1> QED
  BY <1>1, Invariance, PTL

(***************************************************************************)
(* deliver saves errno before anything of its own can change it, which is  *)
(* enough however handlers of different signals pile up on a thread.       *)
(***************************************************************************)
THEOREM HandlersKeepErrno == Spec => []ErrnoIsOwn
<1>1. IInv => ErrnoIsOwn
  BY DEF IInv, ErrnoIsOwn, ErrnoInv
<1> QED
  BY <1>1, Invariance, PTL

\* What the end of a stop leaves behind.
LEMMA StopStep ==
  ASSUME IInv, [Next]_vars, NEW t \in Thread,
         call[t].op = "stop", call'[t].op = "idle", result'[t].errno = "none"
  PROVE  disposition'[call[t].sig] =
           IF call[t].sig \in taken THEN Before(call[t].sig) ELSE "default"
<1>1. call[t] \in Calls /\ call[t].sig \in Signal /\ CallInv(t)
  BY DEF IInv, Typed, CallInv
<1>2. call'[t] # call[t]
  OBVIOUS
<1>3. PICK u \in Thread :
        \/ Step(u)
        \/ \E s \in Signal, op \in {"notify", "ignore", "stop"} : Enter(u, op, s)
  BY <1>2 DEF Next, Interrupt, Handler, HandlerLoad, HandlerWrite, HandlerReturn, Read, vars
<1>4. ASSUME NEW s \in Signal, NEW op \in {"notify", "ignore", "stop"}, Enter(u, op, s)
      PROVE  FALSE
  <2>1. call[u].at = "idle" /\ \A v \in Thread \ {u} : call'[v] = call[v]
    BY <1>4 DEF Enter, At, IInv, Typed
  <2> QED
    BY <1>1, <1>2, <2>1 DEF CallInv
<1>5. Step(u)
  BY <1>3, <1>4
<1>6. call[u].at # "idle"
  BY <1>5 DEF Step, Fail, PipeLook, PipeMake, PipeMark, PipeSource, PipeSink, Act, Remember, Answer,
     RestoreDefault, RestoreTake, RestoreBack, At
<1>7. u \in Caller
  BY <1>6 DEF IInv, CallInv
<1>8. u = t
  BY <1>1, <1>7, Lone DEF CallInv
<1>9. call[t].at \in {"restore", "back", "fail"}
  BY <1>1, <1>6, <1>8 DEF CallInv, Calls, Places
<1>10. disposition \in [Signal -> Dispositions] /\ call \in [Thread -> Calls]
  BY DEF IInv, TypeOK, Typed, history
<1>11. ASSUME NEW e, Fails(t, e) PROVE FALSE
  BY <1>10, <1>11 DEF Fails, Calls
<1>12. CASE RestoreDefault(t)
  <2>1. disposition' = [disposition EXCEPT ![call[t].sig] = "default"] /\ ~ saved[call[t].sig]
    BY <1>11, <1>12 DEF RestoreDefault
  <2>2. call[t].at = "restore" /\ t \in Caller
    BY <1>7, <1>8, <1>12 DEF RestoreDefault, At
  <2>3. ~ Between(call[t].sig)
    BY <2>2, Lone DEF Between
  <2>4. call[t].sig \notin taken
    BY <1>1, <2>1, <2>3 DEF IInv, DispositionInv
  <2> QED
    BY <1>1, <1>10, <2>1, <2>4
<1>13. CASE RestoreTake(t)
  <2>1. call'[t].op = call[t].op
    BY <1>10, <1>13 DEF RestoreTake, Calls
  <2> QED
    BY <2>1
<1>14. CASE RestoreBack(t)
  <2>1. /\ disposition' = [disposition EXCEPT ![call[t].sig] = call[t].was]
        /\ call[t].at = "back" /\ call[t].was = Before(call[t].sig)
    BY <1>14 DEF RestoreBack, At, IInv, DispositionInv
  <2>2. call[t].sig \in taken
    BY <1>1, <2>1 DEF IInv, DispositionInv, Between
  <2> QED
    BY <1>1, <1>10, <2>1, <2>2
<1>15. CASE Fail(t)
  <2>1. /\ result' = [result EXCEPT ![t] = [errno |-> errno[t], own |-> call[t].own]]
        /\ frames[t] = <<>> /\ call[t].at = "fail"
    BY <1>15 DEF Fail, At
  <2>2. result'[t].errno = errno[t]
    BY <2>1 DEF IInv, Typed
  <2>3. errno[t] = call[t].own
    BY <2>1 DEF IInv, ErrnoInv, Unloaded
  <2>4. call[t].own # "none"
    BY <1>1, <2>1 DEF CallInv
  <2> QED
    BY <2>2, <2>3, <2>4
<1> QED
  BY <1>5, <1>8, <1>9, <1>12, <1>13, <1>14, <1>15
     DEF Step, PipeLook, PipeMake, PipeMark, PipeSource, PipeSink, Act, Remember, Answer, At

(***************************************************************************)
(* However the calls follow each other, the first stop after any number of *)
(* notify and ignore calls puts back what was there before all of them,    *)
(* never the library's handler or an earlier ignore, and any other stop    *)
(* leaves the platform's default: saved and held of signal.c are enough to *)
(* know which.                                                             *)
(***************************************************************************)
THEOREM StopPutsBack == Spec => StopRestores
<1>1. IInv /\ [Next]_vars =>
        [\A t \in Thread : call[t].op = "stop" /\ call'[t].op = "idle" /\ result'[t].errno = "none" =>
           LET s == call[t].sig IN
           disposition'[s] = IF s \in taken THEN Before(s) ELSE "default"]_vars
  BY StopStep
<1> QED
  BY <1>1, Invariance, PTL DEF Spec, StopRestores
=============================================================================
