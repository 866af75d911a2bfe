----------------------------- MODULE BufWriter -----------------------------
(***************************************************************************)
(* bufio.Writer: a buffer in front of a sink that takes bytes, takes some  *)
(* of them, or fails (core/bufio/write.mojo).                              *)
(*                                                                         *)
(* A byte is its position in what the client has had accepted, so that a   *)
(* byte lost, sent twice or sent early shows at the sink.  One step is one *)
(* iteration of a method's loop, and calls the sink or the source once.    *)
(***************************************************************************)
EXTENDS Integers

CONSTANTS
  Last,      \* bound: bytes a client has accepted between two resets
  Size,      \* len(self.buf)
  UtfMax,    \* UTF_MAX
  Longest    \* bound: bytes given to one write

Index == 0 .. Size - 1

ASSUME SizeAssumption == UtfMax \in Nat \ {0} /\ Size \in Nat /\ Size >= UtfMax
ASSUME BoundAssumption == Last \in Nat /\ Longest \in Nat

VARIABLES
  buf, n,       \* the buffer and how much of it is filled
  pending,      \* the failure the writer is stuck on, with its count
  accepted,     \* bytes taken from the client (history)
  arrived,      \* bytes the sink has (history)
  inOrder,      \* whether every byte arrived at its place (history)
  broken,       \* whether the sink has failed a write (history)
  fast,         \* whether the sink has a read_from of its own
  call,         \* the method under way and its local variables
  result        \* how the last call ended

buffer == <<buf, n>>
sink == <<arrived, inOrder, broken>>
vars == <<buf, n, pending, accepted, arrived, inOrder, broken, fast, call, result>>

Kinds == {"fault", "short", "claim"}
NoFailure == [kind |-> "none", count |-> 0]

\* mark: accepted when the call began.  len: the argument.  off: the locals off and moved.  at: the loop, a flush in it, or the
\* read_from that goes to the sink.
Idle == [op |-> "idle", mark |-> 0, len |-> 0, off |-> 0, at |-> "loop"]
NoResult == [op |-> "idle", how |-> "ok", count |-> 0, took |-> 0]

Available == Size - n
Rest == call.len - call.off
Lesser(a, b) == IF a < b THEN a ELSE b

-----------------------------------------------------------------------------
\* How a call ends: what it raised, with which count; `took` is what it really accepted.
Finish(how, count) ==
  /\ call' = Idle
  /\ result' = [op |-> call.op, how |-> how, count |-> count, took |-> accepted' - call.mark]

Continue(c) == call' = c /\ UNCHANGED result

\* The sink has k more bytes, the first k of those it was given.
Arrive(bytes, k) ==
  /\ arrived' = arrived + k
  /\ inOrder' = (inOrder /\ \A i \in 0 .. k - 1 : bytes[i] = arrived + 1 + i)

\* k bytes of the client's data go into the buffer.
Append(k) ==
  /\ buf' = [i \in Index |-> IF n <= i /\ i < n + k THEN accepted + 1 + i - n ELSE buf[i]]
  /\ n' = n + k
  /\ accepted' = accepted + k

\* _keep: the bytes after the first k slide to the front.
Keep(k) ==
  /\ buf' = [i \in Index |-> IF i + k < n THEN buf[i + k] ELSE 0]
  /\ n' = n - k

-----------------------------------------------------------------------------
Init ==
  /\ buf = [i \in Index |-> 0] /\ n = 0
  /\ pending = NoFailure
  /\ accepted = 0 /\ arrived = 0 /\ inOrder = TRUE /\ broken = FALSE
  /\ fast \in BOOLEAN
  /\ call = Idle
  /\ result = NoResult

\* _check at the head of every method: a stuck writer raises what it is stuck on.
Refuse(op) ==
  /\ call = Idle /\ pending # NoFailure
  /\ result' = [op |-> op, how |-> pending.kind, count |-> pending.count, took |-> 0]
  /\ UNCHANGED <<buffer, pending, accepted, sink, fast, call>>

\* flush goes straight to its write; write_byte and write_rune flush for want of room;
\* read_from asks once whether it can stand aside.
Enter(op, len) ==
  LET needs == CASE op = "flush" -> Size + 1
                 [] op = "write_byte" -> 1
                 [] op = "write_rune" -> UtfMax
                 [] OTHER -> 0
  IN
  /\ call = Idle /\ pending = NoFailure
  /\ accepted + len <= Last
  /\ call' = [Idle EXCEPT !.op = op, !.mark = accepted, !.len = len,
                          !.at = IF Available < needs THEN "flush"
                                 ELSE IF op = "read_from" /\ n = 0 /\ fast THEN "fast"
                                 ELSE "loop"]
  /\ result' = NoResult
  /\ UNCHANGED <<buffer, pending, accepted, sink, fast>>

Begin ==
  \/ \E op \in {"write", "write_byte", "write_rune", "read_from", "flush"} : Refuse(op)
  \/ Enter("flush", 0)
  \/ \E len \in 0 .. Longest : Enter("write", len)
  \/ Enter("write_byte", 1)
  \/ \E len \in 2 .. UtfMax : Enter("write_rune", len)
  \/ Enter("read_from", 0)

\* reset: what is buffered is thrown away and the writer has a fresh sink.
Reset ==
  /\ call = Idle
  /\ n' = 0
  /\ pending' = NoFailure
  /\ accepted' = 0 /\ arrived' = 0 /\ inOrder' = TRUE /\ broken' = FALSE
  /\ fast' \in BOOLEAN
  /\ UNCHANGED <<buf, call, result>>

-----------------------------------------------------------------------------
\* The call that flushed goes on, or ends with the flush.
Flushed == IF call.op = "flush" THEN Finish("ok", 0)
                                ELSE Continue([call EXCEPT !.at = "loop"])

\* What a method raises when its flush did: write and read_from say what they accepted.
FlushFailed(kind, took) ==
  /\ pending' = [kind |-> kind, count |-> took]
  /\ broken' = TRUE
  /\ Finish(kind, IF call.op \in {"write", "read_from"} THEN call.off ELSE took)

FlushEmpty ==
  /\ call.at = "flush" /\ n = 0
  /\ UNCHANGED <<buffer, pending, accepted, sink, fast>>
  /\ Flushed

FlushAll ==
  /\ call.at = "flush" /\ n > 0
  /\ Arrive(buf, n)
  /\ n' = 0
  /\ UNCHANGED <<buf, pending, accepted, broken, fast>>
  /\ Flushed

\* Variant: a flush that fails leaves the bytes the sink took in the buffer.
FlushFails_KeepsAll ==
  /\ call.at = "flush" /\ n > 0
  /\ UNCHANGED <<buffer, accepted, fast>>
  /\ \E k \in 0 .. n : Arrive(buf, k) /\ FlushFailed("fault", k)

\* Variant: a flush that fails does not make the writer stuck.
FlushFails_NotHeld ==
  /\ call.at = "flush" /\ n > 0
  /\ UNCHANGED <<pending, accepted, fast>>
  /\ broken' = TRUE
  /\ \E k \in 0 .. n : Arrive(buf, k) /\ Keep(k) /\ Finish("fault", k)

\* A sink that raised or took only part has k bytes and the rest stays; one that claims
\* more than it was given may have any of them, and everything stays.
FlushFails ==
  /\ call.at = "flush" /\ n > 0
  /\ UNCHANGED <<accepted, fast>>
  /\ \E k \in 0 .. n :
       /\ Arrive(buf, k)
       /\ \/ Keep(k) /\ FlushFailed("fault", k)
          \/ k < n /\ Keep(k) /\ FlushFailed("short", k)
          \/ UNCHANGED buffer /\ FlushFailed("claim", 0)

-----------------------------------------------------------------------------
Writing == call.op = "write" /\ call.at = "loop"

\* What is left of the data goes to the sink as it is.
Straight == [i \in 0 .. Rest - 1 |-> accepted + 1 + i]

\* More than fits and nothing buffered: the sink gets the data itself, and the loop goes
\* on with what it did not take.
WriteStraight ==
  /\ Writing /\ Rest > Available /\ n = 0
  /\ UNCHANGED <<buffer, pending, broken, fast>>
  /\ \E k \in 1 .. Rest :
       /\ Arrive(Straight, k)
       /\ accepted' = accepted + k
       /\ Continue([call EXCEPT !.off = @ + k])

\* It raised after k bytes, or what it claims is nothing or more than it was given.
WriteStraightFails ==
  /\ Writing /\ Rest > Available /\ n = 0
  /\ UNCHANGED <<buffer, fast>>
  /\ broken' = TRUE
  /\ \E k \in 0 .. Rest :
       /\ Arrive(Straight, k)
       /\ \/ /\ accepted' = accepted + k
             /\ pending' = [kind |-> "fault", count |-> k]
             /\ Finish("fault", call.off + k)
          \/ /\ pending' = [kind |-> "claim", count |-> call.off]
             /\ UNCHANGED accepted
             /\ Finish("claim", call.off)

\* Variant: the bytes that filled the buffer are not counted when its flush fails.
WriteFill_CountsLate ==
  /\ Writing /\ Rest > Available /\ n > 0
  /\ Append(Available)
  /\ Continue([call EXCEPT !.len = @ - Available, !.at = "flush"])
  /\ UNCHANGED <<pending, sink, fast>>

\* Variant: the buffer is filled and not flushed.
WriteFill_NoFlush ==
  /\ Writing /\ Rest > Available /\ n > 0
  /\ Append(Available)
  /\ Continue([call EXCEPT !.off = @ + Available])
  /\ UNCHANGED <<pending, sink, fast>>

\* More than fits: fill the buffer, and flush it.
WriteFill ==
  /\ Writing /\ Rest > Available /\ n > 0
  /\ Append(Available)
  /\ Continue([call EXCEPT !.off = @ + Available, !.at = "flush"])
  /\ UNCHANGED <<pending, sink, fast>>

\* The data, or what is left of it, fits.
WriteRest ==
  /\ Writing /\ Rest <= Available
  /\ Append(Rest)
  /\ Finish("ok", call.len)
  /\ UNCHANGED <<pending, sink, fast>>

\* write_byte and write_rune, with the room they flushed for.
WriteOne ==
  /\ call.op \in {"write_byte", "write_rune"} /\ call.at = "loop"
  /\ Append(call.len)
  /\ Finish("ok", call.len)
  /\ UNCHANGED <<pending, sink, fast>>

-----------------------------------------------------------------------------
Reading == call.op = "read_from" /\ call.at = "loop"

\* Nothing buffered and a sink that reads for itself: the writer stays out of the way,
\* and what the sink raises is not held.
ReadFast ==
  /\ call.op = "read_from" /\ call.at = "fast"
  /\ UNCHANGED <<buffer, pending, fast>>
  /\ \E k \in 0 .. Last - accepted :
       /\ Arrive([i \in 0 .. k - 1 |-> accepted + 1 + i], k)
       /\ accepted' = accepted + k
       /\ \/ Finish("ok", k) /\ UNCHANGED broken
          \/ Finish("fault", k) /\ broken' = TRUE

ReadFull ==
  /\ Reading /\ Available = 0
  /\ Continue([call EXCEPT !.at = "flush"])
  /\ UNCHANGED <<buffer, pending, accepted, sink, fast>>

\* The source reads into the free space, ends, or fails; to read nothing is to fail.
ReadMore ==
  /\ Reading /\ Available > 0
  /\ UNCHANGED <<pending, sink, fast>>
  /\ \/ \E k \in 1 .. Lesser(Available, Last - accepted) :
        /\ Append(k)
        /\ Continue([call EXCEPT !.off = @ + k])
     \/ \E how \in {"ok", "fault"} :
        /\ UNCHANGED <<buffer, accepted>>
        /\ Finish(how, call.off)

Step ==
  \/ FlushEmpty \/ FlushAll \/ FlushFails
  \/ WriteStraight \/ WriteStraightFails \/ WriteFill \/ WriteRest \/ WriteOne
  \/ ReadFast \/ ReadFull \/ ReadMore

Next == Begin \/ Reset \/ Step

\* A method that was called runs; the sink and the source answer.
Spec == Init /\ [][Next]_vars /\ WF_vars(Step)

-----------------------------------------------------------------------------
Ops == {"idle", "flush", "write", "write_byte", "write_rune", "read_from"}

\* Every variable in its range, and the filled part inside the buffer.
TypeOK ==
  /\ buf \in [Index -> 0 .. Last] /\ n \in 0 .. Size
  /\ pending \in [kind : Kinds, count : 0 .. Last] \cup {NoFailure}
  /\ accepted \in 0 .. Last /\ arrived \in 0 .. Last
  /\ inOrder \in BOOLEAN /\ broken \in BOOLEAN /\ fast \in BOOLEAN
  /\ call \in [op : Ops, mark : 0 .. Last, len : 0 .. Last, off : 0 .. Last, at : {"loop", "flush", "fast"}]
  /\ call.op \in {"write", "write_byte", "write_rune"} =>
       call.off <= call.len /\ accepted + Rest <= Last

(***************************************************************************)
(* Every byte reaches the sink once and in order: the sink has a prefix of *)
(* what was accepted and the buffer exactly the rest, also after a write   *)
(* that failed part way.  Nothing can be said of a sink that claims more   *)
(* than it was given.                                                      *)
(***************************************************************************)
StreamIntact ==
  pending.kind # "claim" =>
    /\ inOrder
    /\ accepted = arrived + n
    /\ \A i \in 0 .. n - 1 : buf[i] = arrived + 1 + i

(***************************************************************************)
(* A writer whose sink failed does not touch it again until reset.  Only   *)
(* the read_from that hands the sink the source does not hold what the     *)
(* sink raised.                                                            *)
(***************************************************************************)
SinkLeftAlone == [][broken /\ broken' /\ ~ fast => arrived' = arrived]_vars

(***************************************************************************)
(* A write or read_from that fails under way says how much it accepted.    *)
(***************************************************************************)
Raised == call # Idle /\ call' = Idle /\ result'.how # "ok"

CountWhenFailing ==
  [][Raised /\ call.op \in {"write", "read_from"} => result'.count = result'.took]_vars

(***************************************************************************)
(* Every call ends: each iteration moves bytes or leaves the loop.         *)
(***************************************************************************)
CallsEnd == (call # Idle) ~> (call = Idle)

-----------------------------------------------------------------------------
\* Where the methods are: only a writer that is not stuck runs one; a byte or a rune is put
\* where its room was made; off says what write and read_from have accepted; and a sink that
\* failed is held as pending, unless the read_from that hands it the source met it.
CallShape ==
  /\ call # Idle => call.op # "idle" /\ pending = NoFailure
  /\ call.op = "idle" => call = Idle
  /\ call.op = "flush" => call.at = "flush"
  /\ call.at = "fast" => fast /\ n = 0 /\ call.op = "read_from" /\ call.off = 0
  /\ call.op \in {"write", "read_from"} => accepted = call.mark + call.off
  /\ call.op \in {"write_byte", "write_rune"} =>
       /\ call.len \in 1 .. UtfMax /\ call.off = 0
       /\ call.at = "loop" => n + call.len <= Size
  /\ broken /\ ~ fast => pending # NoFailure

(***************************************************************************)
(* The inductive invariant behind StreamIntact, SinkLeftAlone and          *)
(* CountWhenFailing.                                                       *)
(***************************************************************************)
IInv == TypeOK /\ StreamIntact /\ CallShape
=============================================================================
