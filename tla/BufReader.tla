----------------------------- MODULE BufReader -----------------------------
(***************************************************************************)
(* bufio.Reader: a window over a source that delivers bytes and failures   *)
(* (core/bufio/read.mojo).                                                 *)
(*                                                                         *)
(* A byte is its position in the input, 1 .. Last, so that losing, reading *)
(* twice or reordering a byte shows.  What the code asks of a byte's value *)
(* is given by Delims, Returns, Width and Lookahead.  One step is one      *)
(* iteration of a method's loop; each step reads the source at most once,  *)
(* and the source may answer with any number of bytes or with a failure.   *)
(* -1 in last_byte and last_rune_size is 0 here.                           *)
(***************************************************************************)
EXTENDS Integers

CONSTANTS
  Last,        \* number of bytes the source can ever deliver
  Size,        \* len(self.buf)
  UtfMax,      \* UTF_MAX, the longest encoding of a rune
  Delims,      \* positions holding the delimiter (byte 10 for read_line)
  Returns,     \* positions holding a carriage return
  Width,       \* Width[p]: bytes of the rune at p, given everything after p
  Lookahead,   \* Lookahead[p]: bytes full_rune needs to decide the rune at p
  Clients,     \* sets of methods; a behaviour is of a client that uses one
  MaxOwed      \* bound: failures not yet reported when a call begins

Positions == 1 .. Last
Index == 0 .. Size - 1

ASSUME SizeAssumption == UtfMax \in Nat /\ UtfMax >= 2 /\ Size \in Nat /\ Size >= UtfMax
ASSUME InputAssumption ==
  /\ Last \in Nat
  /\ Delims \subseteq Positions /\ Returns \subseteq Positions
  /\ Lookahead \in [Positions -> 1 .. UtfMax]
  /\ Width \in [Positions -> 1 .. UtfMax]
  /\ \A p \in Positions : Width[p] <= Lookahead[p]
ASSUME BoundAssumption == MaxOwed \in Nat

Methods == {"peek", "discard", "read", "read_byte", "unread_byte", "read_rune",
            "unread_rune", "read_slice", "read_bytes", "read_line", "write_to", "reset"}

VARIABLES
  buf, start, stop,            \* the window
  pending,                     \* a failure that has not been delivered yet
  last_byte, last_rune_size,   \* what unread_byte and unread_rune put back
  fed,                         \* bytes the source has delivered
  taken,                       \* bytes consumed and not put back (history)
  owed,                        \* failures raised and not reported (history)
  call,                        \* the method under way and its local variables
  result,                      \* how the last call ended
  uses                         \* the methods this client uses

window == <<buf, start, stop>>
memory == <<last_byte, last_rune_size>>
vars == <<buf, start, stop, pending, last_byte, last_rune_size, fed, taken, owed,
          call, result, uses>>

NoFailure == [kind |-> "none", at |-> 0]
Failure == [kind : {"EOF", "fault"}, at : 0 .. Last]

\* n: the argument.  mark: taken when the call began.  searched and out: the locals
\* of read_slice and read_bytes.  at: which loop of write_to or discard is next.
Idle == [op |-> "idle", n |-> 0, mark |-> 0, searched |-> 0, out |-> 0, at |-> "top"]

NoResult == [op |-> "idle", how |-> "ok", last |-> 0, lost |-> 0]

Buffered == stop - start

Lesser(a, b) == IF a < b THEN a ELSE b

-----------------------------------------------------------------------------
\* How a call ends.  `bytes` reached the caller or its sink; `last` is the last of
\* them that is content.  What was consumed beyond them is `lost`.
Finish(how, bytes, last) ==
  /\ call' = Idle
  /\ result' = [op |-> call.op, how |-> how, last |-> last,
                lost |-> taken' - call.mark - bytes]
  /\ UNCHANGED uses

Continue(c) == call' = c /\ UNCHANGED <<result, uses>>

\* A call that ends having changed nothing but its own state.
Refuse(how) ==
  /\ UNCHANGED <<window, pending, fed, taken, owed>>
  /\ Finish(how, 0, 0)

Forget == last_byte' = 0 /\ last_rune_size' = 0

\* _deliver: raise the held failure and forget it.
Deliver ==
  /\ pending' = NoFailure
  /\ owed' = owed - 1

\* Consume k bytes from the front of the window.
Consume(k) ==
  /\ start' = start + k
  /\ taken' = taken + k
  /\ UNCHANGED <<buf, stop>>

\* _take: consume k bytes and remember the last of them.
Take(k) ==
  /\ Consume(k)
  /\ IF k > 0 THEN last_byte' = buf[start + k - 1] /\ last_rune_size' = 0
              ELSE UNCHANGED memory

\* What the copy leaves after the unread bytes is never read again, and is 0 here.
Slid == [i \in Index |-> IF start + i < stop THEN buf[start + i] ELSE 0]

\* Variant: a fill that does not slide the unread bytes to the front first.
Fill_NoSlide ==
  \/ \E k \in 1 .. Lesser(Size - Buffered, Last - fed) :
       /\ start' = 0
       /\ stop' = Buffered + k
       /\ buf' = [i \in Index |-> IF Buffered <= i /\ i < Buffered + k
                                    THEN fed + 1 + i - Buffered ELSE buf[i]]
       /\ fed' = fed + k
       /\ UNCHANGED <<pending, owed>>
  \/ \E kind \in {"EOF", "fault"} :
       /\ start' = 0 /\ stop' = Buffered
       /\ pending' = [kind |-> kind, at |-> fed]
       /\ owed' = owed + 1
       /\ UNCHANGED <<buf, fed>>

\* _fill: slide, read once into the space after, hold whatever failure arrives.
\* A source that reads nothing, or outside the span, counts as a fault.
Fill ==
  /\ start' = 0
  /\ \/ \E k \in 1 .. Lesser(Size - Buffered, Last - fed) :
          /\ stop' = Buffered + k
          /\ buf' = [i \in Index |-> IF Buffered <= i /\ i < Buffered + k
                                       THEN fed + 1 + i - Buffered ELSE Slid[i]]
          /\ fed' = fed + k
          /\ UNCHANGED <<pending, owed>>
     \/ \E kind \in {"EOF", "fault"} :
          /\ stop' = Buffered
          /\ buf' = Slid
          /\ pending' = [kind |-> kind, at |-> fed]
          /\ owed' = owed + 1
          /\ UNCHANGED fed

\* A loop that fills, and its check that there is room to.
FillThen(c) ==
  /\ UNCHANGED taken
  /\ IF Buffered < Size
       THEN Fill /\ Continue(c)
       ELSE UNCHANGED <<window, pending, fed, owed>> /\ Finish("bug", 0, 0)

-----------------------------------------------------------------------------
Init ==
  /\ buf = [i \in Index |-> 0]
  /\ start = 0 /\ stop = 0
  /\ pending = NoFailure
  /\ last_byte = 0 /\ last_rune_size = 0
  /\ fed = 0 /\ taken = 0 /\ owed = 0
  /\ call = Idle
  /\ result = NoResult
  /\ uses \in Clients

\* The client enters a method; the assignments before its first loop happen here.
Enter(op, n) ==
  /\ call = Idle /\ op \in uses /\ owed <= MaxOwed
  /\ call' = [Idle EXCEPT !.op = op, !.n = n, !.mark = taken]
  /\ last_byte' = IF op = "peek" \/ (op = "discard" /\ n > 0) THEN 0 ELSE last_byte
  /\ last_rune_size' = IF op \in {"peek", "read_byte"} \/ (op = "discard" /\ n > 0)
                         THEN 0 ELSE last_rune_size
  /\ result' = NoResult
  /\ UNCHANGED <<window, pending, fed, taken, owed, uses>>

Begin ==
  \/ \E n \in 0 .. Size + 1, op \in {"peek", "discard", "read"} : Enter(op, n)
  \/ \E op \in Methods \ {"peek", "discard", "read", "reset"} : Enter(op, 0)

\* Variant: a peek that does not stop at a held failure.
Peek_IgnoresHeld ==
  /\ call.op = "peek" /\ call.n <= Size
  /\ \/ /\ Buffered < call.n
        /\ FillThen(call)
        /\ UNCHANGED memory
     \/ /\ Buffered >= call.n
        /\ Refuse("ok")
        /\ UNCHANGED memory

Peek ==
  /\ call.op = "peek"
  /\ UNCHANGED memory
  /\ \/ call.n > Size /\ Refuse("full")
     \/ call.n <= Buffered /\ Refuse("ok")
     \/ /\ Buffered < call.n /\ call.n <= Size
        /\ IF pending = NoFailure
             THEN FillThen(call)
             ELSE /\ Deliver
                  /\ UNCHANGED <<window, fed, taken>>
                  /\ Finish(pending.kind, 0, 0)

\* One iteration is a fill when the window is empty and then a skip, at "skip".
DiscardFill ==
  /\ call.op = "discard" /\ call.at = "top" /\ call.n > 0
  /\ UNCHANGED memory
  /\ IF Buffered = 0
       THEN FillThen([call EXCEPT !.at = "skip"])
       ELSE Continue([call EXCEPT !.at = "skip"]) /\ UNCHANGED <<window, pending, fed, taken, owed>>

DiscardSkip ==
  LET skip == Lesser(Buffered, call.n - call.out)
      done == call.out + skip
  IN
  /\ call.op = "discard" /\ (call.at = "skip" \/ call.n = 0)
  /\ Consume(skip)
  /\ UNCHANGED <<fed, memory>>
  /\ IF done = call.n
       THEN Finish("ok", done, 0) /\ UNCHANGED <<pending, owed>>
     ELSE IF pending # NoFailure
       THEN Deliver /\ Finish(pending.kind, done, 0)
       ELSE Continue([call EXCEPT !.at = "top", !.out = done]) /\ UNCHANGED <<pending, owed>>

-----------------------------------------------------------------------------
\* A read of no bytes returns before it looks at anything.
ReadNothing ==
  /\ call.op = "read" /\ call.n = 0
  /\ Refuse("ok")
  /\ UNCHANGED memory

ReadHeld ==
  /\ call.op = "read" /\ call.n > 0 /\ Buffered = 0 /\ pending # NoFailure
  /\ Deliver
  /\ UNCHANGED <<window, memory, fed, taken>>
  /\ Finish(pending.kind, 0, 0)

\* An empty window and a span no shorter than it: the source reads into the span.
ReadThrough ==
  /\ call.op = "read" /\ Buffered = 0 /\ pending = NoFailure /\ call.n >= Size
  /\ UNCHANGED <<window, pending, owed>>
  /\ \/ \E k \in 1 .. Lesser(call.n, Last - fed) :
          /\ fed' = fed + k
          /\ taken' = taken + k
          /\ last_byte' = fed + k /\ last_rune_size' = 0
          /\ Finish("ok", k, fed + k)
     \/ \E kind \in {"EOF", "fault"} :
          UNCHANGED <<memory, fed, taken>> /\ Finish(kind, 0, 0)

ReadFill ==
  /\ call.op = "read" /\ call.n > 0 /\ call.n < Size
  /\ Buffered = 0 /\ pending = NoFailure
  /\ FillThen(call)
  /\ UNCHANGED memory

ReadWindow ==
  LET n == Lesser(Buffered, call.n) IN
  /\ call.op = "read" /\ call.n > 0 /\ Buffered > 0
  /\ Take(n)
  /\ UNCHANGED <<pending, fed, owed>>
  /\ Finish("ok", n, buf[start + n - 1])

ReadByte ==
  /\ call.op = "read_byte"
  /\ \/ /\ Buffered = 0 /\ pending # NoFailure
        /\ Deliver
        /\ UNCHANGED <<window, memory, fed, taken>>
        /\ Finish(pending.kind, 0, 0)
     \/ /\ Buffered = 0 /\ pending = NoFailure
        /\ FillThen(call)
        /\ UNCHANGED memory
     \/ /\ Buffered > 0
        /\ Take(1)
        /\ UNCHANGED <<pending, fed, owed>>
        /\ Finish("ok", 1, buf[start])

UnreadByte ==
  /\ call.op = "unread_byte"
  /\ UNCHANGED <<pending, fed, owed>>
  /\ \/ /\ last_byte = 0 \/ (start = 0 /\ stop > 0)
        /\ Refuse("refused")
        /\ UNCHANGED memory
     \/ /\ last_byte # 0 /\ (start > 0 \/ stop = 0)
        /\ start' = IF start > 0 THEN start - 1 ELSE 0
        /\ stop' = IF start > 0 THEN stop ELSE 1
        /\ buf' = [buf EXCEPT ![start'] = last_byte]
        /\ taken' = taken - 1
        /\ Forget
        /\ Finish("ok", -1, 0)

-----------------------------------------------------------------------------
\* full_rune over the window, and the size decode_rune finds in it.
FullRune == Buffered > 0 /\ Buffered >= Lookahead[buf[start]]
RuneSize == IF FullRune THEN Width[buf[start]] ELSE 1

ReadRune ==
  LET wants == /\ start + UtfMax > stop
               /\ ~ FullRune
               /\ pending = NoFailure
               /\ Buffered < Size
  IN
  /\ call.op = "read_rune"
  /\ \/ wants /\ FillThen(call) /\ UNCHANGED memory
     \/ /\ ~ wants /\ Buffered = 0
        /\ Deliver
        /\ UNCHANGED <<window, memory, fed, taken>>
        /\ Finish(pending.kind, 0, 0)
     \/ /\ ~ wants /\ Buffered > 0
        /\ Consume(RuneSize)
        /\ last_byte' = buf[start + RuneSize - 1] /\ last_rune_size' = RuneSize
        /\ UNCHANGED <<pending, fed, owed>>
        /\ Finish("ok", RuneSize, buf[start + RuneSize - 1])

UnreadRune ==
  /\ call.op = "unread_rune"
  /\ UNCHANGED <<buf, stop, pending, fed, owed>>
  /\ \/ /\ last_rune_size = 0 \/ start < last_rune_size
        /\ UNCHANGED <<start, taken, memory>>
        /\ Finish("refused", 0, 0)
     \/ /\ last_rune_size > 0 /\ start >= last_rune_size
        /\ start' = start - last_rune_size
        /\ taken' = taken - last_rune_size
        /\ Forget
        /\ Finish("ok", - last_rune_size, 0)

-----------------------------------------------------------------------------
Slicing == call.op \in {"read_slice", "read_bytes", "read_line"}

\* Offsets from start of the delimiters in the part of the window not searched yet.
Found == {i \in call.searched .. Buffered - 1 : buf[start + i] \in Delims}

\* The last content byte of a fragment of n bytes: read_line strips its ending.
ContentEnd(n) ==
  LET end == start + n - 1
      cut == IF buf[end] \notin Delims THEN 0
             ELSE IF n > 1 /\ buf[end - 1] \in Returns THEN 2 ELSE 1
  IN IF call.op = "read_line" /\ cut > 0
       THEN IF n > cut THEN buf[end - cut] ELSE 0
       ELSE buf[end]

\* The delimiter is in the window: everything up to and including the first.
SliceFound ==
  /\ Slicing
  /\ \E first \in Found :
       /\ \A other \in Found : first <= other
       /\ Take(first + 1)
       /\ UNCHANGED <<pending, fed, owed>>
       /\ Finish("ok", call.out + first + 1, ContentEnd(first + 1))

\* A failure is held: the bytes before it now, the failure itself to the next call.
SliceTail ==
  /\ Slicing /\ Found = {} /\ pending # NoFailure /\ Buffered > 0
  /\ Take(Buffered)
  /\ UNCHANGED <<pending, fed, owed>>
  /\ Finish("ok", call.out + Buffered, buf[stop - 1])

\* Nothing is left before the held failure: it is raised, and read_bytes wraps it.
SliceHeld ==
  /\ Slicing /\ Found = {} /\ pending # NoFailure /\ Buffered = 0
  /\ Deliver
  /\ UNCHANGED <<window, memory, fed, taken>>
  /\ Finish(pending.kind, 0, 0)

\* Variant: a read_line that keeps a carriage return which may be half of an ending.
SliceFull_KeepsReturn ==
  /\ Slicing /\ Found = {} /\ pending = NoFailure /\ Buffered >= Size
  /\ UNCHANGED <<buf, stop, pending, fed, owed>>
  /\ start' = start + Buffered
  /\ taken' = taken + Buffered
  /\ Forget
  /\ Finish("ok", Buffered, buf[stop - 1])

\* Variant: a read_line that takes the carriage return it does not hand over.
SliceFull_DropsReturn ==
  LET back == IF buf[stop - 1] \in Returns THEN 1 ELSE 0 IN
  /\ Slicing /\ Found = {} /\ pending = NoFailure /\ Buffered >= Size
  /\ UNCHANGED <<buf, stop, pending, fed, owed>>
  /\ start' = start + Buffered
  /\ taken' = taken + Buffered
  /\ Forget
  /\ Finish("ok", Buffered - back, buf[stop - 1 - back])

\* Variant: a read_bytes that leaves a full window where it is and looks again.
SliceFull_Again ==
  /\ Slicing /\ Found = {} /\ pending = NoFailure /\ Buffered >= Size
  /\ UNCHANGED <<window, pending, fed, taken, owed>>
  /\ Forget
  /\ Continue([call EXCEPT !.searched = 0])

\* The window is full and holds no delimiter.  read_slice leaves the bytes there;
\* read_bytes moves them to its list and goes on; read_line hands them over, except a
\* carriage return at the end, which goes back.
SliceFull ==
  /\ Slicing /\ Found = {} /\ pending = NoFailure /\ Buffered >= Size
  /\ UNCHANGED <<buf, stop, pending, fed, owed>>
  /\ \/ /\ call.op = "read_slice"
        /\ Forget
        /\ UNCHANGED <<start, taken>>
        /\ Finish("full", 0, 0)
     \/ /\ call.op = "read_bytes"
        /\ Forget
        /\ start' = start + Buffered
        /\ taken' = taken + Buffered
        /\ Continue([call EXCEPT !.out = @ + Buffered, !.searched = 0])
     \/ LET back == IF buf[stop - 1] \in Returns THEN 1 ELSE 0
            n == Buffered - back
        IN
        /\ call.op = "read_line"
        /\ start' = start + n
        /\ taken' = taken + n
        /\ last_byte' = IF back = 1 THEN 0 ELSE buf[stop - 1]
        /\ last_rune_size' = 0
        /\ Finish("ok", n, buf[stop - 1 - back])

SliceFill ==
  /\ Slicing /\ Found = {} /\ pending = NoFailure /\ Buffered < Size
  /\ FillThen([call EXCEPT !.searched = Buffered])
  /\ UNCHANGED memory

-----------------------------------------------------------------------------
\* The sink takes the whole window, or part of it and the call fails with the
\* window as it was.
WriteTo(n, next) ==
  \/ /\ Consume(n)
     /\ Continue([call EXCEPT !.at = next, !.out = @ + n])
     /\ UNCHANGED <<pending, fed, owed, memory>>
  \/ \E k \in 0 .. n :
       /\ UNCHANGED <<window, pending, fed, taken, owed, memory>>
       /\ Finish("fault", call.out + k, 0)

WriteToHead ==
  /\ call.op = "write_to" /\ call.at = "top"
  /\ IF Buffered > 0
       THEN WriteTo(Buffered, "fill")
       ELSE Continue([call EXCEPT !.at = "fill"]) /\ UNCHANGED <<window, memory, pending, fed, taken, owed>>

WriteToFill ==
  /\ call.op = "write_to" /\ call.at = "fill"
  /\ FillThen([call EXCEPT !.at = "drain"])
  /\ UNCHANGED memory

WriteToDrain ==
  /\ call.op = "write_to" /\ call.at = "drain"
  /\ \/ Buffered > 0 /\ WriteTo(Buffered, "fill")
     \/ /\ Buffered = 0
        /\ Deliver
        /\ UNCHANGED <<window, memory, fed, taken>>
        /\ Finish(IF pending.kind = "EOF" THEN "ok" ELSE pending.kind, call.out, 0)

\* reset: throw the window and the held failure away and start on a fresh source.
Reset ==
  /\ call = Idle /\ "reset" \in uses
  /\ start' = 0 /\ stop' = 0
  /\ pending' = NoFailure
  /\ Forget
  /\ fed' = 0 /\ taken' = 0 /\ owed' = 0
  /\ UNCHANGED <<buf, call, result, uses>>

Step ==
  \/ Peek \/ DiscardFill \/ DiscardSkip
  \/ ReadNothing \/ ReadHeld \/ ReadThrough \/ ReadFill \/ ReadWindow
  \/ ReadByte \/ UnreadByte \/ ReadRune \/ UnreadRune
  \/ SliceFound \/ SliceTail \/ SliceHeld \/ SliceFull \/ SliceFill
  \/ WriteToHead \/ WriteToFill \/ WriteToDrain

Next == Begin \/ Reset \/ Step

\* A method that was called runs; the source answers every read.
Spec == Init /\ [][Next]_vars /\ WF_vars(Step)

-----------------------------------------------------------------------------
Calls == [op : Methods \cup {"idle"}, n : 0 .. Size + 1, mark : Nat, searched : Nat,
          out : Nat, at : {"top", "skip", "fill", "drain"}]

\* Every variable stays in its range, and the window inside the buffer.
TypeOK ==
  /\ buf \in [Index -> 0 .. Last]
  /\ start \in 0 .. Size /\ stop \in start .. Size
  /\ pending \in Failure \cup {NoFailure}
  /\ last_byte \in 0 .. Last /\ last_rune_size \in 0 .. UtfMax
  /\ fed \in 0 .. Last /\ taken \in 0 .. Last /\ owed \in Nat
  /\ call \in Calls /\ (call.op = "idle" \/ call.op \in uses)
  /\ uses \in Clients

(***************************************************************************)
(* No byte is lost, repeated or reordered: the window holds exactly the    *)
(* bytes between what was consumed and what the source delivered, through  *)
(* every slide, refill and put-back.  write_to does not forget the byte    *)
(* unread_byte puts back, so for a client of both only their number is     *)
(* right.                                                                  *)
(***************************************************************************)
PutsBackBlindly == {"write_to", "unread_byte"} \subseteq uses

StreamIntact ==
  /\ fed = taken + Buffered
  /\ ~ PutsBackBlindly => \A i \in start .. stop - 1 : buf[i] = taken + 1 + i - start

(***************************************************************************)
(* A failure the source raised is held until it is reported, once, and no  *)
(* second one replaces it (_hold, _deliver).  discard and write_to fill    *)
(* without looking at what is held, so this is for clients without them.   *)
(***************************************************************************)
FillsOverHeld == uses \cap {"discard", "write_to"} # {}

Outstanding == IF pending = NoFailure THEN 0 ELSE 1

NoFailureLost == FillsOverHeld \/ owed = Outstanding

(***************************************************************************)
(* A failure is delivered at its place in the stream: after every byte     *)
(* that arrived before it and before any that arrived later.  Only peek,   *)
(* which consumes nothing, reports one with bytes still buffered.          *)
(***************************************************************************)
Delivery == call # Idle /\ owed' < owed

FailureInPlace ==
  [][Delivery /\ ~ FillsOverHeld /\ ~ PutsBackBlindly =>
       pending.at = IF call.op = "peek" THEN fed ELSE taken']_vars

\* A rune split over two reads is completed: read_rune returns less than the
\* whole rune only when the source failed first.
ReturnsRune == call.op = "read_rune" /\ call' = Idle /\ result'.how = "ok"

RuneIsWhole == last_rune_size' = Width[taken + 1] \/ pending # NoFailure

\* read_line never hands over the carriage return of an ending, even when a
\* line longer than the buffer splits the ending, unless the source failed
\* between the two bytes.
ReturnsLine == call.op = "read_line" /\ call' = Idle /\ result'.how = "ok"

EndingIsWhole ==
  pending = NoFailure => ~ (result'.last \in Returns /\ result'.last + 1 \in Delims)

(***************************************************************************)
(* The edge of the buffer shows in no rune read_rune returns and in no     *)
(* line read_line returns.                                                 *)
(***************************************************************************)
EdgeDoesNotShow ==
  [][~ PutsBackBlindly => /\ ReturnsRune => RuneIsWhole
                          /\ ReturnsLine => EndingIsWhole]_vars

(***************************************************************************)
(* _fill is never asked to fill a full buffer, "which is a bug in bufio".  *)
(***************************************************************************)
NeverFillsFull == result.how # "bug"

(***************************************************************************)
(* What a call consumed it handed over: only a read_bytes that raises and  *)
(* a write_to whose sink fails part way disagree with the stream.          *)
(***************************************************************************)
NothingDropped ==
  result.lost # 0 =>
    \/ result.op = "read_bytes" /\ result.how \in {"EOF", "fault"}
    \/ result.op = "write_to" /\ result.how = "fault"

(***************************************************************************)
(* Every call ends: a fill adds a byte or leaves a failure to report.      *)
(***************************************************************************)
CallsEnd == (call # Idle) ~> (call = Idle)

-----------------------------------------------------------------------------
\* A window holds bytes of the input, whoever put them there.
WindowOfBytes == \A i \in start .. stop - 1 : buf[i] \in Positions

\* The two put-back fields describe the last bytes consumed.
LastByteIsLast ==
  /\ last_byte # 0 => taken > 0
  /\ last_byte # 0 /\ "write_to" \notin uses => last_byte = taken

\* The last rune is still before the window when unread_rune could move over it.
LastRuneInBuffer ==
  /\ last_rune_size <= taken
  /\ start = 0 \/ start >= last_rune_size \/ (call.op = "write_to" /\ call.at = "fill")
  /\ start >= last_rune_size =>
       \A i \in start - last_rune_size .. start - 1 :
         /\ buf[i] \in Positions
         /\ ~ PutsBackBlindly => buf[i] = taken + 1 + i - start

\* A held failure is owed; write_to and discard find their loops as they left them.
CallShape ==
  /\ owed >= Outstanding
  /\ call.op = "write_to" /\ call.at = "fill" => Buffered = 0
  /\ call.op = "write_to" /\ call.at = "drain" => Buffered > 0 \/ pending # NoFailure
  /\ call.op = "discard" => call.out <= call.n
  /\ call.op = "discard" /\ call.n > 0 => last_byte = 0 /\ last_rune_size = 0
  /\ call.op = "discard" /\ call.at = "top" /\ call.n > 0 => call.out < call.n

(***************************************************************************)
(* The inductive invariant behind StreamIntact, NoFailureLost and          *)
(* NeverFillsFull.                                                         *)
(***************************************************************************)
IInv ==
  /\ TypeOK
  /\ StreamIntact
  /\ WindowOfBytes
  /\ LastByteIsLast
  /\ LastRuneInBuffer
  /\ CallShape
  /\ NoFailureLost
  /\ NeverFillsFull

-----------------------------------------------------------------------------
\* What the call under way has consumed is what it has to hand over.
Tally ==
  call.op # "idle" =>
    /\ taken = call.mark + call.out
    /\ call.op \notin {"discard", "read_bytes", "write_to"} => call.out = 0

\* Nothing arrives after a failure until it is delivered.
HeldAtEdge == ~ FillsOverHeld /\ pending # NoFailure => pending.at = fed

\* What a slice does not search again holds no delimiter.
Searched ==
  Slicing => /\ call.searched <= Buffered
             /\ \A p \in taken + 1 .. taken + call.searched : p \notin Delims

(***************************************************************************)
(* The inductive invariant behind NothingDropped, FailureInPlace and       *)
(* EdgeDoesNotShow, beside the one above.                                  *)
(***************************************************************************)
CallInv == Tally /\ NothingDropped /\ HeldAtEdge /\ (~ PutsBackBlindly => Searched)
=============================================================================
