-------------------------- MODULE BufReaderProofs --------------------------
(***************************************************************************)
(* The window of a bufio.Reader is the stream between what was consumed    *)
(* and what the source delivered, for every buffer size, every input and   *)
(* every client.                                                           *)
(***************************************************************************)
EXTENDS BufReader, TLAPS

\* The parts of the state that describe the window, typed.
WindowType ==
  /\ buf \in [Index -> 0 .. Last]
  /\ start \in 0 .. Size /\ stop \in start .. Size
  /\ pending \in Failure \cup {NoFailure}
  /\ fed \in 0 .. Last /\ taken \in 0 .. Last /\ owed \in Nat

(***************************************************************************)
(* _fill slides, appends what arrived and holds what failed: the window    *)
(* stays the stream.                                                       *)
(***************************************************************************)
LEMMA FillKeepsStream ==
  ASSUME TypeOK, StreamIntact, WindowOfBytes, owed >= Outstanding,
         Fill, UNCHANGED <<taken, uses>>
  PROVE  /\ WindowType' /\ StreamIntact' /\ WindowOfBytes'
         /\ start' = 0
         /\ owed' >= Outstanding'
         /\ Buffered' > 0 \/ pending' # NoFailure
         /\ pending = NoFailure /\ owed = Outstanding => owed' = Outstanding'
<1>0. /\ Size \in Nat /\ Last \in Nat
      /\ start \in Nat /\ stop \in Nat /\ start <= stop /\ stop <= Size
      /\ fed \in Nat /\ fed <= Last /\ taken \in Nat /\ taken <= Last /\ owed \in Nat
      /\ Buffered = stop - start
  BY SizeAssumption, InputAssumption DEF TypeOK, Buffered
<1>a. buf \in [Index -> 0 .. Last] /\ pending \in Failure \cup {NoFailure}
  BY DEF TypeOK
<1>b. Slid \in [Index -> 0 .. Last]
  BY <1>0, <1>a DEF Slid, Index
<1>c. \A i \in 0 .. Buffered - 1 : Slid[i] = buf[start + i]
  BY <1>0 DEF Slid, Index
<1>1. CASE \E k \in 1 .. Lesser(Size - Buffered, Last - fed) :
             /\ stop' = Buffered + k
             /\ buf' = [i \in Index |-> IF Buffered <= i /\ i < Buffered + k
                                          THEN fed + 1 + i - Buffered ELSE Slid[i]]
             /\ fed' = fed + k
             /\ UNCHANGED <<pending, owed>>
  <2>1. PICK k \in 1 .. Lesser(Size - Buffered, Last - fed) :
             /\ stop' = Buffered + k
             /\ buf' = [i \in Index |-> IF Buffered <= i /\ i < Buffered + k
                                          THEN fed + 1 + i - Buffered ELSE Slid[i]]
             /\ fed' = fed + k
             /\ UNCHANGED <<pending, owed>>
    BY <1>1
  <2>2. k \in Nat \ {0} /\ k <= Size - Buffered /\ k <= Last - fed
    BY <1>0, <2>1 DEF Lesser
  <2>3. start' = 0
    BY DEF Fill
  <2>4. \A i \in 0 .. Buffered + k - 1 :
          buf'[i] = IF Buffered <= i THEN fed + 1 + i - Buffered ELSE buf[start + i]
    <3> SUFFICES ASSUME NEW i \in 0 .. Buffered + k - 1
                 PROVE  buf'[i] = IF Buffered <= i THEN fed + 1 + i - Buffered
                                                   ELSE buf[start + i]
      OBVIOUS
    <3>1. i \in Index /\ i \in Nat
      BY <1>0, <2>2 DEF Index
    <3>2. buf'[i] = IF Buffered <= i /\ i < Buffered + k
                      THEN fed + 1 + i - Buffered ELSE Slid[i]
      BY <2>1, <3>1
    <3> QED
      BY <1>0, <1>c, <2>2, <3>1, <3>2
  <2>5. buf' \in [Index -> 0 .. Last]
    <3>1. \A i \in Index : Buffered <= i /\ i < Buffered + k
                             => fed + 1 + i - Buffered \in 0 .. Last
      BY <1>0, <2>2 DEF Index
    <3> QED
      BY <1>b, <2>1, <3>1
  <2>6. WindowType'
    BY <1>0, <1>a, <2>1, <2>2, <2>3, <2>5 DEF WindowType
  <2>7. WindowOfBytes'
    <3> SUFFICES ASSUME NEW i \in 0 .. Buffered + k - 1
                 PROVE  buf'[i] \in Positions
      BY <1>0, <2>1, <2>2, <2>3 DEF WindowOfBytes, Positions
    <3>1. CASE Buffered <= i
      BY <1>0, <2>2, <2>4, <3>1 DEF Positions
    <3>2. CASE i < Buffered
      <4>1. start + i \in start .. stop - 1
        BY <1>0, <2>2, <3>2
      <4> QED
        BY <1>0, <2>2, <2>4, <3>2, <4>1 DEF WindowOfBytes
    <3> QED
      BY <1>0, <2>2, <3>1, <3>2
  <2>8. StreamIntact'
    <3>1. fed' = taken' + Buffered'
      BY <1>0, <2>1, <2>2, <2>3 DEF StreamIntact, Buffered
    <3>2. ASSUME ~ PutsBackBlindly, NEW i \in 0 .. Buffered + k - 1
          PROVE  buf'[i] = taken + 1 + i
      <4>1. CASE Buffered <= i
        BY <1>0, <2>2, <2>4, <4>1 DEF StreamIntact
      <4>2. CASE i < Buffered
        <5>1. start + i \in start .. stop - 1
          BY <1>0, <2>2, <4>2
        <5>2. buf[start + i] = taken + 1 + (start + i) - start
          BY <3>2, <5>1 DEF StreamIntact
        <5> QED
          BY <1>0, <2>2, <2>4, <4>2, <5>2
      <4> QED
        BY <1>0, <2>2, <4>1, <4>2
    <3>3. PutsBackBlindly' <=> PutsBackBlindly
      BY DEF PutsBackBlindly
    <3> QED
      BY <1>0, <2>1, <2>2, <2>3, <3>1, <3>2, <3>3 DEF StreamIntact
  <2>9. Outstanding' = Outstanding
    BY <2>1 DEF Outstanding
  <2>10. Buffered' > 0
    BY <1>0, <2>1, <2>2, <2>3 DEF Buffered
  <2> QED
    BY <1>0, <2>1, <2>3, <2>6, <2>7, <2>8, <2>9, <2>10
<1>2. CASE \E kind \in {"EOF", "fault"} :
             /\ stop' = Buffered
             /\ buf' = Slid
             /\ pending' = [kind |-> kind, at |-> fed]
             /\ owed' = owed + 1
             /\ UNCHANGED fed
  <2>1. PICK kind \in {"EOF", "fault"} :
             /\ stop' = Buffered
             /\ buf' = Slid
             /\ pending' = [kind |-> kind, at |-> fed]
             /\ owed' = owed + 1
             /\ UNCHANGED fed
    BY <1>2
  <2>2. start' = 0
    BY DEF Fill
  <2>3. pending' \in Failure /\ pending' # NoFailure
    BY <1>0, <2>1 DEF Failure, NoFailure
  <2>4. WindowType'
    BY <1>0, <1>b, <2>1, <2>2, <2>3 DEF WindowType
  <2>5. \A i \in 0 .. Buffered - 1 : start + i \in start .. stop - 1
    BY <1>0
  <2>6. WindowOfBytes'
    BY <1>c, <2>1, <2>2, <2>5 DEF WindowOfBytes
  <2>7. StreamIntact'
    <3>1. fed' = taken' + Buffered'
      BY <1>0, <2>1, <2>2 DEF StreamIntact, Buffered
    <3>2. ASSUME ~ PutsBackBlindly, NEW i \in 0 .. Buffered - 1
          PROVE  buf'[i] = taken + 1 + i
      <4>1. buf[start + i] = taken + 1 + (start + i) - start
        BY <2>5, <3>2 DEF StreamIntact
      <4> QED
        BY <1>0, <1>c, <2>1, <4>1
    <3>3. PutsBackBlindly' <=> PutsBackBlindly
      BY DEF PutsBackBlindly
    <3> QED
      BY <1>0, <2>1, <2>2, <3>1, <3>2, <3>3 DEF StreamIntact
  <2>8. Outstanding' = 1 /\ (pending = NoFailure => Outstanding = 0)
    BY <2>3 DEF Outstanding
  <2> QED
    BY <1>0, <2>1, <2>2, <2>3, <2>4, <2>6, <2>7, <2>8 DEF Outstanding
<1> QED
  BY <1>1, <1>2 DEF Fill
-----------------------------------------------------------------------------
\* What an action has to establish, with the window's part as one formula.
LEMMA Assemble ==
  ASSUME WindowType', StreamIntact', WindowOfBytes',
         last_byte' \in 0 .. Last, last_rune_size' \in 0 .. UtfMax,
         call' \in Calls, call'.op = "idle" \/ call'.op \in uses', uses' \in Clients,
         LastByteIsLast', LastRuneInBuffer', CallShape', NoFailureLost', NeverFillsFull'
  PROVE  IInv'
BY DEF IInv, TypeOK, WindowType

LEMMA IdleIsACall == Idle \in Calls /\ Idle.op = "idle"
BY SizeAssumption DEF Idle, Calls

\* A call that ended leaves only the held failure's debt to CallShape.
LEMMA Finished ==
  ASSUME NEW how, NEW bytes, NEW last, Finish(how, bytes, last),
         how # "bug", uses \in Clients, owed' >= Outstanding'
  PROVE  /\ call' \in Calls /\ call'.op = "idle" /\ uses' \in Clients /\ uses' = uses
         /\ CallShape' /\ NeverFillsFull'
BY IdleIsACall DEF Finish, CallShape, NeverFillsFull

(***************************************************************************)
(* A loop that fills with room to: everything is kept, and the put-back of *)
(* a rune cannot reach before the window any more.                         *)
(***************************************************************************)
LEMMA FillStep ==
  ASSUME IInv, NEW c \in Calls, c.op = call.op, call.op # "idle", Buffered < Size,
         FillThen(c), UNCHANGED memory,
         pending = NoFailure \/ call.op \in {"discard", "write_to"},
         call.op = "write_to" => c.at = "drain",
         call.op = "discard" =>
           c.out <= c.n /\ c.n = call.n /\ (c.at = "top" /\ c.n > 0 => c.out < c.n)
  PROVE  IInv'
<1>1. Fill /\ UNCHANGED <<taken, uses, last_byte, last_rune_size, result>> /\ call' = c
  BY DEF FillThen, Continue, memory
<1>2. owed >= Outstanding /\ (~ FillsOverHeld => owed = Outstanding)
  BY DEF IInv, CallShape, NoFailureLost
<1>3. /\ WindowType' /\ StreamIntact' /\ WindowOfBytes'
      /\ start' = 0
      /\ owed' >= Outstanding'
      /\ Buffered' > 0 \/ pending' # NoFailure
      /\ pending = NoFailure /\ owed = Outstanding => owed' = Outstanding'
  BY <1>1, <1>2, FillKeepsStream DEF IInv
<1>4. /\ last_byte' \in 0 .. Last /\ last_rune_size' \in 0 .. UtfMax
      /\ call' \in Calls /\ call'.op \in uses' /\ uses' \in Clients
  BY <1>1 DEF IInv, TypeOK
<1>5. LastByteIsLast'
  BY <1>1 DEF IInv, LastByteIsLast
<1>6. LastRuneInBuffer'
  <2>1. last_rune_size \in Nat
    BY SizeAssumption DEF IInv, TypeOK
  <2> QED
    BY <1>1, <1>3, <2>1 DEF IInv, LastRuneInBuffer
<1>7. CallShape'
  BY <1>1, <1>3 DEF IInv, CallShape
<1>8. NoFailureLost'
  <2>1. SUFFICES ASSUME ~ FillsOverHeld PROVE owed' = Outstanding'
    BY <1>1 DEF NoFailureLost, FillsOverHeld
  <2>2. call.op \notin {"discard", "write_to"}
    BY <2>1 DEF FillsOverHeld, IInv, TypeOK
  <2> QED
    BY <1>2, <1>3, <2>1, <2>2
<1>9. NeverFillsFull'
  BY <1>1 DEF IInv, NeverFillsFull
<1> QED
  BY <1>3, <1>4, <1>5, <1>6, <1>7, <1>8, <1>9, Assemble

(***************************************************************************)
(* Consuming from the front keeps the rest of the window the stream.       *)
(***************************************************************************)
LEMMA ConsumeKeepsStream ==
  ASSUME TypeOK, StreamIntact, WindowOfBytes, NEW k \in 0 .. Buffered, Consume(k),
         UNCHANGED <<fed, uses>>, pending' \in Failure \cup {NoFailure}, owed' \in Nat
  PROVE  WindowType' /\ StreamIntact' /\ WindowOfBytes'
<1>0. /\ Size \in Nat /\ Last \in Nat /\ k \in Nat
      /\ start \in Nat /\ stop \in Nat /\ start <= stop /\ stop <= Size
      /\ fed \in Nat /\ fed <= Last /\ taken \in Nat /\ taken <= Last
      /\ Buffered = stop - start /\ k <= stop - start
      /\ start' = start + k /\ taken' = taken + k /\ stop' = stop /\ buf' = buf
      /\ fed = taken + (stop - start)
  BY SizeAssumption, InputAssumption DEF TypeOK, Buffered, Consume, StreamIntact
<1>1. WindowType'
  BY <1>0 DEF WindowType, TypeOK
<1>2. WindowOfBytes'
  BY <1>0 DEF WindowOfBytes, Positions
<1>3. StreamIntact'
  BY <1>0 DEF StreamIntact, PutsBackBlindly, Buffered
<1> QED
  BY <1>1, <1>2, <1>3

(***************************************************************************)
(* _take remembers the last byte it consumed and forgets the last rune.    *)
(***************************************************************************)
LEMMA TakeRemembers ==
  ASSUME TypeOK, StreamIntact, WindowOfBytes, NEW k \in 1 .. Buffered, Take(k),
         UNCHANGED <<fed, uses>>
  PROVE  /\ last_byte' \in 0 .. Last /\ last_rune_size' \in 0 .. UtfMax
         /\ LastByteIsLast' /\ LastRuneInBuffer'
<1>0. /\ Size \in Nat /\ Last \in Nat /\ k \in Nat /\ k > 0
      /\ start \in Nat /\ stop \in Nat /\ start <= stop /\ taken \in Nat
      /\ k <= stop - start
      /\ start' = start + k /\ taken' = taken + k
      /\ last_byte' = buf[start + k - 1] /\ last_rune_size' = 0
      /\ start + k - 1 \in start .. stop - 1
  BY SizeAssumption, InputAssumption DEF TypeOK, Buffered, Take, Consume
<1>1. last_byte' \in Positions
  BY <1>0 DEF WindowOfBytes
<1>2. LastByteIsLast'
  <2>1. "write_to" \notin uses => ~ PutsBackBlindly
    BY DEF PutsBackBlindly
  <2>2. "write_to" \notin uses => last_byte' = taken + 1 + (start + k - 1) - start
    BY <1>0, <2>1 DEF StreamIntact
  <2> QED
    BY <1>0, <2>2 DEF LastByteIsLast
<1>3. LastRuneInBuffer'
  BY <1>0 DEF LastRuneInBuffer
<1> QED
  BY <1>0, <1>1, <1>2, <1>3, SizeAssumption DEF Positions

(***************************************************************************)
(* A call that takes bytes and returns them.                               *)
(***************************************************************************)
LEMMA TakeStep ==
  ASSUME IInv, NEW k \in 1 .. Buffered, Take(k), UNCHANGED <<pending, fed, owed>>,
         NEW bytes, NEW last, Finish("ok", bytes, last)
  PROVE  IInv'
<1>1. Consume(k) /\ UNCHANGED uses
  BY DEF Take, Finish
<1>2. k \in 0 .. Buffered
  OBVIOUS
<1>3. WindowType' /\ StreamIntact' /\ WindowOfBytes'
  BY <1>1, <1>2, ConsumeKeepsStream DEF IInv, TypeOK
<1>4. /\ last_byte' \in 0 .. Last /\ last_rune_size' \in 0 .. UtfMax
      /\ LastByteIsLast' /\ LastRuneInBuffer'
  BY <1>1, TakeRemembers DEF IInv
<1>5. owed' >= Outstanding'
  BY DEF IInv, CallShape, Outstanding
<1>6. /\ call' \in Calls /\ call'.op = "idle" /\ uses' \in Clients
      /\ CallShape' /\ NeverFillsFull'
  BY <1>5, Finished DEF IInv, TypeOK
<1>7. NoFailureLost'
  BY <1>1 DEF IInv, NoFailureLost, FillsOverHeld, Outstanding
<1> QED
  BY <1>3, <1>4, <1>6, <1>7, Assemble

(***************************************************************************)
(* A call that reports the held failure, or refuses, and consumes nothing. *)
(***************************************************************************)
LEMMA QuietStep ==
  ASSUME IInv, UNCHANGED <<window, memory, fed, taken>>,
         UNCHANGED <<pending, owed>> \/ (pending # NoFailure /\ Deliver),
         call.op = "write_to" => call.at # "fill",
         NEW how, how # "bug", NEW bytes, NEW last, Finish(how, bytes, last)
  PROVE  IInv'
<1>1. UNCHANGED <<buf, start, stop, last_byte, last_rune_size, fed, taken, uses>>
  BY DEF window, memory, Finish
<1>2. /\ pending' \in Failure \cup {NoFailure} /\ owed' \in Nat
      /\ owed' >= Outstanding'
      /\ owed = Outstanding => owed' = Outstanding'
  <2>1. owed \in Nat /\ owed >= Outstanding /\ Outstanding \in {0, 1}
    BY DEF IInv, TypeOK, CallShape, Outstanding
  <2>2. CASE UNCHANGED <<pending, owed>>
    BY <2>1, <2>2 DEF IInv, TypeOK, Outstanding
  <2>3. CASE pending # NoFailure /\ Deliver
    BY <2>1, <2>3 DEF Deliver, Outstanding
  <2> QED
    BY <2>2, <2>3
<1>3. WindowType' /\ StreamIntact' /\ WindowOfBytes'
  BY <1>1, <1>2 DEF IInv, TypeOK, WindowType, StreamIntact, WindowOfBytes,
                    PutsBackBlindly, Buffered
<1>4. last_byte' \in 0 .. Last /\ last_rune_size' \in 0 .. UtfMax
  BY <1>1 DEF IInv, TypeOK
<1>5. /\ call' \in Calls /\ call'.op = "idle" /\ uses' \in Clients
      /\ CallShape' /\ NeverFillsFull'
  BY <1>2, Finished DEF IInv, TypeOK
<1>6. LastByteIsLast'
  BY <1>1 DEF IInv, LastByteIsLast
<1>8. NoFailureLost'
  BY <1>1, <1>2 DEF IInv, NoFailureLost, FillsOverHeld
<1>7. LastRuneInBuffer'
  BY <1>1 DEF IInv, LastRuneInBuffer, PutsBackBlindly
<1> QED
  BY <1>3, <1>4, <1>5, <1>6, <1>7, <1>8, Assemble
-----------------------------------------------------------------------------
LEMMA InitIInv == Init => IInv
<1> SUFFICES ASSUME Init PROVE IInv
  OBVIOUS
<1> USE SizeAssumption, InputAssumption, IdleIsACall
<1>1. TypeOK
  BY DEF Init, TypeOK, Index, Failure
<1>2. StreamIntact /\ WindowOfBytes
  BY DEF Init, StreamIntact, WindowOfBytes, Buffered
<1>3. LastByteIsLast /\ LastRuneInBuffer
  BY DEF Init, LastByteIsLast, LastRuneInBuffer
<1>4. CallShape /\ NoFailureLost /\ NeverFillsFull
  BY DEF Init, CallShape, NoFailureLost, Outstanding, NeverFillsFull, NoResult
<1> QED
  BY <1>1, <1>2, <1>3, <1>4 DEF IInv

LEMMA EnterIInv ==
  ASSUME IInv, NEW op \in Methods, NEW n \in 0 .. Size + 1, Enter(op, n)
  PROVE  IInv'
<1>1. /\ UNCHANGED <<buf, start, stop, pending, fed, taken, owed, uses>>
      /\ last_byte' \in {0, last_byte} /\ last_rune_size' \in {0, last_rune_size}
  BY DEF Enter, window
<1>2. WindowType' /\ StreamIntact' /\ WindowOfBytes'
  BY <1>1 DEF IInv, TypeOK, WindowType, StreamIntact, WindowOfBytes, PutsBackBlindly, Buffered
<1>3. /\ last_byte' \in 0 .. Last /\ last_rune_size' \in 0 .. UtfMax
      /\ last_rune_size \in Nat
  BY <1>1, SizeAssumption, InputAssumption DEF IInv, TypeOK
<1>4. /\ call'.op = op /\ call'.at = "top" /\ call'.out = 0 /\ call'.n = n
      /\ call' \in Calls /\ call'.op \in uses' /\ uses' \in Clients
  <2>1. taken \in Nat
    BY InputAssumption DEF IInv, TypeOK
  <2> QED
    BY <1>1, <2>1, SizeAssumption DEF Enter, Idle, Calls, IInv, TypeOK
<1>5. LastByteIsLast'
  BY <1>1 DEF IInv, LastByteIsLast
<1>6. LastRuneInBuffer'
  <2>1. start = 0 \/ start >= last_rune_size
    BY DEF Enter, IInv, LastRuneInBuffer, Idle
  <2>2. taken \in Nat /\ start \in Nat
    BY SizeAssumption, InputAssumption DEF IInv, TypeOK
  <2>3. CASE last_rune_size' = 0
    BY <1>1, <2>2, <2>3 DEF LastRuneInBuffer
  <2>4. CASE last_rune_size' = last_rune_size
    BY <1>1, <2>1, <2>4 DEF IInv, LastRuneInBuffer, PutsBackBlindly
  <2> QED
    BY <1>1, <2>3, <2>4
<1>7. CallShape'
  <2>1. op = "discard" /\ n > 0 => last_byte' = 0 /\ last_rune_size' = 0
    BY DEF Enter
  <2> QED
    BY <1>1, <1>4, <2>1, SizeAssumption DEF IInv, CallShape, Outstanding
<1>8. NoFailureLost' /\ NeverFillsFull'
  BY <1>1 DEF IInv, NoFailureLost, FillsOverHeld, Outstanding, NeverFillsFull, Enter, NoResult
<1> QED
  BY <1>2, <1>3, <1>4, <1>5, <1>6, <1>7, <1>8, Assemble

LEMMA BeginIInv == ASSUME IInv, Begin PROVE IInv'
BY EnterIInv, SizeAssumption DEF Begin, Methods

LEMMA ResetIInv == ASSUME IInv, Reset PROVE IInv'
<1> USE SizeAssumption, InputAssumption
<1>1. /\ start' = 0 /\ stop' = 0 /\ buf' = buf /\ pending' = NoFailure
      /\ fed' = 0 /\ taken' = 0 /\ owed' = 0
      /\ last_byte' = 0 /\ last_rune_size' = 0
      /\ UNCHANGED <<call, result, uses>> /\ call = Idle
  BY DEF Reset, Forget
<1>2. WindowType'
  BY <1>1 DEF IInv, TypeOK, WindowType
<1>3. StreamIntact' /\ WindowOfBytes'
  BY <1>1 DEF StreamIntact, WindowOfBytes, Buffered
<1>4. LastByteIsLast' /\ LastRuneInBuffer'
  BY <1>1 DEF LastByteIsLast, LastRuneInBuffer
<1>5. CallShape' /\ NoFailureLost' /\ NeverFillsFull'
  BY <1>1, IdleIsACall DEF IInv, CallShape, NoFailureLost, Outstanding, NeverFillsFull
<1>6. /\ last_byte' \in 0 .. Last /\ last_rune_size' \in 0 .. UtfMax
      /\ call' \in Calls /\ call'.op = "idle" /\ uses' \in Clients
  BY <1>1, IdleIsACall DEF IInv, TypeOK
<1> QED
  BY <1>2, <1>3, <1>4, <1>5, <1>6, Assemble

LEMMA PeekIInv == ASSUME IInv, Peek PROVE IInv'
<1>0. call.op = "peek" /\ call \in Calls /\ UNCHANGED memory /\ call.n \in Int /\ Buffered \in Int
  BY SizeAssumption DEF Peek, IInv, TypeOK, Calls, Buffered
<1>1. CASE call.n > Size /\ Refuse("full")
  BY <1>0, <1>1, QuietStep DEF Refuse, window
<1>2. CASE call.n <= Buffered /\ Refuse("ok")
  BY <1>0, <1>2, QuietStep DEF Refuse, window
<1>3. CASE /\ Buffered < call.n /\ call.n <= Size
           /\ pending = NoFailure /\ FillThen(call)
  <2>1. Buffered < Size
    BY <1>0, <1>3, SizeAssumption
  <2> QED
    BY <1>0, <1>3, <2>1, FillStep
<1>4. CASE /\ Buffered < call.n /\ call.n <= Size
           /\ pending # NoFailure /\ Deliver
           /\ UNCHANGED <<window, fed, taken>> /\ Finish(pending.kind, 0, 0)
  <2>1. pending.kind # "bug"
    BY <1>4 DEF IInv, TypeOK, Failure
  <2> QED
    BY <1>0, <1>4, <2>1, QuietStep
<1> QED
  BY <1>1, <1>2, <1>3, <1>4 DEF Peek

LEMMA HeldStep ==
  ASSUME IInv, pending # NoFailure, Deliver, UNCHANGED <<window, memory, fed, taken>>,
         call.op # "write_to", Finish(pending.kind, 0, 0)
  PROVE  IInv'
<1>1. pending.kind # "bug"
  BY DEF IInv, TypeOK, Failure
<1> QED
  BY <1>1, QuietStep

LEMMA FillAgain ==
  ASSUME IInv, call.op \notin {"idle", "discard", "write_to"}, pending = NoFailure,
         Buffered < Size, FillThen(call), UNCHANGED memory
  PROVE  IInv'
<1>1. call \in Calls
  BY DEF IInv, TypeOK
<1> QED
  BY <1>1, FillStep
-----------------------------------------------------------------------------
LEMMA DiscardFillIInv == ASSUME IInv, DiscardFill PROVE IInv'
<1> DEFINE c == [call EXCEPT !.at = "skip"]
<1>0. /\ call.op = "discard" /\ call.at = "top" /\ call.n > 0
      /\ call \in Calls /\ UNCHANGED memory
  BY DEF DiscardFill, IInv, TypeOK
<1>1. /\ c \in Calls /\ c.op = call.op /\ c.n = call.n /\ c.out = call.out
      /\ c.at = "skip"
  BY <1>0 DEF Calls
<1>2. CASE Buffered = 0
  <2>1. FillThen(c) /\ Buffered < Size
    BY <1>2, SizeAssumption DEF DiscardFill
  <2> QED
    BY <1>0, <1>1, <2>1, FillStep DEF IInv, CallShape
<1>3. CASE Buffered # 0
  <2>1. UNCHANGED <<buf, start, stop, pending, fed, taken, owed, last_byte,
                    last_rune_size, result, uses>> /\ call' = c
    BY <1>0, <1>3 DEF DiscardFill, Continue, window, memory
  <2>2. WindowType' /\ StreamIntact' /\ WindowOfBytes'
    BY <2>1 DEF IInv, TypeOK, WindowType, StreamIntact, WindowOfBytes,
                PutsBackBlindly, Buffered
  <2>3. LastByteIsLast' /\ LastRuneInBuffer'
    BY <1>0, <1>1, <2>1 DEF IInv, LastByteIsLast, LastRuneInBuffer, PutsBackBlindly
  <2>4. CallShape' /\ NoFailureLost' /\ NeverFillsFull'
    BY <1>0, <1>1, <2>1 DEF IInv, CallShape, NoFailureLost, FillsOverHeld, Outstanding,
                            NeverFillsFull
  <2> QED
    BY <1>0, <1>1, <2>1, <2>2, <2>3, <2>4, Assemble DEF IInv, TypeOK
<1> QED
  BY <1>2, <1>3

LEMMA DiscardSkipIInv == ASSUME IInv, DiscardSkip PROVE IInv'
<1> DEFINE skip == Lesser(Buffered, call.n - call.out)
           done == call.out + skip
<1>0. /\ call.op = "discard" /\ call \in Calls /\ call.n \in Nat /\ call.out \in Nat
      /\ call.out <= call.n
      /\ Consume(skip) /\ UNCHANGED <<fed, last_byte, last_rune_size>>
      /\ start \in Nat /\ stop \in Nat /\ start <= stop /\ Buffered = stop - start
      /\ owed \in Nat /\ taken \in Nat
  BY SizeAssumption, InputAssumption
     DEF DiscardSkip, IInv, TypeOK, Calls, CallShape, memory, Buffered
<1>1. /\ skip \in 0 .. Buffered /\ skip \in Nat /\ done \in Nat /\ done <= call.n
      /\ (call.n = 0 => skip = 0)
      /\ (skip # call.n - call.out => skip = Buffered)
  BY <1>0 DEF Lesser
<1>2. /\ uses' = uses
      /\ pending' \in Failure \cup {NoFailure} /\ owed' \in Nat /\ owed' >= Outstanding'
      /\ owed = Outstanding => owed' = Outstanding'
  <2>1. owed >= Outstanding /\ Outstanding \in {0, 1}
    BY DEF IInv, CallShape, Outstanding
  <2>2. CASE UNCHANGED <<pending, owed>>
    BY <1>0, <2>1, <2>2 DEF IInv, TypeOK, Outstanding, DiscardSkip, Finish, Continue
  <2>3. CASE pending # NoFailure /\ Deliver
    BY <1>0, <2>1, <2>3 DEF Deliver, Outstanding, DiscardSkip, Finish, Continue
  <2> QED
    BY <2>2, <2>3 DEF DiscardSkip
<1>3. WindowType' /\ StreamIntact' /\ WindowOfBytes'
  BY <1>0, <1>1, <1>2, ConsumeKeepsStream DEF IInv
<1>4. LastByteIsLast' /\ LastRuneInBuffer'
  <2>0. start' = start + skip /\ taken' = taken + skip /\ buf' = buf
    BY <1>0 DEF Consume
  <2>1. CASE call.n > 0
    <3>1. last_byte' = 0 /\ last_rune_size' = 0
      BY <1>0, <2>1 DEF IInv, CallShape
    <3> QED
      BY <1>0, <1>1, <2>0, <3>1 DEF LastByteIsLast, LastRuneInBuffer
  <2>2. CASE call.n = 0
    <3>1. start' = start /\ taken' = taken
      BY <1>0, <1>1, <2>0, <2>2
    <3> QED
      BY <1>0, <1>2, <2>0, <3>1
         DEF IInv, LastByteIsLast, LastRuneInBuffer, PutsBackBlindly
  <2> QED
    BY <1>0, <2>1, <2>2
<1>5. NoFailureLost'
  BY <1>2 DEF IInv, NoFailureLost, FillsOverHeld
<1>6. last_byte' \in 0 .. Last /\ last_rune_size' \in 0 .. UtfMax
  BY <1>0 DEF IInv, TypeOK
<1>7. CASE \E how : how # "bug" /\ Finish(how, done, 0)
  BY <1>2, <1>3, <1>4, <1>5, <1>6, <1>7, Finished, Assemble DEF IInv, TypeOK
<1>8. CASE /\ Continue([call EXCEPT !.at = "top", !.out = done])
           /\ done # call.n /\ UNCHANGED <<pending, owed>>
  <2>1. /\ call' \in Calls /\ call'.op = "discard" /\ call'.at = "top"
        /\ call'.n = call.n /\ call'.out = done /\ call'.op \in uses' /\ uses' \in Clients
    BY <1>0, <1>1, <1>8 DEF Continue, Calls, IInv, TypeOK
  <2>2. CallShape'
    BY <1>0, <1>1, <1>2, <1>8, <2>1 DEF IInv, CallShape
  <2>3. NeverFillsFull'
    BY <1>8 DEF IInv, NeverFillsFull, Continue
  <2> QED
    BY <1>3, <1>4, <1>5, <1>6, <2>1, <2>2, <2>3, Assemble
<1>9. pending # NoFailure => pending.kind # "bug"
  BY DEF IInv, TypeOK, Failure
<1> QED
  BY <1>7, <1>8, <1>9 DEF DiscardSkip

LEMMA ReadThroughIInv == ASSUME IInv, ReadThrough PROVE IInv'
<1>0. /\ call.op = "read" /\ Buffered = 0 /\ UNCHANGED <<buf, start, stop, pending, owed>>
      /\ start \in Nat /\ stop = start /\ taken \in Nat /\ fed = taken /\ Last \in Nat
      /\ fed <= Last /\ call.n \in Nat
  BY SizeAssumption, InputAssumption
     DEF ReadThrough, window, IInv, TypeOK, StreamIntact, Buffered, Calls
<1>1. CASE \E k \in 1 .. Lesser(call.n, Last - fed) :
             /\ fed' = fed + k
             /\ taken' = taken + k
             /\ last_byte' = fed + k /\ last_rune_size' = 0
             /\ Finish("ok", k, fed + k)
  <2>1. PICK k \in 1 .. Lesser(call.n, Last - fed) :
             /\ fed' = fed + k
             /\ taken' = taken + k
             /\ last_byte' = fed + k /\ last_rune_size' = 0
             /\ Finish("ok", k, fed + k)
    BY <1>1
  <2>2. k \in Nat /\ k > 0 /\ k <= Last - fed
    BY <1>0, <2>1 DEF Lesser
  <2>3. WindowType' /\ StreamIntact' /\ WindowOfBytes'
    BY <1>0, <2>1, <2>2 DEF IInv, TypeOK, WindowType, StreamIntact, WindowOfBytes, Buffered
  <2>4. LastByteIsLast' /\ LastRuneInBuffer'
    BY <1>0, <2>1, <2>2 DEF LastByteIsLast, LastRuneInBuffer
  <2>5. owed' >= Outstanding' /\ NoFailureLost'
    BY <1>0, <2>1 DEF IInv, CallShape, Outstanding, NoFailureLost, FillsOverHeld, Finish
  <2>6. last_byte' \in 0 .. Last /\ last_rune_size' \in 0 .. UtfMax
    BY <1>0, <2>1, <2>2, SizeAssumption
  <2> QED
    BY <2>1, <2>3, <2>4, <2>5, <2>6, Finished, Assemble DEF IInv, TypeOK
<1>2. CASE \E kind \in {"EOF", "fault"} :
             UNCHANGED <<memory, fed, taken>> /\ Finish(kind, 0, 0)
  BY <1>0, <1>2, QuietStep DEF window
<1> QED
  BY <1>1, <1>2 DEF ReadThrough

LEMMA ReadIInv ==
  ASSUME IInv, ReadNothing \/ ReadHeld \/ ReadFill \/ ReadWindow
  PROVE  IInv'
<1>1. CASE ReadNothing
  BY <1>1, QuietStep DEF ReadNothing, Refuse, window
<1>2. CASE ReadHeld
  BY <1>2, HeldStep DEF ReadHeld
<1>3. CASE ReadFill
  BY <1>3, FillAgain, SizeAssumption DEF ReadFill
<1>4. CASE ReadWindow
  <2>1. Lesser(Buffered, call.n) \in 1 .. Buffered
    BY <1>4, SizeAssumption DEF ReadWindow, Lesser, IInv, TypeOK, Calls, Buffered
  <2> QED
    BY <1>4, <2>1, TakeStep DEF ReadWindow
<1> QED
  BY <1>1, <1>2, <1>3, <1>4

LEMMA ReadByteIInv == ASSUME IInv, ReadByte PROVE IInv'
<1>1. CASE Buffered = 0 /\ pending # NoFailure
  BY <1>1, HeldStep DEF ReadByte
<1>2. CASE Buffered = 0 /\ pending = NoFailure
  BY <1>2, FillAgain, SizeAssumption DEF ReadByte
<1>3. CASE Buffered > 0
  <2>1. 1 \in 1 .. Buffered
    BY <1>3, SizeAssumption DEF IInv, TypeOK, Buffered
  <2>2. Take(1) /\ UNCHANGED <<pending, fed, owed>> /\ Finish("ok", 1, buf[start])
    BY <1>3 DEF ReadByte
  <2> QED
    BY <2>1, <2>2, TakeStep
<1> QED
  BY <1>1, <1>2, <1>3 DEF ReadByte
-----------------------------------------------------------------------------
(***************************************************************************)
(* Putting a byte back: it is the one just before the window.              *)
(***************************************************************************)
LEMMA UnreadByteIInv == ASSUME IInv, UnreadByte PROVE IInv'
<1>0. /\ call.op = "unread_byte" /\ "unread_byte" \in uses
      /\ UNCHANGED <<pending, fed, owed>>
  BY DEF UnreadByte, IInv, TypeOK
<1>1. CASE Refuse("refused") /\ UNCHANGED memory
  BY <1>0, <1>1, QuietStep DEF Refuse, window
<1>2. CASE /\ last_byte # 0 /\ (start > 0 \/ stop = 0)
           /\ start' = IF start > 0 THEN start - 1 ELSE 0
           /\ stop' = IF start > 0 THEN stop ELSE 1
           /\ buf' = [buf EXCEPT ![start'] = last_byte]
           /\ taken' = taken - 1
           /\ Forget
           /\ Finish("ok", -1, 0)
  <2>0. /\ Size \in Nat /\ Size > 0 /\ Last \in Nat
        /\ start \in Nat /\ stop \in Nat /\ start <= stop /\ stop <= Size
        /\ taken \in Nat /\ taken > 0 /\ taken <= Last
        /\ fed = taken + (stop - start)
        /\ last_byte \in Positions /\ buf \in [Index -> 0 .. Last]
    BY <1>2, SizeAssumption, InputAssumption
       DEF IInv, TypeOK, StreamIntact, LastByteIsLast, Buffered, Positions
  <2>1. PICK s, t : start' = s /\ stop' = t
    OBVIOUS
  <2>2. /\ s \in Nat /\ t \in Nat /\ s < t /\ t <= Size /\ s \in Index
        /\ t - s = stop - start + 1
        /\ stop > start => s = start - 1 /\ t = stop
    BY <1>2, <2>0, <2>1 DEF Index
  <2>3. \A i \in s .. t - 1 : i # s =>
          i \in Index /\ i \in start .. stop - 1 /\ s = start - 1 /\ t = stop
    BY <2>0, <2>2 DEF Index
  <2>4. /\ buf' \in [Index -> 0 .. Last] /\ buf'[s] = last_byte
        /\ \A i \in Index : i # s => buf'[i] = buf[i]
        /\ taken' = taken - 1 /\ last_byte' = 0 /\ last_rune_size' = 0
    <3>1. last_byte \in 0 .. Last
      BY <2>0 DEF Positions
    <3>2. buf' = [buf EXCEPT ![s] = last_byte]
      BY <1>2, <2>1
    <3> QED
      BY <1>2, <2>0, <2>2, <3>1, <3>2 DEF Forget
  <2>5. WindowType'
    BY <1>0, <2>0, <2>1, <2>2, <2>4 DEF WindowType, IInv, TypeOK
  <2>6. WindowOfBytes'
    <3>1. ASSUME NEW i \in s .. t - 1 PROVE buf'[i] \in Positions
      <4>1. CASE i = s
        BY <2>0, <2>4, <4>1
      <4>2. CASE i # s
        BY <2>3, <2>4, <4>2 DEF IInv, WindowOfBytes
      <4> QED
        BY <4>1, <4>2
    <3>2. start' .. stop' - 1 = s .. t - 1
      BY <2>1
    <3> QED
      BY <3>1, <3>2 DEF WindowOfBytes, Positions
  <2>7. StreamIntact'
    <3>1. fed' = taken' + Buffered'
      BY <1>0, <2>0, <2>1, <2>2, <2>4 DEF Buffered
    <3>2. ASSUME ~ PutsBackBlindly, NEW i \in s .. t - 1
          PROVE  buf'[i] = taken' + 1 + i - s
      <4>1. CASE i = s
        <5>1. last_byte = taken
          BY <1>0, <1>2, <3>2 DEF PutsBackBlindly, IInv, LastByteIsLast
        <5> QED
          BY <2>0, <2>2, <2>4, <4>1, <5>1
      <4>2. CASE i # s
        <5>1. i \in start .. stop - 1 /\ buf'[i] = buf[i] /\ s = start - 1
          BY <2>3, <2>4, <4>2
        <5>2. buf[i] = taken + 1 + i - start
          BY <3>2, <5>1 DEF IInv, StreamIntact
        <5> QED
          BY <2>0, <2>2, <2>4, <5>1, <5>2
      <4> QED
        BY <4>1, <4>2
    <3>3. PutsBackBlindly' <=> PutsBackBlindly
      BY <1>2 DEF PutsBackBlindly, Finish
    <3>4. ~ PutsBackBlindly => \A i \in start' .. stop' - 1 : buf'[i] = taken' + 1 + i - start'
      BY <2>1, <3>2
    <3> QED
      BY <3>1, <3>3, <3>4 DEF StreamIntact
  <2>8. LastByteIsLast' /\ LastRuneInBuffer'
    <3>1. taken' \in Nat /\ last_byte' = 0 /\ last_rune_size' = 0
      BY <2>0, <2>4
    <3> QED
      BY <2>1, <2>2, <3>1 DEF LastByteIsLast, LastRuneInBuffer
  <2>9. owed' >= Outstanding' /\ NoFailureLost'
    BY <1>0, <1>2 DEF IInv, CallShape, Outstanding, NoFailureLost, FillsOverHeld, Finish
  <2> QED
    BY <1>2, <2>0, <2>4, <2>5, <2>6, <2>7, <2>8, <2>9, SizeAssumption, Finished, Assemble
       DEF IInv, TypeOK
<1> QED
  BY <1>1, <1>2 DEF UnreadByte

LEMMA UnreadRuneIInv == ASSUME IInv, UnreadRune PROVE IInv'
<1>0. /\ call.op = "unread_rune" /\ UNCHANGED <<buf, stop, pending, fed, owed>>
  BY DEF UnreadRune
<1>1. CASE UNCHANGED <<start, taken, memory>> /\ Finish("refused", 0, 0)
  BY <1>0, <1>1, QuietStep DEF window
<1>2. CASE /\ last_rune_size > 0 /\ start >= last_rune_size
           /\ start' = start - last_rune_size
           /\ taken' = taken - last_rune_size
           /\ Forget
           /\ Finish("ok", - last_rune_size, 0)
  <2>0. /\ Size \in Nat /\ Last \in Nat
        /\ start \in Nat /\ stop \in Nat /\ start <= stop /\ stop <= Size
        /\ taken \in Nat /\ taken <= Last /\ last_rune_size \in Nat
        /\ last_rune_size <= taken /\ fed = taken + (stop - start)
    BY SizeAssumption, InputAssumption
       DEF IInv, TypeOK, StreamIntact, LastRuneInBuffer, Buffered
  <2>1. /\ start' \in Nat /\ start' = start - last_rune_size /\ stop' = stop
        /\ taken' \in Nat /\ taken' = taken - last_rune_size /\ buf' = buf
        /\ last_byte' = 0 /\ last_rune_size' = 0 /\ fed' = fed
    BY <1>0, <1>2, <2>0 DEF Forget
  <2>2. \A i \in start' .. stop' - 1 :
          /\ buf[i] \in Positions
          /\ ~ PutsBackBlindly => buf[i] = taken + 1 + i - start
    <3> SUFFICES ASSUME NEW i \in start' .. stop' - 1
                 PROVE  /\ buf[i] \in Positions
                        /\ ~ PutsBackBlindly => buf[i] = taken + 1 + i - start
      OBVIOUS
    <3>1. CASE i < start
      <4>1. i \in start - last_rune_size .. start - 1
        BY <2>0, <2>1, <3>1
      <4> QED
        BY <1>2, <4>1 DEF IInv, LastRuneInBuffer
    <3>2. CASE i >= start
      <4>1. i \in start .. stop - 1
        BY <2>0, <2>1, <3>2
      <4> QED
        BY <4>1 DEF IInv, StreamIntact, WindowOfBytes
    <3> QED
      BY <2>0, <2>1, <3>1, <3>2
  <2>3. WindowType'
    BY <1>0, <2>0, <2>1 DEF WindowType, IInv, TypeOK
  <2>4. WindowOfBytes'
    BY <2>1, <2>2 DEF WindowOfBytes, Positions
  <2>5. StreamIntact'
    <3>1. PutsBackBlindly' <=> PutsBackBlindly
      BY <1>2 DEF PutsBackBlindly, Finish
    <3>2. fed' = taken' + Buffered'
      BY <2>0, <2>1 DEF Buffered
    <3>3. \A i \in start' .. stop' - 1 : taken + 1 + i - start = taken' + 1 + i - start'
      BY <2>0, <2>1
    <3> QED
      BY <2>1, <2>2, <3>1, <3>2, <3>3 DEF StreamIntact
  <2>6. LastByteIsLast' /\ LastRuneInBuffer'
    BY <2>0, <2>1 DEF LastByteIsLast, LastRuneInBuffer
  <2>7. owed' >= Outstanding' /\ NoFailureLost'
    BY <1>0, <1>2 DEF IInv, CallShape, Outstanding, NoFailureLost, FillsOverHeld, Finish
  <2> QED
    BY <1>2, <2>0, <2>1, <2>3, <2>4, <2>5, <2>6, <2>7, SizeAssumption, Finished, Assemble
       DEF IInv, TypeOK
<1> QED
  BY <1>1, <1>2 DEF UnreadRune

(***************************************************************************)
(* A decoded rune lies in the window, and stays in the buffer behind it.   *)
(***************************************************************************)
LEMMA ReadRuneIInv == ASSUME IInv, ReadRune PROVE IInv'
<1>0. /\ call.op = "read_rune" /\ Size \in Nat /\ Last \in Nat /\ Size > 0
      /\ start \in Nat /\ stop \in Nat /\ start <= stop /\ stop <= Size
      /\ taken \in Nat /\ Buffered = stop - start /\ UtfMax \in Nat /\ UtfMax > 0
  BY SizeAssumption, InputAssumption DEF ReadRune, IInv, TypeOK, Buffered
<1>1. CASE /\ start + UtfMax > stop /\ ~ FullRune /\ pending = NoFailure
           /\ Buffered < Size /\ FillThen(call) /\ UNCHANGED memory
  BY <1>0, <1>1, FillAgain
<1>2. CASE /\ ~ (/\ start + UtfMax > stop /\ ~ FullRune /\ pending = NoFailure
                 /\ Buffered < Size)
           /\ Buffered = 0 /\ Deliver /\ UNCHANGED <<window, memory, fed, taken>>
           /\ Finish(pending.kind, 0, 0)
  <2>1. pending # NoFailure
    BY <1>0, <1>2 DEF FullRune
  <2> QED
    BY <1>0, <1>2, <2>1, HeldStep
<1>3. CASE /\ Buffered > 0 /\ Consume(RuneSize)
           /\ last_byte' = buf[start + RuneSize - 1] /\ last_rune_size' = RuneSize
           /\ UNCHANGED <<pending, fed, owed>>
           /\ Finish("ok", RuneSize, buf[start + RuneSize - 1])
  <2>1. buf[start] \in Positions
    BY <1>0, <1>3 DEF IInv, WindowOfBytes
  <2>2. RuneSize \in 1 .. UtfMax /\ RuneSize <= Buffered
    <3>1. /\ Width[buf[start]] \in 1 .. UtfMax /\ Lookahead[buf[start]] \in 1 .. UtfMax
          /\ Width[buf[start]] <= Lookahead[buf[start]]
      BY <2>1, InputAssumption
    <3> QED
      BY <1>0, <1>3, <3>1 DEF RuneSize, FullRune
  <2>3. RuneSize \in 0 .. Buffered /\ RuneSize \in Nat /\ RuneSize > 0
    BY <1>0, <2>2
  <2>4. uses' = uses
    BY <1>3 DEF Finish
  <2>5. WindowType' /\ StreamIntact' /\ WindowOfBytes'
    BY <1>3, <2>3, <2>4, ConsumeKeepsStream DEF IInv, TypeOK
  <2>6. start + RuneSize - 1 \in start .. stop - 1
    BY <1>0, <2>2, <2>3
  <2>7. start' = start + RuneSize /\ taken' = taken + RuneSize /\ buf' = buf
    BY <1>3 DEF Consume
  <2>8. LastByteIsLast'
    <3>1. "write_to" \notin uses =>
            buf[start + RuneSize - 1] = taken + 1 + (start + RuneSize - 1) - start
      BY <2>6 DEF IInv, StreamIntact, PutsBackBlindly
    <3> QED
      BY <1>0, <1>3, <2>3, <2>4, <2>7, <3>1 DEF LastByteIsLast
  <2>9. LastRuneInBuffer'
    <3>1. \A i \in start' - RuneSize .. start' - 1 :
            /\ buf'[i] \in Positions
            /\ ~ PutsBackBlindly => buf'[i] = taken' + 1 + i - start'
      <4> SUFFICES ASSUME NEW i \in start' - RuneSize .. start' - 1
                   PROVE  /\ buf'[i] \in Positions
                          /\ ~ PutsBackBlindly => buf'[i] = taken' + 1 + i - start'
        OBVIOUS
      <4>1. i \in start .. stop - 1
        BY <1>0, <2>2, <2>3, <2>7
      <4>2. taken + 1 + i - start = taken' + 1 + i - start'
        BY <1>0, <2>3, <2>7, <4>1
      <4> QED
        BY <2>7, <4>1, <4>2 DEF IInv, StreamIntact, WindowOfBytes
    <3> QED
      BY <1>0, <1>3, <2>3, <2>4, <2>7, <3>1
         DEF LastRuneInBuffer, PutsBackBlindly, Positions
  <2>10. last_byte' \in 0 .. Last /\ last_rune_size' \in 0 .. UtfMax
    BY <1>0, <1>3, <2>2, <2>6 DEF IInv, WindowOfBytes, Positions
  <2>11. owed' >= Outstanding' /\ NoFailureLost'
    BY <1>3, <2>4 DEF IInv, CallShape, Outstanding, NoFailureLost, FillsOverHeld
  <2> QED
    BY <1>3, <2>5, <2>8, <2>9, <2>10, <2>11, Finished, Assemble DEF IInv, TypeOK
<1> QED
  BY <1>1, <1>2, <1>3 DEF ReadRune
-----------------------------------------------------------------------------
(***************************************************************************)
(* Bytes leave the window and what could be put back is forgotten.         *)
(***************************************************************************)
LEMMA ForgetStep ==
  ASSUME IInv, NEW k \in 0 .. Buffered, Consume(k), Forget,
         UNCHANGED <<pending, fed, owed, uses>>,
         call' \in Calls, NeverFillsFull',
         \/ call'.op = "idle"
         \/ call'.op \in uses /\ call'.op \notin {"write_to", "discard"}
  PROVE  IInv'
<1>0. k \in Nat /\ start \in Nat /\ taken \in Nat
  BY SizeAssumption, InputAssumption DEF IInv, TypeOK, Buffered
<1>1. start' = start + k /\ taken' = taken + k /\ last_byte' = 0 /\ last_rune_size' = 0
  BY DEF Consume, Forget
<1>2. WindowType' /\ StreamIntact' /\ WindowOfBytes'
  BY ConsumeKeepsStream DEF IInv, TypeOK
<1>3. LastByteIsLast' /\ LastRuneInBuffer'
  BY <1>0, <1>1 DEF LastByteIsLast, LastRuneInBuffer
<1>4. CallShape' /\ NoFailureLost'
  BY DEF IInv, CallShape, NoFailureLost, FillsOverHeld, Outstanding
<1> QED
  BY <1>1, <1>2, <1>3, <1>4, SizeAssumption, InputAssumption, Assemble DEF IInv, TypeOK

\* The fragment up to a delimiter, or before a held failure, is taken whole.
LEMMA SliceTakeIInv == ASSUME IInv, SliceFound \/ SliceTail PROVE IInv'
<1>0. /\ call.searched \in Nat /\ start \in Nat /\ stop \in Nat /\ start <= stop
      /\ Buffered = stop - start
  BY SizeAssumption DEF IInv, TypeOK, Calls, Buffered
<1>1. CASE SliceFound
  <2>1. PICK first \in Found :
          /\ Take(first + 1)
          /\ UNCHANGED <<pending, fed, owed>>
          /\ Finish("ok", call.out + first + 1, ContentEnd(first + 1))
    BY <1>1 DEF SliceFound
  <2>2. first \in call.searched .. Buffered - 1
    BY <2>1 DEF Found
  <2>3. first + 1 \in 1 .. Buffered
    BY <1>0, <2>2
  <2> QED
    BY <2>1, <2>3, TakeStep
<1>2. CASE SliceTail
  <2>1. Buffered \in 1 .. Buffered
    BY <1>0, <1>2 DEF SliceTail
  <2> QED
    BY <1>2, <2>1, TakeStep DEF SliceTail
<1> QED
  BY <1>1, <1>2

LEMMA SliceFullIInv == ASSUME IInv, SliceFull PROVE IInv'
<1>0. /\ Size \in Nat /\ Size > 0 /\ start \in Nat /\ stop \in Nat /\ start <= stop
      /\ Buffered = stop - start /\ Buffered > 0 /\ call \in Calls /\ call.out \in Nat
      /\ taken \in Nat /\ call.op \in uses
      /\ UNCHANGED <<buf, stop, pending, fed, owed>>
  BY SizeAssumption, InputAssumption DEF SliceFull, Slicing, IInv, TypeOK, Calls, Buffered
<1>1. CASE /\ call.op = "read_slice" /\ Forget /\ UNCHANGED <<start, taken>>
           /\ Finish("full", 0, 0)
  <2>1. 0 \in 0 .. Buffered /\ Consume(0)
    BY <1>0, <1>1 DEF Consume
  <2>2. call' \in Calls /\ call'.op = "idle" /\ uses' = uses /\ NeverFillsFull'
    BY <1>1, IdleIsACall DEF Finish, NeverFillsFull
  <2> QED
    BY <1>0, <1>1, <2>1, <2>2, ForgetStep
<1>2. CASE /\ call.op = "read_bytes" /\ Forget
           /\ start' = start + Buffered
           /\ taken' = taken + Buffered
           /\ Continue([call EXCEPT !.out = @ + Buffered, !.searched = 0])
  <2>1. Buffered \in 0 .. Buffered /\ Consume(Buffered)
    BY <1>0, <1>2 DEF Consume
  <2>2. /\ call' \in Calls /\ call'.op = "read_bytes" /\ uses' = uses
        /\ NeverFillsFull'
    <3>1. call.out + Buffered \in Nat
      BY <1>0
    <3>2. /\ call' = [call EXCEPT !.out = call.out + Buffered, !.searched = 0]
          /\ uses' = uses /\ result' = result
      BY <1>2 DEF Continue
    <3>3. call' \in Calls /\ call'.op = call.op
      BY <1>0, <3>1, <3>2 DEF Calls
    <3> QED
      BY <1>2, <3>2, <3>3 DEF IInv, NeverFillsFull
  <2> QED
    BY <1>0, <1>2, <2>1, <2>2, ForgetStep
<1>3. CASE /\ call.op = "read_line"
           /\ buf[stop - 1] \in Returns
           /\ start' = start + (Buffered - 1)
           /\ taken' = taken + (Buffered - 1)
           /\ last_byte' = 0 /\ last_rune_size' = 0
           /\ Finish("ok", Buffered - 1, buf[stop - 1 - 1])
  <2>1. Buffered - 1 \in 0 .. Buffered /\ Consume(Buffered - 1) /\ Forget
    BY <1>0, <1>3 DEF Consume, Forget
  <2>2. call' \in Calls /\ call'.op = "idle" /\ uses' = uses /\ NeverFillsFull'
    BY <1>3, IdleIsACall DEF Finish, NeverFillsFull
  <2> QED
    BY <1>0, <2>1, <2>2, ForgetStep
<1>4. CASE /\ call.op = "read_line"
           /\ start' = start + (Buffered - 0)
           /\ taken' = taken + (Buffered - 0)
           /\ last_byte' = buf[stop - 1] /\ last_rune_size' = 0
           /\ Finish("ok", Buffered - 0, buf[stop - 1 - 0])
  <2>1. Buffered \in 1 .. Buffered /\ start + Buffered - 1 = stop - 1
    BY <1>0
  <2>2. Take(Buffered)
    BY <1>0, <1>4, <2>1 DEF Take, Consume
  <2> QED
    BY <1>0, <1>4, <2>1, <2>2, TakeStep
<1>5. buf[stop - 1] \in Returns \/ buf[stop - 1] \notin Returns
  OBVIOUS
<1> QED
  BY <1>1, <1>2, <1>3, <1>4, <1>5 DEF SliceFull

LEMMA SliceIInv ==
  ASSUME IInv, SliceFound \/ SliceTail \/ SliceHeld \/ SliceFull \/ SliceFill
  PROVE  IInv'
<1>1. CASE SliceHeld
  <2>1. call.op # "write_to"
    BY <1>1 DEF SliceHeld, Slicing
  <2> QED
    BY <1>1, <2>1, HeldStep DEF SliceHeld
<1>2. CASE SliceFill
  <2> DEFINE c == [call EXCEPT !.searched = Buffered]
  <2>1. Buffered \in Nat /\ call \in Calls
    BY SizeAssumption DEF IInv, TypeOK, Buffered
  <2>2. c \in Calls /\ c.op = call.op
    BY <2>1 DEF Calls
  <2>3. call.op \notin {"idle", "discard", "write_to"}
    BY <1>2 DEF SliceFill, Slicing
  <2>4. /\ FillThen(c) /\ UNCHANGED memory /\ Buffered < Size
        /\ pending = NoFailure
    BY <1>2 DEF SliceFill
  <2> HIDE DEF c
  <2> QED
    BY <2>2, <2>3, <2>4, FillStep
<1> QED
  BY <1>1, <1>2, SliceTakeIInv, SliceFullIInv
-----------------------------------------------------------------------------
(***************************************************************************)
(* The sink took the whole window, or refused some of it.                  *)
(***************************************************************************)
LEMMA WriteToStep ==
  ASSUME IInv, call.op = "write_to", call.at # "fill", WriteTo(Buffered, "fill")
  PROVE  IInv'
<1>0. /\ Size \in Nat /\ start \in Nat /\ stop \in Nat /\ start <= stop
      /\ Buffered = stop - start /\ call \in Calls /\ call.out \in Nat
      /\ taken \in Nat /\ last_rune_size \in Nat /\ call.op \in uses
  BY SizeAssumption, InputAssumption DEF IInv, TypeOK, Calls, Buffered
<1>1. CASE \E k \in 0 .. Buffered :
             /\ UNCHANGED <<window, pending, fed, taken, owed, memory>>
             /\ Finish("fault", call.out + k, 0)
  <2>1. PICK k \in 0 .. Buffered :
             /\ UNCHANGED <<window, pending, fed, taken, owed, memory>>
             /\ Finish("fault", call.out + k, 0)
    BY <1>1
  <2> QED
    BY <2>1, QuietStep
<1>2. CASE /\ Consume(Buffered)
           /\ Continue([call EXCEPT !.at = "fill", !.out = @ + Buffered])
           /\ UNCHANGED <<pending, fed, owed, memory>>
  <2>1. /\ start' = stop /\ stop' = stop /\ buf' = buf /\ taken' = taken + (stop - start)
        /\ UNCHANGED <<last_byte, last_rune_size, uses, result>>
        /\ call' \in Calls /\ call'.op = "write_to" /\ call'.at = "fill"
    <3>1. call.out + Buffered \in Nat /\ start + Buffered = stop
      BY <1>0
    <3>2. call' = [call EXCEPT !.at = "fill", !.out = call.out + Buffered]
      BY <1>2 DEF Continue
    <3>3. call' \in Calls /\ call'.op = call.op /\ call'.at = "fill"
      BY <1>0, <3>1, <3>2 DEF Calls
    <3> QED
      BY <1>0, <1>2, <3>1, <3>3 DEF Consume, Continue, memory
  <2>2. WindowType' /\ StreamIntact' /\ WindowOfBytes'
    <3>1. Buffered \in 0 .. Buffered
      BY <1>0
    <3> QED
      BY <1>2, <2>1, <3>1, ConsumeKeepsStream DEF IInv, TypeOK
  <2>3. LastByteIsLast'
    BY <1>0, <2>1 DEF IInv, LastByteIsLast
  <2>4. LastRuneInBuffer'
    <3>1. ASSUME NEW i \in stop - last_rune_size .. stop - 1, stop >= last_rune_size
          PROVE  /\ buf[i] \in Positions
                 /\ ~ PutsBackBlindly => buf[i] = taken + 1 + i - start
      <4>1. CASE i >= start
        <5>1. i \in start .. stop - 1
          BY <1>0, <4>1
        <5> QED
          BY <5>1 DEF IInv, StreamIntact, WindowOfBytes
      <4>2. CASE i < start
        <5>1. start >= last_rune_size
          BY <1>0, <3>1, <4>2 DEF IInv, LastRuneInBuffer
        <5>2. i \in start - last_rune_size .. start - 1
          BY <1>0, <4>2
        <5> QED
          BY <5>1, <5>2 DEF IInv, LastRuneInBuffer
      <4> QED
        BY <1>0, <4>1, <4>2
    <3>2. \A i \in stop - last_rune_size .. stop - 1 :
            taken + 1 + i - start = taken + (stop - start) + 1 + i - stop
      BY <1>0
    <3>3. last_rune_size <= taken + (stop - start)
      BY <1>0 DEF IInv, LastRuneInBuffer
    <3> QED
      BY <2>1, <3>1, <3>2, <3>3 DEF LastRuneInBuffer, PutsBackBlindly
  <2>5. CallShape'
    <3>1. Buffered' = 0 /\ owed' >= Outstanding'
      BY <1>0, <1>2, <2>1 DEF Buffered, IInv, CallShape, Outstanding
    <3> QED
      BY <2>1, <3>1 DEF CallShape
  <2>6. NoFailureLost' /\ NeverFillsFull'
    BY <1>2, <2>1 DEF IInv, NoFailureLost, FillsOverHeld, Outstanding, NeverFillsFull
  <2> QED
    BY <1>0, <2>1, <2>2, <2>3, <2>4, <2>5, <2>6, Assemble DEF IInv, TypeOK
<1> QED
  BY <1>1, <1>2 DEF WriteTo

LEMMA WriteToIInv ==
  ASSUME IInv, WriteToHead \/ WriteToFill \/ WriteToDrain
  PROVE  IInv'
<1>0. /\ call.op = "write_to" /\ call \in Calls /\ call.op \in uses
      /\ Buffered \in Nat /\ Size \in Nat /\ Size > 0
  BY SizeAssumption DEF WriteToHead, WriteToFill, WriteToDrain, IInv, TypeOK, Buffered
<1>1. CASE call.at # "fill" /\ WriteTo(Buffered, "fill")
  BY <1>0, <1>1, WriteToStep
<1>2. CASE /\ call.at = "top" /\ Buffered = 0
           /\ Continue([call EXCEPT !.at = "fill"])
           /\ UNCHANGED <<window, memory, pending, fed, taken, owed>>
  <2>1. /\ UNCHANGED <<buf, start, stop, pending, fed, taken, owed, last_byte,
                       last_rune_size, result, uses>>
        /\ call' \in Calls /\ call'.op = "write_to" /\ call'.at = "fill"
    BY <1>0, <1>2 DEF Continue, window, memory, Calls
  <2>2. WindowType' /\ StreamIntact' /\ WindowOfBytes'
    BY <2>1 DEF IInv, TypeOK, WindowType, StreamIntact, WindowOfBytes,
                PutsBackBlindly, Buffered
  <2>3. LastByteIsLast' /\ LastRuneInBuffer'
    BY <2>1 DEF IInv, LastByteIsLast, LastRuneInBuffer, PutsBackBlindly
  <2>4. CallShape' /\ NoFailureLost' /\ NeverFillsFull'
    BY <1>2, <2>1 DEF IInv, CallShape, NoFailureLost, FillsOverHeld, Outstanding,
                      NeverFillsFull, Buffered
  <2> QED
    BY <1>0, <2>1, <2>2, <2>3, <2>4, Assemble DEF IInv, TypeOK
<1>3. CASE WriteToFill
  <2> DEFINE c == [call EXCEPT !.at = "drain"]
  <2>1. c \in Calls /\ c.op = call.op /\ c.at = "drain"
    BY <1>0 DEF Calls
  <2>2. FillThen(c) /\ UNCHANGED memory
    BY <1>3 DEF WriteToFill
  <2>3. Buffered < Size
    BY <1>0, <1>3 DEF WriteToFill, IInv, CallShape
  <2> HIDE DEF c
  <2> QED
    BY <1>0, <2>1, <2>2, <2>3, FillStep
<1>4. CASE /\ call.at = "drain" /\ Buffered = 0 /\ Deliver
           /\ UNCHANGED <<window, memory, fed, taken>>
           /\ Finish(IF pending.kind = "EOF" THEN "ok" ELSE pending.kind, call.out, 0)
  <2>1. pending # NoFailure
    BY <1>0, <1>4 DEF IInv, CallShape
  <2>2. (IF pending.kind = "EOF" THEN "ok" ELSE pending.kind) # "bug"
    BY <2>1 DEF IInv, TypeOK, Failure
  <2> QED
    BY <1>4, <2>1, <2>2, QuietStep
<1> QED
  BY <1>0, <1>1, <1>2, <1>3, <1>4 DEF WriteToHead, WriteToDrain
-----------------------------------------------------------------------------
LEMMA StepIInv == IInv /\ [Next]_vars => IInv'
<1> SUFFICES ASSUME IInv, [Next]_vars PROVE IInv'
  OBVIOUS
<1>1. CASE Begin \/ Reset
  BY <1>1, BeginIInv, ResetIInv
<1>2. CASE Peek \/ DiscardFill \/ DiscardSkip
  BY <1>2, PeekIInv, DiscardFillIInv, DiscardSkipIInv
<1>3. CASE ReadNothing \/ ReadHeld \/ ReadThrough \/ ReadFill \/ ReadWindow
  BY <1>3, ReadIInv, ReadThroughIInv
<1>4. CASE ReadByte \/ UnreadByte \/ ReadRune \/ UnreadRune
  BY <1>4, ReadByteIInv, UnreadByteIInv, ReadRuneIInv, UnreadRuneIInv
<1>5. CASE SliceFound \/ SliceTail \/ SliceHeld \/ SliceFull \/ SliceFill
  BY <1>5, SliceIInv
<1>6. CASE WriteToHead \/ WriteToFill \/ WriteToDrain
  BY <1>6, WriteToIInv
<1>7. CASE UNCHANGED vars
  BY <1>7 DEF vars, IInv, TypeOK, StreamIntact, PutsBackBlindly, Buffered, WindowOfBytes,
              LastByteIsLast, LastRuneInBuffer, CallShape, Outstanding, NoFailureLost,
              FillsOverHeld, NeverFillsFull
<1> QED
  BY <1>1, <1>2, <1>3, <1>4, <1>5, <1>6, <1>7 DEF Next, Step

(***************************************************************************)
(* The inductive invariant holds of every behaviour of a bufio.Reader,     *)
(* whatever the buffer's size, the input, the source's answers and the     *)
(* client's calls.                                                         *)
(***************************************************************************)
THEOREM Inductive == Spec => []IInv
BY InitIInv, StepIInv, PTL DEF Spec

(***************************************************************************)
(* No byte is lost, repeated or reordered, through every slide, refill and *)
(* put-back of read.mojo.                                                  *)
(***************************************************************************)
THEOREM ReaderKeepsTheStream == Spec => []StreamIntact
<1>1. IInv => StreamIntact
  BY DEF IInv
<1> QED
  BY <1>1, Inductive, PTL

(***************************************************************************)
(* A held failure is reported once and never replaced by a second one, and *)
(* _fill is never called on a full buffer.                                 *)
(***************************************************************************)
THEOREM ReaderKeepsFailures == Spec => [](NoFailureLost /\ NeverFillsFull)
<1>1. IInv => NoFailureLost /\ NeverFillsFull
  BY DEF IInv
<1> QED
  BY <1>1, Inductive, PTL

-----------------------------------------------------------------------------
\* The numbers of a state.
LEMMA Ranges ==
  ASSUME IInv
  PROVE  /\ Size \in Nat /\ Last \in Nat /\ start \in Nat /\ stop \in Nat /\ start <= stop
         /\ stop <= Size /\ Buffered = stop - start /\ Buffered \in Nat
         /\ fed \in Nat /\ taken \in Nat /\ owed \in Nat /\ fed = taken + Buffered
         /\ call \in Calls /\ call.mark \in Nat /\ call.out \in Nat /\ call.searched \in Nat
         /\ call.n \in Nat /\ (call.op = "idle" \/ call.op \in uses)
BY SizeAssumption, InputAssumption DEF IInv, TypeOK, StreamIntact, Buffered, Calls

LEMMA RangesNext ==
  ASSUME IInv'
  PROVE  /\ start' \in Nat /\ stop' \in Nat /\ Buffered' = stop' - start' /\ Buffered' \in Nat
         /\ taken' \in Nat
<1>1. start' \in 0 .. Size /\ stop' \in start' .. Size /\ taken' \in 0 .. Last
  BY DEF IInv, TypeOK
<1>2. start' \in Nat /\ stop' \in Nat /\ start' <= stop'
  BY <1>1, SizeAssumption
<1>3. Buffered' = stop' - start'
  BY DEF Buffered
<1>4. Buffered' \in Nat
  <2>1. \A a, b \in Nat : a <= b => b - a \in Nat
    OBVIOUS
  <2> QED
    BY <1>2, <1>3, <2>1
<1>5. taken' \in Nat
  BY <1>1, InputAssumption
<1> QED
  BY <1>2, <1>3, <1>4, <1>5

\* How a call that ends accounts for what it consumed.
LEMMA Accounts ==
  ASSUME IInv, NEW how, NEW bytes \in Int, NEW last, Finish(how, bytes, last), taken' \in Nat,
         \/ taken' = call.mark + bytes
         \/ call.op = "read_bytes" /\ how \in {"EOF", "fault"}
         \/ call.op = "write_to" /\ how = "fault"
  PROVE  Tally' /\ NothingDropped'
<1>1. /\ call'.op = "idle" /\ result'.op = call.op /\ result'.how = how
      /\ result'.lost = taken' - call.mark - bytes
  BY DEF Finish, Idle
<1>2. Tally'
  BY <1>1 DEF Tally
<1>3. taken' = call.mark + bytes => result'.lost = 0
  BY <1>1, Ranges
<1> QED
  BY <1>1, <1>2, <1>3 DEF NothingDropped

\* And one that goes on.
LEMMA GoesOn ==
  ASSUME IInv, Tally, NothingDropped, NEW c \in Calls, Continue(c), call.op # "idle",
         c.op = call.op, c.mark = call.mark,
         taken' - taken = c.out - call.out, taken' \in Nat,
         c.out = call.out \/ call.op \in {"discard", "read_bytes", "write_to"}
  PROVE  Tally' /\ NothingDropped'
<1>1. call' = c /\ result' = result
  BY DEF Continue
<1>2. taken' = c.mark + c.out
  BY Ranges DEF Tally, Calls
<1>3. Tally'
  BY <1>1, <1>2 DEF Tally
<1> QED
  BY <1>1, <1>3 DEF NothingDropped

LEMMA FillTally ==
  ASSUME IInv, Tally, NothingDropped, NEW c \in Calls, FillThen(c), Buffered < Size,
         call.op # "idle", c.op = call.op, c.mark = call.mark, c.out = call.out
  PROVE  Tally' /\ NothingDropped'
<1>1. Continue(c) /\ taken' = taken
  BY DEF FillThen
<1> QED
  BY <1>1, GoesOn, Ranges

LEMMA DiscardTally ==
  ASSUME IInv, Tally, NothingDropped, DiscardFill \/ DiscardSkip
  PROVE  Tally' /\ NothingDropped'
<1>1. CASE DiscardFill
  <2> DEFINE c == [call EXCEPT !.at = "skip"]
  <2>1. c \in Calls /\ c.op = call.op /\ c.mark = call.mark /\ c.out = call.out
    BY Ranges DEF Calls
  <2>2. call.op # "idle" /\ 0 < Size
    BY <1>1, SizeAssumption DEF DiscardFill
  <2> HIDE DEF c
  <2>3. CASE Buffered = 0 /\ FillThen(c)
    BY <2>1, <2>2, <2>3, FillTally
  <2>4. CASE Continue(c) /\ taken' = taken
    BY <2>1, <2>2, <2>4, GoesOn, Ranges
  <2> QED
    BY <1>1, <2>3, <2>4 DEF DiscardFill, c
<1>2. CASE DiscardSkip
  <2> DEFINE skip == Lesser(Buffered, call.n - call.out)
             done == call.out + skip
  <2>1. /\ call.op = "discard" /\ taken' = taken + skip
        /\ \/ Finish("ok", done, 0)
           \/ \E kind : Finish(kind, done, 0)
           \/ Continue([call EXCEPT !.at = "top", !.out = done])
    BY <1>2 DEF DiscardSkip, Consume
  <2>2. call.out <= call.n
    BY <2>1 DEF IInv, CallShape
  <2>3. skip \in Nat
    BY <2>2, Ranges DEF Lesser
  <2> HIDE DEF skip
  <2>4. taken' \in Nat /\ done \in Nat /\ taken' = call.mark + done /\ taken' - taken = done - call.out
    BY <2>1, <2>3, Ranges DEF Tally
  <2> HIDE DEF done
  <2>5. CASE \E kind : Finish(kind, done, 0)
    BY <2>4, <2>5, Accounts
  <2>6. CASE Continue([call EXCEPT !.at = "top", !.out = done])
    <3> DEFINE c == [call EXCEPT !.at = "top", !.out = done]
    <3>1. c \in Calls /\ c.op = call.op /\ c.mark = call.mark /\ c.out = done
      BY <2>4, Ranges DEF Calls
    <3> HIDE DEF c
    <3> QED
      BY <2>1, <2>4, <2>6, <3>1, GoesOn DEF c
  <2> QED
    BY <2>1, <2>5, <2>6
<1> QED
  BY <1>1, <1>2

LEMMA ReadTally ==
  ASSUME IInv, Tally, NothingDropped,
         \/ Peek \/ ReadNothing \/ ReadHeld \/ ReadThrough \/ ReadFill \/ ReadWindow
         \/ ReadByte \/ UnreadByte \/ ReadRune \/ UnreadRune
  PROVE  Tally' /\ NothingDropped'
<1>1. call.op \in {"peek", "read", "read_byte", "unread_byte", "read_rune", "unread_rune"}
  BY DEF Peek, ReadNothing, ReadHeld, ReadThrough, ReadFill, ReadWindow, ReadByte, UnreadByte,
         ReadRune, UnreadRune
<1>2. taken = call.mark /\ call.out = 0
  BY <1>1, Ranges DEF Tally
<1>3. CASE FillThen(call) /\ Buffered < Size
  BY <1>1, <1>3, FillTally, Ranges
<1>4. ASSUME NEW how, NEW last, Finish(how, 0, last), taken' = taken
      PROVE  Tally' /\ NothingDropped'
  BY <1>2, <1>4, Accounts, Ranges
<1>5. ASSUME NEW how, NEW k \in Int, NEW last, Finish(how, k, last), taken' = taken + k,
             taken' \in Nat
      PROVE  Tally' /\ NothingDropped'
  BY <1>2, <1>5, Accounts, Ranges
<1>6. CASE Peek \/ ReadNothing \/ ReadHeld \/ ReadFill
  BY <1>3, <1>4, <1>6, Ranges DEF Peek, ReadNothing, ReadHeld, ReadFill, Refuse
<1>7. CASE ReadThrough
  <2>1. CASE \E kind \in {"EOF", "fault"} : UNCHANGED <<memory, fed, taken>> /\ Finish(kind, 0, 0)
    BY <1>4, <2>1
  <2>2. CASE \E k \in 1 .. Lesser(call.n, Last - fed) :
               taken' = taken + k /\ Finish("ok", k, fed + k)
    <3>1. PICK k \in 1 .. Lesser(call.n, Last - fed) : taken' = taken + k /\ Finish("ok", k, fed + k)
      BY <2>2
    <3>2. k \in Int /\ taken' \in Nat
      BY <3>1, Ranges
    <3> QED
      BY <1>5, <3>1, <3>2
  <2> QED
    BY <1>7, <2>1, <2>2 DEF ReadThrough
<1>8. CASE ReadWindow
  <2>1. Lesser(Buffered, call.n) \in Nat
    BY Ranges DEF Lesser
  <2>2. taken' = taken + Lesser(Buffered, call.n) /\ taken' \in Nat
    BY <1>8, <2>1, Ranges DEF ReadWindow, Take, Consume
  <2> QED
    BY <1>5, <1>8, <2>1, <2>2 DEF ReadWindow
<1>9. CASE ReadByte
  <2>1. CASE Take(1) /\ Finish("ok", 1, buf[start])
    BY <1>5, <2>1, Ranges DEF Take, Consume
  <2>2. CASE FillThen(call) /\ Buffered = 0
    BY <1>3, <2>2, SizeAssumption
  <2>3. CASE UNCHANGED taken /\ Finish(pending.kind, 0, 0)
    BY <1>4, <2>3
  <2> QED
    BY <1>9, <2>1, <2>2, <2>3 DEF ReadByte
<1>10. CASE UnreadByte
  <2>1. CASE Refuse("refused")
    BY <1>4, <2>1 DEF Refuse
  <2>2. CASE last_byte # 0 /\ taken' = taken - 1 /\ Finish("ok", -1, 0)
    <3>1. taken > 0
      BY <2>2 DEF IInv, LastByteIsLast
    <3> QED
      BY <1>5, <2>2, <3>1, Ranges
  <2> QED
    BY <1>10, <2>1, <2>2 DEF UnreadByte
<1>11. CASE ReadRune
  <2>1. CASE Consume(RuneSize) /\ Buffered > 0 /\ Finish("ok", RuneSize, buf[start + RuneSize - 1])
    <3>1. RuneSize \in Nat
      <4>1. FullRune => buf[start] \in Positions
        BY Ranges DEF FullRune, IInv, WindowOfBytes
      <4>2. FullRune => Width[buf[start]] \in Nat
        BY <4>1, InputAssumption, SizeAssumption
      <4> QED
        BY <4>2 DEF RuneSize
    <3> QED
      BY <1>5, <2>1, <3>1, Ranges DEF Consume
  <2>2. CASE FillThen(call) /\ Buffered < Size
    BY <1>3, <2>2
  <2>3. CASE UNCHANGED taken /\ Finish(pending.kind, 0, 0)
    BY <1>4, <2>3
  <2> QED
    BY <1>11, <2>1, <2>2, <2>3 DEF ReadRune
<1>12. CASE UnreadRune
  <2>1. CASE UNCHANGED taken /\ Finish("refused", 0, 0)
    BY <1>4, <2>1
  <2>2. CASE taken' = taken - last_rune_size /\ Finish("ok", - last_rune_size, 0)
    <3>1. last_rune_size \in Nat /\ last_rune_size <= taken
      BY SizeAssumption DEF IInv, TypeOK, LastRuneInBuffer
    <3> QED
      BY <1>5, <2>2, <3>1, Ranges
  <2> QED
    BY <1>12, <2>1, <2>2 DEF UnreadRune
<1> QED
  BY <1>6, <1>7, <1>8, <1>9, <1>10, <1>11, <1>12

LEMMA SliceTally ==
  ASSUME IInv, Tally, NothingDropped,
         SliceFound \/ SliceTail \/ SliceHeld \/ SliceFull \/ SliceFill
  PROVE  Tally' /\ NothingDropped'
<1>1. /\ call.op \in {"read_slice", "read_bytes", "read_line"}
      /\ taken = call.mark + call.out
      /\ call.op # "read_bytes" => call.out = 0
  BY DEF SliceFound, SliceTail, SliceHeld, SliceFull, SliceFill, Slicing, Tally
<1>2. CASE SliceFound
  <2>1. PICK first \in Found :
          Take(first + 1) /\ Finish("ok", call.out + first + 1, ContentEnd(first + 1))
    BY <1>2 DEF SliceFound
  <2>2. first \in Nat
    BY <2>1, Ranges DEF Found
  <2>3. taken' = call.mark + (call.out + first + 1) /\ taken' \in Nat /\ call.out + first + 1 \in Int
    BY <1>1, <2>1, <2>2, Ranges DEF Take, Consume
  <2> QED
    BY <2>1, <2>3, Accounts
<1>3. CASE SliceTail
  <2>1. /\ taken' = call.mark + (call.out + Buffered) /\ taken' \in Nat
        /\ call.out + Buffered \in Int /\ Finish("ok", call.out + Buffered, buf[stop - 1])
    BY <1>1, <1>3, Ranges DEF SliceTail, Take, Consume
  <2> QED
    BY <2>1, Accounts
<1>4. CASE SliceHeld
  <2>1. taken' = taken /\ Finish(pending.kind, 0, 0) /\ pending.kind \in {"EOF", "fault"}
    BY <1>4 DEF SliceHeld, IInv, TypeOK, Failure
  <2> QED
    BY <1>1, <2>1, Accounts, Ranges
<1>5. CASE SliceFull
  <2>1. CASE UNCHANGED taken /\ call.op = "read_slice" /\ Finish("full", 0, 0)
    BY <1>1, <2>1, Accounts, Ranges
  <2>2. CASE /\ call.op = "read_bytes" /\ taken' = taken + Buffered
             /\ Continue([call EXCEPT !.out = @ + Buffered, !.searched = 0])
    <3> DEFINE n == call.out + Buffered
               c == [call EXCEPT !.out = n, !.searched = 0]
    <3>1. n \in Nat /\ n - call.out = taken' - taken /\ taken' \in Nat
      BY <2>2, Ranges
    <3> HIDE DEF n
    <3>2. c \in Calls /\ c.op = call.op /\ c.mark = call.mark /\ c.out = n
      BY <3>1, Ranges DEF Calls
    <3>3. Continue(c)
      BY <2>2 DEF n
    <3> HIDE DEF c
    <3> QED
      BY <2>2, <3>1, <3>2, <3>3, GoesOn
  <2>3. ASSUME NEW back \in {0, 1}, call.op = "read_line", taken' = taken + (Buffered - back),
               Finish("ok", Buffered - back, buf[stop - 1 - back])
        PROVE  Tally' /\ NothingDropped'
    <3>1. Buffered - back \in Nat
      BY <1>5, SizeAssumption, Ranges DEF SliceFull
    <3> QED
      BY <1>1, <2>3, <3>1, Accounts, Ranges
  <2> QED
    BY <1>5, <2>1, <2>2, <2>3 DEF SliceFull
<1>6. CASE SliceFill
  <2> DEFINE c == [call EXCEPT !.searched = Buffered]
  <2>1. c \in Calls /\ c.op = call.op /\ c.mark = call.mark /\ c.out = call.out
    BY Ranges DEF Calls
  <2>2. FillThen(c) /\ Buffered < Size
    BY <1>6 DEF SliceFill
  <2> HIDE DEF c
  <2> QED
    BY <1>1, <2>1, <2>2, FillTally
<1> QED
  BY <1>2, <1>3, <1>4, <1>5, <1>6

LEMMA WriteToTally ==
  ASSUME IInv, Tally, NothingDropped, WriteToHead \/ WriteToFill \/ WriteToDrain
  PROVE  Tally' /\ NothingDropped'
<1>1. call.op = "write_to" /\ taken = call.mark + call.out
  BY DEF WriteToHead, WriteToFill, WriteToDrain, Tally
<1>2. ASSUME NEW at \in {"fill", "drain"}, NEW n \in Nat, taken' = taken + n,
             Continue([call EXCEPT !.at = at, !.out = call.out + n])
      PROVE  Tally' /\ NothingDropped'
  <2> DEFINE c == [call EXCEPT !.at = at, !.out = call.out + n]
  <2>1. c \in Calls /\ c.op = call.op /\ c.mark = call.mark /\ c.out = call.out + n
    <3>1. call.out + n \in Nat
      BY Ranges
    <3> QED
      BY <3>1, Ranges DEF Calls
  <2>2. Continue(c)
    BY <1>2
  <2> HIDE DEF c
  <2> QED
    BY <1>1, <1>2, <2>1, <2>2, GoesOn, Ranges
<1>3. CASE WriteTo(Buffered, "fill")
  <2>1. CASE /\ taken' = taken + Buffered
             /\ Continue([call EXCEPT !.at = "fill", !.out = @ + Buffered])
    BY <1>2, <2>1, Ranges
  <2>2. CASE \E k \in 0 .. Buffered : UNCHANGED taken /\ Finish("fault", call.out + k, 0)
    <3>1. PICK k \in 0 .. Buffered : UNCHANGED taken /\ Finish("fault", call.out + k, 0)
      BY <2>2
    <3>2. call.out + k \in Int
      BY <3>1, Ranges
    <3> QED
      BY <1>1, <3>1, <3>2, Accounts, Ranges
  <2> QED
    BY <1>3, <2>1, <2>2 DEF WriteTo, Consume
<1>4. CASE Continue([call EXCEPT !.at = "fill"]) /\ UNCHANGED taken
  <2> DEFINE c == [call EXCEPT !.at = "fill"]
  <2>1. c \in Calls /\ c.op = call.op /\ c.mark = call.mark /\ c.out = call.out
    BY Ranges DEF Calls
  <2>2. Continue(c)
    BY <1>4
  <2>3. taken' \in Nat /\ taken' - taken = c.out - call.out
    BY <1>4, <2>1, Ranges
  <2> HIDE DEF c
  <2> QED
    BY <1>1, <2>1, <2>2, <2>3, GoesOn
<1>5. CASE WriteToFill
  <2> DEFINE c == [call EXCEPT !.at = "drain"]
  <2>1. c \in Calls /\ c.op = call.op /\ c.mark = call.mark /\ c.out = call.out
    BY Ranges DEF Calls
  <2>2. FillThen(c) /\ Buffered < Size
    BY <1>5, SizeAssumption DEF WriteToFill, IInv, CallShape
  <2> HIDE DEF c
  <2> QED
    BY <1>1, <2>1, <2>2, FillTally
<1>6. CASE UNCHANGED taken /\ \E how : Finish(how, call.out, 0)
  BY <1>1, <1>6, Accounts, Ranges
<1> QED
  BY <1>3, <1>4, <1>5, <1>6 DEF WriteToHead, WriteToDrain, window

LEMMA BeginTally ==
  ASSUME IInv, Tally, NothingDropped, Begin \/ Reset \/ UNCHANGED vars
  PROVE  Tally' /\ NothingDropped'
<1>1. ASSUME NEW op, NEW n, Enter(op, n)
      PROVE  Tally' /\ NothingDropped'
  <2>1. call' = [Idle EXCEPT !.op = op, !.n = n, !.mark = taken] /\ taken' = taken /\ result' = NoResult
    BY <1>1 DEF Enter
  <2>2. call'.mark = taken /\ call'.out = 0
    BY <2>1 DEF Idle
  <2> QED
    <3>1. Tally'
      BY <2>1, <2>2, Ranges DEF Tally
    <3>2. NothingDropped'
      BY <2>1 DEF NothingDropped, NoResult
    <3> QED
      BY <3>1, <3>2
<1>2. CASE Reset
  BY <1>2 DEF Reset, Idle, Tally, NothingDropped
<1>3. CASE UNCHANGED vars
  BY <1>3 DEF vars, Tally, NothingDropped
<1> QED
  BY <1>1, <1>2, <1>3 DEF Begin

LEMMA TallyStep ==
  ASSUME IInv, Tally, NothingDropped, [Next]_vars
  PROVE  Tally' /\ NothingDropped'
<1>1. CASE Begin \/ Reset \/ UNCHANGED vars
  BY <1>1, BeginTally
<1>2. CASE Peek \/ ReadNothing \/ ReadHeld \/ ReadThrough \/ ReadFill \/ ReadWindow \/ ReadByte
           \/ UnreadByte \/ ReadRune \/ UnreadRune
  BY <1>2, ReadTally
<1>3. CASE SliceFound \/ SliceTail \/ SliceHeld \/ SliceFull \/ SliceFill
  BY <1>3, SliceTally
<1>4. CASE WriteToHead \/ WriteToFill \/ WriteToDrain \/ DiscardFill \/ DiscardSkip
  BY <1>4, WriteToTally, DiscardTally
<1> QED
  BY <1>1, <1>2, <1>3, <1>4 DEF Next, Step

-----------------------------------------------------------------------------
\* A client keeps its methods.
LEMMA UsesStay == ASSUME [Next]_vars PROVE uses' = uses
BY DEF Next, Begin, Enter, Reset, Step, Peek, Refuse, Finish, FillThen, Continue, DiscardFill,
       DiscardSkip, ReadNothing, ReadHeld, ReadThrough, ReadFill, ReadWindow, ReadByte, UnreadByte,
       ReadRune, UnreadRune, SliceFound, SliceTail, SliceHeld, SliceFull, SliceFill, WriteToHead,
       WriteToFill, WriteToDrain, WriteTo, vars

\* A client without discard and write_to fills only when nothing is held, and
\* nothing else moves the edge.
LEMMA EdgeStep ==
  ASSUME IInv, HeldAtEdge, [Next]_vars
  PROVE  HeldAtEdge'
<1> SUFFICES ASSUME ~ FillsOverHeld', pending' # NoFailure PROVE pending'.at = fed'
  BY DEF HeldAtEdge
<1>1. uses' = uses
  BY UsesStay
<1>2. ~ FillsOverHeld /\ call.op \notin {"discard", "write_to"}
  BY <1>1, Ranges DEF FillsOverHeld
<1>3. CASE UNCHANGED <<pending, fed>>
  BY <1>2, <1>3 DEF HeldAtEdge
<1>4. CASE pending = NoFailure /\ Fill
  BY <1>4 DEF Fill
<1>5. CASE pending = NoFailure /\ UNCHANGED pending
  BY <1>5
<1>6. CASE Begin \/ Reset \/ UNCHANGED vars
  BY <1>3, <1>6 DEF Begin, Enter, Reset, vars
<1>7. CASE Peek \/ ReadNothing \/ ReadHeld \/ ReadThrough \/ ReadFill \/ ReadWindow \/ ReadByte
           \/ UnreadByte \/ ReadRune \/ UnreadRune
  BY <1>3, <1>4, <1>5, <1>7
     DEF Peek, Refuse, ReadNothing, ReadHeld, ReadThrough, ReadFill, ReadWindow, ReadByte, UnreadByte,
         ReadRune, UnreadRune, FillThen, Deliver
<1>8. CASE SliceFound \/ SliceTail \/ SliceHeld \/ SliceFull \/ SliceFill
  BY <1>3, <1>4, <1>5, <1>8
     DEF SliceFound, SliceTail, SliceHeld, SliceFull, SliceFill, FillThen, Deliver
<1>9. CASE WriteToHead \/ WriteToFill \/ WriteToDrain \/ DiscardFill \/ DiscardSkip
  BY <1>2, <1>9 DEF WriteToHead, WriteToFill, WriteToDrain, DiscardFill, DiscardSkip
<1> QED
  BY <1>6, <1>7, <1>8, <1>9 DEF Next, Step

\* The part of the window a slice has searched stays in front of it.
LEMMA SearchStep ==
  ASSUME IInv, IInv', ~ PutsBackBlindly, Searched, [Next]_vars
  PROVE  Searched'
<1> SUFFICES ASSUME Slicing' PROVE /\ call'.searched <= Buffered'
                                   /\ \A p \in taken' + 1 .. taken' + call'.searched : p \notin Delims
  BY DEF Searched
<1>0. start' \in Nat /\ stop' \in Nat /\ Buffered' = stop' - start' /\ Buffered' \in Nat /\ taken' \in Nat
  BY RangesNext
<1>1. CASE call'.searched = 0
  <2>1. \A n \in Nat : 0 <= n /\ \A p \in n + 1 .. n + 0 : FALSE
    OBVIOUS
  <2> QED
    BY <1>0, <1>1, <2>1
<1>2. CASE \E op, n : Enter(op, n)
  BY <1>1, <1>2 DEF Enter, Idle
<1>3. CASE call' = Idle
  BY <1>3 DEF Slicing, Idle
<1>4. CASE UNCHANGED vars
  BY <1>4 DEF vars, Searched, Slicing, Buffered
<1>5. ASSUME NEW c, c.op = call.op, FillThen(c) \/ Continue(c), ~ Slicing
      PROVE  FALSE
  <2>1. call' = c \/ call' = Idle
    BY <1>5 DEF FillThen, Continue, Finish
  <2> QED
    BY <1>5, <2>1 DEF Slicing, Idle
<1>6. CASE Peek \/ ReadNothing \/ ReadHeld \/ ReadThrough \/ ReadFill \/ ReadWindow \/ ReadByte
           \/ UnreadByte \/ ReadRune \/ UnreadRune
  <2>1. ~ Slicing
    BY <1>6 DEF Peek, ReadNothing, ReadHeld, ReadThrough, ReadFill, ReadWindow, ReadByte, UnreadByte,
                ReadRune, UnreadRune, Slicing
  <2>2. FillThen(call) \/ call' = Idle
    BY <1>6 DEF Peek, Refuse, ReadNothing, ReadHeld, ReadThrough, ReadFill, ReadWindow, ReadByte,
                UnreadByte, ReadRune, UnreadRune, Finish
  <2> QED
    BY <1>3, <1>5, <2>1, <2>2
<1>7. CASE WriteToHead \/ WriteToFill \/ WriteToDrain \/ DiscardFill \/ DiscardSkip
  <2>1. call.op \in {"write_to", "discard"}
    BY <1>7 DEF WriteToHead, WriteToFill, WriteToDrain, DiscardFill, DiscardSkip
  <2>2. ASSUME NEW at, NEW out
        PROVE  /\ [call EXCEPT !.at = at].op = call.op
               /\ [call EXCEPT !.at = at, !.out = out].op = call.op
    BY Ranges DEF Calls
  <2>3. \/ call' = Idle
        \/ \E at : call' = [call EXCEPT !.at = at]
        \/ \E at, out : call' = [call EXCEPT !.at = at, !.out = out]
    <3>1. CASE WriteToHead \/ WriteToDrain
      BY <3>1 DEF WriteToHead, WriteToDrain, WriteTo, Continue, Finish
    <3>2. CASE WriteToFill \/ DiscardFill
      BY <3>2 DEF WriteToFill, DiscardFill, FillThen, Continue, Finish
    <3>3. CASE DiscardSkip
      BY <3>3 DEF DiscardSkip, Continue, Finish
    <3> QED
      BY <1>7, <3>1, <3>2, <3>3
  <2>4. call'.op \in {"write_to", "discard", "idle"}
    <3>1. call' = Idle => call'.op = "idle"
      BY DEF Idle
    <3>2. call' # Idle => call'.op = call.op
      <4>1. CASE \E at : call' = [call EXCEPT !.at = at]
        <5>1. PICK at : call' = [call EXCEPT !.at = at]
          BY <4>1
        <5> QED
          BY <2>2, <5>1
      <4>2. CASE \E at, out : call' = [call EXCEPT !.at = at, !.out = out]
        <5>1. PICK at, out : call' = [call EXCEPT !.at = at, !.out = out]
          BY <4>2
        <5> QED
          BY <2>2, <5>1
      <4> QED
        BY <2>3, <4>1, <4>2
    <3> QED
      BY <2>1, <3>1, <3>2
  <2> QED
    BY <2>4 DEF Slicing
<1>8. CASE SliceFound \/ SliceTail \/ SliceHeld
  BY <1>3, <1>8 DEF SliceFound, SliceTail, SliceHeld, Finish
<1>9. CASE SliceFull
  <2>1. call' = Idle \/ call' = [call EXCEPT !.out = @ + Buffered, !.searched = 0]
    BY <1>9 DEF SliceFull, Finish, Continue
  <2> QED
    BY <1>1, <1>3, <2>1, Ranges DEF Calls
<1>10. CASE SliceFill
  <2>1. /\ Fill /\ taken' = taken /\ call' = [call EXCEPT !.searched = Buffered]
        /\ Slicing /\ Found = {}
    BY <1>10 DEF SliceFill, FillThen, Continue
  <2>2. call'.searched = Buffered
    BY <2>1, Ranges DEF Calls
  <2>3. Buffered' >= Buffered
    <3>1. start' = 0 /\ stop' >= Buffered
      BY <2>1, Ranges DEF Fill
    <3> QED
      BY <1>0, <3>1
  <2>4. ASSUME NEW p \in taken + 1 .. taken + Buffered
        PROVE  p \notin Delims
    <3>1. CASE p <= taken + call.searched
      BY <2>1, <3>1, Ranges DEF Searched
    <3>2. CASE p > taken + call.searched
      <4> DEFINE i == p - taken - 1
      <4>1. i \in call.searched .. Buffered - 1 /\ start + i \in start .. stop - 1
        BY <3>2, Ranges
      <4>2. buf[start + i] = p
        BY <4>1, Ranges DEF IInv, StreamIntact
      <4> QED
        BY <2>1, <4>1, <4>2 DEF Found
    <3> QED
      BY <3>1, <3>2, Ranges
  <2>5. taken' = taken
    BY <2>1
  <2>6. \A p \in taken' + 1 .. taken' + call'.searched : p \notin Delims
    BY <2>2, <2>4, <2>5, Zenon
  <2>7. call'.searched <= Buffered'
    BY <2>2, <2>3, <1>0, Ranges
  <2> QED
    BY <2>6, <2>7
<1>11. CASE Begin \/ Reset
  BY <1>2, <1>3, <1>11 DEF Begin, Reset
<1> QED
  BY <1>4, <1>6, <1>7, <1>8, <1>9, <1>10, <1>11 DEF Next, Step

LEMMA InitCallInv == Init => CallInv
BY SizeAssumption DEF Init, CallInv, Tally, NothingDropped, HeldAtEdge, Searched, Slicing, Idle, NoResult

LEMMA StepCallInv == IInv /\ CallInv /\ [Next]_vars => CallInv'
<1> SUFFICES ASSUME IInv, CallInv, [Next]_vars PROVE CallInv'
  OBVIOUS
<1>1. Tally' /\ NothingDropped'
  BY TallyStep DEF CallInv
<1>2. HeldAtEdge'
  BY EdgeStep DEF CallInv
<1>3. ASSUME ~ PutsBackBlindly' PROVE Searched'
  <2>1. CASE PutsBackBlindly
    <3>1. uses' # uses
      BY <1>3, <2>1 DEF PutsBackBlindly
    <3> QED
      BY <3>1, UsesStay
  <2>2. CASE ~ PutsBackBlindly
    BY <2>2, StepIInv, SearchStep DEF CallInv
  <2> QED
    BY <2>1, <2>2
<1> QED
  BY <1>1, <1>2, <1>3 DEF CallInv

LEMMA CallInductive == Spec => []CallInv
BY InitCallInv, StepCallInv, Inductive, PTL DEF Spec

(***************************************************************************)
(* What a method consumed it handed over, and a put-back gave back exactly *)
(* what it says; the two exceptions are the ones the sources name.         *)
(***************************************************************************)
THEOREM ReaderDropsNothing == Spec => []NothingDropped
<1>1. CallInv => NothingDropped
  BY DEF CallInv
<1> QED
  BY <1>1, CallInductive, PTL

\* A failure leaves the reader only through _deliver, with the window empty or
\* from peek.
LEMMA DeliveredAtEdge ==
  ASSUME IInv, HeldAtEdge, [Next]_vars, Delivery, ~ FillsOverHeld
  PROVE  pending.at = IF call.op = "peek" THEN fed ELSE taken'
<1>1. call # Idle /\ owed' < owed /\ call.op \notin {"discard", "write_to"}
  BY Ranges DEF Delivery, FillsOverHeld
<1>2. ~ UNCHANGED owed /\ ~ owed' = owed + 1
  BY <1>1, Ranges
<1>3. ~ (Begin \/ Reset \/ UNCHANGED vars)
  BY <1>1, <1>2 DEF Begin, Enter, Reset, vars
<1>4. CASE Peek
  <2>1. pending # NoFailure
    BY <1>2, <1>4 DEF Peek, Refuse, FillThen, Fill
  <2> QED
    BY <1>4, <2>1 DEF Peek, HeldAtEdge
<1>5. CASE /\ pending # NoFailure /\ Buffered = 0 /\ taken' = taken
           /\ call.op # "peek"
  BY <1>5, Ranges DEF HeldAtEdge
<1>6. CASE ReadNothing \/ ReadHeld \/ ReadThrough \/ ReadFill \/ ReadWindow \/ ReadByte
           \/ UnreadByte \/ UnreadRune
  BY <1>2, <1>5, <1>6
     DEF Refuse, ReadNothing, ReadHeld, ReadThrough, ReadFill, ReadWindow, ReadByte, UnreadByte,
         UnreadRune, FillThen, Fill
<1>7. CASE ReadRune
  <2>1. CASE Buffered = 0 /\ pending = NoFailure
    <3>1. start + UtfMax > stop /\ ~ FullRune /\ Buffered < Size
      BY <2>1, Ranges, SizeAssumption DEF FullRune
    <3> QED
      BY <1>2, <1>7, <2>1, <3>1 DEF ReadRune, FillThen, Fill
  <2>2. CASE ~ (Buffered = 0 /\ pending = NoFailure)
    BY <1>2, <1>5, <1>7, <2>2 DEF ReadRune, FillThen, Fill
  <2> QED
    BY <2>1, <2>2
<1>8. CASE SliceFound \/ SliceTail \/ SliceHeld \/ SliceFull \/ SliceFill
  BY <1>2, <1>5, <1>8
     DEF SliceFound, SliceTail, SliceHeld, SliceFull, SliceFill, Slicing, FillThen, Fill
<1>9. ~ (WriteToHead \/ WriteToFill \/ WriteToDrain \/ DiscardFill \/ DiscardSkip)
  BY <1>1 DEF WriteToHead, WriteToFill, WriteToDrain, DiscardFill, DiscardSkip
<1> QED
  BY <1>3, <1>4, <1>6, <1>7, <1>8, <1>9 DEF Next, Step

(***************************************************************************)
(* A failure is reported at its place in the stream: never before a byte   *)
(* that arrived first, and never after one that arrived later.             *)
(***************************************************************************)
THEOREM FailuresKeepTheirPlace == Spec => FailureInPlace
<1>1. IInv /\ CallInv /\ [Next]_vars =>
        [Delivery /\ ~ FillsOverHeld /\ ~ PutsBackBlindly =>
           pending.at = IF call.op = "peek" THEN fed ELSE taken']_vars
  BY DeliveredAtEdge DEF CallInv
<1> QED
  BY <1>1, Inductive, CallInductive, PTL DEF Spec, FailureInPlace

\* read_rune stops short of a whole rune only at a held failure.
LEMMA RuneReturned ==
  ASSUME IInv, [Next]_vars, ~ PutsBackBlindly, ReturnsRune
  PROVE  RuneIsWhole
<1>1. call.op = "read_rune" /\ call # Idle /\ call' = Idle /\ result'.how = "ok"
  BY DEF ReturnsRune, Idle
<1>2. ReadRune
  <2>1. ~ (Begin \/ Reset \/ UNCHANGED vars)
    BY <1>1 DEF Begin, Enter, Reset, vars
  <2> QED
    BY <1>1, <2>1
       DEF Next, Step, Peek, DiscardFill, DiscardSkip, ReadNothing, ReadHeld, ReadThrough, ReadFill,
           ReadWindow, ReadByte, UnreadByte, UnreadRune, SliceFound, SliceTail, SliceHeld, SliceFull,
           SliceFill, Slicing, WriteToHead, WriteToFill, WriteToDrain
<1>3. CASE pending = NoFailure
  <2>1. ~ FillThen(call)
    BY <1>1 DEF FillThen, Continue, Finish, NoResult
  <2>2. pending.kind # "ok"
    BY <1>3 DEF NoFailure
  <2>3. ~ Finish(pending.kind, 0, 0)
    BY <1>1, <2>2 DEF Finish
  <2>4. /\ Buffered > 0 /\ last_rune_size' = RuneSize
        /\ start + UtfMax <= stop \/ FullRune \/ Buffered >= Size
    BY <1>2, <1>3, <2>1, <2>3, Ranges, SizeAssumption DEF ReadRune
  <2>5. start \in start .. stop - 1
    BY <2>4, Ranges
  <2>6. buf[start] = taken + 1 /\ buf[start] \in Positions
    <3>1. buf[start] = taken + 1 + start - start
      BY <2>5 DEF IInv, StreamIntact
    <3>2. buf[start] \in Positions
      BY <2>5 DEF IInv, WindowOfBytes
    <3> QED
      BY <3>1, <3>2, Ranges
  <2>7. Lookahead[buf[start]] \in 1 .. UtfMax
    BY <2>6, InputAssumption
  <2>8. FullRune
    BY <2>4, <2>7, Ranges, SizeAssumption DEF FullRune
  <2> QED
    BY <2>4, <2>6, <2>8 DEF RuneSize, RuneIsWhole
<1>4. CASE pending # NoFailure
  BY <1>4 DEF RuneIsWhole
<1> QED
  BY <1>3, <1>4

\* read_line: a delimiter of the window ends it with the ending stripped whole,
\* and of a full window without one the last return stays behind.
LEMMA LineReturned ==
  ASSUME IInv, Searched, [Next]_vars, ~ PutsBackBlindly, ReturnsLine
  PROVE  EndingIsWhole
<1> SUFFICES ASSUME pending = NoFailure, result'.last \in Returns, result'.last + 1 \in Delims
             PROVE  FALSE
  BY DEF EndingIsWhole
<1>1. /\ call.op = "read_line" /\ call # Idle /\ call' = Idle /\ result'.how = "ok" /\ Slicing
  BY DEF ReturnsLine, Idle, Slicing
<1>2. SliceFound \/ SliceFull
  <2>1. ~ (Begin \/ Reset \/ UNCHANGED vars)
    BY <1>1 DEF Begin, Enter, Reset, vars
  <2>2. ~ SliceFill
    <3> SUFFICES ASSUME SliceFill PROVE FALSE
      OBVIOUS
    <3>1. call' = [call EXCEPT !.searched = Buffered]
      BY DEF SliceFill, FillThen, Continue
    <3>2. call'.op = "read_line"
      BY <1>1, <3>1, Ranges DEF Calls
    <3> QED
      BY <1>1, <3>2 DEF Idle
  <2> QED
    BY <1>1, <2>1, <2>2
       DEF Next, Step, Peek, DiscardFill, DiscardSkip, ReadNothing, ReadHeld, ReadThrough, ReadFill,
           ReadWindow, ReadByte, UnreadByte, ReadRune, UnreadRune, SliceTail, SliceHeld,
           WriteToHead, WriteToFill, WriteToDrain
<1>3. Returns \subseteq 1 .. Last /\ Delims \subseteq 1 .. Last
  BY InputAssumption DEF Positions
<1>4. /\ call.searched <= Buffered
      /\ \A p \in taken + 1 .. taken + call.searched : p \notin Delims
  BY <1>1 DEF Searched
<1>5. \A i \in 0 .. Buffered - 1 : buf[start + i] = taken + 1 + i
  <2> SUFFICES ASSUME NEW i \in 0 .. Buffered - 1 PROVE buf[start + i] = taken + 1 + i
    OBVIOUS
  <2>1. start + i \in start .. stop - 1
    BY Ranges
  <2>2. buf[start + i] = taken + 1 + (start + i) - start
    BY <2>1 DEF IInv, StreamIntact
  <2> QED
    BY <2>2, Ranges
<1>6. CASE SliceFound
  <2>1. PICK first \in Found :
          /\ \A other \in Found : first <= other
          /\ Finish("ok", call.out + first + 1, ContentEnd(first + 1))
    BY <1>6 DEF SliceFound
  <2>2. /\ first \in call.searched .. Buffered - 1 /\ buf[start + first] \in Delims
        /\ result'.last = ContentEnd(first + 1)
    BY <2>1 DEF Found, Finish
  <2>3. first \in 0 .. Buffered - 1 /\ first \in Nat
    BY <2>2, Ranges
  <2>4. ASSUME NEW i \in 0 .. first - 1
        PROVE  taken + 1 + i \notin Delims
    <3>1. CASE i < call.searched
      BY <1>4, <3>1, Ranges
    <3>2. CASE i >= call.searched
      <4>1. i \notin Found
        BY <2>1, <2>3
      <4>2. i \in call.searched .. Buffered - 1 /\ i \in 0 .. Buffered - 1
        BY <2>3, <3>2, Ranges
      <4> QED
        BY <1>5, <4>1, <4>2 DEF Found
    <3> QED
      BY <3>1, <3>2, Ranges
  <2> DEFINE end == start + first
             cut == IF first + 1 > 1 /\ buf[end - 1] \in Returns THEN 2 ELSE 1
  <2>5. start + (first + 1) - 1 = end
    BY <2>3, Ranges
  <2>6. result'.last = IF first + 1 > cut THEN buf[end - cut] ELSE 0
    BY <1>1, <2>2, <2>5 DEF ContentEnd
  <2>7. result'.last \in Nat \ {0}
    <3>1. \A p \in 1 .. Last : p \in Nat \ {0}
      BY InputAssumption
    <3>2. result'.last \in 1 .. Last
      BY <1>3
    <3> QED
      BY <3>1, <3>2
  <2>8. first + 1 > cut /\ result'.last = buf[end - cut]
    BY <2>6, <2>7
  <2>9. CASE first + 1 > 1 /\ buf[end - 1] \in Returns
    <3>1. first >= 2 /\ result'.last = buf[start + (first - 2)]
      BY <2>3, <2>8, <2>9, Ranges
    <3>2. result'.last = taken + 1 + (first - 2)
      <4>1. first - 2 \in 0 .. Buffered - 1
        BY <2>3, <3>1, Ranges
      <4>2. buf[start + (first - 2)] = taken + 1 + (first - 2)
        BY <1>5, <4>1
      <4> QED
        BY <3>1, <4>2
    <3>3. result'.last + 1 = taken + 1 + (first - 1)
      BY <2>3, <3>2, Ranges
    <3> QED
      BY <2>3, <2>4, <3>1, <3>3
  <2>10. CASE ~ (first + 1 > 1 /\ buf[end - 1] \in Returns)
    BY <2>3, <2>8, <2>10
  <2> QED
    BY <2>9, <2>10
<1>7. CASE SliceFull
  <2> DEFINE back == IF buf[stop - 1] \in Returns THEN 1 ELSE 0
  <2>1. result'.last = buf[stop - 1 - back] /\ Found = {} /\ Buffered >= 2
    BY <1>1, <1>7, SizeAssumption, Ranges DEF SliceFull, Finish
  <2>2. ASSUME NEW i \in 0 .. Buffered - 1
        PROVE  taken + 1 + i \notin Delims
    <3>1. CASE i < call.searched
      BY <1>4, <3>1, Ranges
    <3>2. CASE i >= call.searched
      <4>1. i \in call.searched .. Buffered - 1
        BY <3>2, Ranges
      <4> QED
        BY <1>5, <2>1, <4>1 DEF Found
    <3> QED
      BY <3>1, <3>2, Ranges
  <2>3. CASE buf[stop - 1] \in Returns
    <3>1. stop - 1 - back = start + (Buffered - 2) /\ Buffered - 2 \in 0 .. Buffered - 1
      BY <2>1, <2>3, Ranges
    <3>2. result'.last = taken + 1 + (Buffered - 2)
      BY <1>5, <2>1, <3>1
    <3>3. result'.last + 1 = taken + 1 + (Buffered - 1)
      BY <3>2, Ranges
    <3> QED
      BY <2>1, <2>2, <3>3, Ranges
  <2>4. CASE buf[stop - 1] \notin Returns
    BY <2>1, <2>4, Ranges
  <2> QED
    BY <2>3, <2>4
<1> QED
  BY <1>2, <1>6, <1>7

(***************************************************************************)
(* The edge of the buffer shows in no rune and in no line, wherever the    *)
(* window ends: a rune cut by it is completed, and a carriage return at it *)
(* waits for the byte that follows.                                        *)
(***************************************************************************)
THEOREM EdgeOfBufferHidden == Spec => EdgeDoesNotShow
<1>1. IInv /\ CallInv /\ [Next]_vars =>
        [~ PutsBackBlindly => /\ ReturnsRune => RuneIsWhole
                              /\ ReturnsLine => EndingIsWhole]_vars
  BY RuneReturned, LineReturned DEF CallInv
<1> QED
  BY <1>1, Inductive, CallInductive, PTL DEF Spec, EdgeDoesNotShow
=============================================================================
