--------------------------- MODULE BufWriterProofs ---------------------------
(***************************************************************************)
(* What a bufio.Writer was given is what its sink has and what its buffer  *)
(* holds, in order, for every buffer size and whatever the sink does; a    *)
(* sink that failed is left alone, and a call that fails under way says    *)
(* how much it accepted.                                                   *)
(***************************************************************************)
EXTENDS BufWriter, TLAPS

\* TypeOK in two parts: what is stored, and the call under way.
DataType ==
  /\ buf \in [Index -> 0 .. Last] /\ n \in 0 .. Size
  /\ pending \in [kind : Kinds, count : 0 .. Last] \cup {NoFailure}
  /\ accepted \in 0 .. Last /\ arrived \in 0 .. Last
  /\ inOrder \in BOOLEAN /\ broken \in BOOLEAN /\ fast \in BOOLEAN

CallType ==
  /\ call \in [op : Ops, mark : 0 .. Last, len : 0 .. Last, off : 0 .. Last, at : {"loop", "flush", "fast"}]
  /\ call.op \in {"write", "write_byte", "write_rune"} =>
       call.off <= call.len /\ accepted + Rest <= Last

\* StreamIntact of a writer whose sink claims nothing.
InStep ==
  /\ inOrder
  /\ accepted = arrived + n
  /\ \A i \in 0 .. n - 1 : buf[i] = arrived + 1 + i

(***************************************************************************)
(* The type invariant is its two parts.                                    *)
(***************************************************************************)
LEMMA TypeParts == TypeOK <=> DataType /\ CallType
BY DEF TypeOK, DataType, CallType

(***************************************************************************)
(* While a call runs the writer is not stuck, so its stream is intact.     *)
(***************************************************************************)
LEMMA InStepInCall ==
  ASSUME IInv, call # Idle
  PROVE  /\ InStep /\ DataType /\ CallType
         /\ Size \in Nat /\ Last \in Nat /\ UtfMax \in Nat /\ UtfMax <= Size
         /\ pending = NoFailure
         /\ call.op # "idle"
         /\ broken => fast
BY SizeAssumption, BoundAssumption, TypeParts
   DEF IInv, StreamIntact, InStep, CallShape, NoFailure

(***************************************************************************)
(* Bytes the sink takes from the front of the buffer are the next ones.    *)
(***************************************************************************)
LEMMA FrontArrives ==
  ASSUME DataType, InStep, NEW k \in 0 .. n, Arrive(buf, k)
  PROVE  arrived' = arrived + k /\ arrived' <= accepted /\ inOrder'
<1>1. n \in Nat /\ arrived \in Nat /\ accepted = arrived + n /\ inOrder
  BY SizeAssumption, BoundAssumption DEF DataType, InStep
<1>2. \A i \in 0 .. k - 1 : buf[i] = arrived + 1 + i
  BY <1>1 DEF InStep
<1>3. arrived' = arrived + k
  BY DEF Arrive
<1>4. inOrder'
  BY <1>1, <1>2, Zenon DEF Arrive
<1> QED
  BY <1>1, <1>3, <1>4

(***************************************************************************)
(* Bytes put into the room there is keep the writer in step.               *)
(***************************************************************************)
LEMMA AppendKeepsStep ==
  ASSUME DataType, InStep, NEW k \in 0 .. Available, accepted + k <= Last,
         Append(k), UNCHANGED <<pending, sink, fast>>
  PROVE  DataType' /\ InStep'
<1>1. /\ Size \in Nat /\ Last \in Nat /\ n \in 0 .. Size /\ k \in Nat /\ n + k <= Size
      /\ accepted \in Nat /\ arrived \in Nat /\ accepted = arrived + n
  BY SizeAssumption, BoundAssumption DEF DataType, InStep, Available
<1>2. /\ n' = n + k /\ accepted' = accepted + k /\ arrived' = arrived
      /\ inOrder' = inOrder /\ pending' = pending /\ fast' = fast /\ broken' = broken
      /\ buf' = [i \in Index |-> IF n <= i /\ i < n + k THEN accepted + 1 + i - n ELSE buf[i]]
  BY DEF Append, sink
<1>3. \A i \in Index : n <= i /\ i < n + k => accepted + 1 + i - n \in 0 .. Last
  BY <1>1 DEF Index
<1>4. buf' \in [Index -> 0 .. Last]
  BY <1>2, <1>3 DEF DataType
<1>5. DataType'
  BY <1>1, <1>2, <1>4 DEF DataType
<1>6. ASSUME NEW i \in 0 .. n' - 1
      PROVE  buf'[i] = arrived' + 1 + i
  <2>1. i \in Index /\ i \in Nat
    BY <1>1, <1>2, <1>6 DEF Index
  <2>2. buf'[i] = IF n <= i /\ i < n + k THEN accepted + 1 + i - n ELSE buf[i]
    BY <1>2, <2>1
  <2>3. i < n => buf[i] = arrived + 1 + i
    BY <1>1, <2>1 DEF InStep
  <2> QED
    BY <1>1, <1>2, <1>6, <2>1, <2>2, <2>3
<1> QED
  BY <1>1, <1>2, <1>5, <1>6 DEF InStep

(***************************************************************************)
(* A writer in step has an intact stream, whatever it is stuck on.         *)
(***************************************************************************)
LEMMA InStepIsIntact == ASSUME InStep' PROVE StreamIntact'
BY DEF InStep, StreamIntact

(***************************************************************************)
(* A call that ends leaves nothing behind but the failure it held.         *)
(***************************************************************************)
LEMMA FinishKeepsCall ==
  ASSUME NEW how, NEW count, Finish(how, count),
         broken' /\ ~ fast' => pending' # NoFailure
  PROVE  CallType' /\ CallShape'
<1>1. call' = Idle /\ Last \in Nat
  BY BoundAssumption DEF Finish
<1> QED
  BY <1>1 DEF CallType, CallShape, Idle, Ops

(***************************************************************************)
(* What is assumed of a step's data and of its call is all of IInv.        *)
(***************************************************************************)
LEMMA PartsMakeIInv == ASSUME DataType', CallType', StreamIntact', CallShape' PROVE IInv'
<1>1. TypeOK'
  BY DEF TypeOK, DataType, CallType
<1> QED
  BY <1>1 DEF IInv

-----------------------------------------------------------------------------
(***************************************************************************)
(* A method that is entered moves no byte.  One that needs room flushes    *)
(* first unless there is that room.                                        *)
(***************************************************************************)
LEMMA EnterStep ==
  ASSUME IInv, NEW op \in Ops \ {"idle"}, NEW len \in Nat, Enter(op, len),
         op = "write_byte" => len = 1,
         op = "write_rune" => len \in 1 .. UtfMax
  PROVE  IInv'
<1> DEFINE needs == CASE op = "flush" -> Size + 1
                      [] op = "write_byte" -> 1
                      [] op = "write_rune" -> UtfMax
                      [] OTHER -> 0
           place == IF Available < needs THEN "flush"
                    ELSE IF op = "read_from" /\ n = 0 /\ fast THEN "fast"
                    ELSE "loop"
<1>1. /\ call = Idle /\ pending = NoFailure /\ accepted + len <= Last
      /\ call' = [Idle EXCEPT !.op = op, !.mark = accepted, !.len = len, !.at = place]
      /\ UNCHANGED <<buffer, pending, accepted, sink, fast>>
  BY DEF Enter
<1>2. DataType /\ StreamIntact /\ (broken => fast)
  BY <1>1, TypeParts DEF IInv, CallShape
<1>3. /\ Size \in Nat /\ Last \in Nat /\ UtfMax \in Nat /\ 1 <= UtfMax /\ UtfMax <= Size
      /\ n \in 0 .. Size /\ accepted \in 0 .. Last /\ len \in 0 .. Last
  BY <1>1, <1>2, SizeAssumption, BoundAssumption DEF DataType
<1>4. /\ call'.op = op /\ call'.mark = accepted /\ call'.len = len /\ call'.off = 0
      /\ call'.at = place
      /\ call' = [op |-> op, mark |-> accepted, len |-> len, off |-> 0, at |-> place]
  BY <1>1 DEF Idle
<1>5. DataType' /\ StreamIntact'
  BY <1>1, <1>2 DEF DataType, StreamIntact, buffer, sink
<1>6. place \in {"loop", "flush", "fast"}
  OBVIOUS
<1>7. op = "flush" => place = "flush"
  BY <1>3 DEF Available
<1>8. place = "fast" => op = "read_from" /\ n = 0 /\ fast
  OBVIOUS
<1>9. place = "loop" /\ op \in {"write_byte", "write_rune"} => n + len <= Size
  BY <1>3 DEF Available
<1>10. n' = n /\ fast' = fast /\ pending' = pending /\ broken' = broken /\ accepted' = accepted
  BY <1>1 DEF buffer, sink
<1> HIDE DEF place
<1>11. CallShape'
  BY <1>1, <1>2, <1>3, <1>4, <1>7, <1>8, <1>9, <1>10 DEF CallShape
<1>12. CallType'
  BY <1>3, <1>4, <1>6, <1>1, <1>10 DEF CallType, Rest, Ops
<1> QED
  BY <1>5, <1>11, <1>12, PartsMakeIInv

LEMMA BeginStep == ASSUME IInv, Begin PROVE IInv'
<1>1. CASE \E op \in {"write", "write_byte", "write_rune", "read_from", "flush"} : Refuse(op)
  <2>1. UNCHANGED <<buffer, pending, accepted, sink, fast, call>>
    BY <1>1 DEF Refuse
  <2> QED
    BY <2>1 DEF IInv, TypeOK, StreamIntact, CallShape, buffer, sink, Rest
<1>2. CASE Enter("flush", 0)
  BY <1>2, EnterStep DEF Ops
<1>3. CASE \E len \in 0 .. Longest : Enter("write", len)
  BY <1>3, EnterStep, BoundAssumption DEF Ops
<1>4. CASE Enter("write_byte", 1)
  BY <1>4, EnterStep DEF Ops
<1>5. CASE \E len \in 2 .. UtfMax : Enter("write_rune", len)
  <2>1. PICK len \in 2 .. UtfMax : Enter("write_rune", len)
    BY <1>5
  <2>2. len \in Nat /\ len \in 1 .. UtfMax
    BY SizeAssumption
  <2> QED
    BY <2>1, <2>2, EnterStep DEF Ops
<1>6. CASE Enter("read_from", 0)
  BY <1>6, EnterStep DEF Ops
<1> QED
  BY <1>1, <1>2, <1>3, <1>4, <1>5, <1>6 DEF Begin

LEMMA ResetStep == ASSUME IInv, Reset PROVE IInv'
<1>1. /\ call = Idle /\ call' = Idle /\ buf' = buf /\ n' = 0 /\ pending' = NoFailure
      /\ accepted' = 0 /\ arrived' = 0 /\ inOrder' = TRUE /\ broken' = FALSE
      /\ fast' \in BOOLEAN
  BY DEF Reset
<1>2. Last \in Nat /\ Size \in Nat /\ buf \in [Index -> 0 .. Last]
  BY SizeAssumption, BoundAssumption DEF IInv, TypeOK
<1>3. DataType'
  <2>1. n' \in 0 .. Size /\ accepted' \in 0 .. Last /\ arrived' \in 0 .. Last
    BY <1>1, <1>2
  <2> QED
    BY <1>1, <1>2, <2>1, Zenon DEF DataType
<1>4. InStep'
  BY <1>1 DEF InStep
<1>5. CallType' /\ CallShape'
  BY <1>1, <1>2 DEF CallType, CallShape, Idle, Ops
<1> QED
  BY <1>3, <1>4, <1>5, InStepIsIntact, PartsMakeIInv

-----------------------------------------------------------------------------
(***************************************************************************)
(* The call that flushed goes on with an empty buffer.                     *)
(***************************************************************************)
LEMMA FlushedKeepsCall ==
  ASSUME IInv, call.at = "flush", call # Idle, Flushed,
         UNCHANGED <<pending, accepted, broken, fast>>, n' = 0
  PROVE  CallType' /\ CallShape'
<1>1. /\ DataType /\ CallType /\ CallShape /\ (broken => fast) /\ pending = NoFailure
      /\ Size \in Nat /\ Last \in Nat /\ UtfMax \in Nat /\ UtfMax <= Size
  BY InStepInCall DEF IInv
<1>2. CASE call.op = "flush"
  <2>1. Finish("ok", 0)
    BY <1>2 DEF Flushed
  <2> QED
    BY <1>1, <2>1, FinishKeepsCall
<1>3. CASE call.op # "flush"
  <2>1. call' = [call EXCEPT !.at = "loop"]
    BY <1>3 DEF Flushed, Continue
  <2>2. /\ call'.op = call.op /\ call'.mark = call.mark /\ call'.len = call.len
        /\ call'.off = call.off /\ call'.at = "loop"
    BY <1>1, <2>1 DEF CallType
  <2>3. CallType'
    BY <1>1, <2>1, <2>2 DEF CallType, Rest
  <2>4. call'.op # "idle"
    BY <1>1, <2>2 DEF CallShape
  <2>5. CallShape'
    BY <1>1, <1>3, <2>2, <2>4 DEF CallShape
  <2> QED
    BY <2>3, <2>5
<1> QED
  BY <1>2, <1>3

LEMMA FlushEmptyStep == ASSUME IInv, FlushEmpty PROVE IInv'
<1>1. call # Idle
  BY DEF FlushEmpty, Idle
<1>2. /\ call.at = "flush" /\ n = 0 /\ Flushed
      /\ UNCHANGED <<buf, n, pending, accepted, arrived, inOrder, broken, fast>>
  BY DEF FlushEmpty, buffer, sink
<1>3. DataType /\ InStep
  BY <1>1, InStepInCall
<1>4. DataType' /\ InStep'
  BY <1>2, <1>3 DEF DataType, InStep
<1>5. CallType' /\ CallShape'
  BY <1>1, <1>2, FlushedKeepsCall
<1> QED
  BY <1>4, <1>5, InStepIsIntact, PartsMakeIInv

LEMMA FlushAllStep == ASSUME IInv, FlushAll PROVE IInv'
<1>1. call # Idle
  BY DEF FlushAll, Idle
<1>2. /\ call.at = "flush" /\ n > 0 /\ Arrive(buf, n) /\ n' = 0 /\ Flushed
      /\ UNCHANGED <<buf, pending, accepted, broken, fast>>
  BY DEF FlushAll
<1>3. DataType /\ InStep /\ Last \in Nat /\ Size \in Nat
  BY <1>1, InStepInCall
<1>4. n \in 0 .. n /\ arrived \in Nat /\ accepted \in 0 .. Last /\ accepted = arrived + n
  BY <1>3 DEF DataType, InStep
<1>5. arrived' = arrived + n /\ inOrder'
  BY <1>2, <1>3, <1>4, FrontArrives
<1>6. inOrder' \in BOOLEAN
  BY <1>2, Zenon DEF Arrive
<1>7. DataType'
  BY <1>2, <1>3, <1>4, <1>5, <1>6 DEF DataType
<1>8. InStep'
  BY <1>2, <1>4, <1>5 DEF InStep
<1>9. CallType' /\ CallShape'
  BY <1>1, <1>2, FlushedKeepsCall
<1> QED
  BY <1>7, <1>8, <1>9, InStepIsIntact, PartsMakeIInv

(***************************************************************************)
(* A flush that fails keeps what the sink did not take; after a claim too  *)
(* large nothing is promised of the stream.                                *)
(***************************************************************************)
LEMMA FlushFailsStep == ASSUME IInv, FlushFails PROVE IInv'
<1>1. call # Idle
  BY DEF FlushFails, Idle
<1>2. DataType /\ InStep /\ Last \in Nat /\ Size \in Nat
  BY <1>1, InStepInCall
<1>3. /\ n \in Nat /\ n <= Size /\ arrived \in Nat /\ accepted \in 0 .. Last
      /\ accepted = arrived + n
  BY <1>2 DEF DataType, InStep
<1>4. PICK k \in 0 .. n :
        /\ Arrive(buf, k)
        /\ \/ Keep(k) /\ FlushFailed("fault", k)
           \/ k < n /\ Keep(k) /\ FlushFailed("short", k)
           \/ UNCHANGED buffer /\ FlushFailed("claim", 0)
  BY DEF FlushFails
<1>5. UNCHANGED <<accepted, fast>> /\ k \in Nat /\ k <= n
  BY <1>3, <1>4 DEF FlushFails
<1>6. arrived' = arrived + k /\ arrived' <= accepted /\ inOrder'
  BY <1>2, <1>4, FrontArrives
<1>7. inOrder' \in BOOLEAN
  BY <1>4, Zenon DEF Arrive
<1>8. ASSUME NEW kind \in Kinds, NEW took \in 0 .. n, FlushFailed(kind, took)
      PROVE  /\ pending' \in [kind : Kinds, count : 0 .. Last] /\ pending'.kind = kind
             /\ broken' = TRUE /\ CallType' /\ CallShape'
  <2>1. /\ pending' = [kind |-> kind, count |-> took] /\ broken' = TRUE
        /\ \E count : Finish(kind, count)
    BY <1>8 DEF FlushFailed
  <2>2. pending' \in [kind : Kinds, count : 0 .. Last] /\ pending'.kind = kind
    <3>1. took \in 0 .. Last
      BY <1>2, <1>3
    <3> QED
      BY <2>1, <3>1
  <2>3. pending' # NoFailure
    BY <2>2 DEF NoFailure, Kinds
  <2> QED
    BY <2>1, <2>2, <2>3, FinishKeepsCall
<1>9. ASSUME NEW kind \in Kinds, Keep(k), FlushFailed(kind, k)
      PROVE  IInv'
  <2>1. /\ buf' = [i \in Index |-> IF i + k < n THEN buf[i + k] ELSE 0]
        /\ n' = n - k
    BY <1>9 DEF Keep
  <2>2. \A i \in Index : i + k < n => i + k \in Index
    BY <1>2, <1>3, <1>5 DEF Index
  <2>3. buf' \in [Index -> 0 .. Last]
    BY <1>2, <2>1, <2>2 DEF DataType
  <2>4. DataType'
    <3>1. n' \in 0 .. Size /\ accepted' \in 0 .. Last /\ arrived' \in 0 .. Last
      BY <1>2, <1>3, <1>5, <1>6, <2>1
    <3>2. pending' \in [kind : Kinds, count : 0 .. Last] /\ broken' \in BOOLEAN
      BY <1>4, <1>8, <1>9
    <3>3. fast' \in BOOLEAN
      BY <1>2, <1>5 DEF DataType
    <3> QED
      BY <1>7, <2>3, <3>1, <3>2, <3>3, Zenon DEF DataType
  <2>5. ASSUME NEW i \in 0 .. n' - 1
        PROVE  buf'[i] = arrived' + 1 + i
    <3>1. i \in Index /\ i + k < n /\ i + k \in 0 .. n - 1
      BY <1>2, <1>3, <1>5, <2>1, <2>5 DEF Index
    <3>2. buf[i + k] = arrived + 1 + (i + k)
      BY <1>2, <3>1 DEF InStep
    <3> QED
      BY <1>3, <1>6, <2>1, <3>1, <3>2
  <2>6. accepted' = arrived' + n'
    BY <1>3, <1>5, <1>6, <2>1
  <2>7. InStep'
    BY <1>6, <2>5, <2>6, Zenon DEF InStep
  <2> QED
    BY <1>4, <1>8, <1>9, <2>4, <2>7, InStepIsIntact, PartsMakeIInv
<1>10. ASSUME UNCHANGED buffer, FlushFailed("claim", 0)
       PROVE  IInv'
  <2>1. /\ pending' \in [kind : Kinds, count : 0 .. Last] /\ pending'.kind = "claim"
        /\ broken' = TRUE /\ CallType' /\ CallShape'
    BY <1>3, <1>8, <1>10, 0 \in 0 .. n DEF Kinds
  <2>2. DataType'
    BY <1>2, <1>3, <1>5, <1>6, <1>7, <1>10, <2>1 DEF DataType, buffer
  <2>3. StreamIntact'
    BY <2>1 DEF StreamIntact
  <2> QED
    BY <2>1, <2>2, <2>3, PartsMakeIInv
<1> QED
  BY <1>4, <1>9, <1>10 DEF Kinds

-----------------------------------------------------------------------------
(***************************************************************************)
(* What is left of a write is what it has still to be accepted.            *)
(***************************************************************************)
LEMMA WriteFacts ==
  ASSUME IInv, call.op = "write", call.at = "loop"
  PROVE  /\ call # Idle /\ DataType /\ CallType /\ CallShape /\ InStep
         /\ Last \in Nat /\ Size \in Nat /\ n \in 0 .. Size
         /\ accepted \in Nat /\ arrived \in Nat
         /\ call.len \in Nat /\ call.off \in Nat /\ call.mark \in Nat
         /\ call.off <= call.len /\ Rest = call.len - call.off
         /\ accepted + Rest <= Last /\ accepted = call.mark + call.off
         /\ accepted = arrived + n
         /\ pending = NoFailure /\ (broken => fast)
<1>1. call # Idle
  BY DEF Idle
<1>2. /\ DataType /\ CallType /\ CallShape /\ InStep /\ Last \in Nat /\ Size \in Nat
      /\ pending = NoFailure /\ (broken => fast)
  BY <1>1, InStepInCall DEF IInv
<1>3. /\ call \in [op : Ops, mark : 0 .. Last, len : 0 .. Last, off : 0 .. Last,
                   at : {"loop", "flush", "fast"}]
      /\ call.off <= call.len /\ accepted + Rest <= Last
  BY <1>2 DEF CallType
<1> QED
  BY <1>1, <1>2, <1>3 DEF DataType, CallShape, InStep, Rest

(***************************************************************************)
(* Bytes given to the sink past an empty buffer are the next ones.         *)
(***************************************************************************)
LEMMA StraightArrives ==
  ASSUME IInv, Writing, n = 0, NEW k \in 0 .. Rest, Arrive(Straight, k)
  PROVE  arrived' = accepted + k /\ inOrder'
<1>1. /\ DataType /\ InStep /\ call.len \in Nat /\ call.off \in Nat
      /\ Rest = call.len - call.off /\ call.off <= call.len
      /\ accepted \in Nat /\ arrived = accepted
  BY WriteFacts DEF Writing
<1>2. inOrder
  BY <1>1 DEF InStep
<1>3. \A i \in 0 .. k - 1 : Straight[i] = arrived + 1 + i
  BY <1>1 DEF Straight
<1>4. arrived' = arrived + k
  BY DEF Arrive
<1>5. inOrder'
  BY <1>2, <1>3, Zenon DEF Arrive
<1> QED
  BY <1>1, <1>4, <1>5

(***************************************************************************)
(* With nothing buffered, a sink that has exactly what was accepted is in  *)
(* step.                                                                   *)
(***************************************************************************)
LEMMA EmptyIsInStep ==
  ASSUME DataType, n = 0, UNCHANGED <<buf, n>>, inOrder', NEW all \in 0 .. Last,
         accepted' = all, arrived' = all
  PROVE  InStep' /\ n' \in 0 .. Size /\ buf' \in [Index -> 0 .. Last] /\ arrived' \in 0 .. Last
<1>1. accepted' = arrived' + n' /\ n' = 0
  BY BoundAssumption
<1>2. \A i \in 0 .. n' - 1 : buf'[i] = arrived' + 1 + i
  BY <1>1
<1>3. InStep'
  BY <1>1, <1>2, Zenon DEF InStep
<1> QED
  BY <1>3 DEF DataType

LEMMA WriteStraightStep == ASSUME IInv, WriteStraight PROVE IInv'
<1>1. Writing /\ Rest > Available /\ n = 0 /\ UNCHANGED <<buf, n, pending, broken, fast>>
  BY DEF WriteStraight, buffer
<1>2. PICK k \in 1 .. Rest :
        /\ Arrive(Straight, k)
        /\ accepted' = accepted + k
        /\ Continue([call EXCEPT !.off = @ + k])
  BY DEF WriteStraight
<1>3. /\ DataType /\ CallType /\ CallShape /\ Last \in Nat /\ accepted \in Nat
      /\ call.len \in Nat /\ call.off \in Nat /\ call.mark \in Nat
      /\ Rest = call.len - call.off /\ call.off <= call.len /\ accepted + Rest <= Last
      /\ accepted = call.mark + call.off /\ call # Idle
      /\ pending = NoFailure /\ (broken => fast)
  BY <1>1, WriteFacts DEF Writing
<1>4. k \in 0 .. Rest /\ k \in Nat
  BY <1>2, <1>3
<1>5. arrived' = accepted + k /\ inOrder'
  BY <1>1, <1>2, <1>4, StraightArrives
<1>6. inOrder' \in BOOLEAN
  BY <1>2, Zenon DEF Arrive
<1>7. accepted' \in 0 .. Last
  BY <1>2, <1>3, <1>4
<1>8. InStep' /\ n' \in 0 .. Size /\ buf' \in [Index -> 0 .. Last] /\ arrived' \in 0 .. Last
  BY <1>1, <1>2, <1>3, <1>5, <1>7, EmptyIsInStep
<1>9. DataType'
  BY <1>1, <1>3, <1>6, <1>7, <1>8 DEF DataType
<1>10. /\ call' = [call EXCEPT !.off = @ + k]
       /\ call'.op = "write" /\ call'.at = "loop" /\ call'.mark = call.mark
       /\ call'.len = call.len /\ call'.off = call.off + k
  BY <1>1, <1>2, <1>3 DEF Continue, CallType, Writing
<1>11. CallType'
  <2>1. call.off + k \in 0 .. Last /\ call.off + k <= call.len
    BY <1>1, <1>3, <1>4 DEF CallType
  <2>2. call' \in [op : Ops, mark : 0 .. Last, len : 0 .. Last, off : 0 .. Last,
                   at : {"loop", "flush", "fast"}]
    BY <1>3, <1>10, <2>1 DEF CallType
  <2>3. Rest' = call.len - (call.off + k)
    BY <1>10 DEF Rest
  <2>4. accepted' + Rest' <= Last
    BY <1>2, <1>3, <1>4, <2>3
  <2> QED
    BY <1>10, <2>1, <2>2, <2>4 DEF CallType
<1>12. CallShape'
  <2>1. accepted' = call'.mark + call'.off
    BY <1>2, <1>3, <1>4, <1>10
  <2> QED
    BY <1>1, <1>3, <1>10, <2>1 DEF CallShape, Idle
<1> QED
  BY <1>8, <1>9, <1>11, <1>12, InStepIsIntact, PartsMakeIInv

LEMMA WriteStraightFailsStep == ASSUME IInv, WriteStraightFails PROVE IInv'
<1>1. Writing /\ n = 0 /\ UNCHANGED <<buf, n, fast>> /\ broken' = TRUE
  BY DEF WriteStraightFails, buffer
<1>2. PICK k \in 0 .. Rest :
        /\ Arrive(Straight, k)
        /\ \/ /\ accepted' = accepted + k
              /\ pending' = [kind |-> "fault", count |-> k]
              /\ Finish("fault", call.off + k)
           \/ /\ pending' = [kind |-> "claim", count |-> call.off]
              /\ UNCHANGED accepted
              /\ Finish("claim", call.off)
  BY DEF WriteStraightFails
<1>3. /\ DataType /\ CallType /\ Last \in Nat /\ accepted \in Nat
      /\ call.len \in Nat /\ call.off \in Nat /\ call.mark \in Nat
      /\ Rest = call.len - call.off /\ call.off <= call.len /\ accepted + Rest <= Last
      /\ accepted = call.mark + call.off
  BY <1>1, WriteFacts DEF Writing
<1>4. k \in Nat /\ k <= Rest /\ k \in 0 .. Last /\ call.off \in 0 .. Last
  BY <1>2, <1>3
<1>5. arrived' = accepted + k /\ inOrder'
  BY <1>1, <1>2, StraightArrives
<1>6. inOrder' \in BOOLEAN
  BY <1>2, Zenon DEF Arrive
<1>7. arrived' \in 0 .. Last /\ accepted' \in 0 .. Last
  BY <1>2, <1>3, <1>4, <1>5
<1>8. n' \in 0 .. Size /\ buf' \in [Index -> 0 .. Last] /\ fast' \in BOOLEAN
  BY <1>1, <1>3 DEF DataType
<1>9. /\ pending' \in [kind : Kinds, count : 0 .. Last]
      /\ pending' # NoFailure
  BY <1>2, <1>4 DEF Kinds, NoFailure
<1>10. DataType'
  BY <1>1, <1>6, <1>7, <1>8, <1>9, Zenon DEF DataType
<1>11. CallType' /\ CallShape'
  BY <1>2, <1>9, FinishKeepsCall
<1>12. StreamIntact'
  <2>1. CASE pending'.kind = "claim"
    BY <2>1 DEF StreamIntact
  <2>2. CASE accepted' = accepted + k
    BY <1>1, <1>3, <1>5, <1>7, <2>2, EmptyIsInStep, InStepIsIntact
  <2> QED
    BY <1>2, <2>1, <2>2
<1> QED
  BY <1>10, <1>11, <1>12, PartsMakeIInv

LEMMA WriteFillStep == ASSUME IInv, WriteFill PROVE IInv'
<1>1. /\ Writing /\ Rest > Available /\ n > 0 /\ Append(Available)
      /\ call' = [call EXCEPT !.off = @ + Available, !.at = "flush"]
      /\ UNCHANGED <<pending, sink, fast>>
  BY DEF WriteFill, Continue
<1>2. /\ DataType /\ CallType /\ CallShape /\ InStep /\ Last \in Nat /\ Size \in Nat
      /\ n \in 0 .. Size /\ accepted \in Nat
      /\ call.len \in Nat /\ call.off \in Nat /\ call.mark \in Nat
      /\ Rest = call.len - call.off /\ call.off <= call.len /\ accepted + Rest <= Last
      /\ accepted = call.mark + call.off
      /\ pending = NoFailure /\ (broken => fast)
  BY <1>1, WriteFacts DEF Writing
<1>3. Available \in 0 .. Available /\ Available \in Nat /\ accepted + Available <= Last
  BY <1>1, <1>2 DEF Available
<1>4. DataType' /\ InStep'
  BY <1>1, <1>2, <1>3, AppendKeepsStep
<1>5. accepted' = accepted + Available /\ UNCHANGED <<pending, fast, broken>>
  BY <1>1 DEF Append, sink
<1>6. /\ call'.op = "write" /\ call'.at = "flush" /\ call'.mark = call.mark
      /\ call'.len = call.len /\ call'.off = call.off + Available
  BY <1>1, <1>2 DEF CallType, Writing
<1>7. CallType'
  <2>1. call.off + Available \in 0 .. Last /\ call.off + Available <= call.len
    BY <1>1, <1>2, <1>3
  <2>2. call' \in [op : Ops, mark : 0 .. Last, len : 0 .. Last, off : 0 .. Last,
                   at : {"loop", "flush", "fast"}]
    BY <1>1, <1>2, <2>1 DEF CallType
  <2>3. Rest' = call.len - (call.off + Available)
    BY <1>6 DEF Rest
  <2>4. accepted' + Rest' <= Last
    BY <1>2, <1>3, <1>5, <2>3
  <2> QED
    BY <1>6, <2>1, <2>2, <2>4 DEF CallType
<1>8. CallShape'
  <2>1. accepted' = call'.mark + call'.off
    BY <1>2, <1>3, <1>5, <1>6
  <2> QED
    BY <1>2, <1>5, <1>6, <2>1 DEF CallShape, Idle
<1> QED
  BY <1>4, <1>7, <1>8, InStepIsIntact, PartsMakeIInv

LEMMA WriteRestStep == ASSUME IInv, WriteRest PROVE IInv'
<1>1. /\ Writing /\ Rest <= Available /\ Append(Rest) /\ Finish("ok", call.len)
      /\ UNCHANGED <<pending, sink, fast>>
  BY DEF WriteRest
<1>2. /\ DataType /\ InStep /\ Size \in Nat /\ n \in 0 .. Size
      /\ call.len \in Nat /\ call.off \in Nat
      /\ Rest = call.len - call.off /\ call.off <= call.len /\ accepted + Rest <= Last
      /\ pending = NoFailure /\ (broken => fast)
  BY <1>1, WriteFacts DEF Writing
<1>3. Rest \in 0 .. Available
  BY <1>1, <1>2 DEF Available
<1>4. DataType' /\ InStep'
  BY <1>1, <1>2, <1>3, AppendKeepsStep
<1>5. CallType' /\ CallShape'
  BY <1>1, <1>2, FinishKeepsCall DEF sink
<1> QED
  BY <1>4, <1>5, InStepIsIntact, PartsMakeIInv

LEMMA WriteOneStep == ASSUME IInv, WriteOne PROVE IInv'
<1>1. /\ call.op \in {"write_byte", "write_rune"} /\ call.at = "loop" /\ Append(call.len)
      /\ Finish("ok", call.len) /\ UNCHANGED <<pending, sink, fast>>
  BY DEF WriteOne
<1>2. call # Idle
  BY <1>1 DEF Idle
<1>3. DataType /\ CallType /\ CallShape /\ InStep /\ Size \in Nat /\ (broken => fast)
  BY <1>2, InStepInCall DEF IInv
<1>4. /\ call.len \in 1 .. UtfMax /\ call.off = 0 /\ n + call.len <= Size
      /\ accepted + Rest <= Last
  BY <1>1, <1>3 DEF CallShape, CallType
<1>5. call.len \in 0 .. Available /\ accepted + call.len <= Last
  <2>1. Rest = call.len
    BY <1>4, SizeAssumption DEF Rest
  <2> QED
    BY <1>3, <1>4, <2>1, SizeAssumption DEF Available, DataType
<1>6. DataType' /\ InStep'
  BY <1>1, <1>3, <1>5, AppendKeepsStep
<1>7. CallType' /\ CallShape'
  BY <1>1, <1>3, FinishKeepsCall DEF sink
<1> QED
  BY <1>6, <1>7, InStepIsIntact, PartsMakeIInv

-----------------------------------------------------------------------------
(***************************************************************************)
(* read_from counts what it moved.                                         *)
(***************************************************************************)
LEMMA ReadFacts ==
  ASSUME IInv, call.op = "read_from"
  PROVE  /\ call # Idle /\ DataType /\ CallType /\ CallShape /\ InStep
         /\ Last \in Nat /\ Size \in Nat /\ n \in 0 .. Size
         /\ accepted \in 0 .. Last /\ arrived \in Nat
         /\ call.off \in Nat /\ call.mark \in Nat /\ accepted = call.mark + call.off
         /\ accepted = arrived + n
         /\ pending = NoFailure /\ (broken => fast)
<1>1. call # Idle
  BY DEF Idle
<1>2. /\ DataType /\ CallType /\ CallShape /\ InStep /\ Last \in Nat /\ Size \in Nat
      /\ pending = NoFailure /\ (broken => fast)
  BY <1>1, InStepInCall DEF IInv
<1> QED
  BY <1>1, <1>2 DEF DataType, CallType, CallShape, InStep

LEMMA ReadFastStep == ASSUME IInv, ReadFast PROVE IInv'
<1>1. /\ call.op = "read_from" /\ call.at = "fast" /\ UNCHANGED <<buf, n, pending, fast>>
  BY DEF ReadFast, buffer
<1>2. PICK k \in 0 .. Last - accepted :
        /\ Arrive([i \in 0 .. k - 1 |-> accepted + 1 + i], k)
        /\ accepted' = accepted + k
        /\ \/ Finish("ok", k) /\ UNCHANGED broken
           \/ Finish("fault", k) /\ broken' = TRUE
  BY DEF ReadFast
<1>3. /\ DataType /\ CallShape /\ InStep /\ Last \in Nat /\ Size \in Nat
      /\ accepted \in 0 .. Last /\ arrived \in Nat
      /\ accepted = arrived + n /\ (broken => fast)
  BY <1>1, ReadFacts
<1>4. n = 0 /\ fast
  BY <1>1, <1>3 DEF CallShape
<1>5. k \in Nat /\ accepted + k \in 0 .. Last /\ arrived = accepted
  BY <1>2, <1>3, <1>4
<1>6. arrived' = accepted + k
  BY <1>2, <1>5 DEF Arrive
<1>7. inOrder' /\ inOrder' \in BOOLEAN
  <2>1. \A i \in 0 .. k - 1 : [j \in 0 .. k - 1 |-> accepted + 1 + j][i] = arrived + 1 + i
    BY <1>3, <1>5
  <2>2. inOrder
    BY <1>3 DEF InStep
  <2> QED
    BY <1>2, <2>1, <2>2, Zenon DEF Arrive
<1>8. InStep' /\ n' \in 0 .. Size /\ buf' \in [Index -> 0 .. Last] /\ arrived' \in 0 .. Last
  BY <1>1, <1>2, <1>3, <1>4, <1>5, <1>6, <1>7, EmptyIsInStep
<1>9. broken' \in BOOLEAN /\ accepted' \in 0 .. Last
  BY <1>2, <1>3, <1>5 DEF DataType
<1>10. DataType'
  BY <1>1, <1>3, <1>7, <1>8, <1>9 DEF DataType
<1>11. CallType' /\ CallShape'
  BY <1>1, <1>2, <1>4, FinishKeepsCall
<1> QED
  BY <1>8, <1>10, <1>11, InStepIsIntact, PartsMakeIInv

LEMMA ReadFullStep == ASSUME IInv, ReadFull PROVE IInv'
<1>1. /\ call.op = "read_from" /\ call.at = "loop" /\ call' = [call EXCEPT !.at = "flush"]
      /\ UNCHANGED <<buf, n, pending, accepted, arrived, inOrder, broken, fast>>
  BY DEF ReadFull, Reading, Continue, buffer, sink
<1>2. /\ DataType /\ CallType /\ CallShape /\ InStep /\ (broken => fast) /\ pending = NoFailure
      /\ accepted = call.mark + call.off
  BY <1>1, ReadFacts
<1>3. DataType' /\ InStep'
  BY <1>1, <1>2 DEF DataType, InStep
<1>4. /\ call'.op = "read_from" /\ call'.at = "flush" /\ call'.mark = call.mark
      /\ call'.off = call.off
  BY <1>1, <1>2 DEF CallType
<1>5. CallType'
  BY <1>1, <1>2, <1>4 DEF CallType
<1>6. CallShape'
  BY <1>1, <1>2, <1>4 DEF CallShape, Idle
<1> QED
  BY <1>3, <1>5, <1>6, InStepIsIntact, PartsMakeIInv

LEMMA ReadMoreStep == ASSUME IInv, ReadMore PROVE IInv'
<1>1. /\ call.op = "read_from" /\ call.at = "loop" /\ Available > 0
      /\ UNCHANGED <<pending, sink, fast>>
  BY DEF ReadMore, Reading
<1>2. /\ DataType /\ CallType /\ CallShape /\ InStep /\ Last \in Nat /\ Size \in Nat
      /\ n \in 0 .. Size /\ accepted \in 0 .. Last /\ call.off \in Nat /\ call.mark \in Nat
      /\ accepted = call.mark + call.off /\ (broken => fast) /\ pending = NoFailure
  BY <1>1, ReadFacts
<1>3. ASSUME NEW k \in 1 .. Lesser(Available, Last - accepted), Append(k),
             Continue([call EXCEPT !.off = @ + k])
      PROVE  IInv'
  <2>1. k \in 0 .. Available /\ k \in Nat /\ accepted + k <= Last
    BY <1>1, <1>2, <1>3 DEF Lesser, Available
  <2>2. DataType' /\ InStep'
    BY <1>1, <1>2, <1>3, <2>1, AppendKeepsStep
  <2>3. call' = [call EXCEPT !.off = @ + k] /\ accepted' = accepted + k
    BY <1>3 DEF Continue, Append
  <2>4. /\ call'.op = "read_from" /\ call'.at = "loop" /\ call'.mark = call.mark
        /\ call'.off = call.off + k /\ call'.off \in 0 .. Last
    BY <1>1, <1>2, <2>1, <2>3 DEF CallType
  <2>5. CallType'
    BY <1>2, <2>3, <2>4 DEF CallType
  <2>6. accepted' = call'.mark + call'.off
    BY <1>2, <2>1, <2>3, <2>4
  <2>7. CallShape'
    BY <1>1, <1>2, <2>4, <2>6 DEF CallShape, Idle, sink
  <2> QED
    BY <2>2, <2>5, <2>7, InStepIsIntact, PartsMakeIInv
<1>4. ASSUME NEW how, UNCHANGED <<buffer, accepted>>, Finish(how, call.off)
      PROVE  IInv'
  <2>1. DataType' /\ InStep'
    BY <1>1, <1>2, <1>4 DEF DataType, InStep, buffer, sink
  <2>2. CallType' /\ CallShape'
    BY <1>1, <1>2, <1>4, FinishKeepsCall DEF sink
  <2> QED
    BY <2>1, <2>2, InStepIsIntact, PartsMakeIInv
<1> QED
  BY <1>3, <1>4 DEF ReadMore

-----------------------------------------------------------------------------
LEMMA InitIInv == Init => IInv
<1> SUFFICES ASSUME Init PROVE IInv
  OBVIOUS
<1>1. Last \in Nat /\ Size \in Nat
  BY SizeAssumption, BoundAssumption
<1>2. buf \in [Index -> 0 .. Last] /\ 0 \in 0 .. Last /\ 0 \in 0 .. Size
  BY <1>1 DEF Init
<1>3. DataType
  BY <1>1, <1>2, Zenon DEF Init, DataType
<1>4. CallType /\ CallShape
  BY <1>1 DEF Init, CallType, CallShape, Idle, Ops
<1>5. StreamIntact
  BY <1>1 DEF Init, StreamIntact
<1> QED
  BY <1>3, <1>4, <1>5, TypeParts DEF IInv

LEMMA NextIInv == IInv /\ [Next]_vars => IInv'
<1> SUFFICES ASSUME IInv, [Next]_vars PROVE IInv'
  OBVIOUS
<1>1. CASE Begin
  BY <1>1, BeginStep
<1>2. CASE Reset
  BY <1>2, ResetStep
<1>3. CASE Step
  BY <1>3, FlushEmptyStep, FlushAllStep, FlushFailsStep, WriteStraightStep,
     WriteStraightFailsStep, WriteFillStep, WriteRestStep, WriteOneStep,
     ReadFastStep, ReadFullStep, ReadMoreStep DEF Step
<1>4. CASE UNCHANGED vars
  BY <1>4 DEF vars, IInv, TypeOK, StreamIntact, CallShape, Rest
<1> QED
  BY <1>1, <1>2, <1>3, <1>4 DEF Next

(***************************************************************************)
(* The inductive invariant holds of every behaviour.                       *)
(***************************************************************************)
LEMMA AlwaysIInv == Spec => []IInv
BY InitIInv, NextIInv, PTL DEF Spec

(***************************************************************************)
(* Every byte reaches the sink once and in order: what the sink has and    *)
(* what is buffered are together what was accepted, through every flush,   *)
(* short write, failure and reset (bufio.Writer.flush and write).          *)
(***************************************************************************)
THEOREM WriterKeepsTheStream == Spec => [](TypeOK /\ StreamIntact)
<1>1. IInv => TypeOK /\ StreamIntact
  BY DEF IInv
<1> QED
  BY <1>1, AlwaysIInv, PTL

(***************************************************************************)
(* A writer whose sink failed does not touch the sink until it is reset    *)
(* (bufio.Writer._check and the failures that flush and write hold).       *)
(***************************************************************************)
THEOREM FailedSinkLeftAlone == Spec => SinkLeftAlone
<1>1. IInv /\ [Next]_vars => (broken /\ broken' /\ ~ fast => arrived' = arrived)
  <2> SUFFICES ASSUME IInv, [Next]_vars, broken, broken', ~ fast
               PROVE  arrived' = arrived
    OBVIOUS
  <2>1. pending # NoFailure /\ call = Idle
    BY DEF IInv, CallShape
  <2>2. CASE Begin
    BY <2>1, <2>2 DEF Begin, Refuse, Enter, sink
  <2>3. CASE Reset
    BY <2>3 DEF Reset
  <2>4. CASE Step
    BY <2>1, <2>4 DEF Step, FlushEmpty, FlushAll, FlushFails, WriteStraight, Writing,
       WriteStraightFails, WriteFill, WriteRest, WriteOne, ReadFast, ReadFull, ReadMore,
       Reading, Idle
  <2>5. CASE UNCHANGED vars
    BY <2>5 DEF vars
  <2> QED
    BY <2>2, <2>3, <2>4, <2>5 DEF Next
<1>2. IInv /\ [Next]_vars => [broken /\ broken' /\ ~ fast => arrived' = arrived]_vars
  BY <1>1
<1> QED
  BY <1>2, AlwaysIInv, PTL DEF Spec, SinkLeftAlone

(***************************************************************************)
(* A write or read_from that fails while it runs raises the number of      *)
(* bytes it took from the client (bufio.Writer.write and read_from).       *)
(***************************************************************************)
THEOREM FailuresCountWhatWasTaken == Spec => CountWhenFailing
<1> DEFINE Counts == Raised /\ call.op \in {"write", "read_from"} => result'.count = result'.took
<1>1. IInv /\ [Next]_vars => Counts
  <2> SUFFICES ASSUME IInv, [Next]_vars, Raised, call.op \in {"write", "read_from"}
               PROVE  result'.count = result'.took
    OBVIOUS
  <2>1. call # Idle /\ call' = Idle /\ result'.how # "ok"
    BY DEF Raised
  <2>2. /\ accepted \in Nat /\ call.mark \in Nat /\ call.off \in Nat
        /\ accepted = call.mark + call.off
    BY <2>1, InStepInCall, BoundAssumption DEF DataType, CallType, IInv, CallShape
  <2>3. ~ Begin /\ ~ Reset /\ ~ UNCHANGED vars
    BY <2>1 DEF Begin, Refuse, Enter, Reset, vars
  <2>4. ASSUME NEW how, NEW count, Finish(how, count), count = accepted' - call.mark
        PROVE  result'.count = result'.took
    BY <2>4 DEF Finish
  <2>5. ASSUME NEW how, NEW count, Finish(how, count), count = call.off, accepted' = accepted
        PROVE  result'.count = result'.took
    BY <2>2, <2>4, <2>5
  <2>6. ASSUME NEW how, NEW count, Finish(how, count), NEW k \in Nat,
               count = call.off + k, accepted' = accepted + k
        PROVE  result'.count = result'.took
    <3>1. count = accepted' - call.mark
      BY <2>2, <2>6
    <3> QED
      BY <2>4, <2>6, <3>1
  <2>7. ASSUME NEW count, Finish("ok", count) PROVE FALSE
    BY <2>1, <2>7 DEF Finish
  <2>8. ASSUME NEW c, Continue(c) PROVE c.op = "idle"
    BY <2>1, <2>8 DEF Continue, Idle
  <2>a. /\ [call EXCEPT !.at = "loop"].op = call.op
        /\ [call EXCEPT !.at = "flush"].op = call.op
        /\ \A k : [call EXCEPT !.off = @ + k].op = call.op
        /\ \A k : [call EXCEPT !.off = @ + k, !.at = "flush"].op = call.op
    BY <2>1, InStepInCall DEF CallType
  <2>9. ~ FlushEmpty /\ ~ FlushAll
    <3>1. Flushed => FALSE
      BY <2>7, <2>8, <2>a DEF Flushed
    <3> QED
      BY <3>1 DEF FlushEmpty, FlushAll
  <2>10. CASE FlushFails
    BY <2>5, <2>10 DEF FlushFails, FlushFailed
  <2>11. ~ WriteStraight
    <3>1. \A k : ~ Continue([call EXCEPT !.off = @ + k])
      BY <2>8, <2>a
    <3> QED
      BY <3>1 DEF WriteStraight
  <2>12. CASE WriteStraightFails
    <3>1. PICK k \in 0 .. Rest :
            \/ accepted' = accepted + k /\ Finish("fault", call.off + k)
            \/ accepted' = accepted /\ Finish("claim", call.off)
      BY <2>12 DEF WriteStraightFails
    <3>2. k \in Nat
      BY <3>1
    <3> QED
      BY <2>5, <2>6, <3>1, <3>2
  <2>13. ~ WriteFill /\ ~ WriteRest /\ ~ WriteOne /\ ~ ReadFull
    <3>1. ~ Continue([call EXCEPT !.off = @ + Available, !.at = "flush"])
      BY <2>8, <2>a
    <3>2. ~ Continue([call EXCEPT !.at = "flush"])
      BY <2>8, <2>a
    <3> QED
      BY <2>7, <3>1, <3>2 DEF WriteFill, WriteRest, WriteOne, ReadFull
  <2>14. CASE ReadFast
    <3>1. PICK k \in 0 .. Last - accepted :
            /\ accepted' = accepted + k
            /\ Finish("ok", k) \/ Finish("fault", k)
      BY <2>14 DEF ReadFast
    <3>2. call.off = 0 /\ k \in Nat
      BY <2>14, <3>1 DEF ReadFast, IInv, CallShape
    <3>3. k = call.off + k
      BY <3>2
    <3> QED
      BY <2>6, <2>7, <3>1, <3>2, <3>3
  <2>15. CASE ReadMore
    <3>1. \A k : ~ Continue([call EXCEPT !.off = @ + k])
      BY <2>8, <2>a
    <3>2. PICK how \in {"ok", "fault"} : UNCHANGED <<buffer, accepted>> /\ Finish(how, call.off)
      BY <2>15, <3>1 DEF ReadMore
    <3> QED
      BY <2>5, <3>2
  <2> QED
    BY <2>3, <2>9, <2>10, <2>11, <2>12, <2>13, <2>14, <2>15 DEF Next, Step
<1>2. IInv /\ [Next]_vars => [Counts]_vars
  BY <1>1
<1> QED
  BY <1>2, AlwaysIInv, PTL DEF Spec, CountWhenFailing
=============================================================================
