--------------------------- MODULE RuntimeProofs ----------------------------
(***************************************************************************)
(* The runtime under every other package: the erased boxes, the records of *)
(* errors, and the slot of a thread that holds them.                       *)
(*                                                                         *)
(* The count of an ErasedBox is right for any number of handles and        *)
(* blocks, so its block is never used after it is freed, is released by    *)
(* one destructor only, and does not leak.                                 *)
(*                                                                         *)
(* Every record of ErrorRecords is a tree whose root says what is under    *)
(* it, for any threads, texts and contexts and however many errors were    *)
(* wrapped, joined, captured and raised again: so no error answers for     *)
(* another, and none of these operations loses a code.                     *)
(*                                                                         *)
(* A slot of ThreadSlot gives every thread a cell of its own, and every    *)
(* block one owner, for any number of threads and any amount of memory.    *)
(***************************************************************************)
EXTENDS ErasedBox, ErrorRecords, ThreadSlot, FiniteSetTheorems, WellFoundedInduction, TLAPS

(***************************************************************************)
(* The handles of a block are finitely many, and adding or removing one    *)
(* changes their number by one.                                            *)
(***************************************************************************)
LEMMA HoldersFinite ==
  ASSUME NEW b
  PROVE  /\ IsFiniteSet(Holders(b))
         /\ Cardinality(Holders(b)) \in Nat
         /\ Cardinality(Holders(b)) = 0 <=> Holders(b) = {}
<1>1. Holders(b) \subseteq Handle
  BY DEF Holders
<1>2. IsFiniteSet(Holders(b))
  BY <1>1, HandleAssumption, FS_Subset
<1> QED
  BY <1>2, FS_CardinalityType, FS_EmptySet

(***************************************************************************)
(* A block with one holder has only that holder (Release's test).          *)
(***************************************************************************)
LEMMA LastHolder ==
  ASSUME NEW b, NEW h \in Handle, h \in Holders(b), Cardinality(Holders(b)) = 1
  PROVE  Holders(b) = {h}
BY HoldersFinite, FS_Singleton

(***************************************************************************)
(* What an action does to the set of holders decides what the count must   *)
(* become.                                                                 *)
(***************************************************************************)
LEMMA OneMore ==
  ASSUME NEW S, NEW x, IsFiniteSet(S), x \notin S
  PROVE  Cardinality(S \cup {x}) = Cardinality(S) + 1
BY FS_AddElement

LEMMA OneLess ==
  ASSUME NEW S, NEW x, IsFiniteSet(S), x \in S
  PROVE  Cardinality(S \ {x}) = Cardinality(S) - 1
BY FS_RemoveElement

-----------------------------------------------------------------------------

LEMMA InitIInv == Init => IInv
<1> SUFFICES ASSUME Init PROVE IInv
  OBVIOUS
<1>1. TypeOK
  BY DEF Init, TypeOK, Stage, Cell
<1>2. StageShape
  BY HandleAssumption, BlockAssumption DEF Init, StageShape
<1>3. \A b : Holders(b) = {} /\ Releasers(b) = {}
  BY DEF Init, Holders, Holds, Releasers
<1>4. CountIsHolders
  BY <1>3, FS_EmptySet DEF Init, CountIsHolders
<1>5. CellOfBlock /\ ReleasedOnce /\ NoLeak
  BY <1>3 DEF Init, CellOfBlock, ReleasedOnce, NoLeak
<1> QED
  BY <1>1, <1>2, <1>4, <1>5 DEF IInv

LEMMA CreateIInv ==
  ASSUME IInv, NEW h \in Handle, NEW b \in Block, Create(h, b)
  PROVE  IInv'
<1> USE HandleAssumption, BlockAssumption DEF IInv, Create
<1>1. TypeOK'
  BY DEF TypeOK, Stage, Cell
<1>2. StageShape'
  BY DEF TypeOK, StageShape
<1>3. Holders(b) = {} /\ Releasers(b) = {}
  BY DEF TypeOK, CellOfBlock, Releasers
<1>4. \A c \in Block : Holders(c)' = IF c = b THEN {h} ELSE Holders(c)
  BY <1>3 DEF TypeOK, StageShape, Holders, Holds, Target
<1>5. \A c \in Block : Releasers(c)' = Releasers(c)
  BY DEF TypeOK, StageShape, Releasers
<1>6. CountIsHolders'
  BY <1>4, FS_Singleton DEF TypeOK, CountIsHolders
<1>7. CellOfBlock'
  BY <1>3, <1>4 DEF TypeOK, CellOfBlock, Releasers
<1>8. ReleasedOnce'
  BY <1>3, <1>4, <1>5 DEF ReleasedOnce
<1>9. NoLeak'
  BY <1>4, <1>5 DEF TypeOK, NoLeak
<1> QED
  BY <1>1, <1>2, <1>6, <1>7, <1>8, <1>9

LEMMA ShareIInv ==
  ASSUME IInv, NEW h \in Handle, NEW g \in Handle, Share(h, g)
  PROVE  IInv'
<1> USE HandleAssumption, BlockAssumption DEF IInv, Share
<1>0. PICK b : b = address[g]
  OBVIOUS
<1>1. b \in Block /\ h # g
  BY <1>0 DEF TypeOK, StageShape
<1>2. TypeOK'
  BY <1>0, <1>1 DEF TypeOK, Stage
<1>3. StageShape'
  BY <1>0, <1>1 DEF TypeOK, StageShape
<1>4. h \notin Holders(b)
  BY <1>0 DEF Holders, Holds
<1>5. \A c \in Block : Holders(c)' = IF c = b THEN Holders(c) \cup {h} ELSE Holders(c)
  BY <1>0, <1>1 DEF TypeOK, StageShape, Holders, Holds, Target
<1>6. \A c \in Block : Releasers(c)' = Releasers(c)
  BY <1>0 DEF TypeOK, StageShape, Releasers
<1>7. g \in Holders(b)
  BY <1>0, <1>1 DEF Holders, Holds, Target
<1>8. CountIsHolders'
  <2>1. Cardinality(Holders(b)') = Cardinality(Holders(b)) + 1
    BY <1>0, <1>1, <1>4, <1>5, HoldersFinite, OneMore
  <2> QED
    BY <1>0, <1>1, <1>5, <2>1 DEF TypeOK, CountIsHolders
<1>9. CellOfBlock' /\ ReleasedOnce' /\ NoLeak'
  BY <1>0, <1>1, <1>5, <1>6, <1>7 DEF TypeOK, CellOfBlock, ReleasedOnce, NoLeak
<1> QED
  BY <1>0, <1>2, <1>3, <1>8, <1>9

LEMMA AdoptIInv ==
  ASSUME IInv, NEW h \in Handle, Adopt(h)
  PROVE  IInv'
<1> USE HandleAssumption, BlockAssumption DEF IInv, Adopt
<1>1. source[h] \in Handle /\ address[source[h]] \in Block /\ source[h] # h
  BY DEF TypeOK, StageShape
<1>2. TypeOK'
  BY <1>1 DEF TypeOK, Stage
<1>3. StageShape'
  BY <1>1 DEF TypeOK, StageShape
<1>4. \A c \in Block : Holders(c)' = Holders(c)
  BY <1>1 DEF TypeOK, StageShape, Holders, Holds, Target
<1>5. \A c \in Block : Releasers(c)' = Releasers(c)
  BY DEF TypeOK, StageShape, Releasers
<1>6. CountIsHolders' /\ CellOfBlock' /\ ReleasedOnce' /\ NoLeak'
  BY <1>4, <1>5 DEF TypeOK, CountIsHolders, CellOfBlock, ReleasedOnce, NoLeak
<1> QED
  BY <1>2, <1>3, <1>6

LEMMA MoveIInv ==
  ASSUME IInv, NEW h \in Handle, NEW g \in Handle, Move(h, g)
  PROVE  IInv'
<1> USE HandleAssumption, BlockAssumption DEF IInv, Move
<1>0. PICK b : b = address[g]
  OBVIOUS
<1>1. b \in Block /\ h # g
  BY <1>0 DEF TypeOK, StageShape
<1>2. TypeOK'
  BY <1>0, <1>1 DEF TypeOK, Stage
<1>3. \A k \in Handle : stage[k] = "sharing" => source[k] # g
  BY <1>0 DEF Borrowed
<1>4. StageShape'
  BY <1>0, <1>1, <1>3 DEF TypeOK, StageShape
<1>5. \A c \in Block :
        Holders(c)' = IF c = b THEN (Holders(c) \ {g}) \cup {h} ELSE Holders(c)
  BY <1>0, <1>1, <1>3 DEF TypeOK, StageShape, Holders, Holds, Target
<1>6. \A c \in Block : Releasers(c)' = Releasers(c)
  BY <1>0, <1>1 DEF TypeOK, StageShape, Releasers
<1>7. g \in Holders(b) /\ h \notin Holders(b)
  BY <1>0, <1>1 DEF Holders, Holds, Target
<1>8. CountIsHolders'
  <2>1. IsFiniteSet(Holders(b) \ {g})
    BY HoldersFinite, FS_RemoveElement
  <2>2. Cardinality(Holders(b) \ {g}) = Cardinality(Holders(b)) - 1
    BY <1>0, <1>7, HoldersFinite, OneLess
  <2>3. Cardinality((Holders(b) \ {g}) \cup {h}) = Cardinality(Holders(b) \ {g}) + 1
    BY <1>0, <1>7, <2>1, OneMore
  <2>4. Cardinality(Holders(b)') = Cardinality(Holders(b))
    BY <1>0, <1>1, <1>5, <2>2, <2>3, HoldersFinite
  <2> QED
    BY <1>0, <1>1, <1>5, <2>4 DEF TypeOK, CountIsHolders
<1>9. CellOfBlock' /\ ReleasedOnce' /\ NoLeak'
  BY <1>0, <1>1, <1>5, <1>6, <1>7 DEF TypeOK, CellOfBlock, ReleasedOnce, NoLeak
<1> QED
  BY <1>0, <1>2, <1>4, <1>8, <1>9

LEMMA GetIInv ==
  ASSUME IInv, NEW h \in Handle, Get(h) \/ EndGet(h)
  PROVE  IInv'
<1> USE HandleAssumption, BlockAssumption DEF IInv, Get, EndGet
<1>1. TypeOK'
  BY DEF TypeOK, Stage
<1>2. StageShape'
  BY DEF TypeOK, StageShape
<1>3. \A c \in Block : Holders(c)' = Holders(c)
  BY DEF TypeOK, StageShape, Holders, Holds, Target
<1>4. \A c \in Block : Releasers(c)' = Releasers(c)
  BY DEF TypeOK, StageShape, Releasers
<1>5. CountIsHolders' /\ CellOfBlock' /\ ReleasedOnce' /\ NoLeak'
  BY <1>3, <1>4 DEF TypeOK, CountIsHolders, CellOfBlock, ReleasedOnce, NoLeak
<1> QED
  BY <1>1, <1>2, <1>5
-----------------------------------------------------------------------------

(***************************************************************************)
(* The step everything hangs on: a destructor that found one is the last.  *)
(***************************************************************************)
LEMMA ReleaseIInv ==
  ASSUME IInv, NEW h \in Handle, Release(h)
  PROVE  IInv'
<1> USE HandleAssumption, BlockAssumption DEF IInv, Release
<1>0. PICK b : b = address[h]
  OBVIOUS
<1>1. b \in Block /\ h \in Holders(b)
  BY <1>0 DEF TypeOK, StageShape, Holders, Holds, Target
<1>2. count[b] = Cardinality(Holders(b)) /\ count[b] \in Nat \ {0}
  BY <1>0, <1>1, HoldersFinite DEF TypeOK, CountIsHolders
<1>3. TypeOK'
  BY <1>0, <1>1, <1>2 DEF TypeOK, Stage
<1>4. \A k \in Handle : stage[k] = "sharing" => source[k] # h
  BY <1>0 DEF Borrowed
<1>5. StageShape'
  BY <1>0, <1>1, <1>4 DEF TypeOK, StageShape
<1>6. \A c \in Block : Holders(c)' = IF c = b THEN Holders(c) \ {h} ELSE Holders(c)
  BY <1>0, <1>1, <1>4 DEF TypeOK, StageShape, Holders, Holds, Target
<1>7. CountIsHolders'
  <2>1. Cardinality(Holders(b)') = Cardinality(Holders(b)) - 1
    BY <1>0, <1>1, <1>6, HoldersFinite, OneLess
  <2> QED
    BY <1>0, <1>1, <1>2, <1>6, <2>1 DEF TypeOK, CountIsHolders
<1>8. Releasers(b) = {} /\ cell[b] = "live"
  BY <1>0, <1>1 DEF ReleasedOnce, CellOfBlock
<1>9. CASE count[b] = 1
  <2>1. Holders(b)' = {}
    BY <1>0, <1>1, <1>2, <1>6, <1>9, LastHolder
  <2>2. \A c \in Block : Releasers(c)' = IF c = b THEN {h} ELSE Releasers(c)
    BY <1>0, <1>1, <1>8, <1>9 DEF TypeOK, StageShape, Releasers
  <2>3. CellOfBlock'
    BY <1>0, <1>1, <1>6, <1>8, <1>9 DEF TypeOK, CellOfBlock
  <2>4. ReleasedOnce' /\ NoLeak'
    BY <1>0, <1>1, <1>6, <1>9, <2>1, <2>2 DEF TypeOK, ReleasedOnce, NoLeak
  <2> QED
    BY <1>0, <1>3, <1>5, <1>7, <2>3, <2>4
<1>10. CASE count[b] # 1
  <2>1. Holders(b)' # {}
    <3>1. Holders(b) # {h}
      BY <1>0, <1>2, <1>10, FS_Singleton
    <3> QED
      BY <1>0, <1>1, <1>6, <3>1
  <2>2. \A c \in Block : Releasers(c)' = Releasers(c)
    BY <1>0, <1>1, <1>8, <1>10 DEF TypeOK, StageShape, Releasers
  <2>3. CellOfBlock' /\ ReleasedOnce' /\ NoLeak'
    BY <1>0, <1>1, <1>6, <1>8, <1>10, <2>1, <2>2
       DEF TypeOK, CellOfBlock, ReleasedOnce, NoLeak
  <2> QED
    BY <1>0, <1>3, <1>5, <1>7, <2>3
<1> QED
  BY <1>0, <1>9, <1>10

LEMMA DestroyIInv ==
  ASSUME IInv, NEW h \in Handle, Destroy(h)
  PROVE  IInv'
<1> USE HandleAssumption, BlockAssumption DEF IInv, Destroy
<1>0. PICK b : b = address[h]
  OBVIOUS
<1>1. b \in Block /\ h \in Releasers(b)
  BY <1>0 DEF TypeOK, StageShape, Releasers
<1>2. Holders(b) = {} /\ Releasers(b) = {h}
  BY <1>0, <1>1 DEF ReleasedOnce
<1>3. TypeOK'
  BY <1>0, <1>1 DEF TypeOK, Stage, Cell
<1>4. StageShape'
  BY <1>0 DEF TypeOK, StageShape
<1>5. \A c \in Block : Holders(c)' = Holders(c)
  BY <1>0 DEF TypeOK, StageShape, Holders, Holds, Target
<1>6. \A c \in Block : Releasers(c)' = Releasers(c)
  BY <1>0 DEF TypeOK, StageShape, Releasers
<1>7. CountIsHolders' /\ ReleasedOnce'
  BY <1>0, <1>5, <1>6 DEF CountIsHolders, ReleasedOnce
<1>8. CellOfBlock'
  <2> SUFFICES ASSUME NEW c \in Block
               PROVE  /\ Holders(c)' # {} => cell'[c] = "live"
                      /\ \A k \in Handle : stage'[k] = "last" /\ address'[k] = c
                                             => cell'[c] = "live"
                      /\ \A k \in Handle : stage'[k] = "dropped" /\ address'[k] = c
                                             => cell'[c] = "dead"
    BY <1>0 DEF CellOfBlock
  <2>1. CASE c = b
    BY <1>0, <1>1, <1>2, <1>5, <2>1 DEF TypeOK, Releasers
  <2>2. CASE c # b
    BY <1>0, <1>1, <1>5, <2>2 DEF TypeOK, CellOfBlock
  <2> QED
    BY <1>0, <2>1, <2>2
<1>9. NoLeak'
  BY <1>0, <1>1, <1>5, <1>6 DEF TypeOK, NoLeak
<1> QED
  BY <1>0, <1>3, <1>4, <1>7, <1>8, <1>9

LEMMA FreeIInv ==
  ASSUME IInv, NEW h \in Handle, Free(h)
  PROVE  IInv'
<1> USE HandleAssumption, BlockAssumption DEF IInv, Free
<1>0. PICK b : b = address[h]
  OBVIOUS
<1>1. b \in Block /\ h \in Releasers(b)
  BY <1>0 DEF TypeOK, StageShape, Releasers
<1>2. Holders(b) = {} /\ Releasers(b) = {h}
  BY <1>0, <1>1 DEF ReleasedOnce
<1>3. TypeOK'
  BY <1>0, <1>1 DEF TypeOK, Stage, Cell
<1>4. StageShape'
  BY <1>0 DEF TypeOK, StageShape
<1>5. \A c \in Block : Holders(c)' = Holders(c)
  BY <1>0 DEF TypeOK, StageShape, Holders, Holds, Target
<1>6. \A c \in Block : Releasers(c)' = Releasers(c) \ {h}
  BY <1>0 DEF TypeOK, StageShape, Releasers
<1>7. CountIsHolders' /\ ReleasedOnce'
  BY <1>0, <1>5, <1>6 DEF CountIsHolders, ReleasedOnce
<1>8. CellOfBlock'
  <2> SUFFICES ASSUME NEW c \in Block
               PROVE  /\ Holders(c)' # {} => cell'[c] = "live"
                      /\ \A k \in Handle : stage'[k] = "last" /\ address'[k] = c
                                             => cell'[c] = "live"
                      /\ \A k \in Handle : stage'[k] = "dropped" /\ address'[k] = c
                                             => cell'[c] = "dead"
    BY <1>0 DEF CellOfBlock
  <2>1. CASE c = b
    BY <1>0, <1>1, <1>2, <1>5, <2>1 DEF TypeOK, Releasers
  <2>2. CASE c # b
    BY <1>0, <1>1, <1>5, <2>2 DEF TypeOK, CellOfBlock
  <2> QED
    BY <1>0, <2>1, <2>2
<1>9. NoLeak'
  <2> SUFFICES ASSUME NEW c \in Block, cell'[c] # "free"
               PROVE  (Holders(c) \cup Releasers(c))' # {}
    BY <1>0 DEF NoLeak
  <2>1. c # b /\ cell[c] # "free"
    BY <1>0, <1>1 DEF TypeOK
  <2>2. h \notin Releasers(c)
    BY <1>0, <2>1 DEF Releasers
  <2> QED
    BY <1>0, <1>5, <1>6, <2>1, <2>2 DEF NoLeak
<1> QED
  BY <1>0, <1>3, <1>4, <1>7, <1>8, <1>9
-----------------------------------------------------------------------------

LEMMA StutterIInv == IInv /\ UNCHANGED vars => IInv'
BY DEF IInv, vars, TypeOK, StageShape, CountIsHolders, CellOfBlock, ReleasedOnce,
       NoLeak, Holders, Holds, Target, Releasers

LEMMA StepIInv == IInv /\ [Next]_vars => IInv'
BY CreateIInv, ShareIInv, AdoptIInv, MoveIInv, GetIInv, ReleaseIInv, DestroyIInv,
   FreeIInv, StutterIInv DEF Next

(***************************************************************************)
(* The count of a block is the number of handles that share it, in every   *)
(* reachable state and for any number of handles and threads.              *)
(***************************************************************************)
THEOREM Inductive == Spec => []IInv
BY InitIInv, StepIInv, PTL DEF Spec

(***************************************************************************)
(* No handle ever points at a block that was destroyed or freed.           *)
(***************************************************************************)
THEOREM UseAfterFreeImpossible == Spec => []NoUseAfterFree
<1>1. IInv => NoUseAfterFree
  BY DEF IInv, CellOfBlock, NoUseAfterFree
<1> QED
  BY <1>1, Inductive, PTL

(***************************************************************************)
(* The value of a block is released by exactly one destructor, when nobody *)
(* else holds it, and every allocated block will be released by somebody.  *)
(***************************************************************************)
THEOREM ReleaseIsExact == Spec => [](ReleasedOnce /\ NoLeak)
<1>1. IInv => ReleasedOnce /\ NoLeak
  BY DEF IInv
<1> QED
  BY <1>1, Inductive, PTL

-----------------------------------------------------------------------------
(* The least number of a set, and induction up to a number.                *)

LEMMA LeastNatural ==
    ASSUME NEW T \in SUBSET Nat, T # {}
    PROVE  \E x \in T : \A y \in T : x <= y
<1> DEFINE R == OpToRel(<, Nat)
<1>1. IsWellFoundedOn(R, Nat)
    BY NatLessThanWellFounded, Zenon
<1>2. \A x, y \in Nat : y < x => <<y, x>> \in R
    BY Zenon DEF OpToRel
<1> HIDE DEF R
<1>3. \E x \in T : \A y \in T : ~(<<y, x>> \in R)
    BY <1>1, WFMin, Zenon
<1>4. PICK x \in T : \A y \in T : ~(<<y, x>> \in R)
    BY <1>3
<1>5. \A y \in T : ~(y < x)
    BY <1>2, <1>4
<1> QED BY <1>4, <1>5

LEMMA UpTo ==
    ASSUME NEW S \in SUBSET Nat, NEW n \in Nat, 0 \in S, \A k \in 0 .. n - 1 : k \in S => k + 1 \in S
    PROVE  n \in S
<1> SUFFICES ASSUME (0 .. n) \ S # {} PROVE FALSE
    OBVIOUS
<1>1. PICK x \in (0 .. n) \ S : \A y \in (0 .. n) \ S : x <= y
    <2>1. (0 .. n) \ S \in SUBSET Nat
        OBVIOUS
    <2> QED BY <2>1, LeastNatural, Zenon
<1>2. x # 0 /\ x - 1 \in 0 .. n - 1 /\ x - 1 \in 0 .. n /\ x - 1 < x
    BY <1>1
<1>3. x - 1 \in S
    BY <1>1, <1>2
<1>4. (x - 1) + 1 = x
    BY <1>1
<1> QED BY <1>1, <1>2, <1>3, <1>4

-----------------------------------------------------------------------------

(***************************************************************************)
(* What a loop computes, each round from the one before, is a function of  *)
(* the rounds.                                                             *)
(***************************************************************************)
Rounds(base, next, n, g) == g = [k \in 0 .. n |-> IF k = 0 THEN base ELSE next[<<k, g[k - 1]>>]]

LEMMA RoundsAre ==
  ASSUME NEW S, NEW base \in S, NEW next \in [Nat \X S -> S], NEW n \in Nat
  PROVE  \E g \in [0 .. n -> S] : Rounds(base, next, n, g)
<1> DEFINE T == {m \in Nat : \E g \in [0 .. m -> S] : Rounds(base, next, m, g)}
<1>1. 0 \in T
  <2> DEFINE g == [k \in 0 .. 0 |-> base]
  <2>1. g \in [0 .. 0 -> S]
    OBVIOUS
  <2>2. g = [k \in 0 .. 0 |-> IF k = 0 THEN base ELSE next[<<k, g[k - 1]>>]]
    OBVIOUS
  <2> QED
    BY <2>1, <2>2 DEF Rounds
<1>2. ASSUME NEW m \in 0 .. n - 1, m \in T PROVE m + 1 \in T
  <2>1. PICK f \in [0 .. m -> S] : Rounds(base, next, m, f)
    BY <1>2
  <2> DEFINE g == [k \in 0 .. m + 1 |-> IF k = m + 1 THEN next[<<m + 1, f[m]>>] ELSE f[k]]
  <2>2. g \in [0 .. m + 1 -> S]
    <3>1. f[m] \in S /\ <<m + 1, f[m]>> \in Nat \X S
      OBVIOUS
    <3> QED
      BY <3>1
  <2>3. ASSUME NEW k \in 0 .. m + 1
        PROVE  g[k] = IF k = 0 THEN base ELSE next[<<k, g[k - 1]>>]
    <3>1. CASE k = m + 1
      <4>1. k - 1 = m /\ m \in 0 .. m + 1 /\ m # m + 1 /\ k # 0
        BY <3>1
      <4>2. g[m] = f[m] /\ g[k] = next[<<m + 1, f[m]>>]
        BY <3>1, <4>1
      <4> HIDE DEF g
      <4> QED
        BY <3>1, <4>1, <4>2
    <3>2. CASE k # m + 1 /\ k # 0
      <4>1. k \in 0 .. m /\ k - 1 \in 0 .. m + 1 /\ k - 1 # m + 1
        BY <3>2
      <4>2. g[k - 1] = f[k - 1] /\ g[k] = f[k]
        BY <3>2, <4>1
      <4>3. f[k] = next[<<k, f[k - 1]>>]
        BY <2>1, <3>2, <4>1, Zenon DEF Rounds
      <4> HIDE DEF g
      <4> QED
        BY <3>2, <4>2, <4>3
    <3>3. CASE k = 0
      <4>1. 0 \in 0 .. m /\ 0 # m + 1
        OBVIOUS
      <4>2. f[0] = base
        BY <2>1, <4>1, Zenon DEF Rounds
      <4>3. g[0] = f[0]
        BY <4>1
      <4> HIDE DEF g
      <4> QED
        BY <3>3, <4>2, <4>3
    <3> QED
      BY <3>1, <3>2, <3>3
  <2>4. g = [k \in 0 .. m + 1 |-> g[k]]
    OBVIOUS
  <2> HIDE DEF g
  <2>5. g = [k \in 0 .. m + 1 |-> IF k = 0 THEN base ELSE next[<<k, g[k - 1]>>]]
    BY <2>3, <2>4, Zenon
  <2>6. Rounds(base, next, m + 1, g)
    BY <2>5, Zenon DEF Rounds
  <2>7. m + 1 \in Nat
    OBVIOUS
  <2> QED
    BY <2>2, <2>6, <2>7
<1>3. T \in SUBSET Nat
  OBVIOUS
<1> HIDE DEF T
<1>4. n \in T
  BY <1>1, <1>2, <1>3, UpTo
<1> QED
  BY <1>4 DEF T

-----------------------------------------------------------------------------
(* Records.                                                                *)

Messages == Seq(Texts)
Link == [message : Messages, code : Nat, kids : Seq(Nat)]
Codes1(r) == {r[i].code : i \in DOMAIN r} \ {0}

\* A sequence is one of whatever its elements are in.
LEMMA SequenceOf ==
  ASSUME NEW A, NEW B, NEW s \in Seq(A), \A i \in DOMAIN s : s[i] \in B
  PROVE  s \in Seq(B)
<1>1. Len(s) \in Nat /\ s \in [1 .. Len(s) -> B]
  OBVIOUS
<1> QED
  BY <1>1

\* Every link but the first is the kid of one link, before it, at one place.
Shape(r) ==
  /\ \A i \in DOMAIN r : \A k \in DOMAIN r[i].kids : r[i].kids[k] \in i + 1 .. Len(r)
  /\ \A i, j \in DOMAIN r : \A k \in DOMAIN r[i].kids, l \in DOMAIN r[j].kids :
       r[i].kids[k] = r[j].kids[l] => i = j /\ k = l
  /\ \A j \in 2 .. Len(r) : \E i \in DOMAIN r : \E k \in DOMAIN r[i].kids : r[i].kids[k] = j

\* A message says what is under its link, and its code is its own.
Says(r) ==
  /\ \A i \in DOMAIN r : r[i].code \in {0, OwnCode(r[i].message)}
  /\ \A i \in DOMAIN r : \A k \in DOMAIN r[i].kids :
       Range(r[r[i].kids[k]].message) \subseteq Range(r[i].message)
  /\ \A i \in DOMAIN r : r[i].kids # <<>> =>
       IsSuffix(r[Last(r[i].kids)].message, r[i].message)

Arena(r) == r \in Seq(Link) /\ Shape(r) /\ Says(r)

\* The types of a link and where its kids are.
LEMMA LinksOf ==
  ASSUME NEW r \in Seq(Link), NEW i \in DOMAIN r
  PROVE  /\ Len(r) \in Nat /\ DOMAIN r = 1 .. Len(r) /\ i \in 1 .. Len(r)
         /\ r[i] \in Link /\ r[i].message \in Messages /\ r[i].code \in Nat
         /\ r[i].kids \in Seq(Nat) /\ Len(r[i].kids) \in Nat
         /\ DOMAIN r[i].kids = 1 .. Len(r[i].kids)
         /\ Shape(r) => \A k \in DOMAIN r[i].kids :
              r[i].kids[k] \in DOMAIN r /\ r[i].kids[k] > i
<1>1. Len(r) \in Nat /\ DOMAIN r = 1 .. Len(r) /\ i \in 1 .. Len(r) /\ r[i] \in Link
  OBVIOUS
<1>2. r[i].message \in Messages /\ r[i].code \in Nat /\ r[i].kids \in Seq(Nat)
  BY <1>1 DEF Link
<1>3. Len(r[i].kids) \in Nat /\ DOMAIN r[i].kids = 1 .. Len(r[i].kids)
  BY <1>2
<1>4. ASSUME Shape(r), NEW k \in DOMAIN r[i].kids
      PROVE  r[i].kids[k] \in DOMAIN r /\ r[i].kids[k] > i
  <2>1. r[i].kids[k] \in i + 1 .. Len(r)
    BY <1>4 DEF Shape
  <2> QED
    BY <1>1, <2>1
<1> QED
  BY <1>1, <1>2, <1>3, <1>4

\* The shape, which says where each kid is, is the tree that the property asks for.
LEMMA ArenaIsTree == ASSUME NEW r, Arena(r) PROVE IsTree(r)
<1>1. ASSUME NEW i \in DOMAIN r PROVE Range(r[i].kids) \subseteq i + 1 .. Len(r)
  BY DEF Arena, Shape, Range
<1>2. ASSUME NEW j \in 2 .. Len(r)
      PROVE  Cardinality({i \in DOMAIN r : j \in Range(r[i].kids)}) = 1
  <2>1. PICK i \in DOMAIN r : \E k \in DOMAIN r[i].kids : r[i].kids[k] = j
    BY DEF Arena, Shape
  <2>2. {h \in DOMAIN r : j \in Range(r[h].kids)} = {i}
    BY <2>1 DEF Arena, Shape, Range
  <2> QED
    BY <2>2, FS_Singleton
<1>3. ASSUME NEW i \in DOMAIN r PROVE IsInjective(r[i].kids)
  BY DEF Arena, Shape, IsInjective
<1> QED
  BY <1>1, <1>2, <1>3 DEF IsTree, Arena, Says

-----------------------------------------------------------------------------
(* The walk over a link and all under it.                                  *)

Walks(r, index, n, w) ==
  w = [seen \in 0 .. n |->
         IF seen = 0 THEN <<index>>
         ELSE IF seen <= Len(w[seen - 1]) THEN w[seen - 1] \o r[w[seen - 1][seen]].kids
                                          ELSE w[seen - 1]]

\* Walk is the last of its rounds, and its links are of the record.
LEMMA WalkIs ==
  ASSUME NEW r \in Seq(Link), Shape(r), NEW index \in DOMAIN r
  PROVE  \E w \in [0 .. Len(r) -> Seq(DOMAIN r)] :
           Walks(r, index, Len(r), w) /\ Walk(r, index) = w[Len(r)]
<1> DEFINE S == Seq(DOMAIN r)
           next == [p \in Nat \X S |-> IF p[1] # 0 /\ p[1] <= Len(p[2]) THEN p[2] \o r[p[2][p[1]]].kids
                                                                       ELSE p[2]]
<1>1. <<index>> \in S /\ Len(r) \in Nat
  OBVIOUS
<1>2. next \in [Nat \X S -> S]
  <2> SUFFICES ASSUME NEW k \in Nat, NEW list \in S, k # 0, k <= Len(list)
               PROVE  list \o r[list[k]].kids \in S
    OBVIOUS
  <2>1. list[k] \in DOMAIN r
    OBVIOUS
  <2> DEFINE kids == r[list[k]].kids
  <2>2. kids \in Seq(Nat) /\ \A l \in DOMAIN kids : kids[l] \in DOMAIN r
    BY <2>1, LinksOf
  <2> HIDE DEF kids
  <2>3. kids \in S
    BY <2>2, SequenceOf
  <2> QED
    BY <2>3 DEF kids
<1>3. PICK g \in [0 .. Len(r) -> S] : Rounds(<<index>>, next, Len(r), g)
  <2> HIDE DEF S, next
  <2> QED
    BY <1>1, <1>2, RoundsAre
<1>4. Walks(r, index, Len(r), g)
  <2>1. ASSUME NEW k \in 0 .. Len(r), k # 0
        PROVE  next[<<k, g[k - 1]>>] = IF k <= Len(g[k - 1]) THEN g[k - 1] \o r[g[k - 1][k]].kids
                                                             ELSE g[k - 1]
    <3>1. k \in Nat /\ g[k - 1] \in S
      BY <2>1
    <3> QED
      BY <2>1, <3>1
  <2> HIDE DEF S, next
  <2>2. g = [k \in 0 .. Len(r) |-> IF k = 0 THEN <<index>>
               ELSE IF k <= Len(g[k - 1]) THEN g[k - 1] \o r[g[k - 1][k]].kids ELSE g[k - 1]]
    BY <1>3, <2>1, Zenon DEF Rounds
  <2> QED
    BY <2>2, Zenon DEF Walks
<1> DEFINE w == CHOOSE w : Walks(r, index, Len(r), w)
<1>5. Walks(r, index, Len(r), w)
  BY <1>4, Zenon
<1>6. Walk(r, index) = w[Len(r)]
  BY Zenon DEF Walk, Walks
<1>7. w = g
  <2> HIDE DEF w, S, next
  <2> DEFINE T == {k \in Nat : k \in 0 .. Len(r) => w[k] = g[k]}
  <2>1. 0 \in T
    <3>1. 0 \in 0 .. Len(r)
      BY <1>1
    <3>2. w[0] = <<index>> /\ g[0] = <<index>>
      BY <1>4, <1>5, <3>1, Zenon DEF Walks
    <3> QED
      BY <3>2
  <2>2. ASSUME NEW n \in 0 .. Len(r) - 1, n \in T PROVE n + 1 \in T
    <3>1. n \in 0 .. Len(r) /\ n + 1 \in 0 .. Len(r) /\ n + 1 # 0 /\ (n + 1) - 1 = n /\ n + 1 \in Nat
      BY <1>1
    <3>2. w[n] = g[n]
      BY <2>2, <3>1
    <3>3. /\ w[n + 1] = IF n + 1 <= Len(w[n]) THEN w[n] \o r[w[n][n + 1]].kids ELSE w[n]
          /\ g[n + 1] = IF n + 1 <= Len(g[n]) THEN g[n] \o r[g[n][n + 1]].kids ELSE g[n]
      BY <1>4, <1>5, <3>1, Zenon DEF Walks
    <3> QED
      BY <3>1, <3>2, <3>3
  <2>3. T \in SUBSET Nat
    OBVIOUS
  <2> HIDE DEF T
  <2>4. ASSUME NEW n \in 0 .. Len(r) PROVE w[n] = g[n]
    <3>1. \A k \in 0 .. n - 1 : k \in 0 .. Len(r) - 1
      BY <1>1
    <3>2. n \in T
      BY <1>1, <2>1, <2>2, <2>3, <3>1, UpTo
    <3> QED
      BY <3>2 DEF T
  <2>5. DOMAIN w = 0 .. Len(r) /\ DOMAIN g = 0 .. Len(r) /\ w = [n \in DOMAIN w |-> w[n]]
    BY <1>4, <1>5, Zenon DEF Walks
  <2> QED
    BY <2>4, <2>5
<1> QED
  BY <1>4, <1>6, <1>7

\* The walk has passed s of the links it has met, and c[j] links were met when the
\* first j of them had been passed.
Copying(r, index, old, s, c) ==
  /\ old \in Seq(DOMAIN r) /\ old # <<>> /\ old[1] = index /\ s \in 0 .. Len(old)
  /\ c \in [0 .. s -> 1 .. Len(old)] /\ c[0] = 1 /\ c[s] = Len(old)
  /\ \A j \in 1 .. s :
       /\ j <= c[j - 1] /\ c[j] = c[j - 1] + Len(r[old[j]].kids)
       /\ \A k \in DOMAIN r[old[j]].kids :
            c[j - 1] + k \in 1 .. Len(old) /\ old[c[j - 1] + k] = r[old[j]].kids[k]
  /\ \A p \in 2 .. Len(old) :
       \E j \in 1 .. s : \E k \in DOMAIN r[old[j]].kids : p = c[j - 1] + k
  /\ \A p, q \in 1 .. Len(old) : old[p] = old[q] => p = q
  /\ \A p \in 1 .. Len(old) : old[p] >= index

\* It begins with one link met and none passed, and passing a link keeps it.
LEMMA CopyingBegins ==
  ASSUME NEW r \in Seq(Link), NEW index \in DOMAIN r
  PROVE  Copying(r, index, <<index>>, 0, [j \in 0 .. 0 |-> 1])
<1>1. index \in Nat
  BY LinksOf
<1>2. <<index>> \in Seq(DOMAIN r) /\ Len(<<index>>) = 1
  OBVIOUS
<1> QED
  BY <1>1, <1>2 DEF Copying

LEMMA CopyingGoesOn ==
  ASSUME NEW r \in Seq(Link), Shape(r), NEW index \in DOMAIN r, NEW old, NEW s, NEW c,
         Copying(r, index, old, s, c), s < Len(old)
  PROVE  \E d : Copying(r, index, old \o r[old[s + 1]].kids, s + 1, d)
<1> DEFINE here == old[s + 1]
           kids == r[here].kids
           new == old \o kids
           d == [j \in 0 .. s + 1 |-> IF j <= s THEN c[j] ELSE Len(new)]
<1>1. /\ old \in Seq(DOMAIN r) /\ Len(old) \in Nat \ {0} /\ s \in Nat /\ s + 1 \in 1 .. Len(old)
      /\ DOMAIN old = 1 .. Len(old) /\ old[1] = index
  BY DEF Copying
<1>2. here \in DOMAIN r
  BY <1>1
<1>3. /\ kids \in Seq(DOMAIN r) /\ Len(kids) \in Nat /\ DOMAIN kids = 1 .. Len(kids)
      /\ \A k \in 1 .. Len(kids) : kids[k] \in DOMAIN r /\ kids[k] > here
  BY <1>2, LinksOf, SequenceOf
<1> HIDE DEF kids, here
<1>4. /\ new \in Seq(DOMAIN r) /\ Len(new) = Len(old) + Len(kids)
      /\ \A p \in 1 .. Len(old) : new[p] = old[p]
      /\ \A k \in 1 .. Len(kids) : new[Len(old) + k] = kids[k]
      /\ \A p \in 1 .. Len(new) :
           p \in 1 .. Len(old) \/ \E k \in 1 .. Len(kids) : p = Len(old) + k
  <2>1. \A p \in 1 .. Len(old) + Len(kids) :
          p \in 1 .. Len(old) \/ (p - Len(old) \in 1 .. Len(kids) /\ p = Len(old) + (p - Len(old)))
    BY <1>1, <1>3
  <2>2. old \in Seq(DOMAIN r) /\ kids \in Seq(DOMAIN r)
    BY <1>1, <1>3
  <2>3. new \in Seq(DOMAIN r) /\ Len(new) = Len(old) + Len(kids)
    BY <2>2
  <2>4. \A p \in 1 .. Len(old) : new[p] = old[p]
    BY <1>1, <1>3, <2>2
  <2>5. \A k \in 1 .. Len(kids) : new[Len(old) + k] = kids[k]
    BY <1>1, <1>3, <2>2
  <2> HIDE DEF new
  <2>6. \A p \in 1 .. Len(new) : p \in 1 .. Len(old) \/ \E k \in 1 .. Len(kids) : p = Len(old) + k
    BY <2>1, <2>3
  <2> QED
    BY <2>3, <2>4, <2>5, <2>6
<1> HIDE DEF new
<1>5. Len(new) \in Nat /\ Len(new) >= Len(old)
  BY <1>1, <1>3, <1>4
<1>6. /\ \A j \in 0 .. s : d[j] = c[j] /\ d[j] \in 1 .. Len(old)
      /\ d[s + 1] = Len(new) /\ d[s] = Len(old) /\ d[0] = 1
  BY <1>1 DEF Copying
<1>7. d \in [0 .. s + 1 -> 1 .. Len(new)]
  <2>1. \A j \in 0 .. s + 1 : j \in 0 .. s \/ j = s + 1
    BY <1>1
  <2>2. \A j \in 0 .. s + 1 : d[j] \in 1 .. Len(new)
    <3>1. \A x \in 1 .. Len(old) : x \in 1 .. Len(new)
      BY <1>1, <1>5
    <3>2. Len(new) \in 1 .. Len(new)
      BY <1>1, <1>5
    <3> HIDE DEF d
    <3> QED
      BY <1>6, <2>1, <3>1, <3>2
  <2> QED
    BY <2>2
<1> HIDE DEF d
<1>8. ASSUME NEW j \in 1 .. s + 1
      PROVE  /\ j <= d[j - 1] /\ d[j] = d[j - 1] + Len(r[new[j]].kids)
             /\ \A k \in DOMAIN r[new[j]].kids :
                  d[j - 1] + k \in 1 .. Len(new) /\ new[d[j - 1] + k] = r[new[j]].kids[k]
  <2>1. CASE j = s + 1
    <3>1. new[s + 1] = here
      BY <1>1, <1>4 DEF here
    <3>2. j - 1 = s /\ new[j] = here
      BY <1>1, <2>1, <3>1
    <3>3. j <= d[j - 1] /\ d[j] = Len(new) /\ d[j - 1] = Len(old)
      BY <1>1, <1>6, <2>1, <3>2
    <3>4. \A k \in 1 .. Len(kids) : Len(old) + k \in 1 .. Len(new)
      BY <1>1, <1>3, <1>4
    <3> QED
      BY <1>3, <1>4, <3>2, <3>3, <3>4 DEF kids
  <2>2. CASE j # s + 1
    <3>1. j \in 1 .. s /\ j - 1 \in 0 .. s /\ j \in 0 .. s /\ j \in 1 .. Len(old)
      BY <1>1, <2>2
    <3>2. /\ j <= c[j - 1] /\ c[j] = c[j - 1] + Len(r[old[j]].kids)
          /\ \A k \in DOMAIN r[old[j]].kids :
               c[j - 1] + k \in 1 .. Len(old) /\ old[c[j - 1] + k] = r[old[j]].kids[k]
      BY <3>1 DEF Copying
    <3>3. new[j] = old[j] /\ d[j] = c[j] /\ d[j - 1] = c[j - 1]
      BY <1>4, <1>6, <3>1
    <3>4. \A p \in 1 .. Len(old) : p \in 1 .. Len(new)
      BY <1>1, <1>5
    <3> QED
      BY <1>4, <3>2, <3>3, <3>4
  <2> QED
    BY <2>1, <2>2
<1>9. ASSUME NEW p \in 2 .. Len(new)
      PROVE  \E j \in 1 .. s + 1 : \E k \in DOMAIN r[new[j]].kids : p = d[j - 1] + k
  <2>1. CASE p \in 1 .. Len(old)
    <3>1. p \in 2 .. Len(old)
      BY <1>1, <2>1
    <3>2. PICK j \in 1 .. s : \E k \in DOMAIN r[old[j]].kids : p = c[j - 1] + k
      BY <3>1 DEF Copying
    <3>3. j \in 1 .. s + 1 /\ j - 1 \in 0 .. s /\ j \in 1 .. Len(old)
      BY <1>1
    <3>4. new[j] = old[j] /\ d[j - 1] = c[j - 1]
      BY <1>4, <1>6, <3>3
    <3> QED
      BY <3>2, <3>3, <3>4
  <2>2. CASE \E k \in 1 .. Len(kids) : p = Len(old) + k
    <3>1. new[s + 1] = here
      BY <1>1, <1>4 DEF here
    <3>2. (s + 1) - 1 = s /\ s + 1 \in 1 .. s + 1
      BY <1>1
    <3> QED
      BY <1>3, <1>6, <2>2, <3>1, <3>2 DEF kids
  <2> QED
    BY <1>1, <1>4, <2>1, <2>2
<1>10. ASSUME NEW p \in 1 .. Len(old), NEW k \in 1 .. Len(kids) PROVE old[p] # kids[k]
  <2>1. old[s + 1] >= index /\ kids[k] > here /\ here \in Nat /\ index \in Nat /\ kids[k] \in Nat
    BY <1>1, <1>2, <1>3, LinksOf DEF Copying
  <2>2. CASE p = 1
    BY <1>1, <2>1, <2>2 DEF here
  <2>3. CASE p # 1
    <3>1. PICK j \in 1 .. s : \E l \in DOMAIN r[old[j]].kids : p = c[j - 1] + l
      <4>1. p \in 2 .. Len(old)
        BY <1>1, <2>3
      <4> QED
        BY <4>1 DEF Copying
    <3>2. PICK l \in DOMAIN r[old[j]].kids : p = c[j - 1] + l
      BY <3>1
    <3>3. old[p] = r[old[j]].kids[l]
      BY <3>1, <3>2 DEF Copying
    <3>4. j \in 1 .. Len(old) /\ j # s + 1 /\ old[j] \in DOMAIN r
      BY <1>1
    <3>5. old[j] # here
      BY <1>1, <3>4 DEF Copying, here
    <3> QED
      BY <1>2, <1>3, <3>3, <3>4, <3>5 DEF Shape, kids
  <2> QED
    BY <2>2, <2>3
<1>11. \A k, l \in 1 .. Len(kids) : kids[k] = kids[l] => k = l
  BY <1>2, <1>3 DEF Shape, kids
<1>12. ASSUME NEW p \in 1 .. Len(new), NEW q \in 1 .. Len(new), new[p] = new[q] PROVE p = q
  <2>1. \A x, y \in 1 .. Len(old) : old[x] = old[y] => x = y
    BY DEF Copying
  <2>2. CASE p \in 1 .. Len(old) /\ q \in 1 .. Len(old)
    BY <1>4, <1>12, <2>1, <2>2
  <2>3. CASE p \in 1 .. Len(old) /\ \E k \in 1 .. Len(kids) : q = Len(old) + k
    BY <1>4, <1>10, <1>12, <2>3
  <2>4. CASE q \in 1 .. Len(old) /\ \E k \in 1 .. Len(kids) : p = Len(old) + k
    BY <1>4, <1>10, <1>12, <2>4
  <2>5. CASE /\ \E k \in 1 .. Len(kids) : p = Len(old) + k
             /\ \E k \in 1 .. Len(kids) : q = Len(old) + k
    BY <1>4, <1>11, <1>12, <2>5
  <2> QED
    BY <1>4, <2>2, <2>3, <2>4, <2>5
<1>13. ASSUME NEW p \in 1 .. Len(new) PROVE new[p] >= index
  <2>1. \A x \in 1 .. Len(old) : old[x] >= index
    BY DEF Copying
  <2>2. here >= index /\ here \in Nat /\ index \in Nat
    BY <1>1, <1>2, <2>1, LinksOf DEF here
  <2>3. \A k \in 1 .. Len(kids) : kids[k] >= index
    BY <1>3, <2>2, LinksOf
  <2> QED
    BY <1>4, <2>1, <2>3
<1>14. new # <<>> /\ new[1] = index /\ s + 1 \in 0 .. Len(new)
  BY <1>1, <1>4, <1>5
<1>15. Copying(r, index, new, s + 1, d)
  BY <1>4, <1>6, <1>7, <1>8, <1>9, <1>12, <1>13, <1>14 DEF Copying
<1> QED
  BY <1>15 DEF new, kids, here

\* It meets every link once, so it is over before it has passed more links than
\* there are.
LEMMA WalkCopies ==
  ASSUME NEW r \in Seq(Link), Shape(r), NEW index \in DOMAIN r
  PROVE  \E c : Copying(r, index, Walk(r, index), Len(Walk(r, index)), c)
<1>1. PICK w \in [0 .. Len(r) -> Seq(DOMAIN r)] :
        Walks(r, index, Len(r), w) /\ Walk(r, index) = w[Len(r)]
  BY WalkIs
<1>2. Len(r) \in Nat /\ Len(r) \in 0 .. Len(r) /\ 0 \in 0 .. Len(r) /\ DOMAIN r = 1 .. Len(r)
  OBVIOUS
<1> DEFINE Passed(n, s) == \E c : Copying(r, index, w[n], s, c)
           T == {n \in Nat : n \in 0 .. Len(r) =>
                   \E s \in Nat : s <= n /\ (s = n \/ s = Len(w[n])) /\ Passed(n, s)}
<1>3. 0 \in T
  <2>1. w[0] = <<index>>
    BY <1>1, <1>2, Zenon DEF Walks
  <2>2. Passed(0, 0)
    BY <2>1, CopyingBegins
  <2> HIDE DEF Passed
  <2> QED
    BY <2>2
<1>4. ASSUME NEW n \in 0 .. Len(r) - 1, n \in T PROVE n + 1 \in T
  <2>1. n \in 0 .. Len(r) /\ n + 1 \in 0 .. Len(r) /\ n + 1 # 0 /\ (n + 1) - 1 = n /\ n + 1 \in Nat
    BY <1>2
  <2>2. PICK s \in Nat : s <= n /\ (s = n \/ s = Len(w[n])) /\ Passed(n, s)
    BY <1>4, <2>1
  <2>3. PICK c : Copying(r, index, w[n], s, c)
    BY <2>2
  <2>4. s \in 0 .. Len(w[n]) /\ Len(w[n]) \in Nat
    BY <2>1, <2>3 DEF Copying
  <2>5. w[n + 1] = IF n + 1 <= Len(w[n]) THEN w[n] \o r[w[n][n + 1]].kids ELSE w[n]
    BY <1>1, <2>1, Zenon DEF Walks
  <2>6. CASE s < Len(w[n])
    <3>1. s = n
      BY <2>2, <2>6
    <3>2. PICK d : Copying(r, index, w[n] \o r[w[n][s + 1]].kids, s + 1, d)
      BY <2>3, <2>6, CopyingGoesOn
    <3>3. w[n + 1] = w[n] \o r[w[n][s + 1]].kids
      BY <2>1, <2>4, <2>5, <2>6, <3>1
    <3>4. Passed(n + 1, n + 1)
      BY <3>1, <3>2, <3>3
    <3> HIDE DEF Passed
    <3> QED
      BY <2>1, <3>4
  <2>7. CASE s = Len(w[n])
    <3>1. w[n + 1] = w[n]
      BY <2>1, <2>2, <2>4, <2>5, <2>7
    <3>2. Passed(n + 1, s)
      BY <2>3, <3>1
    <3>3. s <= n + 1 /\ s = Len(w[n + 1])
      BY <2>1, <2>2, <2>7, <3>1
    <3> HIDE DEF Passed
    <3> QED
      BY <2>1, <3>2, <3>3
  <2> QED
    BY <2>4, <2>6, <2>7
<1>5. T \in SUBSET Nat
  OBVIOUS
<1>6. Len(r) \in T
  <2> HIDE DEF T
  <2> QED
    BY <1>2, <1>3, <1>4, <1>5, UpTo
<1>7. PICK s \in Nat : s <= Len(r) /\ (s = Len(r) \/ s = Len(w[Len(r)])) /\ Passed(Len(r), s)
  BY <1>2, <1>6
<1>8. PICK c : Copying(r, index, w[Len(r)], s, c)
  BY <1>7
<1>9. s = Len(w[Len(r)])
  <2> DEFINE old == w[Len(r)]
  <2>1. old \in Seq(DOMAIN r) /\ s \in 0 .. Len(old) /\ Len(old) \in Nat
    BY <1>8 DEF Copying
  <2>2. Len(old) <= Len(r)
    <3> HIDE DEF old
    <3>1. old \in Injection(1 .. Len(old), 1 .. Len(r))
      <4>1. \A p, q \in 1 .. Len(old) : old[p] = old[q] => p = q
        BY <1>8 DEF Copying, old
      <4>2. old \in [1 .. Len(old) -> 1 .. Len(r)]
        BY <1>2, <2>1
      <4> QED
        BY <4>1, <4>2 DEF Injection, IsInjective
    <3>2. \A n \in Nat : IsFiniteSet(1 .. n) /\ Cardinality(1 .. n) = n
      <4> SUFFICES ASSUME NEW n \in Nat PROVE IsFiniteSet(1 .. n) /\ Cardinality(1 .. n) = n
        OBVIOUS
      <4>1. 1 \in Int /\ n \in Int
        OBVIOUS
      <4>2. IsFiniteSet(1 .. n) /\ Cardinality(1 .. n) = IF 1 > n THEN 0 ELSE n - 1 + 1
        BY <4>1, FS_Interval, Zenon
      <4> QED
        BY <4>2
    <3>3. Cardinality(1 .. Len(old)) <= Cardinality(1 .. Len(r))
      BY <1>2, <2>1, <3>1, <3>2, FS_Injection
    <3> QED
      BY <1>2, <2>1, <3>2, <3>3
  <2> HIDE DEF old
  <2>3. s = Len(r) \/ s = Len(old)
    BY <1>7, Zenon DEF old
  <2>4. s <= Len(old)
    BY <2>1
  <2>5. \A x, y, z \in Nat : x <= y /\ y <= z /\ (x = z \/ x = y) => x = y
    OBVIOUS
  <2> QED
    BY <1>2, <2>1, <2>2, <2>3, <2>4, <2>5, Zenon DEF old
<1> QED
  BY <1>1, <1>8, <1>9

\* From the root it meets every link.
LEMMA WalkMeetsAll ==
  ASSUME NEW r \in Seq(Link), Shape(r), r # <<>>
  PROVE  Range(Walk(r, 1)) = DOMAIN r
<1> DEFINE old == Walk(r, 1)
           s == Len(old)
<1>1. 1 \in DOMAIN r /\ Len(r) \in Nat /\ DOMAIN r = 1 .. Len(r)
  OBVIOUS
<1>2. PICK c : Copying(r, 1, old, s, c)
  BY <1>1, WalkCopies
<1> HIDE DEF old
<1>3. old \in Seq(DOMAIN r) /\ s \in Nat /\ old[1] = 1 /\ 1 \in DOMAIN old /\ DOMAIN old = 1 .. s
  BY <1>2 DEF Copying
<1> DEFINE missed == DOMAIN r \ Range(old)
<1>4. ASSUME missed # {} PROVE FALSE
  <2>1. missed \in SUBSET Nat
    BY <1>1
  <2>2. PICK j \in missed : \A i \in missed : j <= i
    BY <1>4, <2>1, LeastNatural
  <2>3. j # 1
    BY <1>3 DEF Range
  <2>4. j \in 2 .. Len(r)
    BY <1>1, <2>3
  <2>5. PICK i \in DOMAIN r : \E k \in DOMAIN r[i].kids : r[i].kids[k] = j
    BY <2>4 DEF Shape
  <2>6. PICK k \in DOMAIN r[i].kids : r[i].kids[k] = j
    BY <2>5
  <2>7. i < j /\ i \in Nat /\ j \in Nat
    BY <1>1, <2>6, LinksOf
  <2>8. i \in Range(old)
    BY <2>2, <2>7
  <2>9. PICK p \in DOMAIN old : old[p] = i
    BY <2>8 DEF Range
  <2>10. c[p - 1] + k \in 1 .. s /\ old[c[p - 1] + k] = j
    BY <1>2, <1>3, <2>6, <2>9 DEF Copying
  <2>11. j \in Range(old)
    BY <1>3, <2>10 DEF Range
  <2> QED
    BY <2>11
<1>5. Range(old) \subseteq DOMAIN r
  BY <1>3 DEF Range
<1> QED
  BY <1>4, <1>5 DEF old

\* So what matches asks of the root it asks of every link.
LEMMA CodesOfWhole ==
  ASSUME NEW r, Arena(r), r # <<>>
  PROVE  CodesUnder(r, 1) = Codes1(r)
BY WalkMeetsAll DEF Arena, CodesUnder, Codes1

-----------------------------------------------------------------------------
(* The record cut out of another.                                          *)

Counts(r, old, l) ==
  l = [n \in 0 .. Len(old) |-> IF n = 0 THEN 1 ELSE l[n - 1] + Len(r[old[n]].kids)]

\* subtree numbers the kids by how many links were met before theirs.
LEMMA CopiedIs ==
  ASSUME NEW r, NEW index, NEW old, NEW c, Copying(r, index, old, Len(old), c),
         NEW j \in 0 .. Len(old)
  PROVE  Copied(r, old, j) = c[j]
<1>1. Len(old) \in Nat
  BY DEF Copying
<1>2. Counts(r, old, c)
  <2>1. c = [n \in 0 .. Len(old) |-> c[n]]
    BY DEF Copying
  <2>2. ASSUME NEW n \in 0 .. Len(old)
        PROVE  c[n] = IF n = 0 THEN 1 ELSE c[n - 1] + Len(r[old[n]].kids)
    <3>1. c[0] = 1
      BY DEF Copying
    <3>2. ASSUME n # 0 PROVE c[n] = c[n - 1] + Len(r[old[n]].kids)
      <4>1. n \in 1 .. Len(old)
        BY <1>1, <3>2
      <4> QED
        BY <4>1 DEF Copying
    <3> QED
      BY <3>1, <3>2
  <2>3. c = [n \in 0 .. Len(old) |-> IF n = 0 THEN 1 ELSE c[n - 1] + Len(r[old[n]].kids)]
    BY <2>1, <2>2, Zenon
  <2> QED
    BY <2>3, Zenon DEF Counts
<1> DEFINE l == CHOOSE l : Counts(r, old, l)
<1>3. Counts(r, old, l)
  BY <1>2, Zenon
<1>4. Copied(r, old, j) = l[j]
  BY Zenon DEF Copied, Counts
<1> HIDE DEF l
<1> DEFINE T == {k \in Nat : k \in 0 .. Len(old) => l[k] = c[k]}
<1>5. 0 \in T
  <2>1. 0 \in 0 .. Len(old)
    BY <1>1
  <2>2. l[0] = 1 /\ c[0] = 1
    BY <1>2, <1>3, <2>1, Zenon DEF Counts
  <2> QED
    BY <2>2
<1>6. ASSUME NEW n \in 0 .. j - 1, n \in T PROVE n + 1 \in T
  <2>1. n \in 0 .. Len(old) /\ n + 1 \in 0 .. Len(old) /\ n + 1 # 0 /\ (n + 1) - 1 = n /\ n + 1 \in Nat
    BY <1>1
  <2>2. l[n] = c[n]
    BY <1>6, <2>1
  <2>3. l[n + 1] = l[n] + Len(r[old[n + 1]].kids) /\ c[n + 1] = c[n] + Len(r[old[n + 1]].kids)
    BY <1>2, <1>3, <2>1, Zenon DEF Counts
  <2> QED
    BY <2>1, <2>2, <2>3
<1>7. T \in SUBSET Nat /\ j \in Nat
  BY <1>1
<1>8. j \in T
  <2> HIDE DEF T
  <2> QED
    BY <1>5, <1>6, <1>7, UpTo
<1> QED
  BY <1>4, <1>8

\* The links of a cut: the data is copied, the kids are renumbered.
LEMMA SubtreeIs ==
  ASSUME NEW r \in Seq(Link), Shape(r), NEW index \in DOMAIN r, NEW c,
         Copying(r, index, Walk(r, index), Len(Walk(r, index)), c)
  PROVE  LET old == Walk(r, index)
             sub == subtree(r, index)
         IN  /\ sub \in Seq(Link) /\ Len(sub) = Len(old) /\ sub # <<>>
             /\ DOMAIN sub = 1 .. Len(old) /\ DOMAIN old = 1 .. Len(old)
             /\ \A j \in 1 .. Len(old) :
                  /\ old[j] \in DOMAIN r
                  /\ sub[j].message = r[old[j]].message /\ sub[j].code = r[old[j]].code
                  /\ DOMAIN sub[j].kids = DOMAIN r[old[j]].kids
                  /\ Len(sub[j].kids) = Len(r[old[j]].kids)
                  /\ \A k \in DOMAIN sub[j].kids : sub[j].kids[k] = c[j - 1] + k
<1> DEFINE old == Walk(r, index)
           sub == subtree(r, index)
<1>1. /\ old \in Seq(DOMAIN r) /\ Len(old) \in Nat /\ Len(old) # 0 /\ DOMAIN old = 1 .. Len(old)
      /\ c \in [0 .. Len(old) -> 1 .. Len(old)]
  BY DEF Copying
<1>2. sub = [j \in DOMAIN old |-> [r[old[j]] EXCEPT !.kids =
               [k \in DOMAIN @ |-> Copied(r, old, j - 1) + k]]]
  BY Zenon DEF subtree
<1>3. ASSUME NEW j \in 1 .. Len(old) PROVE Copied(r, old, j - 1) = c[j - 1] /\ c[j - 1] \in Nat
  <2>1. j - 1 \in 0 .. Len(old)
    BY <1>1
  <2> HIDE DEF old
  <2>2. Copying(r, index, old, Len(old), c)
    BY DEF old
  <2>3. Copied(r, old, j - 1) = c[j - 1]
    <3>1. \A i \in 0 .. Len(old) : Copied(r, old, i) = c[i]
      BY <2>2, CopiedIs
    <3> QED
      BY <2>1, <3>1
  <2>4. c[j - 1] \in 1 .. Len(old)
    BY <2>1, <2>2 DEF Copying
  <2> QED
    BY <1>1, <2>3, <2>4
<1> HIDE DEF old, sub
<1>4. ASSUME NEW j \in 1 .. Len(old)
      PROVE  /\ old[j] \in DOMAIN r /\ sub[j] \in Link
             /\ sub[j].message = r[old[j]].message /\ sub[j].code = r[old[j]].code
             /\ DOMAIN sub[j].kids = DOMAIN r[old[j]].kids
             /\ Len(sub[j].kids) = Len(r[old[j]].kids)
             /\ \A k \in DOMAIN sub[j].kids : sub[j].kids[k] = c[j - 1] + k
  <2> DEFINE link == r[old[j]]
             kids == [k \in DOMAIN link.kids |-> c[j - 1] + k]
  <2>1. old[j] \in DOMAIN r
    BY <1>1
  <2>2. /\ link \in Link /\ DOMAIN link.kids = 1 .. Len(link.kids) /\ Len(link.kids) \in Nat
    BY <2>1, LinksOf
  <2>3. sub[j] = [link EXCEPT !.kids = kids]
    BY <1>1, <1>2, <1>3
  <2>4. kids \in Seq(Nat) /\ Len(kids) = Len(link.kids) /\ DOMAIN kids = DOMAIN link.kids
    BY <1>3, <2>2
  <2>5. \A k \in DOMAIN kids : kids[k] = c[j - 1] + k
    OBVIOUS
  <2> HIDE DEF kids
  <2>6. /\ sub[j] \in Link /\ sub[j].message = link.message /\ sub[j].code = link.code
        /\ sub[j].kids = kids
    BY <2>2, <2>3, <2>4 DEF Link
  <2> QED
    BY <2>1, <2>4, <2>5, <2>6
<1>5. sub \in Seq(Link) /\ Len(sub) = Len(old) /\ DOMAIN sub = 1 .. Len(old)
  <2>1. sub \in [1 .. Len(old) -> Link]
    BY <1>1, <1>2, <1>4
  <2> QED
    BY <1>1, <2>1
<1>6. sub # <<>>
  BY <1>1, <1>5
<1>7. /\ sub \in Seq(Link) /\ Len(sub) = Len(old) /\ sub # <<>>
      /\ DOMAIN sub = 1 .. Len(old) /\ DOMAIN old = 1 .. Len(old)
      /\ \A j \in 1 .. Len(old) :
           /\ old[j] \in DOMAIN r
           /\ sub[j].message = r[old[j]].message /\ sub[j].code = r[old[j]].code
           /\ DOMAIN sub[j].kids = DOMAIN r[old[j]].kids
           /\ Len(sub[j].kids) = Len(r[old[j]].kids)
           /\ \A k \in DOMAIN sub[j].kids : sub[j].kids[k] = c[j - 1] + k
  BY <1>1, <1>4, <1>5, <1>6
<1> QED
  BY <1>7 DEF old, sub

\* A cut is a record like the others, and matches what its link matched.
LEMMA SubtreeArena ==
  ASSUME NEW r, Arena(r), NEW index \in DOMAIN r
  PROVE  LET sub == subtree(r, index)
         IN  /\ Arena(sub) /\ sub # <<>>
             /\ sub[1].message = r[index].message /\ sub[1].code = r[index].code
             /\ Codes1(sub) = CodesUnder(r, index)
<1> DEFINE old == Walk(r, index)
           sub == subtree(r, index)
           L == Len(old)
<1>1. r \in Seq(Link) /\ Shape(r) /\ Says(r)
  BY DEF Arena
<1>2. PICK c : Copying(r, index, old, L, c)
  BY <1>1, WalkCopies
<1>3. /\ sub \in Seq(Link) /\ Len(sub) = L /\ sub # <<>>
      /\ DOMAIN sub = 1 .. L /\ DOMAIN old = 1 .. L
      /\ \A j \in 1 .. L :
           /\ old[j] \in DOMAIN r
           /\ sub[j].message = r[old[j]].message /\ sub[j].code = r[old[j]].code
           /\ DOMAIN sub[j].kids = DOMAIN r[old[j]].kids
           /\ Len(sub[j].kids) = Len(r[old[j]].kids)
           /\ \A k \in DOMAIN sub[j].kids : sub[j].kids[k] = c[j - 1] + k
  BY <1>1, <1>2, SubtreeIs
<1> HIDE DEF old, sub
<1>4. /\ L \in Nat \ {0} /\ old \in Seq(DOMAIN r) /\ old[1] = index
      /\ c \in [0 .. L -> 1 .. L]
  <2>1. old \in Seq(DOMAIN r) /\ old # <<>> /\ old[1] = index /\ c \in [0 .. L -> 1 .. L]
    BY <1>2 DEF Copying
  <2> QED
    BY <2>1
<1>5. ASSUME NEW j \in 1 .. L, NEW k \in DOMAIN sub[j].kids
      PROVE  /\ sub[j].kids[k] \in j + 1 .. L /\ k \in DOMAIN r[old[j]].kids
             /\ old[sub[j].kids[k]] = r[old[j]].kids[k]
  <2>1. k \in DOMAIN r[old[j]].kids /\ sub[j].kids[k] = c[j - 1] + k /\ old[j] \in DOMAIN r
    BY <1>3
  <2>2. k \in Nat \ {0}
    BY <1>1, <2>1, LinksOf
  <2>3. j <= c[j - 1] /\ c[j - 1] + k \in 1 .. L /\ old[c[j - 1] + k] = r[old[j]].kids[k]
    BY <1>2, <2>1 DEF Copying
  <2>4. c[j - 1] \in Nat
    BY <1>4
  <2> QED
    BY <1>4, <2>1, <2>2, <2>3, <2>4
<1>6. Shape(sub)
  <2>1. ASSUME NEW i \in 1 .. L, NEW j \in 1 .. L,
               NEW k \in DOMAIN sub[i].kids, NEW l \in DOMAIN sub[j].kids,
               sub[i].kids[k] = sub[j].kids[l]
        PROVE  i = j /\ k = l
    <3>1. r[old[i]].kids[k] = r[old[j]].kids[l]
      BY <1>5, <2>1
    <3>2. /\ old[i] \in DOMAIN r /\ old[j] \in DOMAIN r
          /\ k \in DOMAIN r[old[i]].kids /\ l \in DOMAIN r[old[j]].kids
      BY <1>3
    <3>3. old[i] = old[j] /\ k = l
      BY <1>1, <3>1, <3>2 DEF Shape
    <3> QED
      BY <1>2, <3>3 DEF Copying
  <2>2. ASSUME NEW p \in 2 .. L
        PROVE  \E j \in 1 .. L : \E k \in DOMAIN sub[j].kids : sub[j].kids[k] = p
    <3>1. PICK j \in 1 .. L : \E k \in DOMAIN r[old[j]].kids : p = c[j - 1] + k
      BY <1>2 DEF Copying
    <3> QED
      BY <1>3, <3>1
  <2> QED
    BY <1>3, <1>5, <2>1, <2>2 DEF Shape
<1>7. Says(sub)
  <2>1. ASSUME NEW j \in 1 .. L PROVE sub[j].code \in {0, OwnCode(sub[j].message)}
    BY <1>1, <1>3 DEF Says
  <2>2. ASSUME NEW j \in 1 .. L, NEW k \in DOMAIN sub[j].kids
        PROVE  /\ sub[j].kids[k] \in 1 .. L
               /\ sub[sub[j].kids[k]].message = r[r[old[j]].kids[k]].message
    <3>1. sub[j].kids[k] \in 1 .. L
      BY <1>4, <1>5
    <3> QED
      BY <1>3, <1>5, <3>1
  <2>3. ASSUME NEW j \in 1 .. L, NEW k \in DOMAIN sub[j].kids
        PROVE  Range(sub[sub[j].kids[k]].message) \subseteq Range(sub[j].message)
    <3>1. old[j] \in DOMAIN r /\ sub[j].message = r[old[j]].message
      BY <1>3
    <3>2. k \in DOMAIN r[old[j]].kids
      BY <1>5
    <3>3. Range(r[r[old[j]].kids[k]].message) \subseteq Range(r[old[j]].message)
      BY <1>1, <3>1, <3>2, Zenon DEF Says
    <3>4. sub[sub[j].kids[k]].message = r[r[old[j]].kids[k]].message
      BY <2>2
    <3> QED
      BY <3>1, <3>3, <3>4, Zenon
  <2>4. ASSUME NEW j \in 1 .. L, sub[j].kids # <<>>
        PROVE  IsSuffix(sub[Last(sub[j].kids)].message, sub[j].message)
    <3> DEFINE kids == sub[j].kids
               kids0 == r[old[j]].kids
               n == Len(kids)
    <3>1. sub[j].kids \in Seq(Nat)
      BY <1>1, <1>3, LinksOf
    <3>2. n \in DOMAIN kids /\ Len(kids0) = n /\ kids0 # <<>> /\ old[j] \in DOMAIN r
      BY <1>1, <1>3, <2>4, <3>1, LinksOf
    <3>3. Last(kids) = kids[n] /\ Last(kids0) = kids0[n]
      BY <3>2 DEF Last
    <3>4. sub[kids[n]].message = r[kids0[n]].message
      BY <2>2, <3>2
    <3>5. IsSuffix(r[Last(kids0)].message, r[old[j]].message)
      BY <1>1, <3>2, Zenon DEF Says
    <3>6. sub[j].message = r[old[j]].message
      BY <1>3
    <3> QED
      BY <3>3, <3>4, <3>5, <3>6, Zenon
  <2> QED
    BY <1>3, <2>1, <2>3, <2>4 DEF Says
<1>8. Arena(sub)
  BY <1>3, <1>6, <1>7 DEF Arena
<1>9. Codes1(sub) = CodesUnder(r, index)
  <2>1. CodesUnder(r, index) = {r[i].code : i \in Range(old)} \ {0}
    BY DEF CodesUnder, old
  <2>2. {sub[j].code : j \in DOMAIN sub} = {r[i].code : i \in Range(old)}
    <3>1. Range(old) = {old[j] : j \in 1 .. L}
      BY <1>3 DEF Range
    <3>2. {sub[j].code : j \in 1 .. L} = {r[old[j]].code : j \in 1 .. L}
      BY <1>3
    <3>3. {r[old[j]].code : j \in 1 .. L} = {r[i].code : i \in {old[j] : j \in 1 .. L}}
      BY Zenon
    <3>4. DOMAIN sub = 1 .. L
      BY <1>3
    <3> QED
      BY <3>1, <3>2, <3>3, <3>4, Zenon
  <2> QED
    BY <2>1, <2>2, Zenon DEF Codes1
<1>10. sub[1].message = r[index].message /\ sub[1].code = r[index].code
  <2>1. 1 \in 1 .. L
    BY <1>4
  <2> QED
    BY <1>3, <1>4, <2>1
<1>11. Arena(sub) /\ sub # <<>> /\ Codes1(sub) = CodesUnder(r, index)
  BY <1>3, <1>8, <1>9
<1> QED
  BY <1>10, <1>11, Zenon DEF sub

(***************************************************************************)
(* What the error at the root says covers what every link says, so it may  *)
(* have the code of any of them.                                           *)
(***************************************************************************)
LEMMA RootSaysAll ==
  ASSUME NEW r, Arena(r), r # <<>>
  PROVE  Codes1(r) \subseteq InnerCodes(r[1].message)
<1>1. r \in Seq(Link) /\ Shape(r) /\ Says(r)
  BY DEF Arena
<1>2. 1 \in DOMAIN r /\ Len(r) \in Nat /\ DOMAIN r = 1 .. Len(r)
  BY <1>1
<1> DEFINE all == Range(r[1].message)
           odd == {i \in DOMAIN r : ~(Range(r[i].message) \subseteq all)}
<1>3. ASSUME odd # {} PROVE FALSE
  <2>1. odd \in SUBSET Nat
    BY <1>2
  <2>2. PICK j \in odd : \A i \in odd : j <= i
    BY <1>3, <2>1, LeastNatural
  <2>3. j \in 2 .. Len(r)
    BY <1>2
  <2>4. PICK i \in DOMAIN r : \E k \in DOMAIN r[i].kids : r[i].kids[k] = j
    BY <1>1, <2>3 DEF Shape
  <2>5. PICK k \in DOMAIN r[i].kids : r[i].kids[k] = j
    BY <2>4
  <2>6. i < j /\ i \in Nat /\ j \in Nat
    BY <1>1, <1>2, <2>5, LinksOf
  <2>7. i \notin odd
    BY <2>2, <2>6
  <2>8. Range(r[j].message) \subseteq Range(r[i].message)
    BY <1>1, <2>5 DEF Says
  <2> QED
    BY <2>7, <2>8
<1>4. ASSUME NEW i \in DOMAIN r, r[i].code # 0 PROVE r[i].code \in InnerCodes(r[1].message)
  <2> DEFINE m == r[i].message
  <2>1. r[i].code = OwnCode(m)
    BY <1>1, <1>4 DEF Says
  <2>2. Len(m) = 1 /\ m[1] \in Ours /\ r[i].code = CodeOf[m[1]]
    BY <1>4, <2>1 DEF OwnCode
  <2>3. m \in Messages
    BY <1>1, LinksOf
  <2>4. m[1] \in Range(m)
    BY <2>2, <2>3 DEF Range, Messages
  <2>5. m[1] \in all
    BY <1>3, <2>4
  <2> QED
    BY <2>2, <2>5 DEF InnerCodes
<1> QED
  BY <1>4 DEF Codes1

-----------------------------------------------------------------------------
(* The record that absorbed another.                                       *)

LEMMA SuffixOfJoined ==
  ASSUME NEW A, NEW f \in Seq(A), NEW s \in Seq(A)
  PROVE  IsSuffix(s, f \o s)
<1> DEFINE t == f \o s
           m == Len(f)
           n == Len(s)
<1>1. /\ m \in Nat /\ n \in Nat /\ Len(t) = m + n
      /\ \A i \in 1 .. n : t[m + i] = s[i]
  <2>1. m \in Nat /\ n \in Nat /\ t \in Seq(A) /\ Len(t) = m + n
    OBVIOUS
  <2>2. \A i \in 1 .. n : t[m + i] = s[i]
    OBVIOUS
  <2> QED
    BY <2>1, <2>2
<1> HIDE DEF t
<1> DEFINE a == Reverse(s)
           b == Reverse(t)
<1>2. /\ a = [i \in 1 .. n |-> s[(n - i) + 1]]
      /\ b = [i \in 1 .. m + n |-> t[(m + n - i) + 1]]
  BY <1>1 DEF Reverse
<1> HIDE DEF a, b
<1>3. Len(a) = n /\ Len(b) = m + n
  BY <1>1, <1>2
<1>4. ASSUME NEW i \in 1 .. n PROVE a[i] = b[i]
  <2>1. (n - i) + 1 \in 1 .. n /\ (m + n - i) + 1 = m + ((n - i) + 1) /\ i \in 1 .. m + n
    BY <1>1
  <2>2. a[i] = s[(n - i) + 1] /\ b[i] = t[m + ((n - i) + 1)]
    BY <1>2, <2>1
  <2>3. t[m + ((n - i) + 1)] = s[(n - i) + 1]
    BY <1>1, <2>1
  <2> QED
    BY <2>2, <2>3
<1>5. SubSeq(a, 1, n) = [i \in 1 .. n |-> a[i]] /\ SubSeq(b, 1, n) = [i \in 1 .. n |-> b[i]]
  <2>1. \A i \in 1 .. n : a[i] \in A /\ b[i] \in A
    <3>1. \A i \in 1 .. n : (n - i) + 1 \in 1 .. n
      BY <1>1
    <3>2. \A i \in 1 .. n : a[i] = s[(n - i) + 1]
      BY <1>2
    <3>3. \A i \in 1 .. n : s[i] \in A
      OBVIOUS
    <3> QED
      BY <1>4, <3>1, <3>2, <3>3, Zenon
  <2>2. a \in Seq(A)
    BY <1>1, <1>2, <2>1
  <2>3. b \in Seq(Range(b))
    <3>1. DOMAIN b = 1 .. m + n /\ b = [i \in DOMAIN b |-> b[i]]
      BY <1>2
    <3>2. b \in [1 .. m + n -> Range(b)]
      BY <3>1, Zenon DEF Range
    <3>3. m + n \in Nat
      BY <1>1
    <3> QED
      BY <3>2, <3>3
  <2> QED
    BY <1>1, <1>3, <2>2, <2>3
<1>6. Len(a) <= Len(b) /\ SubSeq(a, 1, Len(a)) = SubSeq(b, 1, Len(a))
  BY <1>1, <1>3, <1>4, <1>5
<1> QED
  BY <1>6 DEF IsSuffix, IsPrefix, a, b, t

\* The links of a splice: the root gets a kid, those of the cause move to the end.
LEMMA AbsorbIs ==
  ASSUME NEW r \in Seq(Link), r # <<>>, NEW q \in Seq(Link), q # <<>>, NEW sep \in Texts
  PROVE  LET new == absorbing_record(r, q, sep)
             M == Len(r)
             N == Len(q)
         IN  /\ new \in Seq(Link) /\ Len(new) = M + N /\ DOMAIN new = 1 .. M + N
             /\ \E front \in Messages :
                  /\ new[1].message = front \o q[1].message
                  /\ Range(r[1].message) \subseteq Range(front)
             /\ new[1].code = r[1].code
             /\ new[1].kids = Append(r[1].kids, M + 1)
             /\ \A i \in 2 .. M : new[i] = r[i]
             /\ \A i \in 1 .. N :
                  /\ new[M + i].message = q[i].message /\ new[M + i].code = q[i].code
                  /\ new[M + i].kids = [k \in DOMAIN q[i].kids |-> q[i].kids[k] + M]
<1> DEFINE new == absorbing_record(r, q, sep)
           M == Len(r)
           N == Len(q)
           front == IF r[1].message = <<>> THEN <<>> ELSE Append(r[1].message, sep)
           root == [message |-> front \o q[1].message, code |-> r[1].code,
                    kids |-> Append(r[1].kids, M + 1)]
           R == [r EXCEPT ![1].message = front \o q[1].message,
                          ![1].kids = Append(@, Len(r) + 1)]
           shift(link) == [link EXCEPT !.kids = [k \in DOMAIN @ |-> @[k] + Len(r)]]
           C == [i \in DOMAIN q |-> shift(q[i])]
<1>1. new = R \o C
  BY DEF absorbing_record
<1>2. /\ M \in Nat \ {0} /\ N \in Nat \ {0} /\ 1 \in DOMAIN r /\ 1 \in DOMAIN q
      /\ DOMAIN r = 1 .. M /\ DOMAIN q = 1 .. N
  OBVIOUS
<1>3. /\ r[1] \in Link /\ r[1].message \in Messages /\ r[1].code \in Nat /\ r[1].kids \in Seq(Nat)
      /\ q[1].message \in Messages
  BY <1>2, LinksOf
<1>4. front \in Messages /\ Range(r[1].message) \subseteq Range(front)
  <2>1. CASE r[1].message = <<>>
    BY <2>1 DEF Range, Messages
  <2>2. CASE r[1].message # <<>>
    <3> DEFINE m == r[1].message
    <3>1. m \in Messages
      BY <1>3
    <3>2. Append(m, sep) \in Messages
      BY <3>1 DEF Messages
    <3>3. \A i \in DOMAIN m : i \in DOMAIN Append(m, sep) /\ Append(m, sep)[i] = m[i]
      BY <3>1 DEF Messages
    <3> QED
      BY <2>2, <3>2, <3>3 DEF Range
  <2> QED
    BY <2>1, <2>2
<1>5. root \in Link
  <2>1. front \o q[1].message \in Messages
    BY <1>3, <1>4 DEF Messages
  <2>2. Append(r[1].kids, M + 1) \in Seq(Nat)
    BY <1>2, <1>3
  <2> HIDE DEF front
  <2> QED
    BY <1>3, <2>1, <2>2 DEF Link
<1>6. R \in [1 .. M -> Link] /\ R[1] = root /\ \A i \in 2 .. M : R[i] = r[i]
  <2> HIDE DEF front
  <2>1. R[1] = root
    BY <1>2, <1>3 DEF Link
  <2>2. \A i \in 2 .. M : R[i] = r[i]
    BY <1>2
  <2>3. DOMAIN R = 1 .. M /\ R = [i \in DOMAIN R |-> R[i]]
    BY <1>2
  <2>4. \A i \in 1 .. M : i = 1 \/ i \in 2 .. M
    BY <1>2
  <2>5. \A i \in 1 .. M : r[i] \in Link
    BY <1>2
  <2> HIDE DEF R, root
  <2> QED
    BY <1>5, <2>1, <2>2, <2>3, <2>4, <2>5
<1>7. ASSUME NEW i \in 1 .. N
      PROVE  /\ C[i] \in Link /\ C[i].message = q[i].message /\ C[i].code = q[i].code
             /\ C[i].kids = [k \in DOMAIN q[i].kids |-> q[i].kids[k] + M]
  <2>1. q[i] \in Link /\ q[i].kids \in Seq(Nat)
    BY <1>2, LinksOf
  <2> DEFINE kids == [k \in DOMAIN q[i].kids |-> q[i].kids[k] + M]
  <2>2. kids \in Seq(Nat)
    <3> DEFINE old == q[i].kids
    <3>1. old \in Seq(Nat)
      BY <2>1
    <3> HIDE DEF old
    <3>2. [k \in DOMAIN old |-> old[k] + M] \in Seq(Nat)
      <4>1. \A k \in DOMAIN old : old[k] + M \in Nat
        BY <1>2, <3>1
      <4>2. DOMAIN old = 1 .. Len(old) /\ Len(old) \in Nat
        BY <3>1
      <4> QED
        BY <4>1, <4>2
    <3> QED
      BY <3>2 DEF old
  <2>3. C[i] = [q[i] EXCEPT !.kids = kids]
    BY <1>2
  <2> HIDE DEF kids, C
  <2>4. C[i] \in Link /\ C[i].message = q[i].message /\ C[i].code = q[i].code /\ C[i].kids = kids
    BY <2>1, <2>2, <2>3 DEF Link
  <2> QED
    BY <2>4 DEF kids
<1>8. C \in [1 .. N -> Link]
  <2>1. DOMAIN C = 1 .. N /\ C = [i \in DOMAIN C |-> C[i]]
    BY <1>2
  <2> HIDE DEF C
  <2> QED
    BY <1>7, <2>1
<1> HIDE DEF R, C, root, front
<1>9. R \in Seq(Link) /\ Len(R) = M /\ C \in Seq(Link) /\ Len(C) = N
  <2>1. \A n \in Nat : \A f \in [1 .. n -> Link] : f \in Seq(Link) /\ Len(f) = n
    OBVIOUS
  <2>2. M \in Nat /\ N \in Nat
    BY <1>2
  <2> HIDE DEF M, N
  <2> QED
    BY <1>6, <1>8, <2>1, <2>2, Zenon
<1>10. new \in Seq(Link) /\ Len(new) = M + N /\ DOMAIN new = 1 .. M + N
  <2>1. R \o C \in Seq(Link) /\ Len(R \o C) = M + N
    BY <1>9
  <2>2. DOMAIN (R \o C) = 1 .. M + N
    BY <2>1
  <2> QED
    BY <1>1, <2>1, <2>2, Zenon
<1>11. \A i \in 1 .. M : new[i] = R[i]
  <2>1. \A i \in 1 .. Len(R) : (R \o C)[i] = R[i]
    BY <1>9
  <2> QED
    BY <1>1, <1>9, <2>1, Zenon
<1>12. \A i \in 1 .. N : new[M + i] = C[i]
  <2>1. \A i \in 1 .. Len(C) : (R \o C)[Len(R) + i] = C[i]
    BY <1>9
  <2> QED
    BY <1>1, <1>9, <2>1, Zenon
<1> HIDE DEF new
<1>13. new[1] = root /\ \A i \in 2 .. M : new[i] = r[i]
  BY <1>2, <1>6, <1>11
<1>14. /\ new[1].message = front \o q[1].message /\ new[1].code = r[1].code
       /\ new[1].kids = Append(r[1].kids, M + 1)
  BY <1>13 DEF root
<1>15. \A i \in 1 .. N :
         /\ new[M + i].message = q[i].message /\ new[M + i].code = q[i].code
         /\ new[M + i].kids = [k \in DOMAIN q[i].kids |-> q[i].kids[k] + M]
  BY <1>7, <1>12
<1> QED
  BY <1>4, <1>10, <1>13, <1>14, <1>15, Zenon DEF new

\* A splice is a record like the others, and matches what both did.
LEMMA AbsorbArena ==
  ASSUME NEW r, Arena(r), r # <<>>, r[1].code = 0, NEW q, Arena(q), q # <<>>, NEW sep \in Texts
  PROVE  LET new == absorbing_record(r, q, sep)
         IN  /\ Arena(new) /\ new # <<>> /\ new[1].code = 0
             /\ Codes1(new) = Codes1(r) \cup Codes1(q)
<1> DEFINE new == absorbing_record(r, q, sep)
           M == Len(r)
           N == Len(q)
           K == Len(r[1].kids)
<1>1. /\ r \in Seq(Link) /\ Shape(r) /\ Says(r)
      /\ q \in Seq(Link) /\ Shape(q) /\ Says(q)
  BY DEF Arena
<1>2. /\ M \in Nat \ {0} /\ N \in Nat \ {0} /\ 1 \in DOMAIN r /\ 1 \in DOMAIN q
      /\ DOMAIN r = 1 .. M /\ DOMAIN q = 1 .. N
  BY <1>1
<1>3. /\ new \in Seq(Link) /\ Len(new) = M + N /\ DOMAIN new = 1 .. M + N
      /\ \E front \in Messages :
           /\ new[1].message = front \o q[1].message
           /\ Range(r[1].message) \subseteq Range(front)
      /\ new[1].code = r[1].code
      /\ new[1].kids = Append(r[1].kids, M + 1)
      /\ \A i \in 2 .. M : new[i] = r[i]
      /\ \A i \in 1 .. N :
           /\ new[M + i].message = q[i].message /\ new[M + i].code = q[i].code
           /\ new[M + i].kids = [k \in DOMAIN q[i].kids |-> q[i].kids[k] + M]
  BY <1>1, AbsorbIs
<1>4. PICK front \in Messages :
        /\ new[1].message = front \o q[1].message
        /\ Range(r[1].message) \subseteq Range(front)
  BY <1>3
<1> HIDE DEF new
<1>5. \A i \in 1 .. M + N : i = 1 \/ i \in 2 .. M \/ \E h \in 1 .. N : i = M + h
  <2>1. \A i \in 1 .. M + N : i = 1 \/ i \in 2 .. M \/ (i - M \in 1 .. N /\ i = M + (i - M))
    BY <1>2
  <2> QED
    BY <2>1
\* The kids of the root, of another link of r, of a link of q.
<1>6. /\ K \in Nat /\ r[1].kids \in Seq(Nat) /\ DOMAIN r[1].kids = 1 .. K
      /\ DOMAIN new[1].kids = 1 .. K + 1 /\ new[1].kids[K + 1] = M + 1
      /\ \A k \in 1 .. K : new[1].kids[k] = r[1].kids[k] /\ r[1].kids[k] \in 2 .. M
  <2>1. /\ K \in Nat /\ r[1].kids \in Seq(Nat) /\ DOMAIN r[1].kids = 1 .. K
    BY <1>1, <1>2, LinksOf
  <2>2. \A k \in 1 .. K : r[1].kids[k] \in 2 .. M
    <3>1. \A k \in 1 .. K : r[1].kids[k] \in 1 + 1 .. M
      BY <1>1, <1>2, <2>1 DEF Shape
    <3> QED
      BY <3>1
  <2> DEFINE old == r[1].kids
  <2>3. old \in Seq(Nat) /\ Len(old) = K
    BY <2>1
  <2> HIDE DEF old
  <2>4. DOMAIN Append(old, M + 1) = 1 .. K + 1 /\ Append(old, M + 1)[K + 1] = M + 1
    BY <2>3
  <2>5. \A k \in 1 .. K : Append(old, M + 1)[k] = old[k]
    BY <2>3
  <2>6. new[1].kids = Append(old, M + 1)
    BY <1>3 DEF old
  <2>7. \A k \in 1 .. K : new[1].kids[k] = r[1].kids[k]
    BY <2>5, <2>6, Zenon DEF old
  <2>8. DOMAIN new[1].kids = 1 .. K + 1 /\ new[1].kids[K + 1] = M + 1
    BY <2>4, <2>6, Zenon
  <2> QED
    BY <2>1, <2>2, <2>7, <2>8
<1>7. ASSUME NEW i \in 2 .. M
      PROVE  /\ i \in DOMAIN r /\ new[i] = r[i]
             /\ \A k \in DOMAIN new[i].kids : new[i].kids[k] \in i + 1 .. M
  BY <1>1, <1>2, <1>3 DEF Shape
<1>8. ASSUME NEW h \in 1 .. N
      PROVE  /\ h \in DOMAIN q /\ DOMAIN new[M + h].kids = DOMAIN q[h].kids
             /\ \A k \in DOMAIN q[h].kids :
                  /\ new[M + h].kids[k] = q[h].kids[k] + M
                  /\ q[h].kids[k] \in h + 1 .. N
  <2>1. \A k \in DOMAIN q[h].kids : q[h].kids[k] \in h + 1 .. N
    BY <1>1, <1>2 DEF Shape
  <2>2. new[M + h].kids = [k \in DOMAIN q[h].kids |-> q[h].kids[k] + M]
    BY <1>3
  <2> QED
    BY <1>2, <2>1, <2>2
\* Who has a kid among r's links, the root of q, or another link of q.
<1>9. ASSUME NEW i \in 1 .. M + N, NEW k \in DOMAIN new[i].kids
      PROVE  LET kid == new[i].kids[k]
             IN  /\ kid \in i + 1 .. M + N
                 /\ \/ kid \in 2 .. M /\ i \in DOMAIN r /\ k \in DOMAIN r[i].kids /\ r[i].kids[k] = kid
                    \/ kid = M + 1 /\ i = 1 /\ k = K + 1
                    \/ \E h \in DOMAIN q : /\ i = M + h /\ k \in DOMAIN q[h].kids
                                           /\ q[h].kids[k] \in 2 .. N /\ kid = q[h].kids[k] + M
  <2> DEFINE kid == new[i].kids[k]
  <2>1. CASE i = 1
    <3>1. k \in 1 .. K \/ k = K + 1
      BY <1>6, <2>1
    <3>2. CASE k = K + 1
      <4>1. kid = M + 1
        BY <1>6, <2>1, <3>2
      <4> QED
        BY <1>2, <2>1, <3>2, <4>1
    <3>3. CASE k \in 1 .. K
      <4>1. kid = r[1].kids[k] /\ kid \in 2 .. M
        BY <1>6, <2>1, <3>3
      <4>2. kid \in i + 1 .. M + N
        BY <1>2, <2>1, <4>1
      <4> QED
        BY <1>2, <1>6, <2>1, <3>3, <4>1, <4>2
    <3> QED
      BY <3>1, <3>2, <3>3
  <2>2. CASE i \in 2 .. M
    <3>1. new[i] = r[i] /\ kid \in i + 1 .. M /\ i \in DOMAIN r
      BY <1>7, <2>2
    <3>2. kid \in i + 1 .. M + N /\ kid \in 2 .. M
      BY <1>2, <2>2, <3>1
    <3> QED
      BY <3>1, <3>2
  <2>3. CASE \E h \in 1 .. N : i = M + h
    <3>1. PICK h \in 1 .. N : i = M + h
      BY <2>3
    <3>2. /\ h \in DOMAIN q /\ k \in DOMAIN q[h].kids
          /\ kid = q[h].kids[k] + M /\ q[h].kids[k] \in h + 1 .. N
      BY <1>8, <3>1
    <3>3. kid \in i + 1 .. M + N /\ q[h].kids[k] \in 2 .. N
      BY <1>2, <3>1, <3>2
    <3> QED
      BY <3>1, <3>2, <3>3
  <2> QED
    BY <1>5, <2>1, <2>2, <2>3
<1>10. Shape(new)
  <2>1. ASSUME NEW i \in 1 .. M + N, NEW j \in 1 .. M + N,
               NEW k \in DOMAIN new[i].kids, NEW l \in DOMAIN new[j].kids,
               new[i].kids[k] = new[j].kids[l]
        PROVE  i = j /\ k = l
    <3> DEFINE kid == new[i].kids[k]
               kin == new[j].kids[l]
    <3>0. kid = kin
      BY <2>1
    <3>1. \/ kid \in 2 .. M /\ i \in DOMAIN r /\ k \in DOMAIN r[i].kids /\ r[i].kids[k] = kid
          \/ kid = M + 1 /\ i = 1 /\ k = K + 1
          \/ \E h \in DOMAIN q : /\ i = M + h /\ k \in DOMAIN q[h].kids
                                 /\ q[h].kids[k] \in 2 .. N /\ kid = q[h].kids[k] + M
      BY <1>9
    <3>2. \/ kin \in 2 .. M /\ j \in DOMAIN r /\ l \in DOMAIN r[j].kids /\ r[j].kids[l] = kin
          \/ kin = M + 1 /\ j = 1 /\ l = K + 1
          \/ \E h \in DOMAIN q : /\ j = M + h /\ l \in DOMAIN q[h].kids
                                 /\ q[h].kids[l] \in 2 .. N /\ kin = q[h].kids[l] + M
      BY <1>9
    <3> HIDE DEF kid, kin
    <3>3. CASE kid \in 2 .. M
      <4>1. i \in DOMAIN r /\ k \in DOMAIN r[i].kids /\ r[i].kids[k] = kid
        BY <1>2, <3>1, <3>3
      <4>2. j \in DOMAIN r /\ l \in DOMAIN r[j].kids /\ r[j].kids[l] = kid
        BY <1>2, <3>0, <3>2, <3>3
      <4> QED
        BY <1>1, <4>1, <4>2 DEF Shape
    <3>4. CASE kid = M + 1
      <4>1. i = 1 /\ k = K + 1
        BY <1>2, <3>1, <3>4
      <4>2. j = 1 /\ l = K + 1
        BY <1>2, <3>0, <3>2, <3>4
      <4> QED
        BY <4>1, <4>2
    <3>5. CASE ~(kid \in 2 .. M) /\ kid # M + 1
      <4>1. PICK g \in DOMAIN q : /\ i = M + g /\ k \in DOMAIN q[g].kids
                                  /\ q[g].kids[k] \in 2 .. N /\ kid = q[g].kids[k] + M
        BY <3>1, <3>5
      <4>2. PICK h \in DOMAIN q : /\ j = M + h /\ l \in DOMAIN q[h].kids
                                  /\ q[h].kids[l] \in 2 .. N /\ kin = q[h].kids[l] + M
        BY <3>0, <3>2, <3>5
      <4>3. q[g].kids[k] = q[h].kids[l]
        <5>1. \A x, y \in 2 .. N : x + M = y + M => x = y
          BY <1>2
        <5> QED
          BY <3>0, <4>1, <4>2, <5>1, Zenon
      <4>4. g = h /\ k = l
        BY <1>1, <4>1, <4>2, <4>3 DEF Shape
      <4> QED
        BY <4>1, <4>2, <4>4
    <3> QED
      BY <3>3, <3>4, <3>5
  <2>2. ASSUME NEW p \in 2 .. M + N
        PROVE  \E i \in 1 .. M + N : \E k \in DOMAIN new[i].kids : new[i].kids[k] = p
    <3>1. CASE p \in 2 .. M
      <4>1. PICK i \in 1 .. M : \E k \in DOMAIN r[i].kids : r[i].kids[k] = p
        BY <1>1, <1>2, <3>1 DEF Shape
      <4>2. PICK k \in DOMAIN r[i].kids : r[i].kids[k] = p
        BY <4>1
      <4>3. i \in 1 .. M + N /\ (i = 1 \/ i \in 2 .. M)
        BY <1>2
      <4>4. CASE i = 1
        <5>1. k \in 1 .. K /\ k \in 1 .. K + 1
          BY <1>6, <4>2, <4>4
        <5> QED
          BY <1>6, <4>2, <4>3, <4>4, <5>1
      <4>5. CASE i \in 2 .. M
        BY <1>7, <4>2, <4>3, <4>5
      <4> QED
        BY <4>3, <4>4, <4>5
    <3>2. CASE p = M + 1
      <4>1. K + 1 \in DOMAIN new[1].kids /\ 1 \in 1 .. M + N
        BY <1>2, <1>6
      <4> QED
        BY <1>6, <3>2, <4>1
    <3>3. CASE ~(p \in 2 .. M) /\ p # M + 1
      <4>1. p - M \in 2 .. N /\ p = (p - M) + M
        BY <1>2, <3>3
      <4>2. PICK h \in 1 .. N : \E k \in DOMAIN q[h].kids : q[h].kids[k] = p - M
        BY <1>1, <1>2, <4>1 DEF Shape
      <4>3. M + h \in 1 .. M + N
        BY <1>2
      <4> QED
        BY <1>8, <4>1, <4>2, <4>3
    <3> QED
      BY <3>1, <3>2, <3>3
  <2>3. \A i \in 1 .. M + N : \A k \in DOMAIN new[i].kids : new[i].kids[k] \in i + 1 .. M + N
    BY <1>9
  <2> QED
    BY <1>3, <2>1, <2>2, <2>3 DEF Shape
<1>11. Codes1(new) = Codes1(r) \cup Codes1(q)
  <2>1. \A i \in 1 .. M : i \in 1 .. M + N /\ new[i].code = r[i].code
    <3>1. \A i \in 1 .. M : i \in 1 .. M + N /\ (i = 1 \/ i \in 2 .. M)
      BY <1>2
    <3> QED
      BY <1>3, <3>1
  <2>2. \A i \in 1 .. N : M + i \in 1 .. M + N /\ new[M + i].code = q[i].code
    <3>1. \A i \in 1 .. N : M + i \in 1 .. M + N
      BY <1>2
    <3> QED
      BY <1>3, <3>1
  <2>3. \A i \in 1 .. M + N : i \in 1 .. M \/ \E h \in 1 .. N : i = M + h
    <3>1. \A i \in 2 .. M : i \in 1 .. M
      BY <1>2
    <3>2. 1 \in 1 .. M
      BY <1>2
    <3> QED
      BY <1>5, <3>1, <3>2
  <2>4. {new[i].code : i \in 1 .. M + N} = {r[i].code : i \in 1 .. M} \cup {q[i].code : i \in 1 .. N}
    <3>1. ASSUME NEW i \in 1 .. M + N
          PROVE  new[i].code \in {r[h].code : h \in 1 .. M} \cup {q[h].code : h \in 1 .. N}
      <4>1. CASE i \in 1 .. M
        BY <2>1, <4>1
      <4>2. CASE \E h \in 1 .. N : i = M + h
        BY <2>2, <4>2
      <4> QED
        BY <2>3, <4>1, <4>2
    <3>2. ASSUME NEW h \in 1 .. M PROVE r[h].code \in {new[i].code : i \in 1 .. M + N}
      BY <2>1
    <3>3. ASSUME NEW h \in 1 .. N PROVE q[h].code \in {new[i].code : i \in 1 .. M + N}
      BY <2>2
    <3> QED
      BY <3>1, <3>2, <3>3
  <2>5. /\ {new[i].code : i \in DOMAIN new} = {new[i].code : i \in 1 .. M + N}
        /\ {r[i].code : i \in DOMAIN r} = {r[i].code : i \in 1 .. M}
        /\ {q[i].code : i \in DOMAIN q} = {q[i].code : i \in 1 .. N}
    BY <1>2, <1>3
  <2> QED
    BY <2>4, <2>5 DEF Codes1
<1>12. new # <<>> /\ new[1].code = 0
  BY <1>2, <1>3
<1>13. Says(new)
  <2>1. ASSUME NEW i \in 1 .. M + N PROVE new[i].code \in {0, OwnCode(new[i].message)}
    <3>1. CASE i = 1
      BY <1>12, <3>1
    <3>2. CASE i \in 2 .. M
      <4>1. i \in DOMAIN r /\ new[i] = r[i]
        BY <1>7, <3>2
      <4>2. r[i].code \in {0, OwnCode(r[i].message)}
        BY <1>1, <4>1, Zenon DEF Says
      <4> QED
        BY <4>1, <4>2, Zenon
    <3>3. CASE \E h \in 1 .. N : i = M + h
      <4>1. PICK h \in 1 .. N : i = M + h
        BY <3>3
      <4>2. h \in DOMAIN q
        BY <1>2
      <4>3. q[h].code \in {0, OwnCode(q[h].message)}
        BY <1>1, <4>2, Zenon DEF Says
      <4>4. new[i].message = q[h].message /\ new[i].code = q[h].code
        BY <1>3, <4>1
      <4> QED
        BY <4>3, <4>4, Zenon
    <3> QED
      BY <1>5, <3>1, <3>2, <3>3
  <2>2. /\ Range(front) \subseteq Range(new[1].message)
        /\ Range(q[1].message) \subseteq Range(new[1].message)
        /\ IsSuffix(q[1].message, new[1].message)
    <3> DEFINE m == q[1].message
    <3>1. m \in Messages /\ front \in Messages /\ new[1].message = front \o m
      BY <1>1, <1>2, <1>4, LinksOf
    <3> HIDE DEF m
    <3>2. \A i \in DOMAIN front : i \in DOMAIN (front \o m) /\ (front \o m)[i] = front[i]
      BY <3>1 DEF Messages
    <3>3. \A i \in DOMAIN m : /\ Len(front) + i \in DOMAIN (front \o m)
                              /\ (front \o m)[Len(front) + i] = m[i]
      BY <3>1 DEF Messages
    <3>4. Range(front) \subseteq Range(front \o m) /\ Range(m) \subseteq Range(front \o m)
      BY <3>2, <3>3, Zenon DEF Range
    <3>5. IsSuffix(m, front \o m)
      BY <3>1, SuffixOfJoined, Zenon DEF Messages
    <3> QED
      BY <3>1, <3>4, <3>5, Zenon DEF m
  <2>3. ASSUME NEW i \in 1 .. M + N, NEW k \in DOMAIN new[i].kids
        PROVE  Range(new[new[i].kids[k]].message) \subseteq Range(new[i].message)
    <3> DEFINE kid == new[i].kids[k]
    <3>1. \/ kid \in 2 .. M /\ i \in DOMAIN r /\ k \in DOMAIN r[i].kids /\ r[i].kids[k] = kid
          \/ kid = M + 1 /\ i = 1 /\ k = K + 1
          \/ \E h \in DOMAIN q : /\ i = M + h /\ k \in DOMAIN q[h].kids
                                 /\ q[h].kids[k] \in 2 .. N /\ kid = q[h].kids[k] + M
      BY <1>9
    <3> HIDE DEF kid
    <3>2. CASE kid \in 2 .. M /\ i \in DOMAIN r /\ k \in DOMAIN r[i].kids /\ r[i].kids[k] = kid
      <4>1. Range(r[kid].message) \subseteq Range(r[i].message)
        BY <1>1, <3>2 DEF Says
      <4>2. new[kid] = r[kid]
        BY <1>3, <3>2
      <4>3. i = 1 \/ new[i] = r[i]
        BY <1>2, <1>3, <3>2
      <4> QED
        BY <1>4, <2>2, <4>1, <4>2, <4>3 DEF kid
    <3>3. CASE kid = M + 1 /\ i = 1
      <4>1. 1 \in 1 .. N
        BY <1>2
      <4>2. new[M + 1].message = q[1].message
        BY <1>3, <4>1
      <4> QED
        BY <2>2, <3>3, <4>2 DEF kid
    <3>4. ASSUME NEW h \in DOMAIN q, i = M + h, k \in DOMAIN q[h].kids,
                 q[h].kids[k] \in 2 .. N, kid = q[h].kids[k] + M
          PROVE  Range(new[kid].message) \subseteq Range(new[i].message)
      <4>1. Range(q[q[h].kids[k]].message) \subseteq Range(q[h].message)
        BY <1>1, <3>4 DEF Says
      <4>2. new[i].message = q[h].message
        BY <1>2, <1>3, <3>4
      <4>3. q[h].kids[k] \in 1 .. N /\ kid = M + q[h].kids[k]
        BY <1>2, <3>4
      <4>4. new[kid].message = q[q[h].kids[k]].message
        BY <1>3, <4>3
      <4> QED
        BY <4>1, <4>2, <4>4
    <3>5. Range(new[kid].message) \subseteq Range(new[i].message)
      <4>1. CASE \E h \in DOMAIN q : /\ i = M + h /\ k \in DOMAIN q[h].kids
                                     /\ q[h].kids[k] \in 2 .. N /\ kid = q[h].kids[k] + M
        BY <3>4, <4>1
      <4>2. CASE kid \in 2 .. M /\ i \in DOMAIN r /\ k \in DOMAIN r[i].kids /\ r[i].kids[k] = kid
        BY <3>2, <4>2 DEF kid
      <4>3. CASE kid = M + 1 /\ i = 1
        BY <3>3, <4>3 DEF kid
      <4> QED
        BY <3>1, <4>1, <4>2, <4>3
    <3> QED
      BY <3>5 DEF kid
  <2>4. ASSUME NEW i \in 1 .. M + N, new[i].kids # <<>>
        PROVE  IsSuffix(new[Last(new[i].kids)].message, new[i].message)
    <3>1. CASE i = 1
      <4>1. Len(new[1].kids) = K + 1
        BY <1>3, <1>6
      <4>2. Last(new[1].kids) = M + 1
        BY <1>6, <4>1, Zenon DEF Last
      <4>3. new[M + 1].message = q[1].message
        BY <1>2, <1>3
      <4> QED
        BY <2>2, <3>1, <4>2, <4>3
    <3>2. CASE i \in 2 .. M
      <4>1. i \in DOMAIN r /\ new[i] = r[i] /\ r[i].kids # <<>>
        BY <1>7, <2>4, <3>2
      <4>2. IsSuffix(r[Last(r[i].kids)].message, r[i].message)
        BY <1>1, <4>1, Zenon DEF Says
      <4>3. Last(r[i].kids) \in 2 .. M
        <5>1. Len(r[i].kids) \in DOMAIN r[i].kids
          BY <1>1, <4>1, LinksOf
        <5>2. Last(r[i].kids) \in i + 1 .. M
          BY <1>7, <3>2, <4>1, <5>1 DEF Last
        <5> QED
          BY <1>2, <3>2, <5>2
      <4>4. new[Last(r[i].kids)] = r[Last(r[i].kids)]
        BY <1>3, <4>3
      <4> QED
        BY <4>1, <4>2, <4>4
    <3>3. CASE \E h \in 1 .. N : i = M + h
      <4>1. PICK h \in 1 .. N : i = M + h
        BY <3>3
      <4> DEFINE old == q[h].kids
                 kids == new[i].kids
      <4>2. /\ kids = [k \in DOMAIN old |-> old[k] + M] /\ new[i].message = q[h].message
            /\ h \in DOMAIN q
        BY <1>2, <1>3, <4>1
      <4>3. old \in Seq(Nat) /\ DOMAIN old = 1 .. Len(old) /\ Len(old) \in Nat
        BY <1>1, <4>2, LinksOf
      <4>4. Len(kids) = Len(old) /\ old # <<>>
        <5> HIDE DEF old
        <5>1. DOMAIN kids = 1 .. Len(old)
          BY <4>2, <4>3
        <5>2. Len(kids) = Len(old)
          BY <4>2, <4>3
        <5>3. kids # <<>>
          BY <2>4
        <5> HIDE DEF kids
        <5> QED
          BY <4>2, <5>2, <5>3
      <4>5. Len(old) \in DOMAIN old
        BY <4>3, <4>4
      <4>6. Last(kids) = Last(old) + M /\ Last(old) = old[Len(old)]
        <5> HIDE DEF old, kids
        <5> QED
          BY <4>2, <4>4, <4>5 DEF Last
      <4>7. Last(old) \in 1 .. N
        <5>1. old[Len(old)] \in h + 1 .. N
          BY <1>8, <4>5
        <5> QED
          BY <1>2, <4>6, <5>1
      <4>8. Last(kids) = M + Last(old)
        BY <1>2, <4>6, <4>7
      <4>9. new[Last(kids)].message = q[Last(old)].message
        BY <1>3, <4>7, <4>8
      <4>10. IsSuffix(q[Last(old)].message, q[h].message)
        BY <1>1, <4>2, <4>4, Zenon DEF Says
      <4> QED
        BY <4>2, <4>9, <4>10
    <3> QED
      BY <1>5, <3>1, <3>2, <3>3
  <2> QED
    BY <1>3, <2>1, <2>3, <2>4 DEF Says
<1>14. /\ Arena(new) /\ new # <<>> /\ new[1].code = 0
       /\ Codes1(new) = Codes1(r) \cup Codes1(q)
  BY <1>3, <1>10, <1>11, <1>12, <1>13 DEF Arena
<1> QED
  BY <1>14 DEF new

-----------------------------------------------------------------------------
(* The records that are made: by a raise, a lookup, a join.                *)

LEMMA ReportArena ==
  ASSUME NEW m \in Messages, NEW code \in Nat, code \in {0, OwnCode(m)}
  PROVE  LET r == Report(m, code)
         IN  /\ Arena(r) /\ r # <<>> /\ r[1].message = m /\ r[1].code = code
             /\ Codes1(r) = {code} \ {0}
<1> DEFINE link == [message |-> m, code |-> code, kids |-> <<>>]
           r == <<link>>
<1>1. link \in Link /\ link.message = m /\ link.code = code /\ link.kids = <<>>
  BY DEF Link
<1> HIDE DEF link
<1>2. r \in Seq(Link) /\ Len(r) = 1 /\ DOMAIN r = {1} /\ r[1] = link
  BY <1>1
<1> HIDE DEF r
<1>3. DOMAIN <<>> = {}
  OBVIOUS
<1>4. \A i \in DOMAIN r : r[i].message = m /\ r[i].code = code /\ r[i].kids = <<>>
  BY <1>1, <1>2
<1>5. Shape(r)
  <2>1. 2 .. Len(r) = {}
    BY <1>2
  <2> QED
    BY <1>3, <1>4, <2>1, Zenon DEF Shape
<1>6. Says(r)
  BY <1>3, <1>4, Zenon DEF Says
<1>7. Codes1(r) = {code} \ {0}
  BY <1>2, <1>4 DEF Codes1
<1>8. Arena(r)
  BY <1>2, <1>5, <1>6, Zenon DEF Arena
<1>9. r # <<>> /\ r[1].message = m /\ r[1].code = code
  <2>1. r # <<>>
    BY <1>2, <1>3, Zenon
  <2> QED
    BY <1>1, <1>2, <2>1, Zenon
<1> QED
  BY <1>7, <1>8, <1>9 DEF Report, r, link

\* locate answers with a link that has the message, and the root is the first.
LEMMA LocateIs ==
  ASSUME NEW r \in Seq(Link), NEW m
  PROVE  LET index == locate(r, m)
         IN  /\ index \in Nat
             /\ index > 0 <=> index \in DOMAIN r
             /\ index \in DOMAIN r => r[index].message = m
             /\ r # <<>> /\ r[1].message = m => index = 1
<1> DEFINE index == locate(r, m)
           found == {i \in DOMAIN r : r[i].message = m}
<1>1. DOMAIN r = 1 .. Len(r) /\ Len(r) \in Nat
  OBVIOUS
<1>2. CASE found = {}
  <2>1. index = 0
    BY <1>2 DEF locate
  <2>2. 0 \notin DOMAIN r
    BY <1>1
  <2>3. r # <<>> => 1 \in DOMAIN r
    BY <1>1
  <2> QED
    BY <1>2, <2>1, <2>2, <2>3
<1>3. CASE found # {}
  <2>1. found \in SUBSET Nat
    BY <1>1
  <2>2. \E x \in found : \A y \in found : x <= y
    BY <1>3, <2>1, LeastNatural, Zenon
  <2>3. Min(found) \in found /\ \A y \in found : Min(found) <= y
    BY <2>2, Zenon DEF Min
  <2>4. index = Min(found)
    BY <1>3 DEF locate
  <2>5. index \in DOMAIN r /\ r[index].message = m /\ index \in Nat /\ index > 0
    BY <1>1, <2>3, <2>4
  <2>6. ASSUME r # <<>>, r[1].message = m PROVE index = 1
    <3>1. 1 \in found
      BY <1>1, <2>6
    <3> HIDE DEF index, found
    <3>2. index <= 1
      BY <2>3, <2>4, <3>1
    <3> QED
      BY <2>5, <3>2
  <2> QED
    BY <2>5, <2>6
<1> QED
  BY <1>2, <1>3

\* What is taken out of a slot for an error matches what the error did.
LEMMA ExtractArena ==
  ASSUME NEW t, Arena(slot[t]), NEW e \in Messages
  PROVE  LET r == _extract(t, e)
         IN  /\ Arena(r) /\ r # <<>> /\ r[1].message = e
             /\ Codes1(r) = Codes(t, e)
<1> DEFINE index == locate(slot[t], e)
<1>1. slot[t] \in Seq(Link)
  BY DEF Arena
<1>2. index \in Nat /\ (index > 0 <=> index \in DOMAIN slot[t])
      /\ (index \in DOMAIN slot[t] => slot[t][index].message = e)
  BY <1>1, LocateIs
<1>3. CASE index > 0
  <2>1. index \in DOMAIN slot[t] /\ slot[t][index].message = e
    BY <1>2, <1>3
  <2>2. _extract(t, e) = subtree(slot[t], index) /\ Codes(t, e) = CodesUnder(slot[t], index)
    BY <1>3 DEF _extract, Codes
  <2> HIDE DEF index
  <2>3. LET sub == subtree(slot[t], index)
        IN  /\ Arena(sub) /\ sub # <<>>
            /\ sub[1].message = slot[t][index].message /\ sub[1].code = slot[t][index].code
            /\ Codes1(sub) = CodesUnder(slot[t], index)
    BY <2>1, SubtreeArena
  <2> QED
    BY <2>1, <2>2, <2>3
<1>4. CASE ~(index > 0)
  <2>1. _extract(t, e) = Report(e, 0) /\ Codes(t, e) = {}
    BY <1>4 DEF _extract, Codes
  <2>2. {0} \ {0} = {} /\ 0 \in Nat
    OBVIOUS
  <2> QED
    BY <2>1, <2>2, ReportArena
<1> QED
  BY <1>3, <1>4

\* The records a join goes through: the root has no code of its own.
Made == {r \in Seq(Link) : Arena(r) /\ r # <<>> /\ r[1].code = 0}

Joins(reports, n, l) ==
  l = [k \in 0 .. n |-> IF k = 0 THEN Report(<<>>, 0)
                        ELSE absorbing_record(l[k - 1], reports[k], Newline)]

\* A join is a record like the others, and matches what each of its causes did.
LEMMA JoinedArena ==
  ASSUME NEW reports, Len(reports) \in Nat,
         \A n \in 1 .. Len(reports) : Arena(reports[n]) /\ reports[n] # <<>>
  PROVE  LET r == Joined(reports)
         IN  /\ Arena(r) /\ r # <<>>
             /\ Codes1(r) = UNION {Codes1(reports[n]) : n \in 1 .. Len(reports)}
<1> DEFINE L == Len(reports)
           base == Report(<<>>, 0)
           next == [p \in Nat \X Made |-> IF p[1] \in 1 .. L
                                          THEN absorbing_record(p[2], reports[p[1]], Newline)
                                          ELSE p[2]]
<1>1. base \in Made /\ Codes1(base) = {}
  <2>1. <<>> \in Messages /\ 0 \in Nat /\ {0} \ {0} = {}
    BY DEF Messages
  <2> HIDE DEF base
  <2>2. Arena(base) /\ base # <<>> /\ base[1].code = 0 /\ Codes1(base) = {}
    BY <2>1, ReportArena DEF base
  <2> QED
    BY <2>2 DEF Made, Arena
<1>2. ASSUME NEW r \in Made, NEW n \in 1 .. L
      PROVE  LET new == absorbing_record(r, reports[n], Newline)
             IN  new \in Made /\ Codes1(new) = Codes1(r) \cup Codes1(reports[n])
  <2>1. Newline \in Texts
    BY DEF Texts
  <2>2. Arena(r) /\ r # <<>> /\ r[1].code = 0
    BY DEF Made
  <2> DEFINE new == absorbing_record(r, reports[n], Newline)
  <2>3. /\ Arena(new) /\ new # <<>> /\ new[1].code = 0
        /\ Codes1(new) = Codes1(r) \cup Codes1(reports[n])
    BY <2>1, <2>2, AbsorbArena
  <2> HIDE DEF new
  <2>4. new \in Made /\ Codes1(new) = Codes1(r) \cup Codes1(reports[n])
    BY <2>3 DEF Made, Arena
  <2> QED
    BY <2>4 DEF new
<1>3. next \in [Nat \X Made -> Made]
  <2>1. \A p \in Nat \X Made : p[1] \in Nat /\ p[2] \in Made
    OBVIOUS
  <2> QED
    BY <1>2, <2>1, Zenon
<1>4. PICK g \in [0 .. L -> Made] : Rounds(base, next, L, g)
  <2> HIDE DEF base, next
  <2> QED
    BY <1>1, <1>3, RoundsAre
<1>5. Joins(reports, L, g)
  <2>1. ASSUME NEW k \in 0 .. L, k # 0
        PROVE  next[<<k, g[k - 1]>>] = absorbing_record(g[k - 1], reports[k], Newline)
    <3>1. k \in 1 .. L /\ k \in Nat /\ k - 1 \in 0 .. L
      BY <2>1
    <3>2. <<k, g[k - 1]>> \in Nat \X Made
      BY <3>1
    <3> QED
      BY <3>1, <3>2
  <2> HIDE DEF next
  <2>2. g = [k \in 0 .. L |-> IF k = 0 THEN base ELSE absorbing_record(g[k - 1], reports[k], Newline)]
    BY <1>4, <2>1, Zenon DEF Rounds
  <2> QED
    BY <2>2, Zenon DEF Joins
<1> DEFINE l == CHOOSE l : Joins(reports, L, l)
<1>6. Joins(reports, L, l)
  BY <1>5, Zenon
<1>7. Joined(reports) = l[L]
  BY Zenon DEF Joined, Joins
<1> HIDE DEF l, next, base
<1> DEFINE Upto(n) == UNION {Codes1(reports[m]) : m \in 1 .. n}
           T == {n \in Nat : n \in 0 .. L => l[n] \in Made /\ Codes1(l[n]) = Upto(n)}
<1>8. 0 \in T
  <2>1. 0 \in 0 .. L /\ Upto(0) = {}
    OBVIOUS
  <2>2. l[0] = base
    BY <1>6, <2>1, Zenon DEF Joins, base
  <2> QED
    BY <1>1, <2>1, <2>2
<1>9. ASSUME NEW n \in 0 .. L - 1, n \in T PROVE n + 1 \in T
  <2>1. n \in 0 .. L /\ n + 1 \in 0 .. L /\ n + 1 # 0 /\ (n + 1) - 1 = n /\ n + 1 \in Nat /\ n + 1 \in 1 .. L
    OBVIOUS
  <2>2. l[n] \in Made /\ Codes1(l[n]) = Upto(n)
    BY <1>9, <2>1
  <2>3. l[n + 1] = absorbing_record(l[n], reports[n + 1], Newline)
    BY <1>6, <2>1, Zenon DEF Joins
  <2>4. l[n + 1] \in Made /\ Codes1(l[n + 1]) = Codes1(l[n]) \cup Codes1(reports[n + 1])
    BY <1>2, <2>1, <2>2, <2>3
  <2>5. 1 .. n + 1 = (1 .. n) \cup {n + 1}
    BY <2>1
  <2>6. Upto(n + 1) = Upto(n) \cup Codes1(reports[n + 1])
    BY <2>5, Zenon
  <2> HIDE DEF Upto
  <2> QED
    BY <2>1, <2>2, <2>4, <2>6
<1>10. T \in SUBSET Nat /\ L \in 0 .. L
  OBVIOUS
<1>11. L \in T
  <2> HIDE DEF T
  <2> QED
    BY <1>8, <1>9, <1>10, UpTo
<1>12. l[L] \in Made /\ Codes1(l[L]) = Upto(L)
  BY <1>10, <1>11
<1> QED
  BY <1>7, <1>12 DEF Made

-----------------------------------------------------------------------------
(***************************************************************************)
(* The inductive invariant: every record that a slot or a captured error   *)
(* has is one of the code's making, whatever was raised, wrapped, joined,  *)
(* cut out and handed on before.                                           *)
(***************************************************************************)
SlotInv == slot \in [Thread -> Seq(Link)] /\ \A t \in Thread : Arena(slot[t])
HeldInv == held \in [Thread -> SUBSET Messages]
ValuesInv == \A v \in values : Arena(v) /\ v # <<>>

RecordsInv == SlotInv /\ HeldInv /\ ValuesInv

\* What may be installed.
LEMMA ErrorKeeps ==
  ASSUME RecordsInv, NEW t \in Thread, NEW record, Arena(record), record # <<>>, error(t, record)
  PROVE  RecordsInv'
<1>1. SlotInv'
  <2>1. record \in Seq(Link)
    BY DEF Arena
  <2>2. CASE slot' = [slot EXCEPT ![t] = record]
    BY <2>1, <2>2 DEF RecordsInv, SlotInv
  <2>3. CASE slot' = slot
    BY <2>3 DEF RecordsInv, SlotInv
  <2> QED
    BY <2>2, <2>3 DEF error
<1>2. HeldInv'
  <2>1. record[1].message \in Messages
    BY LinksOf DEF Arena
  <2>2. held' = [held EXCEPT ![t] = @ \cup {record[1].message}]
    BY DEF error
  <2> QED
    BY <2>1, <2>2 DEF RecordsInv, HeldInv
<1>3. ValuesInv'
  BY DEF error, RecordsInv, ValuesInv
<1> QED
  BY <1>1, <1>2, <1>3 DEF RecordsInv

\* A text and a context are messages, and the code of a text is its own.
LEMMA TextsAre ==
  /\ \A text \in Ours \cup Theirs : <<text>> \in Messages
  /\ \A c \in Contexts : c \in Messages
  /\ Colon \in Texts /\ Newline \in Texts
  /\ \A text \in Ours : CodeOf[text] \in Nat /\ OwnCode(<<text>>) = CodeOf[text]
<1>1. \A text \in Ours \cup Theirs : <<text>> \in Messages
  BY DEF Messages, Texts
<1>2. ASSUME NEW c \in Contexts PROVE c \in Messages
  <2>1. c \in Seq(Range(c)) /\ Range(c) \subseteq Texts
    BY ContextAssumption DEF Texts
  <2>2. \A i \in DOMAIN c : c[i] \in Texts
    BY <2>1 DEF Range
  <2> QED
    BY <2>1, <2>2, SequenceOf DEF Messages
<1>3. Colon \in Texts /\ Newline \in Texts
  BY DEF Texts
<1>4. \A text \in Ours : CodeOf[text] \in Nat /\ OwnCode(<<text>>) = CodeOf[text]
  BY CodeAssumption DEF OwnCode
<1> QED
  BY <1>1, <1>2, <1>3, <1>4

\* The record wrap installs.
LEMMA WrapArena ==
  ASSUME NEW t, Arena(slot[t]), NEW e \in Messages, NEW context \in Contexts
  PROVE  LET r == absorbing_record(Report(context, 0), _extract(t, e), Colon)
         IN  Arena(r) /\ r # <<>> /\ Codes1(r) = Codes(t, e)
<1> DEFINE base == Report(context, 0)
           cause == _extract(t, e)
           r == absorbing_record(base, cause, Colon)
<1>1. Arena(base) /\ base # <<>> /\ base[1].code = 0 /\ Codes1(base) = {}
  <2>1. 0 \in Nat /\ {0} \ {0} = {} /\ context \in Messages
    BY TextsAre
  <2> QED
    BY <2>1, ReportArena
<1>2. Arena(cause) /\ cause # <<>> /\ Codes1(cause) = Codes(t, e)
  BY ExtractArena
<1> HIDE DEF base, cause
<1>3. Colon \in Texts
  BY TextsAre
<1>4. Arena(r) /\ r # <<>> /\ Codes1(r) = Codes1(base) \cup Codes1(cause)
  BY <1>1, <1>2, <1>3, AbsorbArena
<1> HIDE DEF r
<1>5. Arena(r) /\ r # <<>> /\ Codes1(r) = Codes(t, e)
  BY <1>1, <1>2, <1>4
<1> QED
  BY <1>5 DEF base, cause, r

\* The arguments of a join are a sequence.
LEMMA ListsAre ==
  ASSUME NEW S, NEW s \in Lists(S)
  PROVE  Len(s) \in Nat /\ s \in Seq(S) /\ DOMAIN s = 1 .. Len(s) /\ Range(s) \subseteq S
         /\ Range(s) = {s[n] : n \in 1 .. Len(s)}
<1>1. s \in Seq(S)
  <2>1. CASE s \in {<<a>> : a \in S}
    <3>1. PICK a \in S : s = <<a>>
      BY <2>1
    <3>2. <<a>> \in Seq(S)
      OBVIOUS
    <3> QED
      BY <3>1, <3>2
  <2>2. CASE s \in S \X S
    <3>1. PICK a \in S, b \in S : s = <<a, b>>
      BY <2>2
    <3>2. <<a, b>> \in Seq(S)
      OBVIOUS
    <3> QED
      BY <3>1, <3>2
  <2> QED
    BY <2>1, <2>2 DEF Lists
<1>2. DOMAIN s = 1 .. Len(s) /\ Len(s) \in Nat /\ \A i \in DOMAIN s : s[i] \in S
  BY <1>1
<1> QED
  BY <1>1, <1>2 DEF Range

LEMMA RecordsInitInv == RecordsInit => RecordsInv
<1> SUFFICES ASSUME RecordsInit PROVE RecordsInv
  OBVIOUS
<1>1. Arena(<<>>)
  <2>1. <<>> \in Seq(Link) /\ DOMAIN <<>> = {} /\ 2 .. Len(<<>>) = {}
    OBVIOUS
  <2> QED
    BY <2>1, Zenon DEF Arena, Shape, Says
<1>2. SlotInv
  BY <1>1 DEF RecordsInit, SlotInv
<1>3. HeldInv /\ ValuesInv
  BY DEF RecordsInit, HeldInv, ValuesInv
<1> QED
  BY <1>2, <1>3 DEF RecordsInv

LEMMA NewInv ==
  ASSUME RecordsInv, NEW t \in Thread, NEW text \in Ours, New(t, text)
  PROVE  RecordsInv'
<1> DEFINE record == Report(<<text>>, CodeOf[text])
<1>1. Arena(record) /\ record # <<>>
  BY TextsAre, ReportArena
<1>2. error(t, record)
  BY DEF New
<1> QED
  BY <1>1, <1>2, ErrorKeeps

LEMMA ForeignInv ==
  ASSUME RecordsInv, NEW t \in Thread, NEW text \in Theirs, Foreign(t, text)
  PROVE  RecordsInv'
<1>1. HeldInv'
  BY TextsAre DEF Foreign, RecordsInv, HeldInv
<1>2. SlotInv' /\ ValuesInv'
  BY DEF Foreign, RecordsInv, SlotInv, ValuesInv
<1> QED
  BY <1>1, <1>2 DEF RecordsInv

LEMMA wrapInv ==
  ASSUME RecordsInv, NEW t \in Thread, NEW e, NEW context \in Contexts, wrap(t, e, context)
  PROVE  RecordsInv'
<1> DEFINE record == absorbing_record(Report(context, 0), _extract(t, e), Colon)
<1>1. e \in Messages /\ Arena(slot[t])
  BY DEF wrap, RecordsInv, SlotInv, HeldInv
<1>2. Arena(record) /\ record # <<>>
  BY <1>1, WrapArena
<1>3. error(t, record)
  BY DEF wrap
<1> HIDE DEF record
<1> QED
  BY <1>2, <1>3, ErrorKeeps

LEMMA JoinInv ==
  ASSUME RecordsInv, NEW t \in Thread, NEW errs \in Lists(held[t]), Join(t, errs)
  PROVE  RecordsInv'
<1> DEFINE reports == [n \in DOMAIN errs |-> _extract(t, errs[n])]
           record == Joined(reports)
<1>1. Len(errs) \in Nat /\ DOMAIN errs = 1 .. Len(errs) /\ errs \in Seq(held[t])
  BY ListsAre
<1>2. Len(reports) = Len(errs)
  BY <1>1
<1>3. \A n \in 1 .. Len(errs) : Arena(reports[n]) /\ reports[n] # <<>>
  <2>1. \A n \in 1 .. Len(errs) : errs[n] \in Messages
    BY <1>1 DEF RecordsInv, HeldInv
  <2>2. Arena(slot[t])
    BY DEF RecordsInv, SlotInv
  <2> QED
    BY <1>1, <2>1, <2>2, ExtractArena
<1> HIDE DEF reports
<1>4. Arena(record) /\ record # <<>>
  BY <1>1, <1>2, <1>3, JoinedArena
<1>5. error(t, record)
  BY DEF Join, reports
<1> HIDE DEF record
<1> QED
  BY <1>4, <1>5, ErrorKeeps

\* The record a join of captured errors installs.
LEMMA JoinValuesArena ==
  ASSUME ValuesInv, NEW vals \in Lists(values)
  PROVE  /\ Arena(Joined(vals)) /\ Joined(vals) # <<>>
         /\ Codes1(Joined(vals)) = UNION {CodesUnder(v, 1) : v \in Range(vals)}
<1>1. /\ Len(vals) \in Nat /\ Range(vals) \subseteq values
      /\ Range(vals) = {vals[n] : n \in 1 .. Len(vals)}
  BY ListsAre
<1>2. \A n \in 1 .. Len(vals) : Arena(vals[n]) /\ vals[n] # <<>>
  BY <1>1 DEF ValuesInv
<1>3. /\ Arena(Joined(vals)) /\ Joined(vals) # <<>>
      /\ Codes1(Joined(vals)) = UNION {Codes1(vals[n]) : n \in 1 .. Len(vals)}
  BY <1>1, <1>2, JoinedArena
<1>4. \A n \in 1 .. Len(vals) : Codes1(vals[n]) = CodesUnder(vals[n], 1)
  BY <1>2, CodesOfWhole
<1>5. UNION {Codes1(vals[n]) : n \in 1 .. Len(vals)} = UNION {CodesUnder(v, 1) : v \in Range(vals)}
  <2>1. {Codes1(vals[n]) : n \in 1 .. Len(vals)} = {CodesUnder(vals[n], 1) : n \in 1 .. Len(vals)}
    BY <1>4, Zenon
  <2>2. {CodesUnder(vals[n], 1) : n \in 1 .. Len(vals)} = {CodesUnder(v, 1) : v \in {vals[n] : n \in 1 .. Len(vals)}}
    BY Zenon
  <2> QED
    BY <1>1, <2>1, <2>2, Zenon
<1> QED
  BY <1>3, <1>5, Zenon

LEMMA JoinValuesInv ==
  ASSUME RecordsInv, NEW t \in Thread, NEW vals \in Lists(values), JoinValues(t, vals)
  PROVE  RecordsInv'
<1>1. Arena(Joined(vals)) /\ Joined(vals) # <<>>
  BY JoinValuesArena DEF RecordsInv
<1>2. error(t, Joined(vals))
  BY DEF JoinValues
<1> QED
  BY <1>1, <1>2, ErrorKeeps

LEMMA captureInv ==
  ASSUME RecordsInv, NEW t \in Thread, NEW e, capture(t, e)
  PROVE  RecordsInv'
<1> DEFINE r == _extract(t, e)
<1>1. Arena(slot[t]) /\ e \in Messages
  BY DEF capture, RecordsInv, SlotInv, HeldInv
<1>2. Arena(r) /\ r # <<>>
  BY <1>1, ExtractArena
<1>3. values' = values \cup {r} /\ slot' = slot /\ held' = held
  BY DEF capture
<1> HIDE DEF r
<1>4. ValuesInv'
  BY <1>2, <1>3 DEF RecordsInv, ValuesInv
<1>5. SlotInv' /\ HeldInv'
  BY <1>3 DEF RecordsInv, SlotInv, HeldInv
<1> QED
  BY <1>4, <1>5 DEF RecordsInv

LEMMA ReraiseInv ==
  ASSUME RecordsInv, NEW t \in Thread, NEW v \in values, Reraise(t, v)
  PROVE  RecordsInv'
<1>1. Arena(v) /\ v # <<>>
  BY DEF RecordsInv, ValuesInv
<1>2. error(t, v)
  BY DEF Reraise
<1> QED
  BY <1>1, <1>2, ErrorKeeps

LEMMA causesInv ==
  ASSUME RecordsInv, NEW t \in Thread, NEW e, causes(t, e)
  PROVE  RecordsInv'
<1> DEFINE index == locate(slot[t], e)
           kids == IF index = 0 THEN <<>> ELSE slot[t][index].kids
<1>1. held' = [held EXCEPT ![t] = @ \cup {slot[t][kids[k]].message : k \in DOMAIN kids}]
  BY DEF causes
<1>2. slot[t] \in Seq(Link) /\ Shape(slot[t])
  BY DEF RecordsInv, SlotInv, Arena
<1>3. ASSUME NEW k \in DOMAIN kids PROVE slot[t][kids[k]].message \in Messages
  <2>1. index # 0
    BY <1>3
  <2>2. index \in DOMAIN slot[t]
    <3>1. index \in Nat /\ (index > 0 <=> index \in DOMAIN slot[t])
      BY <1>2, LocateIs
    <3> HIDE DEF index
    <3> QED
      BY <2>1, <3>1
  <2> HIDE DEF index
  <2>3. k \in DOMAIN slot[t][index].kids /\ kids[k] = slot[t][index].kids[k]
    BY <1>3, <2>1
  <2>4. kids[k] \in DOMAIN slot[t]
    BY <1>2, <2>2, <2>3, LinksOf
  <2> QED
    BY <1>2, <2>4, LinksOf
<1> HIDE DEF kids
<1>4. HeldInv'
  BY <1>1, <1>3 DEF RecordsInv, HeldInv
<1>5. SlotInv' /\ ValuesInv'
  BY DEF causes, RecordsInv, SlotInv, ValuesInv
<1> QED
  BY <1>4, <1>5 DEF RecordsInv

LEMMA ValueCausesInv ==
  ASSUME RecordsInv, NEW v \in values, ValueCauses(v)
  PROVE  RecordsInv'
<1>1. Arena(v) /\ v # <<>> /\ v \in Seq(Link) /\ Shape(v)
  BY DEF RecordsInv, ValuesInv, Arena
<1>2. 1 \in DOMAIN v
  BY <1>1
<1>3. ASSUME NEW k \in DOMAIN v[1].kids
      PROVE  Arena(subtree(v, v[1].kids[k])) /\ subtree(v, v[1].kids[k]) # <<>>
  <2>1. v[1].kids[k] \in DOMAIN v
    BY <1>1, <1>2, LinksOf
  <2> QED
    BY <1>1, <2>1, SubtreeArena
<1>4. values' = values \cup {subtree(v, v[1].kids[k]) : k \in DOMAIN v[1].kids}
  BY DEF ValueCauses
<1>5. ValuesInv'
  BY <1>3, <1>4 DEF RecordsInv, ValuesInv
<1>6. SlotInv' /\ HeldInv'
  BY DEF ValueCauses, RecordsInv, SlotInv, HeldInv
<1> QED
  BY <1>5, <1>6 DEF RecordsInv

LEMMA DropErrorInv ==
  ASSUME RecordsInv, NEW t \in Thread, NEW e, DropError(t, e)
  PROVE  RecordsInv'
<1>1. HeldInv'
  BY DEF DropError, RecordsInv, HeldInv
<1>2. SlotInv' /\ ValuesInv'
  BY DEF DropError, RecordsInv, SlotInv, ValuesInv
<1> QED
  BY <1>1, <1>2 DEF RecordsInv

LEMMA DropValueInv ==
  ASSUME RecordsInv, NEW v, DropValue(v)
  PROVE  RecordsInv'
BY DEF DropValue, RecordsInv, SlotInv, HeldInv, ValuesInv

LEMMA HandInv ==
  ASSUME RecordsInv, NEW t \in Thread, NEW u \in Thread, NEW e, Hand(t, u, e)
  PROVE  RecordsInv'
<1>1. HeldInv'
  <2>1. e \in Messages /\ u # t
    BY DEF Hand, RecordsInv, HeldInv
  <2>2. held' = [held EXCEPT ![t] = @ \ {e}, ![u] = @ \cup {e}]
    BY DEF Hand
  <2> QED
    BY <2>1, <2>2 DEF RecordsInv, HeldInv
<1>2. SlotInv' /\ ValuesInv'
  BY DEF Hand, RecordsInv, SlotInv, ValuesInv
<1> QED
  BY <1>1, <1>2 DEF RecordsInv

LEMMA RecordsStepInv == RecordsInv /\ [RecordsNext]_recordVars => RecordsInv'
<1> SUFFICES ASSUME RecordsInv, [RecordsNext]_recordVars PROVE RecordsInv'
  OBVIOUS
<1>1. CASE UNCHANGED recordVars
  BY <1>1 DEF recordVars, RecordsInv, SlotInv, HeldInv, ValuesInv
<1>2. ASSUME NEW t \in Thread, NEW text \in Ours, New(t, text) PROVE RecordsInv'
  BY <1>2, NewInv
<1>3. ASSUME NEW t \in Thread, NEW text \in Theirs, Foreign(t, text) PROVE RecordsInv'
  BY <1>3, ForeignInv
<1>4. ASSUME NEW t \in Thread, NEW e \in held[t],
             \/ \E context \in Contexts : wrap(t, e, context)
             \/ capture(t, e)
             \/ causes(t, e)
             \/ DropError(t, e)
             \/ \E u \in Thread : Hand(t, u, e)
      PROVE  RecordsInv'
  BY <1>4, wrapInv, captureInv, causesInv, DropErrorInv, HandInv
<1>5. ASSUME NEW t \in Thread, NEW errs \in Lists(held[t]), Join(t, errs) PROVE RecordsInv'
  BY <1>5, JoinInv
<1>6. ASSUME NEW t \in Thread, NEW vals \in Lists(values), JoinValues(t, vals) PROVE RecordsInv'
  BY <1>6, JoinValuesInv
<1>7. ASSUME NEW t \in Thread, NEW v \in values, Reraise(t, v) PROVE RecordsInv'
  BY <1>7, ReraiseInv
<1>8. ASSUME NEW v \in values, ValueCauses(v) \/ DropValue(v) PROVE RecordsInv'
  BY <1>8, ValueCausesInv, DropValueInv
<1> QED
  BY <1>1, <1>2, <1>3, <1>4, <1>5, <1>6, <1>7, <1>8 DEF RecordsNext

\* Every state the operations reach has only such records.
THEOREM RecordsInductive == RecordsSpec => []RecordsInv
<1> QED
  BY RecordsInitInv, RecordsStepInv, PTL DEF RecordsSpec

-----------------------------------------------------------------------------
(***************************************************************************)
(* Every record is one tree with the error at its root.                    *)
(***************************************************************************)
THEOREM RecordsStayTrees == RecordsSpec => []RecordsAreTrees
<1>1. RecordsInv => RecordsAreTrees
  <2> SUFFICES ASSUME RecordsInv, NEW r \in Records PROVE IsTree(r)
    BY DEF RecordsAreTrees
  <2>1. Arena(r)
    BY DEF Records, Range, RecordsInv, SlotInv, ValuesInv
  <2> QED
    BY <2>1, ArenaIsTree
<1> QED
  BY <1>1, RecordsInductive, PTL

(***************************************************************************)
(* An error answers with what was said of it or with nothing.              *)
(***************************************************************************)
THEOREM AnswersStayTheirOwn == RecordsSpec => []AnswersAreItsOwn
<1>1. RecordsInv => AnswersAreItsOwn
  <2> SUFFICES ASSUME RecordsInv, NEW t \in Thread, NEW e \in held[t], locate(slot[t], e) > 0
               PROVE  /\ slot[t][locate(slot[t], e)].code \in {0, OwnCode(e)}
                      /\ Codes(t, e) \subseteq InnerCodes(e)
    BY DEF AnswersAreItsOwn
  <2> DEFINE index == locate(slot[t], e)
  <2>1. Arena(slot[t]) /\ slot[t] \in Seq(Link) /\ Says(slot[t]) /\ e \in Messages
    BY DEF RecordsInv, SlotInv, HeldInv, Arena
  <2>2. index \in DOMAIN slot[t] /\ slot[t][index].message = e
    BY <2>1, LocateIs
  <2>3. slot[t][index].code \in {0, OwnCode(e)}
    <3> HIDE DEF index
    <3> QED
      BY <2>1, <2>2 DEF Says
  <2> DEFINE r == _extract(t, e)
  <2>4. Arena(r) /\ r # <<>> /\ r[1].message = e /\ Codes1(r) = Codes(t, e)
    BY <2>1, ExtractArena
  <2>5. Codes1(r) \subseteq InnerCodes(r[1].message)
    BY <2>4, RootSaysAll
  <2>6. Codes(t, e) \subseteq InnerCodes(e)
    BY <2>4, <2>5, Zenon
  <2> QED
    BY <2>3, <2>6
<1> QED
  BY <1>1, RecordsInductive, PTL

(***************************************************************************)
(* Wrapping keeps the chain.                                               *)
(***************************************************************************)
THEOREM WrapsKeepTheChain == RecordsSpec => WrapKeepsChain
<1>1. RecordsInv =>
        [\A t \in Thread : Installed(t) =>
           \A e \in held[t], context \in Contexts :
             wrap(t, e, context) => CodesUnder(slot'[t], 1) = Codes(t, e)]_recordVars
  <2> SUFFICES ASSUME RecordsInv, NEW t \in Thread, Installed(t),
                      NEW e \in held[t], NEW context \in Contexts, wrap(t, e, context)
               PROVE  CodesUnder(slot'[t], 1) = Codes(t, e)
    OBVIOUS
  <2> DEFINE r == absorbing_record(Report(context, 0), _extract(t, e), Colon)
  <2>1. Arena(slot[t]) /\ e \in Messages
    BY DEF RecordsInv, SlotInv, HeldInv
  <2>2. Arena(r) /\ r # <<>> /\ Codes1(r) = Codes(t, e)
    BY <2>1, WrapArena
  <2>3. error(t, r)
    BY DEF wrap
  <2> HIDE DEF r
  <2>4. slot'[t] = r
    BY <2>3 DEF error, Installed, RecordsInv, SlotInv
  <2> QED
    BY <2>2, <2>4, CodesOfWhole
<1> QED
  BY <1>1, RecordsInductive, PTL DEF WrapKeepsChain

(***************************************************************************)
(* A captured error answers for everything the error did, a join of        *)
(* captured errors for everything each of them did, and re-raising gives   *)
(* all of it back.                                                         *)
(***************************************************************************)
THEOREM CapturesLoseNothing == RecordsSpec => CaptureLosesNothing
<1>1. ASSUME RecordsInv, NEW t \in Thread, NEW e \in held[t], capture(t, e)
      PROVE  \E v \in values' : v[1].message = e /\ CodesUnder(v, 1) = Codes(t, e)
  <2> DEFINE r == _extract(t, e)
  <2>1. Arena(slot[t]) /\ e \in Messages
    BY <1>1 DEF RecordsInv, SlotInv, HeldInv
  <2>2. Arena(r) /\ r # <<>> /\ r[1].message = e /\ Codes1(r) = Codes(t, e)
    BY <2>1, ExtractArena
  <2>3. r \in values'
    BY <1>1 DEF capture
  <2> HIDE DEF r
  <2>4. CodesUnder(r, 1) = Codes(t, e)
    BY <2>2, CodesOfWhole
  <2> QED
    BY <2>2, <2>3, <2>4
<1>2. ASSUME RecordsInv, NEW t \in Thread, Installed(t), NEW vals \in Lists(values), JoinValues(t, vals)
      PROVE  CodesUnder(slot'[t], 1) = UNION {CodesUnder(v, 1) : v \in Range(vals)}
  <2> DEFINE r == Joined(vals)
             all == UNION {CodesUnder(v, 1) : v \in Range(vals)}
  <2>1. Arena(r) /\ r # <<>> /\ Codes1(r) = all
    BY <1>2, JoinValuesArena DEF RecordsInv
  <2>2. error(t, r)
    BY <1>2 DEF JoinValues
  <2> HIDE DEF r, all
  <2>3. slot'[t] = r
    BY <1>2, <2>2 DEF error, Installed, RecordsInv, SlotInv
  <2>4. CodesUnder(slot'[t], 1) = all
    BY <2>1, <2>3, CodesOfWhole
  <2> QED
    BY <2>4 DEF all
<1>3. ASSUME RecordsInv, NEW t \in Thread, Installed(t), NEW v \in values, Reraise(t, v)
      PROVE  Codes(t, v[1].message)' = CodesUnder(v, 1)
  <2>1. Arena(v) /\ v # <<>> /\ v \in Seq(Link)
    BY <1>3 DEF RecordsInv, ValuesInv, Arena
  <2>2. slot'[t] = v
    BY <1>3 DEF Reraise, error, Installed, RecordsInv, SlotInv
  <2>3. locate(v, v[1].message) = 1
    BY <2>1, LocateIs
  <2>4. Codes(t, v[1].message)' = LET index == locate(slot'[t], v[1].message)
                                  IN  IF index > 0 THEN CodesUnder(slot'[t], index) ELSE {}
    BY DEF Codes
  <2> QED
    BY <2>2, <2>3, <2>4
<1>4. RecordsInv =>
        [/\ values' # values => \A t \in Thread : \A e \in held[t] :
              capture(t, e) =>
                \E v \in values' : v[1].message = e /\ CodesUnder(v, 1) = Codes(t, e)
         /\ \A t \in Thread : Installed(t) =>
              /\ \A vals \in Lists(values) : JoinValues(t, vals) =>
                   CodesUnder(slot'[t], 1) = UNION {CodesUnder(v, 1) : v \in Range(vals)}
              /\ \A v \in values : Reraise(t, v) =>
                   Codes(t, v[1].message)' = CodesUnder(v, 1)]_recordVars
  BY <1>1, <1>2, <1>3, Zenon
<1> QED
  BY <1>4, RecordsInductive, PTL DEF CaptureLosesNothing

-----------------------------------------------------------------------------
(* The slot of a thread *)

LEMMA InitSlotIInv == SlotInit => SlotIInv
<1> SUFFICES ASSUME SlotInit PROVE SlotIInv
  OBVIOUS
<1>1. SlotTypeOK /\ SlotsHoldRecords
  BY DEF SlotInit, SlotTypeOK, SlotsHoldRecords, Points
<1>2. OneOwner
  BY NoneAssumption DEF SlotInit, OneOwner, Owns
<1>3. Places
  BY DEF SlotInit, Places, Holding, Installing
<1> QED
  BY <1>1, <1>2, <1>3 DEF SlotIInv

(***************************************************************************)
(* One lemma per action: each keeps the invariant.                         *)
(***************************************************************************)
LEMMA InstallKeepsSlot ==
  ASSUME SlotIInv, NEW t \in Pthread, NEW c \in Content, Install(t, c)
  PROVE  SlotIInv'
BY NoneAssumption, ContentAssumption
   DEF Install, Goto, SlotIInv, SlotTypeOK, SlotsHoldRecords, OneOwner, Owns, Places, Points,
       Holding, Installing

LEMMA OnceKeepsSlot == ASSUME SlotIInv, NEW t \in Pthread, Once(t) PROVE SlotIInv'
BY NoneAssumption, ContentAssumption
   DEF Once, Goto, SlotIInv, SlotTypeOK, SlotsHoldRecords, OneOwner, Owns, Places, Points,
       Holding, Installing

LEMMA GetKeepsSlot == ASSUME SlotIInv, NEW t \in Pthread, GetSlot(t) PROVE SlotIInv'
BY NoneAssumption, ContentAssumption
   DEF GetSlot, Goto, SlotIInv, SlotTypeOK, SlotsHoldRecords, OneOwner, Owns, Places, Points,
       Holding, Installing

LEMMA AssignKeepsSlot == ASSUME SlotIInv, NEW t \in Pthread, Assign(t) PROVE SlotIInv'
BY NoneAssumption, ContentAssumption
   DEF Assign, Goto, SlotIInv, SlotTypeOK, SlotsHoldRecords, OneOwner, Owns, Places, Points,
       Holding, Installing

LEMMA MallocKeepsSlot == ASSUME SlotIInv, NEW t \in Pthread, Malloc(t) PROVE SlotIInv'
BY NoneAssumption, ContentAssumption
   DEF Malloc, Goto, SlotIInv, SlotTypeOK, SlotsHoldRecords, OneOwner, Owns, Places, Points,
       Holding, Installing

LEMMA OutOfMemoryKeepsSlot == ASSUME SlotIInv, NEW t \in Pthread, OutOfMemory(t) PROVE SlotIInv'
BY NoneAssumption, ContentAssumption
   DEF OutOfMemory, Goto, SlotIInv, SlotTypeOK, SlotsHoldRecords, OneOwner, Owns, Places, Points,
       Holding, Installing

LEMMA WriteKeepsSlot == ASSUME SlotIInv, NEW t \in Pthread, Write(t) PROVE SlotIInv'
BY NoneAssumption, ContentAssumption
   DEF Write, Goto, SlotIInv, SlotTypeOK, SlotsHoldRecords, OneOwner, Owns, Places, Points,
       Holding, Installing

LEMMA StoreReleaseKeepsSlot == ASSUME SlotIInv, NEW t \in Pthread, StoreRelease(t) PROVE SlotIInv'
BY NoneAssumption, ContentAssumption
   DEF StoreRelease, Goto, SlotIInv, SlotTypeOK, SlotsHoldRecords, OneOwner, Owns, Places, Points,
       Holding, Installing

LEMMA SetKeepsSlot == ASSUME SlotIInv, NEW t \in Pthread, Set(t) PROVE SlotIInv'
BY NoneAssumption, ContentAssumption
   DEF Set, Kept, Goto, SlotIInv, SlotTypeOK, SlotsHoldRecords, OneOwner, Owns, Places, Points,
       Holding, Installing

LEMMA SetNowhereKeepsSlot == ASSUME SlotIInv, NEW t \in Pthread, SetNowhere(t) PROVE SlotIInv'
BY NoneAssumption, ContentAssumption
   DEF SetNowhere, Goto, SlotIInv, SlotTypeOK, SlotsHoldRecords, OneOwner, Owns, Places, Points,
       Holding, Installing

LEMMA ExitKeepsSlot == ASSUME SlotIInv, NEW t \in Pthread, Exit(t) PROVE SlotIInv'
BY NoneAssumption, ContentAssumption
   DEF Exit, Goto, SlotIInv, SlotTypeOK, SlotsHoldRecords, OneOwner, Owns, Places, Points,
       Holding, Installing

LEMMA DisposeKeepsSlot == ASSUME SlotIInv, NEW t \in Pthread, Dispose(t) PROVE SlotIInv'
BY NoneAssumption, ContentAssumption
   DEF Dispose, Goto, SlotIInv, SlotTypeOK, SlotsHoldRecords, OneOwner, Owns, Places, Points,
       Holding, Installing

LEMMA NextSlotIInv == SlotIInv /\ [SlotNext]_slotVars => SlotIInv'
<1> SUFFICES ASSUME SlotIInv, [SlotNext]_slotVars PROVE SlotIInv'
  OBVIOUS
<1>1. ASSUME NEW t \in Pthread, Step(t) PROVE SlotIInv'
  BY <1>1, OnceKeepsSlot, GetKeepsSlot, AssignKeepsSlot, MallocKeepsSlot,
     OutOfMemoryKeepsSlot, WriteKeepsSlot, StoreReleaseKeepsSlot, SetKeepsSlot,
     SetNowhereKeepsSlot, DisposeKeepsSlot DEF Step
<1>2. ASSUME NEW t \in Pthread, Exit(t) PROVE SlotIInv'
  BY <1>2, ExitKeepsSlot
<1>3. ASSUME NEW t \in Pthread, NEW c \in Content, Install(t, c) PROVE SlotIInv'
  BY <1>3, InstallKeepsSlot
<1>4. CASE UNCHANGED slotVars
  BY <1>4 DEF slotVars, SlotIInv, SlotTypeOK, SlotsHoldRecords, OneOwner, Owns, Places
<1> QED
  BY <1>1, <1>2, <1>3, <1>4 DEF SlotNext

(***************************************************************************)
(* Every behaviour of a slot keeps the invariant.                          *)
(***************************************************************************)
THEOREM SlotsInductive == SlotSpec => []SlotIInv
BY InitSlotIInv, NextSlotIInv, PTL DEF SlotSpec

(***************************************************************************)
(* Every allocated block has one owner, and what a thread finds in its     *)
(* slot is a whole record: slot.c and _install neither share, nor free     *)
(* twice, nor leak a block but one that pthread did not take.              *)
(***************************************************************************)
THEOREM BlocksHaveOneOwner == SlotSpec => [](OneOwner /\ SlotsHoldRecords)
<1>1. SlotIInv => OneOwner /\ SlotsHoldRecords
  BY DEF SlotIInv
<1> QED
  BY <1>1, SlotsInductive, PTL
-----------------------------------------------------------------------------
\* The cells and the threads still present, as the refinement reads them.
Cells == [t \in Pthread |-> IF specific[t] = Null THEN Null ELSE heap[specific[t]]]
Present == {t \in Pthread : pc[t] \notin Exiting}

LEMMA InitIsCell == SlotInit => OwnCell!Init
BY DEF SlotInit, OwnCell!Init, Exiting

\* A step of the slot is a step of the cells, or none.
LEMMA StepIsCell == SlotIInv /\ [SlotNext]_slotVars => [OwnCell!Next]_<<Cells, Present>>
<1> SUFFICES ASSUME SlotIInv, [SlotNext]_slotVars PROVE [OwnCell!Next]_<<Cells, Present>>
  OBVIOUS
<1>0. /\ specific \in [Pthread -> Address \cup {Null}] /\ pc \in [Pthread -> Points]
      /\ heap \in [Address -> Content \cup {"free", "raw"}]
  BY DEF SlotIInv, SlotTypeOK
<1>1. ASSUME NEW t \in Pthread,
             Once(t) \/ GetSlot(t) \/ OutOfMemory(t) \/ StoreRelease(t) \/ SetNowhere(t)
             \/ \E c \in Content : Install(t, c)
      PROVE  UNCHANGED <<Cells, Present>>
  <2>1. UNCHANGED <<specific, heap>> /\ \E to \in Points \ Exiting :
          pc[t] \notin Exiting /\ pc' = [pc EXCEPT ![t] = to]
    BY <1>1 DEF Once, GetSlot, OutOfMemory, StoreRelease, SetNowhere, Install, Goto, Points,
                 Exiting
  <2> QED
    BY <1>0, <2>1 DEF Cells, Present
<1>2. ASSUME NEW t \in Pthread, Malloc(t) PROVE UNCHANGED <<Cells, Present>>
  <2>1. PICK b \in Address : heap[b] = "free" /\ heap' = [heap EXCEPT ![b] = "raw"]
    BY <1>2 DEF Malloc
  <2>2. \A u \in Pthread : specific[u] # b
    BY <2>1 DEF SlotIInv, OneOwner, Owns
  <2>3. Cells' = Cells
    BY <1>0, <1>2, <2>1, <2>2 DEF Cells, Malloc
  <2>4. Present' = Present
    BY <1>0, <1>2 DEF Present, Malloc, Goto, Exiting
  <2> QED
    BY <2>3, <2>4
<1>3. ASSUME NEW t \in Pthread, Write(t) \/ Dispose(t) PROVE UNCHANGED <<Cells, Present>>
  <2>1. block[t] \in Address /\ specific' = specific
        /\ (heap' = heap \/ \E x : heap' = [heap EXCEPT ![block[t]] = x])
    BY <1>3 DEF Write, Dispose, Goto, SlotIInv, SlotTypeOK, Places, Holding
  <2>2. \A u \in Pthread : specific[u] # block[t]
    BY <2>1 DEF SlotIInv, OneOwner, Owns
  <2>3. Cells' = Cells
    BY <1>0, <2>1, <2>2 DEF Cells
  <2>4. Present' = Present
    BY <1>0, <1>3 DEF Present, Write, Dispose, Goto, Exiting
  <2> QED
    BY <2>3, <2>4
<1>4. ASSUME NEW t \in Pthread, Assign(t) PROVE OwnCell!Next
  <2>1. /\ specific[t] \in Address /\ value[t] \in Content /\ specific' = specific /\ t \in Present
        /\ heap' = [heap EXCEPT ![specific[t]] = value[t]]
    BY <1>4 DEF Assign, Goto, SlotIInv, SlotTypeOK, Places, Installing, Present, Exiting
  <2>2. \A u \in Pthread : specific[u] = specific[t] => u = t
    BY <2>1 DEF SlotIInv, OneOwner, Owns
  <2>3. Cells' = [Cells EXCEPT ![t] = value[t]]
    BY <1>0, <2>1, <2>2, NoneAssumption DEF Cells
  <2>4. Present' = Present
    BY <1>0, <1>4 DEF Present, Assign, Goto, Exiting
  <2>5. OwnCell!Put(t, value[t])
    BY <2>1, <2>3, <2>4 DEF OwnCell!Put, Cells, Present
  <2> QED
    BY <2>1, <2>5 DEF OwnCell!Next, OwnCell!Put
<1>5. ASSUME NEW t \in Pthread, Set(t) PROVE OwnCell!Next
  <2>1. /\ block[t] \in Address /\ value[t] \in Content /\ heap[block[t]] = value[t]
        /\ heap' = heap /\ t \in Present
    BY <1>5 DEF Set, Kept, Goto, SlotIInv, SlotTypeOK, Places, Holding, Installing, Present, Exiting
  <2>2. Present' = Present
    BY <1>0, <1>5 DEF Present, Set, Kept, Goto, Exiting
  <2>3. specific' = [specific EXCEPT ![t] = block[t]]
    BY <1>5 DEF Set, Kept
  <2>4. Cells' = [Cells EXCEPT ![t] = value[t]]
    BY <1>0, <2>1, <2>3, NoneAssumption DEF Cells
  <2>5. OwnCell!Put(t, value[t])
    BY <2>1, <2>2, <2>4 DEF OwnCell!Put, Cells, Present
  <2> QED
    BY <2>1, <2>5 DEF OwnCell!Next, OwnCell!Put
<1>6. ASSUME NEW t \in Pthread, Exit(t) PROVE OwnCell!Next
  <2>1. /\ specific' = [specific EXCEPT ![t] = Null] /\ heap' = heap /\ t \in Present
        /\ \E to \in Exiting : pc' = [pc EXCEPT ![t] = to]
    BY <1>6 DEF Exit, Goto, Present, Exiting
  <2>2. Cells' = [Cells EXCEPT ![t] = Null]
    BY <1>0, <2>1 DEF Cells
  <2>3. Present' = Present \ {t}
    BY <1>0, <2>1 DEF Present
  <2>4. OwnCell!Leave(t)
    BY <2>1, <2>2, <2>3 DEF OwnCell!Leave, Cells, Present
  <2> QED
    BY <2>4 DEF OwnCell!Next
<1>7. CASE UNCHANGED slotVars
  BY <1>7 DEF slotVars, Cells, Present
<1> QED
  BY <1>1, <1>2, <1>3, <1>4, <1>5, <1>6, <1>7 DEF SlotNext, Step

(***************************************************************************)
(* The slot implements the abstract cells: no thread ever finds what       *)
(* another one put in, and nothing changes what a thread put but that      *)
(* thread.                                                                 *)
(***************************************************************************)
THEOREM SlotIsCell == SlotSpec => IsCell
<1>1. SlotInit => OwnCell!Init
  BY InitIsCell
<1>2. SlotIInv /\ [SlotNext]_slotVars => [OwnCell!Next]_<<Cells, Present>>
  BY StepIsCell
<1>3. [][OwnCell!Next]_<<Cells, Present>> => [][OwnCell!Next]_<<
        [t \in Pthread |-> IF specific[t] = Null THEN Null ELSE heap[specific[t]]],
        {t \in Pthread : pc[t] \notin Exiting}>>
  BY DEF Cells, Present
<1> QED
  BY <1>1, <1>2, <1>3, SlotsInductive, PTL DEF SlotSpec, IsCell, OwnCell!Spec
=============================================================================
