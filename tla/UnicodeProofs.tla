---------------------------- MODULE UnicodeProofs ----------------------------
(***************************************************************************)
(* What the searches over the Unicode tables answer is what the database   *)
(* says, for every database that keeps FilesAssumption, of any size: the   *)
(* range tables, the case mappings and the folding.                        *)
(*                                                                         *)
(* DatabaseInv follows the generators from the rows to the packed tables,  *)
(* CasesInv the rows of CaseRanges.                                        *)
(***************************************************************************)
EXTENDS UnicodeSearch, FiniteSetTheorems, SequenceTheorems, WellFoundedInduction, TLAPS

-----------------------------------------------------------------------------
(* Numbers: the least of a set, and induction up to one *)

LEMMA LeastNatural ==
    ASSUME NEW T \in SUBSET Nat, T # {}
    PROVE  \E x \in T : \A y \in T : x <= y
<1> DEFINE R == OpToRel(<, Nat)
<1>1. IsWellFoundedOn(R, Nat)
    BY NatLessThanWellFounded, Zenon
<1>2. \A x, y \in Nat : y < x => <<y, x>> \in R
    BY Zenon DEF OpToRel
<1> HIDE DEF R
<1>3. \E x \in T : \A y \in T : ~(<<y, x>> \in R)
    BY <1>1, WFMin, Zenon
<1>4. PICK x \in T : \A y \in T : ~(<<y, x>> \in R)
    BY <1>3
<1>5. \A y \in T : ~(y < x)
    BY <1>2, <1>4
<1> QED BY <1>4, <1>5

LEMMA UpTo ==
    ASSUME NEW S \in SUBSET Nat, NEW n \in Nat, 0 \in S, \A k \in 0 .. n - 1 : k \in S => k + 1 \in S
    PROVE  n \in S
<1> SUFFICES ASSUME (0 .. n) \ S # {} PROVE FALSE
    OBVIOUS
<1>1. PICK x \in (0 .. n) \ S : \A y \in (0 .. n) \ S : x <= y
    <2>1. (0 .. n) \ S \in SUBSET Nat
        OBVIOUS
    <2> QED BY <2>1, LeastNatural, Zenon
<1>2. x # 0 /\ x - 1 \in 0 .. n - 1 /\ x - 1 \in 0 .. n /\ x - 1 < x
    BY <1>1
<1>3. x - 1 \in S
    BY <1>1, <1>2
<1>4. (x - 1) + 1 = x
    BY <1>1
<1> QED BY <1>1, <1>2, <1>3, <1>4

(***************************************************************************)
(* Division with remainder, as the strides of the runs need it.            *)
(***************************************************************************)
LEMMA Multiples ==
  ASSUME NEW s \in Nat \ {0}, NEW p \in Int, NEW q \in Int, p < q
  PROVE  s * p + s <= s * q
<1> DEFINE d == q - p - 1
<1>1. d \in Nat /\ s * d >= 0
  BY SMT
<1>2. s * q = s * p + s + s * d
  BY SMT
<1> QED
  BY <1>1, <1>2, SMT

LEMMA Euclid ==
  ASSUME NEW s \in Nat \ {0}, NEW q \in Int, NEW r \in 0 .. s - 1, NEW x \in Int, x = s * q + r
  PROVE  x % s = r
<1>1. x % s \in 0 .. s - 1 /\ x \div s \in Int /\ x = s * (x \div s) + (x % s)
  BY SMT
<1> DEFINE d == x \div s
<1> HIDE DEF d
<1>2. d < q => s * d + s <= s * q
  BY <1>1, Multiples DEF d
<1>3. q < d => s * q + s <= s * d
  BY <1>1, Multiples DEF d
<1>4. s * d \in Int /\ s * q \in Int /\ d \in Int /\ x = s * d + (x % s)
  BY <1>1 DEF d
<1>5. s * q = s * d
  BY <1>1, <1>2, <1>3, <1>4
<1> QED
  BY <1>1, <1>4, <1>5

LEMMA ModStep ==
  ASSUME NEW s \in Nat \ {0}, NEW a \in Nat
  PROVE  (a + s) % s = a % s
<1> DEFINE q == a \div s
           r == a % s
<1>1. r \in 0 .. s - 1 /\ q \in Int /\ a = s * q + r
  BY SMT
<1> HIDE DEF q, r
<1>2. a + s = s * (q + 1) + r /\ q + 1 \in Int /\ a + s \in Int
  BY <1>1
<1>3. (a + s) % s = r
  BY <1>1, <1>2, Euclid
<1> QED
  BY <1>3 DEF r

LEMMA ModBetween ==
  ASSUME NEW s \in Nat \ {0}, NEW a \in Nat, a % s = 0, NEW x \in Int, a < x, x < a + s
  PROVE  x % s # 0
<1> DEFINE q == a \div s
<1>1. q \in Int /\ a = s * q
  BY SMT
<1> HIDE DEF q
<1> DEFINE r == x - a
<1>2. x = s * q + r /\ r \in 0 .. s - 1 /\ r # 0
  BY <1>1
<1> HIDE DEF r
<1>3. x % s = r
  BY <1>1, <1>2, Euclid
<1> QED
  BY <1>2, <1>3
-----------------------------------------------------------------------------
(* Runs *)

Run == [lo : Code, hi : Code, stride : Nat \ {0}]
Points(run) == {c \in run.lo .. run.hi : (c - run.lo) % run.stride = 0}
IsRun(run) == run \in Run /\ run.lo <= run.hi /\ (run.hi - run.lo) % run.stride = 0

\* Runs in order, and the code points that are in one.
SortedRuns(seq) ==
    /\ seq \in Seq(Run)
    /\ \A i \in 1 .. Len(seq) : IsRun(seq[i])
    /\ \A i, j \in 1 .. Len(seq) : i < j => seq[i].hi < seq[j].lo
In(seq, c) == \E i \in 1 .. Len(seq) : c \in Points(seq[i])

LEMMA NoRunIsEmpty == Points(NoRun) = {}
BY SMT DEF Points, NoRun

LEMMA RunType ==
  ASSUME NEW run, IsRun(run)
  PROVE  run.lo \in Nat /\ run.hi \in Nat /\ run.lo <= run.hi /\ run.stride \in Nat \ {0}
BY LimitsAssumption, SMT DEF IsRun, Run, Code

(***************************************************************************)
(* A run of one code point, and a run that takes in the next code point    *)
(* when PackOne extends it: the second code point decides the stride.      *)
(***************************************************************************)
LEMMA RunOfOne ==
  ASSUME NEW c \in Code
  PROVE  IsRun(RunOf(c, c, 1)) /\ Points(RunOf(c, c, 1)) = {c}
<1>1. c \in Int /\ c - c = 0 /\ 0 % 1 = 0
  BY LimitsAssumption, SMT DEF Code
<1> QED
  BY <1>1, SMT DEF IsRun, Run, RunOf, Points

LEMMA RunExtended ==
  ASSUME NEW run, IsRun(run), NEW c \in Code, run.hi < c, Extends(run, c)
  PROVE  /\ IsRun(RunOf(run.lo, c, c - run.hi))
         /\ Points(RunOf(run.lo, c, c - run.hi)) = Points(run) \cup {c}
<1> DEFINE lo == run.lo
           hi == run.hi
           s == c - hi
           new == RunOf(lo, c, s)
<1>0. lo \in Code /\ run.stride \in Nat \ {0}
  BY DEF IsRun, Run
<1>1. lo \in Nat /\ hi \in Nat /\ lo <= hi /\ c \in Nat /\ hi < c
  BY LimitsAssumption, SMT DEF IsRun, Run, Code
<1>2. s \in Nat \ {0} /\ c = hi + s
  BY <1>1, SMT
<1>9. new \in Run /\ new.lo = lo /\ new.hi = c /\ new.stride = s
  BY <1>0, <1>2 DEF Run, RunOf
<1>10. (lo = hi \/ s = run.stride) /\ (hi - lo) % run.stride = 0
  BY DEF Extends, IsRun
<1>11. Points(run) = {x \in lo .. hi : (x - lo) % run.stride = 0}
  BY DEF Points
<1> HIDE DEF lo, hi, s, new
<1>3. (hi - lo) % s = 0
  <2>1. CASE lo = hi
    BY <2>1, <1>1, <1>2, SMT
  <2>2. CASE s = run.stride
    BY <2>2, <1>10
  <2> QED
    BY <2>1, <2>2, <1>10
<1>4. (c - lo) % s = 0
  <2> DEFINE a == hi - lo
  <2>1. a \in Nat /\ c - lo = a + s
    BY <1>1, <1>2, SMT
  <2>2. a % s = 0
    BY <1>3
  <2> HIDE DEF a
  <2>3. (a + s) % s = a % s
    BY <2>1, <1>2, ModStep
  <2> QED
    BY <2>1, <2>2, <2>3
<1>5. ASSUME NEW x \in Int, hi < x, x < c
      PROVE  (x - lo) % s # 0
  <2> DEFINE a == hi - lo
             y == x - lo
  <2>1. a \in Nat /\ y \in Int /\ a < y /\ y < a + s
    BY <1>1, <1>2, <1>5, SMT
  <2>2. a % s = 0
    BY <1>3
  <2> HIDE DEF a, y
  <2>3. y % s # 0
    BY <2>1, <2>2, <1>2, ModBetween
  <2> QED
    BY <2>3 DEF y
<1>6. ASSUME NEW x \in lo .. hi
      PROVE  (x - lo) % s = 0 <=> (x - lo) % run.stride = 0
  <2>1. CASE lo = hi
    <3>1. x - lo = 0
      BY <2>1, <1>1, <1>6, SMT
    <3> QED
      BY <3>1, <1>0, <1>2, SMT
  <2>2. CASE s = run.stride
    BY <2>2
  <2> QED
    BY <2>1, <2>2, <1>10
<1>7. IsRun(new)
  BY <1>1, <1>2, <1>4, <1>9, SMT DEF IsRun
<1>8. Points(new) = Points(run) \cup {c}
  <2>1. Points(new) = {x \in lo .. c : (x - lo) % s = 0}
    BY <1>9 DEF Points
  <2>2. ASSUME NEW x \in lo .. c
        PROVE  (x - lo) % s = 0 <=> x \in Points(run) \cup {c}
    <3>1. CASE x = c
      BY <3>1, <1>4
    <3>2. CASE x # c /\ hi < x
      BY <3>2, <2>2, <1>1, <1>5, <1>11, SMT
    <3>3. CASE x <= hi
      <4>1. x \in lo .. hi /\ x # c
        BY <3>3, <2>2, <1>1, SMT
      <4>2. x \in Points(run) <=> (x - lo) % run.stride = 0
        BY <4>1, <1>11
      <4> QED
        BY <4>1, <4>2, <1>6
    <3> QED
      BY <3>1, <3>2, <3>3, <2>2, <1>1, SMT
  <2>3. Points(run) \cup {c} \subseteq lo .. c
    BY <1>1, <1>11, SMT
  <2> QED
    BY <2>1, <2>2, <2>3, Zenon
<1> QED
  BY <1>7, <1>8 DEF new, lo, hi, s

(***************************************************************************)
(* A run that begins after the last one may be appended.                   *)
(***************************************************************************)
LEMMA AppendRun ==
  ASSUME NEW seq, SortedRuns(seq), NEW run, IsRun(run),
         \A i \in 1 .. Len(seq) : seq[i].hi < run.lo
  PROVE  /\ SortedRuns(Append(seq, run))
         /\ \A c : In(Append(seq, run), c) <=> In(seq, c) \/ c \in Points(run)
<1> DEFINE long == Append(seq, run)
<1>1. /\ long \in Seq(Run) /\ Len(seq) \in Nat /\ Len(long) = Len(seq) + 1
      /\ long[Len(seq) + 1] = run
      /\ \A i \in 1 .. Len(seq) : long[i] = seq[i]
  BY DEF SortedRuns, IsRun
<1> HIDE DEF long
<1>2. \A i \in 1 .. Len(long) : i \in 1 .. Len(seq) \/ i = Len(seq) + 1
  BY <1>1
<1>3. SortedRuns(long)
  <2>1. \A i \in 1 .. Len(long) : IsRun(long[i])
    BY <1>1, <1>2 DEF SortedRuns
  <2>2. \A i, j \in 1 .. Len(long) : i < j => long[i].hi < long[j].lo
    <3> TAKE i, j \in 1 .. Len(long)
    <3> HAVE i < j
    <3>1. i \in 1 .. Len(seq)
      BY <1>1
    <3> QED
      BY <3>1, <1>1, <1>2 DEF SortedRuns
  <2> QED
    BY <2>1, <2>2, <1>1 DEF SortedRuns
<1>4. ASSUME NEW c PROVE In(long, c) <=> In(seq, c) \/ c \in Points(run)
  <2>1. \A i \in 1 .. Len(seq) : i \in 1 .. Len(long)
    BY <1>1
  <2>2. Len(seq) + 1 \in 1 .. Len(long)
    BY <1>1
  <2> QED
    BY <2>1, <2>2, <1>1, <1>2, Zenon DEF In
<1> QED
  BY <1>3, <1>4 DEF long

-----------------------------------------------------------------------------
(* Packing *)

Beyond(seq, x) == \A i \in 1 .. Len(seq) : seq[i].hi < x

\* The finished runs of the table that is being packed.
Halves ==
    /\ SortedRuns(r16) /\ SortedRuns(r32)
    /\ \A i \in 1 .. Len(r16) : r16[i].hi <= MAX_16
    /\ \A i \in 1 .. Len(r32) : r32[i].lo > MAX_16

\* Between two steps of the loop: the runs and the run in hand hold the members
\* of S that were passed, in order, and no run goes across the 16 bit edge.
Packing(S) ==
    /\ Halves /\ at \in 0 .. MAX_RUNE + 1
    /\ current = NoRun => r16 = <<>> /\ r32 = <<>>
    /\ current # NoRun =>
        /\ IsRun(current) /\ current.hi < at
        /\ (current.hi <= MAX_16 /\ r32 = <<>>) \/ current.lo > MAX_16
        /\ Beyond(r16, current.lo) /\ Beyond(r32, current.lo)
    /\ \A c \in Code : c < at =>
        (c \in S <=> In(r16, c) \/ In(r32, c) \/ c \in Points(current))

\* A table is packed.
Packed(S) ==
    /\ Halves
    /\ \A c \in Code : c \in S <=> In(r16, c) \/ In(r32, c)

LEMMA EmptyRuns == SortedRuns(<<>>) /\ \A c : ~In(<<>>, c)
BY DEF SortedRuns, In

\* A run has no points past its end.
LEMMA PointsWithin ==
  ASSUME NEW run, IsRun(run), NEW c \in Points(run)
  PROVE  c \in Int /\ run.lo <= c /\ c <= run.hi /\ run.lo \in Nat /\ run.hi \in Nat
BY LimitsAssumption, SMT DEF IsRun, Run, Points, Code

LEMMA InWithin ==
  ASSUME NEW seq, SortedRuns(seq), NEW x \in Int, Beyond(seq, x), NEW c, In(seq, c)
  PROVE  c \in Int /\ c < x
<1>1. PICK i \in 1 .. Len(seq) : c \in Points(seq[i])
  BY DEF In
<1>2. IsRun(seq[i]) /\ seq[i].hi < x
  BY DEF SortedRuns, Beyond
<1>3. c \in Int /\ c <= seq[i].hi /\ seq[i].hi \in Nat
  BY <1>1, <1>2, PointsWithin
<1> QED
  BY <1>2, <1>3

\* What is in a run already has been passed.
LEMMA PackedBelow ==
  ASSUME NEW S, Packing(S), NEW c,
         In(r16, c) \/ In(r32, c) \/ c \in Points(current)
  PROVE  c < at
<1>1. at \in Int
  BY LimitsAssumption DEF Packing
<1>2. current # NoRun
  BY EmptyRuns, NoRunIsEmpty DEF Packing
<1>3. IsRun(current) /\ current.hi < at /\ Beyond(r16, current.lo) /\ Beyond(r32, current.lo)
      /\ SortedRuns(r16) /\ SortedRuns(r32)
  BY <1>2 DEF Packing, Halves
<1>4. current.lo \in Nat /\ current.hi \in Nat /\ current.lo <= current.hi
  BY <1>3, LimitsAssumption, SMT DEF IsRun, Run, Code
<1>5. CASE In(r16, c) \/ In(r32, c)
  <2>1. c \in Int /\ c < current.lo
    BY <1>5, <1>3, <1>4, InWithin
  <2> QED
    BY <2>1, <1>1, <1>3, <1>4
<1>6. CASE c \in Points(current)
  <2>1. c \in Int /\ c <= current.hi
    BY <1>6, <1>3, PointsWithin
  <2> QED
    BY <2>1, <1>1, <1>3, <1>4
<1> QED
  BY <1>5, <1>6

LEMMA PackOneKeeps ==
  ASSUME NEW S, S = CodesOf(name), Packing(S), PackOne
  PROVE  Packing(S)'
<1>1. at \in Code /\ at \in Nat /\ at' = at + 1 /\ at' \in 0 .. MAX_RUNE + 1
  BY LimitsAssumption DEF PackOne, Packing, Code
<1>2. CASE at \notin S
  <2>1. UNCHANGED <<current, r16, r32>>
    BY <1>2 DEF PackOne
  <2>2. ASSUME NEW c \in Code, c < at'
        PROVE  c \in S <=> In(r16, c) \/ In(r32, c) \/ c \in Points(current)
    <3>1. CASE c < at
      BY <3>1 DEF Packing
    <3>2. CASE c = at
      <4>1. ~(at < at)
        BY <1>1
      <4> QED
        BY <4>1, <3>2, <1>2, PackedBelow
    <3> QED
      BY <3>1, <3>2, <2>2, <1>1, LimitsAssumption DEF Code
  <2>3. current # NoRun => current.hi < at'
    <3> SUFFICES ASSUME current # NoRun PROVE current.hi < at'
      OBVIOUS
    <3>1. current.hi \in Nat /\ current.hi < at
      BY LimitsAssumption, SMT DEF Packing, IsRun, Run, Code
    <3> QED
      BY <3>1, <1>1
  <2> QED
    BY <2>1, <2>2, <2>3, <1>1 DEF Packing, Halves, SortedRuns, Beyond, In
<1>3. CASE at \in S
  <2> DEFINE one == RunOf(at, at, 1)
  <2>1. IsRun(one) /\ Points(one) = {at} /\ one.lo = at /\ one.hi = at /\ one # NoRun
    BY <1>1, RunOfOne, SMT DEF RunOf, NoRun
  <2> HIDE DEF one
  <2>2. \A c \in Code : c < at' => c < at \/ c = at
    BY <1>1, LimitsAssumption DEF Code
  <2>3. at \notin {c \in Code : In(r16, c) \/ In(r32, c) \/ c \in Points(current)}
    <3>1. ~(at < at)
      BY <1>1
    <3> QED
      BY <3>1, PackedBelow
  <2>4. CASE current = NoRun
    <3>1. current' = one /\ r16' = r16 /\ r32' = r32 /\ r16 = <<>> /\ r32 = <<>>
      BY <2>4, <1>3 DEF PackOne, one, Packing
    <3>2. at <= MAX_16 \/ at > MAX_16
      BY <1>1, LimitsAssumption
    <3>3. Beyond(r16, at) /\ Beyond(r32, at) /\ Halves
      BY <3>1 DEF Beyond, Packing
    <3>4. \A c \in Code : c < at' =>
            (c \in S <=> In(r16, c) \/ In(r32, c) \/ c \in Points(one))
      BY <2>1, <2>2, <2>4, <1>3, <3>1, NoRunIsEmpty DEF Packing
    <3>5. at < at'
      BY <1>1
    <3> QED
      BY <3>1, <3>2, <3>3, <3>4, <3>5, <2>1, <1>1 DEF Packing, Halves, SortedRuns, Beyond, In
  <2>5. CASE current # NoRun
    <3> DEFINE close == ~Extends(current, at)
               crossed == current.hi <= MAX_16 /\ at > MAX_16
    <3>1. /\ Halves /\ IsRun(current) /\ current.hi < at
          /\ (current.hi <= MAX_16 /\ r32 = <<>>) \/ current.lo > MAX_16
          /\ Beyond(r16, current.lo) /\ Beyond(r32, current.lo)
      BY <2>5 DEF Packing
    <3>2. current.lo \in Nat /\ current.hi \in Nat /\ current.lo <= current.hi /\ MAX_16 \in Nat
      BY <3>1, LimitsAssumption, SMT DEF IsRun, Run, Code
    <3>3. /\ current' = IF close \/ crossed THEN one
                        ELSE RunOf(current.lo, at, at - current.hi)
          /\ r16' = IF (close \/ crossed) /\ current.hi <= MAX_16
                    THEN Append(r16, current) ELSE r16
          /\ r32' = IF close /\ current.hi > MAX_16 THEN Append(r32, current) ELSE r32
      BY <1>3, <2>5 DEF PackOne, one
    <3>4. \A c \in Code : c < at' => (c \in S <=> c = at \/ In(r16, c) \/ In(r32, c)
                                                        \/ c \in Points(current))
      BY <2>2, <2>3, <1>3 DEF Packing
    <3>5. CASE ~close /\ ~crossed
      <4> DEFINE new == RunOf(current.lo, at, at - current.hi)
      <4>1. IsRun(new) /\ Points(new) = Points(current) \cup {at}
        BY <3>1, <3>5, <1>1, RunExtended
      <4>2. new.lo = current.lo /\ new.hi = at /\ new # NoRun
        BY <3>2, <1>1, SMT DEF RunOf, NoRun
      <4>3. current' = new /\ r16' = r16 /\ r32' = r32
        BY <3>3, <3>5
      <4> HIDE DEF new
      <4>4. (new.hi <= MAX_16 /\ r32 = <<>>) \/ new.lo > MAX_16
        BY <4>2, <3>1, <3>2, <3>5, <1>1
      <4>5. \A c \in Code : c < at' =>
              (c \in S <=> In(r16, c) \/ In(r32, c) \/ c \in Points(new))
        BY <3>4, <4>1
      <4>6. new.hi < at' /\ Beyond(r16, new.lo) /\ Beyond(r32, new.lo)
        BY <4>2, <3>1, <1>1
      <4> QED
        BY <4>1, <4>2, <4>3, <4>4, <4>5, <4>6, <3>1, <1>1
           DEF Packing, Halves, SortedRuns, Beyond, In
    <3>6. CASE close \/ crossed
      <4>1. current' = one
        BY <3>3, <3>6
      <4>2. at < at' /\ (at <= MAX_16 \/ at > MAX_16)
        BY <1>1, LimitsAssumption
      <4>3. CASE current.hi <= MAX_16
        <5> DEFINE long == Append(r16, current)
        <5>1. r16' = long /\ r32' = r32 /\ r32 = <<>>
          BY <3>1, <3>2, <3>3, <3>6, <4>3
        <5>2. /\ SortedRuns(long)
              /\ \A c : In(long, c) <=> In(r16, c) \/ c \in Points(current)
          BY <3>1, AppendRun DEF Halves, Beyond
        <5>3. /\ Len(r16) \in Nat /\ Len(long) = Len(r16) + 1
              /\ long[Len(r16) + 1] = current
              /\ \A i \in 1 .. Len(r16) : long[i] = r16[i]
          BY <3>1 DEF Halves, SortedRuns, IsRun
        <5> HIDE DEF long
        <5>4. \A i \in 1 .. Len(long) : i \in 1 .. Len(r16) \/ i = Len(r16) + 1
          BY <5>3
        <5>5. \A i \in 1 .. Len(long) : long[i].hi <= MAX_16
          BY <5>3, <5>4, <4>3, <3>1 DEF Halves
        <5>6. Beyond(long, at)
          <6>1. \A i \in 1 .. Len(r16) : r16[i].hi < at
            <7> TAKE i \in 1 .. Len(r16)
            <7>1. IsRun(r16[i]) /\ r16[i].hi < current.lo
              BY <3>1 DEF Halves, SortedRuns, Beyond
            <7>2. r16[i].hi \in Nat
              BY <7>1, RunType
            <7> QED
              BY <7>1, <7>2, <3>1, <3>2, <1>1
          <6> QED
            BY <6>1, <5>3, <5>4, <3>1 DEF Beyond
        <5>7. Beyond(r32, at)
          BY <5>1 DEF Beyond
        <5>8. \A c \in Code : c < at' =>
                (c \in S <=> In(long, c) \/ In(r32, c) \/ c \in Points(one))
          BY <3>4, <5>2, <2>1
        <5> QED
          BY <5>1, <5>2, <5>5, <5>6, <5>7, <5>8, <4>1, <4>2, <3>1, <2>1, <1>1
             DEF Packing, Halves, SortedRuns, Beyond, In
      <4>4. CASE current.hi > MAX_16
        <5> DEFINE long == Append(r32, current)
        <5>1. r32' = long /\ r16' = r16 /\ current.lo > MAX_16
          BY <3>1, <3>2, <3>3, <3>6, <4>4
        <5>2. /\ SortedRuns(long)
              /\ \A c : In(long, c) <=> In(r32, c) \/ c \in Points(current)
          BY <3>1, AppendRun DEF Halves, Beyond
        <5>3. /\ Len(r32) \in Nat /\ Len(long) = Len(r32) + 1
              /\ long[Len(r32) + 1] = current
              /\ \A i \in 1 .. Len(r32) : long[i] = r32[i]
          BY <3>1 DEF Halves, SortedRuns, IsRun
        <5> HIDE DEF long
        <5>4. \A i \in 1 .. Len(long) : i \in 1 .. Len(r32) \/ i = Len(r32) + 1
          BY <5>3
        <5>5. \A i \in 1 .. Len(long) : long[i].lo > MAX_16
          BY <5>1, <5>3, <5>4, <3>1 DEF Halves
        <5>6. \A i \in 1 .. Len(r16) : r16[i].hi < at
          <6> TAKE i \in 1 .. Len(r16)
          <6>1. IsRun(r16[i]) /\ r16[i].hi < current.lo
            BY <3>1 DEF Halves, SortedRuns, Beyond
          <6>2. r16[i].hi \in Nat
            BY <6>1, RunType
          <6> QED
            BY <6>1, <6>2, <3>1, <3>2, <1>1
        <5>7. \A i \in 1 .. Len(r32) : r32[i].hi < at
          <6> TAKE i \in 1 .. Len(r32)
          <6>1. IsRun(r32[i]) /\ r32[i].hi < current.lo
            BY <3>1 DEF Halves, SortedRuns, Beyond
          <6>2. r32[i].hi \in Nat
            BY <6>1, RunType
          <6> QED
            BY <6>1, <6>2, <3>1, <3>2, <1>1
        <5>8. Beyond(r16, at) /\ Beyond(long, at)
          BY <5>3, <5>4, <5>6, <5>7, <3>1 DEF Beyond
        <5>9. \A c \in Code : c < at' =>
                (c \in S <=> In(r16, c) \/ In(long, c) \/ c \in Points(one))
          BY <3>4, <5>2, <2>1
        <5>10. at > MAX_16
          BY <4>4, <3>1, <3>2, <1>1
        <5> QED
          BY <5>1, <5>2, <5>5, <5>8, <5>9, <5>10, <4>1, <4>2, <3>1, <2>1, <1>1
             DEF Packing, Halves, SortedRuns, Beyond, In
      <4> QED
        BY <4>3, <4>4, <3>2
    <3> QED
      BY <3>5, <3>6
  <2> QED
    BY <2>4, <2>5
<1> QED
  BY <1>2, <1>3

\* The run in hand goes to the half it began in, and the table is packed.
LEMMA PackLastPacks ==
  ASSUME NEW S, Packing(S), PackLast
  PROVE  Packed(S)'
<1>1. \A c \in Code : c < at
  BY LimitsAssumption DEF PackLast, Code
<1>2. \A c \in Code : c \in S <=> In(r16, c) \/ In(r32, c) \/ c \in Points(current)
  BY <1>1 DEF Packing
<1>3. CASE current = NoRun
  <2>1. r16' = r16 /\ r32' = r32
    BY <1>3 DEF PackLast
  <2>2. Halves
    BY DEF Packing
  <2>3. \A c \in Code : c \in S <=> In(r16, c) \/ In(r32, c)
    BY <1>2, <1>3, NoRunIsEmpty
  <2> QED
    BY <2>1, <2>2, <2>3 DEF Packed, Halves, SortedRuns, In
<1>4. CASE current # NoRun
  <2>1. /\ Halves /\ IsRun(current)
        /\ (current.hi <= MAX_16 /\ r32 = <<>>) \/ current.lo > MAX_16
        /\ Beyond(r16, current.lo) /\ Beyond(r32, current.lo)
    BY <1>4 DEF Packing
  <2>2. current.lo \in Nat /\ current.hi \in Nat /\ current.lo <= current.hi /\ MAX_16 \in Nat
    BY <2>1, RunType, LimitsAssumption
  <2>3. CASE current.hi <= MAX_16
    <3> DEFINE long == Append(r16, current)
    <3>1. r16' = long /\ r32' = r32 /\ r32 = <<>>
      BY <1>4, <2>1, <2>2, <2>3 DEF PackLast
    <3>2. SortedRuns(long) /\ \A c : In(long, c) <=> In(r16, c) \/ c \in Points(current)
      BY <2>1, AppendRun DEF Halves, Beyond
    <3>3. /\ Len(r16) \in Nat /\ Len(long) = Len(r16) + 1
          /\ long[Len(r16) + 1] = current
          /\ \A i \in 1 .. Len(r16) : long[i] = r16[i]
      BY <2>1 DEF Halves, SortedRuns, IsRun
    <3> HIDE DEF long
    <3>4. \A i \in 1 .. Len(long) : i \in 1 .. Len(r16) \/ i = Len(r16) + 1
      BY <3>3
    <3>5. \A i \in 1 .. Len(long) : long[i].hi <= MAX_16
      BY <3>3, <3>4, <2>3, <2>1 DEF Halves
    <3>6. \A c \in Code : c \in S <=> In(long, c) \/ In(r32, c)
      BY <1>2, <3>2
    <3> QED
      BY <3>1, <3>2, <3>5, <3>6, <2>1 DEF Packed, Halves, SortedRuns, In
  <2>4. CASE current.hi > MAX_16
    <3> DEFINE long == Append(r32, current)
    <3>1. r32' = long /\ r16' = r16 /\ current.lo > MAX_16
      BY <1>4, <2>1, <2>2, <2>4 DEF PackLast
    <3>2. SortedRuns(long) /\ \A c : In(long, c) <=> In(r32, c) \/ c \in Points(current)
      BY <2>1, AppendRun DEF Halves, Beyond
    <3>3. /\ Len(r32) \in Nat /\ Len(long) = Len(r32) + 1
          /\ long[Len(r32) + 1] = current
          /\ \A i \in 1 .. Len(r32) : long[i] = r32[i]
      BY <2>1 DEF Halves, SortedRuns, IsRun
    <3> HIDE DEF long
    <3>4. \A i \in 1 .. Len(long) : i \in 1 .. Len(r32) \/ i = Len(r32) + 1
      BY <3>3
    <3>5. \A i \in 1 .. Len(long) : long[i].lo > MAX_16
      BY <3>1, <3>3, <3>4, <2>1 DEF Halves
    <3>6. \A c \in Code : c \in S <=> In(r16, c) \/ In(long, c)
      BY <1>2, <3>2
    <3> QED
      BY <3>1, <3>2, <3>5, <3>6, <2>1 DEF Packed, Halves, SortedRuns, In
  <2> QED
    BY <2>2, <2>3, <2>4
<1> QED
  BY <1>3, <1>4

-----------------------------------------------------------------------------
(* Tables end to end *)

\* The entries of w at a RangeTable hold S: they are runs in order, on their own
\* sides of the 16 bit edge, and the first of them are within Latin-1.
Table(w, t, S) ==
    /\ t.at \in Nat /\ t.n16 \in Nat /\ t.n32 \in Nat /\ t.at + t.n16 + t.n32 <= Len(w)
    /\ \A i \in t.at + 1 .. t.at + t.n16 + t.n32 : IsRun(w[i])
    /\ \A i \in t.at + 1 .. t.at + t.n16 : w[i].hi <= MAX_16
    /\ \A i \in t.at + t.n16 + 1 .. t.at + t.n16 + t.n32 : w[i].lo > MAX_16
    /\ \A i, j \in t.at + 1 .. t.at + t.n16 + t.n32 : i < j => w[i].hi < w[j].lo
    /\ \A c \in Code :
        c \in S <=> \E i \in t.at + 1 .. t.at + t.n16 + t.n32 : c \in Points(w[i])
    /\ t.latin \in 0 .. t.n16 /\ \A i \in t.at + 1 .. t.at + t.latin : w[i].hi <= MAX_LATIN1

\* A table stays what it is when more is laid after it.
LEMMA TableStays ==
  ASSUME NEW w, NEW v, Len(w) \in Nat, Len(v) \in Nat, Len(w) <= Len(v),
         \A i \in 1 .. Len(w) : v[i] = w[i],
         NEW t, NEW S, Table(w, t, S)
  PROVE  Table(v, t, S)
<1>1. /\ t.at \in Nat /\ t.n16 \in Nat /\ t.n32 \in Nat /\ t.latin \in 0 .. t.n16
      /\ t.at + t.n16 + t.n32 <= Len(w)
  BY DEF Table
<1>2. \A i \in t.at + 1 .. t.at + t.n16 + t.n32 : v[i] = w[i]
  BY <1>1
<1>3. \A i \in t.at + 1 .. t.at + t.n16 : i \in t.at + 1 .. t.at + t.n16 + t.n32
  BY <1>1
<1>4. \A i \in t.at + t.n16 + 1 .. t.at + t.n16 + t.n32 : i \in t.at + 1 .. t.at + t.n16 + t.n32
  BY <1>1
<1>5. \A i \in t.at + 1 .. t.at + t.latin : i \in t.at + 1 .. t.at + t.n16 + t.n32
  BY <1>1
<1>6. t.at + t.n16 + t.n32 <= Len(v)
  BY <1>1
<1> QED
  BY <1>1, <1>2, <1>3, <1>4, <1>5, <1>6, Zenon DEF Table

\* The leading runs within Latin-1 are an interval of indices.
LEMMA LatinRunsCount ==
  ASSUME SortedRuns(r16)
  PROVE  LatinRuns \in 0 .. Len(r16) /\ \A i \in 1 .. LatinRuns : r16[i].hi <= MAX_LATIN1
<1> DEFINE Within(i) == r16[i].hi <= MAX_LATIN1
           Out == {i \in Nat \ {0} : i = Len(r16) + 1 \/ (i \in 1 .. Len(r16) /\ ~Within(i))}
<1>1. Len(r16) \in Nat /\ DOMAIN r16 = 1 .. Len(r16)
  BY DEF SortedRuns
<1> HIDE DEF Within
<1>2. PICK k \in Out : \A i \in Out : k <= i
  <2>1. Len(r16) + 1 \in Out /\ Out \subseteq Nat
    BY <1>1
  <2>2. Out # {}
    BY <2>1
  <2> HIDE DEF Out
  <2> QED
    BY <2>1, <2>2, LeastNatural
<1>3. k \in 1 .. Len(r16) + 1 /\ \A i \in 1 .. k - 1 : Within(i) /\ i \in 1 .. Len(r16)
  BY <1>1, <1>2
<1>4. k \in 1 .. Len(r16) => ~Within(k)
  BY <1>1, <1>2
<1>5. {i \in DOMAIN r16 : \A j \in 1 .. i : Within(j)} = 1 .. k - 1
  <2>1. ASSUME NEW i \in 1 .. Len(r16), \A j \in 1 .. i : Within(j)
        PROVE  i \in 1 .. k - 1
    <3>1. k <= i => k \in 1 .. i /\ k \in 1 .. Len(r16)
      BY <1>1, <1>3
    <3> QED
      BY <2>1, <3>1, <1>1, <1>3, <1>4
  <2>2. ASSUME NEW i \in 1 .. k - 1
        PROVE  i \in 1 .. Len(r16) /\ \A j \in 1 .. i : Within(j)
    <3>1. \A j \in 1 .. i : j \in 1 .. k - 1
      BY <1>3
    <3> QED
      BY <3>1, <1>3
  <2> QED
    BY <2>1, <2>2, <1>1
<1>6. LatinRuns = k - 1
  <2>1. Cardinality(1 .. k - 1) = IF 1 > k - 1 THEN 0 ELSE k - 1 - 1 + 1
    <3>1. 1 \in Int /\ k - 1 \in Int
      BY <1>1, <1>3
    <3> QED
      BY <3>1, FS_Interval, Zenon
  <2>2. Cardinality(1 .. k - 1) = k - 1
    BY <2>1, <1>1, <1>3
  <2> QED
    BY <2>2, <1>5 DEF LatinRuns, Within
<1> QED
  BY <1>1, <1>3, <1>6 DEF Within

\* The two halves end to end.
LEMMA HalvesJoined ==
  ASSUME NEW S, Packed(S), NEW w, NEW t,
         t.at \in Nat, t.n16 = Len(r16), t.n32 = Len(r32), t.at + t.n16 + t.n32 <= Len(w),
         \A i \in 1 .. Len(r16) : w[t.at + i] = r16[i],
         \A i \in 1 .. Len(r32) : w[t.at + Len(r16) + i] = r32[i],
         t.latin \in 0 .. t.n16,
         \A i \in t.at + 1 .. t.at + t.latin : w[i].hi <= MAX_LATIN1
  PROVE  Table(w, t, S)
<1> DEFINE a == t.at
           m == Len(r16)
           n == Len(r32)
<1>1. /\ SortedRuns(r16) /\ SortedRuns(r32)
      /\ \A i \in 1 .. Len(r16) : r16[i].hi <= MAX_16
      /\ \A i \in 1 .. Len(r32) : r32[i].lo > MAX_16
      /\ \A c \in Code : c \in S <=> In(r16, c) \/ In(r32, c)
  BY DEF Packed, Halves
<1>2. m \in Nat /\ n \in Nat /\ a \in Nat
  BY <1>1 DEF SortedRuns
<1>3. \A i \in 1 .. m : IsRun(r16[i]) /\ r16[i].hi \in Nat /\ r16[i].hi <= MAX_16
  BY <1>1, RunType DEF SortedRuns
<1>4. \A i \in 1 .. n : IsRun(r32[i]) /\ r32[i].lo \in Nat /\ r32[i].lo > MAX_16
  BY <1>1, RunType DEF SortedRuns
<1>5. \A i, j \in 1 .. m : i < j => r16[i].hi < r16[j].lo
  BY <1>1 DEF SortedRuns
<1>6. \A i, j \in 1 .. n : i < j => r32[i].hi < r32[j].lo
  BY <1>1 DEF SortedRuns
<1>7. \A i \in 1 .. m : w[a + i] = r16[i]
  OBVIOUS
<1>8. \A i \in 1 .. n : w[a + m + i] = r32[i]
  OBVIOUS
<1>9. \A c \in Code : c \in S <=> \/ \E i \in 1 .. m : c \in Points(w[a + i])
                                  \/ \E i \in 1 .. n : c \in Points(w[a + m + i])
  BY <1>1, <1>7, <1>8 DEF In
<1>10. t.at = a /\ t.n16 = m /\ t.n32 = n
  OBVIOUS
<1> HIDE DEF a, m, n
<1>11. ASSUME NEW i \in a + 1 .. a + m
       PROVE  i - a \in 1 .. m /\ w[i] = r16[i - a] /\ i = a + (i - a)
  <2>1. i - a \in 1 .. m /\ i = a + (i - a)
    BY <1>2, <1>11
  <2> QED
    BY <2>1, <1>7
<1>12. ASSUME NEW i \in a + m + 1 .. a + m + n
       PROVE  i - a - m \in 1 .. n /\ w[i] = r32[i - a - m] /\ i = a + m + (i - a - m)
  <2>1. i - a - m \in 1 .. n /\ i = a + m + (i - a - m)
    BY <1>2, <1>12
  <2> QED
    BY <2>1, <1>8
<1>13. \A i \in a + 1 .. a + m + n : i \in a + 1 .. a + m \/ i \in a + m + 1 .. a + m + n
  BY <1>2
<1>14. \A i \in a + 1 .. a + m + n : IsRun(w[i])
  BY <1>3, <1>4, <1>11, <1>12, <1>13
<1>15. \A i \in a + 1 .. a + m : w[i].hi <= MAX_16 /\ w[i].hi \in Nat
  BY <1>3, <1>11
<1>16. \A i \in a + m + 1 .. a + m + n : w[i].lo > MAX_16 /\ w[i].lo \in Nat
  BY <1>4, <1>12
<1>17. ASSUME NEW i \in a + 1 .. a + m + n, NEW j \in a + 1 .. a + m + n, i < j
       PROVE  w[i].hi < w[j].lo
  <2>1. CASE i \in a + 1 .. a + m /\ j \in a + 1 .. a + m
    <3>1. i - a < j - a
      BY <1>2, <1>17
    <3> QED
      BY <2>1, <3>1, <1>5, <1>11
  <2>2. CASE i \in a + 1 .. a + m /\ j \in a + m + 1 .. a + m + n
    BY <2>2, <1>15, <1>16, LimitsAssumption
  <2>3. CASE i \in a + m + 1 .. a + m + n /\ j \in a + m + 1 .. a + m + n
    <3>1. i - a - m < j - a - m
      BY <1>2, <1>17
    <3> QED
      BY <2>3, <3>1, <1>6, <1>12
  <2> QED
    BY <2>1, <2>2, <2>3, <1>2, <1>13, <1>17
<1>18. ASSUME NEW c
       PROVE  (\E i \in a + 1 .. a + m + n : c \in Points(w[i])) <=>
                 \/ \E i \in 1 .. m : c \in Points(w[a + i])
                 \/ \E i \in 1 .. n : c \in Points(w[a + m + i])
  <2>1. \A i \in 1 .. m : a + i \in a + 1 .. a + m + n
    BY <1>2
  <2>2. \A i \in 1 .. n : a + m + i \in a + 1 .. a + m + n
    BY <1>2
  <2>3. ASSUME NEW i \in a + 1 .. a + m + n, c \in Points(w[i])
        PROVE  \/ \E k \in 1 .. m : c \in Points(w[a + k])
               \/ \E k \in 1 .. n : c \in Points(w[a + m + k])
    BY <2>3, <1>11, <1>12, <1>13
  <2> QED
    BY <2>1, <2>2, <2>3
<1> QED
  BY <1>2, <1>9, <1>10, <1>14, <1>15, <1>16, <1>17, <1>18 DEF Table

\* Every table laid so far is a table of the code points of its name.
Tables ==
    /\ words \in Seq(Run)
    /\ \A n \in DOMAIN where : Table(words, where[n], CodesOf(n))

LEMMA ConcatLength ==
  ASSUME NEW S, NEW s \in Seq(S), NEW r \in Seq(S)
  PROVE  Len(s \o r) = Len(s) + Len(r)
OBVIOUS

LEMMA LaidAtTheEnd ==
  ASSUME NEW S, Packed(S), words \in Seq(Run)
  PROVE  LET w == words \o r16 \o r32
             t == [at |-> Len(words), n16 |-> Len(r16), n32 |-> Len(r32), latin |-> LatinRuns]
         IN  /\ w \in Seq(Run) /\ Len(words) \in Nat /\ Len(w) \in Nat /\ Len(words) <= Len(w)
             /\ \A i \in 1 .. Len(words) : w[i] = words[i]
             /\ Table(w, t, S)
<1> DEFINE v == words \o r16
           w == v \o r32
           t == [at |-> Len(words), n16 |-> Len(r16), n32 |-> Len(r32), latin |-> LatinRuns]
<1>1. r16 \in Seq(Run) /\ r32 \in Seq(Run) /\ SortedRuns(r16)
  BY DEF Packed, Halves, SortedRuns
<1>2. /\ v \in Seq(Run) /\ Len(v) = Len(words) + Len(r16)
      /\ Len(words) \in Nat /\ Len(r16) \in Nat /\ Len(r32) \in Nat
  BY <1>1
<1>3. \A i \in 1 .. Len(words) : v[i] = words[i]
  BY <1>1
<1>4. \A i \in 1 .. Len(r16) : v[Len(words) + i] = r16[i]
  BY <1>1
<1> HIDE DEF v
<1>5. w \in Seq(Run) /\ Len(w) = Len(v) + Len(r32)
  <2>1. w \in Seq(Run)
    BY <1>1, <1>2
  <2>2. Len(w) = Len(v) + Len(r32)
    BY <1>1, <1>2, ConcatLength
  <2> QED
    BY <2>1, <2>2
<1>6. \A i \in 1 .. Len(v) : w[i] = v[i]
  BY <1>1, <1>2
<1>7. \A i \in 1 .. Len(r32) : w[Len(v) + i] = r32[i]
  BY <1>1, <1>2
<1> HIDE DEF w
<1>8. \A i \in 1 .. Len(words) : w[i] = words[i]
  BY <1>2, <1>3, <1>6
<1>9. \A i \in 1 .. Len(r16) : w[Len(words) + i] = r16[i]
  <2>1. \A i \in 1 .. Len(r16) : Len(words) + i \in 1 .. Len(v)
    BY <1>2
  <2> QED
    BY <2>1, <1>4, <1>6
<1>10. \A i \in 1 .. Len(r32) : w[Len(words) + Len(r16) + i] = r32[i]
  BY <1>2, <1>7
<1>11. LatinRuns \in 0 .. Len(r16) /\ \A i \in 1 .. LatinRuns : r16[i].hi <= MAX_LATIN1
  BY <1>1, LatinRunsCount
<1>12. \A i \in Len(words) + 1 .. Len(words) + LatinRuns : w[i].hi <= MAX_LATIN1
  <2> TAKE i \in Len(words) + 1 .. Len(words) + LatinRuns
  <2>1. i - Len(words) \in 1 .. LatinRuns /\ i - Len(words) \in 1 .. Len(r16)
        /\ i = Len(words) + (i - Len(words))
    BY <1>2, <1>11
  <2> QED
    BY <2>1, <1>9, <1>11
<1>13. /\ t.at = Len(words) /\ t.n16 = Len(r16) /\ t.n32 = Len(r32) /\ t.latin = LatinRuns
  OBVIOUS
<1> HIDE DEF t
<1>14. Table(w, t, S)
  <2>1. t.at + t.n16 + t.n32 <= Len(w)
    BY <1>2, <1>5, <1>13
  <2> QED
    BY <2>1, <1>2, <1>9, <1>10, <1>11, <1>12, <1>13, HalvesJoined
<1>15. Len(w) \in Nat /\ Len(words) <= Len(w)
  BY <1>2, <1>5
<1> QED
  BY <1>2, <1>5, <1>8, <1>14, <1>15 DEF t, w, v

\* A name that shares another's runs is a table too, and theirs are the same runs.
LEMMA SharedIsRight ==
  ASSUME NEW S, Packed(S), words \in Seq(Run), NEW n \in Same, NEW T, Table(words, where[n], T)
  PROVE  Table(words, where[n], S)
<1> DEFINE t == where[n]
           a == t.at
           part == SubSeq(words, a + 1, a + t.n16 + t.n32)
           joined == r16 \o r32
<1>1. r16 \in Seq(Run) /\ r32 \in Seq(Run)
  BY DEF Packed, Halves, SortedRuns
<1>2. t.n16 = Len(r16) /\ t.n32 = Len(r32) /\ joined = part
  BY DEF Same
<1>3. /\ a \in Nat /\ t.n16 \in Nat /\ t.n32 \in Nat /\ a + t.n16 + t.n32 <= Len(words)
      /\ t.latin \in 0 .. t.n16 /\ \A i \in a + 1 .. a + t.latin : words[i].hi <= MAX_LATIN1
  BY DEF Table
<1>4. \A i \in 1 .. Len(r16) : joined[i] = r16[i]
  BY <1>1
<1>5. \A i \in 1 .. Len(r32) : joined[Len(r16) + i] = r32[i]
  BY <1>1
<1> HIDE DEF t, a, joined
<1>6. \A i \in 1 .. t.n16 + t.n32 : part[i] = words[a + i]
  <2> DEFINE z == a + t.n16 + t.n32
  <2>1. /\ a + 1 \in 1 .. Len(words) + 1 /\ z \in a .. Len(words)
        /\ Len(words) \in Nat /\ z - a = t.n16 + t.n32
    BY <1>3
  <2> HIDE DEF z
  <2>2. \A i \in 1 .. z - a : SubSeq(words, a + 1, z)[i] = words[a + i]
    BY <2>1, <1>3
  <2> QED
    BY <2>1, <2>2 DEF z
<1>7. \A i \in 1 .. Len(r16) : words[a + i] = r16[i]
  BY <1>1, <1>2, <1>3, <1>4, <1>6
<1>8. \A i \in 1 .. Len(r32) : words[a + Len(r16) + i] = r32[i]
  <2> TAKE i \in 1 .. Len(r32)
  <2>1. Len(r16) + i \in 1 .. t.n16 + t.n32 /\ a + (Len(r16) + i) = a + Len(r16) + i
    BY <1>2, <1>3
  <2> QED
    BY <2>1, <1>2, <1>5, <1>6
<1>9. Table(words, t, S)
  BY <1>2, <1>3, <1>7, <1>8, HalvesJoined DEF a
<1> QED
  BY <1>9 DEF t

LEMMA AddKeeps ==
  ASSUME Tables, Packed(CodesOf(name)), Add
  PROVE  /\ words' \in Seq(Run) /\ DOMAIN where' = DOMAIN where \cup {name}
         /\ \A n \in DOMAIN where' : Table(words', where'[n], CodesOf(n))
<1>1. words \in Seq(Run) /\ \A n \in DOMAIN where : Table(words, where[n], CodesOf(n))
  BY DEF Tables
<1>2. CASE Same # {}
  <2> DEFINE m == CHOOSE n \in Same : TRUE
  <2>1. m \in Same /\ m \in DOMAIN where
    BY <1>2 DEF Same
  <2>2. where' = With(where, name, where[m]) /\ words' = words
    BY <1>2 DEF Add
  <2> HIDE DEF m
  <2>3. Table(words, where[m], CodesOf(name))
    BY <2>1, <1>1, SharedIsRight
  <2>4. DOMAIN where' = DOMAIN where \cup {name}
    BY <2>2 DEF With
  <2>5. \A n \in DOMAIN where' : where'[n] = IF n = name THEN where[m] ELSE where[n]
    BY <2>2 DEF With
  <2>6. \A n \in DOMAIN where' : Table(words, where'[n], CodesOf(n))
    BY <2>3, <2>4, <2>5, <1>1
  <2> QED
    BY <2>2, <2>4, <2>6, <1>1
<1>3. CASE Same = {}
  <2> DEFINE w == words \o r16 \o r32
             t == [at |-> Len(words), n16 |-> Len(r16), n32 |-> Len(r32), latin |-> LatinRuns]
  <2>1. where' = With(where, name, t) /\ words' = w
    BY <1>3 DEF Add
  <2>2. /\ w \in Seq(Run) /\ Len(words) \in Nat /\ Len(w) \in Nat /\ Len(words) <= Len(w)
        /\ \A i \in 1 .. Len(words) : w[i] = words[i]
        /\ Table(w, t, CodesOf(name))
    BY <1>1, LaidAtTheEnd
  <2> HIDE DEF w, t
  <2>3. \A n \in DOMAIN where : Table(w, where[n], CodesOf(n))
    BY <1>1, <2>2, TableStays
  <2>4. DOMAIN where' = DOMAIN where \cup {name}
    BY <2>1 DEF With
  <2>5. \A n \in DOMAIN where' : where'[n] = IF n = name THEN t ELSE where[n]
    BY <2>1 DEF With
  <2>6. \A n \in DOMAIN where' : Table(w, where'[n], CodesOf(n))
    BY <2>2, <2>3, <2>4, <2>5
  <2> QED
    BY <2>1, <2>2, <2>4, <2>6
<1> QED
  BY <1>2, <1>3

-----------------------------------------------------------------------------
(* The binary search *)

\* What the function of Search is: the run in the middle, or one half.
Halving(first, end, r, f) ==
    f = [span \in (first .. end) \X (first .. end) |->
            LET middle == (span[1] + span[2]) \div 2
                run == RangeAt(middle)
            IN  /\ span[1] < span[2]
                /\ IF run.lo <= r /\ r <= run.hi THEN OnStride(run, r)
                   ELSE IF r < run.lo THEN f[<<span[1], middle>>]
                   ELSE f[<<middle + 1, span[2]>>]]

\* r is in one of the runs of a half.
Hit(low, high, r) == \E i \in low .. high - 1 : r \in Points(RangeAt(i))

\* The runs from first up to end, in order.
Ordered(first, end) ==
    /\ \A i \in first .. end - 1 : IsRun(RangeAt(i))
    /\ \A i, j \in first .. end - 1 : i < j => RangeAt(i).hi < RangeAt(j).lo

LEMMA Middle ==
  ASSUME NEW low \in Nat, NEW high \in Nat, low < high
  PROVE  (low + high) \div 2 \in low .. high - 1
OBVIOUS

\* OnStride is membership, for a code point within the run.
LEMMA StrideIsMembership ==
  ASSUME NEW run, IsRun(run), NEW r \in Nat, run.lo <= r, r <= run.hi
  PROVE  OnStride(run, r) <=> r \in Points(run)
<1>1. run.lo \in Nat /\ run.hi \in Nat /\ r - run.lo \in Nat
  BY RunType
<1>2. (r - run.lo) % 1 = 0
  BY <1>1
<1> QED
  BY <1>1, <1>2 DEF OnStride, Points

\* Whether one half and the middle decide.
LEMMA HitByHalves ==
  ASSUME NEW first \in Nat, NEW end \in Nat, Ordered(first, end), NEW r \in Nat,
         NEW low \in first .. end, NEW high \in first .. end, low < high,
         NEW middle \in low .. high - 1
  PROVE  LET run == RangeAt(middle)
         IN  Hit(low, high, r) <=>
                IF run.lo <= r /\ r <= run.hi THEN OnStride(run, r)
                ELSE IF r < run.lo THEN Hit(low, middle, r)
                ELSE Hit(middle + 1, high, r)
<1> DEFINE run == RangeAt(middle)
<1>1. middle \in first .. end - 1 /\ low \in Nat /\ high \in Nat /\ middle \in Nat
  OBVIOUS
<1>2. IsRun(run) /\ run.lo \in Nat /\ run.hi \in Nat /\ run.lo <= run.hi
  BY <1>1, RunType DEF Ordered
<1>3. ASSUME NEW i \in low .. high - 1, r \in Points(RangeAt(i))
      PROVE  /\ i < middle => r < run.lo
             /\ i > middle => r > run.hi
             /\ i = middle => run.lo <= r /\ r <= run.hi
  <2>1. i \in first .. end - 1 /\ i \in Nat
    BY <1>1
  <2>2. IsRun(RangeAt(i)) /\ RangeAt(i).lo \in Nat /\ RangeAt(i).hi \in Nat
    BY <2>1, RunType DEF Ordered
  <2>3. RangeAt(i).lo <= r /\ r <= RangeAt(i).hi
    BY <1>3, <2>2, PointsWithin
  <2>4. i < middle => RangeAt(i).hi < run.lo
    BY <1>1, <2>1 DEF Ordered
  <2>5. i > middle => run.hi < RangeAt(i).lo
    BY <1>1, <2>1 DEF Ordered
  <2> QED
    BY <1>2, <2>2, <2>3, <2>4, <2>5
<1>4. \A i \in low .. middle - 1 : i \in low .. high - 1
  BY <1>1
<1>5. \A i \in middle + 1 .. high - 1 : i \in low .. high - 1
  BY <1>1
<1>6. CASE run.lo <= r /\ r <= run.hi
  <2>1. OnStride(run, r) <=> r \in Points(run)
    BY <1>2, <1>6, StrideIsMembership
  <2>2. ASSUME NEW i \in low .. high - 1, r \in Points(RangeAt(i)) PROVE i = middle
    BY <2>2, <1>1, <1>2, <1>3, <1>6
  <2> QED
    BY <2>1, <2>2, <1>6 DEF Hit
<1>7. CASE r < run.lo
  <2>1. ASSUME NEW i \in low .. high - 1, r \in Points(RangeAt(i)) PROVE i \in low .. middle - 1
    BY <2>1, <1>1, <1>2, <1>3, <1>7
  <2>2. ~(run.lo <= r)
    BY <1>2, <1>7
  <2> QED
    BY <2>1, <2>2, <1>4, <1>7 DEF Hit
<1>8. CASE run.hi < r
  <2>1. ASSUME NEW i \in low .. high - 1, r \in Points(RangeAt(i)) PROVE i \in middle + 1 .. high - 1
    BY <2>1, <1>1, <1>2, <1>3, <1>8
  <2>2. ~(r <= run.hi) /\ ~(r < run.lo)
    BY <1>2, <1>8
  <2> QED
    BY <2>1, <2>2, <1>5, <1>8 DEF Hit
<1> QED
  BY <1>2, <1>6, <1>7, <1>8

LEMMA SearchIs ==
  ASSUME NEW first, NEW count, NEW r
  PROVE  Search(first, count, r) =
            (CHOOSE f : Halving(first, first + count, r, f))[<<first, first + count>>]
BY DEF Search, Halving

LEMMA HalvingExists ==
  ASSUME NEW first \in Nat, NEW end \in Nat, Ordered(first, end), NEW r \in Nat
  PROVE  Halving(first, end, r,
                 [span \in (first .. end) \X (first .. end) |-> Hit(span[1], span[2], r)])
<1> DEFINE D == (first .. end) \X (first .. end)
           g == [span \in D |-> Hit(span[1], span[2], r)]
           Body(span) ==
             LET middle == (span[1] + span[2]) \div 2
                 run == RangeAt(middle)
             IN  /\ span[1] < span[2]
                 /\ IF run.lo <= r /\ r <= run.hi THEN OnStride(run, r)
                    ELSE IF r < run.lo THEN g[<<span[1], middle>>]
                    ELSE g[<<middle + 1, span[2]>>]
<1>1. ASSUME NEW span \in D
      PROVE  Hit(span[1], span[2], r) <=> Body(span)
  <2> DEFINE low == span[1]
             high == span[2]
             middle == (low + high) \div 2
             run == RangeAt(middle)
  <2>1. low \in first .. end /\ high \in first .. end /\ low \in Nat /\ high \in Nat
    OBVIOUS
  <2>2. CASE low < high
    <3>1. middle \in low .. high - 1
      BY <2>1, <2>2, Middle
    <3>2. middle \in first .. end /\ middle + 1 \in first .. end
      BY <2>1, <3>1
    <3>3. g[<<low, middle>>] = Hit(low, middle, r) /\ g[<<middle + 1, high>>] = Hit(middle + 1, high, r)
      BY <2>1, <3>2, Zenon
    <3> HIDE DEF middle, g
    <3>4. Hit(low, high, r) <=>
             IF run.lo <= r /\ r <= run.hi THEN OnStride(run, r)
             ELSE IF r < run.lo THEN Hit(low, middle, r)
             ELSE Hit(middle + 1, high, r)
      BY <2>1, <2>2, <3>1, HitByHalves
    <3> QED
      BY <2>2, <3>3, <3>4, Zenon DEF middle
  <2>3. CASE ~(low < high)
    <3>1. low .. high - 1 = {}
      BY <2>1, <2>3
    <3>2. ~Hit(low, high, r)
      BY <3>1 DEF Hit
    <3> QED
      BY <2>3, <3>2, Zenon
  <2> QED
    BY <2>2, <2>3
<1>2. \A span \in D : g[span] = Hit(span[1], span[2], r)
  BY Zenon
<1>3. g = [span \in D |-> g[span]]
  BY Zenon
<1>4. \A span \in D : Body(span) \in BOOLEAN /\ Hit(span[1], span[2], r) \in BOOLEAN
  BY DEF Hit
<1> HIDE DEF D, g
<1>5. \A span \in D : g[span] = Body(span)
  BY <1>1, <1>2, <1>4, Zenon
<1>6. g = [span \in D |-> Body(span)]
  BY <1>3, <1>5, Zenon
<1> QED
  BY <1>6, Zenon DEF Halving, D, g

\* The search answers whether r is in one of the runs.
LEMMA SearchFinds ==
  ASSUME NEW first \in Nat, NEW count \in Nat, Ordered(first, first + count), NEW r \in Nat
  PROVE  Search(first, count, r) <=> Hit(first, first + count, r)
<1> DEFINE end == first + count
           D == (first .. end) \X (first .. end)
           f == CHOOSE f : Halving(first, end, r, f)
<1>1. end \in Nat /\ first <= end
  OBVIOUS
<1>2. Halving(first, end, r, f)
  <2>1. \E g : Halving(first, end, r, g)
    BY <1>1, HalvingExists
  <2> QED
    BY <2>1, Zenon
<1>3. Search(first, count, r) = f[<<first, end>>]
  BY SearchIs, Zenon
<1> HIDE DEF f, end
<1> DEFINE T == {d \in Nat : \A low, high \in first .. end :
                    high - low <= d => (f[<<low, high>>] <=> Hit(low, high, r))}
<1>4. ASSUME NEW low \in first .. end, NEW high \in first .. end
      PROVE  LET middle == (low + high) \div 2
                 run == RangeAt(middle)
             IN  f[<<low, high>>] <=>
                    /\ low < high
                    /\ IF run.lo <= r /\ r <= run.hi THEN OnStride(run, r)
                       ELSE IF r < run.lo THEN f[<<low, middle>>]
                       ELSE f[<<middle + 1, high>>]
  <2>1. f[<<low, high>>] =
            LET middle == (low + high) \div 2
                run == RangeAt(middle)
            IN  /\ low < high
                /\ IF run.lo <= r /\ r <= run.hi THEN OnStride(run, r)
                   ELSE IF r < run.lo THEN f[<<low, middle>>]
                   ELSE f[<<middle + 1, high>>]
    BY <1>2 DEF Halving
  <2> QED
    BY <2>1, Zenon
<1>5. ASSUME NEW low \in first .. end, NEW high \in first .. end, ~(low < high)
      PROVE  ~f[<<low, high>>] /\ ~Hit(low, high, r)
  <2>1. low .. high - 1 = {}
    BY <1>1, <1>5
  <2>2. ~Hit(low, high, r)
    BY <2>1 DEF Hit
  <2> QED
    BY <1>4, <1>5, <2>2, Zenon
<1>6. 0 \in T
  <2> SUFFICES ASSUME NEW low \in first .. end, NEW high \in first .. end, high - low <= 0
               PROVE  f[<<low, high>>] <=> Hit(low, high, r)
    OBVIOUS
  <2>1. ~(low < high)
    BY <1>1
  <2> QED
    BY <2>1, <1>5, Zenon
<1>7. ASSUME NEW d \in 0 .. count - 1, d \in T PROVE d + 1 \in T
  <2>0. d + 1 \in Nat
    OBVIOUS
  <2> SUFFICES ASSUME NEW low \in first .. end, NEW high \in first .. end, high - low <= d + 1
               PROVE  f[<<low, high>>] <=> Hit(low, high, r)
    BY <2>0, Zenon
  <2>1. CASE ~(low < high)
    BY <2>1, <1>5, Zenon
  <2>2. CASE low < high
    <3> DEFINE middle == (low + high) \div 2
               run == RangeAt(middle)
    <3>1. low \in Nat /\ high \in Nat /\ middle \in low .. high - 1
      BY <1>1, <2>2, Middle
    <3> HIDE DEF middle
    <3>2. /\ middle \in first .. end /\ middle + 1 \in first .. end
          /\ middle - low <= d /\ high - (middle + 1) <= d
      BY <1>1, <3>1
    <3>3. /\ f[<<low, middle>>] <=> Hit(low, middle, r)
          /\ f[<<middle + 1, high>>] <=> Hit(middle + 1, high, r)
      BY <1>7, <3>2, Zenon
    <3>4. Hit(low, high, r) <=>
             IF run.lo <= r /\ r <= run.hi THEN OnStride(run, r)
             ELSE IF r < run.lo THEN Hit(low, middle, r)
             ELSE Hit(middle + 1, high, r)
      BY <1>1, <2>2, <3>1, HitByHalves DEF end
    <3>5. f[<<low, high>>] <=>
             /\ low < high
             /\ IF run.lo <= r /\ r <= run.hi THEN OnStride(run, r)
                ELSE IF r < run.lo THEN f[<<low, middle>>]
                ELSE f[<<middle + 1, high>>]
      BY <1>4, Zenon DEF middle
    <3> QED
      BY <2>2, <3>3, <3>4, <3>5, Zenon
  <2> QED
    BY <2>1, <2>2
<1>8. count \in T
  <2>1. T \in SUBSET Nat
    OBVIOUS
  <2> HIDE DEF T
  <2> QED
    BY <2>1, <1>6, <1>7, UpTo
<1>9. first \in first .. end /\ end \in first .. end /\ end - first <= count
  BY <1>1 DEF end
<1>10. f[<<first, end>>] <=> Hit(first, end, r)
  BY <1>8, <1>9, Zenon
<1> QED
  BY <1>3, <1>10, Zenon DEF end

-----------------------------------------------------------------------------
(* The scan, and the two halves of a table *)

LEMMA LeastOfMany ==
  ASSUME NEW S \in SUBSET Nat, S # {}
  PROVE  LeastIn(S) \in S /\ \A y \in S : LeastIn(S) <= y
<1>1. \E x \in S : \A y \in S : x <= y
  BY LeastNatural
<1> QED
  BY <1>1, Zenon DEF LeastIn

\* The first run that ends at or after r is the only one that can have it.
LEMMA ScanFinds ==
  ASSUME NEW first \in Nat, NEW count \in Nat, Ordered(first, first + count), NEW r \in Nat
  PROVE  Scan(first, count, r) <=> Hit(first, first + count, r)
<1> DEFINE end == first + count
           ends == {i \in first .. end - 1 : r < RangeAt(i).lo \/ r <= RangeAt(i).hi}
           m == LeastIn(ends)
<1>1. \A i \in first .. end - 1 : /\ IsRun(RangeAt(i)) /\ RangeAt(i).lo \in Nat /\ RangeAt(i).hi \in Nat
                                  /\ RangeAt(i).lo <= RangeAt(i).hi
  BY RunType DEF Ordered
<1>2. ASSUME NEW i \in first .. end - 1, r \in Points(RangeAt(i))
      PROVE  i \in ends /\ RangeAt(i).lo <= r /\ r <= RangeAt(i).hi
  BY <1>1, <1>2, PointsWithin
<1>3. ends \in SUBSET Nat
  OBVIOUS
<1>4. Scan(first, count, r) <=> /\ ends # {}
                                /\ r >= RangeAt(m).lo
                                /\ OnStride(RangeAt(m), r)
  BY DEF Scan
<1>5. CASE ends = {}
  <2>1. ~Hit(first, end, r)
    BY <1>2, <1>5 DEF Hit
  <2> QED
    BY <2>1, <1>4, <1>5
<1>6. CASE ends # {}
  <2>1. m \in ends /\ \A i \in ends : m <= i
    BY <1>3, <1>6, LeastOfMany
  <2>2. m \in first .. end - 1 /\ r <= RangeAt(m).hi
    BY <2>1, <1>1
  <2> HIDE DEF m
  <2>3. ASSUME NEW i \in first .. end - 1, r \in Points(RangeAt(i)) PROVE i = m
    <3>1. m <= i /\ RangeAt(i).lo <= r
      BY <2>1, <2>3, <1>2
    <3>2. m < i => RangeAt(m).hi < RangeAt(i).lo
      BY <2>2 DEF Ordered
    <3>3. RangeAt(i).lo \in Nat /\ RangeAt(m).hi \in Nat
      BY <1>1, <2>2
    <3> QED
      BY <3>1, <3>2, <3>3, <2>2
  <2>4. Hit(first, end, r) <=> r \in Points(RangeAt(m))
    BY <2>2, <2>3 DEF Hit
  <2>5. r >= RangeAt(m).lo => (OnStride(RangeAt(m), r) <=> r \in Points(RangeAt(m)))
    <3>1. IsRun(RangeAt(m)) /\ RangeAt(m).lo \in Nat
      BY <1>1, <2>2
    <3>2. r >= RangeAt(m).lo <=> RangeAt(m).lo <= r
      BY <3>1
    <3> QED
      BY <3>1, <3>2, <2>2, StrideIsMembership
  <2>6. r \in Points(RangeAt(m)) => r >= RangeAt(m).lo
    BY <1>1, <2>2, PointsWithin
  <2> QED
    BY <2>4, <2>5, <2>6, <1>4, <1>6
<1> QED
  BY <1>5, <1>6

LEMMA EitherWayFinds ==
  ASSUME NEW first \in Nat, NEW count \in Nat, Ordered(first, first + count), NEW r \in Nat
  PROVE  /\ Is16(first, count, r) <=> Hit(first, first + count, r)
         /\ Is32(first, count, r) <=> Hit(first, first + count, r)
<1>1. /\ Search(first, count, r) <=> Hit(first, first + count, r)
      /\ Scan(first, count, r) <=> Hit(first, first + count, r)
  BY SearchFinds, ScanFinds
<1> QED
  BY <1>1, Zenon DEF Is16, Is32

\* Whatever runs are skipped, and on whichever side of the edge r is.
LEMMA IsFromFinds ==
  ASSUME words \in Seq(Run), NEW t, NEW S, Table(words, t, S),
         NEW skip \in 0 .. t.n16, NEW r \in Rune
  PROVE  IsFrom(t, skip, r) <=> Hit(t.at + skip, t.at + t.n16 + t.n32, r)
<1> DEFINE a == t.at + skip
           b == t.at + t.n16
           e == b + t.n32
           u == Unsigned(r)
<1>1. t.at \in Nat /\ t.n16 \in Nat /\ t.n32 \in Nat
  BY DEF Table
<1>2. a \in Nat /\ b \in Nat /\ e \in Nat /\ t.at <= a /\ a <= b /\ b <= e /\ skip \in Nat
      /\ e = t.at + t.n16 + t.n32
  BY <1>1
<1>3. \A i \in t.at .. e - 1 : i + 1 \in t.at + 1 .. t.at + t.n16 + t.n32
  BY <1>1
<1>4. \A i \in t.at .. e - 1 :
        /\ IsRun(RangeAt(i)) /\ RangeAt(i).lo \in Nat /\ RangeAt(i).hi \in Nat
        /\ RangeAt(i).lo <= RangeAt(i).hi /\ RangeAt(i).hi <= MAX_RUNE
  <2> TAKE i \in t.at .. e - 1
  <2>1. IsRun(RangeAt(i))
    BY <1>3 DEF Table, RangeAt
  <2>2. RangeAt(i).hi \in Code
    BY <2>1 DEF IsRun, Run
  <2> QED
    BY <2>1, <2>2, RunType, LimitsAssumption DEF Code
<1>5. \A i, j \in t.at .. e - 1 : i < j => RangeAt(i).hi < RangeAt(j).lo
  <2> TAKE i, j \in t.at .. e - 1
  <2> HAVE i < j
  <2>1. i + 1 < j + 1
    BY <1>1, <1>2
  <2> QED
    BY <2>1, <1>3 DEF Table, RangeAt
<1>6. \A i \in t.at .. b - 1 : RangeAt(i).hi <= MAX_16
  <2> TAKE i \in t.at .. b - 1
  <2>1. i + 1 \in t.at + 1 .. t.at + t.n16
    BY <1>1
  <2> QED
    BY <2>1 DEF Table, RangeAt
<1>7. \A i \in b .. e - 1 : RangeAt(i).lo > MAX_16
  <2> TAKE i \in b .. e - 1
  <2>1. i + 1 \in t.at + t.n16 + 1 .. t.at + t.n16 + t.n32
    BY <1>1
  <2> QED
    BY <2>1 DEF Table, RangeAt
<1>8. /\ r \in Int /\ u \in Nat
      /\ r >= 0 => u = r
      /\ r < 0 => u > MAX_RUNE
  BY LimitsAssumption DEF Rune, Unsigned
<1>9. IsFrom(t, skip, r) =
        IF t.n16 > skip /\ u <= RangeAt(b - 1).hi
        THEN Is16(a, t.n16 - skip, u)
        ELSE /\ t.n32 > 0
             /\ r >= 0 /\ u >= RangeAt(b).lo
             /\ Is32(b, t.n32, u)
  <2> DEFINE last == t.at + t.n16 - 1
  <2>1. last = b - 1
    BY <1>1
  <2>2. IsFrom(t, skip, r) =
          IF t.n16 > skip /\ u <= RangeAt(last).hi
          THEN Is16(a, t.n16 - skip, u)
          ELSE /\ t.n32 > 0
               /\ r >= 0 /\ u >= RangeAt(b).lo
               /\ Is32(b, t.n32, u)
    BY Zenon DEF IsFrom
  <2> HIDE DEF last
  <2> QED
    BY <2>1, <2>2, Zenon
<1>10. /\ t.n16 - skip \in Nat /\ a + (t.n16 - skip) = b
       /\ t.n16 > skip <=> a < b
       /\ t.n32 > 0 <=> b < e
  <2>1. t.n16 - skip \in Nat /\ a + (t.n16 - skip) = b
    BY <1>1, <1>2
  <2>2. t.n16 > skip <=> a < b
    BY <1>1, <1>2
  <2>3. t.n32 > 0 <=> b < e
    BY <1>1, <1>2
  <2> QED
    BY <2>1, <2>2, <2>3
<1> HIDE DEF a, b, e, u
<1>11. Ordered(a, b) /\ Ordered(b, e)
  <2>1. \A i \in a .. b - 1 : i \in t.at .. e - 1
    BY <1>1, <1>2
  <2>2. \A i \in b .. e - 1 : i \in t.at .. e - 1
    BY <1>1, <1>2
  <2> QED
    BY <2>1, <2>2, <1>4, <1>5 DEF Ordered
<1>12. Is16(a, t.n16 - skip, u) <=> Hit(a, b, u)
  BY <1>2, <1>8, <1>10, <1>11, EitherWayFinds
<1>13. Is32(b, t.n32, u) <=> Hit(b, e, u)
  <2>1. b + t.n32 = e
    BY DEF e
  <2> QED
    BY <2>1, <1>1, <1>2, <1>8, <1>11, EitherWayFinds
<1>14. \A i \in t.at .. e - 1 : r \in Points(RangeAt(i)) =>
         r >= 0 /\ u = r /\ RangeAt(i).lo <= r /\ r <= RangeAt(i).hi
  BY <1>4, <1>8, PointsWithin
<1>15. Hit(a, e, r) <=> Hit(a, b, r) \/ Hit(b, e, r)
  <2>1. \A i : i \in a .. e - 1 <=> i \in a .. b - 1 \/ i \in b .. e - 1
    BY <1>2
  <2> QED
    BY <2>1, Zenon DEF Hit
<1>16. CASE t.n16 > skip /\ u <= RangeAt(b - 1).hi
  <2>1. b - 1 \in t.at .. b - 1 /\ b - 1 \in t.at .. e - 1
    BY <1>1, <1>2, <1>10, <1>16
  <2>2. RangeAt(b - 1).hi \in Nat /\ RangeAt(b - 1).hi <= MAX_16 /\ RangeAt(b - 1).hi <= MAX_RUNE
    BY <2>1, <1>4, <1>6
  <2>3. r >= 0 /\ u = r /\ r <= MAX_16
    BY <2>2, <1>8, <1>16, LimitsAssumption
  <2>4. ~Hit(b, e, r)
    <3> SUFFICES ASSUME NEW i \in b .. e - 1, r \in Points(RangeAt(i)) PROVE FALSE
      BY DEF Hit
    <3>1. i \in t.at .. e - 1
      BY <1>1, <1>2
    <3>2. RangeAt(i).lo > MAX_16 /\ RangeAt(i).lo <= r /\ RangeAt(i).lo \in Nat
      BY <3>1, <1>4, <1>7, <1>14
    <3> QED
      BY <3>2, <2>3, <1>8, LimitsAssumption
  <2> QED
    BY <2>3, <2>4, <1>9, <1>12, <1>15, <1>16, Zenon DEF a, b, e
<1>17. CASE ~(t.n16 > skip /\ u <= RangeAt(b - 1).hi)
  <2>1. ~Hit(a, b, r)
    <3> SUFFICES ASSUME NEW i \in a .. b - 1, r \in Points(RangeAt(i)) PROVE FALSE
      BY DEF Hit
    <3>1. /\ i \in t.at .. e - 1 /\ b - 1 \in t.at .. e - 1 /\ t.n16 > skip /\ i <= b - 1
          /\ i \in Int /\ b - 1 \in Int
      <4>1. a < b
        BY <1>2
      <4>2. t.n16 > skip
        BY <4>1, <1>10
      <4> QED
        BY <4>2, <1>1, <1>2
    <3>2. u = r /\ r <= RangeAt(i).hi /\ RangeAt(i).hi \in Nat
      BY <3>1, <1>4, <1>14
    <3>3. i < b - 1 => RangeAt(i).hi < RangeAt(b - 1).lo
      BY <3>1, <1>5
    <3>4. RangeAt(b - 1).lo \in Nat /\ RangeAt(b - 1).hi \in Nat /\ RangeAt(b - 1).lo <= RangeAt(b - 1).hi
      BY <3>1, <1>4
    <3>5. RangeAt(i).hi <= RangeAt(b - 1).hi
      BY <3>1, <3>2, <3>3, <3>4
    <3> QED
      BY <3>1, <3>2, <3>4, <3>5, <1>8, <1>17
  <2>2. Hit(b, e, r) => t.n32 > 0 /\ r >= 0 /\ u = r /\ u >= RangeAt(b).lo
    <3> SUFFICES ASSUME NEW i \in b .. e - 1, r \in Points(RangeAt(i))
                 PROVE  t.n32 > 0 /\ r >= 0 /\ u = r /\ u >= RangeAt(b).lo
      BY DEF Hit
    <3>1. /\ i \in t.at .. e - 1 /\ b \in t.at .. e - 1 /\ b < e /\ b <= i
          /\ i \in Int
      BY <1>1, <1>2
    <3>2. r >= 0 /\ u = r /\ RangeAt(i).lo <= r /\ RangeAt(i).lo \in Nat
      BY <3>1, <1>4, <1>14
    <3>3. b < i => RangeAt(b).hi < RangeAt(i).lo
      BY <3>1, <1>5
    <3>4. RangeAt(b).lo \in Nat /\ RangeAt(b).hi \in Nat /\ RangeAt(b).lo <= RangeAt(b).hi
      BY <3>1, <1>4
    <3>5. RangeAt(b).lo <= RangeAt(i).lo
      BY <3>1, <3>2, <3>3, <3>4, <1>2
    <3>6. u >= RangeAt(b).lo
      BY <3>2, <3>4, <3>5, <1>8
    <3> QED
      BY <3>1, <3>2, <3>6, <1>10
  <2>3. r >= 0 => u = r
    BY <1>8
  <2>4. IsFrom(t, skip, r) <=> /\ t.n32 > 0
                               /\ r >= 0 /\ u >= RangeAt(b).lo
                               /\ Hit(b, e, u)
    BY <1>9, <1>13, <1>17, Zenon
  <2> QED
    BY <2>1, <2>2, <2>3, <2>4, <1>15, Zenon DEF a, b, e
<1> QED
  BY <1>16, <1>17

LEMMA TableAnswers ==
  ASSUME words \in Seq(Run), NEW t, NEW S, Table(words, t, S), S \subseteq Code, NEW r \in Rune
  PROVE  /\ IsIn(t, r) <=> r \in S
         /\ r > MAX_LATIN1 => (IsExcludingLatin(t, r) <=> r \in S)
<1> DEFINE e == t.at + t.n16 + t.n32
<1>1. /\ t.at \in Nat /\ t.n16 \in Nat /\ t.n32 \in Nat /\ t.latin \in 0 .. t.n16
      /\ \A i \in t.at + 1 .. e : IsRun(words[i])
      /\ \A i \in t.at + 1 .. t.at + t.latin : words[i].hi <= MAX_LATIN1
      /\ \A c \in Code : c \in S <=> \E i \in t.at + 1 .. e : c \in Points(words[i])
  BY DEF Table
<1> HIDE DEF e
<1>2. e \in Nat /\ t.at + t.latin <= e
  BY <1>1 DEF e
<1>3. \A i \in t.at + 1 .. e : i - 1 \in t.at .. e - 1 /\ RangeAt(i - 1) = words[i]
  BY <1>1, <1>2 DEF RangeAt
<1>4. \A i \in t.at .. e - 1 : i + 1 \in t.at + 1 .. e /\ RangeAt(i) = words[i + 1]
  BY <1>1, <1>2 DEF RangeAt
<1>5. \A c : Hit(t.at, e, c) <=> \E i \in t.at + 1 .. e : c \in Points(words[i])
  BY <1>3, <1>4 DEF Hit
<1>6. \A c : (\E i \in t.at + 1 .. e : c \in Points(words[i])) => c \in Code
  <2> TAKE c
  <2> SUFFICES ASSUME NEW i \in t.at + 1 .. e, c \in Points(words[i]) PROVE c \in Code
    OBVIOUS
  <2>1. words[i].lo \in Code /\ words[i].hi \in Code /\ IsRun(words[i])
    BY <1>1 DEF IsRun, Run
  <2>2. c \in Int /\ words[i].lo <= c /\ c <= words[i].hi
    BY <2>1, PointsWithin
  <2> QED
    BY <2>1, <2>2, LimitsAssumption DEF Code
<1>7. Hit(t.at, e, r) <=> r \in S
  BY <1>1, <1>5, <1>6
<1>8. IsIn(t, r) <=> r \in S
  <2>1. 0 \in 0 .. t.n16 /\ t.at + 0 = t.at
    BY <1>1
  <2>2. IsFrom(t, 0, r) <=> Hit(t.at + 0, e, r)
    BY <2>1, IsFromFinds DEF e
  <2> QED
    BY <2>1, <2>2, <1>7, Zenon DEF IsIn
<1>9. ASSUME r > MAX_LATIN1 PROVE IsExcludingLatin(t, r) <=> r \in S
  <2>1. IsFrom(t, t.latin, r) <=> Hit(t.at + t.latin, e, r)
    BY <1>1, IsFromFinds DEF e
  <2>2. \A i \in t.at + t.latin .. e - 1 : i \in t.at .. e - 1
    BY <1>1, <1>2
  <2>3. \A i \in t.at .. e - 1 : r \in Points(RangeAt(i)) => i \in t.at + t.latin .. e - 1
    <3> SUFFICES ASSUME NEW i \in t.at .. t.at + t.latin - 1, r \in Points(RangeAt(i)) PROVE FALSE
      BY <1>1, <1>2
    <3>1. i + 1 \in t.at + 1 .. t.at + t.latin /\ i + 1 \in t.at + 1 .. e /\ i \in t.at .. e - 1
      BY <1>1, <1>2
    <3>2. IsRun(words[i + 1]) /\ words[i + 1].hi <= MAX_LATIN1 /\ r \in Points(words[i + 1])
      BY <3>1, <1>1, <1>4
    <3>3. r \in Int /\ r <= words[i + 1].hi /\ words[i + 1].hi \in Nat
      BY <3>2, PointsWithin
    <3> QED
      BY <3>2, <3>3, <1>9, LimitsAssumption
  <2>4. Hit(t.at + t.latin, e, r) <=> Hit(t.at, e, r)
    BY <2>2, <2>3 DEF Hit
  <2> QED
    BY <2>1, <2>4, <1>7, Zenon DEF IsExcludingLatin
<1> QED
  BY <1>8, <1>9

-----------------------------------------------------------------------------
(* The database *)

\* A code point as the rows have it.
CharOf(f, c) ==
    IF RowsOf(f, c) = {} THEN UnreadChar
    ELSE Assigned(f.rows[CHOOSE i \in RowsOf(f, c) : TRUE], c)

\* The rows are typed, and the row of a code point is its only one.
LEMMA RowsTyped ==
  ASSUME NEW f \in Files
  PROVE  /\ Len(f.rows) \in Nat /\ DOMAIN f.rows = 1 .. Len(f.rows)
         /\ \A i \in DOMAIN f.rows :
              /\ f.rows[i] \in Fields /\ RowIsSound(f, f.rows[i])
              /\ f.rows[i].first \in Code /\ f.rows[i].last \in Code
              /\ f.rows[i].upper \in Code /\ f.rows[i].lower \in Code /\ f.rows[i].title \in Code
<1>1. f.rows \in Seq(Fields)
  BY FilesAssumption
<1>2. /\ Len(f.rows) \in Nat /\ DOMAIN f.rows = 1 .. Len(f.rows)
      /\ \A i \in DOMAIN f.rows : f.rows[i] \in Fields
  BY <1>1
<1>3. \A i \in DOMAIN f.rows : RowIsSound(f, f.rows[i])
  BY FilesAssumption DEF RowsAreSound
<1> QED
  BY <1>2, <1>3 DEF Fields

LEMMA OneRow ==
  ASSUME NEW f \in Files, NEW c \in Code, NEW i \in RowsOf(f, c)
  PROVE  /\ RowsOf(f, c) = {i} /\ i \in DOMAIN f.rows
         /\ CharOf(f, c) = Assigned(f.rows[i], c)
         /\ GivenCategory(f, c) = f.rows[i].category
         /\ \A field : GivenCase(f, field, c) = IF f.rows[i][field] = 0 THEN c ELSE f.rows[i][field]
<1>1. ASSUME NEW j \in RowsOf(f, c) PROVE j = i
  <2>1. i \in DOMAIN f.rows /\ j \in DOMAIN f.rows /\ i \in Nat /\ j \in Nat
    BY RowsTyped DEF RowsOf
  <2>2. /\ f.rows[i].first \in Int /\ f.rows[i].last \in Int
        /\ f.rows[j].first \in Int /\ f.rows[j].last \in Int
    BY <2>1, RowsTyped, LimitsAssumption DEF Code
  <2>3. /\ i < j => f.rows[i].last < f.rows[j].first
        /\ j < i => f.rows[j].last < f.rows[i].first
    BY <2>1, FilesAssumption DEF RowsAreSound
  <2>4. c \in f.rows[i].first .. f.rows[i].last /\ c \in f.rows[j].first .. f.rows[j].last
    BY DEF RowsOf
  <2> QED
    BY <2>1, <2>2, <2>3, <2>4
<1>2. RowsOf(f, c) = {i}
  BY <1>1
<1>3. (CHOOSE j \in RowsOf(f, c) : TRUE) = i
  BY <1>2
<1> QED
  BY <1>2, <1>3 DEF CharOf, GivenCategory, GivenCase, RowsOf

LEMMA AssignedFields ==
  ASSUME NEW row, NEW c
  PROVE  LET x == Assigned(row, c)
         IN  /\ x.assigned = TRUE /\ x.category = row.category /\ x.fold = 0 /\ x.orbit = 0
             /\ x.upper = IF row.category = Lu THEN c ELSE row.upper
             /\ x.lower = IF row.category = Ll THEN c ELSE row.lower
             /\ x.title = IF row.category = Lt THEN c ELSE row.title
BY DEF Assigned, UnreadChar

\* A code point without a row.
LEMMA NoRow ==
  ASSUME NEW f, NEW c, RowsOf(f, c) = {}
  PROVE  LET x == CharOf(f, c)
         IN  /\ x.assigned = FALSE /\ x.category = Cn /\ x.fold = 0 /\ x.orbit = 0
             /\ x.upper = 0 /\ x.lower = 0 /\ x.title = 0
             /\ GivenCategory(f, c) = Cn /\ \A field : GivenCase(f, field, c) = c
BY DEF CharOf, UnreadChar, GivenCategory, GivenCase

\* What a row makes of the code points it is about.
LEMMA RowOfChar ==
  ASSUME NEW f \in Files, NEW c \in Code, NEW i \in RowsOf(f, c)
  PROVE  LET row == f.rows[i]
             x == CharOf(f, c)
         IN  /\ RowIsSound(f, row) /\ i \in DOMAIN f.rows
             /\ row.category = <<row.category[1], row.category[2]>> /\ row.category # LC
             /\ row.upper \in Code /\ row.lower \in Code /\ row.title \in Code
             /\ row.upper # 0 \/ row.lower # 0 \/ row.title # 0 => row.first = c
             /\ row.first \in Int /\ row.last \in Int /\ row.first <= c /\ c <= row.last
             /\ x = Assigned(row, c)
<1>1. i \in DOMAIN f.rows /\ c \in f.rows[i].first .. f.rows[i].last
  BY DEF RowsOf
<1>2. /\ f.rows[i] \in Fields /\ RowIsSound(f, f.rows[i])
      /\ f.rows[i].first \in Int /\ f.rows[i].last \in Int
      /\ f.rows[i].upper \in Code /\ f.rows[i].lower \in Code /\ f.rows[i].title \in Code
  BY <1>1, RowsTyped, LimitsAssumption DEF Code
<1>3. c \in Int /\ f.rows[i].first <= c /\ c <= f.rows[i].last
  BY <1>1, <1>2
<1>4. ~(f.rows[i].first < f.rows[i].last) => f.rows[i].first = c
  BY <1>2, <1>3
<1>5. f.rows[i].first < f.rows[i].last =>
        f.rows[i].upper = 0 /\ f.rows[i].lower = 0 /\ f.rows[i].title = 0
  <2>1. f.rows[i].first < f.rows[i].last =>
          {f.rows[i].upper, f.rows[i].lower, f.rows[i].title} = {0}
    BY <1>2, Zenon DEF RowIsSound
  <2> QED
    BY <2>1, Zenon
<1>6. CharOf(f, c) = Assigned(f.rows[i], c)
  BY OneRow
<1>7. /\ f.rows[i].category = <<f.rows[i].category[1], f.rows[i].category[2]>>
      /\ f.rows[i].category # LC
  <2>1. f.rows[i].category \in (STRING \X STRING) \ {LC}
    BY <1>2 DEF Fields
  <2> QED
    BY <2>1
<1> QED
  BY <1>1, <1>2, <1>3, <1>4, <1>5, <1>6, <1>7

LEMMA CharFacts ==
  ASSUME NEW f \in Files, NEW c \in Code
  PROVE  LET x == CharOf(f, c)
         IN  /\ x.category = GivenCategory(f, c)
             /\ x.category = <<x.category[1], x.category[2]>> /\ x.category # LC
             /\ x.upper \in Code /\ x.lower \in Code /\ x.title \in Code
             /\ x.fold = 0 /\ x.orbit = 0
             /\ x.assigned \in BOOLEAN
             /\ ~x.assigned => x.upper = 0 /\ x.lower = 0 /\ x.title = 0
             /\ GivenCase(f, "upper", c) = IF x.upper = 0 THEN c ELSE x.upper
             /\ GivenCase(f, "lower", c) = IF x.lower = 0 THEN c ELSE x.lower
             /\ GivenCase(f, "title", c) = IF x.title = 0 THEN c ELSE x.title
<1> DEFINE x == CharOf(f, c)
<1>1. CASE RowsOf(f, c) = {}
  <2>1. /\ x.assigned = FALSE /\ x.category = Cn /\ x.fold = 0 /\ x.orbit = 0
        /\ x.upper = 0 /\ x.lower = 0 /\ x.title = 0
        /\ GivenCategory(f, c) = Cn /\ \A field : GivenCase(f, field, c) = c
    BY <1>1, NoRow
  <2>2. Cn = <<Cn[1], Cn[2]>> /\ Cn # LC
    <3>1. "C" # "L"
      OBVIOUS
    <3>2. <<"C", "n">> # <<"L", "C">>
      BY <3>1
    <3> QED
      BY <3>2 DEF Cn, LC
  <2>3. 0 \in Code
    BY LimitsAssumption DEF Code
  <2> HIDE DEF x
  <2> QED
    BY <2>1, <2>2, <2>3 DEF x
<1>2. CASE RowsOf(f, c) # {}
  <2>1. PICK i \in RowsOf(f, c) : TRUE
    BY <1>2
  <2> DEFINE row == f.rows[i]
  <2>2. /\ RowIsSound(f, row) /\ row.category = <<row.category[1], row.category[2]>> /\ row.category # LC
        /\ row.upper \in Code /\ row.lower \in Code /\ row.title \in Code
        /\ row.upper # 0 \/ row.lower # 0 \/ row.title # 0 => row.first = c
        /\ x = Assigned(row, c)
    BY <2>1, RowOfChar
  <2>3. /\ GivenCategory(f, c) = row.category
        /\ \A field : GivenCase(f, field, c) = IF row[field] = 0 THEN c ELSE row[field]
    BY <2>1, OneRow
  <2>4. /\ GivenCase(f, "upper", c) = IF row.upper = 0 THEN c ELSE row.upper
        /\ GivenCase(f, "lower", c) = IF row.lower = 0 THEN c ELSE row.lower
        /\ GivenCase(f, "title", c) = IF row.title = 0 THEN c ELSE row.title
    BY <2>3
  <2>5. /\ row.category = Lu => row.upper \in {0, row.first}
        /\ row.category = Ll => row.lower \in {0, row.first}
        /\ row.category = Lt => row.title \in {0, row.first}
    BY <2>2 DEF RowIsSound
  <2> HIDE DEF x, row
  <2>6. /\ x.assigned = TRUE /\ x.category = row.category /\ x.fold = 0 /\ x.orbit = 0
        /\ x.upper = IF row.category = Lu THEN c ELSE row.upper
        /\ x.lower = IF row.category = Ll THEN c ELSE row.lower
        /\ x.title = IF row.category = Lt THEN c ELSE row.title
    BY <2>2, AssignedFields
  <2>7. /\ row.category = Lu => row.upper \in {0, c}
        /\ row.category = Ll => row.lower \in {0, c}
        /\ row.category = Lt => row.title \in {0, c}
    BY <2>2, <2>5
  <2>8. /\ (IF row.upper = 0 THEN c ELSE row.upper) = IF x.upper = 0 THEN c ELSE x.upper
        /\ (IF row.lower = 0 THEN c ELSE row.lower) = IF x.lower = 0 THEN c ELSE x.lower
        /\ (IF row.title = 0 THEN c ELSE row.title) = IF x.title = 0 THEN c ELSE x.title
    BY <2>6, <2>7
  <2> QED
    BY <2>2, <2>3, <2>4, <2>6, <2>8 DEF x
<1> QED
  BY <1>1, <1>2

\* Which case a code point has, and the cases of its cases.
LEMMA CaseFacts ==
  ASSUME NEW f \in Files, NEW c \in Code
  PROVE  LET x == CharOf(f, c)
         IN  /\ x.title \in {0, c} \/ x.upper # 0 \/ x.lower # 0
             /\ c = MAX_RUNE => ~x.assigned
             /\ x.upper \notin {0, c} => CharOf(f, x.upper).upper \in {0, x.upper}
             /\ x.lower \notin {0, c} => CharOf(f, x.lower).lower \in {0, x.lower}
             /\ x.upper \notin {0, c} /\ x.lower \notin {0, c} =>
                    /\ x.upper # x.lower
                    /\ Canonical(f, x.upper) = Canonical(f, c)
                    /\ Canonical(f, x.lower) = Canonical(f, c)
<1> DEFINE x == CharOf(f, c)
<1>1. CASE RowsOf(f, c) = {}
  <2>1. x.assigned = FALSE /\ x.upper = 0 /\ x.lower = 0 /\ x.title = 0
    BY <1>1, NoRow
  <2> HIDE DEF x
  <2> QED
    BY <2>1 DEF x
<1>2. CASE RowsOf(f, c) # {}
  <2>1. PICK i \in RowsOf(f, c) : TRUE
    BY <1>2
  <2> DEFINE row == f.rows[i]
  <2>2. /\ RowIsSound(f, row) /\ i \in DOMAIN f.rows
        /\ row.upper \in Code /\ row.lower \in Code /\ row.title \in Code
        /\ row.upper # 0 \/ row.lower # 0 \/ row.title # 0 => row.first = c
        /\ row.first \in Int /\ row.last \in Int /\ row.first <= c /\ c <= row.last
        /\ x = Assigned(row, c)
    BY <2>1, RowOfChar
  <2> HIDE DEF x, row
  <2>3. /\ x.upper = IF row.category = Lu THEN c ELSE row.upper
        /\ x.lower = IF row.category = Ll THEN c ELSE row.lower
        /\ x.title = IF row.category = Lt THEN c ELSE row.title
    BY <2>2, AssignedFields
  <2> USE DEF x, row
  <2>4. c \in Int /\ MAX_RUNE \in Int /\ row.last < MAX_RUNE
    BY <2>2, LimitsAssumption DEF RowIsSound, Code
  <2>5. c # MAX_RUNE
    BY <2>2, <2>4
  <2>6. c = 0 => row.title = 0
    <3> SUFFICES ASSUME c = 0 PROVE row.title = 0
      OBVIOUS
    <3>1. 0 \in 0 .. MAX_ASCII /\ 0 - CASE_SHIFT \notin CAPITALS
      BY LimitsAssumption
    <3>2. GivenCase(f, "title", 0) = 0
      BY <3>1, FilesAssumption DEF AsciiIsSound
    <3>3. GivenCase(f, "title", 0) = IF row.title = 0 THEN 0 ELSE row.title
      BY <2>1, OneRow
    <3> QED
      BY <3>2, <3>3
  <2>7. row.upper # 0 \/ row.lower # 0 \/ row.title \in {0, row.first}
    BY <2>2 DEF RowIsSound
  <2>8. x.title \in {0, c} \/ x.upper # 0 \/ x.lower # 0
    BY <2>2, <2>3, <2>6, <2>7
  <2>9. ASSUME x.upper \notin {0, c} PROVE CharOf(f, x.upper).upper \in {0, x.upper}
    <3> DEFINE d == x.upper
    <3>1. d = row.upper /\ d \in Code /\ row.first = c
      BY <2>2, <2>3, <2>9
    <3>2. CASE RowsOf(f, d) = {}
      BY <3>2, NoRow
    <3>3. CASE RowsOf(f, d) # {}
      <4>1. PICK j \in RowsOf(f, d) : TRUE
        BY <3>3
      <4>2. /\ f.rows[j].upper # 0 => f.rows[j].first = d
            /\ CharOf(f, d) = Assigned(f.rows[j], d) /\ j \in DOMAIN f.rows
        BY <3>1, <4>1, RowOfChar
      <4>3. f.rows[j].first = row.upper => f.rows[j].upper \in {0, f.rows[j].first}
        BY <2>2, <4>2, FilesAssumption DEF RowsAreSound
      <4> HIDE DEF d
      <4>4. CharOf(f, d).upper \in {d, f.rows[j].upper}
        <5>1. Assigned(f.rows[j], d).upper
                = IF f.rows[j].category = Lu THEN d ELSE f.rows[j].upper
          BY AssignedFields
        <5> QED
          BY <4>2, <5>1
      <4> QED
        BY <3>1, <4>2, <4>3, <4>4 DEF d
    <3> QED
      BY <3>2, <3>3
  <2>10. ASSUME x.lower \notin {0, c} PROVE CharOf(f, x.lower).lower \in {0, x.lower}
    <3> DEFINE d == x.lower
    <3>1. d = row.lower /\ d \in Code /\ row.first = c
      BY <2>2, <2>3, <2>10
    <3>2. CASE RowsOf(f, d) = {}
      BY <3>2, NoRow
    <3>3. CASE RowsOf(f, d) # {}
      <4>1. PICK j \in RowsOf(f, d) : TRUE
        BY <3>3
      <4>2. /\ f.rows[j].lower # 0 => f.rows[j].first = d
            /\ CharOf(f, d) = Assigned(f.rows[j], d) /\ j \in DOMAIN f.rows
        BY <3>1, <4>1, RowOfChar
      <4>3. f.rows[j].first = row.lower => f.rows[j].lower \in {0, f.rows[j].first}
        BY <2>2, <4>2, FilesAssumption DEF RowsAreSound
      <4> HIDE DEF d
      <4>4. CharOf(f, d).lower \in {d, f.rows[j].lower}
        <5>1. Assigned(f.rows[j], d).lower
                = IF f.rows[j].category = Ll THEN d ELSE f.rows[j].lower
          BY AssignedFields
        <5> QED
          BY <4>2, <5>1
      <4> QED
        BY <3>1, <4>2, <4>3, <4>4 DEF d
    <3> QED
      BY <3>2, <3>3
  <2>11. ASSUME x.upper \notin {0, c}, x.lower \notin {0, c}
         PROVE  /\ x.upper # x.lower
                /\ Canonical(f, x.upper) = Canonical(f, c)
                /\ Canonical(f, x.lower) = Canonical(f, c)
    <3>1. x.upper = row.upper /\ x.lower = row.lower /\ row.first = c
      BY <2>2, <2>3, <2>11
    <3>2. \/ row.upper \in {0, row.first} \/ row.lower \in {0, row.first}
          \/ /\ row.upper # row.lower
             /\ Canonical(f, row.upper) = Canonical(f, row.first)
             /\ Canonical(f, row.lower) = Canonical(f, row.first)
      BY <2>2, Zenon DEF RowIsSound
    <3> QED
      BY <2>11, <3>1, <3>2
  <2> QED
    BY <2>5, <2>8, <2>9, <2>10, <2>11
<1> QED
  BY <1>1, <1>2

\* What a code point folds to, or 0.
FoldOf(f, c) ==
    IF \E g \in Simple(f) : g.code = c THEN (CHOOSE g \in Simple(f) : g.code = c).to ELSE 0

\* The folding goes one step, and none to nothing.
LEMMA FoldFacts ==
  ASSUME NEW f \in Files, NEW c \in Code
  PROVE  /\ FoldOf(f, c) \in Code
         /\ Canonical(f, c) = IF FoldOf(f, c) = 0 THEN c ELSE FoldOf(f, c)
         /\ FoldOf(f, c) # 0 => FoldOf(f, FoldOf(f, c)) = 0
         /\ FoldOf(f, 0) = 0
<1>1. \A g \in Simple(f) : g.code \in Code \ {0} /\ g.to \in Code \ {0}
  BY FilesAssumption DEF Simple
<1>2. \A g, h \in Simple(f) : (g.code = h.code => g.to = h.to) /\ g.to # h.code
  BY FilesAssumption DEF FoldingsAreSound
<1>3. 0 \in Code
  BY LimitsAssumption DEF Code
<1>4. FoldOf(f, 0) = 0
  BY <1>1 DEF FoldOf
<1>5. ASSUME NEW g \in Simple(f), g.code = c
      PROVE  FoldOf(f, c) = g.to /\ Canonical(f, c) = g.to
  <2>1. FoldOf(f, c) = g.to
    <3>1. (CHOOSE h \in Simple(f) : h.code = c) \in Simple(f)
            /\ (CHOOSE h \in Simple(f) : h.code = c).code = c
      BY <1>5
    <3>2. (CHOOSE h \in Simple(f) : h.code = c).to = g.to
      BY <3>1, <1>2, <1>5
    <3> QED
      BY <3>2, <1>5 DEF FoldOf
  <2>2. {h.to : h \in {k \in Simple(f) : k.code = c}} = {g.to}
    BY <1>2, <1>5
  <2>3. Canonical(f, c) = g.to
    BY <2>2 DEF Canonical
  <2> QED
    BY <2>1, <2>3
<1>6. CASE \E g \in Simple(f) : g.code = c
  <2>1. PICK g \in Simple(f) : g.code = c
    BY <1>6
  <2>2. FoldOf(f, c) = g.to /\ Canonical(f, c) = g.to /\ g.to \in Code \ {0}
    BY <2>1, <1>5, <1>1
  <2>3. ~ \E h \in Simple(f) : h.code = g.to
    BY <1>2
  <2>4. FoldOf(f, g.to) = 0
    BY <2>3, Zenon DEF FoldOf
  <2> QED
    BY <2>2, <2>4, <1>4
<1>7. CASE ~ \E g \in Simple(f) : g.code = c
  <2>1. FoldOf(f, c) = 0
    BY <1>7, Zenon DEF FoldOf
  <2>2. {h.to : h \in {k \in Simple(f) : k.code = c}} = {}
    BY <1>7
  <2>3. Canonical(f, c) = c
    BY <2>2 DEF Canonical
  <2> QED
    BY <2>1, <2>3, <1>3, <1>4
<1> QED
  BY <1>6, <1>7

LEMMA ClassFacts ==
  ASSUME NEW f \in Files, NEW c \in Code
  PROVE  /\ Canonical(f, c) \in Code
         /\ Canonical(f, Canonical(f, c)) = Canonical(f, c)
         /\ c \in FoldClass(f, c) /\ Canonical(f, c) \in FoldClass(f, c)
         /\ FoldClass(f, Canonical(f, c)) = FoldClass(f, c)
         /\ FoldClass(f, 0) = {0}
<1>1. Canonical(f, c) \in Code /\ Canonical(f, Canonical(f, c)) = Canonical(f, c)
  BY FoldFacts
<1>2. 0 \in Code
  BY LimitsAssumption DEF Code
<1>3. \A d \in Code : Canonical(f, d) = 0 => d = 0
  BY FoldFacts
<1>4. Canonical(f, 0) = 0
  BY <1>2, FoldFacts
<1>5. FoldClass(f, 0) = {0}
  BY <1>2, <1>3, <1>4 DEF FoldClass
<1> QED
  BY <1>1, <1>5 DEF FoldClass

\* All of a code point, with the fold and the orbit the generator gives it.
Char(f, c, orbit) ==
    [category |-> CharOf(f, c).category,
     upper |-> CharOf(f, c).upper, lower |-> CharOf(f, c).lower, title |-> CharOf(f, c).title,
     fold |-> FoldOf(f, c), orbit |-> orbit, assigned |-> CharOf(f, c).assigned]

LEMMA CharFolded ==
  ASSUME NEW f, NEW c
  PROVE  [CharOf(f, c) EXCEPT !.fold = FoldOf(f, c)] = Char(f, c, 0)
<1>1. CharOf(f, c) = [category |-> CharOf(f, c).category, upper |-> CharOf(f, c).upper,
                      lower |-> CharOf(f, c).lower, title |-> CharOf(f, c).title,
                      fold |-> 0, orbit |-> 0, assigned |-> CharOf(f, c).assigned]
  BY DEF CharOf, Assigned, UnreadChar
<1> QED
  BY <1>1 DEF Char

LEMMA CharLinked ==
  ASSUME NEW f, NEW c, NEW o, NEW orbit
  PROVE  [Char(f, c, o) EXCEPT !.orbit = orbit] = Char(f, c, orbit)
BY DEF Char

-----------------------------------------------------------------------------
(* The passes over the database *)

Early == {"gather", "unfolded", "defaults", "link"}
Late  == {"blob", "pack", "add", "cases", "raised", "done"}

HasOther(f, c) == CharOf(f, c).upper \notin {0, c} \/ CharOf(f, c).lower \notin {0, c}

\* What the case mappings alone get right.
Alone(f, c) ==
    \/ FoldClass(f, c) = {c} /\ ~HasOther(f, c)
    \/ \E a, b \in Code :
        a # b /\ FoldClass(f, c) = {a, b} /\ CharOf(f, a).upper = b /\ CharOf(f, b).lower = a

\* The orbit a code point is given in the end, 0 for none.
LinkedTo(c) == IF orbits[Canonical(files, c)] = {} THEN 0 ELSE After(FoldClass(files, c), c)

CharsInv ==
    /\ files \in Files /\ stage \in {"chars"} \cup Early \cup Late
    /\ stage = "chars" =>
        /\ at \in 1 .. Len(files.rows) + 1
        /\ \A c \in Code : chars[c] = IF \E i \in RowsOf(files, c) : i < at
                                      THEN CharOf(files, c) ELSE UnreadChar
    /\ stage \in Early => \A c \in Code : chars[c] = Char(files, c, 0)
    /\ stage \in Late => \A c \in Code : chars[c] = Char(files, c, LinkedTo(c))

\* A group is all of what folds as one code point does; what has no group yet
\* still gets one, or needs none.
OrbitsInv ==
    /\ stage \in {"unfolded", "defaults", "link"} \cup Late =>
        /\ orbits[0] = {}
        /\ \A c \in Code :
            orbits[c] # {} => Canonical(files, c) = c /\ orbits[c] = FoldClass(files, c)
    /\ \A c \in Code : orbits[Canonical(files, c)] = {} =>
        /\ stage \in {"unfolded", "defaults"} => FoldClass(files, c) = {c}
        /\ stage = "defaults" => ~HasOther(files, c)
        /\ stage \in {"link"} \cup Late => Alone(files, c)

LEMMA InitChars ==
  ASSUME Init PROVE CharsInv /\ OrbitsInv
<1>1. files \in Files /\ stage = "chars" /\ at = 1 /\ \A c \in Code : chars[c] = UnreadChar
  BY DEF Init
<1>2. Len(files.rows) \in Nat /\ 1 \in 1 .. Len(files.rows) + 1
  BY <1>1, RowsTyped
<1>3. ASSUME NEW c \in Code PROVE ~ \E i \in RowsOf(files, c) : i < 1
  <2>1. RowsOf(files, c) \subseteq 1 .. Len(files.rows)
    BY <1>1, RowsTyped DEF RowsOf
  <2> QED
    BY <2>1
<1> QED
  BY <1>1, <1>2, <1>3 DEF CharsInv, OrbitsInv, Early, Late

LEMMA LoadRowKeeps ==
  ASSUME CharsInv, OrbitsInv, LoadRow PROVE CharsInv' /\ OrbitsInv'
<1>1. /\ stage = "chars" /\ stage' = "chars" /\ files' = files /\ orbits' = orbits /\ at' = at + 1
      /\ at <= Len(files.rows)
      /\ chars' = [c \in Code |-> IF c \in files.rows[at].first .. files.rows[at].last
                                  THEN Assigned(files.rows[at], c) ELSE chars[c]]
  BY DEF LoadRow
<1>2. files \in Files /\ at \in 1 .. Len(files.rows) + 1
  BY <1>1 DEF CharsInv
<1>3. /\ Len(files.rows) \in Nat /\ DOMAIN files.rows = 1 .. Len(files.rows)
      /\ at \in DOMAIN files.rows /\ at + 1 \in 1 .. Len(files.rows) + 1
  BY <1>1, <1>2, RowsTyped
<1>4. ASSUME NEW c \in Code
      PROVE  chars'[c] = IF \E i \in RowsOf(files, c) : i < at + 1
                         THEN CharOf(files, c) ELSE UnreadChar
  <2>1. at \in RowsOf(files, c) <=> c \in files.rows[at].first .. files.rows[at].last
    BY <1>3 DEF RowsOf
  <2>2. CASE at \in RowsOf(files, c)
    <3>1. CharOf(files, c) = Assigned(files.rows[at], c)
      BY <1>2, <2>2, OneRow
    <3>2. \E i \in RowsOf(files, c) : i < at + 1
      BY <2>2, <1>2
    <3>3. chars'[c] = Assigned(files.rows[at], c)
      BY <1>1, <2>1, <2>2
    <3> QED
      BY <3>1, <3>2, <3>3
  <2>3. CASE at \notin RowsOf(files, c)
    <3>1. RowsOf(files, c) \subseteq 1 .. Len(files.rows)
      BY <1>3 DEF RowsOf
    <3>2. \A i \in RowsOf(files, c) : i < at + 1 <=> i < at
      BY <2>3, <3>1, <1>2
    <3>3. chars'[c] = chars[c]
      BY <1>1, <2>1, <2>3
    <3>4. chars[c] = IF \E i \in RowsOf(files, c) : i < at THEN CharOf(files, c) ELSE UnreadChar
      BY <1>1 DEF CharsInv
    <3> QED
      BY <3>2, <3>3, <3>4
  <2> QED
    BY <2>2, <2>3
<1>5. CharsInv'
  BY <1>1, <1>2, <1>3, <1>4 DEF CharsInv, Early, Late
<1>6. OrbitsInv'
  BY <1>1 DEF OrbitsInv, Late
<1> QED
  BY <1>5, <1>6

LEMMA LoadFoldingKeeps ==
  ASSUME CharsInv, OrbitsInv, LoadFolding PROVE CharsInv' /\ OrbitsInv'
<1> DEFINE kept == {f \in files.foldings : f.status \in {"C", "S"}}
           fold(c) == IF \E f \in kept : f.code = c THEN (CHOOSE f \in kept : f.code = c).to ELSE 0
<1>1. /\ stage = "chars" /\ stage' = "gather" /\ files' = files /\ orbits' = orbits /\ at' = at
      /\ at > Len(files.rows)
      /\ chars' = [c \in Code |-> [chars[c] EXCEPT !.fold = fold(c)]]
  BY DEF LoadFolding
<1>2. files \in Files /\ at \in 1 .. Len(files.rows) + 1
  BY <1>1 DEF CharsInv
<1>3. Len(files.rows) \in Nat /\ DOMAIN files.rows = 1 .. Len(files.rows)
  BY <1>2, RowsTyped
<1>4. kept = Simple(files)
  <2>1. \A f \in files.foldings : f.status \in {"C", "S", "F", "T"}
    BY <1>2, FilesAssumption
  <2>2. {"C", "S"} = {"C", "S", "F", "T"} \ {"F", "T"}
    <3>1. "C" # "F" /\ "C" # "T" /\ "S" # "F" /\ "S" # "T"
      OBVIOUS
    <3> QED
      BY <3>1
  <2> QED
    BY <2>1, <2>2 DEF Simple
<1> HIDE DEF kept
<1>5. \A c \in Code : fold(c) = FoldOf(files, c)
  BY <1>4 DEF FoldOf
<1> HIDE DEF fold
<1>6. ASSUME NEW c \in Code PROVE chars[c] = CharOf(files, c)
  <2>1. RowsOf(files, c) \subseteq 1 .. Len(files.rows)
    BY <1>3 DEF RowsOf
  <2>2. \A i \in RowsOf(files, c) : i < at
    BY <2>1, <1>1, <1>2, <1>3
  <2>3. chars[c] = IF \E i \in RowsOf(files, c) : i < at THEN CharOf(files, c) ELSE UnreadChar
    BY <1>1 DEF CharsInv
  <2>4. RowsOf(files, c) = {} => CharOf(files, c) = UnreadChar
    BY DEF CharOf
  <2> QED
    BY <2>2, <2>3, <2>4
<1>7. \A c \in Code : chars'[c] = Char(files, c, 0)
  BY <1>1, <1>5, <1>6, CharFolded
<1>8. CharsInv'
  BY <1>1, <1>2, <1>7 DEF CharsInv, Early, Late
<1>9. OrbitsInv'
  BY <1>1 DEF OrbitsInv, Late
<1> QED
  BY <1>8, <1>9

\* What the passes need of a code point they have read.
LEMMA EarlyChar ==
  ASSUME CharsInv, stage \in Early, NEW c \in Code
  PROVE  /\ chars[c].fold = FoldOf(files, c) /\ chars[c].orbit = 0
         /\ Folded(c) = Canonical(files, c)
         /\ OtherCase(c) <=> HasOther(files, c)
         /\ chars[c].upper = CharOf(files, c).upper /\ chars[c].lower = CharOf(files, c).lower
<1>1. chars[c] = Char(files, c, 0) /\ files \in Files
  BY DEF CharsInv
<1>2. /\ chars[c].fold = FoldOf(files, c) /\ chars[c].orbit = 0
      /\ chars[c].upper = CharOf(files, c).upper /\ chars[c].lower = CharOf(files, c).lower
  BY <1>1 DEF Char
<1>3. Folded(c) = Canonical(files, c)
  BY <1>1, <1>2, FoldFacts DEF Folded
<1>4. OtherCase(c) <=> HasOther(files, c)
  BY <1>2 DEF OtherCase, HasOther
<1> QED
  BY <1>2, <1>3, <1>4

LEMMA GatherFoldsKeeps ==
  ASSUME CharsInv, OrbitsInv, GatherFolds PROVE CharsInv' /\ OrbitsInv'
<1> DEFINE from(c) == {d \in Code : chars[d].fold = c}
<1>1. /\ stage = "gather" /\ stage' = "unfolded" /\ files' = files /\ at' = at /\ chars' = chars
      /\ orbits' = [c \in Code |-> IF c = 0 \/ from(c) = {} THEN {} ELSE from(c) \cup {c}]
  BY DEF GatherFolds
<1>2. files \in Files /\ 0 \in Code
  BY LimitsAssumption DEF CharsInv, Code
<1>3. \A c \in Code : chars[c].fold = FoldOf(files, c)
  BY <1>1, EarlyChar DEF Early
<1>4. \A c \in Code : from(c) = {d \in Code : FoldOf(files, d) = c}
  BY <1>3
<1> HIDE DEF from
<1>5. \A c \in Code : orbits'[c] = IF c = 0 \/ from(c) = {} THEN {} ELSE from(c) \cup {c}
  BY <1>1
<1>6. orbits'[0] = {}
  BY <1>2, <1>5
<1>7. ASSUME NEW c \in Code, orbits'[c] # {}
      PROVE  Canonical(files, c) = c /\ orbits'[c] = FoldClass(files, c)
  <2>1. c # 0 /\ from(c) # {} /\ orbits'[c] = from(c) \cup {c}
    BY <1>5, <1>7
  <2>2. PICK d \in Code : FoldOf(files, d) = c
    BY <2>1, <1>4
  <2>3. FoldOf(files, c) = 0 /\ Canonical(files, c) = c
    BY <1>2, <2>1, <2>2, FoldFacts
  <2>4. \A e \in Code : Canonical(files, e) = c <=> FoldOf(files, e) = c \/ e = c
    BY <1>2, <2>1, <2>3, FoldFacts
  <2>5. FoldClass(files, c) = {e \in Code : Canonical(files, e) = c}
    BY <2>3 DEF FoldClass
  <2>6. \A e : e \in from(c) \cup {c} <=> e \in FoldClass(files, c)
    BY <2>4, <2>5, <1>4
  <2> QED
    BY <2>1, <2>3, <2>6
<1>8. ASSUME NEW c \in Code, orbits'[Canonical(files, c)] = {}
      PROVE  FoldClass(files, c) = {c}
  <2> DEFINE k == Canonical(files, c)
  <2>1. k \in Code /\ FoldClass(files, k) = FoldClass(files, c) /\ c \in FoldClass(files, c)
    BY <1>2, ClassFacts
  <2> HIDE DEF k
  <2>2. k = 0 \/ from(k) = {}
    BY <1>5, <1>8, <2>1 DEF k
  <2>3. CASE k = 0
    BY <2>1, <2>3, <1>2, ClassFacts
  <2>4. CASE k # 0 /\ from(k) = {}
    <3>1. \A e \in Code : FoldOf(files, e) # k
      BY <2>1, <2>4, <1>4
    <3>2. \A e \in Code : Canonical(files, e) = k => e = k
      BY <3>1, <1>2, FoldFacts
    <3>3. c = k
      BY <3>2 DEF k
    <3>4. \A e : e \in FoldClass(files, c) => e = c
      BY <3>2, <3>3 DEF FoldClass, k
    <3> QED
      BY <3>4, <2>1
  <2> QED
    BY <2>2, <2>3, <2>4
<1>9. CharsInv'
  BY <1>1 DEF CharsInv, Early, Late
<1>10. OrbitsInv'
  BY <1>1, <1>6, <1>7, <1>8 DEF OrbitsInv, Late
<1> QED
  BY <1>9, <1>10

LEMMA AddUnfoldedKeeps ==
  ASSUME CharsInv, OrbitsInv, AddUnfolded PROVE CharsInv' /\ OrbitsInv'
<1>1. /\ stage = "unfolded" /\ stage' = "defaults" /\ files' = files /\ at' = at /\ chars' = chars
      /\ orbits' = [c \in Code |->
            IF orbits[Folded(c)] = {} /\ OtherCase(c) THEN {c} ELSE orbits[c]]
  BY DEF AddUnfolded
<1>2. files \in Files /\ 0 \in Code
  BY LimitsAssumption DEF CharsInv, Code
<1>3. \A c \in Code : orbits'[c] = IF orbits[Canonical(files, c)] = {} /\ HasOther(files, c)
                                   THEN {c} ELSE orbits[c]
  BY <1>1, EarlyChar DEF Early
<1>4. /\ orbits[0] = {}
      /\ \A c \in Code :
            orbits[c] # {} => Canonical(files, c) = c /\ orbits[c] = FoldClass(files, c)
      /\ \A c \in Code : orbits[Canonical(files, c)] = {} => FoldClass(files, c) = {c}
  BY <1>1 DEF OrbitsInv
<1>5. \A c \in Code : orbits[Canonical(files, c)] = {} => Canonical(files, c) = c
  BY <1>2, <1>4, ClassFacts
<1>6. ~HasOther(files, 0)
  <2>1. 0 \in 0 .. MAX_ASCII /\ 0 - CASE_SHIFT \notin CAPITALS /\ 0 \notin CAPITALS
    BY LimitsAssumption
  <2>2. GivenCase(files, "upper", 0) = 0 /\ GivenCase(files, "lower", 0) = 0
    BY <2>1, <1>2, FilesAssumption DEF AsciiIsSound
  <2>3. CharOf(files, 0).upper = 0 /\ CharOf(files, 0).lower = 0
    BY <1>2, <2>2, CharFacts
  <2> QED
    BY <2>3 DEF HasOther
<1>7. orbits'[0] = {}
  BY <1>2, <1>3, <1>4, <1>6
<1>8. \A c \in Code : orbits'[c] # {} => Canonical(files, c) = c /\ orbits'[c] = FoldClass(files, c)
  BY <1>3, <1>4, <1>5
<1>9. ASSUME NEW c \in Code, orbits'[Canonical(files, c)] = {}
      PROVE  FoldClass(files, c) = {c} /\ ~HasOther(files, c)
  <2>1. Canonical(files, c) \in Code /\ Canonical(files, Canonical(files, c)) = Canonical(files, c)
    BY <1>2, ClassFacts
  <2>2. orbits[Canonical(files, c)] = {} /\ ~HasOther(files, Canonical(files, c))
    BY <2>1, <1>3, <1>9
  <2> QED
    BY <2>2, <1>4, <1>5
<1>10. CharsInv'
  BY <1>1 DEF CharsInv, Early, Late
<1>11. OrbitsInv'
  BY <1>1, <1>7, <1>8, <1>9 DEF OrbitsInv, Late
<1> QED
  BY <1>10, <1>11

LEMMA PairOfTwo ==
  ASSUME NEW S \in SUBSET Code, Cardinality(S) = 2, NEW a \in S, NEW b \in S, a # b
  PROVE  S = {a, b}
<1>1. IsFiniteSet(S)
  <2>1. IsFiniteSet(Code)
    BY FS_Interval, LimitsAssumption DEF Code
  <2> QED
    BY <2>1, FS_Subset
<1>2. Cardinality(S \ {a}) = Cardinality(S) - 1 /\ IsFiniteSet(S \ {a})
  BY <1>1, FS_RemoveElement
<1>3. Cardinality((S \ {a}) \ {b}) = Cardinality(S \ {a}) - 1 /\ IsFiniteSet((S \ {a}) \ {b})
  BY <1>2, FS_RemoveElement
<1>4. Cardinality((S \ {a}) \ {b}) = 0
  BY <1>2, <1>3
<1>5. (S \ {a}) \ {b} = {}
  BY <1>3, <1>4, FS_EmptySet
<1> QED
  BY <1>5

LEMMA DropDefaultsKeeps ==
  ASSUME CharsInv, OrbitsInv, DropDefaults PROVE CharsInv' /\ OrbitsInv'
<1>1. /\ stage = "defaults" /\ stage' = "link" /\ files' = files /\ at' = at /\ chars' = chars
      /\ orbits' = [c \in Code |-> IF DefaultPair(orbits[c]) THEN {} ELSE orbits[c]]
  BY DEF DropDefaults
<1>2. files \in Files /\ 0 \in Code
  BY LimitsAssumption DEF CharsInv, Code
<1>3. \A c \in Code : orbits'[c] = IF DefaultPair(orbits[c]) THEN {} ELSE orbits[c]
  BY <1>1, Zenon
<1>4. /\ orbits[0] = {}
      /\ \A c \in Code :
            orbits[c] # {} => Canonical(files, c) = c /\ orbits[c] = FoldClass(files, c)
      /\ \A c \in Code : orbits[Canonical(files, c)] = {} =>
            FoldClass(files, c) = {c} /\ ~HasOther(files, c)
  BY <1>1 DEF OrbitsInv
<1>5. ASSUME NEW c \in Code, orbits'[Canonical(files, c)] = {}
      PROVE  Alone(files, c)
  <2> DEFINE k == Canonical(files, c)
  <2>1. k \in Code /\ FoldClass(files, k) = FoldClass(files, c) /\ FoldClass(files, k) \subseteq Code
    BY <1>2, ClassFacts DEF FoldClass
  <2>2. CASE orbits[k] = {}
    BY <2>2, <1>4 DEF Alone
  <2>3. CASE orbits[k] # {}
    <3>1. DefaultPair(orbits[k]) /\ orbits[k] = FoldClass(files, c)
      BY <2>1, <2>3, <1>3, <1>4, <1>5
    <3> HIDE DEF k
    <3>2. Cardinality(FoldClass(files, c)) = 2
      BY <3>1 DEF DefaultPair
    <3>3. PICK a \in FoldClass(files, c) : \E b \in FoldClass(files, c) :
            a # b /\ chars[a].upper = b /\ chars[b].lower = a
      BY <3>1 DEF DefaultPair
    <3>4. PICK b \in FoldClass(files, c) : a # b /\ chars[a].upper = b /\ chars[b].lower = a
      BY <3>3
    <3>5. a \in Code /\ b \in Code /\ FoldClass(files, c) = {a, b}
      BY <3>2, <3>3, <3>4, <2>1, PairOfTwo
    <3>6. CharOf(files, a).upper = b /\ CharOf(files, b).lower = a
      BY <3>4, <3>5, <1>1, EarlyChar DEF Early
    <3> QED
      BY <3>4, <3>5, <3>6 DEF Alone
  <2> QED
    BY <2>2, <2>3
<1>6. \A c \in Code : orbits'[c] # {} => orbits'[c] = orbits[c]
  BY <1>3
<1>7. orbits'[0] = {}
  BY <1>2, <1>3, <1>4
<1>8. CharsInv'
  BY <1>1 DEF CharsInv, Early, Late
<1>9. OrbitsInv'
  BY <1>1, <1>4, <1>5, <1>6, <1>7 DEF OrbitsInv, Late
<1> QED
  BY <1>8, <1>9

LEMMA OrbitsFound ==
  ASSUME CharsInv, OrbitsInv, stage \in {"link"} \cup Late, NEW c \in Code
  PROVE  OrbitsWith(c) = IF orbits[Canonical(files, c)] = {} THEN {} ELSE {FoldClass(files, c)}
<1> DEFINE k == Canonical(files, c)
<1>1. \A d \in Code : orbits[d] # {} => Canonical(files, d) = d /\ orbits[d] = FoldClass(files, d)
  BY DEF OrbitsInv
<1>2. k \in Code /\ FoldClass(files, k) = FoldClass(files, c) /\ c \in FoldClass(files, c)
  BY ClassFacts DEF CharsInv
<1>3. ASSUME NEW d \in Code, c \in orbits[d] PROVE d = k
  <2>1. Canonical(files, d) = d /\ c \in FoldClass(files, d)
    BY <1>1, <1>3
  <2> QED
    BY <2>1 DEF FoldClass
<1>4. CASE orbits[k] = {}
  <2>1. \A o : o \notin OrbitsWith(c)
    BY <1>3, <1>4 DEF OrbitsWith
  <2> QED
    BY <2>1, <1>4
<1>5. CASE orbits[k] # {}
  <2>1. orbits[k] = FoldClass(files, c)
    BY <1>1, <1>2, <1>5
  <2> HIDE DEF k
  <2>2. \A o : o \in OrbitsWith(c) <=> o = FoldClass(files, c)
    BY <1>2, <1>3, <2>1 DEF OrbitsWith
  <2> QED
    BY <2>2, <1>5 DEF k
<1> QED
  BY <1>4, <1>5

LEMMA LinkCyclesKeeps ==
  ASSUME CharsInv, OrbitsInv, LinkCycles PROVE CharsInv' /\ OrbitsInv'
<1> DEFINE orbit(c) == IF OrbitsWith(c) = {} THEN 0 ELSE After(CHOOSE o \in OrbitsWith(c) : TRUE, c)
<1>1. /\ stage = "link" /\ stage' = "blob" /\ files' = files /\ at' = at /\ orbits' = orbits
      /\ chars' = [c \in Code |-> [chars[c] EXCEPT !.orbit = orbit(c)]]
  BY DEF LinkCycles
<1>2. ASSUME NEW c \in Code PROVE orbit(c) = LinkedTo(c)
  <2>1. OrbitsWith(c) = IF orbits[Canonical(files, c)] = {} THEN {} ELSE {FoldClass(files, c)}
    BY <1>1, OrbitsFound
  <2>2. orbits[Canonical(files, c)] # {} => (CHOOSE o \in OrbitsWith(c) : TRUE) = FoldClass(files, c)
    BY <2>1
  <2> QED
    BY <2>1, <2>2 DEF LinkedTo
<1> HIDE DEF orbit
<1>3. ASSUME NEW c \in Code PROVE chars'[c] = Char(files, c, LinkedTo(c))
  <2>1. chars[c] = Char(files, c, 0)
    BY <1>1 DEF CharsInv, Early
  <2>2. chars'[c] = [chars[c] EXCEPT !.orbit = orbit(c)]
    BY <1>1
  <2> QED
    BY <2>1, <2>2, <1>2, CharLinked
<1>4. \A c \in Code : LinkedTo(c)' = LinkedTo(c)
  BY <1>1 DEF LinkedTo
<1>5. CharsInv'
  BY <1>1, <1>3, <1>4 DEF CharsInv, Early, Late
<1>6. OrbitsInv'
  BY <1>1 DEF OrbitsInv, Late
<1> QED
  BY <1>5, <1>6

\* Every later step leaves the database alone.
LEMMA DatabaseStays ==
  ASSUME CharsInv, OrbitsInv, UNCHANGED dbVars, stage \in Late, stage' \in Late
  PROVE  CharsInv' /\ OrbitsInv'
<1>1. files' = files /\ chars' = chars /\ orbits' = orbits
  BY DEF dbVars
<1>2. \A c \in Code : LinkedTo(c)' = LinkedTo(c)
  BY <1>1 DEF LinkedTo
<1>3. CharsInv'
  BY <1>1, <1>2 DEF CharsInv, Early, Late
<1>4. OrbitsInv'
  BY <1>1 DEF OrbitsInv, Late
<1> QED
  BY <1>3, <1>4

\* The next of a set of code points is one of it.
LEMMA AfterIn ==
  ASSUME NEW S \in SUBSET Code, NEW c \in S
  PROVE  After(S, c) \in S
<1>1. Code \subseteq Nat
  BY LimitsAssumption DEF Code
<1>2. ASSUME NEW T \in SUBSET S, T # {} PROVE LeastIn(T) \in T
  <2>1. \E x \in T : \A y \in T : x <= y
    BY <1>1, <1>2, LeastNatural
  <2> QED
    BY <2>1 DEF LeastIn
<1>3. S # {} /\ {x \in S : x > c} \subseteq S
  OBVIOUS
<1> QED
  BY <1>2, <1>3 DEF After

-----------------------------------------------------------------------------
(* The sets that get a table are those the database gives *)

\* A category is one letter or two.
IsCategory(cat) ==
    \/ cat = <<cat[1]>> /\ Len(cat) = 1
    \/ cat = <<cat[1], cat[2]>> /\ Len(cat) = 2

LEMMA PartOfPair ==
  ASSUME NEW a, NEW b
  PROVE  /\ SubSeq(<<a, b>>, 1, 2) = <<a, b>> /\ SubSeq(<<a, b>>, 1, 1) = <<a>>
         /\ Head(<<a, b>>) = a /\ Head(<<a>>) = a /\ Len(<<a, b>>) = 2 /\ Len(<<a>>) = 1
<1> DEFINE S == {a, b}
<1>1. <<a, b>> \in Seq(S) /\ Len(<<a, b>>) = 2 /\ \A i \in 1 .. 2 : <<a, b>>[i] \in S
  OBVIOUS
<1>2. <<a>> \in Seq(S) /\ Len(<<a>>) = 1
  OBVIOUS
<1> HIDE DEF S
<1>3. SubSeq(<<a, b>>, 1, 2) = <<a, b>>
  <2>1. /\ SubSeq(<<a, b>>, 1, 2) \in Seq(S) /\ Len(SubSeq(<<a, b>>, 1, 2)) = 2
        /\ \A i \in 1 .. 2 : SubSeq(<<a, b>>, 1, 2)[i] = <<a, b>>[i]
    BY <1>1
  <2> QED
    BY <2>1, <1>1, SeqEqual
<1>4. SubSeq(<<a, b>>, 1, 1) = <<a>>
  <2>1. /\ SubSeq(<<a, b>>, 1, 1) \in Seq(S) /\ Len(SubSeq(<<a, b>>, 1, 1)) = 1
        /\ SubSeq(<<a, b>>, 1, 1)[1] = a
    BY <1>1
  <2>2. \A i \in 1 .. 1 : SubSeq(<<a, b>>, 1, 1)[i] = <<a>>[i]
    BY <2>1
  <2> QED
    BY <2>1, <2>2, <1>2, SeqEqual
<1> QED
  BY <1>3, <1>4

LEMMA ReadChar ==
  ASSUME CharsInv, stage \in Early \cup Late, NEW c \in Code
  PROVE  /\ chars[c].category = GivenCategory(files, c)
         /\ chars[c].category = <<chars[c].category[1], chars[c].category[2]>>
         /\ chars[c].category # LC
         /\ chars[c].upper = CharOf(files, c).upper /\ chars[c].lower = CharOf(files, c).lower
         /\ chars[c].title = CharOf(files, c).title
         /\ chars[c].assigned = CharOf(files, c).assigned
         /\ stage \in Late => chars[c].orbit = LinkedTo(c)
<1>1. files \in Files /\ (chars[c] = Char(files, c, 0) \/ chars[c] = Char(files, c, LinkedTo(c)))
  BY DEF CharsInv
<1>2. stage \in Late => chars[c] = Char(files, c, LinkedTo(c))
  BY DEF CharsInv
<1>3. /\ chars[c].category = CharOf(files, c).category
      /\ chars[c].upper = CharOf(files, c).upper /\ chars[c].lower = CharOf(files, c).lower
      /\ chars[c].title = CharOf(files, c).title
      /\ chars[c].assigned = CharOf(files, c).assigned
  BY <1>1 DEF Char
<1>4. stage \in Late => chars[c].orbit = LinkedTo(c)
  BY <1>2 DEF Char
<1> QED
  BY <1>1, <1>3, <1>4, CharFacts

CategoriesOf(f) == {GivenCategory(f, c) : c \in Code} \cup {Cn} \cup DERIVED
NamesOf(f) == ({"category", "fold_category"} \X CategoriesOf(f))
              \cup ({"script", "fold_script"} \X DOMAIN f.scripts)

LEMMA NamesGiven ==
  ASSUME CharsInv, stage \in Early \cup Late
  PROVE  Names = NamesOf(files) /\ Categories = CategoriesOf(files)
<1>1. {chars[c].category : c \in Code} = {GivenCategory(files, c) : c \in Code}
  BY ReadChar
<1>2. Categories = CategoriesOf(files)
  BY <1>1 DEF Categories, CategoriesOf
<1> QED
  BY <1>2 DEF Names, NamesOf

LEMMA CategoryForm ==
  ASSUME NEW f \in Files, NEW cat \in CategoriesOf(f)
  PROVE  IsCategory(cat)
<1>1. ASSUME NEW c \in Code PROVE IsCategory(GivenCategory(f, c))
  <2>1. GivenCategory(f, c) = <<GivenCategory(f, c)[1], GivenCategory(f, c)[2]>>
    BY CharFacts
  <2> QED
    BY <2>1, PartOfPair DEF IsCategory
<1>2. IsCategory(Cn)
  BY DEF IsCategory, Cn
<1>3. ASSUME NEW d \in DERIVED PROVE IsCategory(d)
  <2>1. d \in Seq(STRING) /\ (Len(d) = 1 \/ Len(d) = 2)
    BY DerivedAssumption
  <2>2. Len(d) = 1 => d = <<d[1]>>
    BY <2>1
  <2>3. Len(d) = 2 => d = <<d[1], d[2]>>
    BY <2>1
  <2> QED
    BY <2>1, <2>2, <2>3 DEF IsCategory
<1> QED
  BY <1>1, <1>2, <1>3 DEF CategoriesOf

LEMMA CategoryGiven ==
  ASSUME CharsInv, stage \in Late, NEW cat \in CategoriesOf(files)
  PROVE  InCategory(cat) = GivenInCategory(files, cat)
<1>1. IsCategory(cat)
  BY CategoryForm DEF CharsInv
<1>2. CASE cat = LC
  <2>1. Len(LC) = 2
    BY PartOfPair DEF LC
  <2>2. \A c \in Code : (c \in InCategory(LC)) = (GivenCategory(files, c) \in {Lu, Ll, Lt})
    <3> SUFFICES ASSUME NEW c \in Code
                 PROVE  (c \in InCategory(LC)) = (GivenCategory(files, c) \in {Lu, Ll, Lt})
      OBVIOUS
    <3>1. chars[c].category = GivenCategory(files, c) /\ chars[c].category # LC
      BY ReadChar
    <3> QED
      BY <2>1, <3>1 DEF InCategory
  <2>3. InCategory(LC) \subseteq Code
    BY DEF InCategory
  <2> QED
    BY <1>2, <2>2, <2>3 DEF GivenInCategory
<1>3. CASE cat # LC
  <2>1. ASSUME NEW c \in Code
        PROVE  c \in InCategory(cat) <=> SubSeq(GivenCategory(files, c), 1, Len(cat)) = cat
    <3> DEFINE g == GivenCategory(files, c)
    <3>1. chars[c].category = g /\ g = <<g[1], g[2]>>
      BY ReadChar
    <3> HIDE DEF g
    <3>2. SubSeq(g, 1, 2) = g /\ SubSeq(g, 1, 1) = <<g[1]>> /\ Head(g) = g[1] /\ Len(g) = 2
      BY <3>1, PartOfPair
    <3>3. c \in InCategory(cat) <=> g = cat \/ (Len(cat) = 1 /\ Head(g) = Head(cat))
      BY <1>3, <3>1 DEF InCategory
    <3>4. CASE cat = <<cat[1]>> /\ Len(cat) = 1
      <4>1. Head(cat) = cat[1]
        BY <3>4, PartOfPair
      <4>2. g = cat \/ g[1] = cat[1] <=> <<g[1]>> = cat
        BY <3>2, <3>4
      <4> QED
        BY <3>2, <3>3, <3>4, <4>1, <4>2 DEF g
    <3>5. CASE cat = <<cat[1], cat[2]>> /\ Len(cat) = 2
      BY <3>2, <3>3, <3>5 DEF g
    <3> QED
      BY <1>1, <3>4, <3>5 DEF IsCategory
  <2>2. InCategory(cat) \subseteq Code
    BY DEF InCategory
  <2> QED
    BY <1>3, <2>1, <2>2 DEF GivenInCategory
<1> QED
  BY <1>2, <1>3

\* What is in no group has the case mappings it folds by.
LEMMA UnlinkedAlone ==
  ASSUME CharsInv, OrbitsInv, stage \in Late, NEW c \in Code, chars[c].orbit = 0
  PROVE  Alone(files, c)
<1> DEFINE S == FoldClass(files, c)
<1>1. files \in Files /\ chars[c].orbit = LinkedTo(c)
  BY ReadChar DEF CharsInv
<1>2. orbits[Canonical(files, c)] = {}
  <2> SUFFICES ASSUME orbits[Canonical(files, c)] # {} PROVE FALSE
    OBVIOUS
  <2>1. After(S, c) = 0
    BY <1>1 DEF LinkedTo
  <2>2. S \in SUBSET Code /\ c \in S
    BY <1>1, ClassFacts DEF FoldClass
  <2> HIDE DEF S
  <2>3. 0 \in S
    BY <2>1, <2>2, AfterIn
  <2>4. Canonical(files, 0) = Canonical(files, c) /\ 0 \in Code
    BY <2>3 DEF S, FoldClass
  <2>5. Canonical(files, 0) = 0
    <3>1. FoldClass(files, 0) = {0} /\ Canonical(files, 0) \in FoldClass(files, 0)
      BY <1>1, <2>4, ClassFacts
    <3> QED
      BY <3>1
  <2> QED
    BY <2>4, <2>5 DEF OrbitsInv
<1> QED
  BY <1>2 DEF OrbitsInv

\* Those mappings lead to the other of two that fold together, and nowhere else.
LEMMA AloneFacts ==
  ASSUME NEW f \in Files, NEW c \in Code, Alone(f, c)
  PROVE  \E d \in Code :
            /\ FoldClass(f, c) = {c, d}
            /\ {CharOf(f, c).upper, CharOf(f, c).lower} \subseteq {0, c, d}
            /\ d # c => d # 0 /\ d \in {CharOf(f, c).upper, CharOf(f, c).lower}
<1> DEFINE x == CharOf(f, c)
<1>1. FoldClass(f, c) \subseteq Code /\ c \in FoldClass(f, c)
  BY ClassFacts DEF FoldClass
<1>2. CASE FoldClass(f, c) = {c} /\ ~HasOther(f, c)
  <2>1. x.upper \in {0, c} /\ x.lower \in {0, c}
    BY <1>2 DEF HasOther
  <2> HIDE DEF x
  <2>2. FoldClass(f, c) = {c, c} /\ {x.upper, x.lower} \subseteq {0, c, c}
    BY <1>2, <2>1
  <2> QED
    BY <2>2 DEF x
<1>3. ASSUME NEW a \in Code, NEW b \in Code, a # b, FoldClass(f, c) = {a, b},
             CharOf(f, a).upper = b, CharOf(f, b).lower = a
      PROVE  \E d \in Code :
                /\ FoldClass(f, c) = {c, d}
                /\ {x.upper, x.lower} \subseteq {0, c, d}
                /\ d # c => d # 0 /\ d \in {x.upper, x.lower}
  <2>1. c = a \/ c = b
    BY <1>1, <1>3
  <2>2. a # 0 /\ b # 0
    <3>1. 0 \in Code /\ FoldClass(f, 0) = {0} /\ Canonical(f, 0) = 0
      <4>1. 0 \in Code
        BY LimitsAssumption DEF Code
      <4>2. FoldClass(f, 0) = {0} /\ Canonical(f, 0) \in FoldClass(f, 0)
        BY <4>1, ClassFacts
      <4> QED
        BY <4>1, <4>2
    <3>2. \A d, e \in FoldClass(f, c) : e \in FoldClass(f, d)
      BY DEF FoldClass
    <3>3. b \in FoldClass(f, a) /\ a \in FoldClass(f, b)
      BY <1>3, <3>2
    <3> QED
      BY <1>3, <3>1, <3>3
  <2>3. x.upper \notin {0, c} /\ x.lower \notin {0, c} =>
            x.upper # x.lower /\ Canonical(f, x.upper) = Canonical(f, c)
            /\ Canonical(f, x.lower) = Canonical(f, c)
    BY CaseFacts
  <2>4. x.upper \in Code /\ x.lower \in Code
    BY CharFacts
  <2>5. \A d \in Code : Canonical(f, d) = Canonical(f, c) => d \in {a, b}
    BY <1>3 DEF FoldClass
  <2> HIDE DEF x
  <2>6. CASE c = a
    <3>1. x.upper = b
      BY <1>3, <2>6 DEF x
    <3>2. x.lower \in {0, a, b}
      BY <1>3, <2>2, <2>3, <2>4, <2>5, <2>6, <3>1
    <3> QED
      BY <1>3, <2>2, <2>6, <3>1, <3>2
  <2>7. CASE c = b
    <3>1. x.lower = a
      BY <1>3, <2>7 DEF x
    <3>2. x.upper \in {0, a, b}
      BY <1>3, <2>2, <2>3, <2>4, <2>5, <2>7, <3>1
    <3>3. FoldClass(f, c) = {c, a}
      BY <1>3, <2>7
    <3> QED
      BY <1>3, <2>2, <2>7, <3>1, <3>2, <3>3
  <2> QED
    BY <2>1, <2>6, <2>7
<1> QED
  BY <1>2, <1>3 DEF Alone, x

LEMMA ExceptionsGiven ==
  ASSUME CharsInv, OrbitsInv, stage \in Late, NEW inside \in SUBSET Code
  PROVE  FoldExceptions(inside) = GivenExceptions(files, inside)
<1> DEFINE Reached(c) == IF chars[c].orbit = 0
                         THEN {c} \cup ({chars[c].upper, chars[c].lower} \ {0})
                         ELSE {d \in Code : \E o \in OrbitsWith(c) : d \in o}
<1>1. files \in Files
  BY DEF CharsInv
<1>2. ASSUME NEW c \in Code PROVE Reached(c) = FoldClass(files, c)
  <2> DEFINE x == CharOf(files, c)
  <2>1. /\ chars[c].upper = x.upper /\ chars[c].lower = x.lower
        /\ chars[c].orbit = LinkedTo(c)
    BY ReadChar
  <2>2. FoldClass(files, c) \subseteq Code /\ c \in FoldClass(files, c)
    BY <1>1, ClassFacts DEF FoldClass
  <2>3. CASE chars[c].orbit # 0
    <3>1. OrbitsWith(c) = {FoldClass(files, c)}
      BY <2>1, <2>3, OrbitsFound DEF LinkedTo
    <3>2. \A d : d \in Reached(c) <=> d \in FoldClass(files, c)
      BY <2>2, <2>3, <3>1
    <3> HIDE DEF Reached
    <3> QED
      BY <3>2
  <2>4. CASE chars[c].orbit = 0
    <3>1. PICK d \in Code : /\ FoldClass(files, c) = {c, d}
                            /\ {x.upper, x.lower} \subseteq {0, c, d}
                            /\ d # c => d # 0 /\ d \in {x.upper, x.lower}
      BY <1>1, <2>4, UnlinkedAlone, AloneFacts
    <3>2. Reached(c) = {c} \cup ({x.upper, x.lower} \ {0})
      BY <2>1, <2>4
    <3> HIDE DEF Reached, x
    <3> QED
      BY <3>1, <3>2
  <2> QED
    BY <2>3, <2>4
<1>3. FoldExceptions(inside) = (UNION {Reached(c) : c \in inside}) \ inside
  BY DEF FoldExceptions
<1> HIDE DEF Reached
<1>4. {Reached(c) : c \in inside} = {FoldClass(files, c) : c \in inside}
  BY <1>2
<1> QED
  BY <1>3, <1>4 DEF GivenExceptions

LEMMA CodesGiven ==
  ASSUME CharsInv, OrbitsInv, stage \in Late, NEW n \in NamesOf(files)
  PROVE  CodesOf(n) = GivenCodes(files, n) /\ GivenCodes(files, n) \subseteq Code
<1> DEFINE x == n[2]
<1>1. /\ n = <<n[1], x>>
      /\ \/ n[1] = "category" /\ x \in CategoriesOf(files)
         \/ n[1] = "fold_category" /\ x \in CategoriesOf(files)
         \/ n[1] = "script" /\ x \in DOMAIN files.scripts
         \/ n[1] = "fold_script" /\ x \in DOMAIN files.scripts
  BY DEF NamesOf
<1> HIDE DEF x
<1>2. \A s \in DOMAIN files.scripts : files.scripts[s] \subseteq Code
  BY FilesAssumption DEF CharsInv
<1>3. \A cat : GivenInCategory(files, cat) \subseteq Code
  BY DEF GivenInCategory
<1>4. ASSUME NEW inside \in SUBSET Code
      PROVE  /\ FoldExceptions(inside) = GivenExceptions(files, inside)
             /\ GivenExceptions(files, inside) \subseteq Code
  <2>1. FoldExceptions(inside) = GivenExceptions(files, inside)
    BY ExceptionsGiven
  <2>2. \A c : FoldClass(files, c) \subseteq Code
    BY DEF FoldClass
  <2>3. GivenExceptions(files, inside) \subseteq Code
    BY <2>2 DEF GivenExceptions
  <2> QED
    BY <2>1, <2>3
<1>5. CASE n[1] = "category" /\ x \in CategoriesOf(files)
  <2>1. CodesOf(n) = InCategory(x) /\ GivenCodes(files, n) = GivenInCategory(files, x)
    BY <1>5 DEF CodesOf, GivenCodes, x
  <2> QED
    BY <2>1, <1>3, <1>5, CategoryGiven
<1>6. CASE n[1] = "fold_category" /\ x \in CategoriesOf(files)
  <2> DEFINE inside == IF x = LC THEN {} ELSE GivenInCategory(files, x)
  <2>1. InCategoryForFolding(x) = inside
    BY <1>6, CategoryGiven DEF InCategoryForFolding
  <2>2. CodesOf(n) = FoldExceptions(inside) /\ GivenCodes(files, n) = GivenExceptions(files, inside)
    <3>1. n[1] # "category" /\ n[1] # "script"
      BY <1>6
    <3>2. CodesOf(n) = FoldExceptions(InCategoryForFolding(x))
      BY <1>6, <3>1 DEF CodesOf, x
    <3>3. GivenCodes(files, n) = GivenExceptions(files, inside)
      BY <1>6, <3>1 DEF GivenCodes, x
    <3> QED
      BY <2>1, <3>2, <3>3
  <2>3. inside \in SUBSET Code
    BY <1>3
  <2> HIDE DEF inside
  <2> QED
    BY <2>2, <2>3, <1>4
<1>7. CASE n[1] = "script" /\ x \in DOMAIN files.scripts
  <2>1. n[1] # "category"
    BY <1>7
  <2>2. CodesOf(n) = files.scripts[x] /\ GivenCodes(files, n) = files.scripts[x]
    BY <1>7, <2>1 DEF CodesOf, GivenCodes, x
  <2> QED
    BY <2>2, <1>2, <1>7
<1>8. CASE n[1] = "fold_script" /\ x \in DOMAIN files.scripts
  <2>1. n[1] # "category" /\ n[1] # "script" /\ n[1] # "fold_category"
    BY <1>8
  <2>2. CodesOf(n) = FoldExceptions(files.scripts[x])
    BY <1>8, <2>1 DEF CodesOf, x
  <2>3. GivenCodes(files, n) = GivenExceptions(files, files.scripts[x])
    BY <1>8, <2>1 DEF GivenCodes, x
  <2>4. files.scripts[x] \in SUBSET Code
    BY <1>2, <1>8
  <2> QED
    BY <2>2, <2>3, <2>4, <1>4
<1> QED
  BY <1>1, <1>5, <1>6, <1>7, <1>8

-----------------------------------------------------------------------------
(* The tables *)

PackInv ==
    /\ stage \in {"pack", "add"} => name \in NamesOf(files)
    /\ stage = "pack" => \A S : S = GivenCodes(files, name) => Packing(S)
    /\ stage = "add"  => \A S : S = GivenCodes(files, name) => Packed(S)

\* A name has its table, or none of its code points, or is yet to come.
NamesInv ==
    /\ todo \subseteq NamesOf(files) /\ DOMAIN where \subseteq NamesOf(files)
    /\ \A n \in NamesOf(files) :
        \/ n \in todo \/ n \in DOMAIN where
        \/ n[1] \notin {"category", "script"} /\ GivenCodes(files, n) = {}
        \/ stage \in {"pack", "add"} /\ n = name
    /\ stage \in {"cases", "done"} => todo = {}

TablesInv ==
    /\ words \in Seq(Run)
    /\ stage \notin Late => DOMAIN where = {}
    /\ \A n \in DOMAIN where : Table(words, where[n], GivenCodes(files, n))
    /\ stage \in Late => NamesInv /\ PackInv

LEMMA InitTables ==
  ASSUME Init PROVE TablesInv
<1>1. stage = "chars" /\ words = <<>> /\ where = <<>>
  BY DEF Init
<1>2. stage \notin Late /\ words \in Seq(Run) /\ DOMAIN where = {}
  BY <1>1 DEF Late
<1> QED
  BY <1>2 DEF TablesInv

LEMMA EarlyTables ==
  ASSUME CharsInv, TablesInv, LoadRow \/ LoadFolding \/ GatherFolds \/ AddUnfolded \/ DropDefaults
  PROVE  TablesInv'
<1>1. words' = words /\ where' = where /\ stage \notin Late /\ stage' \notin Late
  BY DEF LoadRow, LoadFolding, GatherFolds, AddUnfolded, DropDefaults, packVars, Late
<1> QED
  BY <1>1 DEF TablesInv

LEMMA LinkTables ==
  ASSUME CharsInv, TablesInv, LinkCycles PROVE TablesInv'
<1>1. /\ words' = words /\ where' = where /\ files' = files /\ stage = "link" /\ stage' = "blob"
      /\ todo' = Names
  BY DEF LinkCycles
<1>2. DOMAIN where = {} /\ words \in Seq(Run)
  BY <1>1 DEF TablesInv, Late
<1>3. Names = NamesOf(files)
  BY <1>1, NamesGiven DEF Early
<1>4. NamesInv'
  BY <1>1, <1>2, <1>3 DEF NamesInv
<1>5. PackInv'
  BY <1>1 DEF PackInv
<1> QED
  BY <1>1, <1>2, <1>4, <1>5 DEF TablesInv, Late

LEMMA PackingStarts ==
  ASSUME NEW S, r16' = <<>>, r32' = <<>>, current' = NoRun, at' = 0
  PROVE  Packing(S)'
<1>1. 0 \in 0 .. MAX_RUNE + 1 /\ \A c \in Code : ~(c < 0)
  BY LimitsAssumption DEF Code
<1>2. Len(<<>>) = 0 /\ \A i : i \notin 1 .. 0
  OBVIOUS
<1>3. SortedRuns(<<>>)
  BY EmptyRuns
<1>4. Halves'
  <2>1. SortedRuns(r16') /\ SortedRuns(r32') /\ Len(r16') = 0 /\ Len(r32') = 0
    BY <1>2, <1>3
  <2> QED
    BY <2>1, <1>2 DEF Halves
<1> QED
  BY <1>1, <1>4 DEF Packing

LEMMA NextTableTables ==
  ASSUME CharsInv, OrbitsInv, TablesInv, NextTable PROVE TablesInv'
<1>1. /\ stage = "blob" /\ todo # {} /\ words' = words /\ where' = where /\ files' = files
      /\ name' \in todo /\ todo' = todo \ {name'}
      /\ \/ stage' = "pack"
         \/ stage' = "blob" /\ name'[1] \notin {"category", "script"} /\ CodesOf(name') = {}
      /\ at' = 0 /\ r16' = <<>> /\ r32' = <<>> /\ current' = NoRun
  BY DEF NextTable, dbVars
<1>2. /\ words \in Seq(Run) /\ NamesInv
      /\ \A n \in DOMAIN where : Table(words, where[n], GivenCodes(files, n))
  BY <1>1 DEF TablesInv, Late
<1>3. name' \in NamesOf(files) /\ CodesOf(name') = GivenCodes(files, name')
  <2>1. PICK n \in todo : n = name'
    BY <1>1
  <2>2. n \in NamesOf(files)
    BY <1>2 DEF NamesInv
  <2>3. CodesOf(n) = GivenCodes(files, n)
    BY <2>2, <1>1, CodesGiven DEF Late
  <2> QED
    BY <2>1, <2>2, <2>3
<1>4. PackInv'
  BY <1>1, <1>3, PackingStarts DEF PackInv
<1>5. NamesInv'
  BY <1>1, <1>2, <1>3 DEF NamesInv
<1> QED
  BY <1>1, <1>2, <1>4, <1>5 DEF TablesInv, Late

LEMMA PackTables ==
  ASSUME CharsInv, OrbitsInv, TablesInv, PackOne \/ PackLast PROVE TablesInv'
<1>1. /\ stage = "pack" /\ words' = words /\ where' = where /\ files' = files
      /\ todo' = todo /\ name' = name
      /\ PackOne => stage' = "pack"
      /\ PackLast => stage' = "add"
      /\ stage' \in {"pack", "add"}
  BY DEF PackOne, PackLast, dbVars
<1>2. /\ words \in Seq(Run) /\ NamesInv /\ PackInv
      /\ \A n \in DOMAIN where : Table(words, where[n], GivenCodes(files, n))
  BY <1>1 DEF TablesInv, Late
<1>3. NamesInv'
  BY <1>1, <1>2 DEF NamesInv
<1>4. PICK S : S = GivenCodes(files, name)
  OBVIOUS
<1>5. S = CodesOf(name) /\ Packing(S) /\ name \in NamesOf(files)
  BY <1>1, <1>2, <1>4, CodesGiven DEF PackInv, Late
<1>6. CASE PackOne
  <2>1. Packing(S)'
    BY <1>5, <1>6, PackOneKeeps
  <2> QED
    BY <2>1, <1>1, <1>2, <1>3, <1>4, <1>5, <1>6 DEF TablesInv, PackInv, Late
<1>7. CASE PackLast
  <2>1. Packed(S)'
    BY <1>5, <1>7, PackLastPacks
  <2> QED
    BY <2>1, <1>1, <1>2, <1>3, <1>4, <1>5, <1>7 DEF TablesInv, PackInv, Late
<1> QED
  BY <1>6, <1>7

LEMMA AddTables ==
  ASSUME CharsInv, OrbitsInv, TablesInv, Add PROVE TablesInv'
<1>1. stage = "add" /\ stage' = "blob" /\ files' = files /\ todo' = todo /\ name' = name
  BY DEF Add, dbVars
<1>2. /\ words \in Seq(Run) /\ NamesInv /\ PackInv /\ name \in NamesOf(files)
      /\ \A n \in DOMAIN where : Table(words, where[n], GivenCodes(files, n))
  BY <1>1 DEF TablesInv, PackInv, Late
<1>3. \A n \in NamesOf(files) : CodesOf(n) = GivenCodes(files, n)
  BY <1>1, CodesGiven DEF Late
<1>4. Tables
  BY <1>2, <1>3 DEF Tables, NamesInv
<1>5. Packed(CodesOf(name))
  BY <1>1, <1>2, <1>3 DEF PackInv
<1>6. /\ words' \in Seq(Run) /\ DOMAIN where' = DOMAIN where \cup {name}
      /\ \A n \in DOMAIN where' : Table(words', where'[n], CodesOf(n))
  BY <1>4, <1>5, AddKeeps
<1>7. NamesInv'
  BY <1>1, <1>2, <1>6 DEF NamesInv
<1>8. PackInv'
  BY <1>1 DEF PackInv
<1>9. \A n \in DOMAIN where' : Table(words', where'[n], GivenCodes(files, n))
  BY <1>2, <1>3, <1>6 DEF NamesInv
<1> QED
  BY <1>1, <1>6, <1>7, <1>8, <1>9 DEF TablesInv, Late

LEMMA LateTables ==
  ASSUME TablesInv, LeaveBlob \/ CaseScan \/ CaseEnd PROVE TablesInv'
<1>1. /\ words' = words /\ where' = where /\ files' = files /\ todo' = todo
      /\ stage \in {"blob", "cases"} /\ stage' \in {"cases", "raised", "done"}
      /\ stage = "blob" => todo = {}
  BY DEF LeaveBlob, CaseScan, CaseEnd, packVars, dbVars
<1>2. /\ words \in Seq(Run) /\ NamesInv
      /\ \A n \in DOMAIN where : Table(words, where[n], GivenCodes(files, n))
  BY <1>1 DEF TablesInv, Late
<1>3. NamesInv'
  BY <1>1, <1>2 DEF NamesInv
<1>4. PackInv'
  BY <1>1 DEF PackInv
<1> QED
  BY <1>1, <1>2, <1>3, <1>4 DEF TablesInv, Late

-----------------------------------------------------------------------------
(* What the tables answer *)

\* The byte of a category says which it is, as far as the predicates ask.
LEMMA LatinKnown ==
  ASSUME NEW a, NEW b, KnownInLatin1(<<a, b>>)
  PROVE  LET bits == LatinBits(<<a, b>>)
         IN  /\ bits \in {{"pLu"}, {"pLl"}, {"pLu", "pLl"}} <=> a = "L"
             /\ bits \in {{"pLu"}} <=> <<a, b>> = Lu
             /\ bits \in {{"pLl"}} <=> <<a, b>> = Ll
             /\ <<a, b>> # Lt
<1> DEFINE g == <<a, b>>
<1>1. g \in {Lu, Ll, Lo} \/ a \in {"N", "P", "S", "Z", "C"}
  BY DEF KnownInLatin1, Lu, Ll, Lo, Cc, Cf
<1>2. Lu # Ll /\ Lu # Lo /\ Ll # Lo /\ Lt # Lu /\ Lt # Ll /\ Lt # Lo
  <2>1. "u" # "l" /\ "u" # "o" /\ "l" # "o" /\ "t" # "u" /\ "t" # "l" /\ "t" # "o"
    OBVIOUS
  <2> QED
    BY <2>1 DEF Lu, Ll, Lo, Lt
<1>3. Lu[1] = "L" /\ Ll[1] = "L" /\ Lo[1] = "L" /\ Lt[1] = "L" /\ g[1] = a
  BY DEF Lu, Ll, Lo, Lt
<1>4. "L" \notin {"N", "P", "S", "Z", "C"}
  OBVIOUS
<1> HIDE DEF g
<1>5. CASE g = Lu
  <2>1. LatinBits(g) = {"pLu"}
    BY <1>2, <1>3, <1>4, <1>5 DEF LatinBits
  <2> QED
    BY <2>1, <1>2, <1>3, <1>5 DEF g
<1>6. CASE g = Ll
  <2>1. LatinBits(g) = {"pLl"}
    BY <1>2, <1>3, <1>4, <1>6 DEF LatinBits
  <2> QED
    BY <2>1, <1>2, <1>3, <1>6 DEF g
<1>7. CASE g = Lo
  <2>1. LatinBits(g) = {"pLu", "pLl"}
    BY <1>2, <1>3, <1>4, <1>7 DEF LatinBits
  <2> QED
    BY <2>1, <1>2, <1>3, <1>7 DEF g
<1>8. CASE a \in {"N", "P", "S", "Z", "C"}
  <2>1. g # Lu /\ g # Ll /\ g # Lo /\ g # Lt
    BY <1>3, <1>4, <1>8
  <2>2. LatinBits(g) = {a}
    BY <1>3, <1>8, <2>1 DEF LatinBits
  <2>3. a # "pLu" /\ a # "pLl"
    BY <1>8
  <2> QED
    BY <2>1, <2>2, <2>3, <1>4, <1>8 DEF g
<1> QED
  BY <1>1, <1>5, <1>6, <1>7, <1>8

\* The categories the predicates ask for have a table.
LEMMA AskedFor ==
  ASSUME NEW f \in Files
  PROVE  {Lu, Ll, Lt, <<"L">>} \subseteq CategoriesOf(f)
<1>1. ASSUME NEW i \in DOMAIN f.rows PROVE f.rows[i].category \in CategoriesOf(f)
  <2>1. f.rows[i].first \in Code /\ f.rows[i].last \in Code /\ RowIsSound(f, f.rows[i])
    BY RowsTyped
  <2>2. f.rows[i].first \in f.rows[i].first .. f.rows[i].last
    BY <2>1, LimitsAssumption DEF RowIsSound, Code
  <2>3. i \in RowsOf(f, f.rows[i].first)
    BY <2>2 DEF RowsOf
  <2>4. GivenCategory(f, f.rows[i].first) = f.rows[i].category
    BY <2>1, <2>3, OneRow
  <2> QED
    BY <2>1, <2>4 DEF CategoriesOf
<1>2. {Lu, Ll, Lt} \subseteq {f.rows[i].category : i \in DOMAIN f.rows} \cup DERIVED
  BY FilesAssumption DEF RowsAreSound
<1>3. DERIVED \subseteq CategoriesOf(f) /\ <<"L">> \in DERIVED
  BY DerivedAssumption DEF CategoriesOf
<1> QED
  BY <1>1, <1>2, <1>3

LEMMA InGiven ==
  ASSUME NEW f \in Files, NEW c \in Code
  PROVE  LET g == GivenCategory(f, c)
         IN  /\ c \in GivenCodes(f, <<"category", <<"L">>>>) <=> g[1] = "L"
             /\ \A cat \in {Lu, Ll, Lt} : c \in GivenCodes(f, <<"category", cat>>) <=> g = cat
<1> DEFINE g == GivenCategory(f, c)
<1>1. g = <<g[1], g[2]>>
  BY CharFacts
<1> HIDE DEF g
<1>2. SubSeq(g, 1, 2) = g /\ SubSeq(g, 1, 1) = <<g[1]>>
  BY <1>1, PartOfPair
<1>3. \A cat : GivenCodes(f, <<"category", cat>>) = GivenInCategory(f, cat)
  BY DEF GivenCodes
<1>4. \A cat : cat # LC =>
        (c \in GivenInCategory(f, cat) <=> SubSeq(g, 1, Len(cat)) = cat)
  BY DEF GivenInCategory, g
<1>5. /\ Lu # LC /\ Ll # LC /\ Lt # LC /\ <<"L">> # LC
      /\ Len(Lu) = 2 /\ Len(Ll) = 2 /\ Len(Lt) = 2 /\ Len(<<"L">>) = 1
  <2>1. /\ Len(LC) = 2 /\ Len(<<"L">>) = 1
        /\ Len(Lu) = 2 /\ Len(Ll) = 2 /\ Len(Lt) = 2
    BY PartOfPair DEF LC, Lu, Ll, Lt
  <2>2. "C" # "u" /\ "C" # "l" /\ "C" # "t"
    OBVIOUS
  <2>3. Lu # LC /\ Ll # LC /\ Lt # LC
    BY <2>2 DEF Lu, Ll, Lt, LC
  <2> QED
    BY <2>1, <2>3
<1>6. c \in GivenInCategory(f, <<"L">>) <=> <<g[1]>> = <<"L">>
  BY <1>2, <1>4, <1>5
<1>7. \A cat \in {Lu, Ll, Lt} : c \in GivenInCategory(f, cat) <=> g = cat
  BY <1>2, <1>4, <1>5
<1>8. <<g[1]>> = <<"L">> <=> g[1] = "L"
  OBVIOUS
<1> QED
  BY <1>3, <1>6, <1>7, <1>8 DEF g

\* What CaseEnd looked at.
LatinInv == stage = "done" => \A c \in 0 .. MAX_LATIN1 : KnownInLatin1(chars[c].category)

LEMMA TablesAnswer ==
  ASSUME CharsInv, OrbitsInv, TablesInv, LatinInv PROVE TablesExact
<1> SUFFICES ASSUME stage = "done" PROVE TablesExact
  BY DEF TablesExact
<1>1. /\ words \in Seq(Run) /\ NamesInv /\ todo = {}
      /\ \A n \in DOMAIN where : Table(words, where[n], GivenCodes(files, n))
  BY DEF TablesInv, NamesInv, Late
<1>2. files \in Files /\ Names = NamesOf(files)
  BY NamesGiven DEF CharsInv, Late
<1>3. ASSUME NEW n \in DOMAIN where, NEW r \in Rune
      PROVE  /\ IsIn(TableOf(n), r) <=> r \in GivenCodes(files, n)
             /\ r > MAX_LATIN1 =>
                    (IsExcludingLatin(TableOf(n), r) <=> r \in GivenCodes(files, n))
  <2>1. n \in NamesOf(files)
    BY <1>1 DEF NamesInv
  <2>2. GivenCodes(files, n) \subseteq Code
    BY <2>1, CodesGiven DEF Late
  <2>3. Table(words, where[n], GivenCodes(files, n))
    BY <1>1
  <2> QED
    BY <1>1, <2>2, <2>3, TableAnswers DEF TableOf
<1>4. \A n \in NamesOf(files) :
        n \in DOMAIN where \/ (n[1] \notin {"category", "script"} /\ GivenCodes(files, n) = {})
  BY <1>1 DEF NamesInv
<1>5. \A cat \in {Lu, Ll, Lt, <<"L">>} : <<"category", cat>> \in DOMAIN where
  <2> SUFFICES ASSUME NEW cat \in {Lu, Ll, Lt, <<"L">>} PROVE <<"category", cat>> \in DOMAIN where
    OBVIOUS
  <2>1. cat \in CategoriesOf(files)
    BY <1>2, AskedFor
  <2>2. <<"category", cat>> \in NamesOf(files)
    BY <2>1 DEF NamesOf
  <2> QED
    BY <2>2, <1>4
<1>6. ASSUME NEW c \in Code
      PROVE  /\ IsLetter(c) <=> GivenCategory(files, c)[1] = "L"
             /\ IsUpper(c) <=> GivenCategory(files, c) = Lu
             /\ IsLower(c) <=> GivenCategory(files, c) = Ll
             /\ IsTitle(c) <=> GivenCategory(files, c) = Lt
  <2> DEFINE g == GivenCategory(files, c)
  <2>1. chars[c].category = g /\ g = <<g[1], g[2]>>
    BY ReadChar DEF Late
  <2>2. CASE c \in 0 .. MAX_LATIN1
    <3>1. KnownInLatin1(g)
      BY <2>1, <2>2 DEF LatinInv
    <3>2. \A cat, bits : LatinOr(c, cat, bits) = (LatinBits(g) \in bits)
      BY <2>1, <2>2, Zenon DEF LatinOr
    <3> HIDE DEF g
    <3>3. /\ LatinBits(g) \in {{"pLu"}, {"pLl"}, {"pLu", "pLl"}} <=> g[1] = "L"
          /\ LatinBits(g) \in {{"pLu"}} <=> g = Lu
          /\ LatinBits(g) \in {{"pLl"}} <=> g = Ll
          /\ g # Lt
      BY <2>1, <3>1, LatinKnown
    <3>4. /\ IsLetter(c) = (LatinBits(g) \in {{"pLu"}, {"pLl"}, {"pLu", "pLl"}})
          /\ IsUpper(c) = (LatinBits(g) \in {{"pLu"}})
          /\ IsLower(c) = (LatinBits(g) \in {{"pLl"}})
          /\ IsTitle(c) = (LatinBits(g) \in {})
      BY <3>2, Zenon DEF IsLetter, IsUpper, IsLower, IsTitle
    <3>5. ~(LatinBits(g) \in {})
      OBVIOUS
    <3> QED
      BY <3>3, <3>4, <3>5, Zenon DEF g
  <2>3. CASE c \notin 0 .. MAX_LATIN1
    <3>1. c \in Rune /\ c > MAX_LATIN1
      BY <2>3, LimitsAssumption DEF Code, Rune
    <3>2. \A cat, bits : LatinOr(c, cat, bits) = IsExcludingLatin(TableOf(<<"category", cat>>), c)
      BY <2>3, Zenon DEF LatinOr, Category
    <3>3. \A cat \in {Lu, Ll, Lt, <<"L">>} :
            IsExcludingLatin(TableOf(<<"category", cat>>), c)
              <=> c \in GivenCodes(files, <<"category", cat>>)
      BY <1>3, <1>5, <3>1
    <3>4. /\ c \in GivenCodes(files, <<"category", <<"L">>>>) <=> g[1] = "L"
          /\ \A cat \in {Lu, Ll, Lt} : c \in GivenCodes(files, <<"category", cat>>) <=> g = cat
      BY <1>2, InGiven
    <3> HIDE DEF g
    <3>5. /\ IsLetter(c) = IsExcludingLatin(TableOf(<<"category", <<"L">>>>), c)
          /\ IsUpper(c) = IsExcludingLatin(TableOf(<<"category", Lu>>), c)
          /\ IsLower(c) = IsExcludingLatin(TableOf(<<"category", Ll>>), c)
          /\ IsTitle(c) = IsExcludingLatin(TableOf(<<"category", Lt>>), c)
      BY <3>2, Zenon DEF IsLetter, IsUpper, IsLower, IsTitle
    <3>6. /\ Lu \in {Lu, Ll, Lt} /\ Ll \in {Lu, Ll, Lt} /\ Lt \in {Lu, Ll, Lt}
          /\ Lu \in {Lu, Ll, Lt, <<"L">>} /\ Ll \in {Lu, Ll, Lt, <<"L">>}
          /\ Lt \in {Lu, Ll, Lt, <<"L">>} /\ <<"L">> \in {Lu, Ll, Lt, <<"L">>}
      OBVIOUS
    <3> QED
      BY <3>3, <3>4, <3>5, <3>6, Zenon DEF g
  <2> QED
    BY <2>2, <2>3
<1>7. \A n \in Names : GivenCodes(files, n) = {} \/ n \in DOMAIN where
  BY <1>2, <1>4
<1> QED
  BY <1>3, <1>6, <1>7, Zenon DEF TablesExact

LatinSteps == LoadRow \/ LoadFolding \/ GatherFolds \/ AddUnfolded \/ DropDefaults \/ LinkCycles
              \/ NextTable \/ PackOne \/ PackLast \/ Add \/ LeaveBlob \/ CaseScan

LEMMA LatinKept ==
  ASSUME Next PROVE LatinInv'
<1>1. CASE CaseEnd
  <2>1. chars' = chars
    BY <1>1 DEF CaseEnd, dbVars
  <2>2. stage' = "done" => \A c \in 0 .. MAX_LATIN1 : KnownInLatin1(chars[c].category)
    BY <1>1 DEF CaseEnd
  <2> QED
    BY <2>1, <2>2 DEF LatinInv
<1>2. CASE LatinSteps
  <2>1. stage' # "done"
    BY <1>2 DEF LatinSteps, LoadRow, LoadFolding, GatherFolds, AddUnfolded, DropDefaults,
                LinkCycles, NextTable, PackOne, PackLast, Add, LeaveBlob, CaseScan
  <2> QED
    BY <2>1 DEF LatinInv
<1> QED
  BY <1>1, <1>2 DEF Next, LatinSteps

(***************************************************************************)
(* The invariant of the generators: the database is read as it is given,   *)
(* a group of code points that fold together is in the table of orbits     *)
(* unless their case mappings already say so, and every table laid so far  *)
(* holds what the database gives its name.                                 *)
(***************************************************************************)
DatabaseInv == CharsInv /\ OrbitsInv /\ TablesInv /\ LatinInv

LEMMA InitDatabase ==
  Init => DatabaseInv
<1> SUFFICES ASSUME Init PROVE DatabaseInv
  OBVIOUS
<1>1. LatinInv
  BY DEF Init, LatinInv
<1> QED
  BY <1>1, InitChars, InitTables DEF DatabaseInv

LEMMA NextDatabase ==
  DatabaseInv /\ [Next]_vars => DatabaseInv'
<1> SUFFICES ASSUME DatabaseInv, [Next]_vars PROVE DatabaseInv'
  OBVIOUS
<1> USE DEF DatabaseInv
<1>1. CASE LoadRow
  BY <1>1, LoadRowKeeps, EarlyTables, LatinKept DEF Next
<1>2. CASE LoadFolding
  BY <1>2, LoadFoldingKeeps, EarlyTables, LatinKept DEF Next
<1>3. CASE GatherFolds
  BY <1>3, GatherFoldsKeeps, EarlyTables, LatinKept DEF Next
<1>4. CASE AddUnfolded
  BY <1>4, AddUnfoldedKeeps, EarlyTables, LatinKept DEF Next
<1>5. CASE DropDefaults
  BY <1>5, DropDefaultsKeeps, EarlyTables, LatinKept DEF Next
<1>6. CASE LinkCycles
  BY <1>6, LinkCyclesKeeps, LinkTables, LatinKept DEF Next
<1>7. CASE NextTable
  <2>1. UNCHANGED dbVars /\ stage \in Late /\ stage' \in Late
    BY <1>7 DEF NextTable, Late
  <2> QED
    BY <1>7, <2>1, DatabaseStays, NextTableTables, LatinKept DEF Next
<1>8. CASE PackOne \/ PackLast
  <2>1. UNCHANGED dbVars /\ stage \in Late /\ stage' \in Late
    BY <1>8 DEF PackOne, PackLast, Late
  <2> QED
    BY <1>8, <2>1, DatabaseStays, PackTables, LatinKept DEF Next
<1>9. CASE Add
  <2>1. UNCHANGED dbVars /\ stage \in Late /\ stage' \in Late
    BY <1>9 DEF Add, Late
  <2> QED
    BY <1>9, <2>1, DatabaseStays, AddTables, LatinKept DEF Next
<1>10. CASE LeaveBlob \/ CaseScan \/ CaseEnd
  <2>1. UNCHANGED dbVars /\ stage \in Late /\ stage' \in Late
    BY <1>10 DEF LeaveBlob, CaseScan, CaseEnd, Late
  <2> QED
    BY <1>10, <2>1, DatabaseStays, LateTables, LatinKept DEF Next
<1>11. CASE UNCHANGED vars
  <2>1. /\ files' = files /\ stage' = stage /\ at' = at /\ chars' = chars /\ orbits' = orbits
        /\ todo' = todo /\ name' = name /\ r16' = r16 /\ r32' = r32 /\ current' = current
        /\ words' = words /\ where' = where
    BY <1>11 DEF vars
  <2>2. \A c \in Code : LinkedTo(c)' = LinkedTo(c)
    BY <2>1 DEF LinkedTo
  <2>3. CharsInv'
    BY <2>1, <2>2 DEF CharsInv
  <2>4. OrbitsInv'
    BY <2>1 DEF OrbitsInv
  <2>5. \A S : Packing(S)' = Packing(S)
    BY <2>1, Zenon DEF Packing, Halves
  <2>6. \A S : Packed(S)' = Packed(S)
    BY <2>1, Zenon DEF Packed, Halves
  <2>7. stage \in Late => NamesInv' /\ PackInv'
    <3>1. stage \in Late => NamesInv /\ PackInv
      BY DEF TablesInv
    <3> QED
      BY <2>1, <2>5, <2>6, <3>1 DEF NamesInv, PackInv
  <2>8. TablesInv'
    BY <2>1, <2>7 DEF TablesInv
  <2>9. LatinInv'
    BY <2>1 DEF LatinInv
  <2> QED
    BY <2>3, <2>4, <2>8, <2>9
<1> QED
  BY <1>1, <1>2, <1>3, <1>4, <1>5, <1>6, <1>7, <1>8, <1>9, <1>10, <1>11 DEF Next

LEMMA DatabaseInvariant == Spec => []DatabaseInv
BY InitDatabase, NextDatabase, PTL DEF Spec

\* What IsIn, IsExcludingLatin and the Latin-1 predicates answer is what the
\* database says.
THEOREM SpecTablesExact == Spec => []TablesExact
<1>1. DatabaseInv => TablesExact
  BY TablesAnswer DEF DatabaseInv
<1> QED
  BY <1>1, DatabaseInvariant, PTL

-----------------------------------------------------------------------------
(* The rows of CaseRanges *)

\* What CaseStateOf makes of a code point of the database.
StateOf(f, c) ==
    LET x == CharOf(f, c)
        Delta(v) == IF v = 0 \/ ~x.assigned THEN 0 ELSE v - c
    IN  [point |-> c, kind |-> KindOf(x, c), up |-> Delta(x.upper),
         low |-> Delta(x.lower), title |-> Delta(x.title)]

Uncased(f, c) == StateOf(f, c).kind \in {"none", "missing"}

\* The two deltas an alternating run goes between.
Upward(s)   == s.up = 0 /\ s.low = 1 /\ s.title = 0
Downward(s) == s.up = -1 /\ s.low = 0 /\ s.title = -1
Alike(s, t) == s.up = t.up /\ s.low = t.low /\ s.title = t.title
Level(s)    == s.up = 0 /\ s.low = 0 /\ s.title = 0

LEMMA StateRead ==
  ASSUME CharsInv, stage \in Late, NEW c \in Code
  PROVE  CaseStateOf(c) = StateOf(files, c)
<1>1. /\ chars[c].upper = CharOf(files, c).upper /\ chars[c].lower = CharOf(files, c).lower
      /\ chars[c].title = CharOf(files, c).title
      /\ chars[c].assigned = CharOf(files, c).assigned
  BY ReadChar
<1>2. KindOf(chars[c], c) = KindOf(CharOf(files, c), c)
  BY <1>1 DEF KindOf
<1> QED
  BY <1>1, <1>2 DEF CaseStateOf, StateOf

LEMMA DeltasMean ==
  ASSUME NEW s, NEW t, s.up \in Int, s.low \in Int, s.title \in Int,
         t.up \in Int, t.low \in Int, t.title \in Int
  PROVE  /\ StartsUpperLower(s) <=> Upward(s)
         /\ StartsLowerUpper(s) <=> Downward(s)
         /\ Deltas(s) = Deltas(t) <=> Alike(s, t)
         /\ Deltas(s) = <<0, 0, 0>> <=> Level(s)
BY DEF StartsUpperLower, StartsLowerUpper, Deltas, Upward, Downward, Alike, Level

\* The deltas lead to the cases of the database.
LEMMA StateFacts ==
  ASSUME NEW f \in Files, NEW c \in Code
  PROVE  LET s == StateOf(f, c)
         IN  /\ s.point = c
             /\ s.up \in Int /\ s.low \in Int /\ s.title \in Int
             /\ s.up <= MAX_RUNE /\ s.low <= MAX_RUNE /\ s.title <= MAX_RUNE
             /\ GivenCase(f, "upper", c) = c + s.up
             /\ GivenCase(f, "lower", c) = c + s.low
             /\ GivenCase(f, "title", c) = c + s.title
             /\ Uncased(f, c) => Level(s)
             /\ Upward(s) => s.kind \in {"upper", "title"}
             /\ Downward(s) => s.kind = "lower"
             /\ c = MAX_RUNE => Uncased(f, c)
             /\ s.kind \in {"missing", "upper", "lower", "title", "none"}
<1> DEFINE x == CharOf(f, c)
           s == StateOf(f, c)
           Delta(v) == IF v = 0 \/ ~x.assigned THEN 0 ELSE v - c
<1>1. /\ x.upper \in Code /\ x.lower \in Code /\ x.title \in Code
      /\ x.assigned \in BOOLEAN
      /\ ~x.assigned => x.upper = 0 /\ x.lower = 0 /\ x.title = 0
      /\ GivenCase(f, "upper", c) = IF x.upper = 0 THEN c ELSE x.upper
      /\ GivenCase(f, "lower", c) = IF x.lower = 0 THEN c ELSE x.lower
      /\ GivenCase(f, "title", c) = IF x.title = 0 THEN c ELSE x.title
  BY CharFacts
<1>2. /\ x.title \in {0, c} \/ x.upper # 0 \/ x.lower # 0
      /\ c = MAX_RUNE => ~x.assigned
  BY CaseFacts
<1>3. /\ s.point = c /\ s.kind = KindOf(x, c)
      /\ s.up = Delta(x.upper) /\ s.low = Delta(x.lower) /\ s.title = Delta(x.title)
  BY DEF StateOf
<1> HIDE DEF x, s
<1>4. c \in Nat /\ MAX_RUNE \in Nat /\ \A v \in Code : v \in Nat /\ v <= MAX_RUNE
  BY LimitsAssumption DEF Code
<1>5. \A v \in Code : Delta(v) \in Int /\ Delta(v) <= MAX_RUNE
  BY <1>4
<1>6. /\ s.up = IF x.upper = 0 THEN 0 ELSE x.upper - c
      /\ s.low = IF x.lower = 0 THEN 0 ELSE x.lower - c
      /\ s.title = IF x.title = 0 THEN 0 ELSE x.title - c
  BY <1>1, <1>3
<1>6a. x.upper \in Nat /\ x.lower \in Nat /\ x.title \in Nat
  BY <1>1, <1>4
<1> HIDE DEF Delta
<1>7. /\ s.up \in Int /\ s.low \in Int /\ s.title \in Int
      /\ s.up <= MAX_RUNE /\ s.low <= MAX_RUNE /\ s.title <= MAX_RUNE
  BY <1>1, <1>3, <1>5
<1>8. /\ GivenCase(f, "upper", c) = c + s.up
      /\ GivenCase(f, "lower", c) = c + s.low
      /\ GivenCase(f, "title", c) = c + s.title
  BY <1>1, <1>4, <1>6, <1>6a
<1>9. s.kind \in {"missing", "upper", "lower", "title", "none"}
  BY <1>3 DEF KindOf
<1>10. s.kind = "missing" => ~x.assigned
  BY <1>3 DEF KindOf
<1>11. s.kind = "none" => x.lower = 0 /\ x.upper = 0 /\ x.title # c
  BY <1>3 DEF KindOf
<1>12. ASSUME Uncased(f, c) PROVE Level(s)
  <2>1. s.kind = "none" \/ s.kind = "missing"
    BY <1>12 DEF Uncased, s
  <2>2. x.upper = 0 /\ x.lower = 0 /\ x.title = 0
    BY <2>1, <1>1, <1>2, <1>10, <1>11
  <2> QED
    BY <2>2, <1>6 DEF Level
<1>13. ASSUME Upward(s) PROVE s.kind \in {"upper", "title"}
  <2>1. x.lower # 0 /\ x.lower # c /\ x.upper \in {0, c} /\ x.title \in {0, c}
    BY <1>4, <1>6, <1>13, <1>6a DEF Upward
  <2>2. x.assigned
    BY <1>1, <2>1
  <2> QED
    BY <1>3, <2>1, <2>2 DEF KindOf
<1>14. ASSUME Downward(s) PROVE s.kind = "lower"
  <2>1. x.upper # 0 /\ x.upper # c /\ x.lower \in {0, c} /\ x.title # c
    BY <1>4, <1>6, <1>14, <1>6a DEF Downward
  <2>2. x.assigned
    BY <1>1, <2>1
  <2> QED
    BY <1>3, <2>1, <2>2 DEF KindOf
<1>15. c = MAX_RUNE => Uncased(f, c)
  BY <1>2, <1>3 DEF KindOf, Uncased, s
<1> QED
  BY <1>3, <1>7, <1>8, <1>9, <1>12, <1>13, <1>14, <1>15 DEF s

\* A neighbour that continues a run: in a level run it maps alike, in the other
\* kind the two deltas take turns; the case of a case is itself, so no run goes
\* up twice or down twice.
Turn(s, t) ==
    /\ Upward(s) => Downward(t)
    /\ Downward(s) => Upward(t)
    /\ ~Upward(s) /\ ~Downward(s) => Alike(s, t)

LEMMA AdjacentTurn ==
  ASSUME NEW f \in Files, NEW c \in Code, c + 1 \in Code,
         Adjacent(StateOf(f, c), StateOf(f, c + 1))
  PROVE  /\ Turn(StateOf(f, c), StateOf(f, c + 1))
         /\ ~Uncased(f, c) /\ ~Uncased(f, c + 1)
<1> DEFINE d == c + 1
           p == StateOf(f, c)
           s == StateOf(f, d)
           x == CharOf(f, c)
           y == CharOf(f, d)
<1>1. c \in Nat /\ d \in Code /\ d = c + 1
  BY LimitsAssumption DEF Code
<1>2. Adjacent(p, s)
  OBVIOUS
<1> HIDE DEF d
<1>3. /\ p.up \in Int /\ p.low \in Int /\ p.title \in Int
      /\ Uncased(f, c) => Level(p)
      /\ Upward(p) => p.kind \in {"upper", "title"}
      /\ Downward(p) => p.kind = "lower"
  BY StateFacts
<1>4. /\ s.up \in Int /\ s.low \in Int /\ s.title \in Int
      /\ Uncased(f, d) => Level(s)
      /\ Upward(s) => s.kind \in {"upper", "title"}
      /\ Downward(s) => s.kind = "lower"
  BY <1>1, StateFacts
<1>5. /\ x.upper \in Code /\ x.lower \in Code /\ (~x.assigned => x.upper = 0 /\ x.lower = 0)
      /\ y.upper \in Code /\ y.lower \in Code /\ (~y.assigned => y.upper = 0 /\ y.lower = 0)
  BY <1>1, CharFacts
<1>6. /\ x.lower \notin {0, c} => CharOf(f, x.lower).lower \in {0, x.lower}
      /\ y.upper \notin {0, d} => CharOf(f, y.upper).upper \in {0, y.upper}
  BY <1>1, CaseFacts
<1>7. /\ p.up = IF x.upper = 0 \/ ~x.assigned THEN 0 ELSE x.upper - c
      /\ p.low = IF x.lower = 0 \/ ~x.assigned THEN 0 ELSE x.lower - c
      /\ s.up = IF y.upper = 0 \/ ~y.assigned THEN 0 ELSE y.upper - d
      /\ s.low = IF y.lower = 0 \/ ~y.assigned THEN 0 ELSE y.lower - d
  BY DEF StateOf
<1>8. (p.kind \in {"none", "missing"}) = Uncased(f, c) /\ (s.kind \in {"none", "missing"}) = Uncased(f, d)
  BY Zenon DEF Uncased
<1> HIDE DEF p, s
<1>9. ~(Upward(p) /\ Upward(s))
  <2> SUFFICES ASSUME Upward(p), Upward(s) PROVE FALSE
    OBVIOUS
  <2>1. p.low = 1 /\ s.low = 1
    BY DEF Upward
  <2> HIDE DEF x, y
  <2>2. x.lower = d /\ y.lower = d + 1 /\ c \in Int /\ d \in Int
    BY <1>1, <1>5, <1>7, <2>1, LimitsAssumption DEF Code
  <2>3. x.lower \notin {0, c}
    BY <2>2, <1>1
  <2>4. CharOf(f, d).lower \in {0, d}
    BY <2>2, <2>3, <1>6
  <2>5. y.lower \in {0, d}
    BY <2>4 DEF y
  <2> QED
    BY <2>2, <2>5, <1>1
<1>10. ~(Downward(p) /\ Downward(s))
  <2> SUFFICES ASSUME Downward(p), Downward(s) PROVE FALSE
    OBVIOUS
  <2>1. p.up = -1 /\ s.up = -1
    BY DEF Downward
  <2> HIDE DEF x, y
  <2>2. y.upper # 0 /\ y.upper = c /\ x.upper # 0 /\ x.upper = c - 1
    BY <1>1, <1>5, <1>7, <2>1, LimitsAssumption DEF Code
  <2>3. CharOf(f, c).upper \in {0, c}
    BY <2>2, <1>1, <1>6
  <2>4. x.upper \in {0, c}
    BY <2>3 DEF x
  <2> QED
    BY <2>2, <2>4, <1>1
<1> HIDE DEF x, y
<1>11. CASE s.kind = p.kind /\ p.kind \notin {"none", "missing"} /\ Deltas(s) = Deltas(p)
  <2>1. Alike(s, p)
    BY <1>3, <1>4, <1>11, DeltasMean
  <2>2. Alike(p, s) /\ (Upward(p) => Upward(s)) /\ (Downward(p) => Downward(s))
    BY <2>1 DEF Alike, Upward, Downward
  <2> QED
    BY <2>2, <1>8, <1>9, <1>10, <1>11 DEF Turn, p, s, d
<1>12. CASE /\ s.kind # p.kind /\ (p.kind = "upper" => s.kind = "lower")
            /\ (p.kind = "lower" => s.kind = "upper")
            /\ LET first == IF p.kind = "lower" THEN s ELSE p
                   second == IF p.kind = "lower" THEN p ELSE s
               IN  StartsUpperLower(first) /\ StartsLowerUpper(second)
  <2>1. ~Level(p) /\ ~Level(s) => ~Uncased(f, c) /\ ~Uncased(f, d)
    BY <1>3, <1>4
  <2>2. CASE p.kind = "lower"
    <3>1. StartsUpperLower(s) /\ StartsLowerUpper(p)
      BY <1>12, <2>2
    <3>2. Upward(s) /\ Downward(p)
      BY <3>1, <1>3, <1>4, DeltasMean
    <3>3. ~Upward(p) /\ ~Level(p) /\ ~Level(s)
      BY <3>2 DEF Upward, Downward, Level
    <3> QED
      BY <3>2, <3>3, <2>1 DEF Turn, p, s, d
  <2>3. CASE p.kind # "lower"
    <3>1. StartsUpperLower(p) /\ StartsLowerUpper(s)
      BY <1>12, <2>3
    <3>2. Upward(p) /\ Downward(s)
      BY <3>1, <1>3, <1>4, DeltasMean
    <3>3. ~Downward(p) /\ ~Level(p) /\ ~Level(s)
      BY <3>2 DEF Upward, Downward, Level
    <3> QED
      BY <3>2, <3>3, <2>1 DEF Turn, p, s, d
  <2> QED
    BY <2>2, <2>3
<1> QED
  BY <1>2, <1>11, <1>12, Zenon DEF Adjacent

\* What a code point of a run maps like, from what the first of it does.
Follows(f, s, c) ==
    IF (c - s) % 2 = 0 THEN Alike(StateOf(f, s), StateOf(f, c))
                       ELSE Turn(StateOf(f, s), StateOf(f, c))

LEMMA FollowsOn ==
  ASSUME NEW f, NEW s \in Nat, NEW c \in Nat, s <= c, Follows(f, s, c),
         Turn(StateOf(f, c), StateOf(f, c + 1))
  PROVE  Follows(f, s, c + 1)
<1> DEFINE a == StateOf(f, s)
           b == StateOf(f, c)
           d == StateOf(f, c + 1)
<1>1. Turn(b, d)
  OBVIOUS
<1>2. (c - s) % 2 \in {0, 1} /\ ((c + 1) - s) % 2 = 1 - ((c - s) % 2)
  OBVIOUS
<1> HIDE DEF a, b, d
<1>3. CASE (c - s) % 2 = 0
  <2>1. Alike(a, b)
    BY <1>3 DEF Follows, a, b
  <2>2. Turn(a, d)
    BY <1>1, <2>1 DEF Turn, Alike, Upward, Downward
  <2> QED
    BY <1>2, <1>3, <2>2 DEF Follows, a, d
<1>4. CASE (c - s) % 2 = 1
  <2>1. Turn(a, b)
    BY <1>4 DEF Follows, a, b
  <2>2. Alike(a, d)
    BY <1>1, <2>1 DEF Turn, Alike, Upward, Downward
  <2> QED
    BY <1>2, <1>4, <2>2 DEF Follows, a, d
<1> QED
  BY <1>2, <1>3, <1>4

CaseRow == [lo : Code, hi : Code, delta : Int \X Int \X Int]

LEMMA CaseRowsTyped ==
  ASSUME NEW rows \in Seq(CaseRow)
  PROVE  \A i \in 1 .. Len(rows) : rows[i].lo \in Code /\ rows[i].hi \in Code
<1>1. \A i \in 1 .. Len(rows) : rows[i] \in CaseRow
  OBVIOUS
<1>2. \A row \in CaseRow : row.lo \in Code /\ row.hi \in Code
  BY DEF CaseRow
<1> QED
  BY <1>1, <1>2

\* A row maps a code point as the database does.
Maps(f, row, c) ==
    /\ Apply(row, UPPER_CASE, c) = c + StateOf(f, c).up
    /\ Apply(row, LOWER_CASE, c) = c + StateOf(f, c).low
    /\ Apply(row, TITLE_CASE, c) = c + StateOf(f, c).title

LEMMA WrittenRow ==
  ASSUME NEW f \in Files, NEW s \in Code, NEW e \in Code, s <= e,
         \A c \in s .. e : Follows(f, s, c),
         ~(s < e /\ Downward(StateOf(f, s)))
  PROVE  LET row == RowOf(StateOf(f, s), StateOf(f, e))
         IN  row \in CaseRow /\ row.lo = s /\ row.hi = e /\ \A c \in s .. e : Maps(f, row, c)
<1> DEFINE a == StateOf(f, s)
           row == RowOf(a, StateOf(f, e))
           U == MAX_RUNE + 1
<1>1. /\ a.point = s /\ a.up \in Int /\ a.low \in Int /\ a.title \in Int
      /\ a.up <= MAX_RUNE /\ a.low <= MAX_RUNE /\ a.title <= MAX_RUNE
      /\ StateOf(f, e).point = e
  BY StateFacts
<1>2. s \in Nat /\ e \in Nat /\ MAX_RUNE \in Nat /\ \A c \in s .. e : c \in Code /\ c \in Nat
  BY LimitsAssumption DEF Code
<1>3. StartsUpperLower(a) <=> Upward(a)
  BY <1>1, DeltasMean
<1>4. /\ row.lo = s /\ row.hi = e
      /\ s < e /\ Upward(a) => row.delta = <<U, U, U>>
      /\ ~(s < e /\ Upward(a)) => row.delta = <<a.up, a.low, a.title>>
      /\ row = [lo |-> row.lo, hi |-> row.hi, delta |-> row.delta]
  BY <1>1, <1>2, <1>3 DEF RowOf, UPPER_LOWER, Deltas
<1> HIDE DEF row
<1>5. row \in CaseRow
  <2>1. row.delta \in Int \X Int \X Int
    <3>1. U \in Int
      BY <1>2
    <3> HIDE DEF U
    <3> QED
      BY <1>1, <1>4, <3>1
  <2> QED
    BY <1>4, <2>1 DEF CaseRow
<1>6. ASSUME NEW c \in s .. e PROVE Maps(f, row, c)
  <2> DEFINE b == StateOf(f, c)
  <2>1. c \in Nat /\ c - s \in Nat /\ b.up \in Int /\ b.low \in Int /\ b.title \in Int
    BY <1>2, StateFacts
  <2>2. Follows(f, s, c)
    OBVIOUS
  <2>3. IF (c - s) % 2 = 0 THEN Alike(a, b) ELSE Turn(a, b)
    BY <2>2 DEF Follows
  <2> HIDE DEF a, b
  <2>4. CASE s < e /\ Upward(a)
    <3>1. row.delta[1] = U /\ row.delta[2] = U /\ row.delta[3] = U /\ U > MAX_RUNE
      BY <1>2, <1>4, <2>4
    <3>2. /\ 0 + 1 = 1 /\ 1 + 1 = 2 /\ 2 + 1 = 3
          /\ 0 % 2 = 0 /\ 1 % 2 = 1 /\ 2 % 2 = 0
      OBVIOUS
    <3>3. /\ Apply(row, 0, c) = s + 2 * ((c - s) \div 2) + (0 % 2)
          /\ Apply(row, 1, c) = s + 2 * ((c - s) \div 2) + (1 % 2)
          /\ Apply(row, 2, c) = s + 2 * ((c - s) \div 2) + (2 % 2)
      BY <1>4, <3>1, <3>2, Zenon DEF Apply
    <3>4. CASE (c - s) % 2 = 0
      <4>1. b.up = 0 /\ b.low = 1 /\ b.title = 0
        BY <2>3, <2>4, <3>4 DEF Alike, Upward
      <4>2. s + 2 * ((c - s) \div 2) = c
        BY <1>2, <2>1, <3>4
      <4> QED
        BY <2>1, <3>2, <3>3, <4>1, <4>2
              DEF Maps, UPPER_CASE, LOWER_CASE, TITLE_CASE, b
    <3>5. CASE (c - s) % 2 # 0
      <4>1. b.up = -1 /\ b.low = 0 /\ b.title = -1
        BY <2>3, <2>4, <3>5 DEF Turn, Downward
      <4>2. s + 2 * ((c - s) \div 2) = c - 1
        BY <1>2, <2>1, <3>5
      <4> QED
        BY <2>1, <3>2, <3>3, <4>1, <4>2
              DEF Maps, UPPER_CASE, LOWER_CASE, TITLE_CASE, b
    <3> QED
      BY <3>4, <3>5
  <2>5. CASE ~(s < e /\ Upward(a))
    <3>1. /\ row.delta[1] = a.up /\ row.delta[2] = a.low /\ row.delta[3] = a.title
          /\ ~(a.up > MAX_RUNE) /\ ~(a.low > MAX_RUNE) /\ ~(a.title > MAX_RUNE)
      BY <1>1, <1>2, <1>4, <2>5
    <3>2. 0 + 1 = 1 /\ 1 + 1 = 2 /\ 2 + 1 = 3
      OBVIOUS
    <3>3. /\ Apply(row, 0, c) = c + a.up /\ Apply(row, 1, c) = c + a.low
          /\ Apply(row, 2, c) = c + a.title
      BY <3>1, <3>2, Zenon DEF Apply
    <3>4. Alike(a, b)
      <4>1. CASE s = e
        <5>1. c = s /\ (c - s) % 2 = 0
          BY <1>2, <4>1
        <5> QED
          BY <2>3, <5>1
      <4>2. CASE s # e
        <5>1. ~Upward(a) /\ ~Downward(a)
          BY <1>2, <2>5, <4>2 DEF a
        <5> QED
          BY <2>3, <5>1 DEF Turn
      <4> QED
        BY <4>1, <4>2
    <3> QED
      BY <3>3, <3>4 DEF Maps, Alike, UPPER_CASE, LOWER_CASE, TITLE_CASE, b
  <2> QED
    BY <2>4, <2>5
<1> QED
  BY <1>4, <1>5, <1>6 DEF row

\* The rows are in order, and map what is within them as the database does.
RowsRight(f, rows) ==
    /\ rows \in Seq(CaseRow)
    /\ \A i \in 1 .. Len(rows) :
        /\ rows[i].lo <= rows[i].hi
        /\ \A c \in rows[i].lo .. rows[i].hi : Maps(f, rows[i], c)
    /\ \A i, j \in 1 .. Len(rows) : i < j => rows[i].hi < rows[j].lo

\* Below n every code point is in a row, or maps to itself.
Written(f, rows, n) ==
    /\ \A i \in 1 .. Len(rows) : rows[i].hi < n
    /\ \A c \in Code : c < n =>
        (\E i \in 1 .. Len(rows) : c \in rows[i].lo .. rows[i].hi) \/ Level(StateOf(f, c))

\* The run in hand goes from s to the code point before n.
Running(f, s, n) ==
    s < n /\ ~Uncased(f, n - 1) /\ \A c \in s .. n - 1 : Follows(f, s, c)

(***************************************************************************)
(* The invariant of the case rows: those written are in order, map what is *)
(* in them as the database does and leave out only what maps to itself,    *)
(* but for the run in hand, all of which follows its first code point.     *)
(***************************************************************************)
CasesInv ==
    /\ stage \notin {"cases", "raised", "done"} =>
        cases = <<>> /\ start = NoStart /\ previous = NoState
    /\ stage \in {"cases", "done"} =>
        /\ at \in 0 .. MAX_RUNE + 1 /\ (stage = "done" => at = MAX_RUNE + 1)
        /\ RowsRight(files, cases)
        /\ previous = IF at = 0 THEN NoState ELSE StateOf(files, at - 1)
        /\ start = NoStart =>
            Written(files, cases, at) /\ (at = 0 \/ Uncased(files, at - 1))
        /\ start # NoStart => \E s \in Code :
            start = StateOf(files, s) /\ Running(files, s, at) /\ Written(files, cases, s)

LEMMA RowAppended ==
  ASSUME NEW f, NEW rows, RowsRight(f, rows), NEW row \in CaseRow, NEW s \in Code, NEW n \in Nat,
         Written(f, rows, s), row.lo = s, row.hi = n - 1, s < n,
         \A c \in s .. n - 1 : Maps(f, row, c)
  PROVE  RowsRight(f, Append(rows, row)) /\ Written(f, Append(rows, row), n)
<1> DEFINE more == Append(rows, row)
           m == Len(rows)
<1>1. /\ rows \in Seq(CaseRow) /\ m \in Nat /\ more \in Seq(CaseRow) /\ Len(more) = m + 1
      /\ \A i \in 1 .. m : more[i] = rows[i] /\ rows[i] \in CaseRow
      /\ more[m + 1] = row
  BY DEF RowsRight
<1>2. s \in Nat /\ n - 1 \in Nat /\ \A c \in Code : c \in Nat
  BY LimitsAssumption DEF Code
<1>3. /\ \A i \in 1 .. m : rows[i].lo <= rows[i].hi /\ rows[i].hi < s
      /\ \A i \in 1 .. m : \A c \in rows[i].lo .. rows[i].hi : Maps(f, rows[i], c)
      /\ \A i, j \in 1 .. m : i < j => rows[i].hi < rows[j].lo
  BY DEF RowsRight, Written
<1>4. \A i \in 1 .. m : rows[i].hi \in Nat /\ rows[i].lo \in Nat
  BY <1>1, <1>2 DEF CaseRow
<1> HIDE DEF more, m
<1>5. \A i \in 1 .. m + 1 : i \in 1 .. m \/ i = m + 1
  BY <1>1
<1>6. \A i \in 1 .. m + 1 :
        /\ more[i].lo <= more[i].hi
        /\ \A c \in more[i].lo .. more[i].hi : Maps(f, more[i], c)
  BY <1>1, <1>2, <1>3, <1>5
<1>7. \A i, j \in 1 .. m + 1 : i < j => more[i].hi < more[j].lo
  <2> SUFFICES ASSUME NEW i \in 1 .. m + 1, NEW j \in 1 .. m + 1, i < j
               PROVE  more[i].hi < more[j].lo
    OBVIOUS
  <2>1. i \in 1 .. m
    BY <1>1
  <2> QED
    BY <2>1, <1>1, <1>3, <1>5
<1>8. RowsRight(f, more)
  BY <1>1, <1>6, <1>7 DEF RowsRight
<1>9. \A i \in 1 .. m + 1 : more[i].hi < n
  <2> SUFFICES ASSUME NEW i \in 1 .. m + 1 PROVE more[i].hi < n
    OBVIOUS
  <2>1. CASE i \in 1 .. m
    BY <2>1, <1>1, <1>2, <1>3, <1>4
  <2>2. CASE i = m + 1
    BY <2>2, <1>1, <1>2
  <2> QED
    BY <2>1, <2>2, <1>5
<1>10. ASSUME NEW c \in Code, c < n
       PROVE  (\E i \in 1 .. m + 1 : c \in more[i].lo .. more[i].hi) \/ Level(StateOf(f, c))
  <2>1. CASE c < s
    <3>1. (\E i \in 1 .. m : c \in rows[i].lo .. rows[i].hi) \/ Level(StateOf(f, c))
      BY <2>1 DEF Written, m
    <3>2. \A i \in 1 .. m : i \in 1 .. m + 1 /\ more[i] = rows[i]
      BY <1>1
    <3> QED
      BY <3>1, <3>2
  <2>2. CASE ~(c < s)
    <3>1. m + 1 \in 1 .. m + 1 /\ c \in s .. n - 1
      BY <1>1, <1>2, <1>10, <2>2
    <3> QED
      BY <3>1, <1>1
  <2> QED
    BY <2>1, <2>2
<1>11. Written(f, more, n)
  BY <1>1, <1>9, <1>10 DEF Written
<1> QED
  BY <1>8, <1>11 DEF more

\* A run that goes by no case is not written, and nothing is missed.
LEMMA LevelRun ==
  ASSUME NEW f \in Files, NEW rows, NEW s \in Code, NEW n \in Nat,
         Written(f, rows, s), RowsRight(f, rows), Running(f, s, n), Level(StateOf(f, s))
  PROVE  Written(f, rows, n)
<1>1. s \in Nat /\ \A c \in Code : c \in Nat
  BY LimitsAssumption DEF Code
<1>2. \A i \in 1 .. Len(rows) : rows[i].hi < s /\ rows[i].hi \in Nat
  <2>1. rows \in Seq(CaseRow)
    BY DEF RowsRight
  <2>2. \A i \in 1 .. Len(rows) : rows[i].hi \in Code
    BY <2>1, CaseRowsTyped
  <2> QED
    BY <1>1, <2>2 DEF Written
<1>3. s < n
  BY DEF Running
<1>4. \A i \in 1 .. Len(rows) : rows[i].hi < n
  BY <1>1, <1>2, <1>3
<1>5. ASSUME NEW c \in Code, c < n, ~(c < s) PROVE Level(StateOf(f, c))
  <2>1. c \in s .. n - 1
    BY <1>1, <1>5
  <2>2. Follows(f, s, c)
    BY <2>1 DEF Running
  <2>3. Alike(StateOf(f, s), StateOf(f, c))
    BY <2>2 DEF Follows, Turn, Level, Upward, Downward
  <2> QED
    BY <2>3 DEF Alike, Level
<1> QED
  BY <1>4, <1>5 DEF Written

LEMMA WrittenOne ==
  ASSUME NEW f, NEW rows, NEW n \in Nat, Written(f, rows, n), RowsRight(f, rows),
         Level(StateOf(f, n))
  PROVE  Written(f, rows, n + 1)
<1>1. \A c \in Code : c \in Nat
  BY LimitsAssumption DEF Code
<1>2. \A i \in 1 .. Len(rows) : rows[i].hi < n /\ rows[i].hi \in Nat
  <2>1. rows \in Seq(CaseRow)
    BY DEF RowsRight
  <2>2. \A i \in 1 .. Len(rows) : rows[i].hi \in Code
    BY <2>1, CaseRowsTyped
  <2> QED
    BY <1>1, <2>2 DEF Written
<1>3. \A i \in 1 .. Len(rows) : rows[i].hi < n + 1
  BY <1>2
<1>4. \A c \in Code : c < n + 1 => c < n \/ c = n
  BY <1>1
<1> QED
  BY <1>3, <1>4 DEF Written

LEMMA InitCases ==
  ASSUME Init PROVE CasesInv
BY DEF Init, CasesInv

LEMMA EarlierCases ==
  ASSUME CasesInv, stage \notin {"cases", "raised", "done"}, UNCHANGED caseVars,
         stage' \notin {"cases", "raised", "done"}
  PROVE  CasesInv'
BY DEF CasesInv, caseVars

LEMMA LeaveBlobCases ==
  ASSUME CasesInv, LeaveBlob PROVE CasesInv'
<1>1. /\ stage = "blob" /\ stage' \in {"cases", "raised"} /\ at' = 0
      /\ cases' = cases /\ start' = start /\ previous' = previous
  BY DEF LeaveBlob, caseVars
<1>2. cases = <<>> /\ start = NoStart /\ previous = NoState
  BY <1>1 DEF CasesInv
<1>3. 0 \in 0 .. MAX_RUNE + 1 /\ \A c \in Code : ~(c < 0)
  BY LimitsAssumption DEF Code
<1>4. Len(<<>>) = 0 /\ 1 .. 0 = {} /\ <<>> \in Seq(CaseRow)
  OBVIOUS
<1>5. \A f : RowsRight(f, <<>>) /\ Written(f, <<>>, 0)
  BY <1>3, <1>4 DEF RowsRight, Written
<1> QED
  BY <1>1, <1>2, <1>3, <1>5 DEF CasesInv

LEMMA CaseEndCases ==
  ASSUME CasesInv, CaseEnd PROVE CasesInv'
<1>1. /\ stage = "cases" /\ at = MAX_RUNE + 1 /\ stage' \in {"done", "raised"}
      /\ files' = files /\ at' = at
      /\ cases' = cases /\ start' = start /\ previous' = previous
  BY DEF CaseEnd, caseVars, dbVars
<1> QED
  BY <1>1 DEF CasesInv

LEMMA CaseScanCases ==
  ASSUME CharsInv, CasesInv, CaseScan PROVE CasesInv'
<1> DEFINE state == StateOf(files, at)
           written == start # NoStart /\ Deltas(start) # <<0, 0, 0>>
           backward == written /\ previous.point > start.point /\ StartsLowerUpper(start)
<1>1. /\ stage = "cases" /\ at <= MAX_RUNE /\ files' = files /\ at' = at + 1
      /\ stage' \in {"cases", "raised"}
  BY DEF CaseScan, dbVars
<1>2. /\ files \in Files /\ at \in 0 .. MAX_RUNE + 1
      /\ RowsRight(files, cases)
      /\ previous = IF at = 0 THEN NoState ELSE StateOf(files, at - 1)
      /\ start = NoStart => Written(files, cases, at) /\ (at = 0 \/ Uncased(files, at - 1))
      /\ start # NoStart => \E s \in Code :
            start = StateOf(files, s) /\ Running(files, s, at) /\ Written(files, cases, s)
  BY <1>1 DEF CasesInv, CharsInv
<1>3. at \in Code /\ at \in Nat /\ at + 1 \in 0 .. MAX_RUNE + 1 /\ (at + 1) - 1 = at
      /\ (at # 0 => at - 1 \in Code /\ (at - 1) + 1 = at) /\ at + 1 # 0
      /\ \A c \in Code : c \in Nat
  BY <1>1, <1>2, LimitsAssumption DEF Code
<1>4. CaseStateOf(at) = state
  BY <1>1, <1>3, StateRead DEF Late
<1>5. /\ previous' = state
      /\ Adjacent(previous, state) => UNCHANGED <<stage, cases, start>>
      /\ ~Adjacent(previous, state) =>
            /\ stage' = IF backward THEN "raised" ELSE stage
            /\ cases' = IF written /\ ~backward THEN Append(cases, RowOf(start, previous)) ELSE cases
            /\ start' = IF state.kind \in {"missing", "none"} THEN NoStart ELSE state
  BY <1>4, Zenon DEF CaseScan
<1>6. /\ state.point = at /\ state.up \in Int /\ state.low \in Int /\ state.title \in Int
      /\ Uncased(files, at) => Level(state)
      /\ (state.kind \in {"missing", "none"} <=> Uncased(files, at))
  <2>1. state.kind \in {"missing", "none"} <=> Uncased(files, at)
    BY DEF Uncased
  <2> QED
    BY <2>1, <1>2, <1>3, StateFacts
<1>7. NoStart.point = -1 /\ NoState.point = 0
  BY DEF NoStart, NoState
<1> HIDE DEF state, written, backward
<1>8. CASE Adjacent(previous, state)
  <2>1. at # 0
    <3> SUFFICES ASSUME at = 0 PROVE FALSE
      OBVIOUS
    <3>1. previous = NoState /\ state.point = 0
      BY <1>2, <1>6
    <3> QED
      BY <3>1, <1>7, <1>8 DEF Adjacent
  <2>2. previous = StateOf(files, at - 1) /\ at - 1 \in Code /\ (at - 1) + 1 = at
    BY <1>2, <1>3, <2>1
  <2>3. /\ Turn(StateOf(files, at - 1), StateOf(files, at))
        /\ ~Uncased(files, at - 1) /\ ~Uncased(files, at)
    <3>1. Adjacent(StateOf(files, at - 1), StateOf(files, (at - 1) + 1))
      BY <2>2, <1>8 DEF state
    <3>2. (at - 1) + 1 \in Code
      BY <2>2, <1>3
    <3> QED
      BY <3>1, <3>2, <2>2, <1>2, AdjacentTurn
  <2>4. start # NoStart
    BY <1>2, <2>1, <2>3
  <2>5. PICK s \in Code :
            start = StateOf(files, s) /\ Running(files, s, at) /\ Written(files, cases, s)
    BY <1>2, <2>4
  <2>6. Running(files, s, at + 1)
    <3>1. s \in Nat /\ s < at /\ s <= at - 1 /\ at - 1 \in Nat
      BY <1>3, <2>5, <2>2 DEF Running
    <3>2. Follows(files, s, at - 1)
      BY <2>5, <3>1 DEF Running
    <3>3. Follows(files, s, (at - 1) + 1)
      BY <2>2, <2>3, <3>1, <3>2, FollowsOn
    <3>4. \A c \in s .. (at + 1) - 1 : c \in s .. at - 1 \/ c = at
      BY <1>3, <3>1
    <3>5. \A c \in s .. (at + 1) - 1 : Follows(files, s, c)
      BY <2>2, <2>5, <3>3, <3>4 DEF Running
    <3> QED
      BY <1>3, <2>3, <3>1, <3>5 DEF Running
  <2>7. stage' = "cases" /\ cases' = cases /\ start' = start
    BY <1>1, <1>5, <1>8
  <2> QED
    BY <1>1, <1>2, <1>3, <1>5, <2>4, <2>5, <2>6, <2>7 DEF CasesInv, state
<1>9. CASE ~Adjacent(previous, state) /\ backward
  <2>1. stage' = "raised"
    BY <1>5, <1>9
  <2> QED
    BY <2>1 DEF CasesInv
<1>10. CASE ~Adjacent(previous, state) /\ ~backward
  <2>1. /\ stage' = "cases"
        /\ cases' = IF written THEN Append(cases, RowOf(start, previous)) ELSE cases
        /\ start' = IF Uncased(files, at) THEN NoStart ELSE state
    BY <1>1, <1>5, <1>6, <1>10
  <2>2. RowsRight(files, cases') /\ Written(files, cases', at)
    <3>1. CASE start = NoStart
      <4>1. cases' = cases
        BY <2>1, <3>1 DEF written
      <4> QED
        BY <1>2, <3>1, <4>1
    <3>2. CASE start # NoStart
      <4>1. PICK s \in Code :
              start = StateOf(files, s) /\ Running(files, s, at) /\ Written(files, cases, s)
        BY <1>2, <3>2
      <4>2. /\ start.point = s /\ start.up \in Int /\ start.low \in Int /\ start.title \in Int
        BY <1>2, <4>1, StateFacts
      <4>3. /\ written <=> ~Level(start)
            /\ StartsLowerUpper(start) <=> Downward(start)
        BY <3>2, <4>2, DeltasMean DEF written
      <4>4. s \in Nat /\ s < at /\ s <= at - 1 /\ at # 0 /\ at - 1 \in Code
        BY <1>3, <4>1 DEF Running
      <4>5. previous = StateOf(files, at - 1) /\ previous.point = at - 1
        BY <1>2, <4>4, StateFacts
      <4>6. CASE Level(start)
        <5>1. cases' = cases
          BY <2>1, <4>3, <4>6
        <5> QED
          BY <1>2, <1>3, <4>1, <4>6, <5>1, LevelRun
      <4>7. CASE ~Level(start)
        <5> DEFINE row == RowOf(StateOf(files, s), StateOf(files, at - 1))
        <5>1. cases' = Append(cases, row)
          BY <2>1, <4>1, <4>3, <4>5, <4>7
        <5>2. ~(s < at - 1 /\ Downward(StateOf(files, s)))
          BY <1>10, <1>3, <4>1, <4>2, <4>3, <4>4, <4>5, <4>7 DEF backward
        <5>3. \A c \in s .. at - 1 : Follows(files, s, c)
          BY <4>1 DEF Running
        <5>4. row \in CaseRow /\ row.lo = s /\ row.hi = at - 1 /\ \A c \in s .. at - 1 : Maps(files, row, c)
          BY <1>2, <4>4, <5>2, <5>3, WrittenRow
        <5> HIDE DEF row
        <5>5. RowsRight(files, Append(cases, row)) /\ Written(files, Append(cases, row), at)
          BY <1>2, <1>3, <4>1, <4>4, <5>4, RowAppended
        <5> QED
          BY <5>1, <5>5
      <4> QED
        BY <4>6, <4>7
    <3> QED
      BY <3>1, <3>2
  <2>3. CASE Uncased(files, at)
    <3>1. start' = NoStart /\ Written(files, cases', at + 1)
      BY <2>1, <2>2, <2>3, <1>3, <1>6, WrittenOne DEF state
    <3> QED
      BY <1>1, <1>3, <1>5, <2>1, <2>2, <2>3, <3>1 DEF CasesInv, state
  <2>4. CASE ~Uncased(files, at)
    <3>1. start' = state /\ state # NoStart
      BY <1>3, <1>6, <1>7, <2>1, <2>4
    <3>2. Running(files, at, at + 1)
      <4>1. at < at + 1 /\ \A c \in at .. (at + 1) - 1 : c = at
        BY <1>3
      <4>2. (at - at) % 2 = 0
        BY <1>3
      <4>3. Follows(files, at, at)
        BY <4>2 DEF Follows, Alike
      <4> QED
        BY <1>3, <2>4, <4>1, <4>3 DEF Running
    <3> QED
      BY <1>1, <1>3, <1>5, <2>1, <2>2, <3>1, <3>2 DEF CasesInv, state
  <2> QED
    BY <2>3, <2>4
<1> QED
  BY <1>8, <1>9, <1>10

-----------------------------------------------------------------------------
(* The search over the rows *)

\* What the function of To is: the row in the middle, or one half.
Mapping(case, r, f) ==
    f = [span \in (0 .. Len(cases)) \X (0 .. Len(cases)) |->
            LET middle == (span[1] + span[2]) \div 2
                row == cases[middle + 1]
            IN  IF span[1] >= span[2] THEN r
                ELSE IF row.lo <= r /\ r <= row.hi THEN Apply(row, case, r)
                ELSE IF r < row.lo THEN f[<<span[1], middle>>]
                ELSE f[<<middle + 1, span[2]>>]]

\* r is in one of the rows of a half.
Covered(low, high, r) ==
    \E i \in low .. high - 1 : cases[i + 1].lo <= r /\ r <= cases[i + 1].hi

LEMMA ToIs ==
  ASSUME NEW case, NEW r
  PROVE  To(case, r) = (CHOOSE f : Mapping(case, r, f))[<<0, Len(cases)>>]
BY DEF To, Mapping

LEMMA CoveredByHalves ==
  ASSUME NEW f, RowsRight(f, cases), NEW r \in Nat,
         NEW low \in 0 .. Len(cases), NEW high \in 0 .. Len(cases), low < high,
         NEW middle \in low .. high - 1
  PROVE  LET row == cases[middle + 1]
         IN  /\ row.lo <= r /\ r <= row.hi => Covered(low, high, r)
             /\ ~(row.lo <= r /\ r <= row.hi) =>
                    (Covered(low, high, r) <=> IF r < row.lo THEN Covered(low, middle, r)
                                               ELSE Covered(middle + 1, high, r))
<1> DEFINE row == cases[middle + 1]
           m == Len(cases)
<1>1. cases \in Seq(CaseRow) /\ m \in Nat
  BY DEF RowsRight
<1>2. \A i \in 0 .. m - 1 : i + 1 \in 1 .. m
  BY <1>1
<1>3. \A i \in 0 .. m - 1 : cases[i + 1].lo \in Nat /\ cases[i + 1].hi \in Nat
  <2>1. \A i \in 1 .. m : cases[i].lo \in Code /\ cases[i].hi \in Code
    BY <1>1, CaseRowsTyped
  <2>2. \A c \in Code : c \in Nat
    BY LimitsAssumption DEF Code
  <2> QED
    BY <1>2, <2>1, <2>2
<1>4. \A i, j \in 0 .. m - 1 : i < j => cases[i + 1].hi < cases[j + 1].lo
  <2> SUFFICES ASSUME NEW i \in 0 .. m - 1, NEW j \in 0 .. m - 1, i < j
               PROVE  cases[i + 1].hi < cases[j + 1].lo
    OBVIOUS
  <2>1. i + 1 \in 1 .. m /\ j + 1 \in 1 .. m /\ i + 1 < j + 1
    BY <1>2
  <2> QED
    BY <2>1 DEF RowsRight
<1>5. \A i \in 0 .. m - 1 : cases[i + 1].lo <= cases[i + 1].hi
  BY <1>2 DEF RowsRight
<1>6. /\ low \in Nat /\ high \in Nat /\ middle \in Nat /\ middle \in 0 .. m - 1
      /\ \A i \in low .. high - 1 : i \in 0 .. m - 1 /\ i \in Nat
  BY <1>1
<1> HIDE DEF m
<1>7. row.lo \in Nat /\ row.hi \in Nat /\ row.lo <= row.hi
  BY <1>3, <1>5, <1>6
<1>8. CASE row.lo <= r /\ r <= row.hi
  BY <1>8 DEF Covered
<1>9. CASE ~(row.lo <= r /\ r <= row.hi)
  <2>1. ASSUME NEW i \in low .. high - 1, cases[i + 1].lo <= r, r <= cases[i + 1].hi
        PROVE  /\ r < row.lo => i \in low .. middle - 1
               /\ ~(r < row.lo) => i \in middle + 1 .. high - 1
    <3>1. /\ i \in 0 .. m - 1 /\ i \in Nat /\ i # middle
          /\ cases[i + 1].lo \in Nat /\ cases[i + 1].hi \in Nat
      BY <1>3, <1>6, <1>9, <2>1
    <3>2. i < middle => cases[i + 1].hi < row.lo
      BY <1>4, <1>6, <3>1
    <3>3. middle < i => row.hi < cases[i + 1].lo
      BY <1>4, <1>6, <3>1
    <3> HIDE DEF row
    <3> QED
      BY <1>6, <1>7, <1>9, <2>1, <3>1, <3>2, <3>3
  <2>2. /\ \A i \in low .. middle - 1 : i \in low .. high - 1
        /\ \A i \in middle + 1 .. high - 1 : i \in low .. high - 1
    BY <1>6
  <2> HIDE DEF row
  <2>3. r < row.lo => (Covered(low, high, r) <=> Covered(low, middle, r))
    BY <2>1, <2>2 DEF Covered
  <2>4. ~(r < row.lo) => (Covered(low, high, r) <=> Covered(middle + 1, high, r))
    BY <2>1, <2>2 DEF Covered
  <2> QED
    BY <2>3, <2>4, <1>9 DEF row
<1> QED
  BY <1>8, <1>9

\* The search answers t if r is in a row, when every row of it maps it to t.
LEMMA ToFinds ==
  ASSUME NEW f, RowsRight(f, cases), NEW r \in Nat, NEW case, NEW t,
         \A i \in 0 .. Len(cases) - 1 :
            cases[i + 1].lo <= r /\ r <= cases[i + 1].hi => Apply(cases[i + 1], case, r) = t
  PROVE  To(case, r) = IF Covered(0, Len(cases), r) THEN t ELSE r
<1> DEFINE m == Len(cases)
           D == (0 .. m) \X (0 .. m)
           g == [span \in D |-> IF Covered(span[1], span[2], r) THEN t ELSE r]
           Body(h, span) ==
             LET middle == (span[1] + span[2]) \div 2
                 row == cases[middle + 1]
             IN  IF span[1] >= span[2] THEN r
                 ELSE IF row.lo <= r /\ r <= row.hi THEN Apply(row, case, r)
                 ELSE IF r < row.lo THEN h[<<span[1], middle>>]
                 ELSE h[<<middle + 1, span[2]>>]
           k == CHOOSE h : Mapping(case, r, h)
<1>1. m \in Nat
  BY DEF RowsRight
<1>2. ASSUME NEW low \in 0 .. m, NEW high \in 0 .. m, ~(low < high)
      PROVE  low >= high /\ ~Covered(low, high, r)
  <2>1. low >= high /\ low .. high - 1 = {}
    BY <1>1, <1>2
  <2> QED
    BY <2>1 DEF Covered
<1>3. ASSUME NEW low \in 0 .. m, NEW high \in 0 .. m, low < high, NEW h,
             \A l, u \in 0 .. m : u - l < high - low =>
                h[<<l, u>>] = IF Covered(l, u, r) THEN t ELSE r
      PROVE  Body(h, <<low, high>>) = IF Covered(low, high, r) THEN t ELSE r
  <2> DEFINE middle == (low + high) \div 2
             row == cases[middle + 1]
  <2>1. middle \in low .. high - 1 /\ low \in Nat /\ high \in Nat
    BY <1>1, <1>3, Middle
  <2>2. Body(h, <<low, high>>) =
             IF low >= high THEN r
             ELSE IF row.lo <= r /\ r <= row.hi THEN Apply(row, case, r)
             ELSE IF r < row.lo THEN h[<<low, middle>>]
             ELSE h[<<middle + 1, high>>]
    BY Zenon
  <2> HIDE DEF middle, Body
  <2>3. /\ middle \in 0 .. m /\ middle + 1 \in 0 .. m /\ middle \in 0 .. m - 1
        /\ middle - low < high - low /\ high - (middle + 1) < high - low /\ ~(low >= high)
    BY <1>1, <1>3, <2>1
  <2>4. /\ h[<<low, middle>>] = IF Covered(low, middle, r) THEN t ELSE r
        /\ h[<<middle + 1, high>>] = IF Covered(middle + 1, high, r) THEN t ELSE r
    BY <1>3, <2>3
  <2>5. row.lo <= r /\ r <= row.hi => Apply(row, case, r) = t
    BY <2>3
  <2>6. /\ row.lo <= r /\ r <= row.hi => Covered(low, high, r)
        /\ ~(row.lo <= r /\ r <= row.hi) =>
                (Covered(low, high, r) <=> IF r < row.lo THEN Covered(low, middle, r)
                                           ELSE Covered(middle + 1, high, r))
    BY <1>3, <2>1, CoveredByHalves
  <2> HIDE DEF row
  <2> QED
    BY <2>2, <2>3, <2>4, <2>5, <2>6
<1>4. ASSUME NEW span \in D PROVE g[span] = Body(g, span)
  <2>1. span[1] \in 0 .. m /\ span[2] \in 0 .. m /\ span = <<span[1], span[2]>>
    OBVIOUS
  <2>2. \A l, u \in 0 .. m : g[<<l, u>>] = IF Covered(l, u, r) THEN t ELSE r
    OBVIOUS
  <2>3. g[span] = IF Covered(span[1], span[2], r) THEN t ELSE r
    OBVIOUS
  <2> HIDE DEF g, D
  <2>4. CASE span[1] < span[2]
    <3> HIDE DEF Body
    <3>1. Body(g, <<span[1], span[2]>>) = IF Covered(span[1], span[2], r) THEN t ELSE r
      BY <1>3, <2>1, <2>2, <2>4
    <3> QED
      BY <2>1, <2>3, <3>1
  <2>5. CASE ~(span[1] < span[2])
    <3>1. span[1] >= span[2] /\ ~Covered(span[1], span[2], r)
      BY <1>2, <2>1, <2>5
    <3> QED
      BY <2>3, <3>1
  <2> QED
    BY <2>4, <2>5
<1>5. g = [span \in D |-> Body(g, span)]
  <2>1. g = [span \in D |-> g[span]]
    OBVIOUS
  <2> HIDE DEF g, Body, D
  <2> QED
    BY <1>4, <2>1
<1>6. Mapping(case, r, k)
  <2>1. Mapping(case, r, g)
    BY <1>5, Zenon DEF Mapping
  <2> QED
    BY <2>1, Zenon
<1>7. To(case, r) = k[<<0, m>>]
  BY ToIs, Zenon
<1>8. ASSUME NEW low \in 0 .. m, NEW high \in 0 .. m
      PROVE  /\ k[<<low, high>>] = Body(k, <<low, high>>)
             /\ ~(low < high) => k[<<low, high>>] = r
  <2>1. k = [span \in D |-> Body(k, span)]
    BY <1>6, Zenon DEF Mapping
  <2>2. <<low, high>> \in D
    OBVIOUS
  <2> HIDE DEF k, D
  <2>3. k[<<low, high>>] = Body(k, <<low, high>>)
    BY <2>1, <2>2, Zenon
  <2>4. ~(low < high) => low >= high
    BY <1>1
  <2> QED
    BY <2>3, <2>4
<1> HIDE DEF k, g, Body, D
<1> DEFINE T == {d \in Nat : \A low, high \in 0 .. m :
                    high - low <= d =>
                        k[<<low, high>>] = IF Covered(low, high, r) THEN t ELSE r}
<1>9. 0 \in T
  <2> SUFFICES ASSUME NEW low \in 0 .. m, NEW high \in 0 .. m, high - low <= 0
               PROVE  k[<<low, high>>] = IF Covered(low, high, r) THEN t ELSE r
    OBVIOUS
  <2>1. ~(low < high)
    BY <1>1
  <2> QED
    BY <2>1, <1>2, <1>8
<1>10. ASSUME NEW d \in 0 .. m - 1, d \in T PROVE d + 1 \in T
  <2>0. d + 1 \in Nat
    OBVIOUS
  <2> SUFFICES ASSUME NEW low \in 0 .. m, NEW high \in 0 .. m, high - low <= d + 1
               PROVE  k[<<low, high>>] = IF Covered(low, high, r) THEN t ELSE r
    BY <2>0, Zenon
  <2>1. CASE ~(low < high)
    BY <2>1, <1>2, <1>8
  <2>2. CASE low < high
    <3>1. \A l, u \in 0 .. m : u - l < high - low => u - l <= d
      BY <1>1
    <3>2. \A l, u \in 0 .. m : u - l < high - low =>
            k[<<l, u>>] = IF Covered(l, u, r) THEN t ELSE r
      BY <3>1, <1>10
    <3>3. Body(k, <<low, high>>) = IF Covered(low, high, r) THEN t ELSE r
      BY <1>3, <2>2, <3>2
    <3> QED
      BY <3>3, <1>8
  <2> QED
    BY <2>1, <2>2
<1>11. m \in T
  <2>1. T \in SUBSET Nat
    OBVIOUS
  <2> HIDE DEF T
  <2> QED
    BY <1>1, <2>1, <1>9, <1>10, UpTo
<1>12. 0 \in 0 .. m /\ m \in 0 .. m /\ m - 0 <= m
  BY <1>1
<1> QED
  BY <1>7, <1>11, <1>12

LEMMA CasesAnswer ==
  ASSUME CharsInv, CasesInv PROVE CaseExact
<1> SUFFICES ASSUME stage = "done", NEW c \in Code
             PROVE  /\ ToUpper(c) = GivenCase(files, "upper", c)
                    /\ ToLower(c) = GivenCase(files, "lower", c)
                    /\ ToTitle(c) = GivenCase(files, "title", c)
  BY DEF CaseExact
<1> DEFINE s == StateOf(files, c)
           m == Len(cases)
<1>1. files \in Files /\ c \in Nat /\ MAX_RUNE \in Nat /\ c <= MAX_RUNE
  BY LimitsAssumption DEF CharsInv, Code
<1>2. CASE c <= MAX_ASCII
  <2>1. c \in 0 .. MAX_ASCII /\ ~(c > MAX_ASCII)
    BY <1>1, <1>2, LimitsAssumption
  <2>2. /\ GivenCase(files, "upper", c) = IF c - CASE_SHIFT \in CAPITALS THEN c - CASE_SHIFT ELSE c
        /\ GivenCase(files, "title", c) = IF c - CASE_SHIFT \in CAPITALS THEN c - CASE_SHIFT ELSE c
        /\ GivenCase(files, "lower", c) = IF c \in CAPITALS THEN c + CASE_SHIFT ELSE c
    BY <1>1, <2>1, FilesAssumption DEF AsciiIsSound
  <2> QED
    BY <2>1, <2>2 DEF ToUpper, ToLower, ToTitle
<1>3. CASE ~(c <= MAX_ASCII)
  <2>1. RowsRight(files, cases) /\ Written(files, cases, MAX_RUNE + 1)
    <3>1. /\ at = MAX_RUNE + 1 /\ RowsRight(files, cases)
          /\ start = NoStart => Written(files, cases, at)
          /\ start # NoStart => \E i \in Code : Running(files, i, at)
      BY DEF CasesInv
    <3>2. Uncased(files, at - 1)
      <4>1. at - 1 = MAX_RUNE /\ MAX_RUNE \in Code
        BY <1>1, <3>1 DEF Code
      <4> QED
        BY <1>1, <4>1, StateFacts
    <3>3. start = NoStart
      BY <3>1, <3>2 DEF Running
    <3> QED
      BY <3>1, <3>3
  <2>2. /\ s.up \in Int /\ s.low \in Int /\ s.title \in Int
        /\ GivenCase(files, "upper", c) = c + s.up
        /\ GivenCase(files, "lower", c) = c + s.low
        /\ GivenCase(files, "title", c) = c + s.title
    BY <1>1, StateFacts
  <2>3. m \in Nat /\ \A i \in 0 .. m - 1 : i + 1 \in 1 .. m
    BY <2>1 DEF RowsRight
  <2>4. \A i \in 1 .. m : cases[i].lo \in Nat /\ cases[i].hi \in Nat
    <3>1. \A i \in 1 .. m : cases[i].lo \in Code /\ cases[i].hi \in Code
      BY <2>1, CaseRowsTyped DEF RowsRight
    <3>2. \A d \in Code : d \in Nat
      BY LimitsAssumption DEF Code
    <3> QED
      BY <3>1, <3>2
  <2>5. ASSUME NEW i \in 0 .. m - 1, cases[i + 1].lo <= c, c <= cases[i + 1].hi
        PROVE  /\ Apply(cases[i + 1], UPPER_CASE, c) = c + s.up
               /\ Apply(cases[i + 1], LOWER_CASE, c) = c + s.low
               /\ Apply(cases[i + 1], TITLE_CASE, c) = c + s.title
    <3>1. i + 1 \in 1 .. m /\ c \in cases[i + 1].lo .. cases[i + 1].hi
      BY <1>1, <2>3, <2>4, <2>5
    <3>2. Maps(files, cases[i + 1], c)
      BY <2>1, <3>1 DEF RowsRight
    <3> QED
      BY <3>2 DEF Maps
  <2>6. ~Covered(0, m, c) => Level(s)
    <3> SUFFICES ASSUME ~Covered(0, m, c), NEW i \in 1 .. m, c \in cases[i].lo .. cases[i].hi
                 PROVE  FALSE
      BY <1>1, <2>1 DEF Written
    <3>1. i - 1 \in 0 .. m - 1 /\ (i - 1) + 1 = i /\ cases[i].lo <= c /\ c <= cases[i].hi
      BY <2>3, <2>4
    <3> QED
      BY <3>1 DEF Covered
  <2> HIDE DEF s
  <2>7. /\ To(UPPER_CASE, c) = IF Covered(0, m, c) THEN c + s.up ELSE c
        /\ To(LOWER_CASE, c) = IF Covered(0, m, c) THEN c + s.low ELSE c
        /\ To(TITLE_CASE, c) = IF Covered(0, m, c) THEN c + s.title ELSE c
    BY <1>1, <2>1, <2>5, ToFinds
  <2>8. To(UPPER_CASE, c) = c + s.up /\ To(LOWER_CASE, c) = c + s.low /\ To(TITLE_CASE, c) = c + s.title
    BY <1>1, <2>2, <2>6, <2>7 DEF Level
  <2>9. c > MAX_ASCII
    BY <1>1, <1>3, LimitsAssumption
  <2> QED
    BY <2>2, <2>8, <2>9 DEF ToUpper, ToLower, ToTitle
<1> QED
  BY <1>2, <1>3

LEMMA NextCases ==
  ASSUME CharsInv, CasesInv, [Next]_vars PROVE CasesInv'
<1>1. CASE LoadRow \/ LoadFolding \/ GatherFolds \/ AddUnfolded \/ DropDefaults \/ LinkCycles
           \/ NextTable \/ PackOne \/ PackLast \/ Add
  <2>1. /\ UNCHANGED caseVars /\ stage \notin {"cases", "raised", "done"}
        /\ stage' \notin {"cases", "raised", "done"}
    BY <1>1 DEF LoadRow, LoadFolding, GatherFolds, AddUnfolded, DropDefaults, LinkCycles,
                NextTable, PackOne, PackLast, Add
  <2> QED
    BY <2>1, EarlierCases
<1>2. CASE LeaveBlob
  BY <1>2, LeaveBlobCases
<1>3. CASE CaseScan
  BY <1>3, CaseScanCases
<1>4. CASE CaseEnd
  BY <1>4, CaseEndCases
<1>5. CASE UNCHANGED vars
  BY <1>5 DEF CasesInv, vars
<1> QED
  BY <1>1, <1>2, <1>3, <1>4, <1>5 DEF Next

\* The rows and their search map every code point as the database does.
THEOREM SpecCaseExact == Spec => []CaseExact
<1>1. Init => DatabaseInv /\ CasesInv
  BY InitDatabase, InitCases
<1>2. (DatabaseInv /\ CasesInv) /\ [Next]_vars => (DatabaseInv /\ CasesInv)'
  BY NextDatabase, NextCases DEF DatabaseInv
<1>3. DatabaseInv /\ CasesInv => CaseExact
  BY CasesAnswer DEF DatabaseInv
<1> QED
  BY <1>1, <1>2, <1>3, PTL DEF Spec

-----------------------------------------------------------------------------
(* Folding *)

\* How many of a set are below a number.
Rank(S, c) == Cardinality({d \in S : d < c})

LEMMA RankFacts ==
  ASSUME NEW S \in SUBSET Code
  PROVE  /\ IsFiniteSet(S) /\ Cardinality(S) \in Nat
         /\ \A c \in S : Rank(S, c) \in 0 .. Cardinality(S) - 1
         /\ \A c, d \in S : c < d => Rank(S, c) < Rank(S, d)
<1>1. IsFiniteSet(S)
  <2>1. IsFiniteSet(Code)
    BY FS_Interval, LimitsAssumption DEF Code
  <2> QED
    BY <2>1, FS_Subset
<1>2. S \subseteq Nat /\ \A x \in S : x \in Nat
  BY LimitsAssumption DEF Code
<1>3. ASSUME NEW c \in S, NEW T \in SUBSET S, {d \in S : d < c} \subseteq T, c \in T
      PROVE  Rank(S, c) < Cardinality(T)
  <2> DEFINE B == {d \in S : d < c}
  <2>1. IsFiniteSet(T) /\ B \in SUBSET T
    BY <1>1, <1>3, FS_Subset
  <2>2. c \notin B
    BY <1>2
  <2> HIDE DEF B
  <2>3. Cardinality(B) <= Cardinality(T) /\ IsFiniteSet(B) /\ (Cardinality(T) = Cardinality(B) => T = B)
    BY <2>1, FS_Subset
  <2>4. Cardinality(B) \in Nat /\ Cardinality(T) \in Nat
    BY <2>1, <2>3, FS_CardinalityType
  <2>5. Cardinality(B) < Cardinality(T)
    BY <1>3, <2>2, <2>3, <2>4
  <2> QED
    BY <2>5 DEF Rank, B
<1>4. Cardinality(S) \in Nat /\ \A c \in S : Rank(S, c) \in Nat
  <2>1. \A c \in S : IsFiniteSet({d \in S : d < c})
    BY <1>1, FS_Subset
  <2> QED
    BY <1>1, <2>1, FS_CardinalityType DEF Rank
<1>5. ASSUME NEW c \in S PROVE Rank(S, c) < Cardinality(S)
  BY <1>3
<1>6. ASSUME NEW c \in S, NEW d \in S, c < d PROVE Rank(S, c) < Rank(S, d)
  <2> DEFINE T == {e \in S : e < d}
  <2>1. T \in SUBSET S /\ {e \in S : e < c} \subseteq T /\ c \in T
    <3>1. c \in Nat /\ d \in Nat /\ \A e \in S : e < c => e < d
      BY <1>2, <1>6
    <3> QED
      BY <1>6, <3>1
  <2> HIDE DEF T
  <2>2. Rank(S, c) < Cardinality(T)
    BY <1>3, <2>1
  <2> QED
    BY <2>2 DEF Rank, T
<1> QED
  BY <1>1, <1>4, <1>5, <1>6

LEMMA RankReached ==
  ASSUME NEW S \in SUBSET Code, NEW i \in 0 .. Cardinality(S) - 1
  PROVE  \E c \in S : Rank(S, c) = i
<1> DEFINE n == Cardinality(S)
           T == {j \in Nat : j < n => \E c \in S : Rank(S, c) = j}
<1>1. IsFiniteSet(S) /\ n \in Nat /\ S \subseteq Nat /\ \A x \in S : x \in Nat
  <2>1. \A x \in Code : x \in Nat
    BY LimitsAssumption DEF Code
  <2> QED
    BY <2>1, RankFacts
<1> HIDE DEF n
<1>2. 0 \in T
  <2> SUFFICES ASSUME 0 < n PROVE \E c \in S : Rank(S, c) = 0
    OBVIOUS
  <2>1. S # {}
    BY <1>1, FS_EmptySet DEF n
  <2>2. PICK c \in S : \A d \in S : c <= d
    BY <1>1, <2>1, LeastNatural
  <2>3. {d \in S : d < c} = {}
    <3>1. \A d \in S : ~(d < c)
      BY <1>1, <2>2
    <3> QED
      BY <3>1
  <2> QED
    BY <2>3, FS_EmptySet DEF Rank
<1>3. ASSUME NEW j \in 0 .. n - 1, j \in T PROVE j + 1 \in T
  <2>1. j + 1 \in Nat /\ j < n
    BY <1>1
  <2> SUFFICES ASSUME j + 1 < n PROVE \E c \in S : Rank(S, c) = j + 1
    BY <2>1
  <2>2. PICK c \in S : Rank(S, c) = j
    BY <1>3, <2>1
  <2> DEFINE below == {d \in S : d < c}
             above == {d \in S : d > c}
  <2>3. IsFiniteSet(below) /\ Cardinality(below) = j /\ c \notin below
    <3>1. c \notin below /\ below \in SUBSET S
      BY <1>1
    <3> QED
      BY <1>1, <2>2, <3>1, FS_Subset DEF Rank
  <2>4. Cardinality(below \cup {c}) = j + 1
    BY <2>3, FS_AddElement
  <2>5. above # {}
    <3> SUFFICES ASSUME above = {} PROVE FALSE
      OBVIOUS
    <3>1. S = below \cup {c}
      <4>1. \A d \in S : d < c \/ d > c \/ d = c
        BY <1>1
      <4> QED
        BY <4>1
    <3> HIDE DEF below, above
    <3> QED
      BY <1>1, <2>1, <2>4, <3>1 DEF n
  <2>6. above \in SUBSET Nat
    BY <1>1
  <2>7. PICK e \in above : \A d \in above : e <= d
    BY <2>5, <2>6, LeastNatural
  <2>8. {d \in S : d < e} = below \cup {c} /\ e \in S
    <3>1. e \in S /\ e > c /\ \A d \in S : d > c => e <= d
      BY <2>7
    <3>2. \A d \in S : d < e <=> d < c \/ d = c
      BY <1>1, <3>1
    <3> QED
      BY <3>1, <3>2
  <2> HIDE DEF below, above
  <2> QED
    BY <2>4, <2>8 DEF Rank
<1>4. i \in T
  <2>1. T \in SUBSET Nat /\ i \in Nat /\ 0 .. i - 1 \subseteq 0 .. n - 1
    BY <1>1 DEF n
  <2> HIDE DEF T
  <2>2. \A j \in 0 .. i - 1 : j \in T => j + 1 \in T
    BY <1>3, <2>1
  <2> QED
    BY <2>1, <2>2, <1>2, UpTo
<1>5. i < n
  BY <1>1 DEF n
<1> QED
  BY <1>4, <1>5

\* The rows of the table of orbits are in order, and all of them.
LEMMA OrbitRows ==
  /\ Cardinality(CaseOrbit) \in Nat
  /\ \A i \in 0 .. Cardinality(CaseOrbit) - 1 : OrbitRow(i) \in CaseOrbit
  /\ \A i, j \in 0 .. Cardinality(CaseOrbit) - 1 : i < j => OrbitRow(i) < OrbitRow(j)
  /\ \A c \in CaseOrbit : \E i \in 0 .. Cardinality(CaseOrbit) - 1 : OrbitRow(i) = c
<1> DEFINE S == CaseOrbit
           n == Cardinality(S)
<1>1. S \in SUBSET Code /\ \A x \in S : x \in Nat
  <2>1. \A x \in Code : x \in Nat
    BY LimitsAssumption DEF Code
  <2> QED
    BY <2>1 DEF CaseOrbit
<1>2. \A i : OrbitRow(i) = CHOOSE c \in S : Rank(S, c) = i
  BY DEF OrbitRow, Rank
<1> HIDE DEF S
<1>3. /\ n \in Nat
      /\ \A c \in S : Rank(S, c) \in 0 .. n - 1
      /\ \A c, d \in S : c < d => Rank(S, c) < Rank(S, d)
  BY <1>1, RankFacts
<1>4. \A i \in 0 .. n - 1 : \E c \in S : Rank(S, c) = i
  BY <1>1, RankReached
<1> HIDE DEF n
<1>5. \A i \in 0 .. n - 1 : OrbitRow(i) \in S /\ Rank(S, OrbitRow(i)) = i
  BY <1>2, <1>4
<1>6. \A i, j \in 0 .. n - 1 : i < j => OrbitRow(i) < OrbitRow(j)
  <2> SUFFICES ASSUME NEW i \in 0 .. n - 1, NEW j \in 0 .. n - 1, i < j,
                      ~(OrbitRow(i) < OrbitRow(j))
               PROVE  FALSE
    OBVIOUS
  <2>1. /\ OrbitRow(i) \in S /\ Rank(S, OrbitRow(i)) = i
        /\ OrbitRow(j) \in S /\ Rank(S, OrbitRow(j)) = j
    BY <1>5
  <2>2. OrbitRow(i) \in Nat /\ OrbitRow(j) \in Nat /\ i \in Nat /\ j \in Nat
    BY <1>1, <1>3, <2>1
  <2>3. OrbitRow(i) = OrbitRow(j) \/ OrbitRow(j) < OrbitRow(i)
    BY <2>2
  <2>4. OrbitRow(j) < OrbitRow(i) => j < i
    BY <1>3, <2>1
  <2>5. OrbitRow(i) = OrbitRow(j) => i = j
    BY <2>1
  <2> QED
    BY <2>2, <2>3, <2>4, <2>5
<1>7. ASSUME NEW c \in S PROVE \E i \in 0 .. n - 1 : OrbitRow(i) = c
  <2> DEFINE i == Rank(S, c)
  <2>1. i \in 0 .. n - 1
    BY <1>3
  <2> HIDE DEF i
  <2>2. OrbitRow(i) \in S /\ Rank(S, OrbitRow(i)) = Rank(S, c)
    BY <1>5, <2>1 DEF i
  <2>3. OrbitRow(i) \in Nat /\ c \in Nat /\ Rank(S, c) \in Nat
    BY <1>1, <1>3, <2>2
  <2>4. ~(OrbitRow(i) < c) /\ ~(c < OrbitRow(i))
    <3>1. OrbitRow(i) < c => Rank(S, OrbitRow(i)) < Rank(S, c)
      BY <1>3, <2>2
    <3>2. c < OrbitRow(i) => Rank(S, c) < Rank(S, OrbitRow(i))
      BY <1>3, <2>2
    <3> QED
      BY <2>2, <2>3, <3>1, <3>2
  <2>5. OrbitRow(i) = c
    BY <2>3, <2>4
  <2> QED
    BY <2>1, <2>5
<1> QED
  BY <1>3, <1>5, <1>6, <1>7 DEF S, n

\* What the function of OrbitSearch is.
Narrowing(r, f) ==
    f = [span \in (0 .. Cardinality(CaseOrbit)) \X (0 .. Cardinality(CaseOrbit)) |->
            LET middle == (span[1] + span[2]) \div 2
            IN  IF span[1] >= span[2] THEN span[1]
                ELSE IF OrbitRow(middle) < r THEN f[<<middle + 1, span[2]>>]
                ELSE f[<<span[1], middle>>]]

LEMMA OrbitSearchIs ==
  ASSUME NEW r
  PROVE  OrbitSearch(r) = (CHOOSE f : Narrowing(r, f))[<<0, Cardinality(CaseOrbit)>>]
BY DEF OrbitSearch, Narrowing

\* v is the first row from low that is not below r, or high.
FirstFrom(low, high, r, v) ==
    /\ v \in low .. high
    /\ \A i \in low .. v - 1 : OrbitRow(i) < r
    /\ v < high => ~(OrbitRow(v) < r)

LEMMA FirstFromFacts ==
  ASSUME NEW low \in Nat, NEW high \in Nat, low <= high, NEW r
  PROVE  /\ \E v : FirstFrom(low, high, r, v)
         /\ \A v, w : FirstFrom(low, high, r, v) /\ FirstFrom(low, high, r, w) => v = w
<1>1. \E v : FirstFrom(low, high, r, v)
  <2> DEFINE T == {v \in low .. high : v = high \/ ~(OrbitRow(v) < r)}
  <2>1. T \in SUBSET Nat /\ high \in T
    OBVIOUS
  <2> HIDE DEF T
  <2>2. PICK v \in T : \A w \in T : v <= w
    BY <2>1, LeastNatural
  <2>3. v \in low .. high /\ (v = high \/ ~(OrbitRow(v) < r))
    BY <2>2 DEF T
  <2>4. ASSUME NEW i \in low .. v - 1 PROVE OrbitRow(i) < r
    <3>1. i \in low .. high /\ ~(v <= i)
      BY <2>3
    <3> QED
      BY <2>2, <3>1 DEF T
  <2>5. v < high => ~(OrbitRow(v) < r)
    BY <2>3
  <2> QED
    BY <2>3, <2>4, <2>5 DEF FirstFrom
<1>2. ASSUME NEW v, NEW w, FirstFrom(low, high, r, v), FirstFrom(low, high, r, w), v < w
      PROVE  FALSE
  <2>1. v \in low .. high /\ w \in low .. high
    BY <1>2 DEF FirstFrom
  <2>2. v \in low .. w - 1 /\ v < high
    BY <1>2, <2>1
  <2> QED
    BY <1>2, <2>2 DEF FirstFrom
<1>3. ASSUME NEW v, NEW w, FirstFrom(low, high, r, v), FirstFrom(low, high, r, w)
      PROVE  v = w
  <2>1. v \in low .. high /\ w \in low .. high
    BY <1>3 DEF FirstFrom
  <2>2. ~(v < w) /\ ~(w < v)
    BY <1>2, <1>3
  <2> QED
    BY <2>1, <2>2
<1> QED
  BY <1>1, <1>3

LEMMA FirstByHalves ==
  ASSUME NEW r \in Nat, NEW low \in 0 .. Cardinality(CaseOrbit), NEW high \in 0 .. Cardinality(CaseOrbit),
         low < high, NEW middle \in low .. high - 1, NEW v
  PROVE  /\ OrbitRow(middle) < r /\ FirstFrom(middle + 1, high, r, v) => FirstFrom(low, high, r, v)
         /\ ~(OrbitRow(middle) < r) /\ FirstFrom(low, middle, r, v) => FirstFrom(low, high, r, v)
<1> DEFINE n == Cardinality(CaseOrbit)
<1>1. /\ n \in Nat /\ \A i \in 0 .. n - 1 : OrbitRow(i) \in Nat
      /\ \A i, j \in 0 .. n - 1 : i < j => OrbitRow(i) < OrbitRow(j)
  <2>1. \A x \in CaseOrbit : x \in Nat
    BY LimitsAssumption DEF CaseOrbit, Code
  <2> QED
    BY <2>1, OrbitRows
<1>2. low \in Nat /\ high \in Nat /\ middle \in Nat /\ middle \in 0 .. n - 1
  BY <1>1
<1> HIDE DEF n
<1>3. ASSUME OrbitRow(middle) < r, FirstFrom(middle + 1, high, r, v)
      PROVE  FirstFrom(low, high, r, v)
  <2>1. /\ v \in middle + 1 .. high /\ \A i \in middle + 1 .. v - 1 : OrbitRow(i) < r
        /\ v < high => ~(OrbitRow(v) < r)
    BY <1>3 DEF FirstFrom
  <2>2. v \in low .. high
    BY <1>2, <2>1
  <2>3. ASSUME NEW i \in low .. v - 1 PROVE OrbitRow(i) < r
    <3>1. CASE i \in middle + 1 .. v - 1
      BY <2>1, <3>1
    <3>2. CASE i = middle
      BY <1>3, <3>2
    <3>3. CASE i < middle
      <4>1. i \in 0 .. n - 1
        BY <1>1, <1>2, <3>3
      <4>2. OrbitRow(i) < OrbitRow(middle) /\ OrbitRow(i) \in Nat /\ OrbitRow(middle) \in Nat
        BY <1>1, <1>2, <3>3, <4>1
      <4> QED
        BY <1>3, <4>2
    <3> QED
      BY <1>2, <2>1, <3>1, <3>2, <3>3
  <2> QED
    BY <2>1, <2>2, <2>3 DEF FirstFrom
<1>4. ASSUME ~(OrbitRow(middle) < r), FirstFrom(low, middle, r, v)
      PROVE  FirstFrom(low, high, r, v)
  <2>1. /\ v \in low .. middle /\ \A i \in low .. v - 1 : OrbitRow(i) < r
        /\ v < middle => ~(OrbitRow(v) < r)
    BY <1>4 DEF FirstFrom
  <2>2. v \in low .. high /\ (v = middle \/ v < middle)
    BY <1>2, <2>1
  <2> QED
    BY <1>4, <2>1, <2>2 DEF FirstFrom
<1> QED
  BY <1>3, <1>4

LEMMA OrbitSearchFinds ==
  ASSUME NEW r \in Nat
  PROVE  FirstFrom(0, Cardinality(CaseOrbit), r, OrbitSearch(r))
<1> DEFINE n == Cardinality(CaseOrbit)
           D == (0 .. n) \X (0 .. n)
           first(low, high) == IF low >= high THEN low ELSE CHOOSE v : FirstFrom(low, high, r, v)
           g == [span \in D |-> first(span[1], span[2])]
           Body(h, span) ==
             LET middle == (span[1] + span[2]) \div 2
             IN  IF span[1] >= span[2] THEN span[1]
                 ELSE IF OrbitRow(middle) < r THEN h[<<middle + 1, span[2]>>]
                 ELSE h[<<span[1], middle>>]
           k == CHOOSE h : Narrowing(r, h)
<1>1. n \in Nat
  BY OrbitRows
<1>2. ASSUME NEW low \in 0 .. n, NEW high \in 0 .. n, low <= high, NEW h,
             \A l, u \in 0 .. n : l <= u /\ u - l < high - low => FirstFrom(l, u, r, h[<<l, u>>])
      PROVE  FirstFrom(low, high, r, Body(h, <<low, high>>))
  <2> DEFINE middle == (low + high) \div 2
  <2>1. low \in Nat /\ high \in Nat
    BY <1>1
  <2>2. Body(h, <<low, high>>) =
             IF low >= high THEN low
             ELSE IF OrbitRow(middle) < r THEN h[<<middle + 1, high>>]
             ELSE h[<<low, middle>>]
    BY Zenon
  <2> HIDE DEF Body
  <2>3. CASE low = high
    <3>1. low >= high /\ low \in low .. high /\ low .. low - 1 = {} /\ ~(low < high)
      BY <2>1, <2>3
    <3> QED
      BY <2>2, <3>1 DEF FirstFrom
  <2>4. CASE low < high
    <3>1. middle \in low .. high - 1
      BY <2>1, <2>4, Middle
    <3> HIDE DEF middle
    <3>2. /\ middle \in 0 .. n /\ middle + 1 \in 0 .. n /\ ~(low >= high)
          /\ low <= middle /\ middle + 1 <= high
          /\ middle - low < high - low /\ high - (middle + 1) < high - low
      BY <1>1, <2>1, <2>4, <3>1
    <3>3. /\ FirstFrom(low, middle, r, h[<<low, middle>>])
          /\ FirstFrom(middle + 1, high, r, h[<<middle + 1, high>>])
      BY <1>2, <3>2
    <3>4. OrbitRow(middle) < r => FirstFrom(low, high, r, h[<<middle + 1, high>>])
      BY <2>4, <3>1, <3>3, FirstByHalves
    <3>5. ~(OrbitRow(middle) < r) => FirstFrom(low, high, r, h[<<low, middle>>])
      BY <2>4, <3>1, <3>3, FirstByHalves
    <3> QED
      BY <2>2, <3>2, <3>4, <3>5
  <2> QED
    BY <1>2, <2>1, <2>3, <2>4
<1>3. ASSUME NEW low \in 0 .. n, NEW high \in 0 .. n, low <= high
      PROVE  /\ FirstFrom(low, high, r, first(low, high))
             /\ \A v : FirstFrom(low, high, r, v) => v = first(low, high)
  <2>1. low \in Nat /\ high \in Nat
    BY <1>1
  <2>2. /\ \E v : FirstFrom(low, high, r, v)
        /\ \A v, w : FirstFrom(low, high, r, v) /\ FirstFrom(low, high, r, w) => v = w
    BY <1>3, <2>1, FirstFromFacts
  <2>3. FirstFrom(low, high, r, first(low, high))
    <3>1. CASE low >= high
      <4>1. low = high /\ low \in low .. high /\ low .. low - 1 = {} /\ ~(low < high)
        BY <1>3, <2>1, <3>1
      <4> QED
        BY <3>1, <4>1 DEF FirstFrom
    <3>2. CASE ~(low >= high)
      <4>1. first(low, high) = CHOOSE v : FirstFrom(low, high, r, v)
        BY <3>2
      <4> HIDE DEF first
      <4> QED
        BY <2>2, <4>1, Zenon
    <3> QED
      BY <3>1, <3>2
  <2> HIDE DEF first
  <2> QED
    BY <2>2, <2>3, Zenon
<1>4. ASSUME NEW span \in D PROVE g[span] = Body(g, span)
  <2>1. span[1] \in 0 .. n /\ span[2] \in 0 .. n /\ span = <<span[1], span[2]>>
    OBVIOUS
  <2>2. ASSUME NEW l \in 0 .. n, NEW u \in 0 .. n PROVE g[<<l, u>>] = first(l, u)
    <3>1. <<l, u>> \in D
      OBVIOUS
    <3>2. \A s \in D : g[s] = first(s[1], s[2])
      <4> HIDE DEF D, first
      <4> QED
        OBVIOUS
    <3> HIDE DEF D, first, g
    <3>3. g[<<l, u>>] = first(<<l, u>>[1], <<l, u>>[2])
      BY <3>1, <3>2, Zenon
    <3> QED
      BY <3>3
  <2>3. g[span] = first(span[1], span[2])
    OBVIOUS
  <2>4. CASE span[1] <= span[2]
    <3> HIDE DEF g, D, Body, first
    <3>1. \A l, u \in 0 .. n : l <= u => FirstFrom(l, u, r, g[<<l, u>>])
      BY <1>3, <2>2
    <3>2. FirstFrom(span[1], span[2], r, Body(g, <<span[1], span[2]>>))
      BY <1>2, <2>1, <2>4, <3>1
    <3>3. Body(g, <<span[1], span[2]>>) = first(span[1], span[2])
      BY <1>3, <2>1, <2>4, <3>2
    <3> QED
      BY <2>1, <2>3, <3>3
  <2>5. CASE ~(span[1] <= span[2])
    <3>1. span[1] >= span[2]
      BY <1>1, <2>1, <2>5
    <3> HIDE DEF g
    <3> QED
      BY <2>3, <3>1
  <2> QED
    BY <2>4, <2>5
<1>5. g = [span \in D |-> Body(g, span)]
  <2>1. g = [span \in D |-> g[span]]
    OBVIOUS
  <2> HIDE DEF g, Body, D
  <2> QED
    BY <1>4, <2>1
<1>6. Narrowing(r, k)
  <2>1. Narrowing(r, g)
    BY <1>5, Zenon DEF Narrowing
  <2> QED
    BY <2>1, Zenon
<1>7. OrbitSearch(r) = k[<<0, n>>]
  BY OrbitSearchIs, Zenon
<1>8. ASSUME NEW low \in 0 .. n, NEW high \in 0 .. n
      PROVE  k[<<low, high>>] = Body(k, <<low, high>>)
  <2>1. k = [span \in D |-> Body(k, span)]
    BY <1>6, Zenon DEF Narrowing
  <2>2. <<low, high>> \in D
    OBVIOUS
  <2> HIDE DEF k, D
  <2> QED
    BY <2>1, <2>2, Zenon
<1> HIDE DEF k, g, Body, D, first
<1> DEFINE T == {d \in Nat : \A low, high \in 0 .. n :
                    low <= high /\ high - low <= d => FirstFrom(low, high, r, k[<<low, high>>])}
<1>9. 0 \in T
  <2> SUFFICES ASSUME NEW low \in 0 .. n, NEW high \in 0 .. n, low <= high, high - low <= 0
               PROVE  FirstFrom(low, high, r, k[<<low, high>>])
    OBVIOUS
  <2>1. \A l, u \in 0 .. n : ~(l <= u /\ u - l < high - low)
    BY <1>1
  <2> QED
    BY <2>1, <1>2, <1>8
<1>10. ASSUME NEW d \in 0 .. n - 1, d \in T PROVE d + 1 \in T
  <2>0. d + 1 \in Nat
    OBVIOUS
  <2> SUFFICES ASSUME NEW low \in 0 .. n, NEW high \in 0 .. n, low <= high, high - low <= d + 1
               PROVE  FirstFrom(low, high, r, k[<<low, high>>])
    BY <2>0, Zenon
  <2>1. \A l, u \in 0 .. n : u - l < high - low => u - l <= d
    BY <1>1
  <2>2. \A l, u \in 0 .. n : l <= u /\ u - l < high - low => FirstFrom(l, u, r, k[<<l, u>>])
    BY <2>1, <1>10
  <2> QED
    BY <2>2, <1>2, <1>8
<1>11. n \in T
  <2>1. T \in SUBSET Nat
    OBVIOUS
  <2> HIDE DEF T
  <2> QED
    BY <1>1, <2>1, <1>9, <1>10, UpTo
<1>12. 0 \in 0 .. n /\ n \in 0 .. n /\ 0 <= n /\ n - 0 <= n
  BY <1>1
<1> QED
  BY <1>7, <1>11, <1>12 DEF n

\* So a row is found just where there is one.
LEMMA OrbitFound ==
  ASSUME NEW c \in Code
  PROVE  LET row == OrbitSearch(c)
         IN  row < Cardinality(CaseOrbit) /\ OrbitRow(row) = c <=> c \in CaseOrbit
<1> DEFINE n == Cardinality(CaseOrbit)
           row == OrbitSearch(c)
<1>1. c \in Nat /\ \A x \in CaseOrbit : x \in Nat
  BY LimitsAssumption DEF CaseOrbit, Code
<1>2. /\ row \in 0 .. n /\ \A i \in 0 .. row - 1 : OrbitRow(i) < c
      /\ row < n => ~(OrbitRow(row) < c)
  BY <1>1, OrbitSearchFinds DEF FirstFrom
<1>3. /\ n \in Nat /\ \A i \in 0 .. n - 1 : OrbitRow(i) \in CaseOrbit
      /\ \A i, j \in 0 .. n - 1 : i < j => OrbitRow(i) < OrbitRow(j)
      /\ \A x \in CaseOrbit : \E i \in 0 .. n - 1 : OrbitRow(i) = x
  BY OrbitRows
<1> HIDE DEF n, row
<1>4. row < n => OrbitRow(row) \in CaseOrbit
  BY <1>2, <1>3
<1>5. ASSUME c \in CaseOrbit PROVE row < n /\ OrbitRow(row) = c
  <2>1. PICK i \in 0 .. n - 1 : OrbitRow(i) = c
    BY <1>3, <1>5
  <2>2. ~(i < row)
    <3> SUFFICES ASSUME i < row PROVE FALSE
      OBVIOUS
    <3>1. i \in 0 .. row - 1
      BY <1>2, <1>3
    <3>2. c < c
      BY <1>2, <2>1, <3>1
    <3> QED
      BY <1>1, <3>2
  <2>3. row < n
    BY <1>2, <1>3, <2>2
  <2>4. ~(row < i)
    <3> SUFFICES ASSUME row < i PROVE FALSE
      OBVIOUS
    <3>1. row \in 0 .. n - 1 /\ OrbitRow(row) < OrbitRow(i)
      BY <1>2, <1>3, <2>3
    <3> QED
      BY <1>2, <2>1, <2>3, <3>1
  <2>5. row = i
    BY <1>2, <1>3, <2>2, <2>4
  <2> QED
    BY <2>1, <2>3, <2>5
<1> QED
  BY <1>4, <1>5 DEF n, row

\* After two code points come each other, after one itself.
LEMMA AfterFew ==
  ASSUME NEW c \in Code, NEW d \in Code
  PROVE  After({c, d}, c) = d
<1>1. c \in Nat /\ d \in Nat
  BY LimitsAssumption DEF Code
<1>2. \A x \in {c, d} : (\A y \in {c, d} : x <= y) => (d <= c => x = d)
  BY <1>1
<1>3. LeastIn({d}) = d
  BY <1>1 DEF LeastIn
<1>4. CASE d > c
  <2>1. {x \in {c, d} : x > c} = {d}
    BY <1>1, <1>4
  <2> QED
    BY <1>3, <2>1 DEF After
<1>5. CASE ~(d > c)
  <2>1. {x \in {c, d} : x > c} = {}
    BY <1>1, <1>5
  <2>2. d <= c /\ \A y \in {c, d} : d <= y
    BY <1>1, <1>5
  <2>3. LeastIn({c, d}) = d
    BY <1>2, <2>2 DEF LeastIn
  <2> QED
    BY <2>1, <2>3 DEF After
<1> QED
  BY <1>4, <1>5

\* What the table of orbits leaves out goes through it unchanged: the case
\* mappings of a code point lead to the other of its class, or nowhere.
LEMMA FoldsAnswer ==
  ASSUME CharsInv, OrbitsInv, CasesInv PROVE FoldExact
<1> SUFFICES ASSUME stage = "done", NEW c \in Code
             PROVE  SimpleFold(c) = After(FoldClass(files, c), c)
  BY DEF FoldExact
<1> DEFINE x == CharOf(files, c)
           S == FoldClass(files, c)
<1>1. files \in Files /\ c \in Nat /\ MAX_RUNE \in Nat /\ MAX_ASCII \in Nat /\ ~(c < 0 \/ c > MAX_RUNE)
  BY LimitsAssumption DEF CharsInv, Code
<1>2. chars[c].orbit = LinkedTo(c) /\ chars[c].upper = x.upper /\ chars[c].lower = x.lower
  BY ReadChar DEF Late
<1>3. /\ SimpleFold(c) = IF c <= MAX_ASCII THEN SimpleFoldOf(c)
                         ELSE IF c \in CaseOrbit THEN chars[c].orbit
                         ELSE IF ToLower(c) # c THEN ToLower(c) ELSE ToUpper(c)
      /\ c \in CaseOrbit <=> chars[c].orbit # 0
  <2>1. LET row == OrbitSearch(c)
        IN  row < Cardinality(CaseOrbit) /\ OrbitRow(row) = c <=> c \in CaseOrbit
    BY OrbitFound
  <2>2. c \in CaseOrbit <=> chars[c].orbit # 0
    BY DEF CaseOrbit
  <2> QED
    BY <1>1, <2>1, <2>2 DEF SimpleFold
<1>4. /\ ToLower(c) = IF x.lower = 0 THEN c ELSE x.lower
      /\ ToUpper(c) = IF x.upper = 0 THEN c ELSE x.upper
  <2>1. ToUpper(c) = GivenCase(files, "upper", c) /\ ToLower(c) = GivenCase(files, "lower", c)
    BY CasesAnswer DEF CaseExact
  <2> QED
    BY <1>1, <2>1, CharFacts
<1> HIDE DEF x, S
<1>5. CASE chars[c].orbit # 0
  <2>1. SimpleFold(c) = chars[c].orbit
    BY <1>3, <1>5 DEF SimpleFoldOf
  <2>2. chars[c].orbit = After(S, c)
    BY <1>2, <1>5 DEF LinkedTo, S
  <2> QED
    BY <2>1, <2>2 DEF S
<1>6. CASE chars[c].orbit = 0
  <2>1. SimpleFold(c) = IF x.lower \notin {0, c} THEN x.lower
                        ELSE IF x.upper \notin {0, c} THEN x.upper ELSE c
    BY <1>2, <1>3, <1>4, <1>6 DEF SimpleFoldOf
  <2>2. \E d \in Code : /\ S = {c, d}
                        /\ {x.upper, x.lower} \subseteq {0, c, d}
                        /\ d # c => d # 0 /\ d \in {x.upper, x.lower}
    BY <1>1, <1>6, UnlinkedAlone, AloneFacts DEF S, x, Late
  <2>3. PICK d \in Code : /\ S = {c, d}
                          /\ {x.upper, x.lower} \subseteq {0, c, d}
                          /\ d # c => d # 0 /\ d \in {x.upper, x.lower}
    BY <2>2
  <2>4. SimpleFold(c) = d
    BY <2>1, <2>3
  <2>5. After(S, c) = d
    BY <2>3, AfterFew
  <2> QED
    BY <2>4, <2>5 DEF S
<1> QED
  BY <1>5, <1>6

\* simple_fold goes round what folds to the same thing, from every code point
\* of every database (ucd.py:261, letter.mojo:526).
THEOREM SpecFoldExact == Spec => []FoldExact
<1>1. Init => DatabaseInv /\ CasesInv
  BY InitDatabase, InitCases
<1>2. (DatabaseInv /\ CasesInv) /\ [Next]_vars => (DatabaseInv /\ CasesInv)'
  BY NextDatabase, NextCases DEF DatabaseInv
<1>3. DatabaseInv /\ CasesInv => FoldExact
  BY FoldsAnswer DEF DatabaseInv
<1> QED
  BY <1>1, <1>2, <1>3, PTL DEF Spec
=============================================================================
