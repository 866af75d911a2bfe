------------------------------ MODULE ToolProofs ------------------------------
(***************************************************************************)
(* Two of the tools.                                                       *)
(*                                                                         *)
(* The codec, for every package: what is planned is the largest set of     *)
(* structs that can be written.  The last pass goes down from a set that   *)
(* every writable one is inside of and never leaves one, and where it      *)
(* stops the set is writable itself.  What a type turns into is not looked *)
(* at: the proof holds for every EncodingOf.  Its scan of a source agrees  *)
(* with the compiler, by induction on the lines: what is kept of the scan  *)
(* is whether it is in a declaration, in the struct or in a type.          *)
(*                                                                         *)
(* The test runner, for any number of runs, checkouts and files and any    *)
(* pipe: the scanner finds every test with its markers, a green run called *)
(* every test it owes and none of them went wrong, and the shards of a     *)
(* run, however many, ran together what the whole run owes.                *)
(***************************************************************************)
EXTENDS CodecPlan, TestSuite, FiniteSetTheorems, WellFoundedInduction, TLAPS

-----------------------------------------------------------------------------
(* The plan of the codec *)

Fine(s) == ~HasTwin(s) /\ ProblemsOf(s) = {}

\* A codec is of a struct nothing is wrong with, and has its members.
CodecsAreFine ==
    \A s \in Asked : known[s].planned => known[s] = CodecOf(Members(s)) /\ Fine(s)

\* There is a reason against whatever was looked at and has no codec.
ReasonsAnswer ==
    \A s \in Asked : s \notin todo => (reasons[s] = {} <=> known[s].planned)

\* What waits to be looked at has no twin, no codec and no reason yet, and
\* nothing fine was passed over.
TodoIsLeft ==
    /\ todo \subseteq Asked
    /\ \A s \in todo : ~HasTwin(s) /\ known[s] = NoCodec /\ reasons[s] = {}
    /\ \A s \in Asked \ todo : Fine(s) => known[s].planned

Around == \A X \in SUBSET Asked : Writable(X) => X \subseteq Planned

PlanInv ==
    /\ stage # "read" => /\ known \in [Asked -> {known[s] : s \in Asked}]
                         /\ reasons \in [Asked -> {reasons[s] : s \in Asked}]
                         /\ CodecsAreFine /\ ReasonsAnswer
    /\ stage = "one" => TodoIsLeft
    /\ stage \in {"fall", "planned"} => todo = {} /\ Around
    /\ stage = "planned" => Gone = {}

-----------------------------------------------------------------------------

LEMMA SameStructs ==
    ASSUME UNCHANGED package
    PROVE  /\ Structs' = Structs /\ Asked' = Asked
           /\ \A s : HasTwin(s)' = HasTwin(s)
           /\ \A s : ProblemsOf(s)' = ProblemsOf(s)
           /\ \A s : Fine(s)' = Fine(s)
           /\ \A s : Members(s)' = Members(s)
           /\ \A s : HeldBy(s)' = HeldBy(s)
           /\ \A X : Writable(X)' = Writable(X)
<1>1. Structs' = Structs /\ Asked' = Asked
    BY DEF Structs, Asked
<1>2. ASSUME NEW s PROVE HasTwin(s)' = HasTwin(s)
    BY <1>1 DEF HasTwin, Twins, NameOf
<1>3. ASSUME NEW s PROVE ModuleOf(s)' = ModuleOf(s)
    BY DEF ModuleOf
<1>4. ASSUME NEW s, NEW field PROVE EncodingOf(s, field)' = EncodingOf(s, field)
    BY <1>1, <1>3 DEF EncodingOf
<1>5. ASSUME NEW s, NEW i PROVE MemberOf(s, i)' = MemberOf(s, i)
    BY <1>4 DEF MemberOf, Fields
<1>6. ASSUME NEW s PROVE /\ Members(s)' = Members(s)
                         /\ HeldBy(s)' = HeldBy(s)
    BY <1>5 DEF Members, HeldBy, Fields
<1>7. ASSUME NEW s PROVE ProblemsOf(s)' = ProblemsOf(s)
    BY <1>3, <1>6 DEF ProblemsOf
<1>8. ASSUME NEW s PROVE Fine(s)' = Fine(s)
    BY <1>2, <1>7 DEF Fine
<1>9. ASSUME NEW X PROVE Writable(X)' = Writable(X)
    BY <1>2, <1>6, <1>7 DEF Writable, NamesOf, NameOf
<1> QED BY <1>1, <1>2, <1>6, <1>7, <1>8, <1>9

\* The structs a fine codec calls are those its struct holds.
LEMMA CallsAreHeld ==
    ASSUME NEW s, known[s] = CodecOf(Members(s))
    PROVE  StructsIn(known[s]) = HeldBy(s)
BY DEF StructsIn, HeldBy, CodecOf, Members

\* The first pass: what has a twin is refused, and the rest is looked at.
LEMMA FindTwinsStep == ASSUME FindTwins PROVE PlanInv'
<1>1. /\ stage' = "one" /\ UNCHANGED package
      /\ known' = [s \in Asked |-> NoCodec]
      /\ reasons' = [s \in Asked |-> {r \in {"twin"} : HasTwin(s)}]
      /\ todo' = {s \in Asked : ~HasTwin(s)}
    BY DEF FindTwins
<1>2. CodecsAreFine'
    BY <1>1, SameStructs DEF CodecsAreFine, NoCodec
<1>3. ReasonsAnswer' /\ TodoIsLeft'
    BY <1>1, SameStructs DEF ReasonsAnswer, TodoIsLeft, NoCodec, Fine
<1>4. /\ (known \in [Asked -> {known[s] : s \in Asked}])'
      /\ (reasons \in [Asked -> {reasons[s] : s \in Asked}])'
    BY <1>1, SameStructs
<1> QED BY <1>1, <1>2, <1>3, <1>4 DEF PlanInv

\* The second pass, one struct.
LEMMA PlanOneStep == ASSUME PlanInv, PlanOne PROVE PlanInv'
<1>1. PICK s \in todo :
        /\ IF ProblemsOf(s) = {}
           THEN known' = [known EXCEPT ![s] = CodecOf(Members(s))] /\ UNCHANGED reasons
           ELSE reasons' = [reasons EXCEPT ![s] = ProblemsOf(s)] /\ UNCHANGED known
        /\ todo' = todo \ {s}
    BY Zenon DEF PlanOne
<1>2. stage = "one" /\ stage' = "one" /\ UNCHANGED package
    BY DEF PlanOne
<1>3. s \in Asked /\ ~HasTwin(s) /\ known[s] = NoCodec /\ reasons[s] = {}
    BY <1>2 DEF PlanInv, TodoIsLeft
<1>4. CodecsAreFine'
    BY <1>1, <1>2, <1>3, SameStructs DEF PlanInv, CodecsAreFine, Fine
<1>5. ReasonsAnswer'
    BY <1>1, <1>2, <1>3, SameStructs DEF PlanInv, ReasonsAnswer, CodecOf, NoCodec
<1>6. TodoIsLeft'
    BY <1>1, <1>2, <1>3, SameStructs DEF PlanInv, TodoIsLeft, Fine, CodecOf
<1>7. /\ (known \in [Asked -> {known[x] : x \in Asked}])'
      /\ (reasons \in [Asked -> {reasons[x] : x \in Asked}])'
    BY <1>1, <1>2, SameStructs DEF PlanInv
<1> QED BY <1>2, <1>4, <1>5, <1>6, <1>7 DEF PlanInv

\* Everything was looked at: what is not fine has no codec, and no writable set
\* holds it.
LEMMA LeaveOneStep == ASSUME PlanInv, LeaveOne PROVE PlanInv'
<1>1. stage = "one" /\ todo = {} /\ stage' = "fall" /\ UNCHANGED <<package, todo, known, reasons>>
    BY DEF LeaveOne
<1>2. Around
    BY <1>1 DEF PlanInv, TodoIsLeft, Around, Writable, Planned, Fine
<1>3. CodecsAreFine' /\ ReasonsAnswer' /\ Around'
    BY <1>1, <1>2, SameStructs DEF PlanInv, CodecsAreFine, ReasonsAnswer, Around, Planned
<1> QED BY <1>1, <1>3, SameStructs DEF PlanInv

\* What falls out was in no writable set.
LEMMA FallOutStep == ASSUME PlanInv, FallOut PROVE PlanInv'
<1>1. /\ stage = "fall" /\ UNCHANGED <<package, stage, todo>>
      /\ known' = [s \in Asked |-> IF s \in Gone THEN NoCodec ELSE known[s]]
      /\ reasons' = [s \in Asked |-> IF s \in Gone THEN {"holds a refused one"} ELSE reasons[s]]
    BY DEF FallOut
<1>2. CodecsAreFine'
    BY <1>1, SameStructs DEF PlanInv, CodecsAreFine, NoCodec
<1>3. ReasonsAnswer'
    BY <1>1, SameStructs DEF PlanInv, ReasonsAnswer, NoCodec
<1>4. Around'
    <2> SUFFICES ASSUME NEW X \in SUBSET Asked, Writable(X), NEW s \in X
                 PROVE  known'[s].planned
        BY <1>1, SameStructs DEF Around, Planned
    <2>1. X \subseteq Planned
        BY <1>1 DEF PlanInv, Around
    <2>2. known[s] = CodecOf(Members(s))
        BY <1>1, <2>1 DEF PlanInv, CodecsAreFine, Planned
    <2>3. StructsIn(known[s]) \subseteq NamesOf(Planned)
        BY <2>1, <2>2, CallsAreHeld DEF Writable, NamesOf
    <2>4. s \notin Gone
        BY <2>3 DEF Gone
    <2> QED BY <1>1, <2>1, <2>4 DEF Planned
<1>5. /\ (known \in [Asked -> {known[s] : s \in Asked}])'
      /\ (reasons \in [Asked -> {reasons[s] : s \in Asked}])'
    BY <1>1, SameStructs
<1> QED BY <1>1, <1>2, <1>3, <1>4, <1>5 DEF PlanInv

LEMMA PlanDoneStep == ASSUME PlanInv, PlanDone PROVE PlanInv'
<1>1. /\ stage = "fall" /\ stage' = "planned" /\ Gone = {}
      /\ UNCHANGED <<package, todo, known, reasons>>
    BY DEF PlanDone
<1>2. Gone' = Gone /\ Planned' = Planned
    BY <1>1, SameStructs DEF Gone, Planned, StructsIn, NamesOf, NameOf
<1>3. CodecsAreFine' /\ ReasonsAnswer' /\ Around'
    BY <1>1, <1>2, SameStructs DEF PlanInv, CodecsAreFine, ReasonsAnswer, Around
<1> QED BY <1>1, <1>2, <1>3, SameStructs DEF PlanInv

LEMMA Stutter == ASSUME PlanInv, UNCHANGED planVars PROVE PlanInv'
<1>1. UNCHANGED <<package, stage, todo, known, reasons>>
    BY DEF planVars
<1>2. Gone' = Gone /\ Planned' = Planned
    BY <1>1, SameStructs DEF Gone, Planned, StructsIn, NamesOf, NameOf
<1>3. stage # "read" => CodecsAreFine' /\ ReasonsAnswer'
    BY <1>1, SameStructs DEF PlanInv, CodecsAreFine, ReasonsAnswer
<1>4. stage = "one" => TodoIsLeft'
    BY <1>1, SameStructs DEF PlanInv, TodoIsLeft
<1>5. stage \in {"fall", "planned"} => Around'
    BY <1>1, <1>2, SameStructs DEF PlanInv, Around
<1> QED BY <1>1, <1>2, <1>3, <1>4, <1>5, SameStructs DEF PlanInv

\* Where nothing falls out any more, what is left can be written.
LEMMA GreatestAtTheEnd == ASSUME PlanInv PROVE PlanIsGreatest
<1> SUFFICES ASSUME stage = "planned"
             PROVE  /\ Writable(Planned)
                    /\ Around
                    /\ \A s \in Asked : reasons[s] = {} <=> s \in Planned
    BY DEF PlanIsGreatest, Around
<1>1. CodecsAreFine /\ ReasonsAnswer /\ todo = {} /\ Around /\ Gone = {}
    BY DEF PlanInv
<1>2. Writable(Planned)
    <2> SUFFICES ASSUME NEW s \in Planned
                 PROVE  Fine(s) /\ HeldBy(s) \subseteq NamesOf(Planned)
        BY DEF Writable, Fine
    <2>1. known[s] = CodecOf(Members(s)) /\ Fine(s)
        BY <1>1 DEF CodecsAreFine, Planned
    <2>2. StructsIn(known[s]) \subseteq NamesOf(Planned)
        BY <1>1 DEF Gone
    <2> QED BY <2>1, <2>2, CallsAreHeld
<1> QED BY <1>1, <1>2 DEF ReasonsAnswer, Planned

\* For every package: when the plan is made, the structs that have a codec are
\* the largest set in which nothing is refused and nothing holds a refused one,
\* and every other has a reason (tools/codec/plan.py:274).
THEOREM PlanLosesNothing == PlanSpec => []PlanIsGreatest
<1>1. PlanInit => PlanInv
    BY DEF PlanInit, PlanInv
<1>2. PlanInv /\ [PlanNext]_planVars => PlanInv'
    BY FindTwinsStep, PlanOneStep, LeaveOneStep, FallOutStep, PlanDoneStep, Stutter DEF PlanNext
<1> QED BY <1>1, <1>2, GreatestAtTheEnd, PTL DEF PlanSpec

-----------------------------------------------------------------------------
(* The test runner *)

Lines(r) == ToSet(collected[r]) \cup ToSet(pipe[r])

Domains ==
    /\ DOMAIN main = Trees
    /\ DOMAIN at = Runs /\ DOMAIN asked = Runs /\ DOMAIN found = Runs /\ DOMAIN binary = Runs
    /\ DOMAIN child = Runs /\ DOMAIN code = Runs /\ DOMAIN seen = Runs /\ DOMAIN pipe = Runs
    /\ DOMAIN held = Runs /\ DOMAIN collected = Runs /\ DOMAIN said = Runs

\* The lines the verdict tells apart.
Line == {"FAIL", "RACE_FOUND", "RACE_UNAVAILABLE", "ran"}

OutputTyped(r) == pipe[r] \in Seq(Line) /\ collected[r] \in Seq(Line)

\* Nothing was built or started yet, and no main is of this run before it
\* wrote one.
NotStarted(r) ==
    /\ at[r] \in {"idle", "asked", "written"} =>
            /\ child[r] = "none" /\ seen[r] = {} /\ binary[r] = NoMain
            /\ pipe[r] = <<>> /\ collected[r] = <<>> /\ code[r] = 0
    /\ at[r] \in {"idle", "asked"} => \A t \in Trees : main[t].by # r

\* What a run wrote and built holds the calls it found.
MainRight(r) ==
    /\ at[r] # "idle" => asked[r].tree \in Trees
    /\ at[r] = "written" => main[asked[r].tree].by \in Runs
    /\ at[r] \in {"running", "joining", "sampled"} => binary[r].by \in Runs
    /\ \A t \in Trees : main[t].by = r => main[t].calls = found[r]
    /\ binary[r].by = r => binary[r].calls = found[r]

\* What the exit code and the output say of the calls.
ChildRight(r) ==
    /\ child[r] = "alive" => code[r] = 0 /\ ~Did(r, "hangs") /\ ~Did(r, "crashes")
                             /\ ~Quit(r)
    /\ child[r] = "exited" /\ code[r] = 0 =>
            /\ ~Did(r, "hangs") /\ ~Did(r, "crashes")
            /\ ~Quit(r) => ToCall(r) = {} /\ ~Did(r, "fails")
    /\ asked[r].race /\ Did(r, "races") => "RACE_FOUND" \in Lines(r)

\* A run is green because there was nothing to run, or because the child came
\* to its end and said nothing of a race.
DoneRight(r) ==
    /\ at[r] = "joining" => child[r] = "exited"
    /\ Green(r) => \/ child[r] = "none" /\ seen[r] = {} /\ found[r] = {}
                   \/ /\ child[r] = "exited" /\ code[r] = 0
                      /\ "RACE_FOUND" \notin Lines(r)
                      /\ binary[r].by \in Runs

RunInv(r) == OutputTyped(r) /\ NotStarted(r) /\ MainRight(r) /\ ChildRight(r) /\ DoneRight(r)

SuiteInv == Domains /\ \A r \in Runs : RunInv(r)

\* A green run that built what it wrote called everything it found, unless a
\* call ended the process with the code zero, and no call went wrong.
GreenCalledAll ==
    \A r \in Runs : Green(r) /\ Undisturbed(r) =>
        /\ ~Quit(r) => found[r] \subseteq Called(r)
        /\ NothingWentWrong(r)

-----------------------------------------------------------------------------

\* A step of one run, seen from the others.
Elsewhere(r) ==
    /\ \A s \in Runs \ {r} :
            /\ at'[s] = at[s] /\ asked'[s] = asked[s] /\ found'[s] = found[s]
            /\ binary'[s] = binary[s] /\ child'[s] = child[s] /\ code'[s] = code[s]
            /\ seen'[s] = seen[s] /\ pipe'[s] = pipe[s] /\ collected'[s] = collected[s]
            /\ said'[s] = said[s]
    /\ \A t \in Trees : main'[t] = main[t] \/ main'[t].by = r

LEMMA OthersKeep ==
    ASSUME NEW r \in Runs, NEW s \in Runs, s # r, RunInv(s), Elsewhere(r)
    PROVE  RunInv(s)'
<1>1. /\ at'[s] = at[s] /\ asked'[s] = asked[s] /\ found'[s] = found[s]
      /\ binary'[s] = binary[s] /\ child'[s] = child[s] /\ code'[s] = code[s]
      /\ seen'[s] = seen[s] /\ pipe'[s] = pipe[s] /\ collected'[s] = collected[s]
      /\ said'[s] = said[s]
    BY DEF Elsewhere
<1>2. \A t \in Trees : main'[t] = main[t] \/ main'[t].by = r
    BY DEF Elsewhere
<1>3. OutputTyped(s)' /\ NotStarted(s)'
    BY <1>1, <1>2 DEF RunInv, OutputTyped, NotStarted
<1>4. MainRight(s)'
    BY <1>1, <1>2 DEF RunInv, MainRight
<1>5. ChildRight(s)'
    BY <1>1 DEF RunInv, ChildRight, Quit, Did, Lines, ToCall, Called
<1>6. DoneRight(s)'
    BY <1>1 DEF RunInv, DoneRight, Green, Lines
<1> QED BY <1>3, <1>4, <1>5, <1>6 DEF RunInv

LEMMA VerdictIsEmpty ==
    ASSUME NEW exit, NEW output, Verdict(exit, output) = {}
    PROVE  exit = 0 /\ "RACE_FOUND" \notin output
<1>1. ~(exit # 0 /\ output = {}) /\ "RACE_UNAVAILABLE" \notin output
    BY DEF Verdict
<1>2. {p \in {"races", "failures"} :
            IF p = "races" THEN "RACE_FOUND" \in output ELSE exit # 0} = {}
    BY <1>1 DEF Verdict
<1> QED BY <1>2

LEMMA AppendKeeps ==
    ASSUME NEW a \in Seq(Line), NEW b \in Seq(Line)
    PROVE  ToSet(a) \cup ToSet(b) \subseteq ToSet(a \o b)
<1>1. /\ a \o b \in Seq(Line)
      /\ Len(a \o b) = Len(a) + Len(b)
      /\ \A i \in 1 .. Len(a) : (a \o b)[i] = a[i]
      /\ \A i \in 1 .. Len(b) : (a \o b)[Len(a) + i] = b[i]
    OBVIOUS
<1>2. ASSUME NEW i \in 1 .. Len(a) PROVE a[i] \in ToSet(a \o b)
    <2>1. i \in DOMAIN (a \o b) /\ a[i] = (a \o b)[i]
        BY <1>1
    <2> QED BY <2>1 DEF ToSet
<1>3. ASSUME NEW i \in 1 .. Len(b) PROVE b[i] \in ToSet(a \o b)
    <2>1. Len(a) + i \in DOMAIN (a \o b) /\ b[i] = (a \o b)[Len(a) + i]
        BY <1>1
    <2> QED BY <2>1 DEF ToSet
<1>4. DOMAIN a = 1 .. Len(a) /\ DOMAIN b = 1 .. Len(b)
    OBVIOUS
<1> QED BY <1>2, <1>3, <1>4 DEF ToSet

LEMMA AppendedKeeps ==
    ASSUME NEW a \in Seq(Line), NEW x \in Line
    PROVE  ToSet(a) \subseteq ToSet(Append(a, x))
<1>1. /\ Len(Append(a, x)) = Len(a) + 1
      /\ Append(a, x) \in Seq(Line)
      /\ \A i \in 1 .. Len(a) : Append(a, x)[i] = a[i]
    <2>1. Append(a, x) \in Seq(Line) /\ Len(Append(a, x)) = Len(a) + 1
        OBVIOUS
    <2>2. \A i \in 1 .. Len(a) : Append(a, x)[i] = a[i]
        OBVIOUS
    <2> QED BY <2>1, <2>2
<1>2. ASSUME NEW i \in 1 .. Len(a) PROVE a[i] \in ToSet(Append(a, x))
    <2>1. i \in DOMAIN Append(a, x) /\ a[i] = Append(a, x)[i]
        BY <1>1
    <2> QED BY <2>1 DEF ToSet
<1>3. DOMAIN a = 1 .. Len(a)
    OBVIOUS
<1> QED BY <1>2, <1>3 DEF ToSet

LEMMA DrainKeeps ==
    ASSUME NEW a \in Seq(Line), NEW b \in Seq(Line), b # <<>>
    PROVE  ToSet(a) \cup ToSet(b) \subseteq ToSet(Append(a, Head(b))) \cup ToSet(Tail(b))
<1>1. /\ Append(a, Head(b)) \in Seq(Line) /\ Len(Append(a, Head(b))) = Len(a) + 1
      /\ \A i \in 1 .. Len(a) : Append(a, Head(b))[i] = a[i]
      /\ Append(a, Head(b))[Len(a) + 1] = b[1]
    OBVIOUS
<1>2. /\ Tail(b) \in Seq(Line) /\ Len(Tail(b)) = Len(b) - 1
      /\ \A i \in 1 .. Len(b) - 1 : Tail(b)[i] = b[i + 1]
    OBVIOUS
<1>3. DOMAIN a = 1 .. Len(a) /\ DOMAIN b = 1 .. Len(b)
    OBVIOUS
<1>4. ASSUME NEW i \in 1 .. Len(a) PROVE a[i] \in ToSet(Append(a, Head(b)))
    <2>1. i \in DOMAIN Append(a, Head(b)) /\ a[i] = Append(a, Head(b))[i]
        BY <1>1
    <2> QED BY <2>1 DEF ToSet
<1>5. b[1] \in ToSet(Append(a, Head(b)))
    <2>1. Len(a) + 1 \in DOMAIN Append(a, Head(b)) /\ b[1] = Append(a, Head(b))[Len(a) + 1]
        BY <1>1
    <2> QED BY <2>1 DEF ToSet
<1>6. ASSUME NEW i \in 2 .. Len(b) PROVE b[i] \in ToSet(Tail(b))
    <2>1. i - 1 \in DOMAIN Tail(b) /\ b[i] = Tail(b)[i - 1]
        BY <1>2
    <2> QED BY <2>1 DEF ToSet
<1>7. \A i \in 1 .. Len(b) : i = 1 \/ i \in 2 .. Len(b)
    OBVIOUS
<1> QED BY <1>3, <1>4, <1>5, <1>6, <1>7 DEF ToSet

-----------------------------------------------------------------------------
(* The steps of a run *)

LEMMA SuiteBegins == Init => SuiteInv
<1> SUFFICES ASSUME Init, NEW r \in Runs PROVE Domains /\ RunInv(r)
    BY DEF SuiteInv, Init, Domains
<1>1. Domains
    BY DEF Init, Domains
<1>2. OutputTyped(r) /\ NotStarted(r) /\ MainRight(r)
    BY NobodyRuns DEF Init, OutputTyped, NotStarted, MainRight, NoMain
<1>3. ChildRight(r) /\ DoneRight(r)
    BY DEF Init, ChildRight, DoneRight, Did, Green
<1> QED BY <1>1, <1>2, <1>3 DEF RunInv

\* A run that refuses, finds nothing, or cannot build: nothing was started.
LEMMA EndsEarly ==
    ASSUME SuiteInv, NEW r \in Runs,
           \/ Refuse(r) \/ NothingLeft(r) \/ NoCompiler(r) \/ NotIgnored(r) \/ NotBuilt(r)
    PROVE  Domains' /\ Elsewhere(r) /\ RunInv(r)'
<1> DEFINE Ends(from, problems) ==
        /\ at[r] = from /\ at' = [at EXCEPT ![r] = "done"]
        /\ said' = [said EXCEPT ![r] = problems]
<1>1. \/ Ends("asked", said[r]) /\ said[r] # {}
      \/ Ends("asked", {}) /\ found[r] = {}
      \/ Ends("asked", {"no mojo"}) \/ Ends("written", {"not ignored"}) \/ Ends("written", {"not built"})
    BY DEF Refuse, NothingLeft, NoCompiler, NotIgnored, NotBuilt, Report, Step
<1>2. UNCHANGED <<main, asked, found, binary, child, code, seen, pipe, held, collected>>
    BY DEF Refuse, NothingLeft, NoCompiler, NotIgnored, NotBuilt, childVars
<1>3. Domains' /\ Elsewhere(r)
    BY <1>1, <1>2 DEF SuiteInv, Domains, Elsewhere
<1>4. /\ at[r] \in {"asked", "written"} /\ at'[r] = "done"
      /\ said'[r] = {} => found[r] = {}
    BY <1>1 DEF SuiteInv, Domains
<1>5. RunInv(r)
    BY DEF SuiteInv
<1>6. child[r] = "none" /\ seen[r] = {}
    BY <1>4, <1>5 DEF RunInv, NotStarted
<1>7. OutputTyped(r)' /\ NotStarted(r)' /\ MainRight(r)'
    BY <1>2, <1>4, <1>5 DEF RunInv, OutputTyped, NotStarted, MainRight
<1>8. ChildRight(r)' /\ DoneRight(r)'
    BY <1>2, <1>4, <1>6 DEF ChildRight, DoneRight, Did, Green
<1> QED BY <1>3, <1>7, <1>8 DEF RunInv

LEMMA BeginStep ==
    ASSUME SuiteInv, NEW r \in Runs, Begin(r)
    PROVE  Domains' /\ Elsewhere(r) /\ RunInv(r)'
<1>1. PICK ask \in Asks :
            /\ at[r] = "idle" /\ at' = [at EXCEPT ![r] = "asked"]
            /\ asked' = [asked EXCEPT ![r] = ask]
            /\ said' = [said EXCEPT ![r] = RefusalsOf(ask)]
            /\ found' = [found EXCEPT ![r] = IF RefusalsOf(ask) = {} THEN LeftOf(ask) ELSE {}]
    BY Zenon DEF Begin, Step
<1>2. UNCHANGED <<main, binary, child, code, seen, pipe, held, collected>>
    BY DEF Begin, childVars
<1>3. Domains' /\ Elsewhere(r)
    BY <1>1, <1>2 DEF SuiteInv, Domains, Elsewhere
<1>4. at'[r] = "asked" /\ asked'[r] = ask /\ ask.tree \in Trees
    BY <1>1, AsksAreOfTrees DEF SuiteInv, Domains
<1>5. RunInv(r)
    BY DEF SuiteInv
<1>6. OutputTyped(r)' /\ NotStarted(r)' /\ MainRight(r)'
    BY <1>1, <1>2, <1>4, <1>5, NobodyRuns DEF RunInv, OutputTyped, NotStarted, MainRight, NoMain
<1>7. ChildRight(r)' /\ DoneRight(r)'
    BY <1>1, <1>2, <1>4, <1>5 DEF RunInv, NotStarted, ChildRight, DoneRight, Did, Green
<1> QED BY <1>3, <1>6, <1>7 DEF RunInv

LEMMA WriteMainStep ==
    ASSUME SuiteInv, NEW r \in Runs, WriteMain(r)
    PROVE  Domains' /\ Elsewhere(r) /\ RunInv(r)'
<1>1. /\ at[r] = "asked" /\ at' = [at EXCEPT ![r] = "written"]
      /\ main' = [main EXCEPT ![asked[r].tree] = [by |-> r, calls |-> found[r]]]
      /\ UNCHANGED <<asked, found, binary, child, code, seen, pipe, held, collected, said>>
    BY DEF WriteMain, Step, childVars
<1>2. RunInv(r) /\ asked[r].tree \in Trees
    BY <1>1 DEF SuiteInv, RunInv, MainRight
<1>3. /\ at'[r] = "written" /\ main'[asked[r].tree] = [by |-> r, calls |-> found[r]]
      /\ \A t \in Trees : main'[t] = main[t] \/ main'[t] = [by |-> r, calls |-> found[r]]
    BY <1>1, <1>2 DEF SuiteInv, Domains
<1>4. Domains' /\ Elsewhere(r)
    BY <1>1, <1>3 DEF SuiteInv, Domains, Elsewhere
<1>5. OutputTyped(r)' /\ NotStarted(r)' /\ MainRight(r)'
    BY <1>1, <1>2, <1>3 DEF RunInv, OutputTyped, NotStarted, MainRight
<1>6. ChildRight(r)' /\ DoneRight(r)'
    BY <1>1, <1>2, <1>3 DEF RunInv, NotStarted, ChildRight, DoneRight, Did, Green
<1> QED BY <1>4, <1>5, <1>6 DEF RunInv

LEMMA BuildStep ==
    ASSUME SuiteInv, NEW r \in Runs, Build(r)
    PROVE  Domains' /\ Elsewhere(r) /\ RunInv(r)'
<1>1. /\ at[r] = "written" /\ at' = [at EXCEPT ![r] = "running"]
      /\ binary' = [binary EXCEPT ![r] = main[asked[r].tree]]
      /\ child' = [child EXCEPT ![r] = "alive"]
      /\ UNCHANGED <<main, asked, found, code, seen, pipe, held, collected, said>>
    BY DEF Build, Step
<1>2. RunInv(r) /\ asked[r].tree \in Trees /\ main[asked[r].tree].by \in Runs /\ code[r] = 0
    BY <1>1 DEF SuiteInv, RunInv, MainRight, NotStarted
<1>3. at'[r] = "running" /\ binary'[r] = main[asked[r].tree] /\ child'[r] = "alive"
    BY <1>1 DEF SuiteInv, Domains
<1>4. Domains' /\ Elsewhere(r)
    BY <1>1 DEF SuiteInv, Domains, Elsewhere
<1>5. OutputTyped(r)' /\ NotStarted(r)' /\ MainRight(r)'
    BY <1>1, <1>2, <1>3 DEF RunInv, OutputTyped, NotStarted, MainRight
<1>6. ChildRight(r)' /\ DoneRight(r)'
    BY <1>1, <1>2, <1>3 DEF RunInv, NotStarted, ChildRight, DoneRight, Quit, Did, Green
<1> QED BY <1>4, <1>5, <1>6 DEF RunInv

-----------------------------------------------------------------------------
(* The steps of the child and of the drain *)

LEMMA CallTestStep ==
    ASSUME SuiteInv, NEW r \in Runs, CallTest(r)
    PROVE  Domains' /\ Elsewhere(r) /\ RunInv(r)'
<1>1. PICK does :
            /\ seen' = [seen EXCEPT ![r] = @ \cup {<<NextCall(r), does>>}]
            /\ pipe' = [pipe EXCEPT ![r] = @ \o Prints(r, does)]
            /\ child' = [child EXCEPT ![r] = CASE does = "hangs" -> "stuck"
                                               [] does \in {"crashes", "quits"} -> "exited"
                                               [] OTHER -> "alive"]
            /\ code' = [code EXCEPT ![r] = IF does = "crashes" THEN -1 ELSE 0]
            /\ DOMAIN held' = DOMAIN held
    BY DEF CallTest
<1>2. child[r] = "alive" /\ UNCHANGED <<main, at, asked, found, binary, collected, said>>
    BY DEF CallTest
<1>3. RunInv(r) /\ Domains
    BY DEF SuiteInv
<1>4. at[r] \notin {"idle", "asked", "written", "joining"} /\ ~Green(r)
    BY <1>2, <1>3 DEF RunInv, NotStarted, DoneRight
<1>5. /\ seen'[r] = seen[r] \cup {<<NextCall(r), does>>}
      /\ child'[r] = CASE does = "hangs" -> "stuck"
                       [] does \in {"crashes", "quits"} -> "exited"
                       [] OTHER -> "alive"
      /\ code'[r] = IF does = "crashes" THEN -1 ELSE 0
      /\ pipe'[r] = pipe[r] \o Prints(r, does)
    BY <1>1, <1>3 DEF Domains
<1>6. Domains' /\ Elsewhere(r)
    BY <1>1, <1>2, <1>3 DEF Domains, Elsewhere
<1>7. Prints(r, does) \in Seq(Line) /\ pipe[r] \in Seq(Line)
    <2>1. Prints(r, does) \in {<<"FAIL">>, <<"RACE_FOUND">>, <<>>}
        BY DEF Prints
    <2>2. <<"FAIL">> \in Seq(Line) /\ <<"RACE_FOUND">> \in Seq(Line) /\ <<>> \in Seq(Line)
        <3>1. "FAIL" \in Line /\ "RACE_FOUND" \in Line
            BY DEF Line
        <3> QED BY <3>1
    <2>3. Prints(r, does) \in Seq(Line)
        BY <2>1, <2>2
    <2> QED BY <1>3, <2>3 DEF RunInv, OutputTyped
<1>8. OutputTyped(r)' /\ NotStarted(r)' /\ MainRight(r)'
    BY <1>2, <1>3, <1>4, <1>5, <1>7 DEF RunInv, OutputTyped, NotStarted, MainRight
<1>9. ChildRight(r)'
    <2>1. child'[r] = "alive" => code'[r] = 0 /\ ~Did(r, "hangs")' /\ ~Did(r, "crashes")'
                                 /\ ~Quit(r)'
        BY <1>2, <1>3, <1>5 DEF RunInv, ChildRight, Quit, Did
    <2>2. child'[r] = "exited" /\ code'[r] = 0 =>
            Quit(r)' /\ ~Did(r, "hangs")' /\ ~Did(r, "crashes")'
        <3> SUFFICES ASSUME child'[r] = "exited", code'[r] = 0
                     PROVE  Quit(r)' /\ ~Did(r, "hangs")' /\ ~Did(r, "crashes")'
            OBVIOUS
        <3>1. does = "quits"
            BY <1>5
        <3>2. ~Did(r, "hangs") /\ ~Did(r, "crashes")
            BY <1>2, <1>3 DEF RunInv, ChildRight
        <3> DEFINE new == <<NextCall(r), does>>
        <3>3. seen'[r] = seen[r] \cup {new} /\ new[2] = "quits"
            BY <1>5, <3>1
        <3> HIDE DEF new
        <3> QED BY <3>2, <3>3 DEF Quit, Did
    <2>3. ASSUME asked'[r].race, Did(r, "races")' PROVE "RACE_FOUND" \in Lines(r)'
        <3>1. CASE does = "races"
            <4>1. Prints(r, does) = <<"RACE_FOUND">>
                BY <1>2, <2>3, <3>1 DEF Prints
            <4>2. "RACE_FOUND" \in ToSet(Prints(r, does))
                BY <4>1 DEF ToSet
            <4> QED BY <1>5, <1>7, <4>2, AppendKeeps DEF Lines
        <3>2. CASE does # "races"
            <4>1. "RACE_FOUND" \in Lines(r)
                BY <1>2, <1>3, <1>5, <2>3, <3>2 DEF RunInv, ChildRight, Did
            <4>2. ToSet(pipe[r]) \subseteq ToSet(pipe'[r])
                BY <1>5, <1>7, AppendKeeps
            <4> QED BY <1>2, <4>1, <4>2 DEF Lines
        <3> QED BY <3>1, <3>2
    <2> QED BY <2>1, <2>2, <2>3 DEF ChildRight
<1>10. DoneRight(r)'
    BY <1>2, <1>4 DEF DoneRight, Green
<1> QED BY <1>6, <1>8, <1>9, <1>10 DEF RunInv

\* The child ends, by itself or before it began.
LEMMA ChildEndsStep ==
    ASSUME SuiteInv, NEW r \in Runs, Exit(r) \/ Unavailable(r)
    PROVE  Domains' /\ Elsewhere(r) /\ RunInv(r)'
<1>1. PICK line \in Line :
            /\ pipe' = [pipe EXCEPT ![r] = Append(@, line)]
            /\ child' = [child EXCEPT ![r] = "exited"]
            /\ \/ ToCall(r) = {} /\ code' = [code EXCEPT ![r] = IF Failed(r) THEN 1 ELSE 0]
               \/ code' = [code EXCEPT ![r] = -1]
    <2>1. CASE Exit(r)
        <3>1. "ran" \in Line
            BY DEF Line
        <3> QED BY <2>1, <3>1 DEF Exit
    <2>2. CASE Unavailable(r)
        <3>1. "RACE_UNAVAILABLE" \in Line
            BY DEF Line
        <3> QED BY <2>2, <3>1 DEF Unavailable
    <2> QED BY <2>1, <2>2
<1>2. child[r] = "alive" /\ UNCHANGED <<main, at, asked, found, binary, seen, held, collected, said>>
    BY DEF Exit, Unavailable
<1>3. RunInv(r) /\ Domains
    BY DEF SuiteInv
<1>4. at[r] \notin {"idle", "asked", "written", "joining"} /\ ~Green(r)
    BY <1>2, <1>3 DEF RunInv, NotStarted, DoneRight
<1>5. /\ pipe'[r] = Append(pipe[r], line) /\ child'[r] = "exited"
      /\ code'[r] = 0 => ToCall(r) = {} /\ ~Failed(r)
    BY <1>1, <1>3 DEF Domains
<1>6. Domains' /\ Elsewhere(r)
    BY <1>1, <1>2, <1>3 DEF Domains, Elsewhere
<1>7. pipe[r] \in Seq(Line) /\ Append(pipe[r], line) \in Seq(Line)
    <2> DEFINE p == pipe[r]
    <2>1. p \in Seq(Line)
        BY <1>3 DEF RunInv, OutputTyped
    <2> HIDE DEF p
    <2>2. Append(p, line) \in Seq(Line)
        BY <2>1
    <2> QED BY <2>1, <2>2 DEF p
<1>8. OutputTyped(r)' /\ NotStarted(r)' /\ MainRight(r)'
    BY <1>2, <1>3, <1>4, <1>5, <1>7 DEF RunInv, OutputTyped, NotStarted, MainRight
<1>9. ChildRight(r)'
    <2>1. child'[r] = "exited" /\ code'[r] = 0 => ToCall(r)' = {} /\ ~Did(r, "hangs")'
                                        /\ ~Did(r, "crashes")' /\ ~Did(r, "fails")'
        BY <1>2, <1>3, <1>5 DEF RunInv, ChildRight, Quit, Did, Failed, ToCall, Called
    <2>2. ToSet(pipe[r]) \subseteq ToSet(pipe'[r])
        BY <1>5, <1>7, AppendedKeeps
    <2>3. asked'[r].race /\ Did(r, "races")' => "RACE_FOUND" \in Lines(r)'
        BY <1>2, <1>3, <2>2 DEF RunInv, ChildRight, Did, Lines
    <2> QED BY <1>5, <2>1, <2>3 DEF ChildRight
<1>10. DoneRight(r)'
    BY <1>2, <1>4 DEF DoneRight, Green
<1> QED BY <1>6, <1>8, <1>9, <1>10 DEF RunInv

LEMMA DrainStep ==
    ASSUME SuiteInv, NEW r \in Runs, Drain(r)
    PROVE  Domains' /\ Elsewhere(r) /\ RunInv(r)'
<1>1. /\ at[r] \in {"running", "joining", "sampled"} /\ pipe[r] # <<>>
      /\ collected' = [collected EXCEPT ![r] = Append(@, Head(pipe[r]))]
      /\ pipe' = [pipe EXCEPT ![r] = Tail(@)]
      /\ UNCHANGED <<main, at, asked, found, binary, child, code, seen, held, said>>
    BY DEF Drain
<1>2. RunInv(r) /\ Domains /\ pipe[r] \in Seq(Line) /\ collected[r] \in Seq(Line)
    BY DEF SuiteInv, RunInv, OutputTyped
<1>3. collected'[r] = Append(collected[r], Head(pipe[r])) /\ pipe'[r] = Tail(pipe[r])
    BY <1>1, <1>2 DEF Domains
<1>4. Domains' /\ Elsewhere(r)
    BY <1>1, <1>2 DEF Domains, Elsewhere
<1>5. OutputTyped(r)' /\ NotStarted(r)' /\ MainRight(r)'
    <2>1. Head(pipe[r]) \in Line /\ Tail(pipe[r]) \in Seq(Line)
        <3> DEFINE p == pipe[r]
        <3>1. p \in Seq(Line) /\ p # <<>>
            BY <1>1, <1>2
        <3> HIDE DEF p
        <3>2. Head(p) \in Line /\ Tail(p) \in Seq(Line)
            BY <3>1
        <3> QED BY <3>2 DEF p
    <2>2. Append(collected[r], Head(pipe[r])) \in Seq(Line)
        BY <1>2, <2>1
    <2>3. OutputTyped(r)'
        BY <1>3, <2>1, <2>2 DEF OutputTyped
    <2>4. NotStarted(r)' /\ MainRight(r)'
        BY <1>1, <1>2 DEF RunInv, NotStarted, MainRight
    <2> QED BY <2>3, <2>4
<1>6. Lines(r) \subseteq Lines(r)'
    BY <1>1, <1>2, <1>3, DrainKeeps DEF Lines
<1>7. ChildRight(r)'
    BY <1>1, <1>2, <1>6 DEF RunInv, ChildRight, Quit, Did, ToCall, Called
<1>8. DoneRight(r)'
    BY <1>1, <1>2 DEF RunInv, DoneRight, Green
<1> QED BY <1>4, <1>5, <1>7, <1>8 DEF RunInv

-----------------------------------------------------------------------------
(* How a run comes to its end *)

LEMMA JudgeStep ==
    ASSUME SuiteInv, NEW r \in Runs, Joined(r) \/ JoinTimeout(r)
    PROVE  Domains' /\ Elsewhere(r) /\ RunInv(r)'
<1>1. /\ at[r] = "joining" /\ at' = [at EXCEPT ![r] = "done"] /\ pipe[r] = <<>>
      /\ said' = [said EXCEPT ![r] = Verdict(code[r], ToSet(collected[r]))]
      /\ UNCHANGED <<main, asked, found, binary, child, code, seen, pipe, held, collected>>
    BY DEF Joined, JoinTimeout, Judge, Report, Step, childVars
<1>2. RunInv(r) /\ Domains
    BY DEF SuiteInv
<1>3. at'[r] = "done" /\ said'[r] = Verdict(code[r], ToSet(collected[r]))
    BY <1>1, <1>2 DEF Domains
<1>4. Domains' /\ Elsewhere(r)
    BY <1>1, <1>2 DEF Domains, Elsewhere
<1>5. OutputTyped(r)' /\ NotStarted(r)' /\ MainRight(r)' /\ ChildRight(r)'
    BY <1>1, <1>2, <1>3
       DEF RunInv, OutputTyped, NotStarted, MainRight, ChildRight, Quit, Did, ToCall, Called, Lines
<1>6. DoneRight(r)'
    <2> SUFFICES ASSUME Verdict(code[r], ToSet(collected[r])) = {}
                 PROVE  /\ child[r] = "exited" /\ code[r] = 0 /\ binary[r].by \in Runs
                        /\ "RACE_FOUND" \notin Lines(r)
        BY <1>1, <1>3 DEF DoneRight, Green, Lines
    <2>1. code[r] = 0 /\ "RACE_FOUND" \notin ToSet(collected[r])
        BY VerdictIsEmpty
    <2>2. ToSet(pipe[r]) = {}
        BY <1>1 DEF ToSet
    <2> QED BY <1>1, <1>2, <2>1, <2>2 DEF RunInv, DoneRight, MainRight, Lines
<1> QED BY <1>4, <1>5, <1>6 DEF RunInv

LEMMA WaitStep ==
    ASSUME SuiteInv, NEW r \in Runs, Waited(r) \/ Timeout(r)
    PROVE  Domains' /\ Elsewhere(r) /\ RunInv(r)'
<1>1. /\ at[r] = "running"
      /\ \/ child[r] = "exited" /\ at' = [at EXCEPT ![r] = "joining"]
         \/ at' = [at EXCEPT ![r] = "sampled"]
      /\ UNCHANGED <<main, asked, found, binary, child, code, seen, pipe, held, collected, said>>
    BY DEF Waited, Timeout, Step, childVars
<1>2. RunInv(r) /\ Domains
    BY DEF SuiteInv
<1>3. \/ at'[r] = "joining" /\ child[r] = "exited"
      \/ at'[r] = "sampled"
    BY <1>1, <1>2 DEF Domains
<1>4. Domains' /\ Elsewhere(r)
    BY <1>1, <1>2 DEF Domains, Elsewhere
<1>5. RunInv(r)'
    BY <1>1, <1>2, <1>3
       DEF RunInv, OutputTyped, NotStarted, MainRight, ChildRight, DoneRight, Green, Quit, Did,
           ToCall, Called, Lines
<1> QED BY <1>4, <1>5

LEMMA KillStep ==
    ASSUME SuiteInv, NEW r \in Runs, Kill(r)
    PROVE  Domains' /\ Elsewhere(r) /\ RunInv(r)'
<1>1. /\ at[r] = "sampled" /\ at' = [at EXCEPT ![r] = "done"]
      /\ said' = [said EXCEPT ![r] = {"still running"}]
      /\ child' = [child EXCEPT ![r] = IF @ = "exited" THEN @ ELSE "killed"]
      /\ UNCHANGED <<main, asked, found, binary, code, seen, pipe, held, collected>>
    BY DEF Kill, Report, Step
<1>2. RunInv(r) /\ Domains
    BY DEF SuiteInv
<1>3. /\ at'[r] = "done" /\ said'[r] = {"still running"}
      /\ child'[r] = IF child[r] = "exited" THEN "exited" ELSE "killed"
    BY <1>1, <1>2 DEF Domains
<1>4. Domains' /\ Elsewhere(r)
    BY <1>1, <1>2 DEF Domains, Elsewhere
<1>5. OutputTyped(r)' /\ NotStarted(r)' /\ MainRight(r)'
    BY <1>1, <1>2, <1>3 DEF RunInv, OutputTyped, NotStarted, MainRight
<1>6. ChildRight(r)'
    <2>1. child'[r] # "alive" /\ (child'[r] = "exited" => child[r] = "exited")
        BY <1>3
    <2>2. ToCall(r)' = ToCall(r) /\ Lines(r)' = Lines(r)
        BY <1>1 DEF ToCall, Called, Lines
    <2>3. Did(r, "races")' = Did(r, "races") /\ Did(r, "fails")' = Did(r, "fails")
          /\ Did(r, "hangs")' = Did(r, "hangs") /\ Did(r, "crashes")' = Did(r, "crashes")
          /\ Quit(r)' = Quit(r)
        BY <1>1 DEF Quit, Did
    <2> QED BY <1>1, <1>2, <2>1, <2>2, <2>3 DEF RunInv, ChildRight
<1>7. DoneRight(r)'
    BY <1>3 DEF DoneRight, Green
<1> QED BY <1>4, <1>5, <1>6, <1>7 DEF RunInv

-----------------------------------------------------------------------------

LEMMA SuiteStep == SuiteInv /\ [Next]_vars => SuiteInv'
<1> SUFFICES ASSUME SuiteInv, [Next]_vars PROVE SuiteInv'
    OBVIOUS
<1>1. ASSUME NEW r \in Runs, Domains' /\ Elsewhere(r) /\ RunInv(r)' PROVE SuiteInv'
    BY <1>1, OthersKeep DEF SuiteInv
<1>2. ASSUME NEW r \in Runs, Begin(r) \/ Tool(r) \/ Child(r) \/ Drain(r) PROVE SuiteInv'
    <2>1. CASE Begin(r)
        BY <1>1, <2>1, BeginStep
    <2>2. CASE Refuse(r) \/ NothingLeft(r) \/ NoCompiler(r) \/ NotIgnored(r) \/ NotBuilt(r)
        BY <1>1, <2>2, EndsEarly
    <2>3. CASE WriteMain(r)
        BY <1>1, <2>3, WriteMainStep
    <2>4. CASE Build(r)
        BY <1>1, <2>4, BuildStep
    <2>5. CASE Waited(r) \/ Timeout(r)
        BY <1>1, <2>5, WaitStep
    <2>6. CASE Joined(r) \/ JoinTimeout(r)
        BY <1>1, <2>6, JudgeStep
    <2>7. CASE Kill(r)
        BY <1>1, <2>7, KillStep
    <2>8. CASE CallTest(r)
        BY <1>1, <2>8, CallTestStep
    <2>9. CASE Exit(r) \/ Unavailable(r)
        BY <1>1, <2>9, ChildEndsStep
    <2>10. CASE Drain(r)
        BY <1>1, <2>10, DrainStep
    <2> QED BY <1>2, <2>1, <2>2, <2>3, <2>4, <2>5, <2>6, <2>7, <2>8, <2>9, <2>10 DEF Tool, Child
<1>3. CASE UNCHANGED vars
    BY <1>3 DEF vars, childVars, SuiteInv, Domains, RunInv, OutputTyped, NotStarted, MainRight,
                ChildRight, DoneRight, Green, Quit, Did, ToCall, Called, Lines
<1> QED BY <1>2, <1>3 DEF Next

\* Whatever the runs, the checkouts and the tests: in a run that is green, and
\* built what it wrote itself, no call hung, crashed or raced under the
\* sanitiser, and unless a test ended the process with the code zero, none
\* failed and every test that was found and not left out was called (suite and
\* build_and_run of tools/mojotest/run.py).
THEOREM GreenRunsCalledAll == Spec => []GreenCalledAll
<1>1. SuiteInv => GreenCalledAll
    <2> SUFFICES ASSUME SuiteInv, NEW r \in Runs, Green(r), Undisturbed(r)
                 PROVE  (~Quit(r) => found[r] \subseteq Called(r)) /\ NothingWentWrong(r)
        BY DEF GreenCalledAll
    <2>1. RunInv(r)
        BY DEF SuiteInv
    <2>2. CASE seen[r] = {} /\ found[r] = {}
        BY <2>2 DEF NothingWentWrong, Did
    <2>3. CASE child[r] = "exited" /\ code[r] = 0 /\ "RACE_FOUND" \notin Lines(r)
               /\ binary[r].by \in Runs
        <3>1. binary[r].calls = found[r] /\ (~Quit(r) => binary[r].calls \subseteq Called(r))
            BY <2>1, <2>3, NobodyRuns DEF Undisturbed, RunInv, MainRight, ChildRight, ToCall
        <3>2. NothingWentWrong(r)
            BY <2>1, <2>3 DEF RunInv, ChildRight, NothingWentWrong
        <3> QED BY <3>1, <3>2
    <2> QED BY <2>1, <2>2, <2>3 DEF RunInv, DoneRight
<1> QED BY <1>1, SuiteBegins, SuiteStep, PTL DEF Spec

-----------------------------------------------------------------------------
(* The deal of the shards *)

\* A place is at or below a quotient exactly when it is below the dividend.
LEMMA BelowQuotient ==
    ASSUME NEW a \in Nat, NEW n \in Nat \ {0}, NEW x \in Nat
    PROVE  x <= a \div n <=> n * x <= a
<1> DEFINE q == a \div n
<1>1. q \in Nat /\ n * q <= a /\ a < n * q + n
    OBVIOUS
<1> HIDE DEF q
<1>2. CASE x <= q
    <2>1. n * x <= n * q
        BY <1>1, <1>2
    <2>2. n * x \in Int /\ n * q \in Int
        BY <1>1
    <2> QED BY <1>1, <1>2, <2>1, <2>2 DEF q
<1>3. CASE x >= q + 1
    <2>1. n * x >= n * (q + 1) /\ n * (q + 1) = n * q + n
        BY <1>1, <1>3
    <2>2. n * x \in Int /\ n * q \in Int
        BY <1>1
    <2> QED BY <1>1, <1>3, <2>1, <2>2 DEF q
<1> QED BY <1>1, <1>2, <1>3

\* However the files are split, every file is in one shard and in no other
\* (share of tools/mojotest/run.py).
THEOREM ShardsPartition ==
    ASSUME NEW count \in Nat, NEW n \in Nat \ {0}, NEW place \in 1 .. count
    PROVE  \E k \in 1 .. n : /\ place \in Dealt(count, k, n)
                             /\ \A j \in 1 .. n : place \in Dealt(count, j, n) => j = k
<1>1. ASSUME NEW k \in 1 .. n
      PROVE  place \in Dealt(count, k, n)
                <=> count * (k - 1) < n * place /\ n * place <= count * k
    <2>1. count * (k - 1) \in Nat /\ count * k \in Nat /\ place \in Nat /\ n * place \in Nat
        OBVIOUS
    <2>2. place <= (count * (k - 1)) \div n <=> n * place <= count * (k - 1)
        BY <2>1, BelowQuotient
    <2>3. place <= (count * k) \div n <=> n * place <= count * k
        BY <2>1, BelowQuotient
    <2>4. (count * (k - 1)) \div n \in Nat /\ (count * k) \div n \in Nat
        BY <2>1
    <2> QED BY <2>1, <2>2, <2>3, <2>4 DEF Dealt
<1> DEFINE whole == n * place - 1
           q == whole \div count
<1>2. whole \in Nat /\ count \in Nat \ {0}
    OBVIOUS
<1>3. q \in Nat /\ count * q <= whole /\ whole < count * q + count
    BY <1>2
<1>4. n * place <= n * count /\ n * place \in Nat /\ count * q \in Nat
    BY <1>3
<1>5. q + 1 \in 1 .. n
    <2>1. CASE q >= n
        <3>1. count * q >= count * n /\ count * n = n * count
            BY <1>3, <2>1
        <3> QED BY <1>3, <1>4, <3>1
    <2> QED BY <1>3, <2>1
<1>6. place \in Dealt(count, q + 1, n)
    <2>1. count * ((q + 1) - 1) = count * q /\ count * (q + 1) = count * q + count
        BY <1>3
    <2> QED BY <1>1, <1>3, <1>4, <1>5, <2>1
<1>7. ASSUME NEW i \in 1 .. n, NEW j \in 1 .. n, i < j,
             place \in Dealt(count, i, n), place \in Dealt(count, j, n)
      PROVE  FALSE
    <2>1. n * place <= count * i /\ count * (j - 1) < n * place
        BY <1>1, <1>7
    <2>2. count * i <= count * (j - 1)
        BY <1>7
    <2> QED BY <1>4, <2>1, <2>2
<1>8. \A j \in 1 .. n : place \in Dealt(count, j, n) => j = q + 1
    BY <1>5, <1>6, <1>7
<1> QED BY <1>5, <1>6, <1>8

-----------------------------------------------------------------------------
(* The scanner *)

LEMMA LeastNatural ==
    ASSUME NEW T \in SUBSET Nat, T # {}
    PROVE  \E x \in T : \A y \in T : x <= y
<1> DEFINE R == OpToRel(<, Nat)
<1>1. IsWellFoundedOn(R, Nat)
    BY NatLessThanWellFounded, Zenon
<1>2. \A x, y \in Nat : y < x => <<y, x>> \in R
    BY Zenon DEF OpToRel
<1> HIDE DEF R
<1>3. \E x \in T : \A y \in T : ~(<<y, x>> \in R)
    BY <1>1, WFMin, Zenon
<1>4. PICK x \in T : \A y \in T : ~(<<y, x>> \in R)
    BY <1>3
<1>5. \A y \in T : ~(y < x)
    BY <1>2, <1>4
<1> QED BY <1>4, <1>5

LEMMA UpTo ==
    ASSUME NEW S \in SUBSET Nat, NEW n \in Nat, 0 \in S, \A k \in 0 .. n - 1 : k \in S => k + 1 \in S
    PROVE  0 .. n \subseteq S
<1> SUFFICES ASSUME (0 .. n) \ S # {} PROVE FALSE
    OBVIOUS
<1>1. PICK x \in (0 .. n) \ S : \A y \in (0 .. n) \ S : x <= y
    <2>1. (0 .. n) \ S \in SUBSET Nat
        OBVIOUS
    <2> QED BY <2>1, LeastNatural, Zenon
<1>2. x # 0 /\ x - 1 \in 0 .. n - 1 /\ x - 1 \in 0 .. n /\ x - 1 < x
    BY <1>1
<1>3. x - 1 \in S
    BY <1>1, <1>2
<1>4. (x - 1) + 1 = x
    BY <1>1
<1> QED BY <1>1, <1>2, <1>3, <1>4

\* What the scanner knows, and that it is right about the first k lines.
Knows ==
    [number : Nat, slow : BOOLEAN, no_race : BOOLEAN,
     found : SUBSET [line : Nat, slow : BOOLEAN, no_race : BOOLEAN], bad : BOOLEAN]

RightAbout(lines, k, sofar) ==
    /\ sofar \in Knows
    /\ sofar.number = k + 1
    /\ sofar.slow <=> IsOn("slow", lines, k + 1)
    /\ sofar.no_race <=> IsOn("no-race", lines, k + 1)
    /\ \A c \in sofar.found :
            /\ c.line \in 1 .. k /\ lines[c.line].is = "test"
            /\ c.slow <=> IsOn("slow", lines, c.line)
            /\ c.no_race <=> IsOn("no-race", lines, c.line)
    /\ \A l \in 1 .. k : lines[l].is = "test" => \E c \in sofar.found : c.line = l

LEMMA MarkerGoesOn ==
    ASSUME NEW lines, NEW k \in Nat, NEW marker \in Marker
    PROVE  IsOn(marker, lines, k + 2) <=>
                \/ lines[k + 1].is = marker
                \/ IsOn(marker, lines, k + 1) /\ lines[k + 1].is \in Passable
<1>1. (k + 2) - 1 = k + 1 /\ (k + 1) - 1 = k
    OBVIOUS
<1>2. ASSUME lines[k + 1].is = marker PROVE IsOn(marker, lines, k + 2)
    <2>1. k + 1 \in 1 .. k + 1 /\ \A between \in k + 1 .. k + 1 : between = k + 1
        OBVIOUS
    <2>2. marker \in Passable
        BY DEF Passable
    <2> QED BY <1>1, <1>2, <2>1, <2>2 DEF IsOn
<1>3. ASSUME IsOn(marker, lines, k + 1), lines[k + 1].is \in Passable
      PROVE  IsOn(marker, lines, k + 2)
    <2>1. PICK m \in 1 .. k : /\ lines[m].is = marker
                              /\ \A between \in m .. k : lines[between].is \in Passable
        BY <1>1, <1>3 DEF IsOn
    <2>2. m \in 1 .. k + 1 /\ \A between \in m .. k + 1 : between \in m .. k \/ between = k + 1
        OBVIOUS
    <2> QED BY <1>1, <1>3, <2>1, <2>2 DEF IsOn
<1>4. ASSUME IsOn(marker, lines, k + 2), lines[k + 1].is # marker
      PROVE  IsOn(marker, lines, k + 1) /\ lines[k + 1].is \in Passable
    <2>1. PICK m \in 1 .. k + 1 : /\ lines[m].is = marker
                                  /\ \A between \in m .. k + 1 : lines[between].is \in Passable
        BY <1>1, <1>4 DEF IsOn
    <2>2. m \in 1 .. k
        BY <1>4, <2>1
    <2>3. k + 1 \in m .. k + 1 /\ \A between \in m .. k : between \in m .. k + 1
        BY <2>2
    <2> QED BY <1>1, <2>1, <2>2, <2>3 DEF IsOn
<1> QED BY <1>2, <1>3, <1>4

\* What changing one thing the scanner knows leaves alone.
LEMMA Numbered ==
    ASSUME NEW r \in Knows, NEW k \in Nat
    PROVE  LET n == [r EXCEPT !.number = k]
           IN  n \in Knows /\ n.number = k /\ n.found = r.found /\ n.slow = r.slow /\ n.no_race = r.no_race
BY DEF Knows

LEMMA SlowSet ==
    ASSUME NEW r \in Knows, NEW m \in BOOLEAN
    PROVE  LET n == [r EXCEPT !.slow = m]
           IN  n \in Knows /\ n.number = r.number /\ n.found = r.found /\ n.slow = m /\ n.no_race = r.no_race
BY DEF Knows

LEMMA NoRaceSet ==
    ASSUME NEW r \in Knows, NEW m \in BOOLEAN
    PROVE  LET n == [r EXCEPT !.no_race = m]
           IN  n \in Knows /\ n.number = r.number /\ n.found = r.found /\ n.slow = r.slow /\ n.no_race = m
BY DEF Knows

\* One line more.
LEMMA ReadsOn ==
    ASSUME NEW lines, NEW k \in Nat, NEW sofar, RightAbout(lines, k, sofar),
           lines[k + 1].is \in Passable \cup {"code", "test"}
    PROVE  RightAbout(lines, k + 1, ReadLine(sofar, lines[k + 1]))
<1> DEFINE line == lines[k + 1]
           next == ReadLine(sofar, line)
<1>1. /\ sofar \in Knows /\ sofar.number = k + 1 /\ sofar.number + 1 = k + 2
      /\ (k + 1) + 1 = k + 2
    BY DEF RightAbout
<1>2. /\ IsOn("slow", lines, k + 2) <=>
            line.is = "slow" \/ (IsOn("slow", lines, k + 1) /\ line.is \in Passable)
      /\ IsOn("no-race", lines, k + 2) <=>
            line.is = "no-race" \/ (IsOn("no-race", lines, k + 1) /\ line.is \in Passable)
    BY MarkerGoesOn DEF Marker
<1>3. /\ sofar.slow <=> IsOn("slow", lines, k + 1)
      /\ sofar.no_race <=> IsOn("no-race", lines, k + 1)
    BY DEF RightAbout
<1>4. CASE line.is # "test"
    <2>1. /\ next \in Knows /\ next.number = k + 2 /\ next.found = sofar.found
          /\ next.slow <=> IsOn("slow", lines, k + 2)
          /\ next.no_race <=> IsOn("no-race", lines, k + 2)
        <3>1. CASE line.is = "slow"
            <4> DEFINE slow == [sofar EXCEPT !.slow = TRUE]
            <4>1. /\ slow \in Knows /\ slow.number = sofar.number /\ slow.found = sofar.found
                  /\ slow.slow = TRUE /\ slow.no_race = sofar.no_race
                BY <1>1, SlowSet
            <4>2. next = [slow EXCEPT !.number = sofar.number + 1]
                BY <1>1, <3>1, <4>1 DEF ReadLine
            <4> HIDE DEF next, slow
            <4>3. /\ next \in Knows /\ next.number = k + 2 /\ next.found = sofar.found
                  /\ next.slow = TRUE /\ next.no_race = sofar.no_race
                <5>1. sofar.number + 1 \in Nat
                    BY <1>1
                <5> QED BY <1>1, <4>1, <4>2, <5>1, Numbered
            <4> QED BY <1>2, <1>3, <3>1, <4>3, Zenon DEF Passable, Marker
        <3>2. CASE line.is = "no-race"
            <4> DEFINE alone == [sofar EXCEPT !.no_race = TRUE]
            <4>1. /\ alone \in Knows /\ alone.number = sofar.number /\ alone.found = sofar.found
                  /\ alone.slow = sofar.slow /\ alone.no_race = TRUE
                BY <1>1, NoRaceSet
            <4>2. next = [alone EXCEPT !.number = sofar.number + 1]
                BY <1>1, <3>2, <4>1 DEF ReadLine
            <4> HIDE DEF next, alone
            <4>3. /\ next \in Knows /\ next.number = k + 2 /\ next.found = sofar.found
                  /\ next.slow = sofar.slow /\ next.no_race = TRUE
                <5>1. sofar.number + 1 \in Nat
                    BY <1>1
                <5> QED BY <1>1, <4>1, <4>2, <5>1, Numbered
            <4> QED BY <1>2, <1>3, <3>2, <4>3, Zenon DEF Passable, Marker
        <3>3. CASE line.is \in {"comment", "blank"}
            <4>1. next = [sofar EXCEPT !.number = sofar.number + 1]
                BY <1>1, <3>3 DEF ReadLine
            <4> HIDE DEF next
            <4>2. /\ next \in Knows /\ next.number = k + 2 /\ next.found = sofar.found
                  /\ next.slow = sofar.slow /\ next.no_race = sofar.no_race
                <5>1. sofar.number + 1 \in Nat
                    BY <1>1
                <5> QED BY <1>1, <4>1, <5>1, Numbered
            <4> QED BY <1>2, <1>3, <3>3, <4>2, Zenon DEF Passable, Marker
        <3>4. CASE line.is = "code"
            <4> DEFINE quick == [sofar EXCEPT !.slow = FALSE]
                       plain == [quick EXCEPT !.no_race = FALSE]
            <4>1. /\ quick \in Knows /\ quick.number = sofar.number /\ quick.found = sofar.found
                  /\ quick.slow = FALSE /\ quick.no_race = sofar.no_race
                BY <1>1, SlowSet
            <4>2. /\ plain \in Knows /\ plain.number = sofar.number /\ plain.found = sofar.found
                  /\ plain.slow = FALSE /\ plain.no_race = FALSE
                BY <1>1, <4>1, NoRaceSet
            <4>3. next = [plain EXCEPT !.number = sofar.number + 1]
                BY <1>1, <3>4, <4>1, <4>2 DEF ReadLine
            <4> HIDE DEF next, quick, plain
            <4>4. /\ next \in Knows /\ next.number = k + 2 /\ next.found = sofar.found
                  /\ next.slow = FALSE /\ next.no_race = FALSE
                <5>1. sofar.number + 1 \in Nat
                    BY <1>1
                <5> QED BY <1>1, <4>1, <4>2, <4>3, <5>1, Numbered
            <4> QED BY <1>2, <1>3, <3>4, <4>4, Zenon DEF Passable, Marker
        <3> QED BY <1>4, <3>1, <3>2, <3>3, <3>4 DEF Passable, Marker
    <2>2. \A c \in next.found : c.line \in 1 .. k + 1
        BY <2>1 DEF RightAbout
    <2>3. \A l \in 1 .. k + 1 : lines[l].is = "test" => l \in 1 .. k
        BY <1>4
    <2>4. \A c \in next.found :
            /\ c.line \in 1 .. k + 1 /\ lines[c.line].is = "test"
            /\ c.slow <=> IsOn("slow", lines, c.line)
            /\ c.no_race <=> IsOn("no-race", lines, c.line)
        BY <2>1, <2>2, Zenon DEF RightAbout
    <2>5. \A l \in 1 .. k + 1 : lines[l].is = "test" => \E c \in next.found : c.line = l
        BY <2>1, <2>3 DEF RightAbout
    <2> HIDE DEF next
    <2>6. RightAbout(lines, k + 1, next)
        BY <1>1, <2>1, <2>4, <2>5, Zenon DEF RightAbout
    <2> QED BY <2>6 DEF next
<1>5. CASE line.is = "test"
    <2> DEFINE new == [line |-> sofar.number, slow |-> sofar.slow, no_race |-> sofar.no_race]
    <2>1. next = [number |-> sofar.number + 1, slow |-> FALSE, no_race |-> FALSE,
                  found |-> sofar.found \cup {new}, bad |-> sofar.bad \/ ~line.raises]
        BY <1>5, Zenon DEF ReadLine, Passable, Marker
    <2>2. new \in [line : Nat, slow : BOOLEAN, no_race : BOOLEAN]
        BY <1>1 DEF Knows
    <2>3. /\ next \in Knows /\ next.number = k + 2 /\ next.found = sofar.found \cup {new}
          /\ next.slow = FALSE /\ next.no_race = FALSE
        <3>1. (sofar.bad \/ ~line.raises) \in BOOLEAN
            BY Zenon
        <3>2. sofar.found \cup {new} \in SUBSET [line : Nat, slow : BOOLEAN, no_race : BOOLEAN]
            BY <1>1, <2>2 DEF Knows
        <3> HIDE DEF new
        <3> DEFINE bad == sofar.bad \/ ~line.raises
        <3> HIDE DEF bad
        <3>3. next = [number |-> sofar.number + 1, slow |-> FALSE, no_race |-> FALSE,
                      found |-> sofar.found \cup {new}, bad |-> bad] /\ bad \in BOOLEAN
            BY <2>1, <3>1, Zenon DEF bad
        <3> HIDE DEF next
        <3> QED BY <1>1, <3>2, <3>3 DEF Knows
    <2>4. ~ IsOn("slow", lines, k + 2) /\ ~ IsOn("no-race", lines, k + 2)
        BY <1>2, <1>5 DEF Passable, Marker
    <2>5. ASSUME NEW c \in next.found
          PROVE  /\ c.line \in 1 .. k + 1 /\ lines[c.line].is = "test"
                 /\ c.slow <=> IsOn("slow", lines, c.line)
                 /\ c.no_race <=> IsOn("no-race", lines, c.line)
        <3>1. CASE c \in sofar.found
            <4>1. /\ c.line \in 1 .. k /\ lines[c.line].is = "test"
                  /\ c.slow <=> IsOn("slow", lines, c.line)
                  /\ c.no_race <=> IsOn("no-race", lines, c.line)
                BY <3>1, Zenon DEF RightAbout
            <4>2. c.line \in 1 .. k + 1
                BY <4>1
            <4> QED BY <4>1, <4>2, Zenon
        <3>2. CASE c = new
            <4>1. c.line = k + 1 /\ c.slow = sofar.slow /\ c.no_race = sofar.no_race
                BY <1>1, <3>2
            <4>2. k + 1 \in 1 .. k + 1
                OBVIOUS
            <4> QED BY <1>3, <1>5, <4>1, <4>2, Zenon
        <3> HIDE DEF next, new
        <3> QED BY <2>3, <3>1, <3>2
    <2>6. ASSUME NEW l \in 1 .. k + 1, lines[l].is = "test"
          PROVE  \E c \in next.found : c.line = l
        <3>1. CASE l = k + 1
            <4>1. new.line = l
                BY <1>1, <3>1
            <4> HIDE DEF new, next
            <4> QED BY <2>3, <4>1
        <3>2. CASE l # k + 1
            <4>1. l \in 1 .. k
                BY <3>2
            <4>2. PICK c \in sofar.found : c.line = l
                BY <2>6, <4>1, Zenon DEF RightAbout
            <4> HIDE DEF new, next
            <4> QED BY <2>3, <4>2
        <3> QED BY <3>1, <3>2
    <2> HIDE DEF next, new
    <2>7. RightAbout(lines, k + 1, next)
        BY <1>1, <2>3, <2>4, <2>5, <2>6, Zenon DEF RightAbout
    <2> QED BY <2>7 DEF next
<1> QED BY <1>4, <1>5 DEF Passable

Top == [number |-> 1, slow |-> FALSE, no_race |-> FALSE, found |-> {}, bad |-> FALSE]

\* f says what is known after each line up to the n-th.
After(lines, n, f) ==
    f = [l \in 0 .. n |-> IF l = 0 THEN Top ELSE ReadLine(f[l - 1], lines[l])]

LEMMA AfterEvery ==
    ASSUME NEW lines, NEW n \in Nat
    PROVE  \E f : After(lines, n, f)
<1> DEFINE S == {k \in Nat : \E f : After(lines, k, f)}
<1>1. 0 \in S
    <2> DEFINE f == [l \in 0 .. 0 |-> Top]
    <2>1. f = [l \in 0 .. 0 |-> IF l = 0 THEN Top ELSE ReadLine(f[l - 1], lines[l])]
        OBVIOUS
    <2>2. After(lines, 0, f)
        BY <2>1 DEF After
    <2> QED BY <2>2
<1>2. ASSUME NEW k \in 0 .. n - 1, k \in S PROVE k + 1 \in S
    <2>1. PICK f : After(lines, k, f)
        BY <1>2
    <2> DEFINE g == [l \in 0 .. k + 1 |-> IF l = k + 1 THEN ReadLine(f[k], lines[k + 1]) ELSE f[l]]
    <2>2. ASSUME NEW l \in 0 .. k + 1
          PROVE  g[l] = IF l = 0 THEN Top ELSE ReadLine(g[l - 1], lines[l])
        <3>1. CASE l = k + 1
            <4>1. l - 1 = k /\ k \in 0 .. k + 1 /\ k # k + 1 /\ l # 0
                BY <3>1
            <4>2. g[k] = f[k] /\ g[l] = ReadLine(f[k], lines[k + 1])
                BY <3>1, <4>1
            <4> HIDE DEF g
            <4> QED BY <3>1, <4>1, <4>2
        <3>2. CASE l # k + 1 /\ l # 0
            <4>1. l \in 0 .. k /\ l - 1 \in 0 .. k + 1 /\ l - 1 # k + 1
                BY <3>2
            <4>2. g[l - 1] = f[l - 1] /\ g[l] = f[l]
                BY <3>2, <4>1
            <4>3. f[l] = ReadLine(f[l - 1], lines[l])
                BY <2>1, <3>2, <4>1, Zenon DEF After
            <4> HIDE DEF g
            <4> QED BY <3>2, <4>2, <4>3
        <3>3. CASE l = 0
            <4>1. 0 \in 0 .. k /\ 0 # k + 1
                OBVIOUS
            <4>2. f[0] = Top
                BY <2>1, <4>1, Zenon DEF After
            <4>3. g[0] = f[0]
                BY <4>1
            <4> HIDE DEF g
            <4> QED BY <3>3, <4>2, <4>3
        <3> QED BY <3>1, <3>2, <3>3
    <2>3. g = [l \in 0 .. k + 1 |-> g[l]]
        OBVIOUS
    <2> HIDE DEF g
    <2>4. g = [l \in 0 .. k + 1 |-> IF l = 0 THEN Top ELSE ReadLine(g[l - 1], lines[l])]
        BY <2>2, <2>3, Zenon
    <2>5. After(lines, k + 1, g)
        BY <2>4, Zenon DEF After
    <2> QED BY <2>5
<1>3. n \in 0 .. n /\ S \in SUBSET Nat
    OBVIOUS
<1>4. 0 .. n \subseteq S
    <2> HIDE DEF S
    <2> QED BY <1>1, <1>2, <1>3, UpTo
<1> QED BY <1>3, <1>4

LEMMA ScanReads ==
    ASSUME NEW lines, Len(lines) \in Nat
    PROVE  \E f : After(lines, Len(lines), f) /\ scan(lines) = f[Len(lines)]
<1> DEFINE f == CHOOSE f : After(lines, Len(lines), f)
<1>1. After(lines, Len(lines), f)
    BY AfterEvery, Zenon
<1>2. scan(lines) = f[Len(lines)]
    BY Zenon DEF scan, After, Top
<1> QED BY <1>1, <1>2

\* The scanner finds the tests of a file and puts on each of them the markers
\* above it that nothing but comments, blank lines and markers keep from it,
\* however long the file (scan of tools/mojotest/run.py).
THEOREM ScanIsRight ==
    ASSUME NEW lines, Len(lines) \in Nat,
           \A l \in 1 .. Len(lines) : lines[l].is \in Passable \cup {"code", "test"}
    PROVE  RightAbout(lines, Len(lines), scan(lines))
<1> DEFINE n == Len(lines)
<1>1. PICK f : After(lines, n, f) /\ scan(lines) = f[n]
    BY ScanReads, Zenon
<1> DEFINE S == {k \in Nat : k \in 0 .. n => RightAbout(lines, k, f[k])}
<1>2. 0 \in S
    <2>1. 0 \in 0 .. n
        OBVIOUS
    <2>2. f[0] = Top
        BY <1>1, <2>1, Zenon DEF After
    <2>3. /\ Top \in Knows /\ Top.number = 0 + 1 /\ Top.found = {}
          /\ Top.slow = FALSE /\ Top.no_race = FALSE
        BY DEF Top, Knows
    <2>4. ~ IsOn("slow", lines, 0 + 1) /\ ~ IsOn("no-race", lines, 0 + 1)
        <3>1. 1 .. (0 + 1) - 1 = {}
            OBVIOUS
        <3> QED BY <3>1, Zenon DEF IsOn
    <2>5. 1 .. 0 = {}
        OBVIOUS
    <2>6. RightAbout(lines, 0, Top)
        BY <2>3, <2>4, <2>5, Zenon DEF RightAbout
    <2> QED BY <2>2, <2>6
<1>3. ASSUME NEW k \in 0 .. n - 1, k \in S PROVE k + 1 \in S
    <2>1. k \in Nat /\ k \in 0 .. n /\ k + 1 \in 0 .. n /\ k + 1 \in 1 .. n /\ k + 1 # 0 /\ (k + 1) - 1 = k
        OBVIOUS
    <2>2. RightAbout(lines, k, f[k])
        BY <1>3, <2>1
    <2>3. f[k + 1] = ReadLine(f[k], lines[k + 1])
        BY <1>1, <2>1, Zenon DEF After
    <2>4. RightAbout(lines, k + 1, f[k + 1])
        BY <2>1, <2>2, <2>3, ReadsOn, Zenon
    <2> QED BY <2>4
<1>4. n \in 0 .. n /\ S \in SUBSET Nat /\ n \in Nat
    OBVIOUS
<1>5. 0 .. n \subseteq S
    <2> HIDE DEF S, n
    <2> QED BY <1>2, <1>3, <1>4, UpTo
<1>6. RightAbout(lines, n, f[n])
    BY <1>4, <1>5
<1> HIDE DEF n
<1>7. RightAbout(lines, n, scan(lines))
    BY <1>1, <1>6, Zenon
<1> QED BY <1>7 DEF n

-----------------------------------------------------------------------------
(* What is found is what is owed *)

LinesOf(n) == Files[n].lines
Found(ask) == discover(ask.where, ask.only)
Looked(ask) == FilesOf(Found(ask))

\* A file is dealt to the shard a command line asks for.
InPart(n, ask) ==
    ask.part = Whole \/ Place(n, Looked(ask)) \in Dealt(Cardinality(Looked(ask)), ask.part[1], ask.part[2])

Calls == [file : DOMAIN Files, line : Nat]

LEMMA ScannedRight ==
    ASSUME NEW n \in DOMAIN Files
    PROVE  RightAbout(LinesOf(n), Len(LinesOf(n)), Scanned[n])
<1>1. Scanned[n] = scan(LinesOf(n))
    BY DEF Scanned, LinesOf
<1>2. /\ Len(LinesOf(n)) \in Nat
      /\ \A l \in 1 .. Len(LinesOf(n)) : LinesOf(n)[l].is \in Passable \cup {"code", "test"}
    BY FilesAreLines DEF LinesOf
<1> QED BY <1>1, <1>2, ScanIsRight

\* What is discovered are the tests of the files that are looked at, with
\* their markers.
LEMMA DiscoveredIsThere ==
    ASSUME NEW ask, NEW c \in Found(ask)
    PROVE  /\ c.file \in FilesUnder(ask.where, ask.only)
           /\ c.line \in DOMAIN LinesOf(c.file) /\ LinesOf(c.file)[c.line].is = "test"
           /\ c.slow <=> IsOn("slow", LinesOf(c.file), c.line)
           /\ c.no_race <=> IsOn("no-race", LinesOf(c.file), c.line)
<1>1. PICK n \in FilesUnder(ask.where, ask.only) : \E case \in Scanned[n].found :
            c = [file |-> n, line |-> case.line, slow |-> case.slow, no_race |-> case.no_race]
    BY DEF Found, discover
<1>2. PICK case \in Scanned[n].found :
            c = [file |-> n, line |-> case.line, slow |-> case.slow, no_race |-> case.no_race]
    BY <1>1
<1>3. n \in DOMAIN Files
    BY DEF FilesUnder
<1>4. RightAbout(LinesOf(n), Len(LinesOf(n)), Scanned[n])
    BY <1>3, ScannedRight
<1>5. c.file = n /\ c.line = case.line /\ c.slow = case.slow /\ c.no_race = case.no_race
    BY <1>2
<1>6. /\ case.line \in 1 .. Len(LinesOf(n)) /\ LinesOf(n)[case.line].is = "test"
      /\ case.slow <=> IsOn("slow", LinesOf(n), case.line)
      /\ case.no_race <=> IsOn("no-race", LinesOf(n), case.line)
    BY <1>4, Zenon DEF RightAbout
<1>7. DOMAIN LinesOf(n) = 1 .. Len(LinesOf(n))
    BY <1>3, FilesAreLines DEF LinesOf
<1> QED BY <1>5, <1>6, <1>7, Zenon

LEMMA TestIsDiscovered ==
    ASSUME NEW ask, NEW n \in FilesUnder(ask.where, ask.only), NEW l \in DOMAIN LinesOf(n),
           LinesOf(n)[l].is = "test"
    PROVE  \E c \in Found(ask) : c.file = n /\ c.line = l
<1>1. n \in DOMAIN Files
    BY DEF FilesUnder
<1>2. RightAbout(LinesOf(n), Len(LinesOf(n)), Scanned[n])
    BY <1>1, ScannedRight
<1>3. DOMAIN LinesOf(n) = 1 .. Len(LinesOf(n))
    BY <1>1, FilesAreLines DEF LinesOf
<1>4. PICK case \in Scanned[n].found : case.line = l
    BY <1>2, <1>3, Zenon DEF RightAbout
<1> DEFINE c == [file |-> n, line |-> case.line, slow |-> case.slow, no_race |-> case.no_race]
<1>5. c \in Found(ask)
    BY DEF Found, discover
<1>6. c.file = n /\ c.line = l
    BY <1>4
<1> QED BY <1>5, <1>6

\* A command line calls the tests it is about and does not excuse, in the
\* files of its shard.
LEMMA LeftIsOwed ==
    ASSUME NEW ask, NEW n, NEW l
    PROVE  [file |-> n, line |-> l] \in LeftOf(ask) <=> <<n, l>> \in Owed(ask) /\ InPart(n, ask)
<1>1. \A c : c \in FoundBy(ask) <=> c \in Found(ask) /\ InPart(c.file, ask)
    BY DEF FoundBy, Found, share, InPart, Looked
<1>2. <<n, l>> \in Owed(ask) <=>
        /\ n \in FilesUnder(ask.where, ask.only) /\ l \in DOMAIN LinesOf(n)
        /\ LinesOf(n)[l].is = "test" /\ ~Excused(n, l, ask)
    BY DEF Owed, LinesOf
<1>3. [file |-> n, line |-> l] \in LeftOf(ask) <=>
        \E c \in FoundBy(ask) : ~why(c, ask) /\ c.file = n /\ c.line = l
    <2>1. \A c : [file |-> n, line |-> l] = [file |-> c.file, line |-> c.line]
                    <=> c.file = n /\ c.line = l
        OBVIOUS
    <2> QED BY <2>1 DEF LeftOf
<1>4. ASSUME NEW c \in Found(ask), c.file = n, c.line = l
      PROVE  why(c, ask) <=> Excused(n, l, ask)
    <2>1. /\ c.slow <=> IsOn("slow", LinesOf(n), l)
          /\ c.no_race <=> IsOn("no-race", LinesOf(n), l)
        BY <1>4, DiscoveredIsThere
    <2> QED BY <2>1, Zenon DEF why, Excused, LinesOf
<1>5. ASSUME NEW c \in FoundBy(ask), ~why(c, ask), c.file = n, c.line = l
      PROVE  <<n, l>> \in Owed(ask) /\ InPart(n, ask)
    <2>1. c \in Found(ask) /\ InPart(n, ask)
        BY <1>1, <1>5
    <2>2. /\ n \in FilesUnder(ask.where, ask.only) /\ l \in DOMAIN LinesOf(n)
          /\ LinesOf(n)[l].is = "test"
        BY <1>5, <2>1, DiscoveredIsThere
    <2> QED BY <1>2, <1>4, <1>5, <2>1, <2>2
<1>6. ASSUME <<n, l>> \in Owed(ask), InPart(n, ask)
      PROVE  \E c \in FoundBy(ask) : ~why(c, ask) /\ c.file = n /\ c.line = l
    <2>1. PICK c \in Found(ask) : c.file = n /\ c.line = l
        BY <1>2, <1>6, TestIsDiscovered
    <2>2. c \in FoundBy(ask)
        BY <1>1, <1>6, <2>1
    <2> QED BY <1>2, <1>4, <1>6, <2>1, <2>2
<1> QED BY <1>3, <1>5, <1>6

LEMMA LeftAreCalls == ASSUME NEW ask PROVE LeftOf(ask) \subseteq Calls
<1> SUFFICES ASSUME NEW c \in FoundBy(ask) PROVE [file |-> c.file, line |-> c.line] \in Calls
    BY DEF LeftOf
<1>1. c \in Found(ask)
    BY DEF FoundBy, Found, share
<1>2. c.file \in FilesUnder(ask.where, ask.only) /\ c.line \in DOMAIN LinesOf(c.file)
    BY <1>1, DiscoveredIsThere
<1>3. c.file \in DOMAIN Files
    BY <1>2 DEF FilesUnder
<1>4. DOMAIN LinesOf(c.file) \subseteq Nat
    BY <1>3, FilesAreLines DEF LinesOf
<1> QED BY <1>2, <1>3, <1>4 DEF Calls

\* The call that comes next is one of those that are left.
LEMMA NextIsToCall ==
    ASSUME NEW r, ToCall(r) # {}, ToCall(r) \subseteq Calls
    PROVE  NextCall(r) \in ToCall(r)
<1> DEFINE T == ToCall(r)
           Files_ == {c.file : c \in T}
<1>1. T # {} /\ T \subseteq Calls
    OBVIOUS
<1> HIDE DEF T
<1>2. \A c \in T : c.file \in Nat /\ c.line \in Nat
    BY <1>1, FilesAreLines DEF Calls
<1>3. PICK n \in Files_ : \A m \in Files_ : n <= m
    <2>1. Files_ \in SUBSET Nat /\ Files_ # {}
        BY <1>1, <1>2
    <2> QED BY <2>1, LeastNatural
<1> DEFINE InFirst == {c \in T : c.file = n}
           Lines_ == {c.line : c \in InFirst}
<1>4. PICK l \in Lines_ : \A m \in Lines_ : l <= m
    <2>1. Lines_ \in SUBSET Nat /\ Lines_ # {}
        BY <1>2, <1>3
    <2> QED BY <2>1, LeastNatural
<1>5. PICK case \in T : case.file = n /\ case.line = l
    BY <1>4
<1>6. ASSUME NEW other \in T
      PROVE  \/ case.file < other.file
             \/ case.file = other.file /\ case.line <= other.line
    <2>1. n <= other.file /\ n \in Nat /\ other.file \in Nat
        BY <1>2, <1>3
    <2>2. CASE other.file = n
        <3>1. other.line \in Lines_
            BY <2>2
        <3> QED BY <1>4, <1>5, <2>2, <3>1
    <2>3. CASE other.file # n
        BY <1>5, <2>1, <2>3
    <2> QED BY <2>2, <2>3
<1> HIDE DEF Files_, Lines_, InFirst
<1>7. NextCall(r) \in T
    BY <1>5, <1>6, Zenon DEF NextCall, T
<1> QED BY <1>7 DEF T

-----------------------------------------------------------------------------
(* What a run has found and called *)

FoundRight(r) ==
    /\ found[r] \subseteq Calls
    /\ at[r] = "asked" => found[r] = IF said[r] = {} THEN LeftOf(asked[r]) ELSE {}
    /\ at[r] \in {"written", "running", "joining", "sampled"} \/ Green(r) =>
            found[r] = LeftOf(asked[r])
    /\ binary[r].by = r => Called(r) \subseteq binary[r].calls

CallInv == SuiteInv /\ \A r \in Runs : FoundRight(r)

LEMMA OthersFound ==
    ASSUME NEW r \in Runs, NEW s \in Runs, s # r, FoundRight(s), Elsewhere(r)
    PROVE  FoundRight(s)'
<1>1. /\ at'[s] = at[s] /\ asked'[s] = asked[s] /\ found'[s] = found[s]
      /\ binary'[s] = binary[s] /\ seen'[s] = seen[s] /\ said'[s] = said[s]
    BY DEF Elsewhere
<1>2. Called(s)' = Called(s) /\ Green(s)' = Green(s)
    BY <1>1 DEF Called, Green
<1> QED BY <1>1, <1>2 DEF FoundRight

LEMMA CallsBegin == Init => CallInv
<1> SUFFICES ASSUME Init, NEW r \in Runs PROVE FoundRight(r)
    BY SuiteBegins DEF CallInv
<1>1. /\ at[r] = "idle" /\ found[r] = {} /\ binary[r].by = "nobody"
    BY DEF Init, NoMain
<1> QED BY <1>1, NobodyRuns DEF FoundRight, Green

LEMMA CallsStep == CallInv /\ [Next]_vars => CallInv'
<1> SUFFICES ASSUME CallInv, [Next]_vars PROVE \A r \in Runs : FoundRight(r)'
    BY SuiteStep DEF CallInv
<1>1. SuiteInv /\ Domains /\ \A r \in Runs : FoundRight(r) /\ RunInv(r)
    BY DEF CallInv, SuiteInv
<1>2. ASSUME NEW r \in Runs, Elsewhere(r), FoundRight(r)' PROVE \A s \in Runs : FoundRight(s)'
    BY <1>1, <1>2, OthersFound
<1>3. ASSUME NEW r \in Runs, Begin(r) \/ Tool(r) \/ Child(r) \/ Drain(r)
      PROVE  \A s \in Runs : FoundRight(s)'
    <2>0. FoundRight(r) /\ RunInv(r)
        BY <1>1
    <2>1. CASE Begin(r)
        <3>1. PICK ask \in Asks :
                /\ at[r] = "idle" /\ at' = [at EXCEPT ![r] = "asked"]
                /\ asked' = [asked EXCEPT ![r] = ask]
                /\ said' = [said EXCEPT ![r] = RefusalsOf(ask)]
                /\ found' = [found EXCEPT ![r] = IF RefusalsOf(ask) = {} THEN LeftOf(ask) ELSE {}]
            BY <2>1, Zenon DEF Begin, Step
        <3>2. /\ at'[r] = "asked" /\ asked'[r] = ask /\ said'[r] = RefusalsOf(ask)
              /\ found'[r] = IF said'[r] = {} THEN LeftOf(asked'[r]) ELSE {}
            BY <1>1, <3>1 DEF Domains
        <3>3. binary'[r].by # r
            BY <2>0, <2>1, <3>1, NobodyRuns DEF RunInv, NotStarted, NoMain, Begin
        <3>4. FoundRight(r)'
            BY <3>2, <3>3, LeftAreCalls DEF FoundRight, Green
        <3> QED BY <1>1, <1>2, <2>1, <3>4, BeginStep
    <2>2. CASE Refuse(r) \/ NothingLeft(r) \/ NoCompiler(r) \/ NotIgnored(r) \/ NotBuilt(r)
        <3>1. /\ UNCHANGED <<asked, found, binary, seen>>
              /\ at' = [at EXCEPT ![r] = "done"]
              /\ \/ at[r] = "asked" /\ said[r] = {}
                 \/ \E problems : problems # {} /\ said' = [said EXCEPT ![r] = problems]
            BY <2>2 DEF Refuse, NothingLeft, NoCompiler, NotIgnored, NotBuilt, Report, Step, childVars
        <3>2. at'[r] = "done" /\ (Green(r)' => at[r] = "asked" /\ said[r] = {})
            BY <1>1, <3>1 DEF Domains, Green
        <3>3. FoundRight(r)'
            BY <2>0, <3>1, <3>2 DEF FoundRight, Called
        <3> QED BY <1>1, <1>2, <2>2, <3>3, EndsEarly
    <2>3. CASE WriteMain(r)
        <3>1. /\ UNCHANGED <<asked, found, binary, seen, said>>
              /\ at[r] = "asked" /\ found[r] # {} /\ at'[r] = "written"
            BY <1>1, <2>3 DEF WriteMain, Step, childVars, Domains
        <3>2. FoundRight(r)'
            BY <2>0, <3>1 DEF FoundRight, Called, Green
        <3> QED BY <1>1, <1>2, <2>3, <3>2, WriteMainStep
    <2>4. CASE Build(r)
        <3>1. /\ UNCHANGED <<asked, found, seen, said>>
              /\ at[r] = "written" /\ at'[r] = "running"
            BY <1>1, <2>4 DEF Build, Step, Domains
        <3>2. Called(r)' = {}
            BY <2>0, <3>1 DEF RunInv, NotStarted, Called
        <3>3. FoundRight(r)'
            BY <2>0, <3>1, <3>2 DEF FoundRight, Green
        <3> QED BY <1>1, <1>2, <2>4, <3>3, BuildStep
    <2>5. CASE Waited(r) \/ Timeout(r)
        <3>1. /\ UNCHANGED <<asked, found, binary, seen, said>>
              /\ at[r] = "running" /\ at'[r] \in {"joining", "sampled"}
            BY <1>1, <2>5 DEF Waited, Timeout, Step, childVars, Domains
        <3>2. FoundRight(r)'
            BY <2>0, <3>1 DEF FoundRight, Called, Green
        <3> QED BY <1>1, <1>2, <2>5, <3>2, WaitStep
    <2>6. CASE Joined(r) \/ JoinTimeout(r) \/ Kill(r)
        <3>1. /\ UNCHANGED <<asked, found, binary, seen>>
              /\ at[r] \in {"joining", "sampled"} /\ at'[r] = "done"
            BY <1>1, <2>6 DEF Joined, JoinTimeout, Judge, Kill, Report, Step, childVars, Domains
        <3>2. FoundRight(r)'
            BY <2>0, <3>1 DEF FoundRight, Called
        <3> QED BY <1>1, <1>2, <2>6, <3>2, JudgeStep, KillStep
    <2>7. CASE CallTest(r)
        <3>1. PICK does : seen' = [seen EXCEPT ![r] = @ \cup {<<NextCall(r), does>>}]
            BY <2>7 DEF CallTest
        <3>2. /\ UNCHANGED <<at, asked, found, binary, said>> /\ ToCall(r) # {}
            BY <2>7 DEF CallTest
        <3>3. Called(r)' = Called(r) \cup {NextCall(r)}
            <4> DEFINE new == <<NextCall(r), does>>
            <4>1. seen'[r] = seen[r] \cup {new}
                BY <1>1, <3>1 DEF Domains
            <4>2. new[1] = NextCall(r)
                OBVIOUS
            <4> HIDE DEF new
            <4>3. {call[1] : call \in seen[r] \cup {new}} = {call[1] : call \in seen[r]} \cup {new[1]}
                OBVIOUS
            <4> QED BY <4>1, <4>2, <4>3 DEF Called
        <3>4. ASSUME binary[r].by = r PROVE NextCall(r) \in binary[r].calls
            <4>1. binary[r].calls = found[r] /\ found[r] \subseteq Calls
                BY <2>0, <3>4 DEF RunInv, MainRight, FoundRight
            <4>2. ToCall(r) \subseteq binary[r].calls
                BY DEF ToCall
            <4> QED BY <3>2, <4>1, <4>2, NextIsToCall
        <3>5. FoundRight(r)'
            BY <2>0, <3>2, <3>3, <3>4 DEF FoundRight, Green
        <3> QED BY <1>1, <1>2, <2>7, <3>5, CallTestStep
    <2>8. CASE Exit(r) \/ Unavailable(r) \/ Drain(r)
        <3>1. UNCHANGED <<at, asked, found, binary, seen, said>>
            BY <2>8 DEF Exit, Unavailable, Drain
        <3>2. FoundRight(r)'
            BY <2>0, <3>1 DEF FoundRight, Called, Green
        <3> QED BY <1>1, <1>2, <2>8, <3>2, ChildEndsStep, DrainStep
    <2> QED BY <1>3, <2>1, <2>2, <2>3, <2>4, <2>5, <2>6, <2>7, <2>8 DEF Tool, Child
<1>4. CASE UNCHANGED vars
    BY <1>1, <1>4 DEF vars, childVars, FoundRight, Called, Green
<1> QED BY <1>3, <1>4 DEF Next

LEMMA CallsAlways == Spec => []CallInv
<1> QED BY CallsBegin, CallsStep, PTL DEF Spec

\* A green run that built what it wrote called nothing but what is left of its
\* command line, and all of that unless a call ended the process.
LEMMA GreenCalls ==
    ASSUME CallInv, NEW r \in Runs, Green(r), Undisturbed(r)
    PROVE  /\ Called(r) \subseteq LeftOf(asked[r])
           /\ ~Quit(r) => LeftOf(asked[r]) \subseteq Called(r)
           /\ NothingWentWrong(r)
<1>1. RunInv(r) /\ FoundRight(r)
    BY DEF CallInv, SuiteInv
<1>2. found[r] = LeftOf(asked[r])
    BY <1>1 DEF FoundRight
<1>3. CASE seen[r] = {} /\ found[r] = {}
    BY <1>2, <1>3 DEF Called, NothingWentWrong, Did
<1>4. CASE child[r] = "exited" /\ code[r] = 0 /\ "RACE_FOUND" \notin Lines(r)
           /\ binary[r].by \in Runs
    <2>1. binary[r].by = r
        BY <1>4, NobodyRuns DEF Undisturbed
    <2>2. binary[r].calls = found[r] /\ Called(r) \subseteq binary[r].calls
        BY <1>1, <2>1 DEF RunInv, MainRight, FoundRight
    <2>3. ~Quit(r) => binary[r].calls \subseteq Called(r)
        BY <1>1, <1>4 DEF RunInv, ChildRight, ToCall
    <2>4. NothingWentWrong(r)
        BY <1>1, <1>4 DEF RunInv, ChildRight, NothingWentWrong
    <2> QED BY <1>2, <2>2, <2>3, <2>4
<1> QED BY <1>1, <1>3, <1>4 DEF RunInv, DoneRight

\* ... and what it ran is what it owes, in the files of its shard.
LEMMA GreenRan ==
    ASSUME CallInv, NEW r \in Runs, Green(r), Undisturbed(r)
    PROVE  LET part == {owed \in Owed(asked[r]) : InPart(owed[1], asked[r])}
           IN  Ran(r) \subseteq part /\ (~Quit(r) => Ran(r) = part)
<1> DEFINE ask == asked[r]
<1>1. /\ Ran(r) \subseteq {<<c.file, c.line>> : c \in LeftOf(ask)}
      /\ ~Quit(r) => Ran(r) = {<<c.file, c.line>> : c \in LeftOf(ask)}
    BY GreenCalls DEF Ran
<1>2. \A c \in LeftOf(ask) : c = [file |-> c.file, line |-> c.line]
    BY LeftAreCalls DEF Calls
<1>3. \A owed \in Owed(ask) : owed = <<owed[1], owed[2]>>
    BY DEF Owed
<1>4. ASSUME NEW c \in LeftOf(ask)
      PROVE  <<c.file, c.line>> \in {owed \in Owed(ask) : InPart(owed[1], ask)}
    <2>1. <<c.file, c.line>> \in Owed(ask) /\ InPart(c.file, ask)
        BY <1>2, LeftIsOwed
    <2> QED BY <2>1
<1>5. ASSUME NEW owed \in Owed(ask), InPart(owed[1], ask)
      PROVE  \E c \in LeftOf(ask) : owed = <<c.file, c.line>>
    <2> DEFINE c == [file |-> owed[1], line |-> owed[2]]
    <2>1. c \in LeftOf(ask)
        BY <1>3, <1>5, LeftIsOwed
    <2>2. owed = <<c.file, c.line>>
        BY <1>3
    <2> QED BY <2>1, <2>2
<1> HIDE DEF ask
<1>6. {<<c.file, c.line>> : c \in LeftOf(ask)} = {owed \in Owed(ask) : InPart(owed[1], ask)}
    BY <1>4, <1>5
<1> QED BY <1>1, <1>6 DEF ask

\* Whatever the runs, the files and what the tests do: a green run that built
\* what it wrote ran nothing but tests it owes, none of which hung, crashed or,
\* under the sanitiser, raced; and unless one of them ended the process with
\* the code zero, none failed, and all that it owes ran if it is not a shard
\* (suite, build_and_run and scan of tools/mojotest/run.py).
THEOREM GreenRunsAreGood == Spec => []GreenMeansGood
<1>1. CallInv => GreenMeansGood
    <2> SUFFICES ASSUME CallInv, NEW r \in Runs, Green(r), Undisturbed(r)
                 PROVE  /\ Ran(r) \subseteq Owed(asked[r])
                        /\ NothingWentWrong(r)
                        /\ ~Quit(r) /\ asked[r].part = Whole => Ran(r) = Owed(asked[r])
        BY DEF GreenMeansGood
    <2>1. asked[r].part = Whole => \A n : InPart(n, asked[r])
        BY DEF InPart
    <2> QED BY <2>1, GreenRan, GreenCalls
<1> QED BY <1>1, CallsAlways, PTL

-----------------------------------------------------------------------------
(* What the shards of a split ran together *)

LEMMA FilesAreFinite ==
    ASSUME NEW ask
    PROVE  /\ Looked(ask) \in SUBSET Nat /\ IsFiniteSet(Looked(ask))
           /\ \A owed \in Owed(ask) : owed[1] \in Looked(ask)
<1>1. DOMAIN Files = 1 .. Len(Files) /\ Len(Files) \in Nat
    BY FilesAreLines
<1>2. Looked(ask) \subseteq DOMAIN Files
    <2> SUFFICES ASSUME NEW c \in Found(ask) PROVE c.file \in DOMAIN Files
        BY DEF Looked, FilesOf
    <2> QED BY DiscoveredIsThere DEF FilesUnder
<1>3. IsFiniteSet(1 .. Len(Files))
    BY <1>1, FS_Interval
<1>4. IsFiniteSet(Looked(ask))
    BY <1>1, <1>2, <1>3, FS_Subset
<1>5. ASSUME NEW owed \in Owed(ask) PROVE owed[1] \in Looked(ask)
    <2>1. /\ owed[1] \in FilesUnder(ask.where, ask.only) /\ owed[2] \in DOMAIN LinesOf(owed[1])
          /\ LinesOf(owed[1])[owed[2]].is = "test"
        BY DEF Owed, LinesOf
    <2>2. PICK c \in Found(ask) : c.file = owed[1] /\ c.line = owed[2]
        BY <2>1, TestIsDiscovered
    <2> QED BY <2>2 DEF Looked, FilesOf
<1> QED BY <1>1, <1>2, <1>4, <1>5

LEMMA PlaceIsOne ==
    ASSUME NEW files \in SUBSET Nat, IsFiniteSet(files), NEW file \in files
    PROVE  Cardinality(files) \in Nat /\ Place(file, files) \in 1 .. Cardinality(files)
<1> DEFINE below == {other \in files : other <= file}
<1>1. file \in below /\ below \in SUBSET files
    OBVIOUS
<1> HIDE DEF below
<1>2. IsFiniteSet(below) /\ Cardinality(below) <= Cardinality(files)
    BY <1>1, FS_Subset
<1>3. Cardinality(files) \in Nat /\ Cardinality(below) \in Nat
    BY <1>2, FS_CardinalityType
<1>4. Cardinality(below) # 0
    BY <1>1, <1>2, FS_EmptySet
<1>5. Place(file, files) = Cardinality(below)
    BY DEF Place, below
<1> QED BY <1>2, <1>3, <1>4, <1>5

\* Of the shards of a split, exactly one is dealt a file.
LEMMA OnePart ==
    ASSUME NEW ask, NEW n \in Nat \ {0}, NEW owed \in Owed(ask)
    PROVE  \E k \in 1 .. n :
                LET dealt(j) == Place(owed[1], Looked(ask)) \in Dealt(Cardinality(Looked(ask)), j, n)
                IN  dealt(k) /\ \A j \in 1 .. n : dealt(j) => j = k
<1> DEFINE count == Cardinality(Looked(ask))
           place == Place(owed[1], Looked(ask))
<1>1. count \in Nat /\ place \in 1 .. count
    BY FilesAreFinite, PlaceIsOne
<1> HIDE DEF count, place
<1>2. \E k \in 1 .. n : /\ place \in Dealt(count, k, n)
                        /\ \A j \in 1 .. n : place \in Dealt(count, j, n) => j = k
    BY <1>1, ShardsPartition
<1> QED BY <1>2, Zenon DEF count, place

LEMMA AlikeOwe ==
    ASSUME NEW r, NEW s, Alike(r, s)
    PROVE  Owed(asked[r]) = Owed(asked[s]) /\ Looked(asked[r]) = Looked(asked[s])
<1>1. /\ asked[r].where = asked[s].where /\ asked[r].only = asked[s].only
      /\ asked[r].short = asked[s].short /\ asked[r].race = asked[s].race
    BY DEF Alike
<1>2. Looked(asked[r]) = Looked(asked[s])
    BY <1>1 DEF Looked, Found
<1>3. \A n, l : Excused(n, l, asked[r]) <=> Excused(n, l, asked[s])
    BY <1>1 DEF Excused
<1>4. Owed(asked[r]) = Owed(asked[s])
    BY <1>1, <1>3 DEF Owed
<1> QED BY <1>2, <1>4

\* However many shards a run is split into and whatever the files: when all of
\* them are green and built what they wrote, no two of them ran the same test,
\* and unless a test ended its process with the code zero, they ran together
\* what the whole run owes (share of tools/mojotest/run.py).
THEOREM ShardsAlwaysAddUp == Spec => []ShardsAddUp
<1>1. CallInv => ShardsAddUp
    <2> SUFFICES ASSUME CallInv, NEW shards \in SUBSET {r \in Runs : Green(r) /\ Undisturbed(r)},
                        NEW n \in 1 .. Cardinality(shards),
                        \A r, s \in shards : Alike(r, s),
                        {asked[r].part : r \in shards} = {<<k, n>> : k \in 1 .. n}
                 PROVE  /\ \A r, s \in shards :
                                asked[r].part # asked[s].part => Ran(r) \cap Ran(s) = {}
                        /\ (\A r \in shards : ~Quit(r)) =>
                                UNION {Ran(r) : r \in shards} = UNION {Owed(asked[r]) : r \in shards}
        BY DEF ShardsAddUp
    <2>1. n \in Nat \ {0}
        <3>1. IsFiniteSet(shards)
            BY RunsAreFinite, FS_Subset
        <3> QED BY <3>1, FS_CardinalityType
    <2>2. ASSUME NEW r \in shards
          PROVE  /\ Ran(r) \subseteq {owed \in Owed(asked[r]) : InPart(owed[1], asked[r])}
                 /\ ~Quit(r) => Ran(r) = {owed \in Owed(asked[r]) : InPart(owed[1], asked[r])}
        BY GreenRan
    <2>3. ASSUME NEW r \in shards
          PROVE  \E k \in 1 .. n : asked[r].part = <<k, n>>
        OBVIOUS
    <2>4. ASSUME NEW r \in shards, NEW k \in 1 .. n, asked[r].part = <<k, n>>, NEW owed \in Owed(asked[r])
          PROVE  LET dealt == Place(owed[1], Looked(asked[r]))
                                    \in Dealt(Cardinality(Looked(asked[r])), k, n)
                 IN  (owed \in Ran(r) => dealt) /\ (~Quit(r) /\ dealt => owed \in Ran(r))
        <3>1. /\ owed \in Ran(r) => InPart(owed[1], asked[r])
              /\ ~Quit(r) /\ InPart(owed[1], asked[r]) => owed \in Ran(r)
            BY <2>2
        <3>2. CASE n = 1
            <4>1. asked[r].part = Whole /\ k = 1
                BY <2>4, <3>2 DEF Whole
            <4>2. Place(owed[1], Looked(asked[r])) \in Dealt(Cardinality(Looked(asked[r])), k, n)
                <5> DEFINE dealt(j) == Place(owed[1], Looked(asked[r]))
                                            \in Dealt(Cardinality(Looked(asked[r])), j, n)
                <5>1. \E j \in 1 .. n : dealt(j)
                    BY <2>1, OnePart
                <5>2. \A j \in 1 .. n : j = k
                    BY <3>2, <4>1
                <5> HIDE DEF dealt
                <5>3. dealt(k)
                    BY <5>1, <5>2
                <5> QED BY <5>3 DEF dealt
            <4> QED BY <3>1, <4>1, <4>2 DEF InPart
        <3>3. CASE n # 1
            <4>1. asked[r].part # Whole /\ asked[r].part[1] = k /\ asked[r].part[2] = n
                BY <2>4, <3>3 DEF Whole
            <4> QED BY <3>1, <4>1 DEF InPart
        <3> QED BY <3>2, <3>3
    <2>5. ASSUME \A r \in shards : ~Quit(r), NEW s \in shards, NEW owed \in Owed(asked[s])
          PROVE  \E r \in shards : owed \in Ran(r)
        <3> DEFINE dealt(j) == Place(owed[1], Looked(asked[s]))
                                    \in Dealt(Cardinality(Looked(asked[s])), j, n)
        <3>1. PICK k \in 1 .. n : dealt(k)
            BY <2>1, OnePart
        <3>2. <<k, n>> \in {asked[r].part : r \in shards}
            OBVIOUS
        <3>3. PICK r \in shards : asked[r].part = <<k, n>>
            BY <3>2
        <3>4. Owed(asked[r]) = Owed(asked[s]) /\ Looked(asked[r]) = Looked(asked[s])
            BY AlikeOwe
        <3>5. owed \in Ran(r)
            BY <2>4, <2>5, <3>1, <3>3, <3>4
        <3> QED BY <3>5
    <2>6. ASSUME NEW r \in shards, NEW s \in shards, asked[r].part # asked[s].part,
                 NEW owed \in Ran(r), owed \in Ran(s)
          PROVE  FALSE
        <3>1. PICK i \in 1 .. n : asked[r].part = <<i, n>>
            BY <2>3
        <3>2. PICK j \in 1 .. n : asked[s].part = <<j, n>>
            BY <2>3
        <3>3. Owed(asked[r]) = Owed(asked[s]) /\ Looked(asked[r]) = Looked(asked[s])
            BY AlikeOwe
        <3>4. owed \in Owed(asked[r])
            BY <2>2, <2>6
        <3> DEFINE dealt(k) == Place(owed[1], Looked(asked[r]))
                                    \in Dealt(Cardinality(Looked(asked[r])), k, n)
        <3>5. dealt(i)
            BY <2>4, <3>1, <3>4
        <3>6. dealt(j)
            BY <2>4, <2>6, <3>2, <3>3, <3>4
        <3>7. \E k \in 1 .. n : dealt(k) /\ \A m \in 1 .. n : dealt(m) => m = k
            BY <2>1, <3>4, OnePart
        <3> HIDE DEF dealt
        <3>8. i = j
            BY <3>5, <3>6, <3>7
        <3> QED BY <2>6, <3>1, <3>2, <3>8
    <2>7. \A r \in shards : Ran(r) \subseteq Owed(asked[r])
        BY <2>2
    <2> QED BY <2>5, <2>6, <2>7
<1> QED BY <1>1, CallsAlways, PTL

-----------------------------------------------------------------------------
(* The scan of a source *)

\* f is the scan after each line up to the n-th, or the brackets open there.
ReadsTo(lines, struct, n, f) ==
    f = [l \in 0 .. n |-> IF l = 0 THEN ScanStart ELSE ScanLine(struct, f[l - 1], lines[l])]

OpensTo(lines, n, f) ==
    f = [l \in 0 .. n |-> IF l = 0 THEN 0 ELSE Opened(f[l - 1], lines[l])]

\* What the scan may know of some lines.
ScansFor(Entries) ==
    [header : BOOLEAN, opens : Int, inside : BOOLEAN, pending : Int, found : Entries]
Scans(lines) == ScansFor(Seq({Entry(lines[i]) : i \in 1 .. Len(lines)}))

OwnTo(lines, struct, k) == {i \in OwnFields(lines, struct) : i <= k}

\* What the scan knows after the k-th line, against the source.
ReadTo(lines, struct, k, open, read) ==
    LET own == OwnTo(lines, struct, k)
    IN  /\ read \in Scans(lines)
        /\ read.header <=> k > 0 /\ lines[k].is \in {"struct", "header"} /\ open[k] > 0
        /\ read.header => read.opens = open[k]
        /\ read.inside <=> k \in BodyLines(lines, struct)
        /\ read.inside =>
            read.pending = IF lines[k].is \in {"field", "local", "more"} THEN open[k] ELSE 0
        /\ \A i \in own : \E j \in DOMAIN read.found : read.found[j] = Entry(lines[i])
        /\ NoLocals(lines, struct) => AreEntriesOf(read.found, lines, own)

LEMMA ReadsEvery ==
    ASSUME NEW lines, NEW struct, NEW n \in Nat
    PROVE  \E f : ReadsTo(lines, struct, n, f)
<1> DEFINE S == {k \in Nat : \E f : ReadsTo(lines, struct, k, f)}
<1>1. 0 \in S
    <2> DEFINE f == [l \in 0 .. 0 |-> ScanStart]
    <2>1. f = [l \in 0 .. 0 |-> IF l = 0 THEN ScanStart ELSE ScanLine(struct, f[l - 1], lines[l])]
        OBVIOUS
    <2>2. ReadsTo(lines, struct, 0, f)
        BY <2>1 DEF ReadsTo
    <2> QED BY <2>2
<1>2. ASSUME NEW k \in 0 .. n - 1, k \in S PROVE k + 1 \in S
    <2>1. PICK f : ReadsTo(lines, struct, k, f)
        BY <1>2
    <2> DEFINE g == [l \in 0 .. k + 1 |-> IF l = k + 1 THEN ScanLine(struct, f[k], lines[k + 1]) ELSE f[l]]
    <2>2. ASSUME NEW l \in 0 .. k + 1
          PROVE  g[l] = IF l = 0 THEN ScanStart ELSE ScanLine(struct, g[l - 1], lines[l])
        <3>1. CASE l = k + 1
            <4>1. l - 1 = k /\ k \in 0 .. k + 1 /\ k # k + 1 /\ l # 0
                BY <3>1
            <4>2. g[k] = f[k] /\ g[l] = ScanLine(struct, f[k], lines[k + 1])
                BY <3>1, <4>1
            <4> HIDE DEF g
            <4> QED BY <3>1, <4>1, <4>2
        <3>2. CASE l # k + 1 /\ l # 0
            <4>1. l \in 0 .. k /\ l - 1 \in 0 .. k + 1 /\ l - 1 # k + 1
                BY <3>2
            <4>2. g[l - 1] = f[l - 1] /\ g[l] = f[l]
                BY <3>2, <4>1
            <4>3. f[l] = ScanLine(struct, f[l - 1], lines[l])
                BY <2>1, <3>2, <4>1, Zenon DEF ReadsTo
            <4> HIDE DEF g
            <4> QED BY <3>2, <4>2, <4>3
        <3>3. CASE l = 0
            <4>1. 0 \in 0 .. k /\ 0 # k + 1
                OBVIOUS
            <4>2. f[0] = ScanStart
                BY <2>1, <4>1, Zenon DEF ReadsTo
            <4>3. g[0] = f[0]
                BY <4>1
            <4> HIDE DEF g
            <4> QED BY <3>3, <4>2, <4>3
        <3> QED BY <3>1, <3>2, <3>3
    <2>3. g = [l \in 0 .. k + 1 |-> g[l]]
        OBVIOUS
    <2> HIDE DEF g
    <2>4. g = [l \in 0 .. k + 1 |-> IF l = 0 THEN ScanStart ELSE ScanLine(struct, g[l - 1], lines[l])]
        BY <2>2, <2>3, Zenon
    <2>5. ReadsTo(lines, struct, k + 1, g)
        BY <2>4, Zenon DEF ReadsTo
    <2> QED BY <2>5
<1>3. n \in 0 .. n /\ S \in SUBSET Nat
    OBVIOUS
<1>4. 0 .. n \subseteq S
    <2> HIDE DEF S
    <2> QED BY <1>1, <1>2, <1>3, UpTo
<1> QED BY <1>3, <1>4

LEMMA OpensEvery ==
    ASSUME NEW lines, NEW n \in Nat
    PROVE  \E f : OpensTo(lines, n, f)
<1> DEFINE S == {k \in Nat : \E f : OpensTo(lines, k, f)}
<1>1. 0 \in S
    <2> DEFINE f == [l \in 0 .. 0 |-> 0]
    <2>1. f = [l \in 0 .. 0 |-> IF l = 0 THEN 0 ELSE Opened(f[l - 1], lines[l])]
        OBVIOUS
    <2>2. OpensTo(lines, 0, f)
        BY <2>1 DEF OpensTo
    <2> QED BY <2>2
<1>2. ASSUME NEW k \in 0 .. n - 1, k \in S PROVE k + 1 \in S
    <2>1. PICK f : OpensTo(lines, k, f)
        BY <1>2
    <2> DEFINE g == [l \in 0 .. k + 1 |-> IF l = k + 1 THEN Opened(f[k], lines[k + 1]) ELSE f[l]]
    <2>2. ASSUME NEW l \in 0 .. k + 1
          PROVE  g[l] = IF l = 0 THEN 0 ELSE Opened(g[l - 1], lines[l])
        <3>1. CASE l = k + 1
            <4>1. l - 1 = k /\ k \in 0 .. k + 1 /\ k # k + 1 /\ l # 0
                BY <3>1
            <4>2. g[k] = f[k] /\ g[l] = Opened(f[k], lines[k + 1])
                BY <3>1, <4>1
            <4> HIDE DEF g
            <4> QED BY <3>1, <4>1, <4>2
        <3>2. CASE l # k + 1 /\ l # 0
            <4>1. l \in 0 .. k /\ l - 1 \in 0 .. k + 1 /\ l - 1 # k + 1
                BY <3>2
            <4>2. g[l - 1] = f[l - 1] /\ g[l] = f[l]
                BY <3>2, <4>1
            <4>3. f[l] = Opened(f[l - 1], lines[l])
                BY <2>1, <3>2, <4>1, Zenon DEF OpensTo
            <4> HIDE DEF g
            <4> QED BY <3>2, <4>2, <4>3
        <3>3. CASE l = 0
            <4>1. 0 \in 0 .. k /\ 0 # k + 1
                OBVIOUS
            <4>2. f[0] = 0
                BY <2>1, <4>1, Zenon DEF OpensTo
            <4>3. g[0] = f[0]
                BY <4>1
            <4> HIDE DEF g
            <4> QED BY <3>3, <4>2, <4>3
        <3> QED BY <3>1, <3>2, <3>3
    <2>3. g = [l \in 0 .. k + 1 |-> g[l]]
        OBVIOUS
    <2> HIDE DEF g
    <2>4. g = [l \in 0 .. k + 1 |-> IF l = 0 THEN 0 ELSE Opened(g[l - 1], lines[l])]
        BY <2>2, <2>3, Zenon
    <2>5. OpensTo(lines, k + 1, g)
        BY <2>4, Zenon DEF OpensTo
    <2> QED BY <2>5
<1>3. n \in 0 .. n /\ S \in SUBSET Nat
    OBVIOUS
<1>4. 0 .. n \subseteq S
    <2> HIDE DEF S
    <2> QED BY <1>1, <1>2, <1>3, UpTo
<1> QED BY <1>3, <1>4

\* Where the body of a struct goes on.
LEMMA BodyGoesOn ==
    ASSUME NEW lines, Len(lines) \in Nat, IsSource(lines), NEW struct, DeclaredIn(lines, struct),
           NEW k \in 0 .. Len(lines) - 1
    PROVE  LET line == lines[k + 1]
               body == BodyLines(lines, struct)
           IN  /\ line.is = "struct" => (k + 1 \in body <=> line.name = struct)
               /\ line.is = "top" => k + 1 \notin body
               /\ line.is \notin {"struct", "top"} => (k + 1 \in body <=> k \in body)
<1> DEFINE first == CHOOSE i \in 1 .. Len(lines) : Declares(lines[i]) /\ lines[i].name = struct
           body == BodyLines(lines, struct)
<1>1. first \in 1 .. Len(lines) /\ Declares(lines[first]) /\ lines[first].name = struct
    BY Zenon DEF DeclaredIn
<1>2. body = {i \in first .. Len(lines) : \A l \in first + 1 .. i : lines[l].is \notin {"struct", "top"}}
    BY Zenon DEF BodyLines
<1>3. k + 1 \in 1 .. Len(lines) /\ k \in Nat
    OBVIOUS
<1>4. ASSUME Declares(lines[k + 1]), lines[k + 1].name = struct PROVE k + 1 = first
    BY <1>1, <1>3, <1>4, Zenon DEF IsSource
<1> HIDE DEF first, body
<1>5. first \in Nat /\ first + 1 .. first = {} /\ first \in first .. Len(lines)
    BY <1>1
<1>6. first \in body
    BY <1>2, <1>5
<1>7. CASE lines[k + 1].is = "struct"
    <2>1. ASSUME k + 1 \in body PROVE k + 1 = first
        <3>1. k + 1 \in first .. Len(lines) /\ \A l \in first + 1 .. k + 1 : lines[l].is # "struct"
            BY <1>2, <2>1
        <3>2. k + 1 \notin first + 1 .. k + 1
            BY <1>7, <3>1
        <3> QED BY <1>3, <1>5, <3>1, <3>2
    <2> QED BY <1>1, <1>4, <1>6, <1>7, <2>1 DEF body, Declares
<1>8. CASE lines[k + 1].is = "top"
    <2>1. k + 1 # first
        BY <1>1, <1>8 DEF Declares
    <2>2. ASSUME k + 1 \in body PROVE FALSE
        <3>1. k + 1 \in first .. Len(lines) /\ \A l \in first + 1 .. k + 1 : lines[l].is # "top"
            BY <1>2, <2>2
        <3>2. k + 1 \in first + 1 .. k + 1
            BY <1>3, <1>5, <2>1, <3>1
        <3> QED BY <1>8, <3>1, <3>2
    <2> QED BY <1>8, <2>2 DEF body
<1>9. CASE lines[k + 1].is \notin {"struct", "top"}
    <2>1. k + 1 # first
        BY <1>1, <1>9 DEF Declares
    <2>2. ASSUME k + 1 \in body PROVE k \in body
        <3>1. k + 1 \in first .. Len(lines) /\ \A l \in first + 1 .. k + 1 : lines[l].is \notin {"struct", "top"}
            BY <1>2, <2>2
        <3>2. k \in first .. Len(lines) /\ \A l \in first + 1 .. k : l \in first + 1 .. k + 1
            BY <1>3, <1>5, <2>1, <3>1
        <3> QED BY <1>2, <3>1, <3>2
    <2>3. ASSUME k \in body PROVE k + 1 \in body
        <3>1. k \in first .. Len(lines) /\ \A l \in first + 1 .. k : lines[l].is \notin {"struct", "top"}
            BY <1>2, <2>3
        <3>2. k + 1 \in first .. Len(lines) /\ \A l \in first + 1 .. k + 1 : l \in first + 1 .. k \/ l = k + 1
            BY <1>3, <1>5, <3>1
        <3> QED BY <1>2, <1>9, <3>1, <3>2
    <2> QED BY <1>9, <2>2, <2>3 DEF body
<1> QED BY <1>7, <1>8, <1>9 DEF body

\* What is appended for one more line is its entry.
LEMMA EntryAppended ==
    ASSUME NEW lines, NEW S \in SUBSET Nat, IsFiniteSet(S), NEW n \in Nat, \A i \in S : i < n,
           NEW E, NEW taken \in Seq(E), AreEntriesOf(taken, lines, S), Entry(lines[n]) \in E
    PROVE  AreEntriesOf(Append(taken, Entry(lines[n])), lines, S \cup {n})
<1> DEFINE new == Append(taken, Entry(lines[n]))
           UpToIn(T, i) == {j \in T : j <= i}
<1>1. n \notin S
    BY SMT
<1>2. Cardinality(S \cup {n}) = Cardinality(S) + 1 /\ IsFiniteSet(S \cup {n}) /\ Cardinality(S) \in Nat
    BY <1>1, FS_AddElement, FS_CardinalityType, Zenon
<1>3. Len(new) = Len(taken) + 1 /\ new[Len(taken) + 1] = Entry(lines[n])
      /\ \A j \in 1 .. Len(taken) : new[j] = taken[j]
    OBVIOUS
<1>4. Len(taken) = Cardinality(S)
    BY DEF AreEntriesOf
<1>5. UpToIn(S \cup {n}, n) = S \cup {n}
    <2>1. \A j \in S \cup {n} : j <= n
        BY SMT
    <2> QED BY <2>1, Zenon
<1>6. ASSUME NEW i \in S
      PROVE  /\ UpToIn(S \cup {n}, i) = UpToIn(S, i)
             /\ Cardinality(UpToIn(S, i)) \in 1 .. Len(taken)
    <2>1. UpToIn(S \cup {n}, i) = UpToIn(S, i)
        BY SMT
    <2>2. IsFiniteSet(UpToIn(S, i)) /\ Cardinality(UpToIn(S, i)) <= Cardinality(S)
        <3>1. UpToIn(S, i) \subseteq S
            OBVIOUS
        <3> QED BY <3>1, FS_Subset, Zenon
    <2>3. i \in UpToIn(S, i)
        BY SMT
    <2>4. Cardinality(UpToIn(S, i)) # 0
        BY <2>2, <2>3, FS_EmptySet
    <2>5. Cardinality(UpToIn(S, i)) \in Nat
        BY <2>2, FS_CardinalityType, Zenon
    <2> HIDE DEF UpToIn
    <2> QED BY <1>2, <1>4, <2>1, <2>2, <2>4, <2>5
<1> SUFFICES /\ Len(new) = Cardinality(S \cup {n})
             /\ \A i \in S \cup {n} : new[Cardinality(UpToIn(S \cup {n}, i))] = Entry(lines[i])
    BY Zenon DEF AreEntriesOf
<1>7. Len(new) = Cardinality(S \cup {n})
    BY <1>2, <1>3, <1>4
<1>8. new[Cardinality(UpToIn(S \cup {n}, n))] = Entry(lines[n])
    BY <1>2, <1>3, <1>4, <1>5
<1>9. ASSUME NEW i \in S PROVE new[Cardinality(UpToIn(S \cup {n}, i))] = Entry(lines[i])
    <2>1. taken[Cardinality(UpToIn(S, i))] = Entry(lines[i])
        BY Zenon DEF AreEntriesOf
    <2> HIDE DEF UpToIn, new
    <2> QED BY <1>3, <1>6, <2>1
<1> HIDE DEF UpToIn, new
<1> QED BY <1>7, <1>8, <1>9

\* What the compiler says of a line, and what a readable one does not have.
LEMMA SourceLine ==
    ASSUME NEW lines, Len(lines) \in Nat, IsSource(lines), Readable(lines), NEW k \in 0 .. Len(lines) - 1
    PROVE  LET open == OpenAfter(lines)
               line == lines[k + 1]
           IN  /\ line.is \in Kinds /\ line.is # "flush" /\ line.opens \in Int
               /\ open[k] \in Nat /\ open[k + 1] \in Nat
               /\ open[k + 1] = Opened(open[k], line)
               /\ line.is = "header" <=> k > 0 /\ lines[k].is \in {"struct", "header"} /\ open[k] > 0
               /\ line.is = "more" <=>
                    k > 0 /\ lines[k].is \in {"field", "local", "more"} /\ open[k] > 0
               /\ line.is \in {"struct", "header", "more"} => ~line.note
<1> DEFINE n == Len(lines)
           open == OpenAfter(lines)
<1>1. OpensTo(lines, n, open)
    <2> DEFINE f == CHOOSE f : OpensTo(lines, n, f)
    <2>1. OpensTo(lines, n, f)
        BY OpensEvery, Zenon
    <2>2. open = f
        BY Zenon DEF OpenAfter, OpensTo
    <2> QED BY <2>1, <2>2, Zenon
<1>2. k + 1 \in 1 .. n /\ (k + 1) - 1 = k /\ k + 1 \in 0 .. n /\ k + 1 # 0 /\ (k + 1 > 1 <=> k > 0)
    OBVIOUS
<1>3. open[k + 1] = Opened(open[k], lines[k + 1])
    BY <1>1, <1>2, Zenon DEF OpensTo
<1>4. lines[k + 1].is \in Kinds /\ lines[k + 1].opens \in Int /\ open[k + 1] \in Nat
    BY <1>2, Zenon DEF IsSource
<1>5. open[k] \in Nat
    <2>1. CASE k = 0
        <3>1. 0 \in 0 .. n
            OBVIOUS
        <3>2. open[0] = 0
            BY <1>1, <3>1, Zenon DEF OpensTo
        <3> QED BY <2>1, <3>2
    <2>2. CASE k # 0
        <3>1. k \in 1 .. n
            BY <2>2
        <3> QED BY <3>1, Zenon DEF IsSource
    <2> QED BY <2>1, <2>2
<1>6. /\ lines[k + 1].is = "header" <=> k > 0 /\ lines[k].is \in {"struct", "header"} /\ open[k] > 0
      /\ lines[k + 1].is = "more" <=>
            k > 0 /\ lines[k].is \in {"field", "local", "more"} /\ open[k] > 0
    <2>1. /\ lines[k + 1].is = "header" <=>
                k + 1 > 1 /\ lines[(k + 1) - 1].is \in {"struct", "header"} /\ open[(k + 1) - 1] > 0
          /\ lines[k + 1].is = "more" <=>
                k + 1 > 1 /\ lines[(k + 1) - 1].is \in {"field", "local", "more"} /\ open[(k + 1) - 1] > 0
        BY <1>2, Zenon DEF IsSource
    <2> HIDE DEF open, n
    <2> QED BY <1>2, <2>1
<1>7. lines[k + 1].is # "flush" /\ (lines[k + 1].is \in {"struct", "header", "more"} => ~lines[k + 1].note)
    BY <1>2, Zenon DEF Readable
<1> QED BY <1>3, <1>4, <1>5, <1>6, <1>7, Zenon

LEMMA OwnGoesOn ==
    ASSUME NEW lines, Len(lines) \in Nat, NEW struct, DeclaredIn(lines, struct), NEW k \in Nat
    PROVE  /\ OwnFields(lines, struct) \subseteq 1 .. Len(lines)
           /\ IsFiniteSet(OwnTo(lines, struct, k))
           /\ OwnTo(lines, struct, k) \in SUBSET Nat
           /\ \A i \in OwnTo(lines, struct, k) : i < k + 1
           /\ k + 1 \notin OwnFields(lines, struct) =>
                OwnTo(lines, struct, k + 1) = OwnTo(lines, struct, k)
           /\ k + 1 \in OwnFields(lines, struct) =>
                OwnTo(lines, struct, k + 1) = OwnTo(lines, struct, k) \cup {k + 1}
<1> DEFINE first == CHOOSE i \in 1 .. Len(lines) : Declares(lines[i]) /\ lines[i].name = struct
           own == OwnFields(lines, struct)
<1>1. first \in 1 .. Len(lines)
    BY Zenon DEF DeclaredIn
<1>2. own \subseteq first .. Len(lines)
    BY Zenon DEF OwnFields, BodyLines
<1> HIDE DEF first, own
<1>3. own \subseteq 1 .. Len(lines)
    BY <1>1, <1>2
<1>4. IsFiniteSet(1 .. Len(lines))
    BY FS_Interval
<1>5. OwnTo(lines, struct, k) = {i \in own : i <= k} /\ OwnTo(lines, struct, k + 1) = {i \in own : i <= k + 1}
    BY DEF OwnTo, own
<1>6. IsFiniteSet(OwnTo(lines, struct, k))
    <2>1. OwnTo(lines, struct, k) \subseteq 1 .. Len(lines)
        BY <1>3, <1>5
    <2> QED BY <1>4, <2>1, FS_Subset, Zenon
<1>7. \A i \in own : i \in Nat
    BY <1>3
<1>8. OwnTo(lines, struct, k) \in SUBSET Nat /\ \A i \in OwnTo(lines, struct, k) : i < k + 1
    BY <1>5, <1>7
<1>9. \A i \in own : i <= k + 1 <=> i <= k \/ i = k + 1
    BY <1>7
<1>10. k + 1 \notin own => OwnTo(lines, struct, k + 1) = OwnTo(lines, struct, k)
    <2>1. ASSUME k + 1 \notin own PROVE \A i \in own : i <= k + 1 <=> i <= k
        BY <1>7, <2>1
    <2> QED BY <1>5, <2>1, Zenon
<1>11. k + 1 \in own => OwnTo(lines, struct, k + 1) = OwnTo(lines, struct, k) \cup {k + 1}
    BY <1>5, <1>9, Zenon
<1> QED BY <1>3, <1>6, <1>8, <1>10, <1>11 DEF own

\* A line that is no field of the struct and of which nothing is taken.
LEMMA NothingTaken ==
    ASSUME NEW lines, Len(lines) \in Nat, NEW struct, DeclaredIn(lines, struct), NEW k \in Nat, NEW open,
           NEW read, ReadTo(lines, struct, k, open, read), NEW new \in Scans(lines), new.found = read.found,
           k + 1 \notin OwnFields(lines, struct),
           new.header <=> lines[k + 1].is \in {"struct", "header"} /\ open[k + 1] > 0,
           new.header => new.opens = open[k + 1],
           new.inside <=> k + 1 \in BodyLines(lines, struct),
           new.inside => new.pending = IF lines[k + 1].is \in {"field", "local", "more"} THEN open[k + 1]
                                       ELSE 0
    PROVE  ReadTo(lines, struct, k + 1, open, new)
<1>1. OwnTo(lines, struct, k + 1) = OwnTo(lines, struct, k)
    BY OwnGoesOn
<1>2. k + 1 > 0
    OBVIOUS
<1> QED BY <1>1, <1>2, Zenon DEF ReadTo

Outside(read) == [read EXCEPT !.inside = FALSE]

LEMMA OutsideSet ==
    ASSUME NEW F, NEW s \in ScansFor(F)
    PROVE  LET t == Outside(s)
           IN  t \in ScansFor(F) /\ t.found = s.found /\ t.inside = FALSE /\ t.header = s.header
BY DEF ScansFor, Outside

LEMMA HeaderRead ==
    ASSUME NEW lines, Len(lines) \in Nat, IsSource(lines), Readable(lines), NEW struct,
           DeclaredIn(lines, struct), NEW k \in 0 .. Len(lines) - 1,
           NEW read, ReadTo(lines, struct, k, OpenAfter(lines), read), read.header
    PROVE  ReadTo(lines, struct, k + 1, OpenAfter(lines), ReadHeader(read, lines[k + 1]))
<1> DEFINE open == OpenAfter(lines)
           line == lines[k + 1]
           new == ReadHeader(read, line)
<1>1. /\ k > 0 /\ lines[k].is \in {"struct", "header"} /\ open[k] > 0
      /\ read.opens = open[k] /\ read \in Scans(lines)
      /\ read.inside <=> k \in BodyLines(lines, struct)
      /\ read.inside =>
            read.pending = IF lines[k].is \in {"field", "local", "more"} THEN open[k] ELSE 0
    BY Zenon DEF ReadTo
<1>2. /\ line.is = "header" /\ ~line.note /\ line.opens \in Int
      /\ open[k] \in Nat /\ open[k + 1] \in Nat /\ open[k + 1] = Opened(open[k], line)
    BY <1>1, SourceLine, Zenon
<1>3. open[k + 1] = open[k] + line.opens
    BY <1>2, Zenon DEF Opened, Starts, GoesOn
<1>4. /\ new \in Scans(lines) /\ new.found = read.found /\ new.inside = read.inside
      /\ new.pending = read.pending /\ new.opens = read.opens + line.opens
      /\ new.header = ~IsWhole(read.opens + line.opens, line)
    <2> DEFINE o == read.opens + line.opens
               h == ~IsWhole(o, line)
               F == Seq({Entry(lines[i]) : i \in 1 .. Len(lines)})
    <2>1. o \in Int /\ h \in BOOLEAN
        BY <1>1, <1>2 DEF IsWhole
    <2>2. new = [read EXCEPT !.opens = o, !.header = h]
        BY DEF ReadHeader
    <2> HIDE DEF o, h, new
    <2>3. read \in ScansFor(F)
        BY <1>1 DEF Scans
    <2> HIDE DEF F
    <2>4. /\ new \in ScansFor(F) /\ new.found = read.found /\ new.inside = read.inside
          /\ new.pending = read.pending /\ new.opens = o /\ new.header = h
        BY <2>1, <2>2, <2>3 DEF ScansFor
    <2> QED BY <2>4, Zenon DEF o, h, F, Scans
<1>5. new.header <=> open[k + 1] > 0
    <2>1. EndsInColon(line)
        BY <1>2, Zenon DEF EndsInColon
    <2>2. new.header <=> read.opens + line.opens # 0
        BY <1>4, <2>1, Zenon DEF IsWhole
    <2> HIDE DEF new, open
    <2> QED BY <1>1, <1>2, <1>3, <2>2
<1>6. line.is \notin {"struct", "top"} /\ line.is # "field"
    BY <1>2
<1>7. k + 1 \notin OwnFields(lines, struct)
    BY <1>6, Zenon DEF OwnFields
<1>8. k + 1 \in BodyLines(lines, struct) <=> k \in BodyLines(lines, struct)
    BY <1>6, BodyGoesOn, Zenon
<1>9. read.inside => read.pending = 0
    BY <1>1
<1>10. line.is \in {"struct", "header"} /\ line.is \notin {"field", "local", "more"} /\ k \in Nat
    BY <1>2
<1> HIDE DEF open
<1>11. new.opens = open[k + 1]
    BY <1>1, <1>3, <1>4, Zenon
<1> HIDE DEF new
<1>12. ReadTo(lines, struct, k + 1, open, new)
    BY <1>1, <1>4, <1>5, <1>7, <1>8, <1>9, <1>10, <1>11, NothingTaken, Zenon DEF open
<1> QED BY <1>12 DEF new, open

LEMMA StructRead ==
    ASSUME NEW lines, Len(lines) \in Nat, IsSource(lines), Readable(lines), NEW struct,
           DeclaredIn(lines, struct), NEW k \in 0 .. Len(lines) - 1,
           NEW read, ReadTo(lines, struct, k, OpenAfter(lines), read), lines[k + 1].is = "struct"
    PROVE  ReadTo(lines, struct, k + 1, OpenAfter(lines), ReadStruct(struct, read, lines[k + 1]))
<1> DEFINE open == OpenAfter(lines)
           line == lines[k + 1]
           new == ReadStruct(struct, read, line)
<1>1. read \in Scans(lines)
    BY Zenon DEF ReadTo
<1>2. ~line.note /\ line.opens \in Int /\ open[k + 1] \in Nat /\ open[k + 1] = Opened(open[k], line)
    BY SourceLine, Zenon
<1>3. open[k + 1] = line.opens
    BY <1>2, Zenon DEF Opened, Starts
<1>4. /\ new \in Scans(lines) /\ new.found = read.found /\ new.inside = (line.name = struct)
      /\ new.pending = 0 /\ new.opens = line.opens
      /\ new.header = ~IsWhole(line.opens, line)
    <2> DEFINE h == ~IsWhole(line.opens, line)
               i == line.name = struct
               F == Seq({Entry(lines[j]) : j \in 1 .. Len(lines)})
    <2>1. h \in BOOLEAN /\ i \in BOOLEAN
        BY DEF IsWhole
    <2>2. new = [read EXCEPT !.inside = i, !.pending = 0, !.opens = line.opens, !.header = h]
        BY DEF ReadStruct
    <2> HIDE DEF h, i, new
    <2>3. read \in ScansFor(F)
        BY <1>1 DEF Scans
    <2>4. /\ new \in ScansFor(F) /\ new.found = read.found /\ new.inside = i
          /\ new.pending = 0 /\ new.opens = line.opens /\ new.header = h
        <3> DEFINE u == [read EXCEPT !.inside = i]
                   v == [u EXCEPT !.pending = 0]
        <3> HIDE DEF F
        <3>1. u \in ScansFor(F) /\ u.found = read.found /\ u.inside = i
            BY <2>1, <2>3 DEF ScansFor
        <3>2. new = [v EXCEPT !.opens = line.opens, !.header = h]
            BY <2>2
        <3> HIDE DEF u
        <3>3. v \in ScansFor(F) /\ v.found = read.found /\ v.inside = i /\ v.pending = 0
            BY <3>1 DEF ScansFor
        <3> HIDE DEF v
        <3> QED BY <1>2, <2>1, <3>2, <3>3 DEF ScansFor
    <2> QED BY <2>4, Zenon DEF h, i, F, Scans
<1>5. new.header <=> open[k + 1] > 0
    <2>1. EndsInColon(line)
        BY <1>2, Zenon DEF EndsInColon
    <2>2. new.header <=> line.opens # 0
        BY <1>4, <2>1, Zenon DEF IsWhole
    <2> HIDE DEF new, open
    <2> QED BY <1>2, <1>3, <2>2
<1>6. line.is # "field"
    OBVIOUS
<1>7. k + 1 \notin OwnFields(lines, struct)
    BY <1>6, Zenon DEF OwnFields
<1>8. k + 1 \in BodyLines(lines, struct) <=> line.name = struct
    BY BodyGoesOn
<1>10. line.is \in {"struct", "header"} /\ line.is \notin {"field", "local", "more"} /\ k \in Nat
    OBVIOUS
<1> HIDE DEF open, new
<1>12. ReadTo(lines, struct, k + 1, open, new)
    BY <1>3, <1>4, <1>5, <1>7, <1>8, <1>10, NothingTaken, Zenon DEF open
<1> QED BY <1>12 DEF new, open

LEMMA OutsideRead ==
    ASSUME NEW lines, Len(lines) \in Nat, IsSource(lines), Readable(lines), NEW struct,
           DeclaredIn(lines, struct), NEW k \in 0 .. Len(lines) - 1,
           NEW read, ReadTo(lines, struct, k, OpenAfter(lines), read),
           ~read.header, ~read.inside, lines[k + 1].is # "struct"
    PROVE  ReadTo(lines, struct, k + 1, OpenAfter(lines), read)
<1> DEFINE open == OpenAfter(lines)
           line == lines[k + 1]
<1>1. /\ read \in Scans(lines) /\ k \notin BodyLines(lines, struct)
      /\ ~(k > 0 /\ lines[k].is \in {"struct", "header"} /\ open[k] > 0)
    BY Zenon DEF ReadTo
<1>2. line.is # "header"
    BY <1>1, SourceLine, Zenon
<1>3. k + 1 \notin BodyLines(lines, struct)
    <2>1. CASE line.is = "top"
        BY <2>1, BodyGoesOn
    <2>2. CASE line.is # "top"
        <3>1. line.is \notin {"struct", "top"}
            BY <2>2
        <3> QED BY <1>1, <3>1, BodyGoesOn, Zenon
    <2> QED BY <2>1, <2>2
<1>4. k + 1 \notin OwnFields(lines, struct)
    BY <1>3, Zenon DEF OwnFields
<1>5. line.is \notin {"struct", "header"} /\ k \in Nat
    BY <1>2
<1> QED BY <1>1, <1>3, <1>4, <1>5, NothingTaken, Zenon

LEMMA TopRead ==
    ASSUME NEW lines, Len(lines) \in Nat, IsSource(lines), Readable(lines), NEW struct,
           DeclaredIn(lines, struct), NEW k \in 0 .. Len(lines) - 1,
           NEW read, ReadTo(lines, struct, k, OpenAfter(lines), read),
           ~read.header, lines[k + 1].is = "top"
    PROVE  ReadTo(lines, struct, k + 1, OpenAfter(lines), Outside(read))
<1> DEFINE new == Outside(read)
<1>1. read \in Scans(lines)
    BY Zenon DEF ReadTo
<1>2. new \in Scans(lines) /\ new.found = read.found /\ ~new.inside /\ ~new.header
    BY <1>1, OutsideSet, Zenon DEF Scans
<1>3. k + 1 \notin BodyLines(lines, struct)
    BY BodyGoesOn
<1>4. k + 1 \notin OwnFields(lines, struct)
    BY <1>3, Zenon DEF OwnFields
<1>5. lines[k + 1].is \notin {"struct", "header"} /\ k \in Nat
    OBVIOUS
<1> HIDE DEF new
<1>6. ReadTo(lines, struct, k + 1, OpenAfter(lines), new)
    BY <1>2, <1>3, <1>4, <1>5, NothingTaken, Zenon
<1> QED BY <1>6 DEF new

LEMMA MoreRead ==
    ASSUME NEW lines, Len(lines) \in Nat, IsSource(lines), Readable(lines), NEW struct,
           DeclaredIn(lines, struct), NEW k \in 0 .. Len(lines) - 1,
           NEW read, ReadTo(lines, struct, k, OpenAfter(lines), read),
           ~read.header, read.inside, read.pending > 0
    PROVE  ReadTo(lines, struct, k + 1, OpenAfter(lines), ReadMore(read, lines[k + 1]))
<1> DEFINE open == OpenAfter(lines)
           line == lines[k + 1]
           new == ReadMore(read, line)
           E == {Entry(lines[i]) : i \in 1 .. Len(lines)}
           joined == [read.found EXCEPT ![Len(read.found)].type = IF line.note THEN Noted ELSE @]
           left == IF read.pending + line.opens > 0 THEN read.pending + line.opens ELSE 0
<1>1. /\ read \in Scans(lines) /\ k \in BodyLines(lines, struct)
      /\ read.pending = IF lines[k].is \in {"field", "local", "more"} THEN open[k] ELSE 0
    BY Zenon DEF ReadTo
<1>2. /\ line.opens \in Int /\ open[k] \in Nat /\ open[k + 1] \in Nat
      /\ open[k + 1] = Opened(open[k], line)
      /\ line.is = "more" <=> k > 0 /\ lines[k].is \in {"field", "local", "more"} /\ open[k] > 0
      /\ line.is \in {"struct", "header", "more"} => ~line.note
    BY SourceLine, Zenon
<1>3. lines[k].is \in {"field", "local", "more"} /\ open[k] > 0 /\ read.pending = open[k]
    <2> HIDE DEF open
    <2> QED BY <1>1
<1>4. k > 0
    <2>1. k # 0
        <3>1. open[k] # 0
            <4> HIDE DEF open
            <4> QED BY <1>3
        <3>2. k \in BodyLines(lines, struct)
            BY <1>1
        <3>3. 0 \notin BodyLines(lines, struct)
            <4> DEFINE first == CHOOSE i \in 1 .. Len(lines) : Declares(lines[i]) /\ lines[i].name = struct
            <4>1. first \in 1 .. Len(lines)
                BY Zenon DEF DeclaredIn
            <4>2. BodyLines(lines, struct) \subseteq first .. Len(lines)
                BY Zenon DEF BodyLines
            <4> HIDE DEF first
            <4> QED BY <4>1, <4>2
        <3> QED BY <3>2, <3>3
    <2> QED BY <2>1
<1>5. line.is = "more" /\ ~line.note
    BY <1>2, <1>3, <1>4, Zenon
<1>6. open[k + 1] = open[k] + line.opens
    BY <1>2, <1>5, Zenon DEF Opened, Starts, GoesOn
<1>7. read.found \in Seq(E)
    BY <1>1 DEF Scans, ScansFor
<1>8. joined = read.found
    <2>1. ASSUME NEW e \in E PROVE [e EXCEPT !.type = IF line.note THEN Noted ELSE @] = e
        <3>1. PICK i \in 1 .. Len(lines) : e = Entry(lines[i])
            OBVIOUS
        <3>2. [e EXCEPT !.type = e.type] = e
            BY <3>1 DEF Entry
        <3> QED BY <1>5, <3>2, Zenon
    <2> HIDE DEF E
    <2>2. \A x \in DOMAIN read.found : read.found[x] \in E
        BY <1>7
    <2>3. joined = [x \in DOMAIN read.found |->
                        IF x = Len(read.found)
                        THEN [read.found[x] EXCEPT !.type = IF line.note THEN Noted ELSE @]
                        ELSE read.found[x]]
        BY <1>5
    <2>4. read.found = [x \in DOMAIN read.found |-> read.found[x]]
        BY <1>7
    <2> QED BY <2>1, <2>2, <2>3, <2>4, Zenon
<1>9. left = open[k + 1]
    <2> HIDE DEF open
    <2> QED BY <1>2, <1>3, <1>6
<1>10. left \in Int
    <2> HIDE DEF left, open
    <2> QED BY <1>2, <1>9
<1>11. new = [read EXCEPT !.pending = left, !.found = joined]
    BY DEF ReadMore
<1> HIDE DEF E, joined, left, open, new
<1>12. /\ new \in Scans(lines) /\ new.found = read.found /\ new.inside = read.inside
       /\ new.pending = left /\ new.header = read.header
    <2> DEFINE F == Seq(E)
    <2>1. read \in ScansFor(F) /\ joined \in F
        BY <1>1, <1>7, <1>8 DEF Scans, E
    <2> HIDE DEF F
    <2>2. /\ new \in ScansFor(F) /\ new.found = read.found /\ new.inside = read.inside
          /\ new.pending = left /\ new.header = read.header
        BY <1>8, <1>10, <1>11, <2>1 DEF ScansFor
    <2> QED BY <2>2, Zenon DEF F, E, Scans
<1>13. line.is \notin {"struct", "top"} /\ line.is # "field" /\ line.is \notin {"struct", "header"}
       /\ line.is \in {"field", "local", "more"} /\ k \in Nat
    BY <1>5
<1>14. k + 1 \in BodyLines(lines, struct) <=> k \in BodyLines(lines, struct)
    BY <1>13, BodyGoesOn, Zenon
<1>15. k + 1 \notin OwnFields(lines, struct)
    BY <1>13, Zenon DEF OwnFields
<1>16. ReadTo(lines, struct, k + 1, open, new)
    BY <1>1, <1>9, <1>12, <1>13, <1>14, <1>15, NothingTaken, Zenon DEF open
<1> QED BY <1>16 DEF new, open

\* Where no type is being joined, the line before left no bracket of one open.
LEMMA NothingPending ==
    ASSUME NEW lines, Len(lines) \in Nat, IsSource(lines), Readable(lines), NEW struct,
           NEW k \in 0 .. Len(lines) - 1,
           NEW read, ReadTo(lines, struct, k, OpenAfter(lines), read),
           ~read.header, read.inside, ~(read.pending > 0)
    PROVE  /\ lines[k + 1].is \notin {"header", "more"}
           /\ read.pending = 0
<1> DEFINE open == OpenAfter(lines)
           line == lines[k + 1]
<1>1. /\ ~(k > 0 /\ lines[k].is \in {"struct", "header"} /\ open[k] > 0)
      /\ read.pending = IF lines[k].is \in {"field", "local", "more"} THEN open[k] ELSE 0
    BY Zenon DEF ReadTo
<1>2. /\ open[k] \in Nat
      /\ line.is = "header" <=> k > 0 /\ lines[k].is \in {"struct", "header"} /\ open[k] > 0
      /\ line.is = "more" <=> k > 0 /\ lines[k].is \in {"field", "local", "more"} /\ open[k] > 0
    BY SourceLine, Zenon
<1> HIDE DEF open
<1>3. read.pending = 0
    BY <1>1, <1>2
<1>4. line.is # "more"
    BY <1>1, <1>2, <1>3
<1> QED BY <1>1, <1>2, <1>3, <1>4

LEMMA FieldRead ==
    ASSUME NEW lines, Len(lines) \in Nat, IsSource(lines), Readable(lines), NEW struct,
           DeclaredIn(lines, struct), NEW k \in 0 .. Len(lines) - 1,
           NEW read, ReadTo(lines, struct, k, OpenAfter(lines), read),
           ~read.header, read.inside, ~(read.pending > 0), lines[k + 1].is \in FieldLike
    PROVE  ReadTo(lines, struct, k + 1, OpenAfter(lines), ReadField(read, lines[k + 1]))
<1> DEFINE open == OpenAfter(lines)
           line == lines[k + 1]
           new == ReadField(read, line)
           E == {Entry(lines[i]) : i \in 1 .. Len(lines)}
           longer == Append(read.found, Entry(line))
           left == IF line.opens > 0 THEN line.opens ELSE 0
           before == OwnTo(lines, struct, k)
           own == OwnTo(lines, struct, k + 1)
<1>1. /\ read \in Scans(lines) /\ k \in BodyLines(lines, struct)
      /\ \A i \in before : \E j \in DOMAIN read.found : read.found[j] = Entry(lines[i])
      /\ NoLocals(lines, struct) => AreEntriesOf(read.found, lines, before)
    BY Zenon DEF ReadTo
<1>2. line.opens \in Int /\ open[k + 1] \in Nat /\ open[k + 1] = Opened(open[k], line)
    BY SourceLine, Zenon
<1>3. line.is \in {"field", "local"}
    BY DEF FieldLike
<1>4. open[k + 1] = line.opens
    BY <1>2, <1>3, Zenon DEF Opened, Starts
<1>5. left = open[k + 1] /\ left \in Int
    <2> HIDE DEF open
    <2> QED BY <1>2, <1>4
<1>6. read.found \in Seq(E) /\ Entry(line) \in E
    <2>1. k + 1 \in 1 .. Len(lines)
        OBVIOUS
    <2> QED BY <1>1, <2>1 DEF Scans, ScansFor
<1>7. /\ longer \in Seq(E) /\ DOMAIN read.found \subseteq DOMAIN longer
      /\ \A j \in DOMAIN read.found : longer[j] = read.found[j]
      /\ Len(read.found) + 1 \in DOMAIN longer /\ longer[Len(read.found) + 1] = Entry(line)
    <2> DEFINE e == Entry(line)
    <2>1. e \in E
        BY <1>6
    <2> HIDE DEF e, E
    <2>2. \A s \in Seq(E) :
            LET t == Append(s, e)
            IN  /\ t \in Seq(E) /\ DOMAIN s \subseteq DOMAIN t
                /\ \A j \in DOMAIN s : t[j] = s[j]
                /\ Len(s) + 1 \in DOMAIN t /\ t[Len(s) + 1] = e
        BY <2>1
    <2> QED BY <1>6, <2>2, Zenon DEF e
<1>8. new = [read EXCEPT !.found = longer, !.pending = left]
    BY DEF ReadField
<1> HIDE DEF E, longer, left, open, new
<1>9. /\ new \in Scans(lines) /\ new.found = longer /\ new.inside = read.inside
      /\ new.pending = left /\ new.header = read.header
    <2> DEFINE F == Seq(E)
    <2>1. read \in ScansFor(F) /\ longer \in F
        BY <1>1, <1>7 DEF Scans, E
    <2> HIDE DEF F
    <2>2. /\ new \in ScansFor(F) /\ new.found = longer /\ new.inside = read.inside
          /\ new.pending = left /\ new.header = read.header
        BY <1>5, <1>8, <2>1 DEF ScansFor
    <2> QED BY <2>2, Zenon DEF F, E, Scans
<1>10. line.is \notin {"struct", "top"} /\ line.is \notin {"struct", "header"}
       /\ line.is \in {"field", "local", "more"} /\ k \in Nat /\ k + 1 > 0
    BY <1>3
<1>11. k + 1 \in BodyLines(lines, struct)
    BY <1>1, <1>10, BodyGoesOn, Zenon
<1>12. k + 1 \in OwnFields(lines, struct) <=> line.is = "field"
    BY <1>11, Zenon DEF OwnFields
<1>13. /\ k + 1 \notin OwnFields(lines, struct) => own = before
       /\ k + 1 \in OwnFields(lines, struct) => own = before \cup {k + 1}
       /\ IsFiniteSet(before) /\ before \in SUBSET Nat /\ \A i \in before : i < k + 1
    BY <1>10, OwnGoesOn
<1>14. ASSUME NEW i \in own PROVE \E j \in DOMAIN longer : longer[j] = Entry(lines[i])
    <2>1. CASE i \in before
        BY <1>1, <1>7, <2>1, Zenon
    <2>2. CASE i \notin before
        <3>1. i = k + 1
            BY <1>13, <2>2, Zenon
        <3> QED BY <1>7, <3>1, Zenon
    <2> QED BY <2>1, <2>2
<1>15. ASSUME NoLocals(lines, struct) PROVE AreEntriesOf(longer, lines, own)
    <2>1. line.is # "local"
        BY <1>11, <1>15, Zenon DEF NoLocals
    <2>2. own = before \cup {k + 1}
        BY <1>3, <1>12, <1>13, <2>1, Zenon
    <2>3. AreEntriesOf(read.found, lines, before)
        BY <1>1, <1>15, Zenon
    <2>4. k + 1 \in Nat
        OBVIOUS
    <2> HIDE DEF before, own
    <2>5. AreEntriesOf(longer, lines, before \cup {k + 1})
        BY <1>6, <1>13, <2>3, <2>4, EntryAppended, Zenon DEF longer
    <2> QED BY <2>2, <2>5, Zenon
<1> HIDE DEF own, before
<1>16. ReadTo(lines, struct, k + 1, open, new)
    BY <1>1, <1>5, <1>9, <1>10, <1>11, <1>14, <1>15, Zenon DEF ReadTo, own
<1> QED BY <1>16 DEF new, open

LEMMA OtherRead ==
    ASSUME NEW lines, Len(lines) \in Nat, IsSource(lines), Readable(lines), NEW struct,
           DeclaredIn(lines, struct), NEW k \in 0 .. Len(lines) - 1,
           NEW read, ReadTo(lines, struct, k, OpenAfter(lines), read),
           ~read.header, read.inside, ~(read.pending > 0),
           lines[k + 1].is \notin FieldLike \cup {"struct", "top"}
    PROVE  ReadTo(lines, struct, k + 1, OpenAfter(lines), read)
<1> DEFINE line == lines[k + 1]
<1>1. read \in Scans(lines) /\ k \in BodyLines(lines, struct)
    BY Zenon DEF ReadTo
<1>2. line.is \notin {"header", "more"} /\ read.pending = 0
    BY NothingPending, Zenon
<1>3. /\ line.is \notin {"struct", "top"} /\ line.is \notin {"struct", "header"} /\ line.is # "field"
      /\ line.is \notin {"field", "local", "more"} /\ k \in Nat
    BY <1>2 DEF FieldLike
<1>4. k + 1 \in BodyLines(lines, struct)
    BY <1>1, <1>3, BodyGoesOn, Zenon
<1>5. k + 1 \notin OwnFields(lines, struct)
    BY <1>3, Zenon DEF OwnFields
<1> QED BY <1>1, <1>2, <1>3, <1>4, <1>5, NothingTaken, Zenon

\* One more line.
LEMMA LineRead ==
    ASSUME NEW lines, Len(lines) \in Nat, IsSource(lines), Readable(lines), NEW struct,
           DeclaredIn(lines, struct), NEW k \in 0 .. Len(lines) - 1,
           NEW read, ReadTo(lines, struct, k, OpenAfter(lines), read)
    PROVE  ReadTo(lines, struct, k + 1, OpenAfter(lines), ScanLine(struct, read, lines[k + 1]))
<1> DEFINE line == lines[k + 1]
           next == ScanLine(struct, read, line)
<1>1. CASE read.header
    <2>1. next = ReadHeader(read, line)
        BY <1>1 DEF ScanLine
    <2> QED BY <1>1, <2>1, HeaderRead, Zenon
<1>2. CASE ~read.header /\ line.is = "struct"
    <2>1. next = ReadStruct(struct, read, line)
        BY <1>2 DEF ScanLine
    <2> QED BY <1>2, <2>1, StructRead, Zenon
<1>3. CASE ~read.header /\ line.is # "struct" /\ ~read.inside
    <2>1. next = read
        BY <1>3 DEF ScanLine
    <2> QED BY <1>3, <2>1, OutsideRead, Zenon
<1>4. CASE ~read.header /\ read.inside /\ line.is \in ColumnZero
    <2>1. line.is = "top"
        <3>1. line.is # "flush"
            BY SourceLine, Zenon
        <3> QED BY <1>4, <3>1 DEF ColumnZero
    <2>2. next = Outside(read)
        BY <1>4, <2>1 DEF ScanLine, ColumnZero, Outside
    <2> QED BY <1>4, <2>1, <2>2, TopRead, Zenon
<1>5. CASE ~read.header /\ line.is # "struct" /\ read.inside /\ line.is \notin ColumnZero
    <2>1. CASE read.pending > 0
        <3>1. next = ReadMore(read, line)
            BY <1>5, <2>1 DEF ScanLine
        <3> QED BY <1>5, <2>1, <3>1, MoreRead, Zenon
    <2>2. CASE ~(read.pending > 0) /\ line.is \in FieldLike
        <3>1. next = ReadField(read, line)
            BY <1>5, <2>2 DEF ScanLine
        <3> QED BY <1>5, <2>2, <3>1, FieldRead, Zenon
    <2>3. CASE ~(read.pending > 0) /\ line.is \notin FieldLike
        <3>1. next = read
            BY <1>5, <2>3 DEF ScanLine
        <3>2. line.is \notin FieldLike \cup {"struct", "top"}
            BY <1>5, <2>3 DEF ColumnZero
        <3> QED BY <1>5, <2>3, <3>1, <3>2, OtherRead, Zenon
    <2> QED BY <2>1, <2>2, <2>3
<1>6. line.is \in ColumnZero => line.is # "struct"
    BY DEF ColumnZero
<1>7. \/ read.header
      \/ ~read.header /\ line.is = "struct"
      \/ ~read.header /\ line.is # "struct" /\ ~read.inside
      \/ ~read.header /\ read.inside /\ line.is \in ColumnZero
      \/ ~read.header /\ line.is # "struct" /\ read.inside /\ line.is \notin ColumnZero
    BY <1>6
<1> HIDE DEF next
<1> QED BY <1>1, <1>2, <1>3, <1>4, <1>5, <1>7, Zenon DEF next

\* The scan and the compiler agree about every source the compiler takes and
\* the scan can read, however long: where a struct starts and stops, and what
\* of it is a field (declarations of tools/docjson/read.py).
THEOREM FieldsAreFound ==
    ASSUME NEW lines, Len(lines) \in Nat, IsSource(lines), Readable(lines), NEW struct,
           DeclaredIn(lines, struct)
    PROVE  ScanAgrees(lines, struct)
<1> DEFINE n == Len(lines)
           open == OpenAfter(lines)
           f == CHOOSE f : ReadsTo(lines, struct, n, f)
           own == OwnFields(lines, struct)
           got == Declarations(lines, struct)
<1>1. ReadsTo(lines, struct, n, f)
    BY ReadsEvery, Zenon
<1>2. got = f[n].found
    BY Zenon DEF Declarations, ReadsTo
<1> HIDE DEF f
<1> DEFINE S == {k \in Nat : k \in 0 .. n => ReadTo(lines, struct, k, open, f[k])}
<1>3. 0 \in S
    <2> DEFINE E == {Entry(lines[i]) : i \in 1 .. n}
    <2>1. 0 \in 0 .. n
        OBVIOUS
    <2>2. f[0] = ScanStart
        BY <1>1, <2>1, Zenon DEF ReadsTo
    <2>3. own \subseteq 1 .. n
        BY <2>1, OwnGoesOn, Zenon
    <2>4. OwnTo(lines, struct, 0) = {}
        <3> HIDE DEF n, own
        <3>1. \A i \in own : ~(i <= 0)
            BY <2>3 DEF n
        <3> QED BY <3>1, Zenon DEF OwnTo, own
    <2>5. 0 \notin BodyLines(lines, struct)
        <3> DEFINE first == CHOOSE i \in 1 .. n : Declares(lines[i]) /\ lines[i].name = struct
        <3>1. first \in 1 .. n
            BY Zenon DEF DeclaredIn
        <3>2. BodyLines(lines, struct) \subseteq first .. n
            BY Zenon DEF BodyLines
        <3> HIDE DEF first
        <3> QED BY <3>1, <3>2
    <2>6. /\ ScanStart \in Scans(lines) /\ ~ScanStart.header /\ ~ScanStart.inside
          /\ ScanStart.found = <<>>
        <3> HIDE DEF E
        <3>1. ScanStart \in ScansFor(Seq(E))
            BY DEF ScanStart, ScansFor
        <3>2. ~ScanStart.header /\ ~ScanStart.inside /\ ScanStart.found = <<>>
            BY DEF ScanStart
        <3> QED BY <3>1, <3>2, Zenon DEF Scans, E
    <2>7. AreEntriesOf(<<>>, lines, {})
        BY FS_EmptySet DEF AreEntriesOf
    <2>8. ~(0 > 0)
        OBVIOUS
    <2>9. ReadTo(lines, struct, 0, open, ScanStart)
        BY <2>4, <2>5, <2>6, <2>7, <2>8, Zenon DEF ReadTo
    <2> QED BY <2>2, <2>9
<1>4. ASSUME NEW k \in 0 .. n - 1, k \in S PROVE k + 1 \in S
    <2>1. k \in Nat /\ k \in 0 .. n /\ k + 1 \in 0 .. n /\ k + 1 # 0 /\ (k + 1) - 1 = k
        OBVIOUS
    <2>2. ReadTo(lines, struct, k, open, f[k])
        BY <1>4, <2>1
    <2>3. f[k + 1] = ScanLine(struct, f[k], lines[k + 1])
        BY <1>1, <2>1, Zenon DEF ReadsTo
    <2>4. ReadTo(lines, struct, k + 1, open, f[k + 1])
        BY <2>2, <2>3, LineRead, Zenon
    <2> QED BY <2>1, <2>4
<1>5. n \in 0 .. n /\ S \in SUBSET Nat /\ n \in Nat
    OBVIOUS
<1>6. 0 .. n \subseteq S
    <2> HIDE DEF S, n
    <2> QED BY <1>3, <1>4, <1>5, UpTo
<1>7. ReadTo(lines, struct, n, open, f[n])
    BY <1>5, <1>6
<1>8. OwnTo(lines, struct, n) = own
    <2>1. own \subseteq 1 .. n
        BY <1>5, OwnGoesOn, Zenon
    <2> HIDE DEF n, own
    <2>2. \A i \in own : i <= n
        BY <2>1 DEF n
    <2> QED BY <2>2, Zenon DEF OwnTo, own
<1> HIDE DEF n, open, S
<1>9. /\ \A i \in own : \E j \in DOMAIN got : got[j] = Entry(lines[i])
      /\ NoLocals(lines, struct) => AreEntriesOf(got, lines, own)
    BY <1>2, <1>7, <1>8, Zenon DEF ReadTo
<1>10. \A i : Entry(lines[i]).name = lines[i].name
    BY DEF Entry
<1>11. \A i \in own : lines[i].name \in NamesIn(got)
    BY <1>9, <1>10, Zenon DEF NamesIn
<1> QED BY <1>9, <1>11, Zenon DEF ScanAgrees

\* In every package, the scan finds in each source that is laid out as it
\* expects the fields the compiler sees there, of every struct (declarations of
\* tools/docjson/read.py, which read_struct calls).
THEOREM SourcesAreRead == PlanSpec => []SourceIsRead
<1>1. ASSUME NEW p \in Packages, NEW s \in DOMAIN p.structs
      PROVE  LET lines == p.modules[SubSeq(s, 1, Len(s) - 1)].lines
             IN  Readable(lines) => lines = <<>> \/ ScanAgrees(lines, s[Len(s)])
    <2> DEFINE m == SubSeq(s, 1, Len(s) - 1)
               lines == p.modules[m].lines
    <2>1. m \in DOMAIN p.modules /\ (lines = <<>> \/ DeclaredIn(lines, s[Len(s)]))
        BY SourcesAssumption, Zenon
    <2>2. lines \in Seq(Range(lines)) /\ IsSource(lines)
        BY <2>1, SourcesAssumption, Zenon
    <2> HIDE DEF lines, m
    <2>3. Len(lines) \in Nat
        BY <2>2
    <2>4. Readable(lines) => lines = <<>> \/ ScanAgrees(lines, s[Len(s)])
        BY <2>1, <2>2, <2>3, FieldsAreFound, Zenon
    <2> QED BY <2>4 DEF lines, m
<1>2. package \in Packages => SourceIsRead
    BY <1>1, Zenon DEF SourceIsRead, Structs, ModuleOf, NameOf
<1>3. PlanInit => package \in Packages
    BY DEF PlanInit
<1>4. package \in Packages /\ [PlanNext]_planVars => (package \in Packages)'
    BY DEF PlanNext, FindTwins, PlanOne, LeaveOne, FallOut, PlanDone, planVars
<1> QED BY <1>2, <1>3, <1>4, PTL DEF PlanSpec
=============================================================================
