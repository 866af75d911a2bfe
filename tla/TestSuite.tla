------------------------------ MODULE TestSuite ------------------------------
(***************************************************************************)
(* The test runner, tools/mojotest/run.py: several runs of it at once over *)
(* checkouts of the tree, each of which finds the tests, takes its shard,  *)
(* drops what it may skip, writes the one generated main, builds it, and   *)
(* runs the binary as a child whose output a thread of the run drains      *)
(* while the run waits for the child under an optional deadline.           *)
(*                                                                         *)
(* A file is a directory and a sequence of lines, of which only the kind   *)
(* matters; a test line carries what its test may do when it is called.    *)
(* The bytes of the output are the few lines the verdict looks for.        *)
(***************************************************************************)
EXTENDS Integers, FiniteSets, SequencesExt

CONSTANTS
    Runs,      \* the runs of the tool
    Trees,     \* the checkouts they run in
    Files,     \* the test files of a checkout, in the order their paths sort
    Asks,      \* the command lines a run may be given, each in a checkout
    PIPE       \* how many lines the pipe from the child holds

\* A directory is the sequence of its names below tests/.
TESTS == <<>>
LINT == <<"lint">>
FIXTURES == <<"mojotest">>
MARKED == <<"mojotest", "marked">>
EXCLUDED == {LINT, FIXTURES}

NoPackage == <<"*">>
Whole == <<1, 1>>

Marker == {"slow", "no-race"}
Passable == Marker \cup {"comment", "blank"}

ASSUME FilesAreLines ==
    /\ Len(Files) \in Nat /\ DOMAIN Files = 1 .. Len(Files)
    /\ \A n \in DOMAIN Files :
        LET lines == Files[n].lines
        IN  /\ Len(lines) \in Nat /\ DOMAIN lines = 1 .. Len(lines)
            /\ \A l \in DOMAIN lines : lines[l].is \in Passable \cup {"code", "test"}

ASSUME AsksAreOfTrees == \A ask \in Asks : ask.tree \in Trees

ASSUME NobodyRuns == "nobody" \notin Runs

ASSUME RunsAreFinite == IsFiniteSet(Runs)

-----------------------------------------------------------------------------
(* Finding the tests. *)

\* One line of a file: a marker waits for the test below it, and anything but
\* a blank line or a comment drops what is waiting.
ReadLine(sofar, line) ==
    CASE line.is = "slow" -> [sofar EXCEPT !.slow = TRUE, !.number = @ + 1]
      [] line.is = "no-race" -> [sofar EXCEPT !.no_race = TRUE, !.number = @ + 1]
      [] line.is \in {"comment", "blank"} -> [sofar EXCEPT !.number = @ + 1]
      [] line.is = "code" ->
           [sofar EXCEPT !.slow = FALSE, !.no_race = FALSE, !.number = @ + 1]
      [] line.is = "test" ->
           [number |-> sofar.number + 1, slow |-> FALSE, no_race |-> FALSE,
            found |-> sofar.found \cup
                {[line |-> sofar.number, slow |-> sofar.slow, no_race |-> sofar.no_race]},
            bad |-> sofar.bad \/ ~line.raises]

\* scan: the tests of a file with their markers, and whether one cannot raise.
scan(lines) ==
    LET top == [number |-> 1, slow |-> FALSE, no_race |-> FALSE, found |-> {}, bad |-> FALSE]
        after[l \in 0 .. Len(lines)] ==
            IF l = 0 THEN top ELSE ReadLine(after[l - 1], lines[l])
    IN  after[Len(lines)]

Scanned == [n \in DOMAIN Files |-> scan(Files[n].lines)]

\* The files a run looks at: those below `where`, without the fixtures, and of
\* one package if it was asked for one.
FilesUnder(where, only) ==
    {n \in DOMAIN Files :
        LET dir == Files[n].dir
        IN  /\ IsPrefix(where, dir)
            /\ where = TESTS => \A skip \in EXCLUDED : ~IsPrefix(skip, dir)
            /\ where # MARKED => ~IsPrefix(MARKED, dir)
            /\ only # NoPackage => IsPrefix(only, dir)}

discover(where, only) ==
    UNION {{[file |-> n, line |-> case.line, slow |-> case.slow, no_race |-> case.no_race] :
                case \in Scanned[n].found} : n \in FilesUnder(where, only)}

CannotFail(where, only) ==
    \E n \in FilesUnder(where, only) : Scanned[n].bad

\* Deals the remainder to nobody.
Dealt_Evenly(count, k, n) == (count \div n) * (k - 1) + 1 .. (count \div n) * k

\* The places, counted from one, that shard k of n has among `count` files.
Dealt(count, k, n) == ((count * (k - 1)) \div n) + 1 .. (count * k) \div n

FilesOf(found) == {case.file : case \in found}

\* Where a file comes when the files are sorted.
Place(file, files) == Cardinality({other \in files : other <= file})

\* share, for a shard that is one of n and n no more than there are files.
share(found, part) ==
    LET files == FilesOf(found)
    IN  {case \in found :
            Place(case.file, files) \in Dealt(Cardinality(files), part[1], part[2])}

BadPart(found, part) ==
    \/ part[1] < 1
    \/ part[1] > part[2]
    \/ part[2] > Cardinality(FilesOf(found))

\* Why a case is left out of a run.
why(case, ask) == (ask.race /\ case.no_race) \/ (ask.short /\ case.slow)

\* The tests of a command line before any is skipped, and what is left.
FoundBy(ask) ==
    LET found == discover(ask.where, ask.only)
    IN  IF ask.part = Whole THEN found ELSE share(found, ask.part)

LeftOf(ask) ==
    {[file |-> case.file, line |-> case.line] :
        case \in {case \in FoundBy(ask) : ~why(case, ask)}}

\* What a run refuses before it writes anything.
RefusalsOf(ask) ==
    LET found == discover(ask.where, ask.only)
    IN  CASE CannotFail(ask.where, ask.only) -> {"no raises"}
          [] ask.only # NoPackage /\ found = {} -> {"no tests match"}
          [] ask.part # Whole /\ BadPart(found, ask.part) -> {"no such shard"}
          [] OTHER -> {}

-----------------------------------------------------------------------------
VARIABLES
    main,       \* tests/_generated_main.mojo of each checkout
    at,         \* where each run is in suite and build_and_run
    asked,      \* what each run was asked, and in which checkout
    found,      \* the cases each run is going to call
    binary,     \* the main each run built, and which run had written it
    child,      \* the process each run started
    code,       \* the exit code of the child
    seen,       \* the tests the child called and what each of them did
    pipe,       \* lines the child has written and the run has not read
    held,       \* whether a process a test left behind has the pipe open
    collected,  \* lines the drain thread has read
    said        \* the problems the run ended with

vars == <<main, at, asked, found, binary, child, code, seen, pipe, held, collected, said>>
childVars == <<child, code, seen, pipe, held>>

NoMain == [by |-> "nobody", calls |-> {}]
NoAsk == [tree |-> "none", where |-> TESTS, only |-> NoPackage, short |-> FALSE,
          race |-> FALSE, part |-> Whole, deadline |-> FALSE]

Init ==
    /\ main = [tree \in Trees |-> NoMain]
    /\ at = [r \in Runs |-> "idle"]
    /\ asked = [r \in Runs |-> NoAsk]
    /\ found = [r \in Runs |-> {}]
    /\ binary = [r \in Runs |-> NoMain]
    /\ child = [r \in Runs |-> "none"]
    /\ code = [r \in Runs |-> 0]
    /\ seen = [r \in Runs |-> {}]
    /\ pipe = [r \in Runs |-> <<>>]
    /\ held = [r \in Runs |-> FALSE]
    /\ collected = [r \in Runs |-> <<>>]
    /\ said = [r \in Runs |-> {}]

Step(r, from, to) == at[r] = from /\ at' = [at EXCEPT ![r] = to]

\* report: the run is over, and green if there is no problem.
Report(r, from, problems) ==
    /\ Step(r, from, "done")
    /\ said' = [said EXCEPT ![r] = problems]

(* The run, up to the build. *)

\* The tool is started with a command line in a checkout, looks for the tests
\* and drops what it may skip.
Begin(r) == \E ask \in Asks :
    /\ Step(r, "idle", "asked")
    /\ asked' = [asked EXCEPT ![r] = ask]
    /\ said' = [said EXCEPT ![r] = RefusalsOf(ask)]
    /\ found' = [found EXCEPT ![r] = IF RefusalsOf(ask) = {} THEN LeftOf(ask) ELSE {}]
    /\ UNCHANGED <<main, binary, childVars, collected>>

\* Something is wrong with what was found or with the shard.
Refuse(r) ==
    /\ said[r] # {}
    /\ Report(r, "asked", said[r])
    /\ UNCHANGED <<main, asked, found, binary, childVars, collected>>

\* Nothing was found, or all of it is to be skipped.
NothingLeft(r) ==
    /\ said[r] = {}
    /\ found[r] = {}
    /\ Report(r, "asked", {})
    /\ UNCHANGED <<main, asked, found, binary, childVars, collected>>

\* There is no compiler on PATH.
NoCompiler(r) ==
    /\ found[r] # {}
    /\ Report(r, "asked", {"no mojo"})
    /\ UNCHANGED <<main, asked, found, binary, childVars, collected>>

\* write_main: the main of the checkout becomes the calls of this run.
WriteMain(r) ==
    /\ found[r] # {}
    /\ Step(r, "asked", "written")
    /\ main' = [main EXCEPT ![asked[r].tree] = [by |-> r, calls |-> found[r]]]
    /\ UNCHANGED <<asked, found, binary, childVars, collected, said>>

\* git would commit the main.
NotIgnored(r) ==
    /\ Report(r, "written", {"not ignored"})
    /\ UNCHANGED <<main, asked, found, binary, childVars, collected>>

\* A shim does not compile, the build fails, or a line that it says carries
\* the marker of a compile time check.
NotBuilt(r) ==
    /\ Report(r, "written", {"not built"})
    /\ UNCHANGED <<main, asked, found, binary, childVars, collected>>

\* The build reads whatever the main of the checkout is by then, and the
\* binary is started with the drain thread beside it.
Build(r) ==
    /\ Step(r, "written", "running")
    /\ binary' = [binary EXCEPT ![r] = main[asked[r].tree]]
    /\ child' = [child EXCEPT ![r] = "alive"]
    /\ UNCHANGED <<main, asked, found, code, seen, pipe, held, collected, said>>

(* The child: the generated main. *)

Called(r) == {call[1] : call \in seen[r]}
ToCall(r) == binary[r].calls \ Called(r)

\* The calls are in the order of the files and of the lines in a file.
NextCall(r) ==
    CHOOSE case \in ToCall(r) : \A other \in ToCall(r) :
        \/ case.file < other.file
        \/ case.file = other.file /\ case.line <= other.line

MayDo(case) == Files[case.file].lines[case.line].does

Failed(r) == \E call \in seen[r] : call[2] = "fails"

\* The lines a call puts on standard output or standard error.
Prints(r, does) ==
    CASE does = "fails" -> <<"FAIL">>
      [] does = "races" /\ asked[r].race -> <<"RACE_FOUND">>
      [] OTHER -> <<>>

\* One test is called, in a try of its own. It passes, fails, races, leaves a
\* process behind that has the pipe open, waits for something that never comes,
\* crashes, which ends the process on a signal or with a code that is not zero,
\* or quits, which ends the process with the code zero and no tally.
CallTest(r) ==
    /\ child[r] = "alive"
    /\ ToCall(r) # {}
    /\ LET case == NextCall(r)
       IN  \E does \in MayDo(case) :
            /\ Len(pipe[r] \o Prints(r, does)) <= PIPE
            /\ seen' = [seen EXCEPT ![r] = @ \cup {<<case, does>>}]
            /\ pipe' = [pipe EXCEPT ![r] = @ \o Prints(r, does)]
            /\ held' = [held EXCEPT ![r] = @ \/ does = "leaves"]
            /\ child' = [child EXCEPT ![r] = CASE does = "hangs" -> "stuck"
                                               [] does \in {"crashes", "quits"} -> "exited"
                                               [] OTHER -> "alive"]
            /\ code' = [code EXCEPT ![r] = IF does = "crashes" THEN -1 ELSE 0]
    /\ UNCHANGED <<main, at, asked, found, binary, collected, said>>

\* Every test was called: the tally is printed and the code says if any failed.
Exit(r) ==
    /\ child[r] = "alive"
    /\ ToCall(r) = {}
    /\ Len(pipe[r]) < PIPE
    /\ pipe' = [pipe EXCEPT ![r] = Append(@, "ran")]
    /\ code' = [code EXCEPT ![r] = IF Failed(r) THEN 1 ELSE 0]
    /\ child' = [child EXCEPT ![r] = "exited"]
    /\ UNCHANGED <<main, at, asked, found, binary, seen, held, collected, said>>

\* A sanitised binary on Linux says so and dies before main.
Unavailable(r) ==
    /\ child[r] = "alive"
    /\ asked[r].race
    /\ seen[r] = {}
    /\ pipe' = [pipe EXCEPT ![r] = Append(@, "RACE_UNAVAILABLE")]
    /\ code' = [code EXCEPT ![r] = -1]
    /\ child' = [child EXCEPT ![r] = "exited"]
    /\ UNCHANGED <<main, at, asked, found, binary, seen, held, collected, said>>

(* The run, while the child runs and after. *)

\* drain: the thread of the run reads a line.
Drain(r) ==
    /\ at[r] \in {"running", "joining", "sampled"}
    /\ pipe[r] # <<>>
    /\ collected' = [collected EXCEPT ![r] = Append(@, Head(pipe[r]))]
    /\ pipe' = [pipe EXCEPT ![r] = Tail(@)]
    /\ UNCHANGED <<main, at, asked, found, binary, child, code, seen, held, said>>

\* The wait gives the exit code in time.
Waited(r) ==
    /\ child[r] = "exited"
    /\ Step(r, "running", "joining")
    /\ UNCHANGED <<main, asked, found, binary, childVars, collected, said>>

\* What suite makes of the code and the output.
Verdict(exit, output) ==
    CASE exit # 0 /\ output = {} -> {"not built"}
      [] "RACE_UNAVAILABLE" \in output -> {"no sanitiser"}
      [] OTHER -> {p \in {"races", "failures"} :
                      IF p = "races" THEN "RACE_FOUND" \in output ELSE exit # 0}

Judge(r) == Report(r, "joining", Verdict(code[r], ToSet(collected[r])))

\* Judges what was read by the time the child has ended.
Joined_AtOnce(r) ==
    /\ ~held[r]
    /\ Judge(r)
    /\ UNCHANGED <<main, asked, found, binary, childVars, collected>>

\* The thread has read the pipe to its end: the child and everything it
\* started have closed it.
Joined(r) ==
    /\ pipe[r] = <<>>
    /\ ~held[r]
    /\ Judge(r)
    /\ UNCHANGED <<main, asked, found, binary, childVars, collected>>

\* Joins without a limit, which a pipe that is held never meets.
JoinTimeout_Never(r) ==
    /\ pipe[r] = <<>>
    /\ held[r] /\ ~held[r]
    /\ Judge(r)
    /\ UNCHANGED <<main, asked, found, binary, childVars, collected>>

\* The pipe never ends and the join gives up. Its half minute is taken to be
\* enough for the thread to read the lines that are already there.
JoinTimeout(r) ==
    /\ pipe[r] = <<>>
    /\ held[r]
    /\ Judge(r)
    /\ UNCHANGED <<main, asked, found, binary, childVars, collected>>

\* The deadline passes while the child has not ended, and the child is sampled.
Timeout(r) ==
    /\ asked[r].deadline
    /\ child[r] \in {"alive", "stuck"}
    /\ Step(r, "running", "sampled")
    /\ UNCHANGED <<main, asked, found, binary, childVars, collected, said>>

\* It is killed and waited for, whatever it did while it was sampled.
Kill(r) ==
    /\ Report(r, "sampled", {"still running"})
    /\ child' = [child EXCEPT ![r] = IF @ = "exited" THEN @ ELSE "killed"]
    /\ UNCHANGED <<main, asked, found, binary, code, seen, pipe, held, collected>>

\* The steps of a run itself. Begin is the user's.
Tool(r) ==
    \/ Refuse(r) \/ NothingLeft(r) \/ NoCompiler(r) \/ WriteMain(r)
    \/ NotIgnored(r) \/ NotBuilt(r) \/ Build(r)
    \/ Waited(r) \/ Joined(r) \/ JoinTimeout(r) \/ Timeout(r) \/ Kill(r)

Child(r) == CallTest(r) \/ Exit(r) \/ Unavailable(r)

Next == \E r \in Runs : Begin(r) \/ Tool(r) \/ Child(r) \/ Drain(r)

\* A run that can move does, in one of its threads or in its child: the
\* compiler comes to an end, the clock of a deadline runs out, and a call that
\* neither hangs nor ends the process returns. A child that hangs owes nothing.
Fairness == \A r \in Runs : WF_vars(Tool(r) \/ Child(r) \/ Drain(r))

Spec == Init /\ [][Next]_vars /\ Fairness

-----------------------------------------------------------------------------
(* What a run owes, said without the scanner. *)

\* A marker is on a test when nothing but markers, comments and blank lines
\* is between them.
IsOn(marker, lines, l) ==
    \E m \in 1 .. l - 1 :
        /\ lines[m].is = marker
        /\ \A between \in m .. l - 1 : lines[between].is \in Passable

Excused(n, l, ask) ==
    \/ ask.race /\ IsOn("no-race", Files[n].lines, l)
    \/ ask.short /\ IsOn("slow", Files[n].lines, l)

\* The tests a command line is about, as pairs of a file and a line.
Owed(ask) ==
    UNION {{<<n, l>> : l \in {l \in DOMAIN Files[n].lines :
                /\ Files[n].lines[l].is = "test"
                /\ ~Excused(n, l, ask)}} : n \in FilesUnder(ask.where, ask.only)}

Ran(r) == {<<case.file, case.line>> : case \in Called(r)}

\* A green run that built what it wrote. Two runs in one checkout share the
\* main, and one that built what the other wrote is outside the properties.
Green(r) == at[r] = "done" /\ said[r] = {}
Undisturbed(r) == binary[r].by \in {r, "nobody"}

Did(r, does) == \E call \in seen[r] : call[2] = does

\* A call ended the process with the code zero. The run takes that for the end
\* of the main, because it does not read the tally that main prints last.
Quit(r) == Did(r, "quits")

\* No call did what a test may not do. The sanitiser only looks for races when
\* it was asked to, and a quit hides what failed before it.
NothingWentWrong(r) ==
    /\ ~Did(r, "hangs") /\ ~Did(r, "crashes")
    /\ asked[r].race => ~Did(r, "races")
    /\ ~Quit(r) => ~Did(r, "fails")

\* A green run is one whose tests did what they should: nothing ran that the
\* command line is not about, nothing hung or crashed, and under the sanitiser
\* nothing raced, although the sanitiser leaves the exit code alone and the
\* warning is only in an output that another thread reads. Unless a test ended
\* the process with the code zero, none failed either, and an unsharded run
\* called every test that it owes. (suite, build_and_run and scan of
\* tools/mojotest/run.py.)
GreenMeansGood ==
    \A r \in Runs : Green(r) /\ Undisturbed(r) =>
        /\ Ran(r) \subseteq Owed(asked[r])
        /\ NothingWentWrong(r)
        /\ ~Quit(r) /\ asked[r].part = Whole => Ran(r) = Owed(asked[r])

\* Runs that differ in the shard and in nothing else that chooses tests.
Alike(r, s) ==
    \A option \in {"where", "only", "short", "race"} :
        asked[r][option] = asked[s][option]

\* When every shard of a split is green, none of the tests was run by two, and
\* unless a test of one ended its process with the code zero, none was lost:
\* the shards add up to what the whole run owes. (share of
\* tools/mojotest/run.py, which a lost file would leave green.)
ShardsAddUp ==
    \A shards \in SUBSET {r \in Runs : Green(r) /\ Undisturbed(r)} :
        \A n \in 1 .. Cardinality(shards) :
            /\ \A r, s \in shards : Alike(r, s)
            /\ {asked[r].part : r \in shards} = {<<k, n>> : k \in 1 .. n}
            => /\ \A r, s \in shards :
                    asked[r].part # asked[s].part => Ran(r) \cap Ran(s) = {}
               /\ (\A r \in shards : ~Quit(r)) =>
                    UNION {Ran(r) : r \in shards} = UNION {Owed(asked[r]) : r \in shards}

\* A run with a deadline always comes to an end: a test that waits for ever
\* is stopped by the deadline, and a process a test left behind with the pipe
\* open does not keep the run after the suite has ended. (build_and_run.)
DeadlineReports ==
    \A r \in Runs : at[r] = "asked" /\ asked[r].deadline ~> at[r] = "done"
=============================================================================
