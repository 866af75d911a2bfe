# mojo.core in TLA+

mojo.core rewrites Go's standard library in Mojo. This directory holds TLA+ models of
the parts of it that keep state between calls, of the Unicode tables from their
generators to the searches over them, and of the tools the repository relies on to say
that the library is right; the TLC configurations that check them; and TLAPS proofs of
the properties they rest on. Line numbers here and in PROJECT.json are of the sources in
this repository.

    tlc -config MCBufReader.cfg MCBufReader      # a run
    tlapm BufReaderProofs.tla                    # a proof

## The system

Two halves. The **library** (`core/`) has no server, no message protocol and nothing
written to disk that is read back after a crash. What is hard in it is:

* **threads**: boxes shared by handles on several threads, one error record per thread,
  file descriptors shared by all threads while one of them forks;
* **signals**: a handler that runs between any two instructions of anything;
* **buffers over streams that fail**: a source or a sink may answer with any count or
  with a failure at any point, and the buffer has to keep bytes and failures in order;
* **errors without a type**: an `Error` is a string, and everything else known about it
  is in a record that the next raise on the thread overwrites;
* **packed tables**: the Unicode data is ranges of code points folded into words,
  strides and prefixes, and one code point off is one answer wrong in a million.

The **tools** (`tools/`) write part of the library and decide whether the rest may be
merged: a generator of JSON codecs that reads sources without a parser, a test runner
that is one binary, two threads and a deadline, and a linter, a count of what is done
and a package by package build over one tree of manifests. What is hard in them is that
a wrong answer is green: a test that did not run, a race nobody read, a cycle that was
not closed, a field that was not seen.

| Component | State it keeps | Operations | What makes it correct |
| --- | --- | --- | --- |
| `runtime/box` | a heap block with a count and a value, shared by handles | create, copy, move, get, destroy | no value used after it is destroyed, each destroyed once, none left |
| `errors` slot | a pthread key; a block per thread | install a record, thread exit | each thread has a cell of its own, freed at its exit |
| `errors` records | links of a record, by index; captured records | new, wrap, join, capture, re-raise, unwrap, code, matches | an error answers only for itself; wrapping and capturing keep the chain |
| `bufio.Reader` | window, kept failure, what unread puts back | 12 reading methods, reset | the stream whole and in order, failures in place, runes and line endings whole |
| `bufio.Writer` | buffer, kept failure | write, write_byte, write_rune, flush, read_from, reset | the sink has a prefix of what was accepted; a failed sink is left alone; exact counts |
| `bufio.Scanner` | window that grows to a limit, splitter | has_next, next | every token whole; no endless loop |
| `io` | readers made of readers; none in `copy` | copy, copy_n, limit, multi, tee, section | counts and failures across both sides |
| `os/signal` | the pipe, remembered dispositions | notify, ignore, stop, reset; the handler | every signal finds its reader; the first stop restores; errno untouched |
| `os` processes | descriptor table, child | start_process, wait | the child has the files named; the answer is true; nothing is left |
| `os/exec` | a command's descriptors, temporary file, process | start, wait, output, combined_output, pipes | everything opened is closed, also when a step fails |
| `os` files and roots | descriptors, a walk over a directory tree | open, read, write, walk without leaving the tree | no name leads out of a Root |
| `unicode` | none at run time; the generators' tables | derive, pack; is_in, predicates, to_upper, simple_fold | a search answers what the database says, for every rune |
| `encoding`, `compress/flate` | streaming encoders keep a partial group; inflate a window | write, close; read | nothing lost between calls |
| `fmt`, `strconv`, `time`, `math`, `strings`, `bytes`, `sort`, `path` ... | none between calls | functions | values, which tests against Go's tables cover better than a model checker |
| codec over docjson | what was read, planned, written | scan, resolve, plan, emit; the emitted encoders and decoders | fields as the compiler sees them; the largest plan; what is written reads back |
| mojotest | the generated main, a child, the drained output | discover, share, build, run, judge | green means every owed test ran well, unless one quit the process; shards then add up; a deadline ends the run |
| lint, parity, pkgbuild | manifests and files; waivers, renames, the README block | check, count, write, build alone | a clean lint is layered; a green count is true but for names a package lends to the one above; a clean tree builds package by package |
| other tools | checked in files | compare, print, vendor | reviewed output |

They meet in few places. Every raise goes through `errors`. `bufio` holds failures as
captured errors and reads counts with `partial`. `os/exec` starts processes with
`os`, which calls the C shim; the child inherits the descriptors and, up to the reset,
the handlers of `os/signal`. `math/rand` keeps its global generator in a second
instance of the slot of `errors`.

The tools meet over files: `gen` writes `core/unicode`, codec writes `json_codec.mojo` into a package,
and lint, parity and pkgbuild read the same tree through `lib/tree.py`.

PROJECT.json lists every component with its sources, and every hazard with its line.

## The modules

| Module | Models | State |
| --- | --- | --- |
| `ErasedBox` | `runtime/box/erased.mojo` | `address`, `stage`, `source` of a handle; `count`, `cell` of a block |
| `ThreadSlot` | `errors/shim/slot.c`, `_install` and `_free` of `record.mojo` | the key, `specific` (the slot) of a thread, the heap, a program counter per thread |
| `ThreadCell` | what the slot promises | a cell per thread |
| `ErrorRecords` | `record.mojo`, `chain.mojo`, `value.mojo` | the record in each slot, the errors a thread holds, captured errors |
| `BufReader` | `bufio/read.mojo` | the fields of `Reader`, the call under way with its locals |
| `BufWriter` | `bufio/write.mojo` | the fields of `Writer`, the call under way |
| `SignalPipe` | `syscall/shim/signal.c` under `os/signal` | `source`, `sink`, `saved`, `held`; dispositions, errno, handler frames |
| `Spawn` | `syscall/shim/spawn.c` under `start_process` | the descriptor table of the parent and of each child, locals of `spawn` and `child` |
| `UnicodeTables` | `gen/ucd.py`, `gen/unicode.py` | the database as it is read, orbits, the run being extended, the packed words and where each name is |
| `UnicodeSearch` | `unicode/letter.mojo`, `graphic.mojo` | none: operators over a finished table |
| `DocScan` | `docjson/read.py`, `declarations` | none: a recursion over the lines of a source |
| `DocNames` | `docjson/read.py`, scopes and names | none: what a spelling means in a module |
| `CodecPlan` | `codec/plan.py`, `tags.py` | the package, `known`, `reasons`, the pass under way |
| `CodecFile` | `codec/emit.py`, `run.py`, and a program using the file | the file, a document, what was sent, what came back |
| `TestSuite` | `mojotest/run.py` | the main of each checkout; of each run its place, its child, the pipe, what was collected and said |
| `PackageTree` | `lib/tree.py` | manifests and files |
| `Lint` | `lint/run.py` | the frames of the walk, depths, problems |
| `Parity` | `parity/run.py`, `rules.py` | waivers, renames, the README block, the last run |
| `PackageBuild` | `pkgbuild/run.py` | what could not be built |
| `TreeTools` | the three over one tree, with edits between them | theirs |

`MC*` modules give the constants their values. `*Proofs` modules hold theorems.
`ErrorRecords` takes from `ThreadSlot` that a thread's slot is its own cell.
`UnicodeSearch` extends `UnicodeTables`, `CodecFile` extends `CodecPlan`, `DocNames` and
`DocScan`, and `TreeTools` composes `Lint`, `Parity` and `PackageBuild` over `PackageTree`; the
others are independent of each other.

**Granularity.** A step is what no other actor can see inside of: one atomic operation
in `ErasedBox`, one call into C or pthread in `ThreadSlot`, one system call or one store
in `SignalPipe` and `Spawn`, one iteration of a method's loop, with at most one call of
the source or the sink, in the buffers, and a whole call in `ErrorRecords`, whose
threads share nothing but errors handed over. In the tools it is one round of a loop
that carries state (a call of `walk`, a code point of a run, a pass over the structs), a
whole function where it does not, and in `TestSuite` one step of the run, of its child or of its drain thread.

**Data.** A byte is its position in the stream, so that losing, repeating or reordering
one shows. Positions that hold a delimiter, a carriage return or the start of a longer
rune are given by constants. A message is the sequence of the texts it was put together
from. A file is the thing a descriptor leads to.

**Names ending in a word after an underscore**, such as `Fill_NoSlide`, are variants: what the
code would be with a mistake in it. Each property has one that breaks it, listed under
"mutants"; no specification uses them.

### ErasedBox
The copy constructor and the destructor are split at `fetch_add`. What the borrow checker
guarantees is a guard: a handle being copied from is neither moved nor destroyed.

### ThreadSlot and ThreadCell
`pthread_once`, `getspecific`, `malloc`, the store of the release function and
`setspecific` are each a step. Without memory the record is dropped. Without a key, and when
`setspecific` fails, whose answer nobody looks at, the block is held by nothing from then on
(`SetNowhere`); the history `lost` names these blocks, and `OneOwner` says that nothing comes back to them. `IsCell` maps the record a slot points to, and nothing
for a slot whose thread is leaving, to the cell.

### ErrorRecords
`absorbing_record` and `subtree` are the splice and the cut of the link arena, with the
index arithmetic of the code. `Walk` is the list that grows while it is passed, `Copied` its length when the
first links have been, and `Joined` the loop of both joins. `locate` finds the link with the message of an error. Two
errors with one message are one to this mechanism; properties are stated of messages.

### BufReader and BufWriter
`Fill`, `Consume` and `Take` are `_fill`, the movement of `start`, and `_take`. The source
answers with any portion that fits, nothing at all, the end, or a fault. `result` keeps how
the last call ended. `Clients` are sets of methods, because two properties are false of
some of them and the runs say which: `FillsOverHeld` (discard and write_to) and
`PutsBackBlindly` (unread_byte after write_to). In BufWriter `took` is what this call
accepted and `count` what the raise says.

### SignalPipe
A handler is a frame on top of its thread's call, and steps of the thread wait for it. It
interrupts between any two steps, also another handler, but not one of the same signal. An `errno` is
set by a failing call and read one step later, with room for a handler in between. Three histories say
what a stop has to put back: `original` is what the program started with, `taken` the signals notify or ignore took over since their
last stop, and `reset` the ones that a stop of nothing taken over set to the default. So the first stop must put back what was there, and a stop that always
sets the default breaks `StopRestores`.

### Spawn
The threads of the parent share one table. A child is a copy of it at the fork; descriptors
above the slots are whatever was open. A step can fail wherever the call behind it can. `Read` ends when
nobody has the write end any more, other threads' children included. A signal may kill
the child before exec.

A slot may name any number, also one nothing is open at (`Stale`), or one another thread's pipe is at: nothing in the
code looks. The pipe of the start itself may then take the number, and the child keeps it in the slot for the program, which
may write to it and be read as a failure, or read from it (`ProgramWrites`, `ProgramReads`). The history `lent` says that a program was given an end of the
pipe of a start in a slot; `AnswersTruly` and `StartIsAnswered` leave these starts out,
which the run reaches, and no others. A thread has one program at a time, and starts the next when no child holds an end of the pipe of its last start any
more, because the model has one name for the pipe of a thread. A parent that starts the next while an older
program has that pipe is not in the model; its new pipe is another one, which that program has not.

### UnicodeTables and UnicodeSearch
A small database with the edges where they are in the real one: ASCII, Latin-1, sixteen
bits, the last code point. The generators run from the rows of the file to the packed words;
`Stage` by stage, `LoadRow`, `LoadFolding`, the orbits, one code point of a table (`PackOne`) or of
the case rows (`CaseScan`) at a time. In the finished table every search of `letter.mojo` is an operator,
the linear scan and the binary search both. The reference is the database itself
(`RowsOf`, `GivenCodes`, `GivenCase`, `FoldClass`), read from the rows without the generator. What a database keeps is
`FilesAssumption`: rows in order and apart, no block with a case, one folding of a code point, which folds no
further, the case of a case itself, and the case mappings of ASCII. The vendored `tests/data/ucd` keeps all of
it. Full foldings and Turkic ones are in the files and are to be skipped.

### DocScan, DocNames, CodecPlan and CodecFile
A package is what `mojo doc` says and the lines of its sources. A line carries what it is to
the compiler and what the scan can see of it, so `ScanLine` can be wrong: it takes an annotated
local of a method for a field, as the code does. What the compiler reads is said by line numbers, without the scan
(`OpenAfter`, `BodyLines`, `OwnFields`). `SourcesAssumption` is that the compiler took the sources of a package (`IsSource`:
a declaration and a type go on while a bracket is open and no longer, and no two structs of a module have one name) and
that a struct of a module whose source was found is declared in it. `AsWritten` and `AsRendered` are the two ways to resolve a
name. The plan has the code's three passes. `Compile` is what the compiler asks of the
file; a package whose file it refuses ends in the stage `broken`, and the run
reaches it in each of the ways the hazards name. `Encode` and `Decode` are the emitted
functions by recursion over the plan of a type, on tokens.

### TestSuite
Runs share the checkouts' generated main. A run goes from its command line over discovery, the
shard, the main, the build, the child, the drain thread and the deadline to its verdict; the
child's output goes through a pipe of bounded room that a process left behind may hold open. What a run
owes (`Owed`) is said without the scanner, from the lines. A test may pass, fail, race, hang, leave a process behind, crash, which
ends the process with a code that is not zero, or quit, which ends it with the code zero. The run looks at the exit code, and at the output only
for the sanitiser's lines, so a quit is a green end: the tests after it are not called, and a failure before it is not told.
`GreenMeansGood` and `ShardsAddUp` say what is true of every green run and what only of those no test quit.

### PackageTree, Lint, Parity, PackageBuild and TreeTools
`walk` is modelled a call at a time with its frames. `Names` stand for dotted names;
that the text of one may begin another without being its parent is `StartsWith` against
`Below`. `TreeTools` lets people edit the tree, the two escape hatches and the README between
runs of the tools, which run one at a time.

`StandsAlone` and `GreenIsTrue` have hypotheses, each found to be needed (the drafts and
the graphs `Misled` and `Chain` of `MCTreeTools` break the property without it). A package in `core/a/c` called
`other.a.c` passes the linter, which compares the parts after the first (lint/run.py:125), and its imports
are charged to the package above it; and a file may be named like a package without code. So `Whole` asks that names
begin with core and that an import is a file of the package its name is in (`Holds`). A type that one
package publishes and another publishes in turn loses its members in the count, so `Followed` asks
that a published name is declared where it is imported from.

`Offers` is of the files of a package alone, as `lib/tree.py` and `pkgbuild` have it; `Doc` is what `mojo doc` tells of a directory, packages under it
included. So a package can have a name counted that only a package under it declares (`Lent`). `GreenIsTrue` allows these names among
the present ones and no others, and where there are none the number is exact. The drafts nest packages with and without such a name.

## The runs

| Run | Bounds | States | What it shows |
| --- | --- | --- | --- |
| erased_box | 4 handles, 2 blocks | 3,425 | no use after free, one release, every box freed in the end |
| thread_slot | 3 threads (one is main), 2 blocks | 59,825 | the slot is a cell; one owner; exit frees |
| errors | 2 threads, 1 library error, 1 foreign, 3 sets of bounds | 99,590 | trees stay trees; no error answers for another; chains survive |
| buf_reader | input of 5 with a rune of two, CR, LF and a cut rune; buffer of 3; 2 clients | 50,770 | stream, failures, runes, endings, termination |
| buf_writer | buffer of 3, writes up to 5, 6 bytes accepted | 148,738 | sink gets a prefix, sticks on failure, exact counts, termination |
| signals | 2 threads, a signal that can be caught and one that cannot, pipe of 1 byte | 74,246 | signals find their reader, errno, restore |
| signals_full | as signals | | a handler waits for ever on a full pipe |
| spawn | 3 tables, every arrangement of 3 slots with -1 and 5 numbers, open or not; one table for 2 threads with 3 requests | 198,225 | files, answers, leftovers, termination |
| unicode | 13 code points; pairs, digraphs, orbits of three at every place, sets of every shape | 179,589 | tables, is_letter, is_upper, is_lower, is_title, case mappings and folds are those of the database |
| codec | packages of up to 3 structs, sources of up to 3 pieces beyond a field, documents of up to two values | 75,641 | fields are found, the plan is the largest, what is written reads back |
| suite | 2 runs in one checkout, 6 files, 10 command lines | 180,243 | green means good, shards add up, a deadline ends the run |
| tree_tools | every graph of 3 packages with 5 sets of tiers, every one of 2; trees that mislead the linter; 23 drafts that are edited | 338,856 | a clean lint is layered, a green count is true, packages stand alone |

Why the bounds are enough. A buffer of three holds less than the input, more than the
longest rune of the model, and every relation of `start`, `stop` and the end of
the buffer occurs: empty, full, in the middle, a sequence across the edge. Two blocks of
memory are enough for reuse and for running out. Four handles let three share a box while
a fourth makes another. Three slots are the least where the two passes meet a cycle and
where the pipe lies inside the slots. The bounds `Last`, `MaxOwed`, `Longest` and
`Bounds` cut off only growth, never a way of answering. In `unicode` the free code points
lie on both sides of both edges, and there are enough of them for two runs with different
strides and a gap; `LINEAR_MAX` is 1, so tables of two runs are searched. In `codec` a list
has one element and a dictionary one key, which is enough for each comma the encoder
decides about, since commas of members, not of elements, are what it finds out at run time. Two
runs are the least that can disturb each other or be two shards, and three packages the least with
a cycle that is entered from outside. Graphs in `tree_tools` are linted and built, not edited; drafts are
edited into one another.

Deadlock is checked in the runs of the buffers, boxes, slots, errors and `tree_tools`. The
`unicode`, `codec` and `suite` runs come to an end by themselves and stop. It is not checked in
`signals`, where a full pipe really stops every thread, nor in `spawn`, where waiting for a program that
never ends is not an error.

**Fairness.** A call that was begun goes on (`WF` of `Step`, of a thread in `spawn`, of a
child until it is the program): the code has no lock or wait inside a call other than the
ones modelled. Clients need never call, programs need never end, signals need never come.
`signals_full` gives the handler strong fairness, so that a write that could go on again and
again is not what stops it; the counterexample is a pipe that stays full. In `suite` a run that can move does, in one of
its threads or in its child: the compiler ends, the clock of a deadline runs out, and a
test that neither hangs nor ends the process returns; a test that hangs owes nothing. The model takes the 30 seconds of the last join
to be enough for a drain of an ended suite, unless another process holds the pipe.

**Types.** `TypeOK` (`SlotTypeOK`) is proved wherever a module with proofs has one, as part of the invariants. In
`ErrorRecords` `RecordsTypeOK` documents the variables; what it says of records and messages is proved with `RecordsInv`,
and the bounds of the run hold by TLC when it is added to the run.

### Disagreements with the repository
One run is expected to fail, against a sentence quoted in PROJECT.json: the full signal
pipe blocks where signal.c:91 says it drops (`signals_full`). Others were met while modelling. They are
hazards with a note, and the property beside each says what it leaves out:

* a failure that spawn reports is not always one where "no program started" (spawn.c:212): a program that was given the report pipe
  in a slot can write it;
* "sharding is the only thing here that can lose a test without anything going red" (mojotest/run.py:504), and so can a test that ends
  the process with the code zero (:484 looks at nothing else) and another run in the checkout, whose main is built in place of its own (:458);
* a subpackage "answers for itself" (lib/tree.py:33), and parity counts its names for the package above (parity/run.py:233);
* a failure kept by `bufio.Reader` is overwritten by `discard` and `write_to`
  (read.mojo:283 against :21), and `read_bytes` drops what it collected when the input ends
  (:526 against :511);
* a writer that already failed raises an earlier call's count (write.mojo:190 against :180), and `read_from`'s
  failure in the fast path is not kept;
* unwrap of an error with an empty context finds no code (chain.mojo:56 against :176);
* `start_process` with fewer than three files leaves the parent's standard streams open in
  the program (spawn.c:159 against os/spawn.mojo:461); a child killed before exec counts as started; the report
  pipe crosses into a program started by another thread;
* an imported type called `Int` gets an integer codec, a struct with a skipped member is
  called for a decoder it has not, two struct names may share one function name
  (plan.py:192 against :5); an annotated local of a method counts as a private field
  (read.py:107 against :102);
* a block that pthread_setspecific did not take leaks, because slot.c:103 does not look at its answer;
* an import is charged to a package whose
  name it merely begins with (lint/run.py:186), and a package whose name does not begin with core passes (:125); of an import line with several modules the linter's pattern reads the first (:89); `lib/tree.py` says the linter reports a
  directory without a PACKAGE.toml, and it does not; a failing `mojo doc` counts as an empty
  package and `parity --write` records that (parity/run.py:254).

## The proofs

TLAPS proves these for every value of the constants allowed by the named assumptions of
the module, from the whole specification:

| Theorem | States |
| --- | --- |
| `RuntimeProofs!UseAfterFreeImpossible` | `Spec => []NoUseAfterFree` |
| `RuntimeProofs!ReleaseIsExact` | `Spec => [](ReleasedOnce /\ NoLeak)` |
| `RuntimeProofs!RecordsStayTrees` | `RecordsSpec => []RecordsAreTrees` |
| `RuntimeProofs!AnswersStayTheirOwn` | `RecordsSpec => []AnswersAreItsOwn` |
| `RuntimeProofs!WrapsKeepTheChain` | `RecordsSpec => WrapKeepsChain`, an action property |
| `RuntimeProofs!CapturesLoseNothing` | `RecordsSpec => CaptureLosesNothing`, an action property |
| `RuntimeProofs!WalkMeetsAll` | the walk from the root of a record meets every link |
| `RuntimeProofs!BlocksHaveOneOwner` | `SlotSpec => [](OneOwner /\ SlotsHoldRecords)` |
| `RuntimeProofs!SlotIsCell` | `SlotSpec => IsCell`, a refinement of `ThreadCell` |
| `BufReaderProofs!ReaderKeepsTheStream` | `Spec => []StreamIntact` |
| `BufReaderProofs!ReaderKeepsFailures` | `Spec => [](NoFailureLost /\ NeverFillsFull)` |
| `BufReaderProofs!ReaderDropsNothing` | `Spec => []NothingDropped` |
| `BufReaderProofs!FailuresKeepTheirPlace` | `Spec => FailureInPlace`, an action property |
| `BufReaderProofs!EdgeOfBufferHidden` | `Spec => EdgeDoesNotShow`, an action property |
| `BufWriterProofs!WriterKeepsTheStream` | `Spec => [](TypeOK /\ StreamIntact)` |
| `BufWriterProofs!FailedSinkLeftAlone` | `Spec => SinkLeftAlone`, an action property |
| `BufWriterProofs!FailuresCountWhatWasTaken` | `Spec => CountWhenFailing`, an action property |
| `SignalPipeProofs!HandlersFindThePipe` | `Spec => []SignalsFindTheirReader` |
| `SignalPipeProofs!HandlersKeepErrno` | `Spec => []ErrnoIsOwn` |
| `SignalPipeProofs!StopPutsBack` | `Spec => StopRestores`, an action property |
| `SpawnProofs!ProgramHasItsFiles` | `Spec => []GivesWhatWasAsked` |
| `SpawnProofs!AnswerIsTrue` | `Spec => []AnswersTruly` |
| `SpawnProofs!OpenedStays` | `Spec => []OpenedStaysBehind` |
| `SpawnProofs!LeavesNothing` | `Spec => []NothingLeft` |
| `UnicodeProofs!SpecTablesExact` | `Spec => []TablesExact` |
| `UnicodeProofs!SpecCaseExact` | `Spec => []CaseExact` |
| `UnicodeProofs!SpecFoldExact` | `Spec => []FoldExact` |
| `ToolProofs!PlanLosesNothing` | `PlanSpec => []PlanIsGreatest` |
| `ToolProofs!SourcesAreRead` | `PlanSpec => []SourceIsRead` |
| `ToolProofs!FieldsAreFound` | `declarations` finds the fields of a struct in a source of any length |
| `ToolProofs!GreenRunsAreGood` | `Spec => []GreenMeansGood` |
| `ToolProofs!ShardsAlwaysAddUp` | `Spec => []ShardsAddUp` |
| `ToolProofs!GreenRunsCalledAll` | `Spec => []GreenCalledAll` |
| `ToolProofs!ScanIsRight` | `scan` finds each test of a file with its markers |
| `ToolProofs!ShardsPartition` | each of `count` files is in exactly one of `n` shards |
| `TreeToolsProofs!LintKeepsLayers` | `Spec => []GreenMeansLayered` |
| `TreeToolsProofs!PackagesStandAlone` | `Spec => []StandsAlone` |
| `TreeToolsProofs!ReadmeIsTrue` | `Spec => []GreenIsTrue` |

Each follows from `Spec => []IInv` (`RecordsInv`, `SlotIInv`, `CallInv`, `SuiteInv`, `PlanInv`, `ToolsInv`, `DatabaseInv`, `CasesInv`), by one
lemma per action. `RuntimeProofs` holds what is proved of `ErasedBox`, of `ErrorRecords` and of `ThreadSlot`, whose
specifications are called `RecordsSpec` and `SlotSpec` for that, `UnicodeProofs` what is proved of `UnicodeSearch`, `ToolProofs` what is proved of `CodecPlan` with `DocScan` and of `TestSuite`,
`TreeToolsProofs` what is proved of `Lint`, `Parity` and `PackageBuild` in `TreeTools`.

* **ErasedBox.** That a held box is alive is not inductive: a destructor acts on the
  number it reads. `IInv` adds that the count of a block is the number of its holders, a copy under way counting
  through its source (`CountIsHolders`), and what a handle's stage says of its other
  fields (`StageShape`, `CellOfBlock`). A destructor that reads one is then the only
  holder. `HandleAssumption` makes the handles finite, so that they can be counted.
* **ThreadSlot.** `OneOwner` needs to know where each thread is in `_install` and which
  block it carries there, and that a block that is lost is nobody's (`Places`). The refinement then has one step per action: only
  `Assign`, a successful `Set` and `Exit` change the cell.
* **ErrorRecords.** `RecordsInv` says of every record in a slot or a captured error that it is an `Arena`: each
  link but the root is the kid of one earlier link at one place (`Shape`), a message contains what is said under its
  link, and a code is that of its own message (`Says`). That a message contains its causes is not in the properties, but is what
  keeps an answer among the codes of the message asked for. A splice keeps it by the arithmetic of the offset (`AbsorbArena`).
  A cut needs to know its walk: `Copying` relates the links met to where the kids of each passed link come among them, so
  it meets no link twice and ends within as many rounds as there are links (`WalkCopies`), and the numbers
  `subtree` gives are those places (`CopiedIs`). Joins are by induction on the number of causes, of any number. `ContextAssumption`
  says that a context is a message, made of texts.
* **BufReader.** `StreamIntact` says that the window holds the bytes from `taken + 1` to
  `fed`. The methods keep it as long as what unread puts back is really the last byte, or
  the last rune, and a call's locals point into the window: `LastByteIsLast`,
  `LastRuneInBuffer`, `WindowOfBytes` and `CallShape` of `IInv`. `SizeAssumption` (a buffer takes the longest
  rune) is what makes `read_rune` never fill a full window; the code's minimum of 16 implies it. That the longest
  rune has two bytes or more is what lets `read_line` keep a carriage return back in a full window
  and still give out something. `CallInv` follows a call under way: what it collected and what is in the window are
  what it took (`Tally`), the carriage return kept back is the last byte of the window (`HeldAtEdge`), and
  what a search has passed has no delimiter in it (`Searched`).
* **BufWriter.** What the sink has and what is buffered follow from where a call is in its loop
  (`CallShape`): what it has accepted is the offset of its locals. A writer whose sink failed
  holds the failure, unless `read_from` met it in the fast path, and so enters no loop.
* **SignalPipe.** The invariant goes step by step through `core_syscall_signal_catch`: before the handler is
  installed, both ends are published (`EndsInv`), also for a call that only remembers. What is remembered, or on its way between
  `sigaction` and the memory, is what was there before (`Before`), and a signal is `taken` exactly as long as that is so (`DispositionInv`). Of the
  frames on a thread, the one that loaded errno first has the call's, and the others
  what the frame under them will put back (`ErrnoInv`). `CallerAssumption` is the sentence above core_syscall_signal_pipe:
  one thread sets the program up.
* **Spawn.** `Setting` says for each slot, by the place of the child in its two passes, where
  its source is now, and that no later step writes over it; for a number nothing was open at, only that no file of the parent is there that no slot was named for. The report pipe is above the slots once moved. End of
  file is read only when no table holds the write end: `EndsInv` counts who can hold it, whatever the other threads
  forked. `FdAssumption`, `FileAssumption` and `RequestAssumption` say what a descriptor and a request are.
* **UnicodeTables and UnicodeSearch.** From the rows of any database that keeps `FilesAssumption` to the answers of the
  searches, in three arguments.
  The database: after each pass a code point has what its row and its folding say (`CharsInv`), a group is all that folds
  together, and what has no group is `Alone`, with its case mappings saying what it folds to (`OrbitsInv`).
  The tables: while a set is packed, the finished runs and the run in hand hold just the members that were passed, in order
  and with no run across the sixteen bit edge (`Packing`); a table laid in `words` is never disturbed and may be
  shared (`TablesInv`). The two searches answer whether a run has the rune, `Search` by induction on the
  number of runs left, and the halves and the skipped Latin-1 runs do not show (`TableAnswers`).
  The case rows: the written rows and the run in hand cover what was passed but for what maps to itself
  (`CasesInv`). That the case of a case is itself is what makes two neighbours take turns in an alternating run. The fold
  then follows from all three: the rows of the table of orbits are found by halves (`OrbitFound`), and the pairs left
  out of it lead to each other by their case mappings (`FoldsAnswer`).
* **Lint.** The property is of the end; the invariant is that of a depth first search which
  has found no problem. What is in `depth` is final and one more than its deepest dependency
  (`Walked`); a frame has taken the deepest of what it has passed (`FrameRight`); no name is in two
  frames, or a cycle would have been a problem. `NamesAreText` is what dots and letters give. It is proved of
  `TreeTools`, so through any edits between the lints.
* **PackageBuild.** `Closure` adds what is needed, a step at a time, for as many steps as there are
  names. By then it is closed: a step that adds nothing is the last that could, and the others each add a name
  (`ClosureIsClosed`). The invariant (`ToolsInv`) remembers what the lint found, and that the build looked at the same tree.
* **Parity.** A green and answered run means that nothing was misspelt or stale and that the README has the numbers of this tree
  (`CountSaw`). The rest compares sets: what is present can be imported, by the way it was published
  (`ReexportedCanBeImported`), and the other way round (`ImportedIsReexported`); what `mojo doc` tells of a directory is what its package declares and what is lent to it (`DocIsOffered`). `GoIsFinite` makes the sets countable.
* **CodecPlan.** The last pass goes down from a set that contains every writable one and
  never leaves one (`Around`), and where it stops the set is writable. Nothing is assumed of how a field is
  encoded, so it holds for whatever the scan and the names say.
* **DocScan.** `FieldsAreFound` follows the scan line by line (`ReadTo`): it is in a declaration exactly while the compiler
  is, with the same brackets open; it is inside the struct exactly on the lines of its body; and a type is being joined
  exactly while a bracket of one is open, so that no field is met then. Each field passed has its entry, and where
  nothing is a local the entries are those of the fields, in order (`EntryAppended`). A comment behind a declaration or
  inside a type and text in column zero break the first two, which is why `Readable` excludes them.
* **TestSuite.** The invariant follows what a green verdict looks at, the exit code and the
  lines collected, back to the calls: exit code 0 is only said when every call was made and
  none failed, or when a test quit, and the line of a race is in the pipe or collected (`ChildRight`); a
  joined child has ended and its pipe is drained (`DoneRight`); a run that built what it
  wrote built what it found (`MainRight`). What it found is what its files owe: `ScanIsRight` follows the scanner
  line by line, with the markers that wait (`After`), by induction on the number of lines. `ShardsPartition` is
  arithmetic: the places that divisions deal out are an interval, and the intervals meet; files are at different
  places of their order, so what a shard is dealt is dealt to no other.

**Only model-checked.** `DocNames` and `CodecFile` have no proofs, so `ReadsBack` is TLC's.
Liveness (`EventuallyFreed`, `CallsEnd`, `StartIsAnswered`, `ExitFrees`, `DeadlineReports`) is TLC's, and so is
everything about `ENABLED`. An induction can be done here over numbers, by the least number for which a
statement fails, as `ScanIsRight`, `FieldsAreFound`, `ClosureIsClosed`, `WalkCopies` and the searches of `UnicodeProofs` do; the theorems of the library that take
a statement as a parameter cannot be used. What is left are recursions over structures: the encoders, which are RECURSIVE operators in a module no proof reaches.

## Not modelled
Pure functions over values (formatting, parsing, calendar and number arithmetic, string
search) are left out; tests against Go's tables say more of them than bounded
enumeration. Single system calls wrapped in Mojo do what the platform does. Packages that
are only a `PACKAGE.toml` have no code. Within modelled components: fields and typed
extraction of errors; `signal`, `kill` and `release` of a process; the printing of the
Unicode tables as source; import lines, which docjson and the linter find by patterns and the model is
given; the predicates of `graphic.mojo` that name one category or join several (`is_number`, `is_punct`, `is_symbol`, `is_mark`, `is_space`, `is_control`, `is_graphic`, `is_print`); the codec's limit on nesting and the widths of numbers; the linter's checks of single lines, whose
result is the marks of a file; the list of private hosts it reads from the environment; `goapi.txt`, which the parity count reads
and this commit does not have, so what Go exports is a constant. The selftests of the tools,
and the tools that run a program and compare what it printed (baseline, differ, fuzz, warnings, probe, testgen,
vendor, fmt), are one step after the other over files that are reviewed.

## Plan

What is left, the most important first:

1. `Command` (`os/exec/cmd.mojo`): descriptors, temporary file and process of a command,
   with each step failing; handles of a process and the reuse of its id. It uses an abstract
   `start_process`, which `Spawn` is to be shown to implement.
2. `CopyLoop` (`io/copy.mojo`) composing a source, `BufReader`'s and `BufWriter`'s
   promises and a sink, with the fast paths; an abstract `Stream` (a prefix of the input has arrived)
   that both buffers implement.
3. `Scanner` (`bufio/scan.mojo`): the growing window, empty tokens, the splitters.
4. `RootWalk` (`os/root.mojo`): the walk over a tree that another process changes.
5. Proofs: `ReadsBack`, once the encoders and decoders are functions by the depth of a type and not RECURSIVE operators.
