----------------------------- MODULE SpawnProofs -----------------------------
(***************************************************************************)
(* Starting a program, for any number of threads, any descriptor table and *)
(* any list of files, the numbers nothing is open at included: the program *)
(* has the files that were asked for and nothing else the library opened,  *)
(* the answer is what happened unless a program was given the pipe it is   *)
(* read from, and nothing is left behind.                                  *)
(***************************************************************************)
EXTENDS Spawn, WellFoundedInduction, TLAPS

Start0 == {"pipe", "mark read", "mark write", "fork"}
BeforeExec == {"setup", "report", "first", "second", "exec"}
Given == Streams \cup Opened

\* A child's record.
ChildRecord == [at : ChildPlaces, table : [Fd -> Entry], fds : Seq(Int), i : Nat, report : Fd,
                asked : Seq(Given \cup {NoFile, Stale})]

\* The parent's table: what was opened is close on exec.
TableInv ==
  /\ table \in [Fd -> Entry]
  /\ \A f \in Fd : table[f].file \in Opened => table[f].cloexec

\* An end of a pipe is at one place, and only while its call needs it.
EndsInv(t) ==
  /\ Holds(table, WriteEnd(t)) <=> call[t].at \in {"mark read", "mark write", "fork", "close"}
  /\ \A f, g \in Fd : table[f].file = WriteEnd(t) /\ table[g].file = WriteEnd(t) => f = g
  /\ Holds(table, ReadEnd(t)) <=>
       call[t].at \in {"mark read", "mark write", "fork", "close", "read", "close read"}
  /\ call[t].at = "fork" => \A f \in Fd : table[f].file = WriteEnd(t) => table[f].cloexec

\* What a caller that gives this number names.
Names(tab, fd, want) ==
  \/ fd = -1 /\ want = NoFile
  \/ fd \in Fd /\ want \in Given /\ tab[fd].file = want
  \/ fd \in Fd /\ want = Stale /\ tab[fd].file \notin Given

\* What the caller named is what is there until the child has it.
NamedInv(t) ==
  call[t].at \in Start0 =>
    /\ call[t].files \in Seq(Fd \cup {-1}) /\ call[t].files # <<>>
    /\ 0 .. Len(call[t].files) - 1 \subseteq Fd /\ Len(call[t].asked) = Len(call[t].files)
    /\ \A j \in DOMAIN call[t].files : Names(table, call[t].files[j], call[t].asked[j])

\* Where the call and the child are, and what became of it.
FateInv(t) ==
  /\ call[t].at \in Start0 => child[t].at = "none"
  /\ call[t].at \in {"close", "read", "close read", "wait"} =>
       child[t].at \in BeforeExec \cup {"failed", "running", "exited"}
  /\ child[t].at \in BeforeExec \cup {"failed"} =>
       fate[t] = "none" /\ (call[t].at \in {"close", "read"} \/ lent[t])
  /\ child[t].at = "none" => fate[t] = "none"
  /\ child[t].at = "running" => fate[t] = "program"
  /\ child[t].at \in {"exited", "reaped"} => fate[t] \in {"program", "failed", "killed"}
  /\ call[t].at = "idle" /\ call[t].result = "failed" => child[t].at \in {"none", "reaped"}

\* Where no program has the pipe, the answer and the report agree with what became of it.
TruthInv(t) ==
  ~ lent[t] =>
    /\ call[t].at \in {"mark read", "mark write", "fork"} => said[t] = "nothing"
    /\ call[t].at \in {"close", "read"} =>
         said[t] # "part" /\ (said[t] = "errno" <=> fate[t] = "failed")
    /\ call[t].at = "close read" =>
         \/ call[t].got = "end" /\ fate[t] \in {"program", "killed"}
         \/ call[t].got = "errno" /\ fate[t] = "failed"
    /\ call[t].at = "wait" => fate[t] = "failed"
    /\ call[t].at = "idle" =>
         /\ call[t].result = "started" => fate[t] \in {"program", "killed"}
         /\ call[t].result = "failed" => fate[t] # "program"

\* What a slot may have when this was asked for it.
Suits(c, have, want) ==
  \/ want # Stale /\ have = want
  \/ want = Stale /\ (have \in Given => have \in Range(c.asked))

\* A slot whose source has still to be read: the source has what was asked.
Sourced(c, j) ==
  \/ c.fds[j + 1] = -1 /\ c.asked[j + 1] = NoFile
  \/ /\ c.fds[j + 1] \in Fd /\ c.asked[j + 1] \in Given \cup {Stale}
     /\ Suits(c, c.table[c.fds[j + 1]].file, c.asked[j + 1])

Filled(c, j) == Suits(c, c.table[j].file, c.asked[j + 1]) /\ ~ c.table[j].cloexec

\* No slot before j is the source of slot j.
Ahead(c, j) == c.fds[j + 1] = -1 \/ c.fds[j + 1] >= j

\* Nothing of the library is inherited outside the slots.
Hidden(t, c) ==
  \A f \in Fd :
    /\ c.table[f].file # ReadEnd(t)
    /\ f >= Len(c.fds) /\ c.table[f].file \in Opened \cup {WriteEnd(t)} => c.table[f].cloexec

\* A child that can say why it failed.
Reports(t, c) == c.table[c.report].file = WriteEnd(t)

\* A child between fork and exec.
Setting(t, c) ==
  /\ Reports(t, c)
  /\ Len(c.asked) = Len(c.fds) /\ Len(c.fds) > 0 /\ 0 .. Len(c.fds) - 1 \subseteq Fd
  /\ c.i \in 0 .. Len(c.fds) - 1
  /\ c.at \in {"setup", "report", "exec"} => c.i = 0
  /\ c.at \in {"first", "second", "exec"} => c.report >= Len(c.fds)
  /\ Hidden(t, c)
  /\ \A j \in 0 .. Len(c.fds) - 1 :
       /\ c.at \in {"setup", "report", "first"} => Sourced(c, j)
       /\ c.at = "first" /\ j < c.i => Ahead(c, j)
       /\ c.at = "second" /\ j >= c.i => Sourced(c, j) /\ Ahead(c, j)
       /\ c.at = "second" /\ j < c.i => Filled(c, j)
       /\ c.at = "exec" => Filled(c, j)

\* A child that became the program.
Became(t, c) ==
  /\ 0 .. Len(c.fds) - 1 \subseteq Fd
  /\ \A j \in 0 .. Len(c.fds) - 1 : Suits(c, c.table[j].file, c.asked[j + 1])
  /\ \A f \in Fd \ (0 .. Len(c.fds) - 1) :
       c.table[f].file \notin Opened \cup {ReadEnd(t), WriteEnd(t)}

\* A pipe of which a program has an end in a slot is lent.
Lends(c, those) ==
  \A u \in Thread, j \in 0 .. Len(c.fds) - 1 :
    c.table[j].file \in {ReadEnd(u), WriteEnd(u)} => those[u]

ChildInv(t) ==
  /\ child[t].at \in BeforeExec => Setting(t, child[t])
  /\ child[t].at = "failed" => Reports(t, child[t])
  /\ child[t].at = "running" => Became(t, child[t]) /\ Lends(child[t], lent)

CallRecord == [at : Places, files : Seq(Int), asked : Seq(Given \cup {NoFile, Stale}),
               got : {"nothing", "errno", "end"}, result : {"none", "started", "failed"}]

Domains ==
  /\ call \in [Thread -> CallRecord]
  /\ child \in [Thread -> ChildRecord]
  /\ said \in [Thread -> {"nothing", "part", "errno"}]
  /\ fate \in [Thread -> {"none", "program", "failed", "killed"}]
  /\ lent \in [Thread -> BOOLEAN]

(***************************************************************************)
(* The inductive invariant.                                                *)
(***************************************************************************)
IInv ==
  /\ Domains /\ TableInv
  /\ \A t \in Thread : EndsInv(t) /\ NamedInv(t) /\ FateInv(t) /\ TruthInv(t) /\ ChildInv(t)

-----------------------------------------------------------------------------
\* No child has an end of the pipe of t.
Unheld(t) == \A u \in Thread, f \in Fd : child[u].table[f].file \notin {ReadEnd(t), WriteEnd(t)}

\* A step of t: nothing of another thread changes but the report in a pipe that is lent, a
\* pipe stays lent while a child has it, and in the table only what was free or an end of t's
\* pipe changes.
StepOf(t) ==
  /\ \A u \in Thread \ {t} : /\ call'[u] = call[u] /\ child'[u] = child[u] /\ fate'[u] = fate[u]
                             /\ said'[u] = said[u] \/ lent'[u]
                             /\ lent[u] => lent'[u]
  /\ \A u \in Thread : lent[u] /\ ~ lent'[u] => Unheld(u)
  /\ \A f \in Fd : \/ table'[f] = table[f]
                   \/ /\ table[f].file \in {NoFile, ReadEnd(t), WriteEnd(t)}
                      /\ table'[f].file \in {NoFile, ReadEnd(t), WriteEnd(t)}

\* Descriptors are numbers.
LEMMA Descriptors == \A f \in Fd : f \in Nat
  BY FdAssumption

LEMMA Element ==
  ASSUME NEW S, NEW s \in Seq(S), NEW j \in DOMAIN s
  PROVE  s[j] \in S
  OBVIOUS

LEMMA Listed ==
  ASSUME NEW S, NEW n \in Nat, NEW g \in [1 .. n -> S]
  PROVE  g \in Seq(S) /\ Len(g) = n
  OBVIOUS

\* The files are different from each other.
LEMMA Files ==
  /\ NoFile \notin Given /\ Stale \notin Given /\ NoFile # Stale
  /\ \A t \in Thread : /\ ReadEnd(t) \in File /\ ReadEnd(t) \notin Given \cup {NoFile}
                       /\ WriteEnd(t) \in File /\ WriteEnd(t) \notin Given \cup {NoFile}
  /\ \A t, u \in Thread : ReadEnd(t) # WriteEnd(u)
  /\ \A t, u \in Thread : t # u => ReadEnd(t) # ReadEnd(u) /\ WriteEnd(t) # WriteEnd(u)
<1>1. \A t \in Thread : ReadEnd(t) \in File /\ WriteEnd(t) \in File
  BY Zenon DEF File
<1>2. \A t \in Thread : ReadEnd(t) # NoFile /\ WriteEnd(t) # NoFile
  BY DEF ReadEnd, WriteEnd, NoFile
<1>3. \A t, u \in Thread : ReadEnd(t) # WriteEnd(u)
  BY DEF ReadEnd, WriteEnd
<1>4. \A t, u \in Thread : t # u => ReadEnd(t) # ReadEnd(u) /\ WriteEnd(t) # WriteEnd(u)
  BY DEF ReadEnd, WriteEnd
<1>5. /\ NoFile \notin Given /\ Stale \notin Given
      /\ \A t \in Thread : ReadEnd(t) \notin Given /\ WriteEnd(t) \notin Given
  BY FileAssumption, Zenon DEF Given
<1>6. \A t \in Thread : /\ ReadEnd(t) \in File /\ ReadEnd(t) \notin Given \cup {NoFile}
                        /\ WriteEnd(t) \in File /\ WriteEnd(t) \notin Given \cup {NoFile}
  BY <1>1, <1>2, <1>5
<1>7. NoFile # Stale
  BY DEF NoFile, Stale
<1> QED
  BY <1>3, <1>4, <1>5, <1>6, <1>7, Zenon

\* What an entry is.
LEMMA Entries ==
  /\ Free \in Entry /\ Free.file = NoFile /\ Free.cloexec = FALSE
  /\ \A e \in Entry : e.file \in File \cup {NoFile} /\ e.cloexec \in BOOLEAN
  /\ \A e \in Entry : e.file = NoFile => e = Free
  /\ \A file \in File, b \in BOOLEAN : [file |-> file, cloexec |-> b] \in Entry
<1>1. NoFile \notin File
  BY Files DEF File, Given
<1>2. /\ Free \in Entry /\ Free.file = NoFile /\ Free.cloexec = FALSE
      /\ \A file \in File, b \in BOOLEAN : [file |-> file, cloexec |-> b] \in Entry
  BY DEF Entry, Free
<1>3. ASSUME NEW e \in Entry
      PROVE  /\ e.file \in File \cup {NoFile} /\ e.cloexec \in BOOLEAN
             /\ e.file = NoFile => e = Free
  <2>1. CASE e \in [file : File, cloexec : BOOLEAN]
    BY <1>1, <2>1
  <2>2. CASE e = Free
    BY <1>2, <2>2
  <2> QED
    BY <2>1, <2>2 DEF Entry
<1> QED
  BY <1>2, <1>3

\* Closing descriptors frees those of the files and no other.
LEMMA Closing ==
  ASSUME NEW tab \in [Fd -> Entry], NEW files
  PROVE  /\ Closed(tab, files) \in [Fd -> Entry]
         /\ \A f \in Fd : \/ tab[f].file \in files /\ Closed(tab, files)[f] = Free
                          \/ tab[f].file \notin files /\ Closed(tab, files)[f] = tab[f]
  BY Entries DEF Closed

\* What is lent stays lent while a child has it.
LEMMA Lending ==
  ASSUME NEW c, Lends(c, lent), 0 .. Len(c.fds) - 1 \subseteq Fd,
         NEW u \in Thread, c = child[u],
         \A v \in Thread : lent[v] /\ ~ lent'[v] => Unheld(v)
  PROVE  Lends(c, lent')
<1> SUFFICES ASSUME NEW v \in Thread, NEW j \in 0 .. Len(c.fds) - 1,
                    c.table[j].file \in {ReadEnd(v), WriteEnd(v)}
             PROVE  lent'[v]
  BY DEF Lends
<1>1. lent[v]
  BY DEF Lends
<1>2. ~ Unheld(v)
  BY DEF Unheld
<1> QED
  BY <1>1, <1>2

\* What a caller named stays as long as no file of the program is opened or closed.
LEMMA StillNamed ==
  ASSUME NEW t \in Thread, NEW u \in Thread, NamedInv(u),
         call'[u].at \in Start0 => call[u].at \in Start0,
         call'[u].files = call[u].files, call'[u].asked = call[u].asked,
         \A f \in Fd : \/ table'[f] = table[f]
                       \/ /\ table[f].file \in {NoFile, ReadEnd(t), WriteEnd(t)}
                          /\ table'[f].file \in {NoFile, ReadEnd(t), WriteEnd(t)}
  PROVE  NamedInv(u)'
<1> SUFFICES ASSUME call[u].at \in Start0, NEW j \in DOMAIN call[u].files
             PROVE  Names(table', call[u].files[j], call[u].asked[j])
  BY DEF NamedInv
<1>1. \A f \in Fd : table[f].file \in Given \/ table'[f].file \in Given
                    => table'[f].file = table[f].file
  BY Files
<1>2. Names(table, call[u].files[j], call[u].asked[j])
  BY DEF NamedInv
<1> QED
  BY <1>1, <1>2 DEF Names

\* A step of one thread leaves what is known of the others.
LEMMA TheOthers ==
  ASSUME NEW t \in Thread, IInv, StepOf(t), Domains', TableInv',
         EndsInv(t)', NamedInv(t)', FateInv(t)', TruthInv(t)', ChildInv(t)'
  PROVE  IInv'
<1> SUFFICES ASSUME NEW u \in Thread \ {t}
             PROVE  EndsInv(u)' /\ NamedInv(u)' /\ FateInv(u)' /\ TruthInv(u)' /\ ChildInv(u)'
  BY DEF IInv
<1>1. EndsInv(u) /\ NamedInv(u) /\ FateInv(u) /\ TruthInv(u) /\ ChildInv(u)
  BY DEF IInv
<1>2. /\ call'[u] = call[u] /\ child'[u] = child[u] /\ fate'[u] = fate[u]
      /\ said'[u] = said[u] \/ lent'[u]
      /\ lent[u] => lent'[u]
  BY DEF StepOf
<1>3. ChildInv(u)'
  <2>1. ASSUME child[u].at = "running"
        PROVE  Lends(child[u], lent')
    <3>1. Lends(child[u], lent) /\ 0 .. Len(child[u].fds) - 1 \subseteq Fd
      BY <1>1, <2>1 DEF ChildInv, Became
    <3> QED
      BY <3>1, Lending DEF StepOf
  <2> QED
    BY <1>1, <1>2, <2>1 DEF ChildInv
<1>4. FateInv(u)'
  BY <1>1, <1>2 DEF FateInv
<1>5. TruthInv(u)'
  BY <1>1, <1>2 DEF TruthInv
<1>6. NamedInv(u)'
  BY <1>1, <1>2, StillNamed DEF StepOf
<1>7. \A f \in Fd : table[f].file \in {ReadEnd(u), WriteEnd(u)} \/ table'[f].file \in {ReadEnd(u), WriteEnd(u)}
                   => table'[f] = table[f]
  <2>1. {NoFile, ReadEnd(t), WriteEnd(t)} \cap {ReadEnd(u), WriteEnd(u)} = {}
    BY Files
  <2> QED
    BY <2>1 DEF StepOf
<1>8. EndsInv(u)'
  <2>1. \A file \in {ReadEnd(u), WriteEnd(u)} : Holds(table', file) <=> Holds(table, file)
    BY <1>7 DEF Holds
  <2>2. Holds(table', ReadEnd(u)) <=> Holds(table, ReadEnd(u))
    BY <2>1
  <2>3. Holds(table', WriteEnd(u)) <=> Holds(table, WriteEnd(u))
    BY <2>1
  <2>4. \A f \in Fd : table'[f].file = WriteEnd(u) => table'[f] = table[f]
    BY <1>7
  <2> QED
    BY <1>1, <1>2, <2>2, <2>3, <2>4 DEF EndsInv
<1> QED
  BY <1>3, <1>4, <1>5, <1>6, <1>8

-----------------------------------------------------------------------------
\* The parent's steps: moving on, answering and giving up.
LEMMA Going ==
  ASSUME NEW t \in Thread, Domains, NEW place \in Places, Goto(t, place)
  PROVE  /\ call' \in [Thread -> CallRecord]
         /\ call'[t].at = place /\ call'[t].files = call[t].files /\ call'[t].got = call[t].got
         /\ call'[t].result = call[t].result /\ call'[t].asked = call[t].asked
         /\ \A u \in Thread \ {t} : call'[u] = call[u]
  BY DEF Domains, CallRecord, Goto

LEMMA Answering ==
  ASSUME NEW t \in Thread, Domains, NEW result \in {"none", "started", "failed"}, Answer(t, result)
  PROVE  /\ call' \in [Thread -> CallRecord]
         /\ call'[t].at = "idle" /\ call'[t].result = result
         /\ \A u \in Thread \ {t} : call'[u] = call[u]
<1>1. Idle.files \in Seq(Int) /\ Idle.asked \in Seq(Given \cup {NoFile, Stale})
  BY DEF Idle
<1>2. /\ [Idle EXCEPT !.result = result] \in CallRecord
      /\ [Idle EXCEPT !.result = result].at = "idle" /\ [Idle EXCEPT !.result = result].result = result
  BY <1>1 DEF Idle, CallRecord, Places
<1> QED
  BY <1>2, Zenon DEF Domains, Answer

\* What closing ends of the pipe of t means for the table.
LEMMA ClosingEnds ==
  ASSUME NEW t \in Thread, IInv, NEW files \in SUBSET {ReadEnd(t), WriteEnd(t)},
         table' = Closed(table, files)
  PROVE  /\ TableInv'
         /\ \A f \in Fd : \/ table'[f] = table[f] /\ table[f].file \notin files
                          \/ table[f].file \in files /\ table'[f].file = NoFile
         /\ \A f \in Fd : \/ table'[f] = table[f]
                          \/ /\ table[f].file \in {NoFile, ReadEnd(t), WriteEnd(t)}
                             /\ table'[f].file \in {NoFile, ReadEnd(t), WriteEnd(t)}
         /\ \A file \in files : ~ Holds(table', file)
         /\ \A file \in {ReadEnd(t), WriteEnd(t)} \ files : Holds(table', file) <=> Holds(table, file)
<1>1. /\ table \in [Fd -> Entry]
      /\ \A f \in Fd : table[f].file \in Opened => table[f].cloexec
  BY DEF IInv, TableInv
<1>2. /\ table' \in [Fd -> Entry]
      /\ \A f \in Fd : \/ table[f].file \in files /\ table'[f] = Free
                       \/ table[f].file \notin files /\ table'[f] = table[f]
  BY <1>1, Closing
<1>3. \A f \in Fd : \/ table'[f] = table[f] /\ table[f].file \notin files
                    \/ table[f].file \in files /\ table'[f].file = NoFile
  BY <1>2, Entries
<1>4. NoFile \notin Opened /\ NoFile \notin {ReadEnd(t), WriteEnd(t)}
  BY Files DEF Given
<1>5. TableInv'
  BY <1>1, <1>2, <1>3, <1>4 DEF TableInv
<1>6. \A file \in files : ~ Holds(table', file)
  BY <1>3, <1>4 DEF Holds
<1>7. \A file \in {ReadEnd(t), WriteEnd(t)} \ files : Holds(table', file) <=> Holds(table, file)
  BY <1>3, <1>4 DEF Holds
<1> QED
  BY <1>3, <1>5, <1>6, <1>7

LEMMA GivingUp ==
  ASSUME NEW t \in Thread, IInv, GiveUp(t), UNCHANGED <<child, said, fate, lent>>,
         call[t].at \in Start0
  PROVE  IInv'
<1>1. /\ call' \in [Thread -> CallRecord]
      /\ call'[t].at = "idle" /\ call'[t].result = "failed"
      /\ \A u \in Thread \ {t} : call'[u] = call[u]
  BY Answering DEF GiveUp, IInv
<1>2. /\ TableInv'
      /\ \A f \in Fd : \/ table'[f] = table[f]
                       \/ /\ table[f].file \in {NoFile, ReadEnd(t), WriteEnd(t)}
                          /\ table'[f].file \in {NoFile, ReadEnd(t), WriteEnd(t)}
      /\ \A file \in {ReadEnd(t), WriteEnd(t)} : ~ Holds(table', file)
  BY ClosingEnds DEF GiveUp
<1>3. StepOf(t)
  BY <1>1, <1>2 DEF StepOf
<1>4. Domains'
  BY <1>1 DEF Domains, IInv
<1>5. EndsInv(t)'
  BY <1>1, <1>2 DEF EndsInv, Holds
<1>6. NamedInv(t)'
  BY <1>1 DEF NamedInv, Start0
<1>7. FateInv(t) /\ ChildInv(t)
  BY DEF IInv
<1>8. child[t].at = "none" /\ fate[t] = "none"
  BY <1>7 DEF FateInv, Start0
<1>9. FateInv(t)'
  BY <1>1, <1>8 DEF FateInv, BeforeExec, Start0
<1>10. TruthInv(t)'
  BY <1>1, <1>8 DEF TruthInv
<1>11. ChildInv(t)'
  BY <1>8 DEF ChildInv, BeforeExec
<1> QED
  BY <1>2, <1>3, <1>4, <1>5, <1>6, <1>9, <1>10, <1>11, TheOthers

LEMMA StartStep ==
  ASSUME NEW t \in Thread, IInv, NEW files \in Requests[t][Own], Start(t, files)
  PROVE  IInv'
<1> DEFINE all == IF files = <<>> THEN <<0, 1, 2>> ELSE files
           asked == Named(all)
<1>1. /\ all \in Seq(Fd \cup {-1}) /\ all # <<>> /\ 0 .. Len(all) - 1 \subseteq Fd
  <2>1. files \in Seq(Fd \cup {-1}) /\ 0 .. Len(files) - 1 \subseteq Fd
    <3>1. Own \in SUBSET (Streams \cup Opened)
      BY DEF Own
    <3> QED
      BY <3>1, RequestAssumption
  <2>2. CASE files = <<>>
    BY <2>2, FdAssumption
  <2>3. CASE files # <<>>
    BY <2>1, <2>3
  <2> QED
    BY <2>2, <2>3
<1>2. asked \in Seq(Given \cup {NoFile, Stale}) /\ Len(asked) = Len(all)
      /\ \A j \in DOMAIN all : Names(table, all[j], asked[j])
  <2> HIDE DEF all
  <2>1. /\ asked = [j \in 1 .. Len(all) |-> FileAt(all[j])]
        /\ Len(all) \in Nat /\ DOMAIN all = 1 .. Len(all)
    BY <1>1 DEF Named
  <2> HIDE DEF asked
  <2>2. ASSUME NEW j \in 1 .. Len(all)
        PROVE  Names(table, all[j], FileAt(all[j]))
    <3>1. all[j] \in Fd \cup {-1}
      BY <1>1, <2>1, Element
    <3> QED
      BY <3>1, Descriptors DEF Names, FileAt, Given
  <2>3. \A j \in 1 .. Len(all) : FileAt(all[j]) \in Given \cup {NoFile, Stale}
    BY <2>2 DEF Names
  <2>4. asked \in [1 .. Len(all) -> Given \cup {NoFile, Stale}]
    BY <2>1, <2>3
  <2>5. \A j \in DOMAIN all : Names(table, all[j], asked[j])
    BY <2>1, <2>2
  <2> QED
    BY <2>1, <2>4, <2>5, Listed
<1>3. /\ call[t].at = "idle" /\ child[t].at \in {"none", "reaped"} /\ Unheld(t)
      /\ call' = [call EXCEPT ![t] = [Idle EXCEPT !.at = "pipe", !.files = all, !.asked = asked]]
      /\ child' = [child EXCEPT ![t] = NoChild] /\ fate' = [fate EXCEPT ![t] = "none"]
      /\ lent' = [lent EXCEPT ![t] = FALSE]
      /\ UNCHANGED <<table, said>>
  BY DEF Start, Unheld, Holds
<1> HIDE DEF all, asked
<1>4. [Idle EXCEPT !.at = "pipe", !.files = all, !.asked = asked] \in CallRecord
  <2>1. all \in Seq(Int)
    <3>1. all \in [1 .. Len(all) -> Fd \cup {-1}] /\ Len(all) \in Nat
      BY <1>1
    <3>2. \A j \in 1 .. Len(all) : all[j] \in Int
      BY <3>1, Descriptors
    <3> QED
      BY <1>1, <3>1, <3>2
  <2> QED
    BY <1>2, <2>1 DEF Idle, CallRecord, Places
<1>5. NoChild \in ChildRecord
  BY Entries, FdAssumption DEF NoChild, ChildRecord, ChildPlaces
<1>6. /\ lent' \in [Thread -> BOOLEAN]
      /\ \A u \in Thread \ {t} : lent'[u] = lent[u]
  BY <1>3, Zenon DEF Domains, IInv
<1>7. Domains'
  BY <1>3, <1>4, <1>5, <1>6 DEF Domains, IInv
<1>8. /\ call'[t].at = "pipe" /\ call'[t].files = all /\ call'[t].asked = asked
      /\ child'[t].at = "none" /\ fate'[t] = "none"
  BY <1>3 DEF IInv, Domains, Idle, NoChild
<1>9. TableInv' /\ StepOf(t)
  BY <1>3, <1>6 DEF TableInv, IInv, StepOf, Domains
<1>10. EndsInv(t) /\ FateInv(t)
  BY DEF IInv
<1>11. EndsInv(t)'
  BY <1>3, <1>8, <1>10 DEF EndsInv
<1>12. NamedInv(t)'
  BY <1>1, <1>2, <1>3, <1>8 DEF NamedInv
<1>13. FateInv(t)' /\ TruthInv(t)'
  BY <1>3, <1>8, <1>10 DEF FateInv, TruthInv, BeforeExec
<1>14. ChildInv(t)'
  BY <1>8 DEF ChildInv, BeforeExec
<1> QED
  BY <1>7, <1>9, <1>11, <1>12, <1>13, <1>14, TheOthers

LEMMA MakePipeStep ==
  ASSUME NEW t \in Thread, IInv, MakePipe(t)
  PROVE  IInv'
<1>1. CASE GiveUp(t) /\ UNCHANGED said
  BY <1>1, GivingUp DEF MakePipe, Start0
<1>2. CASE ~ (GiveUp(t) /\ UNCHANGED said)
  <2>1. PICK r, w \in Unused(table, 0) :
          /\ r < w
          /\ table' = [table EXCEPT ![r] = [file |-> ReadEnd(t), cloexec |-> FALSE],
                                    ![w] = [file |-> WriteEnd(t), cloexec |-> FALSE]]
          /\ said' = [said EXCEPT ![t] = "nothing"]
          /\ Goto(t, "mark read")
    BY <1>2 DEF MakePipe
  <2>2. call[t].at = "pipe" /\ UNCHANGED <<child, fate, lent>>
    BY DEF MakePipe
  <2>3. /\ call' \in [Thread -> CallRecord]
        /\ call'[t].at = "mark read" /\ call'[t].files = call[t].files
        /\ call'[t].asked = call[t].asked
        /\ \A u \in Thread \ {t} : call'[u] = call[u]
    BY <2>1, Going DEF IInv, Places
  <2>4. /\ table \in [Fd -> Entry] /\ TableInv /\ EndsInv(t) /\ NamedInv(t) /\ FateInv(t) /\ ChildInv(t)
    BY DEF IInv, TableInv
  <2>4b. /\ said' \in [Thread -> {"nothing", "part", "errno"}] /\ said'[t] = "nothing"
         /\ \A u \in Thread \ {t} : said'[u] = said[u]
    BY <2>1 DEF IInv, Domains
  <2>5. /\ r \in Fd /\ w \in Fd /\ r # w
        /\ table[r].file = NoFile /\ table[w].file = NoFile
    <3>1. /\ r \in Fd /\ w \in Fd /\ table[r] = Free /\ table[w] = Free
      BY <2>1, Zenon DEF Unused
    <3>2. r # w
      <4>1. r < w
        BY <2>1
      <4> QED
        BY <3>1, <4>1, Descriptors
    <3> QED
      BY <3>1, <3>2, Entries
  <2>6. /\ table' \in [Fd -> Entry]
        /\ table'[r].file = ReadEnd(t) /\ table'[w].file = WriteEnd(t)
        /\ \A f \in Fd \ {r, w} : table'[f] = table[f]
    BY <2>1, <2>4, <2>5, Files, Entries
  <2>7. \A f \in Fd : table[f].file \notin {ReadEnd(t), WriteEnd(t)}
    BY <2>2, <2>4 DEF EndsInv, Holds
  <2>8. StepOf(t)
    BY <2>2, <2>3, <2>5, <2>6, <2>4b DEF StepOf
  <2>9. Domains'
    BY <2>2, <2>3, <2>4b DEF Domains, IInv
  <2>10. TableInv'
    BY <2>4, <2>6, Files DEF TableInv, Given
  <2>11. EndsInv(t)'
    <3>1. Holds(table', WriteEnd(t)) /\ Holds(table', ReadEnd(t))
      BY <2>5, <2>6 DEF Holds
    <3>2. \A f \in Fd : table'[f].file = WriteEnd(t) => f = w
      BY <2>6, <2>7, Files
    <3> QED
      BY <2>3, <3>1, <3>2 DEF EndsInv
  <2>12. NamedInv(t)'
    BY <2>2, <2>3, <2>4, <2>8, StillNamed DEF StepOf, Start0
  <2>13. FateInv(t)' /\ TruthInv(t)'
    BY <2>2, <2>3, <2>4, <2>4b DEF FateInv, TruthInv, Start0, BeforeExec
  <2>14. ChildInv(t)'
    BY <2>2, <2>4 DEF ChildInv
  <2> QED
    BY <2>8, <2>9, <2>10, <2>11, <2>12, <2>13, <2>14, TheOthers
<1> QED
  BY <1>1, <1>2

\* Marking an end close on exec changes nothing else.
Mark(file) == table' = [table EXCEPT ![FdOf(table, file)].cloexec = TRUE]

LEMMA Marking ==
  ASSUME NEW t \in Thread, IInv, NEW file \in {ReadEnd(t), WriteEnd(t)}, Holds(table, file), Mark(file)
  PROVE  /\ TableInv'
         /\ \A f \in Fd : /\ table'[f].file = table[f].file
                          /\ table'[f] # table[f] => table[f].file = file /\ table'[f].cloexec
         /\ table'[FdOf(table, file)].cloexec
         /\ FdOf(table, file) \in Fd /\ table[FdOf(table, file)].file = file
<1> DEFINE m == FdOf(table, file)
<1>1. m \in Fd /\ table[m].file = file
  BY DEF Holds, FdOf
<1>2. table \in [Fd -> Entry] /\ \A f \in Fd : table[f].file \in Opened => table[f].cloexec
  BY DEF IInv, TableInv
<1> HIDE DEF m
<1>3. table[m] \in [file : File, cloexec : BOOLEAN]
  BY <1>1, <1>2, Files, Entries DEF Entry
<1>4. /\ [table[m] EXCEPT !.cloexec = TRUE] \in Entry
      /\ [table[m] EXCEPT !.cloexec = TRUE].file = file
      /\ [table[m] EXCEPT !.cloexec = TRUE].cloexec
  BY <1>1, <1>3 DEF Entry
<1>5. table' = [table EXCEPT ![m] = [table[m] EXCEPT !.cloexec = TRUE]]
  BY DEF m, Mark
<1>6. /\ table' \in [Fd -> Entry]
      /\ table'[m].file = file /\ table'[m].cloexec
      /\ \A f \in Fd \ {m} : table'[f] = table[f]
  BY <1>1, <1>2, <1>4, <1>5
<1>7. TableInv'
  BY <1>1, <1>2, <1>6, Files DEF TableInv, Given
<1> QED
  BY <1>1, <1>6, <1>7 DEF m

\* The same for the whole invariant, when the call goes on.
LEMMA MarkingStep ==
  ASSUME NEW t \in Thread, IInv, NEW file \in {ReadEnd(t), WriteEnd(t)},
         NEW place \in {"mark write", "fork"}, Goto(t, place), UNCHANGED <<child, said, fate, lent>>,
         call[t].at \in {"mark read", "mark write"}, Holds(table, file), Mark(file),
         place = "fork" => file = WriteEnd(t)
  PROVE  IInv'
<1>1. /\ call' \in [Thread -> CallRecord]
      /\ call'[t].at = place /\ call'[t].files = call[t].files /\ call'[t].asked = call[t].asked
      /\ \A u \in Thread \ {t} : call'[u] = call[u]
  BY Going DEF IInv, Places
<1>2. /\ TableInv'
      /\ \A f \in Fd : /\ table'[f].file = table[f].file
                       /\ table'[f] # table[f] => table[f].file = file /\ table'[f].cloexec
      /\ table'[FdOf(table, file)].cloexec
      /\ FdOf(table, file) \in Fd /\ table[FdOf(table, file)].file = file
  BY Marking
<1>3. EndsInv(t) /\ NamedInv(t) /\ FateInv(t) /\ TruthInv(t) /\ ChildInv(t) /\ Domains
  BY DEF IInv
<1>4. StepOf(t)
  BY <1>1, <1>2 DEF StepOf
<1>5. Domains'
  BY <1>1, <1>3 DEF Domains
<1>6. EndsInv(t)'
  <2>1. \A end : Holds(table', end) <=> Holds(table, end)
    BY <1>2 DEF Holds
  <2>2. Holds(table', ReadEnd(t)) /\ Holds(table', WriteEnd(t))
    BY <1>3, <2>1 DEF EndsInv
  <2>3. \A f, g \in Fd : table'[f].file = WriteEnd(t) /\ table'[g].file = WriteEnd(t) => f = g
    BY <1>2, <1>3 DEF EndsInv
  <2>4. place = "fork" => \A f \in Fd : table'[f].file = WriteEnd(t) => table'[f].cloexec
    BY <1>2, <2>3
  <2> QED
    BY <1>1, <2>2, <2>3, <2>4 DEF EndsInv
<1>7. NamedInv(t)'
  BY <1>1, <1>3, <1>4, StillNamed DEF StepOf, Start0
<1>8. FateInv(t)' /\ TruthInv(t)'
  BY <1>1, <1>3 DEF FateInv, TruthInv, Start0, BeforeExec
<1>9. ChildInv(t)'
  BY <1>3 DEF ChildInv
<1> QED
  BY <1>2, <1>4, <1>5, <1>6, <1>7, <1>8, <1>9, TheOthers

LEMMA MarkReadStep ==
  ASSUME NEW t \in Thread, IInv, MarkRead(t)
  PROVE  IInv'
<1>1. CASE GiveUp(t)
  BY <1>1, GivingUp DEF MarkRead, Start0
<1>2. CASE ~ GiveUp(t)
  <2>1. Holds(table, ReadEnd(t))
    BY DEF MarkRead, IInv, EndsInv
  <2> QED
    BY <1>2, <2>1, MarkingStep DEF MarkRead, Mark
<1> QED
  BY <1>1, <1>2

LEMMA MarkWriteStep ==
  ASSUME NEW t \in Thread, IInv, MarkWrite(t)
  PROVE  IInv'
<1>1. CASE GiveUp(t)
  BY <1>1, GivingUp DEF MarkWrite, Start0
<1>2. CASE ~ GiveUp(t)
  <2>1. Holds(table, WriteEnd(t))
    BY DEF MarkWrite, IInv, EndsInv
  <2> QED
    BY <1>2, <2>1, MarkingStep DEF MarkWrite, Mark
<1> QED
  BY <1>1, <1>2

\* The child of a fork.
LEMMA Forked ==
  ASSUME NEW t \in Thread, IInv, call[t].at = "fork",
         NEW c, c = [NoChild EXCEPT !.at = "setup", !.table = Closed(table, {ReadEnd(t)}),
                                    !.fds = call[t].files, !.report = FdOf(table, WriteEnd(t)),
                                    !.asked = call[t].asked]
  PROVE  c \in ChildRecord /\ c.at = "setup" /\ Setting(t, c)
<1> DEFINE fds == call[t].files
           tab == Closed(table, {ReadEnd(t)})
           asked == call[t].asked
           report == FdOf(table, WriteEnd(t))
<1>1. /\ fds \in Seq(Fd \cup {-1}) /\ fds # <<>> /\ 0 .. Len(fds) - 1 \subseteq Fd
      /\ Len(asked) = Len(fds)
      /\ \A j \in DOMAIN fds : Names(table, fds[j], asked[j])
  BY DEF IInv, NamedInv, Start0
<1>2. /\ table \in [Fd -> Entry]
      /\ \A f \in Fd : table[f].file \in Opened => table[f].cloexec
  BY DEF IInv, TableInv
<1>3. /\ Holds(table, WriteEnd(t))
      /\ \A f \in Fd : table[f].file = WriteEnd(t) => table[f].cloexec
  BY DEF IInv, EndsInv
<1>4. report \in Fd /\ table[report].file = WriteEnd(t)
  BY <1>3 DEF Holds, FdOf
<1>5. /\ tab \in [Fd -> Entry]
      /\ \A f \in Fd : \/ table[f].file = ReadEnd(t) /\ tab[f] = Free
                       \/ table[f].file # ReadEnd(t) /\ tab[f] = table[f]
  BY <1>2, Closing
<1>6. \A j \in 1 .. Len(fds) : fds[j] \in Fd \cup {-1} /\ fds[j] \in Int
  <2>1. \A j \in 1 .. Len(fds) : fds[j] \in Fd \cup {-1}
    BY <1>1, Element
  <2> QED
    BY <2>1, Descriptors
<1>7. Len(fds) \in Nat /\ Len(fds) > 0
  BY <1>1
<1>8. asked \in Seq(Given \cup {NoFile, Stale}) /\ Len(asked) = Len(fds)
  BY <1>1 DEF IInv, Domains, CallRecord
<1>9. fds \in Seq(Int)
  <2>1. fds \in [1 .. Len(fds) -> Int]
    BY <1>1, <1>6
  <2> QED
    BY <1>7, <2>1, Listed
<1> HIDE DEF fds, tab, asked, report
<1>10. /\ c.at = "setup" /\ c.table = tab /\ c.fds = fds /\ c.report = report
       /\ c.asked = asked /\ c.i = 0
       /\ c \in ChildRecord
  BY <1>4, <1>5, <1>8, <1>9 DEF NoChild, ChildRecord, ChildPlaces, fds, tab, asked, report
<1>11. tab[report].file = WriteEnd(t)
  BY <1>4, <1>5, Files
<1>12. ASSUME NEW f \in Fd
       PROVE  /\ tab[f].file # ReadEnd(t)
              /\ tab[f].file \in Opened \cup {WriteEnd(t)} => tab[f].cloexec
  <2>1. Free.file \notin Opened \cup {ReadEnd(t), WriteEnd(t)}
    BY Files, Entries DEF Given
  <2> QED
    BY <1>2, <1>3, <1>5, <2>1
<1>13. ASSUME NEW j \in 0 .. Len(fds) - 1
       PROVE  Sourced(c, j)
  <2>1. j + 1 \in 1 .. Len(fds) /\ j + 1 \in DOMAIN fds
    BY <1>1, <1>7
  <2>2. Names(table, fds[j + 1], asked[j + 1])
    BY <1>1, <2>1
  <2>3. \A f \in Fd : /\ tab[f].file \in Given <=> table[f].file \in Given
                      /\ table[f].file \in Given => tab[f].file = table[f].file
    BY <1>5, Files, Entries
  <2>4. c.fds = fds /\ c.asked = asked /\ c.table = tab
    BY <1>10
  <2>5. CASE fds[j + 1] = -1 /\ asked[j + 1] = NoFile
    BY <2>4, <2>5 DEF Sourced
  <2>6. CASE fds[j + 1] \in Fd /\ asked[j + 1] \in Given /\ table[fds[j + 1]].file = asked[j + 1]
    BY <2>3, <2>4, <2>6, Files DEF Sourced, Suits
  <2>7. CASE fds[j + 1] \in Fd /\ asked[j + 1] = Stale /\ table[fds[j + 1]].file \notin Given
    BY <2>3, <2>4, <2>7 DEF Sourced, Suits
  <2> QED
    BY <2>2, <2>5, <2>6, <2>7 DEF Names
<1>14. Hidden(t, c)
  BY <1>10, <1>12 DEF Hidden
<1>15. \A j \in 0 .. Len(c.fds) - 1 : Sourced(c, j)
  BY <1>10, <1>13
<1> QED
  BY <1>1, <1>7, <1>8, <1>10, <1>11, <1>14, <1>15 DEF Setting, Reports

LEMMA ForkStep ==
  ASSUME NEW t \in Thread, IInv, Fork(t)
  PROVE  IInv'
<1>1. CASE GiveUp(t) /\ UNCHANGED child
  BY <1>1, GivingUp DEF Fork, Start0
<1>2. CASE ~ (GiveUp(t) /\ UNCHANGED child)
  <2> DEFINE c == [NoChild EXCEPT !.at = "setup", !.table = Closed(table, {ReadEnd(t)}),
                                  !.fds = call[t].files, !.report = FdOf(table, WriteEnd(t)),
                                  !.asked = call[t].asked]
  <2>1. /\ call[t].at = "fork" /\ UNCHANGED <<table, said, fate, lent>>
        /\ child' = [child EXCEPT ![t] = c]
        /\ Goto(t, "close")
    BY <1>2 DEF Fork
  <2>2. c \in ChildRecord /\ c.at = "setup" /\ Setting(t, c)
    BY <2>1, Forked
  <2> HIDE DEF c
  <2>3. /\ call' \in [Thread -> CallRecord]
        /\ call'[t].at = "close" /\ call'[t].files = call[t].files
        /\ \A u \in Thread \ {t} : call'[u] = call[u]
    BY <2>1, Going DEF IInv, Places
  <2>4. TableInv /\ EndsInv(t) /\ NamedInv(t) /\ FateInv(t) /\ TruthInv(t) /\ Domains
    BY DEF IInv
  <2>5. /\ child' \in [Thread -> ChildRecord] /\ child'[t] = c
        /\ \A u \in Thread \ {t} : child'[u] = child[u]
    BY <2>1, <2>2, <2>4 DEF Domains
  <2>6. StepOf(t) /\ Domains' /\ TableInv'
    BY <2>1, <2>3, <2>4, <2>5 DEF StepOf, Domains, TableInv
  <2>7. EndsInv(t)'
    BY <2>1, <2>3, <2>4 DEF EndsInv
  <2>8. NamedInv(t)'
    BY <2>3 DEF NamedInv, Start0
  <2>9. FateInv(t)' /\ TruthInv(t)'
    BY <2>1, <2>2, <2>3, <2>4, <2>5 DEF FateInv, TruthInv, Start0, BeforeExec
  <2>10. ChildInv(t)'
    <3>1. Setting(t, child'[t])
      BY <2>2, <2>5
    <3>2. child'[t].at = "setup"
      BY <2>2, <2>5
    <3> QED
      BY <3>1, <3>2 DEF ChildInv
  <2> QED
    BY <2>6, <2>7, <2>8, <2>9, <2>10, TheOthers
<1> QED
  BY <1>1, <1>2

LEMMA CloseWriteStep ==
  ASSUME NEW t \in Thread, IInv, CloseWrite(t)
  PROVE  IInv'
<1>1. /\ call[t].at = "close" /\ UNCHANGED <<child, said, fate, lent>>
      /\ table' = Closed(table, {WriteEnd(t)}) /\ Goto(t, "read")
  BY DEF CloseWrite
<1>2. /\ call' \in [Thread -> CallRecord]
      /\ call'[t].at = "read" /\ call'[t].files = call[t].files
      /\ \A u \in Thread \ {t} : call'[u] = call[u]
  BY <1>1, Going DEF IInv, Places
<1>3. /\ TableInv'
      /\ \A f \in Fd : \/ table'[f] = table[f]
                       \/ /\ table[f].file \in {NoFile, ReadEnd(t), WriteEnd(t)}
                          /\ table'[f].file \in {NoFile, ReadEnd(t), WriteEnd(t)}
      /\ ~ Holds(table', WriteEnd(t))
      /\ Holds(table', ReadEnd(t)) <=> Holds(table, ReadEnd(t))
  BY <1>1, ClosingEnds, Files
<1>4. EndsInv(t) /\ NamedInv(t) /\ FateInv(t) /\ TruthInv(t) /\ ChildInv(t) /\ Domains
  BY DEF IInv
<1>5. StepOf(t) /\ Domains'
  BY <1>1, <1>2, <1>3, <1>4 DEF StepOf, Domains
<1>6. EndsInv(t)'
  <2>1. \A f \in Fd : table'[f].file # WriteEnd(t)
    BY <1>3 DEF Holds
  <2> QED
    BY <1>1, <1>2, <1>3, <1>4, <2>1 DEF EndsInv
<1>7. NamedInv(t)' /\ FateInv(t)' /\ TruthInv(t)'
  BY <1>1, <1>2, <1>4 DEF NamedInv, FateInv, TruthInv, Start0, BeforeExec
<1>8. ChildInv(t)'
  BY <1>1, <1>4 DEF ChildInv
<1> QED
  BY <1>3, <1>5, <1>6, <1>7, <1>8, TheOthers

\* End of file is read only when the child is past its exec or killed, as before that its
\* report descriptor leads to the pipe, or when a program has written into the pipe.
LEMMA ReadStep ==
  ASSUME NEW t \in Thread, IInv, Read(t)
  PROVE  IInv'
<1>1. call[t].at = "read" /\ UNCHANGED <<table, child, said, fate, lent>>
  BY DEF Read
<1>2. PICK got \in {"errno", "end"} :
        /\ call' = [call EXCEPT ![t].at = "close read", ![t].got = got]
        /\ got = "errno" => said[t] = "errno"
        /\ got = "end" => said[t] = "part" \/ (said[t] = "nothing" /\ Alone(t))
  BY DEF Read
<1>3. /\ EndsInv(t) /\ NamedInv(t) /\ FateInv(t) /\ TruthInv(t) /\ ChildInv(t)
      /\ Domains /\ TableInv
  BY DEF IInv
<1>4. /\ call' \in [Thread -> CallRecord]
      /\ call'[t].at = "close read" /\ call'[t].got = got
      /\ \A u \in Thread \ {t} : call'[u] = call[u]
  <2>1. call[t] \in CallRecord /\ call \in [Thread -> CallRecord]
    BY <1>3 DEF Domains
  <2>2. [call[t] EXCEPT !.at = "close read", !.got = got] \in CallRecord
    BY <1>2, <2>1 DEF CallRecord, Places
  <2>3. call' = [call EXCEPT ![t] = [call[t] EXCEPT !.at = "close read", !.got = got]]
    BY <1>2, <2>1
  <2>4. /\ [call[t] EXCEPT !.at = "close read", !.got = got].at = "close read"
        /\ [call[t] EXCEPT !.at = "close read", !.got = got].got = got
    BY <2>1 DEF CallRecord
  <2> QED
    BY <2>1, <2>2, <2>3, <2>4
<1>5. StepOf(t) /\ Domains' /\ TableInv'
  BY <1>1, <1>3, <1>4 DEF StepOf, Domains, TableInv
<1>6. EndsInv(t)'
  BY <1>1, <1>3, <1>4 DEF EndsInv
<1>7. NamedInv(t)'
  BY <1>4 DEF NamedInv, Start0
<1>8. got = "end" /\ ~ lent[t] => child[t].at \notin BeforeExec \cup {"failed"}
  <2> SUFFICES ASSUME got = "end", ~ lent[t], child[t].at \in BeforeExec \cup {"failed"}
               PROVE  FALSE
    OBVIOUS
  <2>1. Reports(t, child[t])
    BY <1>3 DEF ChildInv, Setting
  <2>2. child[t].report \in Fd
    BY <1>3 DEF Domains, ChildRecord
  <2>3. Holds(child[t].table, WriteEnd(t))
    BY <2>1, <2>2 DEF Holds, Reports
  <2>4. said[t] # "part"
    BY <1>1, <1>3 DEF TruthInv
  <2> QED
    BY <1>2, <2>3, <2>4 DEF Alone
<1>9. FateInv(t)' /\ TruthInv(t)'
  <2>1. CASE got = "errno"
    BY <1>1, <1>2, <1>3, <1>4, <2>1 DEF FateInv, TruthInv, Start0, BeforeExec
  <2>2. CASE got = "end"
    BY <1>1, <1>2, <1>3, <1>4, <1>8, <2>2 DEF FateInv, TruthInv, Start0, BeforeExec
  <2> QED
    BY <2>1, <2>2
<1>10. ChildInv(t)'
  BY <1>1, <1>3 DEF ChildInv
<1> QED
  BY <1>5, <1>6, <1>7, <1>9, <1>10, TheOthers

LEMMA CloseReadStep ==
  ASSUME NEW t \in Thread, IInv, CloseRead(t)
  PROVE  IInv'
<1>1. /\ call[t].at = "close read" /\ UNCHANGED <<child, said, fate, lent>>
      /\ table' = Closed(table, {ReadEnd(t)})
      /\ call[t].got = "end" => Answer(t, "started")
      /\ call[t].got # "end" => Goto(t, "wait")
  BY DEF CloseRead
<1>2. EndsInv(t) /\ NamedInv(t) /\ FateInv(t) /\ TruthInv(t) /\ ChildInv(t) /\ Domains
  BY DEF IInv
<1>3. /\ call' \in [Thread -> CallRecord]
      /\ \A u \in Thread \ {t} : call'[u] = call[u]
      /\ call[t].got = "end" => call'[t].at = "idle" /\ call'[t].result = "started"
      /\ call[t].got # "end" => call'[t].at = "wait"
  <2>1. CASE call[t].got = "end"
    BY <1>1, <1>2, <2>1, Answering
  <2>2. CASE call[t].got # "end"
    BY <1>1, <1>2, <2>2, Going DEF Places
  <2> QED
    BY <2>1, <2>2
<1>4. /\ TableInv'
      /\ \A f \in Fd : \/ table'[f] = table[f]
                       \/ /\ table[f].file \in {NoFile, ReadEnd(t), WriteEnd(t)}
                          /\ table'[f].file \in {NoFile, ReadEnd(t), WriteEnd(t)}
      /\ ~ Holds(table', ReadEnd(t))
      /\ Holds(table', WriteEnd(t)) <=> Holds(table, WriteEnd(t))
  BY <1>1, ClosingEnds, Files
<1>5. StepOf(t)
  BY <1>1, <1>3, <1>4 DEF StepOf
<1>6. Domains'
  BY <1>1, <1>2, <1>3 DEF Domains
<1>7. EndsInv(t)'
  <2>1. ~ Holds(table, WriteEnd(t))
    BY <1>1, <1>2 DEF EndsInv
  <2>2. \A f \in Fd : table'[f].file # WriteEnd(t)
    BY <1>4, <2>1 DEF Holds
  <2> QED
    BY <1>3, <1>4, <2>1, <2>2 DEF EndsInv
<1>8. NamedInv(t)'
  BY <1>3 DEF NamedInv, Start0
<1>9. FateInv(t)' /\ TruthInv(t)'
  <2>1. child'[t] = child[t] /\ fate'[t] = fate[t] /\ lent'[t] = lent[t]
    BY <1>1
  <2>2. CASE call[t].got = "end"
    BY <1>1, <1>2, <1>3, <2>1, <2>2 DEF FateInv, TruthInv, Start0, BeforeExec
  <2>3. CASE call[t].got # "end"
    BY <1>1, <1>2, <1>3, <2>1, <2>3 DEF FateInv, TruthInv, Start0, BeforeExec
  <2> QED
    BY <2>2, <2>3
<1>10. ChildInv(t)'
  BY <1>1, <1>2 DEF ChildInv
<1> QED
  BY <1>4, <1>5, <1>6, <1>7, <1>8, <1>9, <1>10, TheOthers

\* Collecting the child, after a failure or by the caller.
LEMMA ReapStep ==
  ASSUME NEW t \in Thread, IInv, WaitFailed(t) \/ Wait(t)
  PROVE  IInv'
<1>1. /\ call[t].at \in {"wait", "idle"} /\ child[t].at = "exited"
      /\ child' = [child EXCEPT ![t].at = "reaped"]
      /\ UNCHANGED <<table, said, fate, lent>>
      /\ \/ call[t].at = "wait" /\ Answer(t, "failed")
         \/ call[t].at = "idle" /\ UNCHANGED call
  BY DEF WaitFailed, Wait
<1>2. /\ EndsInv(t) /\ NamedInv(t) /\ FateInv(t) /\ TruthInv(t) /\ ChildInv(t)
      /\ Domains /\ TableInv
  BY DEF IInv
<1>3. /\ call' \in [Thread -> CallRecord] /\ call'[t].at = "idle"
      /\ \A u \in Thread \ {t} : call'[u] = call[u]
      /\ \/ call[t].at = "wait" /\ call'[t].result = "failed"
         \/ call[t].at = "idle" /\ call'[t].result = call[t].result
  <2>1. CASE Answer(t, "failed") /\ call[t].at = "wait"
    BY <1>2, <2>1, Answering
  <2>2. CASE UNCHANGED call /\ call[t].at = "idle"
    BY <1>2, <2>2 DEF Domains
  <2> QED
    BY <1>1, <2>1, <2>2
<1>4. /\ child' \in [Thread -> ChildRecord] /\ child'[t].at = "reaped"
      /\ \A u \in Thread \ {t} : child'[u] = child[u]
  BY <1>1, <1>2 DEF Domains, ChildRecord, ChildPlaces
<1>5. StepOf(t) /\ Domains' /\ TableInv'
  BY <1>1, <1>2, <1>3, <1>4 DEF StepOf, Domains, TableInv
<1>6. EndsInv(t)'
  BY <1>1, <1>2, <1>3 DEF EndsInv
<1>7. NamedInv(t)'
  BY <1>3 DEF NamedInv, Start0
<1>8. FateInv(t)' /\ TruthInv(t)'
  BY <1>1, <1>2, <1>3, <1>4 DEF FateInv, TruthInv, Start0, BeforeExec
<1>9. ChildInv(t)'
  BY <1>4 DEF ChildInv, BeforeExec
<1> QED
  BY <1>5, <1>6, <1>7, <1>8, <1>9, TheOthers

-----------------------------------------------------------------------------
\* A step of the child of t.
LEMMA ChildStep ==
  ASSUME NEW t \in Thread, IInv, UNCHANGED <<table, call>>, Domains',
         \A u \in Thread \ {t} : /\ child'[u] = child[u] /\ fate'[u] = fate[u]
                                 /\ said'[u] = said[u] \/ lent'[u],
         \A u \in Thread : lent[u] => lent'[u],
         FateInv(t)', TruthInv(t)', ChildInv(t)'
  PROVE  IInv'
<1>1. TableInv /\ EndsInv(t) /\ NamedInv(t)
  BY DEF IInv
<1>2. TableInv' /\ EndsInv(t)' /\ NamedInv(t)' /\ StepOf(t)
  BY <1>1 DEF TableInv, EndsInv, NamedInv, StepOf
<1> QED
  BY <1>2, TheOthers

\* The child goes on and has not failed.
LEMMA SetStep ==
  ASSUME NEW t \in Thread, IInv, UNCHANGED <<table, call, said, fate, lent>>,
         child[t].at \in BeforeExec, NEW d \in ChildRecord, child' = [child EXCEPT ![t] = d],
         d.at \in BeforeExec, Setting(t, d)
  PROVE  IInv'
<1>1. FateInv(t) /\ TruthInv(t) /\ Domains
  BY DEF IInv
<1>2. /\ child' \in [Thread -> ChildRecord] /\ child'[t] = d
      /\ \A u \in Thread \ {t} : child'[u] = child[u]
  BY <1>1 DEF Domains
<1>3. Domains'
  BY <1>1, <1>2 DEF Domains
<1>4. FateInv(t)' /\ TruthInv(t)'
  BY <1>1, <1>2 DEF FateInv, TruthInv, BeforeExec, Start0
<1>5. ChildInv(t)'
  BY <1>2 DEF ChildInv, BeforeExec
<1> QED
  BY <1>2, <1>3, <1>4, <1>5, ChildStep

LEMMA FailsStep ==
  ASSUME NEW t \in Thread, IInv, UNCHANGED <<table, call, said, fate, lent>>,
         child[t].at \in BeforeExec, Fails(t)
  PROVE  IInv'
<1>1. FateInv(t) /\ TruthInv(t) /\ Domains /\ Reports(t, child[t])
  BY DEF IInv, ChildInv, Setting
<1>2. /\ child' \in [Thread -> ChildRecord]
      /\ child'[t].at = "failed" /\ child'[t].table = child[t].table
      /\ child'[t].report = child[t].report
      /\ \A u \in Thread \ {t} : child'[u] = child[u]
  BY <1>1 DEF Domains, ChildRecord, ChildPlaces, Fails
<1>3. Domains'
  BY <1>1, <1>2 DEF Domains
<1>4. FateInv(t)' /\ TruthInv(t)'
  BY <1>1, <1>2 DEF FateInv, TruthInv, BeforeExec, Start0
<1>5. ChildInv(t)'
  BY <1>1, <1>2 DEF ChildInv, BeforeExec, Reports
<1> QED
  BY <1>2, <1>3, <1>4, <1>5, ChildStep

LEMMA ExitsStep ==
  ASSUME NEW t \in Thread, IInv, UNCHANGED <<table, call, lent>>, Domains', Exits(t),
         \A u \in Thread \ {t} : said'[u] = said[u] /\ fate'[u] = fate[u],
         \/ /\ child[t].at \in BeforeExec \cup {"failed"}
            /\ \/ fate'[t] = "failed" /\ said'[t] = "errno"
               \/ fate'[t] = "killed" /\ said'[t] = said[t]
         \/ child[t].at = "running" /\ fate'[t] = fate[t] /\ said'[t] = said[t]
  PROVE  IInv'
<1>1. FateInv(t) /\ TruthInv(t) /\ Domains
  BY DEF IInv
<1>2. /\ child'[t].at = "exited"
      /\ \A u \in Thread \ {t} : child'[u] = child[u]
  BY <1>1 DEF Domains, Exits, NoChild
<1>3. FateInv(t)' /\ TruthInv(t)'
  BY <1>1, <1>2 DEF FateInv, TruthInv, BeforeExec, Start0
<1>4. ChildInv(t)'
  BY <1>2 DEF ChildInv, BeforeExec
<1> QED
  BY <1>2, <1>3, <1>4, ChildStep

LEMMA ExitedRecord ==
  ASSUME NEW t \in Thread, Domains, Exits(t)
  PROVE  child' \in [Thread -> ChildRecord]
<1>1. NoChild \in ChildRecord
  BY Entries, FdAssumption DEF NoChild, ChildRecord, ChildPlaces
<1>2. [NoChild EXCEPT !.at = "exited"] \in ChildRecord
  BY <1>1 DEF ChildRecord, ChildPlaces
<1> QED
  BY <1>2 DEF Exits, Domains

LEMMA ChildSetupStep ==
  ASSUME NEW t \in Thread, IInv, ChildSetup(t)
  PROVE  IInv'
<1>1. child[t].at = "setup" /\ UNCHANGED <<table, call, said, fate, lent>>
  BY DEF ChildSetup, ChildAt
<1>2. CASE Fails(t)
  BY <1>1, <1>2, FailsStep DEF BeforeExec
<1>3. CASE child' = [child EXCEPT ![t].at = "report"]
  <2> DEFINE d == [child[t] EXCEPT !.at = "report"]
  <2>1. child[t] \in ChildRecord /\ child' = [child EXCEPT ![t] = d]
    BY <1>3 DEF IInv, Domains
  <2>2. /\ d \in ChildRecord /\ d.at = "report" /\ d.table = child[t].table
        /\ d.fds = child[t].fds /\ d.i = child[t].i /\ d.report = child[t].report
        /\ d.asked = child[t].asked
    BY <2>1 DEF ChildRecord, ChildPlaces
  <2>3. Setting(t, child[t])
    BY <1>1 DEF IInv, ChildInv, BeforeExec
  <2> HIDE DEF d
  <2>4. Setting(t, d)
    BY <1>1, <2>2, <2>3 DEF Setting, Reports, Hidden, Sourced, Suits
  <2> QED
    BY <1>1, <2>1, <2>2, <2>4, SetStep DEF BeforeExec
<1> QED
  BY <1>2, <1>3 DEF ChildSetup

LEMMA ChildExecStep ==
  ASSUME NEW t \in Thread, IInv, ChildExec(t)
  PROVE  IInv'
<1>1. child[t].at = "exec" /\ UNCHANGED <<table, call, said>>
  BY DEF ChildExec, ChildAt
<1>2. CASE Fails(t) /\ UNCHANGED <<fate, lent>>
  BY <1>1, <1>2, FailsStep DEF BeforeExec
<1>3. CASE ~ (Fails(t) /\ UNCHANGED <<fate, lent>>)
  <2> DEFINE c == child[t]
             tab == [f \in Fd |-> IF c.table[f].cloexec THEN Free ELSE c.table[f]]
             d == [c EXCEPT !.at = "running", !.table = tab]
  <2>1. FateInv(t) /\ TruthInv(t) /\ Domains /\ Setting(t, c)
    BY <1>1 DEF IInv, ChildInv, BeforeExec
  <2>2. c \in ChildRecord
    BY <2>1 DEF Domains
  <2>3. /\ child' = [child EXCEPT ![t] = d] /\ fate' = [fate EXCEPT ![t] = "program"]
        /\ lent' = [u \in Thread |-> lent[u] \/ InSlot(t, ReadEnd(u)) \/ InSlot(t, WriteEnd(u))]
    BY <1>3, <2>1 DEF ChildExec, Domains
  <2>3a. /\ lent' \in [Thread -> BOOLEAN]
         /\ \A u \in Thread : lent[u] => lent'[u]
         /\ \A u \in Thread : InSlot(t, ReadEnd(u)) \/ InSlot(t, WriteEnd(u)) => lent'[u]
    BY <2>3, Zenon
  <2>4. /\ tab \in [Fd -> Entry]
        /\ \A f \in Fd : \/ c.table[f].cloexec /\ tab[f] = Free
                         \/ ~ c.table[f].cloexec /\ tab[f] = c.table[f]
    <3>1. c.table \in [Fd -> Entry]
      BY <2>2 DEF ChildRecord
    <3> QED
      BY <3>1, Entries
  <2> HIDE DEF tab
  <2>5. /\ d \in ChildRecord /\ d.at = "running" /\ d.table = tab
        /\ d.fds = c.fds /\ d.asked = c.asked
    BY <2>2, <2>4 DEF ChildRecord, ChildPlaces
  <2> HIDE DEF d
  <2>6. \A j \in 0 .. Len(d.fds) - 1 : /\ d.table[j] = c.table[j]
                                       /\ Suits(d, d.table[j].file, d.asked[j + 1])
    <3> SUFFICES ASSUME NEW j \in 0 .. Len(c.fds) - 1
                 PROVE  tab[j] = c.table[j] /\ Suits(d, tab[j].file, c.asked[j + 1])
      BY <2>5
    <3>1. j \in Fd /\ Suits(c, c.table[j].file, c.asked[j + 1]) /\ ~ c.table[j].cloexec
      BY <1>1, <2>1 DEF Setting, Filled
    <3>2. tab[j] = c.table[j]
      BY <2>4, <3>1
    <3> QED
      BY <2>5, <3>1, <3>2 DEF Suits
  <2>7. \A f \in Fd \ (0 .. Len(d.fds) - 1) :
          d.table[f].file \notin Opened \cup {ReadEnd(t), WriteEnd(t)}
    <3> SUFFICES ASSUME NEW f \in Fd, f \notin 0 .. Len(c.fds) - 1
                 PROVE  tab[f].file \notin Opened \cup {ReadEnd(t), WriteEnd(t)}
      BY <2>5
    <3>1. f \in Nat /\ Len(c.fds) \in Nat
      BY <2>2, Descriptors DEF ChildRecord
    <3>2. f >= Len(c.fds)
      BY <3>1
    <3>3. /\ c.table[f].file # ReadEnd(t)
          /\ c.table[f].file \in Opened \cup {WriteEnd(t)} => c.table[f].cloexec
      BY <2>1, <3>2 DEF Setting, Hidden
    <3>4. Free.file \notin Opened \cup {ReadEnd(t), WriteEnd(t)}
      BY Files, Entries DEF Given
    <3> QED
      BY <2>4, <3>3, <3>4
  <2>8. Became(t, d)
    BY <2>1, <2>5, <2>6, <2>7 DEF Became, Setting
  <2>8a. Lends(d, lent')
    <3> SUFFICES ASSUME NEW u \in Thread, NEW j \in 0 .. Len(c.fds) - 1,
                        c.table[j].file \in {ReadEnd(u), WriteEnd(u)}
                 PROVE  lent'[u]
      BY <2>5, <2>6 DEF Lends
    <3>1. InSlot(t, ReadEnd(u)) \/ InSlot(t, WriteEnd(u))
      BY DEF InSlot, Slots, Count
    <3> QED
      BY <2>3a, <3>1
  <2> HIDE DEF c
  <2>9. /\ child' \in [Thread -> ChildRecord] /\ child'[t] = d
        /\ fate' \in [Thread -> {"none", "program", "failed", "killed"}] /\ fate'[t] = "program"
        /\ \A u \in Thread \ {t} : child'[u] = child[u] /\ fate'[u] = fate[u]
    BY <2>1, <2>3, <2>5 DEF Domains
  <2>10. Domains'
    BY <1>1, <2>1, <2>3a, <2>9 DEF Domains
  <2>11. FateInv(t)' /\ TruthInv(t)'
    BY <1>1, <2>1, <2>3a, <2>5, <2>9 DEF FateInv, TruthInv, BeforeExec, Start0
  <2>12. ChildInv(t)'
    <3>1. child'[t].at = "running" /\ Became(t, child'[t]) /\ Lends(child'[t], lent')
      BY <2>5, <2>8, <2>8a, <2>9
    <3> QED
      BY <3>1 DEF ChildInv, BeforeExec
  <2> QED
    BY <1>1, <2>3a, <2>9, <2>10, <2>11, <2>12, ChildStep
<1> QED
  BY <1>2, <1>3

LEMMA ChildFailedStep ==
  ASSUME NEW t \in Thread, IInv, ChildFailed(t)
  PROVE  IInv'
<1>1. /\ child[t].at = "failed" /\ UNCHANGED <<table, call, lent>> /\ Exits(t)
      /\ fate' = [fate EXCEPT ![t] = "failed"]
      /\ said' = IF child[t].table[child[t].report].file = WriteEnd(t)
                 THEN [said EXCEPT ![t] = "errno"] ELSE said
  BY DEF ChildFailed, ChildAt
<1>2. Domains /\ child[t].table[child[t].report].file = WriteEnd(t)
  BY <1>1 DEF IInv, ChildInv, Reports
<1>3. /\ said' \in [Thread -> {"nothing", "part", "errno"}] /\ said'[t] = "errno"
      /\ \A u \in Thread \ {t} : said'[u] = said[u]
  BY <1>1, <1>2 DEF Domains
<1>4. /\ fate' \in [Thread -> {"none", "program", "failed", "killed"}] /\ fate'[t] = "failed"
      /\ \A u \in Thread \ {t} : fate'[u] = fate[u]
  BY <1>1, <1>2 DEF Domains
<1>5. Domains'
  BY <1>1, <1>2, <1>3, <1>4, ExitedRecord DEF Domains
<1> QED
  BY <1>1, <1>3, <1>4, <1>5, ExitsStep

LEMMA ChildEndsStep ==
  ASSUME NEW t \in Thread, IInv, ChildKilled(t) \/ ProgramEnds(t)
  PROVE  IInv'
<1>1. /\ UNCHANGED <<table, call, said, lent>> /\ Exits(t)
      /\ \/ child[t].at \in BeforeExec \cup {"failed"} /\ fate' = [fate EXCEPT ![t] = "killed"]
         \/ child[t].at = "running" /\ UNCHANGED fate
  BY DEF ChildKilled, ProgramEnds, ChildAt, BeforeExec
<1>2. Domains
  BY DEF IInv
<1>3. /\ fate' \in [Thread -> {"none", "program", "failed", "killed"}]
      /\ \A u \in Thread \ {t} : fate'[u] = fate[u]
      /\ \/ child[t].at \in BeforeExec \cup {"failed"} /\ fate'[t] = "killed"
         \/ child[t].at = "running" /\ fate'[t] = fate[t]
  BY <1>1, <1>2 DEF Domains
<1>4. Domains'
  BY <1>1, <1>2, <1>3, ExitedRecord DEF Domains
<1> QED
  BY <1>1, <1>3, <1>4, ExitsStep

\* A program can only use the pipe of a start whose pipe is lent.
LEMMA ProgramStep ==
  ASSUME NEW t \in Thread, NEW u \in Thread, IInv, ProgramWrites(t, u) \/ ProgramReads(t, u)
  PROVE  IInv'
<1>1. /\ child[t].at = "running" /\ UNCHANGED <<table, call, child, fate, lent>>
      /\ InSlot(t, WriteEnd(u)) \/ InSlot(t, ReadEnd(u))
      /\ \E what \in {"nothing", "part", "errno"} : said' = [said EXCEPT ![u] = what]
  BY DEF ProgramWrites, ProgramReads, ChildAt
<1>2. Domains /\ FateInv(t) /\ TruthInv(t) /\ ChildInv(t)
  BY DEF IInv
<1>3. lent[u]
  BY <1>1, <1>2 DEF ChildInv, Lends, InSlot, Slots, Count
<1>4. /\ said' \in [Thread -> {"nothing", "part", "errno"}]
      /\ \A v \in Thread : said'[v] = said[v] \/ lent[v]
  BY <1>1, <1>2, <1>3 DEF Domains
<1>5. Domains'
  BY <1>1, <1>2, <1>4 DEF Domains
<1>6. FateInv(t)' /\ TruthInv(t)'
  BY <1>1, <1>2, <1>4 DEF FateInv, TruthInv
<1>7. ChildInv(t)'
  BY <1>1, <1>2 DEF ChildInv
<1> QED
  BY <1>1, <1>4, <1>5, <1>6, <1>7, ChildStep

-----------------------------------------------------------------------------
\* Numbers: a set of them that has one has a least one.
LEMMA LeastNatural ==
  ASSUME NEW T \in SUBSET Nat, T # {}
  PROVE  \E x \in T : \A y \in T : x <= y
<1> DEFINE R == OpToRel(<, Nat)
<1>1. IsWellFoundedOn(R, Nat)
  BY NatLessThanWellFounded, Zenon
<1>2. \A x, y \in Nat : y < x => <<y, x>> \in R
  BY Zenon DEF OpToRel
<1> HIDE DEF R
<1>3. \E x \in T : \A y \in T : ~ (<<y, x>> \in R)
  BY <1>1, WFMin, Zenon
<1>4. PICK x \in T : \A y \in T : ~ (<<y, x>> \in R)
  BY <1>3
<1>5. \A y \in T : ~ (y < x)
  BY <1>2, <1>4
<1> QED
  BY <1>4, <1>5

\* move_above finds a descriptor that is free and past the slots.
LEMMA AboveIsFree ==
  ASSUME NEW t \in Thread, child[t] \in ChildRecord,
         NEW tab \in [Fd -> Entry], Unused(tab, Count(t)) # {}
  PROVE  /\ Above(t, tab) \in Fd /\ Above(t, tab) >= Len(child[t].fds)
         /\ tab[Above(t, tab)].file = NoFile
<1> DEFINE U == Unused(tab, Count(t))
<1>1. U \in SUBSET Nat
  BY Descriptors DEF Unused
<1>2. \E x \in U : \A y \in U : x <= y
  BY <1>1, LeastNatural, Zenon
<1>3. Above(t, tab) \in U
  BY <1>2, Zenon DEF Above, Min
<1> QED
  BY <1>3, Entries DEF Unused, Count

\* A copy put in a free descriptor past the slots disturbs nothing that was there.
LEMMA Copied ==
  ASSUME NEW tab \in [Fd -> Entry], NEW from \in Fd, NEW to \in Fd,
         tab[from].file \in File, tab[to].file = NoFile
  PROVE  /\ Dup(tab, from, to) \in [Fd -> Entry]
         /\ Dup(tab, from, to)[to].file = tab[from].file /\ Dup(tab, from, to)[to].cloexec
         /\ \A f \in Fd : tab[f].file # NoFile => Dup(tab, from, to)[f] = tab[f]
         /\ \A f \in Fd \ {to} : Dup(tab, from, to)[f] = tab[f]
<1>1. [file |-> tab[from].file, cloexec |-> TRUE] \in Entry
  BY Entries
<1> QED
  BY <1>1 DEF Dup

\* The same for the child that does it.
LEMMA CopyKeeps ==
  ASSUME NEW t \in Thread, NEW c \in ChildRecord, Setting(t, c),
         NEW from \in Fd, NEW to \in Fd, c.table[from].file \in File \ {ReadEnd(t)},
         to >= Len(c.fds), c.table[to].file = NoFile,
         NEW tab, tab = Dup(c.table, from, to)
  PROVE  /\ tab \in [Fd -> Entry]
         /\ tab[to].file = c.table[from].file
         /\ tab[c.report].file = WriteEnd(t)
         /\ \A f \in Fd :
              /\ tab[f].file # ReadEnd(t)
              /\ f >= Len(c.fds) /\ tab[f].file \in Opened \cup {WriteEnd(t)} => tab[f].cloexec
         /\ \A f \in Fd \ {to} : tab[f] = c.table[f]
<1>1. c.table \in [Fd -> Entry] /\ c.report \in Fd
  BY DEF ChildRecord
<1>2. /\ tab \in [Fd -> Entry]
      /\ tab[to].file = c.table[from].file /\ tab[to].cloexec
      /\ \A f \in Fd : c.table[f].file # NoFile => tab[f] = c.table[f]
      /\ \A f \in Fd \ {to} : tab[f] = c.table[f]
  BY <1>1, Copied
<1>3. tab[c.report].file = WriteEnd(t)
  BY <1>1, <1>2, Files DEF Setting, Reports
<1>4. \A f \in Fd :
        /\ tab[f].file # ReadEnd(t)
        /\ f >= Len(c.fds) /\ tab[f].file \in Opened \cup {WriteEnd(t)} => tab[f].cloexec
  BY <1>2 DEF Setting, Hidden
<1> QED
  BY <1>2, <1>3, <1>4

\* A source is what it was after a copy to a free descriptor, unless it is the copy.
LEMMA CopiedSource ==
  ASSUME NEW t \in Thread, NEW c \in ChildRecord, NEW d \in ChildRecord, NEW to \in Fd,
         NEW j \in 0 .. Len(c.fds) - 1, Sourced(c, j),
         d.asked = c.asked, d.fds[j + 1] = c.fds[j + 1],
         \A f \in Fd \ {to} : d.table[f] = c.table[f],
         c.table[to].file = NoFile,
         d.table[to].file \in Given => d.table[to].file \in Range(c.asked)
  PROVE  Sourced(d, j)
<1>1. CASE c.fds[j + 1] = -1 /\ c.asked[j + 1] = NoFile
  BY <1>1 DEF Sourced
<1>2. CASE c.asked[j + 1] \in Given
  <2>1. c.asked[j + 1] \notin {Stale, NoFile}
    BY <1>2, Files
  <2>2. c.fds[j + 1] \in Fd /\ c.table[c.fds[j + 1]].file = c.asked[j + 1]
    BY <2>1 DEF Sourced, Suits
  <2>3. c.fds[j + 1] # to
    BY <2>1, <2>2
  <2>4. d.table[c.fds[j + 1]] = c.table[c.fds[j + 1]]
    BY <2>2, <2>3
  <2> QED
    BY <1>2, <2>1, <2>2, <2>4 DEF Sourced, Suits
<1>3. CASE c.asked[j + 1] = Stale
  <2>1. /\ c.fds[j + 1] \in Fd
        /\ c.table[c.fds[j + 1]].file \in Given => c.table[c.fds[j + 1]].file \in Range(c.asked)
    BY <1>3, Files DEF Sourced, Suits
  <2>2. d.table[c.fds[j + 1]].file \in Given => d.table[c.fds[j + 1]].file \in Range(d.asked)
    BY <2>1
  <2> QED
    BY <1>3, <2>1, <2>2 DEF Sourced, Suits
<1> QED
  BY <1>1, <1>2, <1>3 DEF Sourced

LEMMA ChildMoveReportStep ==
  ASSUME NEW t \in Thread, IInv, ChildMoveReport(t)
  PROVE  IInv'
<1> DEFINE c == child[t]
<1>1. c.at = "report" /\ UNCHANGED <<table, call, said, fate, lent>>
  BY DEF ChildMoveReport, ChildAt
<1>2. Domains /\ Setting(t, c) /\ c \in ChildRecord
  BY <1>1 DEF IInv, ChildInv, BeforeExec, Domains
<1>3. CASE c.report >= Count(t) /\ child' = [child EXCEPT ![t].at = "first"]
  <2> DEFINE d == [c EXCEPT !.at = "first"]
  <2>1. child' = [child EXCEPT ![t] = d]
    BY <1>2, <1>3 DEF Domains
  <2>2. /\ d \in ChildRecord /\ d.at = "first" /\ d.table = c.table
        /\ d.fds = c.fds /\ d.i = c.i /\ d.report = c.report /\ d.asked = c.asked
    BY <1>2 DEF ChildRecord, ChildPlaces
  <2>3. c.report >= Len(c.fds)
    BY <1>3 DEF Count
  <2> HIDE DEF d, c
  <2>4. c.i = 0
    BY <1>1, <1>2 DEF Setting
  <2>5. Setting(t, d)
    <3>1. Reports(t, d) /\ Hidden(t, d)
      BY <1>2, <2>2 DEF Setting, Reports, Hidden
    <3>2. ASSUME NEW j \in 0 .. Len(c.fds) - 1
          PROVE  Sourced(d, j)
      <4>1. Sourced(c, j)
        BY <1>1, <1>2 DEF Setting
      <4> QED
        BY <2>2, <4>1 DEF Sourced, Suits
    <3> QED
      BY <1>1, <1>2, <2>2, <2>3, <2>4, <3>1, <3>2 DEF Setting
  <2> QED
    BY <1>1, <2>1, <2>2, <2>5, SetStep DEF BeforeExec, c
<1>4. CASE /\ c.report < Count(t) /\ Unused(c.table, Count(t)) # {}
           /\ child' = [child EXCEPT ![t].at = "first", ![t].report = Above(t, c.table),
                                     ![t].table = Dup(@, c.report, Above(t, c.table))]
  <2> DEFINE a == Above(t, c.table)
             tab == Dup(c.table, c.report, a)
             d == [c EXCEPT !.at = "first", !.report = a, !.table = tab]
  <2>1. child' = [child EXCEPT ![t] = d]
    BY <1>2, <1>4 DEF Domains, ChildRecord
  <2>2. c.table \in [Fd -> Entry] /\ c.report \in Fd /\ c.table[c.report].file = WriteEnd(t)
    BY <1>2 DEF ChildRecord, Setting, Reports
  <2>3. a \in Fd /\ a >= Len(c.fds) /\ c.table[a].file = NoFile
    BY <1>2, <1>4, <2>2, AboveIsFree
  <2> HIDE DEF a
  <2>4. c.table[c.report].file \in File \ {ReadEnd(t)}
    BY <2>2, Files
  <2>5. /\ tab \in [Fd -> Entry]
        /\ tab[a].file = WriteEnd(t)
        /\ \A f \in Fd :
             /\ tab[f].file # ReadEnd(t)
             /\ f >= Len(c.fds) /\ tab[f].file \in Opened \cup {WriteEnd(t)} => tab[f].cloexec
        /\ \A f \in Fd \ {a} : tab[f] = c.table[f]
    BY <1>2, <2>2, <2>3, <2>4, CopyKeeps
  <2> HIDE DEF tab
  <2>6. /\ d \in ChildRecord /\ d.at = "first" /\ d.table = tab
        /\ d.fds = c.fds /\ d.i = c.i /\ d.report = a /\ d.asked = c.asked
    BY <1>2, <2>3, <2>5 DEF ChildRecord, ChildPlaces
  <2> HIDE DEF d, c
  <2>7. c.i = 0
    BY <1>1, <1>2 DEF Setting
  <2>8. ASSUME NEW j \in 0 .. Len(c.fds) - 1
        PROVE  Sourced(d, j)
    <3>1. Sourced(c, j)
      BY <1>1, <1>2 DEF Setting
    <3>2. d.table[a].file \notin Given
      BY <2>5, <2>6, Files
    <3> QED
      BY <1>2, <2>3, <2>5, <2>6, <3>1, <3>2, CopiedSource
  <2>9. Hidden(t, d) /\ Reports(t, d)
    BY <2>5, <2>6 DEF Hidden, Reports
  <2>10. Setting(t, d)
    BY <1>1, <1>2, <2>3, <2>6, <2>7, <2>8, <2>9 DEF Setting
  <2> QED
    BY <1>1, <2>1, <2>6, <2>10, SetStep DEF BeforeExec, c
<1>5. CASE Fails(t)
  BY <1>1, <1>5, FailsStep DEF BeforeExec
<1> QED
  BY <1>3, <1>4, <1>5 DEF ChildMoveReport

\* Where the loop is after a slot.
LEMMA Advanced ==
  ASSUME NEW t \in Thread, child[t] \in ChildRecord, NEW d \in ChildRecord,
         Len(d.fds) = Len(child[t].fds), NEW next \in ChildPlaces, Advance(t, d, next)
  PROVE  \E e \in ChildRecord :
           /\ child' = [child EXCEPT ![t] = e]
           /\ e.table = d.table /\ e.fds = d.fds /\ e.report = d.report /\ e.asked = d.asked
           /\ \/ d.i + 1 = Len(d.fds) /\ e.i = 0 /\ e.at = next
              \/ d.i + 1 # Len(d.fds) /\ e.i = d.i + 1 /\ e.at = d.at
<1> DEFINE done == [d EXCEPT !.i = 0, !.at = next]
           more == [d EXCEPT !.i = @ + 1]
<1>1. child' = [child EXCEPT ![t] = IF d.i + 1 = Len(d.fds) THEN done ELSE more]
  BY DEF Advance, Count
<1>2. /\ done \in ChildRecord /\ done.table = d.table /\ done.fds = d.fds
      /\ done.report = d.report /\ done.asked = d.asked /\ done.i = 0 /\ done.at = next
  BY DEF ChildRecord
<1>3. /\ more \in ChildRecord /\ more.table = d.table /\ more.fds = d.fds
      /\ more.report = d.report /\ more.asked = d.asked /\ more.i = d.i + 1 /\ more.at = d.at
  <2>1. d.i + 1 \in Nat
    BY DEF ChildRecord
  <2>2. ASSUME NEW n \in Nat
        PROVE  /\ [d EXCEPT !.i = n] \in ChildRecord /\ [d EXCEPT !.i = n].i = n
               /\ \A field \in {"at", "table", "fds", "report", "asked"} :
                    [d EXCEPT !.i = n][field] = d[field]
    BY DEF ChildRecord
  <2> QED
    BY <2>1, <2>2
<1> HIDE DEF done, more
<1>4. CASE d.i + 1 = Len(d.fds)
  BY <1>1, <1>2, <1>4
<1>5. CASE d.i + 1 # Len(d.fds)
  BY <1>1, <1>3, <1>5
<1> QED
  BY <1>4, <1>5

\* After a slot of the first pass: sources are as they were or above the slots.
LEMMA FirstPass ==
  ASSUME NEW t \in Thread, IInv, child[t].at = "first", UNCHANGED <<table, call, said, fate, lent>>,
         NEW d \in ChildRecord, Advance(t, d, "second"),
         d.at = "first", d.i = child[t].i, d.report = child[t].report,
         d.asked = child[t].asked, Len(d.fds) = Len(child[t].fds),
         Reports(t, d), Hidden(t, d),
         \A j \in 0 .. Len(d.fds) - 1 :
           Sourced(d, j) /\ (j <= d.i => Ahead(d, j))
  PROVE  IInv'
<1>1. Setting(t, child[t]) /\ child[t] \in ChildRecord
  BY DEF IInv, ChildInv, BeforeExec, Domains
<1>2. PICK e \in ChildRecord :
        /\ child' = [child EXCEPT ![t] = e]
        /\ e.table = d.table /\ e.fds = d.fds /\ e.report = d.report /\ e.asked = d.asked
        /\ \/ d.i + 1 = Len(d.fds) /\ e.i = 0 /\ e.at = "second"
           \/ d.i + 1 # Len(d.fds) /\ e.i = d.i + 1 /\ e.at = d.at
  BY <1>1, Advanced DEF ChildPlaces
<1>3. /\ Len(d.asked) = Len(d.fds) /\ Len(d.fds) > 0 /\ 0 .. Len(d.fds) - 1 \subseteq Fd
      /\ d.i \in 0 .. Len(d.fds) - 1 /\ d.report >= Len(d.fds) /\ Len(d.fds) \in Nat
  BY <1>1 DEF Setting, ChildRecord
<1>4. e.i \in 0 .. Len(e.fds) - 1
  BY <1>2, <1>3
<1>5. Reports(t, e) /\ Hidden(t, e)
  BY <1>2 DEF Reports, Hidden
<1>6. ASSUME NEW j \in 0 .. Len(e.fds) - 1
      PROVE  /\ Sourced(e, j)
             /\ j < e.i => Ahead(e, j)
             /\ e.at = "second" => Ahead(e, j)
  <2>1. Sourced(e, j) /\ (j <= d.i => Ahead(e, j))
    BY <1>2 DEF Sourced, Suits, Ahead
  <2>2. CASE e.at = "second"
    BY <1>2, <1>3, <2>1, <2>2
  <2>3. CASE e.at # "second"
    BY <1>2, <1>3, <2>1, <2>3
  <2> QED
    BY <2>2, <2>3
<1>7. e.at = "second" => e.i = 0
  BY <1>2
<1>8. Setting(t, e)
  BY <1>2, <1>3, <1>4, <1>5, <1>6, <1>7 DEF Setting
<1> QED
  BY <1>2, <1>8, SetStep DEF BeforeExec

LEMMA ChildFirstStep ==
  ASSUME NEW t \in Thread, IInv, ChildFirst(t)
  PROVE  IInv'
<1> DEFINE c == child[t]
           source == c.fds[c.i + 1]
<1>1. c.at = "first" /\ UNCHANGED <<table, call, said, fate, lent>>
  BY DEF ChildFirst, ChildAt
<1>2. Setting(t, c) /\ c \in ChildRecord
  BY <1>1 DEF IInv, ChildInv, BeforeExec, Domains
<1>3. /\ c.i \in 0 .. Len(c.fds) - 1 /\ Len(c.fds) \in Nat /\ Len(c.asked) = Len(c.fds)
      /\ \A j \in 0 .. Len(c.fds) - 1 : Sourced(c, j) /\ (j < c.i => Ahead(c, j))
      /\ Reports(t, c) /\ Hidden(t, c)
  BY <1>1, <1>2 DEF Setting, ChildRecord
<1>4. source = -1 \/ source \in Fd
  BY <1>3 DEF Sourced
<1>5. CASE ~ (source >= 0 /\ source < c.i) /\ Advance(t, c, "second")
  <2>1. Ahead(c, c.i)
    BY <1>3, <1>4, <1>5, Descriptors DEF Ahead
  <2>2. \A j \in 0 .. Len(c.fds) - 1 : Sourced(c, j) /\ (j <= c.i => Ahead(c, j))
    BY <1>3, <2>1
  <2> QED
    BY <1>1, <1>2, <1>3, <1>5, <2>2, FirstPass
<1>6. CASE /\ source >= 0 /\ source < c.i /\ c.table[source] # Free
           /\ Unused(c.table, Count(t)) # {}
           /\ Advance(t, [c EXCEPT !.fds[c.i + 1] = Above(t, c.table),
                                   !.table = Dup(@, source, Above(t, c.table))], "second")
  <2> DEFINE a == Above(t, c.table)
             tab == Dup(c.table, source, a)
             fds == [c.fds EXCEPT ![c.i + 1] = a]
             d == [c EXCEPT !.fds = fds, !.table = tab]
  <2>1. Advance(t, d, "second")
    <3>1. d = [c EXCEPT !.fds[c.i + 1] = Above(t, c.table),
                        !.table = Dup(@, source, Above(t, c.table))]
      BY <1>2 DEF ChildRecord
    <3> QED
      BY <1>6, <3>1
  <2>2. c.table \in [Fd -> Entry] /\ c.fds \in Seq(Int)
    BY <1>2 DEF ChildRecord
  <2>3. /\ source \in Fd /\ c.table[source].file \in File \ {ReadEnd(t)}
        /\ c.table[source].file \in Given => c.table[source].file \in Range(c.asked)
    <3>1. source \in Fd /\ Sourced(c, c.i) /\ c.i + 1 \in DOMAIN c.asked
      BY <1>2, <1>3, <1>4, <1>6 DEF ChildRecord
    <3>2. c.table[source].file \in File \ {ReadEnd(t)}
      BY <1>3, <1>6, <2>2, <3>1, Entries DEF Hidden
    <3>3. Suits(c, c.table[source].file, c.asked[c.i + 1])
      BY <1>6, <3>1 DEF Sourced
    <3>4. c.asked[c.i + 1] \in Range(c.asked)
      BY <3>1 DEF Range
    <3> QED
      BY <3>1, <3>2, <3>3, <3>4 DEF Suits
  <2>4. a \in Fd /\ a >= Len(c.fds) /\ c.table[a].file = NoFile
    BY <1>2, <1>6, <2>2, AboveIsFree
  <2> HIDE DEF a, source
  <2>6. /\ tab \in [Fd -> Entry]
        /\ tab[a].file = c.table[source].file
        /\ tab[c.report].file = WriteEnd(t)
        /\ \A f \in Fd :
             /\ tab[f].file # ReadEnd(t)
             /\ f >= Len(c.fds) /\ tab[f].file \in Opened \cup {WriteEnd(t)} => tab[f].cloexec
        /\ \A f \in Fd \ {a} : tab[f] = c.table[f]
    BY <1>2, <2>3, <2>4, CopyKeeps
  <2> HIDE DEF tab
  <2>7. /\ fds \in Seq(Int) /\ Len(fds) = Len(c.fds)
        /\ fds[c.i + 1] = a
        /\ \A j \in 0 .. Len(c.fds) - 1 : j # c.i => fds[j + 1] = c.fds[j + 1]
    <3>1. c.i + 1 \in 1 .. Len(c.fds) /\ a \in Int
      BY <1>3, <2>4, Descriptors
    <3>2. fds \in [1 .. Len(c.fds) -> Int]
      BY <2>2, <3>1
    <3>3. /\ fds[c.i + 1] = a
          /\ \A k \in 1 .. Len(c.fds) : k # c.i + 1 => fds[k] = c.fds[k]
      BY <2>2, <3>1
    <3> HIDE DEF fds
    <3>4. fds \in Seq(Int) /\ Len(fds) = Len(c.fds)
      BY <1>3, <3>2, Listed
    <3>5. ASSUME NEW j \in 0 .. Len(c.fds) - 1, j # c.i
          PROVE  fds[j + 1] = c.fds[j + 1]
      <4>1. j + 1 \in 1 .. Len(c.fds) /\ j + 1 # c.i + 1
        BY <1>3, <3>5
      <4> QED
        BY <3>3, <4>1
    <3> QED
      BY <3>3, <3>4, <3>5
  <2> HIDE DEF fds
  <2>8. /\ d \in ChildRecord /\ d.at = "first" /\ d.table = tab
        /\ d.fds = fds /\ d.i = c.i /\ d.report = c.report /\ d.asked = c.asked
    BY <1>1, <1>2, <2>6, <2>7 DEF ChildRecord
  <2> HIDE DEF d
  <2>9. Hidden(t, d) /\ Reports(t, d)
    BY <2>6, <2>7, <2>8 DEF Hidden, Reports
  <2>10. ASSUME NEW j \in 0 .. Len(d.fds) - 1
         PROVE  Sourced(d, j) /\ (j <= d.i => Ahead(d, j))
    <3>1. j \in 0 .. Len(c.fds) - 1 /\ Sourced(c, j) /\ (j < c.i => Ahead(c, j))
      BY <1>3, <2>7, <2>8
    <3>2. CASE j = c.i
      <4>1. /\ c.asked[j + 1] \in Given \cup {Stale}
            /\ Suits(c, c.table[source].file, c.asked[j + 1])
        BY <1>6, <2>3, <3>1, <3>2, Descriptors DEF Sourced, source
      <4>2. Sourced(d, j)
        BY <2>3, <2>4, <2>6, <2>7, <2>8, <3>2, <4>1 DEF Sourced, Suits
      <4>3. a >= c.i
        BY <1>3, <2>4, Descriptors
      <4> QED
        BY <2>7, <2>8, <3>2, <4>2, <4>3 DEF Ahead
    <3>3. CASE j # c.i
      <4>1. d.fds[j + 1] = c.fds[j + 1] /\ d.asked[j + 1] = c.asked[j + 1]
        BY <2>7, <2>8, <3>1, <3>3
      <4>2. Sourced(d, j)
        BY <1>2, <2>3, <2>4, <2>6, <2>8, <3>1, <4>1, CopiedSource
      <4>3. j <= d.i => j < c.i
        BY <1>3, <2>8, <3>1, <3>3
      <4> QED
        BY <3>1, <4>1, <4>2, <4>3 DEF Ahead
    <3> QED
      BY <3>2, <3>3
  <2> QED
    BY <1>1, <2>1, <2>7, <2>8, <2>9, <2>10, FirstPass
<1>7. CASE Fails(t)
  BY <1>1, <1>7, FailsStep DEF BeforeExec
<1> QED
  BY <1>5, <1>6, <1>7 DEF ChildFirst

\* A slot of the second pass filled: the sources still to come are at or past the
\* next slot, and so untouched.
LEMMA SecondPass ==
  ASSUME NEW t \in Thread, IInv, child[t].at = "second", UNCHANGED <<table, call, said, fate, lent>>,
         NEW entry \in Entry, ~ entry.cloexec, entry.file # ReadEnd(t),
         Suits(child[t], entry.file, child[t].asked[child[t].i + 1]),
         Advance(t, [child[t] EXCEPT !.table[child[t].i] = entry], "exec")
  PROVE  IInv'
<1> DEFINE c == child[t]
           tab == [c.table EXCEPT ![c.i] = entry]
           d == [c EXCEPT !.table = tab]
<1>1. Setting(t, c) /\ c \in ChildRecord
  BY DEF IInv, ChildInv, BeforeExec, Domains
<1>2. /\ c.i \in 0 .. Len(c.fds) - 1 /\ Len(c.fds) \in Nat /\ Len(c.fds) > 0
      /\ Len(c.asked) = Len(c.fds) /\ 0 .. Len(c.fds) - 1 \subseteq Fd
      /\ c.report >= Len(c.fds) /\ c.report \in Fd /\ c.table \in [Fd -> Entry]
      /\ Reports(t, c) /\ Hidden(t, c)
      /\ \A j \in 0 .. Len(c.fds) - 1 : /\ j >= c.i => Sourced(c, j) /\ Ahead(c, j)
                                        /\ j < c.i => Filled(c, j)
  BY <1>1 DEF Setting, ChildRecord
<1>3. Advance(t, d, "exec")
  BY <1>1 DEF ChildRecord
<1>4. /\ tab \in [Fd -> Entry] /\ tab[c.i] = entry
      /\ \A f \in Fd \ {c.i} : tab[f] = c.table[f]
  BY <1>2
<1> HIDE DEF tab
<1>5. /\ d \in ChildRecord /\ d.at = "second" /\ d.table = tab
      /\ d.fds = c.fds /\ d.i = c.i /\ d.report = c.report /\ d.asked = c.asked
  BY <1>1, <1>4 DEF ChildRecord
<1> HIDE DEF d
<1>6. PICK e \in ChildRecord :
        /\ child' = [child EXCEPT ![t] = e]
        /\ e.table = d.table /\ e.fds = d.fds /\ e.report = d.report /\ e.asked = d.asked
        /\ \/ d.i + 1 = Len(d.fds) /\ e.i = 0 /\ e.at = "exec"
           \/ d.i + 1 # Len(d.fds) /\ e.i = d.i + 1 /\ e.at = d.at
  BY <1>1, <1>3, <1>5, Advanced DEF ChildPlaces
<1>7. Reports(t, e)
  <2>1. c.report # c.i
    BY <1>2, Descriptors
  <2> QED
    BY <1>2, <1>4, <1>5, <1>6, <2>1 DEF Reports
<1>8. Hidden(t, e)
  <2>1. \A f \in Fd : f >= Len(c.fds) => tab[f] = c.table[f]
    BY <1>2, <1>4, Descriptors
  <2>2. \A f \in Fd : tab[f] = c.table[f] \/ tab[f] = entry
    BY <1>4
  <2> QED
    BY <1>2, <1>5, <1>6, <2>1, <2>2 DEF Hidden
<1>9. ASSUME NEW j \in 0 .. Len(c.fds) - 1, j <= c.i
      PROVE  Filled(e, j)
  <2>1. CASE j = c.i
    BY <1>4, <1>5, <1>6, <2>1 DEF Filled, Suits
  <2>2. CASE j # c.i
    <3>1. Filled(c, j) /\ tab[j] = c.table[j]
      BY <1>2, <1>4, <1>9, <2>2
    <3> QED
      BY <1>5, <1>6, <3>1 DEF Filled, Suits
  <2> QED
    BY <2>1, <2>2
<1>10. ASSUME NEW j \in 0 .. Len(c.fds) - 1, j > c.i
       PROVE  Sourced(e, j) /\ Ahead(e, j)
  <2>1. Sourced(c, j) /\ Ahead(c, j)
    BY <1>2, <1>10
  <2>2. e.fds = c.fds /\ e.asked = c.asked /\ e.table = tab
    BY <1>5, <1>6
  <2>3. c.fds[j + 1] \in Fd => tab[c.fds[j + 1]] = c.table[c.fds[j + 1]]
    <3> SUFFICES ASSUME c.fds[j + 1] \in Fd PROVE c.fds[j + 1] # c.i
      BY <1>4
    <3>1. c.fds[j + 1] >= j
      BY <2>1, Descriptors DEF Ahead
    <3> QED
      BY <1>2, <1>10, <3>1, Descriptors
  <2>4. Sourced(e, j)
    BY <2>1, <2>2, <2>3 DEF Sourced, Suits
  <2>5. Ahead(e, j)
    BY <2>1, <2>2 DEF Ahead
  <2> QED
    BY <2>4, <2>5
<1>11. /\ e.i \in 0 .. Len(e.fds) - 1 /\ e.at \in {"second", "exec"}
       /\ e.at = "exec" => e.i = 0 /\ c.i + 1 = Len(c.fds)
       /\ e.at = "second" => e.i = c.i + 1
       /\ e.fds = c.fds /\ e.asked = c.asked /\ e.report = c.report
  BY <1>2, <1>5, <1>6
<1> HIDE DEF c
<1>12. ASSUME NEW j \in 0 .. Len(e.fds) - 1
       PROVE  /\ e.at = "second" /\ j >= e.i => Sourced(e, j) /\ Ahead(e, j)
              /\ e.at = "second" /\ j < e.i => Filled(e, j)
              /\ e.at = "exec" => Filled(e, j)
  <2>1. CASE j <= c.i
    BY <1>2, <1>9, <1>11, <2>1
  <2>2. CASE j > c.i
    BY <1>2, <1>10, <1>11, <2>2
  <2> QED
    BY <1>2, <2>1, <2>2, <1>11
<1>13. Setting(t, e)
  BY <1>2, <1>7, <1>8, <1>11, <1>12 DEF Setting
<1> QED
  BY <1>6, <1>11, <1>13, SetStep DEF BeforeExec

LEMMA ChildSecondStep ==
  ASSUME NEW t \in Thread, IInv, ChildSecond(t)
  PROVE  IInv'
<1> DEFINE c == child[t]
           source == c.fds[c.i + 1]
<1>1. c.at = "second" /\ UNCHANGED <<table, call, said, fate, lent>>
  BY DEF ChildSecond, ChildAt
<1>2. Setting(t, c) /\ c \in ChildRecord
  BY <1>1 DEF IInv, ChildInv, BeforeExec, Domains
<1>3. /\ Sourced(c, c.i) /\ Hidden(t, c)
      /\ c.table \in [Fd -> Entry]
  BY <1>1, <1>2 DEF Setting, ChildRecord
<1>4. \/ source = -1 /\ c.asked[c.i + 1] = NoFile
      \/ source \in Fd /\ Suits(c, c.table[source].file, c.asked[c.i + 1])
  BY <1>3 DEF Sourced
<1>5. CASE source < 0 /\ Advance(t, [c EXCEPT !.table[c.i] = Free], "exec")
  <2>1. c.asked[c.i + 1] = NoFile
    BY <1>4, <1>5, Descriptors
  <2>2. Suits(c, Free.file, c.asked[c.i + 1]) /\ Free.file # ReadEnd(t)
    BY <2>1, Entries, Files DEF Suits
  <2> QED
    BY <1>1, <1>5, <2>2, Entries, SecondPass
<1>6. CASE /\ source >= 0 /\ c.table[source] # Free
           /\ Advance(t, [c EXCEPT !.table[c.i] = [file |-> c.table[source].file, cloexec |-> FALSE]],
                      "exec")
  <2> DEFINE entry == [file |-> c.table[source].file, cloexec |-> FALSE]
  <2>1. /\ entry \in Entry /\ ~ entry.cloexec /\ entry.file # ReadEnd(t)
        /\ Suits(c, entry.file, c.asked[c.i + 1])
    <3> HIDE DEF source
    <3>0. source # -1
      BY <1>6
    <3>1. source \in Fd /\ Suits(c, c.table[source].file, c.asked[c.i + 1])
      BY <1>4, <3>0, Zenon
    <3>2. c.table[source].file \in File /\ c.table[source].file # ReadEnd(t)
      BY <1>3, <1>6, <3>1, Entries DEF Hidden
    <3> QED
      BY <3>1, <3>2, Entries
  <2> QED
    BY <1>1, <1>6, <2>1, SecondPass
<1>7. CASE Fails(t)
  BY <1>1, <1>7, FailsStep DEF BeforeExec
<1> QED
  BY <1>5, <1>6, <1>7 DEF ChildSecond

-----------------------------------------------------------------------------
LEMMA InitHolds == Init => IInv
<1> SUFFICES ASSUME Init PROVE IInv
  OBVIOUS
<1>1. /\ table \in [Fd -> [file : Streams, cloexec : {FALSE}]
                          \cup [file : Opened, cloexec : {TRUE}] \cup {Free}]
  BY TableAssumption DEF Init
<1>2. \A f \in Fd : /\ table[f] \in Entry /\ table[f].file \in Given \cup {NoFile}
                    /\ table[f].file \in Opened => table[f].cloexec
  <2> SUFFICES ASSUME NEW f \in Fd
               PROVE  /\ table[f] \in Entry /\ table[f].file \in Given \cup {NoFile}
                      /\ table[f].file \in Opened => table[f].cloexec
    OBVIOUS
  <2>1. CASE table[f] \in [file : Streams, cloexec : {FALSE}]
    BY <2>1, FileAssumption DEF Entry, File, Given
  <2>2. CASE table[f] \in [file : Opened, cloexec : {TRUE}]
    BY <2>2 DEF Entry, File, Given
  <2>3. CASE table[f] = Free
    BY <2>3, Files, Entries DEF Given
  <2> QED
    BY <1>1, <2>1, <2>2, <2>3
<1>3. TableInv
  BY <1>1, <1>2 DEF TableInv
<1>4. Idle \in CallRecord /\ Idle.at = "idle" /\ Idle.result = "none"
  BY DEF Idle, CallRecord, Places
<1>5. NoChild \in ChildRecord /\ NoChild.at = "none"
  BY Entries, FdAssumption DEF NoChild, ChildRecord, ChildPlaces
<1>6. Domains
  BY <1>4, <1>5 DEF Init, Domains
<1>7. ASSUME NEW t \in Thread
      PROVE  EndsInv(t) /\ NamedInv(t) /\ FateInv(t) /\ TruthInv(t) /\ ChildInv(t)
  <2>1. call[t].at = "idle" /\ child[t].at = "none" /\ fate[t] = "none" /\ call[t].result = "none"
    BY <1>4, <1>5 DEF Init
  <2>2. \A f \in Fd : table[f].file # ReadEnd(t) /\ table[f].file # WriteEnd(t)
    BY <1>2, Files
  <2>3. EndsInv(t)
    BY <2>1, <2>2 DEF EndsInv, Holds
  <2>4. NamedInv(t) /\ FateInv(t) /\ TruthInv(t) /\ ChildInv(t)
    BY <2>1 DEF NamedInv, FateInv, TruthInv, ChildInv, Start0, BeforeExec
  <2> QED
    BY <2>3, <2>4
<1> QED
  BY <1>3, <1>6, <1>7 DEF IInv

LEMMA StepHolds == IInv /\ [Next]_vars => IInv'
<1> SUFFICES ASSUME IInv, [Next]_vars PROVE IInv'
  OBVIOUS
<1>1. CASE UNCHANGED vars
  <2>1. UNCHANGED <<table, call, child, said, fate, lent>>
    BY <1>1 DEF vars
  <2>2. Domains' /\ TableInv'
    BY <2>1 DEF IInv, Domains, TableInv
  <2>3. ASSUME NEW t \in Thread
        PROVE  EndsInv(t)' /\ NamedInv(t)' /\ FateInv(t)' /\ TruthInv(t)' /\ ChildInv(t)'
    <3>1. EndsInv(t) /\ NamedInv(t) /\ FateInv(t) /\ TruthInv(t) /\ ChildInv(t)
      BY DEF IInv
    <3>2. EndsInv(t)' /\ NamedInv(t)'
      BY <2>1, <3>1 DEF EndsInv, NamedInv
    <3>3. FateInv(t)' /\ TruthInv(t)' /\ ChildInv(t)'
      BY <2>1, <3>1 DEF FateInv, TruthInv, ChildInv
    <3> QED
      BY <3>2, <3>3
  <2> QED
    BY <2>2, <2>3 DEF IInv
<1>2. ASSUME NEW t \in Thread, NEW files \in Requests[t][Own], Start(t, files)
      PROVE  IInv'
  BY <1>2, StartStep
<1>3. ASSUME NEW t \in Thread, Parent(t)
      PROVE  IInv'
  BY <1>3, MakePipeStep, MarkReadStep, MarkWriteStep, ForkStep, CloseWriteStep, ReadStep,
     CloseReadStep, ReapStep DEF Parent
<1>4. ASSUME NEW t \in Thread, Child(t)
      PROVE  IInv'
  BY <1>4, ChildSetupStep, ChildMoveReportStep, ChildFirstStep, ChildSecondStep, ChildExecStep,
     ChildFailedStep DEF Child
<1>5. ASSUME NEW t \in Thread, ChildKilled(t) \/ ProgramEnds(t) \/ Wait(t)
      PROVE  IInv'
  BY <1>5, ChildEndsStep, ReapStep
<1>6. ASSUME NEW t \in Thread, NEW u \in Thread, ProgramWrites(t, u) \/ ProgramReads(t, u)
      PROVE  IInv'
  BY <1>6, ProgramStep
<1> QED
  BY <1>1, <1>2, <1>3, <1>4, <1>5, <1>6 DEF Next

(***************************************************************************)
(* The inductive invariant holds in every state that can be reached.       *)
(***************************************************************************)
THEOREM Invariance == Spec => []IInv
  BY InitHolds, StepHolds, PTL DEF Spec

(***************************************************************************)
(* Every variable is in its range, and past its move the report pipe is    *)
(* out of the slots (child and move_above of spawn.c).                     *)
(***************************************************************************)
THEOREM TypeCorrect == Spec => []TypeOK
<1>1. IInv => TypeOK
  BY DEF IInv, Domains, TableInv, ChildInv, Setting, CallRecord, ChildRecord, BeforeExec, TypeOK, Count
<1> QED
  BY <1>1, Invariance, PTL

(***************************************************************************)
(* Whatever numbers the caller gives, in whatever order and however often, *)
(* the program has in every slot the file that was named for it, and for a *)
(* number no file of the program was open at, a file that was named for    *)
(* another slot or one end of a report pipe.                               *)
(***************************************************************************)
THEOREM ProgramHasItsFiles == Spec => []GivesWhatWasAsked
<1>1. IInv => GivesWhatWasAsked
  BY DEF IInv, ChildInv, Became, Suits, GivesWhatWasAsked, Running, Slots, Count, Given
<1> QED
  BY <1>1, Invariance, PTL

(***************************************************************************)
(* The answer of spawn is what happened, whatever the other threads start: *)
(* end of file is read only when the child is past its exec or killed,     *)
(* where no program was given an end of the pipe in one of its slots.      *)
(***************************************************************************)
THEOREM AnswerIsTrue == Spec => []AnswersTruly
<1>1. IInv => AnswersTruly
  BY DEF IInv, TruthInv, AnswersTruly
<1> QED
  BY <1>1, Invariance, PTL

(***************************************************************************)
(* A program gets no file this library opened that it was not given.       *)
(***************************************************************************)
THEOREM OpenedStays == Spec => []OpenedStaysBehind
<1>1. IInv => OpenedStaysBehind
  BY DEF IInv, ChildInv, Became, OpenedStaysBehind, Running, Slots, Count
<1> QED
  BY <1>1, Invariance, PTL

(***************************************************************************)
(* A start that is over leaves no end of its pipe open, and one that       *)
(* failed no process.                                                      *)
(***************************************************************************)
THEOREM LeavesNothing == Spec => []NothingLeft
<1>1. IInv => NothingLeft
  BY DEF IInv, EndsInv, FateInv, NothingLeft
<1> QED
  BY <1>1, Invariance, PTL
=============================================================================
