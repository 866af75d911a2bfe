---------------------------- MODULE ErrorRecords ----------------------------
(***************************************************************************)
(* The error mechanism: an error is a message, and its code, fields and    *)
(* causes are in a record that the thread's slot holds until the next      *)
(* raise on that thread (core/errors).  ThreadSlot is the slot itself.     *)
(*                                                                         *)
(* A message is a sequence of the texts it was put together from and the   *)
(* separators between them.  The code of a link stands for its code, its   *)
(* count and its fields, and 0 for having none.                            *)
(***************************************************************************)
EXTENDS Naturals, Sequences, FiniteSets, SequencesExt, FiniteSetsExt

CONSTANTS
  Thread,       \* the threads
  Ours,         \* texts this library raises, each with CodeOf[text]
  Theirs,       \* texts of errors raised by other code, which leave no record
  Contexts,     \* messages given to wrap, possibly empty
  CodeOf,       \* [Ours -> codes]
  Bounds        \* bounds a behaviour is of one of: the errors held at once, the links
                \* in the slots, those in captured errors, and the texts in a message

ASSUME CodeAssumption == CodeOf \in [Ours -> Nat \ {0}] /\ Ours \cap Theirs = {}
ASSUME ContextAssumption == \A c \in Contexts : c \in Seq(Range(c))

Colon == ": "
Newline == "nl"

Texts == Ours \cup Theirs \cup (UNION {Range(c) : c \in Contexts}) \cup {Colon, Newline}

VARIABLES
  slot,      \* the record in every thread's slot, <<>> for none
  held,      \* errors each thread holds, as their messages
  values,    \* captured errors, as the records they own
  bound      \* the bounds of this behaviour

recordVars == <<slot, held, values, bound>>

-----------------------------------------------------------------------------
\* A record is its links, the error itself first.
Report(message, code) == << [message |-> message, code |-> code, kids |-> <<>>] >>

\* Variant: an absorb that does not shift the indices inside the cause.
absorbing_record_NoShift(report, cause, separator) ==
  LET front == IF report[1].message = <<>> THEN <<>>
               ELSE Append(report[1].message, separator)
  IN [report EXCEPT ![1].message = front \o cause[1].message,
                    ![1].kids = Append(@, Len(report) + 1)]
     \o cause

\* The cause's message goes after the separator and its links to the end.
absorbing_record(report, cause, separator) ==
  LET front == IF report[1].message = <<>> THEN <<>>
               ELSE Append(report[1].message, separator)
      shifted(link) == [link EXCEPT !.kids = [k \in DOMAIN @ |-> @[k] + Len(report)]]
  IN [report EXCEPT ![1].message = front \o cause[1].message,
                    ![1].kids = Append(@, Len(report) + 1)]
     \o [i \in DOMAIN cause |-> shifted(cause[i])]

\* The list `old` of subtree and `todo` of carries: a link and all under it, breadth
\* first.
Walk(report, index) ==
  LET old[seen \in 0 .. Len(report)] ==
        IF seen = 0 THEN <<index>>
        ELSE LET list == old[seen - 1]
             IN  IF seen <= Len(list) THEN list \o report[list[seen]].kids ELSE list
  IN  old[Len(report)]

\* Variant: a subtree of the link alone.
subtree_Alone(report, index) == << [report[index] EXCEPT !.kids = <<>>] >>

\* The number of links in the copy when the first `seen` of them got their kids.
Copied(report, old, seen) ==
  LET links[n \in 0 .. Len(old)] ==
        IF n = 0 THEN 1 ELSE links[n - 1] + Len(report[old[n]].kids)
  IN  links[seen]

\* A standalone record of a link and everything under it.  The kids of a link go
\* after all the links copied before it got them.
subtree(report, index) ==
  LET old == Walk(report, index)
  IN [j \in DOMAIN old |->
        [report[old[j]] EXCEPT !.kids = [k \in DOMAIN @ |-> Copied(report, old, j - 1) + k]]]

\* The codes a walk from a link meets, which is what carries looks for.
CodesUnder(report, index) ==
  {report[i].code : i \in Range(Walk(report, index))} \ {0}

\* Variant: a lookup that answers with the newest error whatever was asked.
locate_Newest(report, message) == IF report = <<>> THEN 0 ELSE 1

\* The first link raised with this message, 0 when there is none.
locate(report, message) ==
  LET found == {i \in DOMAIN report : report[i].message = message} IN
  IF found = {} THEN 0 ELSE Min(found)

-----------------------------------------------------------------------------
\* What is known of an error: its record cut out of the slot, or its message.
_extract(t, e) ==
  LET index == locate(slot[t], e) IN
  IF index > 0 THEN subtree(slot[t], index) ELSE Report(e, 0)

\* matches: the codes e answers to on thread t.
Codes(t, e) ==
  LET index == locate(slot[t], e) IN
  IF index > 0 THEN CodesUnder(slot[t], index) ELSE {}

Bounded ==
  /\ Cardinality(UNION {{t} \X held[t] : t \in Thread}) <= bound.held
  /\ MapThenSumSet(LAMBDA t : Len(slot[t]), Thread) <= bound.links
  /\ MapThenSumSet(Len, values) <= bound.values
  /\ \A t \in Thread : \A e \in held[t] : Len(e) <= bound.message

\* error: install the record, then the error exists.  A thread with an empty slot may
\* find no memory, or no key, and goes on without.
error(t, record) ==
  /\ \/ slot' = [slot EXCEPT ![t] = record]
     \/ slot[t] = <<>> /\ UNCHANGED slot
  /\ held' = [held EXCEPT ![t] = @ \cup {record[1].message}]
  /\ UNCHANGED <<values, bound>>
  /\ Bounded'

-----------------------------------------------------------------------------
RecordsInit ==
  /\ slot = [t \in Thread |-> <<>>]
  /\ held = [t \in Thread |-> {}]
  /\ values = {}
  /\ bound \in Bounds

New(t, text) == error(t, Report(<<text>>, CodeOf[text]))

\* Code that knows nothing of the mechanism raises.
Foreign(t, text) ==
  /\ held' = [held EXCEPT ![t] = @ \cup {<<text>>}]
  /\ UNCHANGED <<slot, values, bound>>
  /\ Bounded'

wrap(t, e, context) ==
  /\ e \in held[t]
  /\ error(t, absorbing_record(Report(context, 0), _extract(t, e), Colon))

\* The arguments of a join, up to two of them.
Lists(S) == {<<a>> : a \in S} \cup (S \X S)

\* A report without a message of its own absorbs one cause after the other.
Joined(reports) ==
  LET report[n \in 0 .. Len(reports)] ==
        IF n = 0 THEN Report(<<>>, 0)
        ELSE absorbing_record(report[n - 1], reports[n], Newline)
  IN  report[Len(reports)]

\* join over live errors: only what the slot still holds is more than a message.
Join(t, errs) ==
  /\ Range(errs) \subseteq held[t]
  /\ error(t, Joined([n \in DOMAIN errs |-> _extract(t, errs[n])]))

\* join over captured errors.
JoinValues(t, vals) ==
  /\ Range(vals) \subseteq values
  /\ error(t, Joined(vals))

capture(t, e) ==
  /\ e \in held[t]
  /\ values' = values \cup {_extract(t, e)}
  /\ UNCHANGED <<slot, held, bound>>
  /\ Bounded'

\* ErrorValue.error: the record is installed on the thread that calls it.
Reraise(t, v) == v \in values /\ error(t, v)

\* unwrap and causes: each cause comes back as an error with its message.
causes(t, e) ==
  LET index == locate(slot[t], e)
      kids == IF index = 0 THEN <<>> ELSE slot[t][index].kids
  IN
  /\ e \in held[t]
  /\ held' = [held EXCEPT ![t] = @ \cup {slot[t][kids[k]].message : k \in DOMAIN kids}]
  /\ UNCHANGED <<slot, values, bound>>
  /\ Bounded'

\* ErrorValue.causes and unwrap: each cause owns its subtree.
ValueCauses(v) ==
  /\ v \in values
  /\ values' = values \cup {subtree(v, v[1].kids[k]) : k \in DOMAIN v[1].kids}
  /\ UNCHANGED <<slot, held, bound>>
  /\ Bounded'

\* An error goes out of scope, a value is dropped, an error moves to another thread.
DropError(t, e) ==
  /\ e \in held[t]
  /\ held' = [held EXCEPT ![t] = @ \ {e}]
  /\ UNCHANGED <<slot, values, bound>>

DropValue(v) ==
  /\ v \in values
  /\ values' = values \ {v}
  /\ UNCHANGED <<slot, held, bound>>

Hand(t, u, e) ==
  /\ e \in held[t] /\ u \in Thread \ {t}
  /\ held' = [held EXCEPT ![t] = @ \ {e}, ![u] = @ \cup {e}]
  /\ UNCHANGED <<slot, values, bound>>

RecordsNext ==
  \/ \E t \in Thread :
       \/ \E text \in Ours : New(t, text)
       \/ \E text \in Theirs : Foreign(t, text)
       \/ \E e \in held[t] : \/ \E context \in Contexts : wrap(t, e, context)
                             \/ capture(t, e)
                             \/ causes(t, e)
                             \/ DropError(t, e)
                             \/ \E u \in Thread : Hand(t, u, e)
       \/ \E errs \in Lists(held[t]) : Join(t, errs)
       \/ \E vals \in Lists(values) : JoinValues(t, vals)
       \/ \E v \in values : Reraise(t, v)
  \/ \E v \in values : ValueCauses(v) \/ DropValue(v)

RecordsSpec == RecordsInit /\ [][RecordsNext]_recordVars

-----------------------------------------------------------------------------
\* The convention of record.mojo, that identical messages come from identical fields:
\* what an error with this message was given, and what it may have inside.
OwnCode(e) == IF Len(e) = 1 /\ e[1] \in Ours THEN CodeOf[e[1]] ELSE 0
InnerCodes(e) == {CodeOf[text] : text \in Range(e) \cap Ours}

Records == Range(slot) \cup values

RecordsTypeOK ==
  /\ \A r \in Records : \A i \in DOMAIN r :
       /\ r[i].message \in Seq(Texts) /\ r[i].code \in Nat
       /\ Range(r[i].kids) \subseteq DOMAIN r
  /\ \A t \in Thread : held[t] \subseteq Seq(Texts)
  /\ Bounded

(***************************************************************************)
(* Every record is one tree with the error at its root: an index in a link *)
(* points forward, every other link has one parent, and a message ends in  *)
(* the message of its last cause.  Splicing, cutting and joining records   *)
(* renumbers their links (absorbing_record, subtree) and must keep this.   *)
(***************************************************************************)
IsTree(r) ==
  /\ \A i \in DOMAIN r : Range(r[i].kids) \subseteq i + 1 .. Len(r)
  /\ \A j \in 2 .. Len(r) :
       Cardinality({i \in DOMAIN r : j \in Range(r[i].kids)}) = 1
  /\ \A i \in DOMAIN r : IsInjective(r[i].kids)
  /\ \A i \in DOMAIN r : r[i].kids # <<>> =>
       IsSuffix(r[Last(r[i].kids)].message, r[i].message)

RecordsAreTrees == \A r \in Records : IsTree(r)

(***************************************************************************)
(* An error answers with what was said of it or with nothing, however many *)
(* errors were raised on the thread since, and on whatever thread it is    *)
(* asked: never with the code of a newer error ("Fewer fields, never wrong *)
(* ones").                                                                 *)
(***************************************************************************)
AnswersAreItsOwn ==
  \A t \in Thread : \A e \in held[t] :
    LET index == locate(slot[t], e) IN
    index > 0 => /\ slot[t][index].code \in {0, OwnCode(e)}
                 /\ Codes(t, e) \subseteq InnerCodes(e)

(***************************************************************************)
(* Wrapping keeps the chain: a wrapped error matches everything its cause  *)
(* matched, unless there was no slot to hold its record.                   *)
(***************************************************************************)
Installed(t) == slot'[t] # slot[t] /\ slot'[t] # <<>>

WrapKeepsChain ==
  [][\A t \in Thread : Installed(t) =>
       \A e \in held[t], context \in Contexts :
         wrap(t, e, context) => CodesUnder(slot'[t], 1) = Codes(t, e)]_recordVars

(***************************************************************************)
(* A captured error answers for everything the error did, a join of        *)
(* captured errors for everything each of them did, and re-raising gives   *)
(* all of it back on the thread that re-raises.                            *)
(***************************************************************************)
CaptureLosesNothing ==
  [][/\ values' # values => \A t \in Thread : \A e \in held[t] :
          capture(t, e) => \E v \in values' : v[1].message = e /\ CodesUnder(v, 1) = Codes(t, e)
     /\ \A t \in Thread : Installed(t) =>
          /\ \A vals \in Lists(values) : JoinValues(t, vals) =>
               CodesUnder(slot'[t], 1) = UNION {CodesUnder(v, 1) : v \in Range(vals)}
          /\ \A v \in values : Reraise(t, v) =>
               Codes(t, v[1].message)' = CodesUnder(v, 1)]_recordVars
=============================================================================
