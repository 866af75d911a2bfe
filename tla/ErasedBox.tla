----------------------------- MODULE ErasedBox -----------------------------
(***************************************************************************)
(* The shared count behind every erased value (core/runtime/box).          *)
(*                                                                         *)
(* A handle is one ErasedBox variable of some thread; a block is one heap  *)
(* allocation holding an Int64 count and a value.  The copy constructor    *)
(* and the destructor are split at their atomic fetch_add, because that is *)
(* where handles owned by different threads interleave.  What the borrow   *)
(* checker guarantees is a guard here: a handle that is being copied from  *)
(* or read through is neither moved nor destroyed.                         *)
(***************************************************************************)
EXTENDS Integers, FiniteSets

CONSTANTS Handle,      \* variables of type ErasedBox, over all threads
          Block,       \* addresses posix_memalign can return
          None         \* no handle, no block

ASSUME HandleAssumption == IsFiniteSet(Handle) /\ None \notin Handle
ASSUME BlockAssumption  == None \notin Block

VARIABLES
  address,   \* address[h]: the block h points to, None when h holds no box
  stage,     \* stage[h]: where h is in its life, see Stage
  source,    \* source[h]: the handle h is being copied from, None otherwise
  count,     \* count[b]: the Int64 at offset zero of b
  cell       \* cell[b]: what the allocator and the destructor did with b

vars == <<address, stage, source, count, cell>>

(***************************************************************************)
(* "empty": no box.  "sharing": the copy constructor has added its         *)
(* reference and has not yet read the fields of its source.  "live": an    *)
(* owned box.  "reading": a reference made by get is in use.  "last": the  *)
(* destructor's fetch_add returned one and `drop` is about to be called.   *)
(* "dropped": the value's destructor has run and `free` is next.           *)
(***************************************************************************)
Stage == {"empty", "sharing", "live", "reading", "last", "dropped"}

\* "free": not allocated; "live": holds a value; "dead": destroyed, not freed.
Cell == {"free", "live", "dead"}

\* The block a handle counts towards; a copy under way counts through its source.
Target(h) == IF stage[h] = "sharing" THEN address[source[h]] ELSE address[h]

Holds(h, b) == stage[h] \in {"sharing", "live", "reading"} /\ Target(h) = b

Holders(b) == {h \in Handle : Holds(h, b)}

Releasers(b) == {h \in Handle : stage[h] \in {"last", "dropped"} /\ address[h] = b}

Borrowed(g) == \E h \in Handle : stage[h] = "sharing" /\ source[h] = g

Init ==
  /\ address = [h \in Handle |-> None]
  /\ stage = [h \in Handle |-> "empty"]
  /\ source = [h \in Handle |-> None]
  /\ count = [b \in Block |-> 0]
  /\ cell = [b \in Block |-> "free"]

\* ErasedBox(v): allocate, start the count at one, move the value in.
Create(h, b) ==
  /\ stage[h] = "empty"
  /\ cell[b] = "free"
  /\ cell' = [cell EXCEPT ![b] = "live"]
  /\ count' = [count EXCEPT ![b] = 1]
  /\ address' = [address EXCEPT ![h] = b]
  /\ stage' = [stage EXCEPT ![h] = "live"]
  /\ UNCHANGED source

\* Variant: a copy that shares the block without taking a reference to it.
ShareUncounted(h, g) ==
  /\ stage[h] = "empty"
  /\ stage[g] \in {"live", "reading"}
  /\ source' = [source EXCEPT ![h] = g]
  /\ stage' = [stage EXCEPT ![h] = "sharing"]
  /\ UNCHANGED <<address, count, cell>>

\* The copy constructor's fetch_add, through the borrowed source's address.
Share(h, g) ==
  /\ stage[h] = "empty"
  /\ stage[g] \in {"live", "reading"}
  /\ count' = [count EXCEPT ![address[g]] = @ + 1]
  /\ source' = [source EXCEPT ![h] = g]
  /\ stage' = [stage EXCEPT ![h] = "sharing"]
  /\ UNCHANGED <<address, cell>>

\* The rest of the copy constructor: the fields are read from the source.
Adopt(h) ==
  /\ stage[h] = "sharing"
  /\ address' = [address EXCEPT ![h] = address[source[h]]]
  /\ source' = [source EXCEPT ![h] = None]
  /\ stage' = [stage EXCEPT ![h] = "live"]
  /\ UNCHANGED <<count, cell>>

\* The move constructor: the reference changes hands, the count does not change.
Move(h, g) ==
  /\ stage[h] = "empty"
  /\ stage[g] = "live"
  /\ ~ Borrowed(g)
  /\ address' = [address EXCEPT ![h] = address[g], ![g] = None]
  /\ stage' = [stage EXCEPT ![h] = "live", ![g] = "empty"]
  /\ UNCHANGED <<source, count, cell>>

\* get[T](): a reference into the block, alive until EndGet.
Get(h) ==
  /\ stage[h] = "live"
  /\ stage' = [stage EXCEPT ![h] = "reading"]
  /\ UNCHANGED <<address, source, count, cell>>

EndGet(h) ==
  /\ stage[h] = "reading"
  /\ stage' = [stage EXCEPT ![h] = "live"]
  /\ UNCHANGED <<address, source, count, cell>>

\* Variant: a destructor that tests the count it leaves rather than the one it found.
ReleaseTestsAfter(h) ==
  /\ stage[h] = "live"
  /\ ~ Borrowed(h)
  /\ count' = [count EXCEPT ![address[h]] = @ - 1]
  /\ IF count'[address[h]] = 1
       THEN /\ stage' = [stage EXCEPT ![h] = "last"]
            /\ UNCHANGED address
       ELSE /\ stage' = [stage EXCEPT ![h] = "empty"]
            /\ address' = [address EXCEPT ![h] = None]
  /\ UNCHANGED <<source, cell>>

\* The destructor's fetch_add of minus one, and its test of the value before.
Release(h) ==
  /\ stage[h] = "live"
  /\ ~ Borrowed(h)
  /\ count' = [count EXCEPT ![address[h]] = @ - 1]
  /\ IF count[address[h]] = 1
       THEN /\ stage' = [stage EXCEPT ![h] = "last"]
            /\ UNCHANGED address
       ELSE /\ stage' = [stage EXCEPT ![h] = "empty"]
            /\ address' = [address EXCEPT ![h] = None]
  /\ UNCHANGED <<source, cell>>

\* _release[T], first half: the destructor of the value runs in the block.
Destroy(h) ==
  /\ stage[h] = "last"
  /\ cell' = [cell EXCEPT ![address[h]] = "dead"]
  /\ stage' = [stage EXCEPT ![h] = "dropped"]
  /\ UNCHANGED <<address, source, count>>

\* _release[T], second half: free(address).
Free(h) ==
  /\ stage[h] = "dropped"
  /\ cell' = [cell EXCEPT ![address[h]] = "free"]
  /\ address' = [address EXCEPT ![h] = None]
  /\ stage' = [stage EXCEPT ![h] = "empty"]
  /\ UNCHANGED <<source, count>>

Next ==
  \/ \E h \in Handle, b \in Block : Create(h, b)
  \/ \E h \in Handle, g \in Handle : Share(h, g) \/ Move(h, g)
  \/ \E h \in Handle : Adopt(h) \/ Get(h) \/ EndGet(h)
                         \/ Release(h) \/ Destroy(h) \/ Free(h)

\* A thread that has entered the destructor finishes it.
Fairness == \A h \in Handle : WF_vars(Destroy(h) \/ Free(h))

Spec == Init /\ [][Next]_vars /\ Fairness

-----------------------------------------------------------------------------
\* Every variable stays in its range.
TypeOK ==
  /\ address \in [Handle -> Block \cup {None}]
  /\ stage \in [Handle -> Stage]
  /\ source \in [Handle -> Handle \cup {None}]
  /\ count \in [Block -> Nat]
  /\ cell \in [Block -> Cell]

(***************************************************************************)
(* A block is destroyed while nobody can reach it: whatever the order of   *)
(* copies, moves and destructors on other threads, every handle that can   *)
(* be read, copied or is being made points at a block whose value has not  *)
(* been destroyed or freed (erased.mojo, __deinit__ and _release).         *)
(***************************************************************************)
NoUseAfterFree == \A b \in Block : Holders(b) # {} => cell[b] = "live"

(***************************************************************************)
(* The value is released once: at most one destructor saw a count of one,  *)
(* and when one did no other handle shares the block.                      *)
(***************************************************************************)
ReleasedOnce ==
  \A b \in Block :
    /\ \A h, g \in Releasers(b) : h = g
    /\ Releasers(b) # {} => Holders(b) = {}

(***************************************************************************)
(* Nothing leaks: an allocated block always has a holder or a destructor   *)
(* that is releasing it.                                                   *)
(***************************************************************************)
NoLeak == \A b \in Block : cell[b] # "free" => Holders(b) \cup Releasers(b) # {}

(***************************************************************************)
(* A block whose last handle is gone is given back to the allocator.       *)
(***************************************************************************)
EventuallyFreed ==
  \A b \in Block : (cell[b] # "free" /\ Holders(b) = {}) ~> cell[b] = "free"

-----------------------------------------------------------------------------
\* The count of a block is the number of handles that share it, copies under
\* way included, as long as its value is alive.
CountIsHolders ==
  \A b \in Block : count[b] = Cardinality(Holders(b))

\* A block has a value exactly when somebody holds it or is about to destroy it.
CellOfBlock ==
  \A b \in Block :
    /\ Holders(b) # {} => cell[b] = "live"
    /\ \A h \in Handle : stage[h] = "last" /\ address[h] = b => cell[b] = "live"
    /\ \A h \in Handle : stage[h] = "dropped" /\ address[h] = b => cell[b] = "dead"

\* What the stage of a handle says of its other fields.
StageShape ==
  \A h \in Handle :
    /\ stage[h] \in {"live", "reading", "last", "dropped"} <=> address[h] \in Block
    /\ stage[h] = "sharing" <=> source[h] \in Handle
    /\ stage[h] = "sharing" => stage[source[h]] \in {"live", "reading"}

(***************************************************************************)
(* The inductive invariant: types, the shape of a handle, the count, and   *)
(* the three safety properties it is there for.                            *)
(***************************************************************************)
IInv ==
  /\ TypeOK
  /\ StageShape
  /\ CountIsHolders
  /\ CellOfBlock
  /\ ReleasedOnce
  /\ NoLeak
=============================================================================
