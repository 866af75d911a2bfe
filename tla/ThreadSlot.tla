----------------------------- MODULE ThreadSlot -----------------------------
(***************************************************************************)
(* A per-thread slot: the pthread key of core/errors/shim/slot.c and the   *)
(* block a thread keeps in it (_install, _slot and _free of record.mojo;   *)
(* the generator of core/math/rand/globals.mojo keeps its own the same     *)
(* way).  Every step between two threads' calls is an action: pthread_once *)
(* and malloc are shared, and so is the pointer to the function that       *)
(* frees.                                                                  *)
(***************************************************************************)
CONSTANTS
  Pthread, Main,  \* the threads, and the one whose exit runs no destructor
  Address,        \* addresses malloc may answer
  Content,        \* what a block may hold
  Null            \* the null pointer

ASSUME ThreadAssumption == Main \in Pthread
ASSUME NoneAssumption == Null \notin Address /\ Null \notin Content
ASSUME ContentAssumption == {"free", "raw"} \cap (Content \cup {Null}) = {}

VARIABLES
  key,       \* the pthread key: not asked for, made, or none was left
  release,   \* slot.release: whether it is the function that frees
  specific,  \* pthread_getspecific of every thread
  heap,      \* what every block holds, "free" or "raw" before and after
  pc,        \* where a thread is in _install, or in its exit
  block,     \* the local variable of _install, or what the destructor was handed
  value,     \* the record being installed
  lost       \* history: blocks that pthread did not take, and nothing holds

slotVars == <<key, release, specific, heap, pc, block, value, lost>>

SlotInit ==
  /\ key = "unset" /\ release = FALSE
  /\ specific = [t \in Pthread |-> Null]
  /\ heap = [b \in Address |-> "free"]
  /\ pc = [t \in Pthread |-> "idle"]
  /\ block = [t \in Pthread |-> Null]
  /\ value = [t \in Pthread |-> Null]
  /\ lost = {}

Goto(t, from, to) == pc[t] = from /\ pc' = [pc EXCEPT ![t] = to]

\* A thread raises: _install(c) begins.
Install(t, c) ==
  /\ Goto(t, "idle", "once")
  /\ value' = [value EXCEPT ![t] = c]
  /\ UNCHANGED <<key, release, specific, heap, block, lost>>

\* pthread_once: the first thread makes the key, the others find it made.
Once(t) ==
  /\ Goto(t, "once", "get")
  /\ key' \in IF key = "unset" THEN {"ready", "failed"} ELSE {key}
  /\ UNCHANGED <<release, specific, heap, block, value, lost>>

\* Variant: a get that always asks for a new block.
GetSlot_Never(t) ==
  /\ Goto(t, "get", "malloc")
  /\ UNCHANGED <<key, release, specific, heap, block, value, lost>>

GetSlot(t) ==
  /\ \/ key = "ready" /\ specific[t] # Null /\ Goto(t, "get", "assign")
     \/ ~ (key = "ready" /\ specific[t] # Null) /\ Goto(t, "get", "malloc")
  /\ UNCHANGED <<key, release, specific, heap, block, value, lost>>

\* The record in the block is destroyed and the new one takes its place.
Assign(t) ==
  /\ Goto(t, "assign", "idle")
  /\ heap' = [heap EXCEPT ![specific[t]] = value[t]]
  /\ value' = [value EXCEPT ![t] = Null]
  /\ UNCHANGED <<key, release, specific, block, lost>>

Malloc(t) ==
  /\ \E b \in {x \in Address : heap[x] = "free"} :
       /\ heap' = [heap EXCEPT ![b] = "raw"]
       /\ block' = [block EXCEPT ![t] = b]
  /\ Goto(t, "malloc", "write")
  /\ UNCHANGED <<key, release, specific, value, lost>>

\* Out of memory: the record is dropped.
OutOfMemory(t) ==
  /\ Goto(t, "malloc", "idle")
  /\ value' = [value EXCEPT ![t] = Null]
  /\ UNCHANGED <<key, release, specific, heap, block, lost>>

Write(t) ==
  /\ Goto(t, "write", "release")
  /\ heap' = [heap EXCEPT ![block[t]] = value[t]]
  /\ UNCHANGED <<key, release, specific, block, value, lost>>

StoreRelease(t) ==
  /\ Goto(t, "release", "set")
  /\ release' = TRUE
  /\ UNCHANGED <<key, specific, heap, block, value, lost>>

Kept(t, held) ==
  /\ key = "ready"
  /\ Goto(t, "set", "idle")
  /\ specific' = held
  /\ block' = [block EXCEPT ![t] = Null]
  /\ value' = [value EXCEPT ![t] = Null]
  /\ UNCHANGED <<key, release, heap, lost>>

\* Variant: one pointer for the process in place of one per thread.
Set_Shared(t) == Kept(t, [u \in Pthread |-> block[t]])

\* pthread_setspecific: the slot of this thread holds the block.
Set(t) == Kept(t, [specific EXCEPT ![t] = block[t]])

\* There is no key, or pthread_setspecific has no memory and nobody looks at
\* what it answers: from here on nothing holds the block.
SetNowhere(t) ==
  /\ Goto(t, "set", "idle")
  /\ lost' = lost \cup {block[t]}
  /\ block' = [block EXCEPT ![t] = Null]
  /\ value' = [value EXCEPT ![t] = Null]
  /\ UNCHANGED <<key, release, specific, heap>>

\* A thread exits: pthread empties the slot and calls the destructor with what it held.
Exit(t) ==
  /\ t # Main
  /\ Goto(t, "idle", IF specific[t] = Null THEN "gone" ELSE "dispose")
  /\ block' = [block EXCEPT ![t] = specific[t]]
  /\ specific' = [specific EXCEPT ![t] = Null]
  /\ UNCHANGED <<key, release, heap, value, lost>>

\* Variant: a _free that destroys the record and keeps the block.
Dispose_NoFree(t) ==
  /\ Goto(t, "dispose", "gone")
  /\ heap' = IF release THEN [heap EXCEPT ![block[t]] = "raw"] ELSE heap
  /\ block' = [block EXCEPT ![t] = Null]
  /\ UNCHANGED <<key, release, specific, value, lost>>

\* dispose: load the function and, when there is one, destroy the record and free.
Dispose(t) ==
  /\ Goto(t, "dispose", "gone")
  /\ heap' = IF release THEN [heap EXCEPT ![block[t]] = "free"] ELSE heap
  /\ block' = [block EXCEPT ![t] = Null]
  /\ UNCHANGED <<key, release, specific, value, lost>>

Step(t) ==
  \/ Once(t) \/ GetSlot(t) \/ Assign(t) \/ Malloc(t) \/ OutOfMemory(t) \/ Write(t)
  \/ StoreRelease(t) \/ Set(t) \/ SetNowhere(t) \/ Dispose(t)

SlotNext == \E t \in Pthread : Step(t) \/ Exit(t) \/ \E c \in Content : Install(t, c)

\* A thread that is raising, or exiting, goes on.
SlotSpec == SlotInit /\ [][SlotNext]_slotVars /\ \A t \in Pthread : WF_slotVars(Step(t))

-----------------------------------------------------------------------------
Points == {"idle", "once", "get", "assign", "malloc", "write", "release", "set",
           "dispose", "gone"}

\* Every variable in its range, and no write through a null pointer.
SlotTypeOK ==
  /\ key \in {"unset", "ready", "failed"} /\ release \in BOOLEAN
  /\ specific \in [Pthread -> Address \cup {Null}]
  /\ heap \in [Address -> Content \cup {"free", "raw"}]
  /\ pc \in [Pthread -> Points]
  /\ block \in [Pthread -> Address \cup {Null}]
  /\ value \in [Pthread -> Content \cup {Null}]
  /\ lost \subseteq Address
  /\ \A t \in Pthread : pc[t] = "assign" => specific[t] \in Address

(***************************************************************************)
(* No thread ever reads a block in its slot that is not a whole record:    *)
(* neither one still being written nor one that was freed.                 *)
(***************************************************************************)
SlotsHoldRecords == \A t \in Pthread : specific[t] # Null => heap[specific[t]] \in Content

(***************************************************************************)
(* Every allocated block has one owner, the slot or the local variable of  *)
(* one thread, which is what makes freeing it once enough.  The exception  *)
(* is the block of a raise whose key could not be made or whose            *)
(* pthread_setspecific failed: it leaks, and nothing comes back to it.     *)
(***************************************************************************)
Owns(t, b) == b \in {specific[t], block[t]}

OneOwner ==
  \A b \in Address :
    /\ \A t, u \in Pthread : Owns(t, b) /\ Owns(u, b) => t = u
    /\ \A t \in Pthread : specific[t] = b => block[t] # b
    /\ heap[b] # "free" /\ b \notin lost => \E t \in Pthread : Owns(t, b)
    /\ b \in lost => heap[b] # "free" /\ \A t \in Pthread : ~ Owns(t, b)
    /\ heap[b] = "free" => \A t \in Pthread : ~ Owns(t, b)

(***************************************************************************)
(* A slot is a cell of its own for every thread: what a thread finds there *)
(* is what that thread last put there.                                     *)
(***************************************************************************)
Exiting == {"dispose", "gone"}

OwnCell == INSTANCE ThreadCell WITH
  Thread <- Pthread, None <- Null,
  cell <- [t \in Pthread |-> IF specific[t] = Null THEN Null ELSE heap[specific[t]]],
  present <- {t \in Pthread : pc[t] \notin Exiting}

IsCell == OwnCell!Spec

(***************************************************************************)
(* The record of a thread that exits is freed: the destructor of the key   *)
(* is handed the block, and the function that frees is there by then.      *)
(***************************************************************************)
Leaving(t) == pc[t] = "dispose"

ExitFrees == \A t \in Pthread : \A b \in Address :
  (Leaving(t) /\ block[t] = b) ~> heap[b] = "free"

-----------------------------------------------------------------------------
Holding == {"write", "release", "set", "dispose"}
Installing == {"once", "get", "assign", "malloc", "write", "release", "set"}

\* What a thread's place in the code says of its variables.
Places ==
  \A t \in Pthread :
    /\ block[t] # Null <=> pc[t] \in Holding
    /\ value[t] # Null <=> pc[t] \in Installing
    /\ pc[t] \in {"malloc"} \cup Holding => specific[t] = Null
    /\ pc[t] = "assign" => specific[t] # Null
    /\ pc[t] = "gone" => specific[t] = Null
    /\ pc[t] = "write" => heap[block[t]] = "raw"
    /\ pc[t] \in {"release", "set"} => heap[block[t]] = value[t]
    /\ pc[t] = "dispose" => heap[block[t]] \in Content /\ release
    /\ pc[t] = "set" => release
    /\ pc[t] \notin {"idle", "once", "gone"} => key # "unset"
    /\ specific[t] # Null => release /\ key = "ready"

(***************************************************************************)
(* The inductive invariant behind OneOwner and IsCell.                     *)
(***************************************************************************)
SlotIInv == SlotTypeOK /\ SlotsHoldRecords /\ OneOwner /\ Places
=============================================================================
