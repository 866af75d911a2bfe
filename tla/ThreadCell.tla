----------------------------- MODULE ThreadCell -----------------------------
(***************************************************************************)
(* What a slot of core/errors/shim/slot.c promises its user: one cell per  *)
(* thread, which nobody else writes, until the thread leaves.              *)
(***************************************************************************)
CONSTANTS Thread, Content, None

VARIABLES cell, present

Init == cell = [t \in Thread |-> None] /\ present = Thread

Put(t, c) ==
  /\ t \in present
  /\ cell' = [cell EXCEPT ![t] = c]
  /\ UNCHANGED present

Leave(t) ==
  /\ t \in present
  /\ present' = present \ {t}
  /\ cell' = [cell EXCEPT ![t] = None]

Next == \E t \in Thread : Leave(t) \/ \E c \in Content : Put(t, c)

Spec == Init /\ [][Next]_<<cell, present>>
=============================================================================
