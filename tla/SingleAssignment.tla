--------------------------- MODULE SingleAssignment ---------------------------
(***************************************************************************)
(* What the aggregator of independent schedulers promises                  *)
(* (redis/meta_scheduler.py, "an 'OR' aggregator"): a reservation competes *)
(* in several schedulers, one of them is assigned, the reservation leaves  *)
(* the others before it can be used, and it never changes to another.      *)
(***************************************************************************)
CONSTANTS Reservations, Schedulers, NoScheduler

VARIABLES
  competes,   \* schedulers each reservation is associated to
  assigned,   \* the one it was promoted in
  used,       \* reservations with a confirmed experiment
  over        \* reservations that are finished or expired

vars == <<competes, assigned, used, over>>

Init ==
  /\ competes = [r \in Reservations |-> {}]
  /\ assigned = [r \in Reservations |-> NoScheduler]
  /\ used = {} /\ over = {}

(* The reservation enters one more scheduler.                              *)
Enter(r, s) ==
  /\ r \notin over /\ r \notin used /\ s \notin competes[r]
  /\ competes' = [competes EXCEPT ![r] = @ \cup {s}]
  /\ UNCHANGED <<assigned, used, over>>

Promote(r, s) ==
  /\ s \in competes[r] /\ assigned[r] = NoScheduler
  /\ assigned' = [assigned EXCEPT ![r] = s]
  /\ UNCHANGED <<competes, used, over>>

(* It leaves a scheduler that is not the one assigned.                     *)
Leave(r, s) ==
  /\ s \in competes[r] /\ assigned[r] \notin {s, NoScheduler}
  /\ competes' = [competes EXCEPT ![r] = @ \ {s}]
  /\ UNCHANGED <<assigned, used, over>>

Confirm(r) ==
  /\ assigned[r] # NoScheduler /\ competes[r] = {assigned[r]} /\ r \notin used
  /\ used' = used \cup {r}
  /\ UNCHANGED <<competes, assigned, over>>

End(r) ==
  /\ r \notin over
  /\ over' = over \cup {r} /\ used' = used \ {r}
  /\ competes' = [competes EXCEPT ![r] = {}]
  /\ assigned' = [assigned EXCEPT ![r] = NoScheduler]

Next ==
  \E r \in Reservations :
    \/ \E s \in Schedulers : Enter(r, s) \/ Promote(r, s) \/ Leave(r, s)
    \/ Confirm(r) \/ End(r)

Spec == Init /\ [][Next]_vars
=============================================================================
