------------------------ MODULE SchedulerRefinement -------------------------
(***************************************************************************)
(* The scheduler as an implementation of InstanceAllocation. An instance   *)
(* that is not a free slot belongs to the reservation for which somebody   *)
(* holds it; the reservations that are over are those whose usage was      *)
(* closed.                                                                 *)
(***************************************************************************)
EXTENDS PriorityQueueScheduler

Belongs(i, r) ==
  \/ \E u \in Updaters : UpdaterHolds(u, i) /\ up[u].r = r
  \/ \E c \in Removers : RemoverHolds(c, i) /\ rm[c].r = r
  \/ \E t \in frees : FreeHolds(t, i) /\ t.r = r
  \/ \E b \in Breakers : BreakerHolds(b, i) /\ br[b].r = r
  \/ HeldFor(r, i)

Holder(i) ==
  IF i \in slots \/ ~\E r \in Reservations : Belongs(i, r) THEN NoneMember
  ELSE CHOOSE r \in Reservations : Belongs(i, r)

Allocation == INSTANCE InstanceAllocation
  WITH Nobody <- NoneMember,
       holder <- [i \in Instances |-> Holder(i)],
       over   <- finished

(* The scheduler only ever allocates instances as promised.                *)
ImplementsAllocation == Allocation!Spec

=============================================================================
