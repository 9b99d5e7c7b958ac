---------------------------- MODULE MCScheduler -----------------------------
(***************************************************************************)
(* Small instances of the scheduler for TLC.                               *)
(***************************************************************************)
EXTENDS SchedulerRefinement, SchedulerInvariants, TLC

(* Everybody has the same priority, or the last one has the best.          *)
SamePriority == [r \in Reservations |-> 0]
LastIsFirst  == [r \in Reservations |-> NumReservations - r]

(* Every instance hosts every experiment; or the second instance only that *)
(* of the second reservation.                                              *)
ServesAll == [i \in Instances |-> Reservations]
CONSTANT i2
SecondOnly == [i \in Instances |-> IF i = i2 THEN {2} ELSE Reservations]

Symmetry ==
  Permutations(Updaters) \cup Permutations(Removers) \cup Permutations(Breakers)
    \cup Permutations(Instances)

=============================================================================
