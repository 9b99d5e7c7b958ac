------------------------- MODULE InstanceAllocation -------------------------
(***************************************************************************)
(* What the scheduler of a resource type promises, without its keys and    *)
(* its threads: an instance is nobody's or one reservation's, it passes    *)
(* from one reservation to another only through being nobody's, and a      *)
(* reservation that is over never gets an instance again.                  *)
(***************************************************************************)
CONSTANTS Reservations, Instances, Nobody

VARIABLES
  holder,   \* whose each instance is
  over      \* reservations that had an instance and gave it back for good

allocation == <<holder, over>>

Init ==
  /\ holder = [i \in Instances |-> Nobody]
  /\ over = {}

Holding == {holder[i] : i \in Instances} \ {Nobody}

Take(r, i) ==
  /\ holder[i] = Nobody
  /\ r \notin Holding \cup over
  /\ holder' = [holder EXCEPT ![i] = r]
  /\ UNCHANGED over

(* For good, when the session is over, ...                                 *)
Finish(i) ==
  /\ holder[i] # Nobody
  /\ holder' = [holder EXCEPT ![i] = Nobody]
  /\ over' = over \cup {holder[i]}

(* ... or to try with another one: it does not host the experiment, or it  *)
(* broke down.                                                             *)
GiveUp(i) ==
  /\ holder[i] # Nobody
  /\ holder' = [holder EXCEPT ![i] = Nobody]
  /\ UNCHANGED over

Next == \E i \in Instances :
  Finish(i) \/ GiveUp(i) \/ \E r \in Reservations : Take(r, i)

Spec == Init /\ [][Next]_allocation

=============================================================================
