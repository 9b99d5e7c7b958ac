----------------------- MODULE PriorityQueueScheduler -----------------------
(***************************************************************************)
(* The Redis priority-queue scheduler of one resource type, together with  *)
(* what it shares its keys with: the reservations manager, the resources   *)
(* manager, the confirmer threads and the part of the coordinator that     *)
(* calls them.                                                             *)
(*                                                                         *)
(* Every core server process runs its own copy of this code against the    *)
(* same Redis server, and none of it runs in a transaction: what is atomic *)
(* is one Redis command (or one MULTI pipeline), and a step of this module *)
(* is one of those commands together with the local computation around it. *)
(*                                                                         *)
(* Reservation ids are numbered by the position they draw from the counter *)
(* of the queue (INCR), so that the number of a reservation is its place   *)
(* among the reservations of the same priority.                            *)
(***************************************************************************)
EXTENDS Integers, FiniteSets

CONSTANTS
  NumReservations,   \* reservations that may ever be made
  Instances,         \* resource instances of the resource type
  Updaters,          \* one transaction synchronizer thread per core server
  Removers,          \* threads that may be removing a reservation
  Breakers,          \* threads that may be marking an instance as broken
  Priority,          \* priority of a reservation: the less, the sooner
  Serves,            \* Serves[i]: reservations whose experiment i can host
  Removals,          \* which removals occur: "finish", "expire", "drop", "poll"
  LeaveFrom,         \* statuses in which users finish their reservation
  Failures,          \* what fails: "reserve", "free", "checker"
  InitializationInAccounting,  \* does the time run while initializing?
  NoInstance         \* null

Reservations == 1 .. NumReservations
\* What ZADD and ZREM are given when the map has lost the reservation: the
\* text "None".
NoneMember == NumReservations + 1
Members    == Reservations \cup {NoneMember}
Requeued   == -1

ASSUME ConstantsAssumption ==
  /\ NumReservations \in Nat
  /\ Priority \in [Reservations -> Nat]
  /\ Serves \in [Instances -> SUBSET Reservations]
  /\ Removals \subseteq {"finish", "expire", "drop", "poll"}
  /\ LeaveFrom \subseteq {"waiting", "confirming", "reserved"}
  /\ Failures \subseteq {"reserve", "free", "checker"}
  /\ InitializationInAccounting \in BOOLEAN
  /\ NoInstance \notin Instances

(* The JSON value kept per reservation, absent when the key does not exist. *)
Data == [active : {"absent", "waiting", "confirming", "reserved"},
         inst   : Instances \cup {NoInstance},
         session : BOOLEAN]
NoData == [active |-> "absent", inst |-> NoInstance, session |-> FALSE]
Active(d) == d.active \in {"confirming", "reserved"}

VARIABLES
  fresh,      \* reservation ids not drawn yet
  stored,     \* reservations whose data and status keys exist
  listed,     \* reservations of this resource type, looked at for expiry
  current,    \* reservations whose status has the CURRENT field
  finishing,  \* WEBLAB_RESERVATIONS_FINISHING
  pqdata,     \* the scheduler's data of each reservation
  map,        \* reservations in the map to their queue member
  sorted,     \* the sorted set: pairs of a member and its score
  slots,      \* instances that are free to be assigned
  assigned,   \* reservations assigned to each instance
  working,    \* instances not marked as broken
  sessions,   \* reservations with a laboratory session open on each instance
  confirms,   \* threads confirming a reservation with the laboratory
  frees,      \* threads freeing an experiment
  initial,    \* reservations put in the initial store
  finished,   \* reservations put in the finished store
  up,         \* state of each updater
  rm,         \* state of each remover
  br          \* state of each breaker

keys  == <<fresh, stored, listed, current, finishing, pqdata, map, sorted, slots,
           assigned, working>>
lab   == <<sessions, confirms, frees, initial, finished>>
vars  == <<keys, lab, up, rm, br>>

IdleUpdater == [pc |-> "pick", r |-> NoneMember, i |-> NoInstance,
                free |-> {}, tried |-> {}, data |-> NoData]
IdleRemover == [pc |-> "idle", op |-> "poll", r |-> NoneMember,
                data |-> NoData, won |-> FALSE]
IdleBreaker == [pc |-> "idle", i |-> NoInstance, r |-> NoneMember,
                data |-> NoData]

Init ==
  /\ fresh = Reservations
  /\ stored = {} /\ listed = {} /\ current = {} /\ finishing = {}
  /\ pqdata = [r \in Reservations |-> NoData]
  /\ map = {} /\ sorted = {}
  /\ slots = Instances /\ working = Instances
  /\ assigned = [i \in Instances |-> {}]
  /\ sessions = [i \in Instances |-> {}]
  /\ confirms = {} /\ frees = {} /\ initial = {} /\ finished = {}
  /\ up = [u \in Updaters |-> IdleUpdater]
  /\ rm = [c \in Removers |-> IdleRemover]
  /\ br = [b \in Breakers |-> IdleBreaker]

Queued == {m \in Members : \E e \in sorted : e[1] = m}
(* ZADD and ZREM of a member. *)
Without(m) == {e \in sorted : e[1] # m}
With(m, score) == Without(m) \cup {<<m, score>>}
(* HGET of the member that a reservation has in the queue.                 *)
MemberOf(r) == IF r \in map THEN r ELSE NoneMember

-----------------------------------------------------------------------------
(* A new reservation: the reservations manager stores it and the scheduler *)
(* queues it in one pipeline.                                              *)
Reserve(r) ==
  /\ r \in fresh
  /\ fresh' = fresh \ {r}
  /\ stored' = stored \cup {r}
  /\ listed' = listed \cup {r}
  /\ pqdata' = [pqdata EXCEPT ![r] = [NoData EXCEPT !.active = "waiting"]]
  /\ map' = map \cup {r}
  /\ sorted' = With(r, Priority[r])
  /\ UNCHANGED <<current, finishing, slots, assigned, working, lab, up, rm,
                 br>>

-----------------------------------------------------------------------------
(* _update_queues                                                          *)

(* Back to the head of the loop, remembering whom it has tried.            *)
NextRound(u) == [IdleUpdater EXCEPT !.tried = up[u].tried]
Untried(u) == {e \in sorted : e[1] \notin up[u].tried}
Before(d, e) == d[2] < e[2] \/ (d[2] = e[2] /\ d[1] < e[1])

(* The first waiting reservation this run has not tried yet.               *)
PickFirst(u) ==
  /\ up[u].pc = "pick"
  /\ \E e \in Untried(u) :
       /\ \A d \in Untried(u) \ {e} : Before(e, d)
       /\ up' = [up EXCEPT ![u].pc = "list", ![u].r = e[1],
                           ![u].tried = @ \cup {e[1]}]
  /\ UNCHANGED <<keys, lab, rm, br>>

(* Variant: the list of those already tried is kept for the next run.      *)
NobodyWaitingKeepsTried(u) ==
  /\ up[u].pc = "pick" /\ Untried(u) = {} /\ up[u].tried # {}
  /\ up' = [up EXCEPT ![u] = NextRound(u)]
  /\ UNCHANGED <<keys, lab, rm, br>>

(* Nobody left to try: the run ends.                                       *)
NobodyWaiting(u) ==
  /\ up[u].pc = "pick" /\ Untried(u) = {} /\ up[u].tried # {}
  /\ up' = [up EXCEPT ![u] = IdleUpdater]
  /\ UNCHANGED <<keys, lab, rm, br>>

ListFreeInstances(u) ==
  /\ up[u].pc = "list"
  /\ up' = [up EXCEPT ![u] = IF slots = {} THEN IdleUpdater
                             ELSE [@ EXCEPT !.pc = "try", !.free = slots]]
  /\ UNCHANGED <<keys, lab, rm, br>>

(* Variant: goes on with the instance of the previous turn of the loop.    *)
TryPreviousInstance(u) ==
  /\ up[u].pc = "try"
  /\ \E i \in up[u].free :
       up' = [up EXCEPT ![u].free = @ \ {i},
                        ![u].pc = IF i \in working THEN "exists" ELSE "try"]
  /\ UNCHANGED <<keys, lab, rm, br>>

(* Next free instance, in any order (randomize_instances); those that are  *)
(* not working are skipped.                                                *)
TryInstance(u) ==
  /\ up[u].pc = "try"
  /\ \E i \in up[u].free :
       up' = [up EXCEPT ![u].free = @ \ {i},
                        ![u].i = i,
                        ![u].pc = IF i \in working THEN "exists" ELSE "try"]
  /\ UNCHANGED <<keys, lab, rm, br>>

NoInstanceLeft(u) ==
  /\ up[u].pc = "try" /\ up[u].free = {}
  /\ up' = [up EXCEPT ![u] = NextRound(u)]
  /\ UNCHANGED <<keys, lab, rm, br>>

(* ReservationsManager.confirm: first EXISTS, whose failure raises and ends *)
(* the run, ...                                                            *)
CheckExists(u) ==
  /\ up[u].pc = "exists"
  /\ up' = [up EXCEPT ![u] = IF up[u].r \in stored
                             THEN [@ EXCEPT !.pc = "confirm"]
                             ELSE IdleUpdater]
  /\ UNCHANGED <<keys, lab, rm, br>>

(* ... then HSET CURRENT, which only one thread can create.                *)
SetCurrent(u) ==
  /\ up[u].pc = "confirm"
  /\ current' = current \cup {up[u].r}
  /\ up' = [up EXCEPT ![u] = IF up[u].r \in current THEN NextRound(u)
                             ELSE [@ EXCEPT !.pc = "acquire"]]
  /\ UNCHANGED <<fresh, stored, listed, finishing, pqdata, map, sorted, slots,
                 assigned, working, lab, rm, br>>

(* Variant: does not look at how many members SREM removed.                *)
AcquireResourceAnyway(u) ==
  /\ up[u].pc = "acquire"
  /\ slots' = slots \ {up[u].i}
  /\ up' = [up EXCEPT ![u].pc = "assign"]
  /\ UNCHANGED <<fresh, stored, listed, current, finishing, pqdata, map,
                 sorted, assigned, working, lab, rm, br>>

AcquireResource(u) ==
  /\ up[u].pc = "acquire"
  /\ slots' = slots \ {up[u].i}
  /\ up' = [up EXCEPT ![u].pc = IF up[u].i \in slots THEN "assign" ELSE "unconfirm"]
  /\ UNCHANGED <<fresh, stored, listed, current, finishing, pqdata, map,
                 sorted, assigned, working, lab, rm, br>>

(* Somebody else took the instance: drop CURRENT and try the next one.     *)
Unconfirm(u) ==
  /\ up[u].pc = "unconfirm"
  /\ current' = current \ {up[u].r}
  /\ up' = [up EXCEPT ![u].pc = "try"]
  /\ UNCHANGED <<fresh, stored, listed, finishing, pqdata, map, sorted, slots,
                 assigned, working, lab, rm, br>>

AssignInstance(u) ==
  /\ up[u].pc = "assign"
  /\ assigned' = [assigned EXCEPT ![up[u].i] = @ \cup {up[u].r}]
  /\ up' = [up EXCEPT ![u].pc = "read"]
  /\ UNCHANGED <<fresh, stored, listed, current, finishing, pqdata, map,
                 sorted, slots, working, lab, rm, br>>

(* Both values of the reservation are read. Without them the student is    *)
(* not here anymore; with them the instance must host his experiment.      *)
ReadReservation(u) ==
  LET r == up[u].r
      gone == r \notin stored \/ pqdata[r].active = "absent"
  IN /\ up[u].pc = "read"
     /\ up' = [up EXCEPT
                 ![u].data = IF gone THEN @ ELSE pqdata[r],
                 ![u].pc = IF gone THEN "gone"
                           ELSE IF r \in Serves[up[u].i] THEN "set"
                           ELSE "unsuitable"]
     /\ UNCHANGED <<keys, lab, rm, br>>

(* The instance does not host the experiment: everything is undone, in     *)
(* this order, and the next instance is tried.                             *)
DowngradeUnsuitable(u) ==
  /\ up[u].pc = "unsuitable"
  /\ current' = current \ {up[u].r}
  /\ up' = [up EXCEPT ![u].pc = "release"]
  /\ UNCHANGED <<fresh, stored, listed, finishing, pqdata, map, sorted, slots,
                 assigned, working, lab, rm, br>>

(* Variant: continues with the next instance without releasing this one.   *)
ReleaseOnlyWhenGone(u) ==
  /\ up[u].pc \in {"gone", "release"}
  /\ slots' = IF up[u].pc = "gone" THEN slots \cup {up[u].i} ELSE slots
  /\ up' = [up EXCEPT ![u].pc = IF @ = "gone" THEN "unassignGone" ELSE "unassign"]
  /\ UNCHANGED <<fresh, stored, listed, current, finishing, pqdata, map,
                 sorted, assigned, working, lab, rm, br>>

ReleaseAcquired(u) ==
  /\ up[u].pc \in {"gone", "release"}
  /\ slots' = slots \cup {up[u].i}
  /\ up' = [up EXCEPT ![u].pc = IF @ = "gone" THEN "unassignGone" ELSE "unassign"]
  /\ UNCHANGED <<fresh, stored, listed, current, finishing, pqdata, map,
                 sorted, assigned, working, lab, rm, br>>

Unassign(u) ==
  /\ up[u].pc \in {"unassignGone", "unassign"}
  /\ assigned' = [assigned EXCEPT ![up[u].i] = @ \ {up[u].r}]
  /\ up' = [up EXCEPT ![u] = IF @.pc = "unassignGone" THEN NextRound(u)
                             ELSE [@ EXCEPT !.pc = "try", !.data = NoData]]
  /\ UNCHANGED <<fresh, stored, listed, current, finishing, pqdata, map,
                 sorted, slots, working, lab, rm, br>>

(* Variant: forgets the ACTIVE_STATUS.                                     *)
SetOnlyInstance(u) ==
  /\ up[u].pc = "set"
  /\ pqdata' = [pqdata EXCEPT ![up[u].r] = [up[u].data EXCEPT !.inst = up[u].i]]
  /\ up' = [up EXCEPT ![u].pc = "dequeue", ![u].data = NoData]
  /\ UNCHANGED <<fresh, stored, listed, current, finishing, map, sorted, slots,
                 assigned, working, lab, rm, br>>

(* The promotion: the data read before is written back as active.          *)
SetWaitingConfirmation(u) ==
  /\ up[u].pc = "set"
  /\ pqdata' = [pqdata EXCEPT ![up[u].r] =
                  [up[u].data EXCEPT !.active = "confirming", !.inst = up[u].i]]
  /\ up' = [up EXCEPT ![u].pc = "dequeue", ![u].data = NoData]
  /\ UNCHANGED <<fresh, stored, listed, current, finishing, map, sorted, slots,
                 assigned, working, lab, rm, br>>

(* The member is looked up in the map and removed from the queue, and a    *)
(* thread is started to confirm the reservation.                           *)
DequeueAndConfirm(u) ==
  /\ up[u].pc = "dequeue"
  /\ sorted' = Without(MemberOf(up[u].r))
  /\ confirms' = confirms \cup
        {[r |-> up[u].r, i |-> up[u].i, pc |-> "lab", data |-> NoData]}
  /\ up' = [up EXCEPT ![u] = NextRound(u)]
  /\ UNCHANGED <<fresh, stored, listed, current, finishing, pqdata, map, slots,
                 assigned, working, sessions, frees, initial, finished, rm,
                 br>>

Update(u) ==
  \/ PickFirst(u) \/ NobodyWaiting(u) \/ ListFreeInstances(u)
  \/ TryInstance(u) \/ NoInstanceLeft(u) \/ CheckExists(u) \/ SetCurrent(u)
  \/ AcquireResource(u) \/ Unconfirm(u) \/ AssignInstance(u)
  \/ ReadReservation(u) \/ DowngradeUnsuitable(u) \/ ReleaseAcquired(u)
  \/ Unassign(u) \/ SetWaitingConfirmation(u) \/ DequeueAndConfirm(u)

-----------------------------------------------------------------------------
(* Confirmer threads: reserve_experiment at the laboratory, then           *)
(* Coordinator.confirm_experiment.                                         *)

Step(t, pc) == confirms' = (confirms \ {t}) \cup {[t EXCEPT !.pc = pc]}
End(t)      == confirms' = confirms \ {t}

(* Variant: confirms without storing the usage.                            *)
ReserveInLabUnrecorded(t) ==
  /\ t.pc = "lab"
  /\ sessions' = [sessions EXCEPT ![t.i] = @ \cup {t.r}]
  /\ Step(t, "read")
  /\ UNCHANGED <<keys, frees, initial, finished, up, rm, br>>

(* The laboratory opens a session and starts the experiment.               *)
ReserveInLab(t) ==
  /\ t.pc = "lab"
  /\ sessions' = [sessions EXCEPT ![t.i] = @ \cup {t.r}]
  /\ Step(t, "confirm")
  /\ UNCHANGED <<keys, frees, initial, finished, up, rm, br>>

(* Looking for the aggregator of a reservation that is gone raises, and    *)
(* the thread ends there. Otherwise the usage is put in the initial store. *)
PutInitial(t) ==
  /\ t.pc = "confirm"
  /\ IF t.r \in stored
     THEN initial' = initial \cup {t.r} /\ Step(t, "read")
     ELSE End(t) /\ UNCHANGED initial
  /\ UNCHANGED <<keys, sessions, frees, finished, up, rm, br>>

ReadToConfirm(t) ==
  LET d == pqdata[t.r] IN
  /\ t.pc = "read"
  /\ IF t.r \in stored /\ d.active # "absent"
        /\ d.inst \in working \cup {NoInstance}
     THEN confirms' = (confirms \ {t}) \cup
                        {[t EXCEPT !.pc = "write", !.data = d]}
     ELSE End(t)
  /\ UNCHANGED <<keys, sessions, frees, initial, finished, up, rm, br>>

(* Variant: stores the session but not the new ACTIVE_STATUS.              *)
WriteSessionOnly(t) ==
  /\ t.pc = "write"
  /\ pqdata' = [pqdata EXCEPT ![t.r] = [t.data EXCEPT !.session = TRUE]]
  /\ End(t)
  /\ UNCHANGED <<fresh, stored, listed, current, finishing, map, sorted, slots,
                 assigned, working, sessions, frees, initial, finished, up, rm,
                 br>>

WriteReserved(t) ==
  /\ t.pc = "write"
  /\ pqdata' = [pqdata EXCEPT ![t.r] =
                  [t.data EXCEPT !.active = "reserved", !.session = TRUE]]
  /\ End(t)
  /\ UNCHANGED <<fresh, stored, listed, current, finishing, map, sorted, slots,
                 assigned, working, sessions, frees, initial, finished, up, rm,
                 br>>

(* The laboratory fails, maybe with the session already open: the thread   *)
(* marks the experiment as broken.                                         *)
LabFailsToReserve(t, b) ==
  /\ "reserve" \in Failures /\ t.pc = "lab" /\ br[b].pc = "idle"
  /\ End(t)
  /\ sessions' \in {sessions, [sessions EXCEPT ![t.i] = @ \cup {t.r}]}
  /\ br' = [br EXCEPT ![b].pc = "find", ![b].i = t.i]
  /\ UNCHANGED <<keys, frees, initial, finished, up, rm>>

Confirm(t) ==
  \/ ReserveInLab(t) \/ PutInitial(t) \/ ReadToConfirm(t) \/ WriteReserved(t)

-----------------------------------------------------------------------------
(* Removing a reservation. "finish" is Coordinator.finish_reservation;     *)
(* "expire" and "drop" are the two loops of _remove_expired_reservations   *)
(* (time is over, and no access for EXPIRATION_TIME), run by every call;   *)
(* "poll" is a status request that finds the reservation already gone.     *)

Goto(c, pc) == rm' = [rm EXCEPT ![c].pc = pc]

BeginFinish(c, r) ==
  /\ "finish" \in Removals /\ rm[c].pc = "idle"
  /\ pqdata[r].active \in LeaveFrom
  /\ r \notin finishing
  /\ finishing' = finishing \cup {r}
  /\ rm' = [rm EXCEPT ![c] = [IdleRemover EXCEPT
                                !.pc = "known", !.op = "finish", !.r = r]]
  /\ UNCHANGED <<fresh, stored, listed, current, pqdata, map, sorted, slots,
                 assigned, working, lab, up, br>>

(* The reservation may have expired meanwhile.                             *)
FindAggregator(c) ==
  /\ rm[c].pc = "known"
  /\ Goto(c, IF rm[c].r \in stored THEN "active" ELSE "clear")
  /\ UNCHANGED <<keys, lab, up, br>>

(* Is there anything to remove, and has it been promoted?                  *)
ReadActive(c) ==
  LET d == pqdata[rm[c].r] IN
  /\ rm[c].pc = "active"
  /\ rm' = [rm EXCEPT ![c] =
        IF d.active = "absent" /\ @.op = "drop" THEN IdleRemover
        ELSE [@ EXCEPT !.pc = CASE d.active = "absent" -> "purge"
                                [] d.active = "waiting" -> "delete"
                                [] OTHER -> "clean"]]
  /\ UNCHANGED <<keys, lab, up, br>>

(* The time of an active reservation is over. While it is initializing the *)
(* time only runs if the initialization is taken into account.             *)
BeginExpire(c, r) ==
  /\ "expire" \in Removals /\ rm[c].pc = "idle" /\ r \in listed
  /\ \/ pqdata[r].active = "reserved"
     \/ pqdata[r].active = "confirming" /\ InitializationInAccounting
  /\ rm' = [rm EXCEPT ![c] = [IdleRemover EXCEPT
                                !.pc = "clean", !.op = "expire", !.r = r]]
  /\ UNCHANGED <<keys, lab, up, br>>

BeginDrop(c, r) ==
  /\ "drop" \in Removals /\ rm[c].pc = "idle" /\ r \in stored
  /\ rm' = [rm EXCEPT ![c] = [IdleRemover EXCEPT
                                !.pc = "active", !.op = "drop", !.r = r]]
  /\ UNCHANGED <<keys, lab, up, br>>

BeginPoll(c, r) ==
  /\ "poll" \in Removals /\ rm[c].pc = "idle" /\ r \in stored
  /\ rm' = [rm EXCEPT ![c] = [IdleRemover EXCEPT
                                !.pc = "touch", !.op = "poll", !.r = r]]
  /\ UNCHANGED <<keys, lab, up, br>>

(* LATEST_ACCESS is written: if that creates the status, it had expired    *)
(* and its data are deleted (again). The status created so is nobody's: a  *)
(* later request looks for the reservation before, and does not find it.   *)
Touch(c) ==
  /\ rm[c].pc = "touch"
  /\ rm' = [rm EXCEPT ![c] = IF rm[c].r \in stored THEN IdleRemover
                             ELSE [@ EXCEPT !.pc = "delete"]]
  /\ UNCHANGED <<keys, lab, up, br>>

(* _clean_current_reservation: read the data, then whoever deletes CURRENT *)
(* takes the instance away from the reservation.                           *)
ReadToClean(c) ==
  LET d == pqdata[rm[c].r] IN
  /\ rm[c].pc = "clean"
  /\ rm' = [rm EXCEPT ![c].data = d,
                      ![c].pc = IF d.active = "absent" THEN "delete" ELSE "downgrade"]
  /\ UNCHANGED <<keys, lab, up, br>>

DowngradeConfirmation(c) ==
  LET won == rm[c].r \in current /\ rm[c].data.inst # NoInstance IN
  /\ rm[c].pc = "downgrade"
  /\ current' = current \ {rm[c].r}
  /\ rm' = [rm EXCEPT ![c].won = won,
                      ![c].pc = IF won THEN "unassign" ELSE "delete"]
  /\ UNCHANGED <<fresh, stored, listed, finishing, pqdata, map, sorted, slots,
                 assigned, working, lab, up, br>>

UnassignCleaned(c) ==
  /\ rm[c].pc = "unassign"
  /\ assigned' = [assigned EXCEPT ![rm[c].data.inst] = @ \ {rm[c].r}]
  /\ Goto(c, "delete")
  /\ UNCHANGED <<fresh, stored, listed, current, finishing, pqdata, map,
                 sorted, slots, working, lab, up, br>>

(* _delete_reservation: one pipeline, then the map, then the queue.        *)
DeleteReservation(c) ==
  /\ rm[c].pc = "delete"
  /\ assigned' = [i \in Instances |-> assigned[i] \ {rm[c].r}]
  /\ listed' = listed \ {rm[c].r}
  /\ pqdata' = [pqdata EXCEPT ![rm[c].r] = NoData]
  /\ Goto(c, "unmap")
  /\ UNCHANGED <<fresh, stored, current, finishing, map, sorted, slots,
                 working, lab, up, br>>

(* The member is read and the map forgets it (only once: ids are never     *)
(* mapped again, so that without it HDEL is nothing and ZREM the step).    *)
AfterDequeue(c) ==
  CASE rm[c].op = "finish" -> [rm[c] EXCEPT !.pc = "free"]
    [] rm[c].op = "poll"   -> IdleRemover
    [] OTHER               -> [rm[c] EXCEPT !.pc = "purge"]

Unmap(c) ==
  LET mapped == rm[c].r \in map IN
  /\ rm[c].pc = "unmap"
  /\ map' = map \ {rm[c].r}
  /\ sorted' = IF mapped THEN sorted ELSE Without(NoneMember)
  /\ rm' = [rm EXCEPT ![c] = IF mapped THEN [@ EXCEPT !.pc = "dequeue"]
                             ELSE AfterDequeue(c)]
  /\ UNCHANGED <<fresh, stored, listed, current, finishing, pqdata, slots,
                 assigned, working, lab, up, br>>

Dequeue(c) ==
  /\ rm[c].pc = "dequeue"
  /\ sorted' = Without(rm[c].r)
  /\ rm' = [rm EXCEPT ![c] = AfterDequeue(c)]
  /\ UNCHANGED <<fresh, stored, listed, current, finishing, pqdata, map, slots,
                 assigned, working, lab, up, br>>

(* Variant: deletes the status but not the reservation.                    *)
PurgeStatusOnly(c) ==
  /\ rm[c].pc = "purge"
  /\ current' = current \ {rm[c].r}
  /\ Goto(c, IF rm[c].op = "finish" THEN "clear" ELSE "free")
  /\ UNCHANGED <<fresh, stored, listed, finishing, pqdata, map, sorted, slots,
                 assigned, working, lab, up, br>>

(* ReservationsManager.delete                                              *)
Purge(c) ==
  /\ rm[c].pc = "purge"
  /\ stored' = stored \ {rm[c].r}
  /\ current' = current \ {rm[c].r}
  /\ Goto(c, IF rm[c].op = "finish" THEN "clear" ELSE "free")
  /\ UNCHANGED <<fresh, listed, finishing, pqdata, map, sorted, slots,
                 assigned, working, lab, up, br>>

(* Variant: releases the instance before the laboratory has freed it, too. *)
EnqueueFreeReleases(c) ==
  LET r == rm[c].r
      i == rm[c].data.inst
      toLab == rm[c].won /\ rm[c].data.session
      atOnce == rm[c].won /\ ~rm[c].data.session
  IN /\ rm[c].pc = "free"
     /\ slots' = IF rm[c].won THEN slots \cup {i} ELSE slots
     /\ finished' = IF atOnce THEN finished \cup {r} ELSE finished
     /\ frees' = IF toLab THEN frees \cup {[r |-> r, i |-> i, pc |-> "lab"]} ELSE frees
     /\ rm' = [rm EXCEPT ![c] = IF @.op = "finish"
                                THEN [@ EXCEPT !.pc = "purge", !.won = FALSE,
                                               !.data = NoData]
                                ELSE IdleRemover]
     /\ UNCHANGED <<fresh, stored, listed, current, finishing, pqdata, map,
                    sorted, assigned, working, sessions, confirms, initial, up,
                    br>>

(* enqueue_free_experiment: without a laboratory session the disposal is   *)
(* confirmed at once, otherwise a thread asks the laboratory for it.       *)
EnqueueFree(c) ==
  LET r == rm[c].r
      i == rm[c].data.inst
      toLab == rm[c].won /\ rm[c].data.session
      atOnce == rm[c].won /\ ~rm[c].data.session
  IN /\ rm[c].pc = "free"
     /\ slots' = IF atOnce THEN slots \cup {i} ELSE slots
     /\ finished' = IF atOnce THEN finished \cup {r} ELSE finished
     /\ frees' = IF toLab THEN frees \cup {[r |-> r, i |-> i, pc |-> "lab"]} ELSE frees
     /\ rm' = [rm EXCEPT ![c] = IF @.op = "finish"
                                THEN [@ EXCEPT !.pc = "purge", !.won = FALSE,
                                               !.data = NoData]
                                ELSE IdleRemover]
     /\ UNCHANGED <<fresh, stored, listed, current, finishing, pqdata, map,
                    sorted, assigned, working, sessions, confirms, initial, up,
                    br>>

ClearFinishing(c) ==
  /\ rm[c].pc = "clear"
  /\ finishing' = finishing \ {rm[c].r}
  /\ rm' = [rm EXCEPT ![c] = IdleRemover]
  /\ UNCHANGED <<fresh, stored, listed, current, pqdata, map, sorted, slots,
                 assigned, working, lab, up, br>>

Begin(c) == \E r \in Reservations :
  BeginFinish(c, r) \/ BeginExpire(c, r) \/ BeginDrop(c, r) \/ BeginPoll(c, r)
Remove(c) ==
  \/ FindAggregator(c) \/ ReadActive(c) \/ Touch(c) \/ ReadToClean(c)
  \/ DowngradeConfirmation(c) \/ UnassignCleaned(c) \/ DeleteReservation(c)
  \/ Unmap(c) \/ Dequeue(c) \/ Purge(c) \/ EnqueueFree(c) \/ ClearFinishing(c)

-----------------------------------------------------------------------------
(* Threads that free an experiment.                                        *)

(* Variant: the laboratory keeps the session.                              *)
FreeInLabKeepsSession(t) ==
  /\ t.pc = "lab"
  /\ frees' = (frees \ {t}) \cup {[t EXCEPT !.pc = "dispose"]}
  /\ UNCHANGED <<keys, sessions, confirms, initial, finished, up, rm, br>>

FreeInLab(t) ==
  /\ t.pc = "lab"
  /\ sessions' = [sessions EXCEPT ![t.i] = @ \ {t.r}]
  /\ frees' = (frees \ {t}) \cup {[t EXCEPT !.pc = "dispose"]}
  /\ UNCHANGED <<keys, confirms, initial, finished, up, rm, br>>

(* Variant: stores that it is over but does not release the instance.      *)
ConfirmDisposalKeepsSlot(t) ==
  /\ t.pc = "dispose"
  /\ finished' = finished \cup {t.r}
  /\ frees' = frees \ {t}
  /\ UNCHANGED <<keys, sessions, confirms, initial, up, rm, br>>

ConfirmDisposal(t) ==
  /\ t.pc = "dispose"
  /\ slots' = slots \cup {t.i}
  /\ finished' = finished \cup {t.r}
  /\ frees' = frees \ {t}
  /\ UNCHANGED <<fresh, stored, listed, current, finishing, pqdata, map,
                 sorted, assigned, working, sessions, confirms, initial, up,
                 rm, br>>

(* The call fails, maybe after the laboratory closed the session: nobody   *)
(* asks again.                                                             *)
LabFailsToFree(t, b) ==
  /\ "free" \in Failures /\ t.pc = "lab" /\ br[b].pc = "idle"
  /\ frees' = frees \ {t}
  /\ sessions' \in {sessions, [sessions EXCEPT ![t.i] = @ \ {t.r}]}
  /\ br' = [br EXCEPT ![b].pc = "find", ![b].i = t.i]
  /\ UNCHANGED <<keys, confirms, initial, finished, up, rm>>

Free(t) == FreeInLab(t) \/ ConfirmDisposal(t)

-----------------------------------------------------------------------------
(* mark_resource_as_broken: removing_current_resource_slot puts the user   *)
(* of the instance back at the head of the queue, and then the instance    *)
(* stops being one that works.                                             *)

BreakerGoto(b, pc) == br' = [br EXCEPT ![b].pc = pc]

(* The checker finds the instance broken.                                  *)
BeginBreak(b, i) ==
  /\ "checker" \in Failures /\ br[b].pc = "idle"
  /\ br' = [br EXCEPT ![b].pc = "find", ![b].i = i]
  /\ UNCHANGED <<keys, lab, up, rm>>

FindCurrent(b) ==
  LET here == assigned[br[b].i] IN
  /\ br[b].pc = "find"
  /\ \/ here = {} /\ BreakerGoto(b, "mark")
     \/ \E r \in here : br' = [br EXCEPT ![b].pc = "remove", ![b].r = r]
  /\ UNCHANGED <<keys, lab, up, rm>>

RemoveCurrent(b) ==
  /\ br[b].pc = "remove"
  /\ br' = [br EXCEPT ![b] = IF @.r \in assigned[@.i]
                             THEN [@ EXCEPT !.pc = "downgrade"]
                             ELSE [IdleBreaker EXCEPT !.pc = "mark", !.i = br[b].i]]
  /\ assigned' = [assigned EXCEPT ![br[b].i] = @ \ {br[b].r}]
  /\ UNCHANGED <<fresh, stored, listed, current, finishing, pqdata, map,
                 sorted, slots, working, lab, up, rm>>

DowngradeCurrent(b) ==
  /\ br[b].pc = "downgrade"
  /\ current' = current \ {br[b].r}
  /\ BreakerGoto(b, "release")
  /\ UNCHANGED <<fresh, stored, listed, finishing, pqdata, map, sorted, slots,
                 assigned, working, lab, up, rm>>

ReleaseBroken(b) ==
  /\ br[b].pc = "release"
  /\ slots' = slots \cup {br[b].i}
  /\ BreakerGoto(b, "read")
  /\ UNCHANGED <<fresh, stored, listed, current, finishing, pqdata, map,
                 sorted, assigned, working, lab, up, rm>>

(* Without data to parse an exception ends the thread right here.          *)
ReadBroken(b) ==
  LET d == pqdata[br[b].r] IN
  /\ br[b].pc = "read"
  /\ br' = [br EXCEPT ![b] = IF d.active = "absent" THEN IdleBreaker
                             ELSE [@ EXCEPT !.pc = "write", !.data = d]]
  /\ UNCHANGED <<keys, lab, up, rm>>

WriteWaiting(b) ==
  /\ br[b].pc = "write"
  /\ pqdata' = [pqdata EXCEPT ![br[b].r] =
                  [br[b].data EXCEPT !.active = "waiting", !.session = FALSE]]
  /\ BreakerGoto(b, "requeue")
  /\ UNCHANGED <<fresh, stored, listed, current, finishing, map, sorted, slots,
                 assigned, working, lab, up, rm>>

(* Variant: the user is not put back in the queue.                         *)
RequeueNobody(b) ==
  /\ br[b].pc = "requeue"
  /\ br' = [br EXCEPT ![b] = [IdleBreaker EXCEPT !.pc = "mark", !.i = br[b].i]]
  /\ UNCHANGED <<keys, lab, up, rm>>

(* HGET and ZADD: a reservation that is not in the map anymore adds the    *)
(* member "None".                                                          *)
Requeue(b) ==
  /\ br[b].pc = "requeue"
  /\ sorted' = With(MemberOf(br[b].r), Requeued)
  /\ br' = [br EXCEPT ![b] = [IdleBreaker EXCEPT !.pc = "mark", !.i = br[b].i]]
  /\ UNCHANGED <<fresh, stored, listed, current, finishing, pqdata, map, slots,
                 assigned, working, lab, up, rm>>

MarkBroken(b) ==
  /\ br[b].pc = "mark"
  /\ working' = working \ {br[b].i}
  /\ br' = [br EXCEPT ![b] = IdleBreaker]
  /\ UNCHANGED <<fresh, stored, listed, current, finishing, pqdata, map,
                 sorted, slots, assigned, lab, up, rm>>

Break(b) ==
  \/ FindCurrent(b) \/ RemoveCurrent(b) \/ DowngradeCurrent(b)
  \/ ReleaseBroken(b) \/ ReadBroken(b) \/ WriteWaiting(b) \/ Requeue(b)
  \/ MarkBroken(b)

(* mark_resource_as_fixed                                                  *)
MarkFixed(i) ==
  /\ i \notin working
  /\ working' = working \cup {i}
  /\ UNCHANGED <<fresh, stored, listed, current, finishing, pqdata, map,
                 sorted, slots, assigned, lab, up, rm, br>>

-----------------------------------------------------------------------------
Next ==
  \/ \E r \in Reservations : Reserve(r)
  \/ \E u \in Updaters : Update(u)
  \/ \E t \in confirms : Confirm(t) \/ \E b \in Breakers : LabFailsToReserve(t, b)
  \/ \E c \in Removers : Begin(c) \/ Remove(c)
  \/ \E t \in frees : Free(t) \/ \E b \in Breakers : LabFailsToFree(t, b)
  \/ \E b \in Breakers : Break(b) \/ \E i \in Instances : BeginBreak(b, i)
  \/ \E i \in Instances : MarkFixed(i)

Spec == Init /\ [][Next]_vars

(* The synchronizer runs the updates of its scheduler again and again, and *)
(* every thread that was started goes on. Time passes: every status        *)
(* request looks for sessions that are over, so that an expired one is     *)
(* noticed however many requests there are. The resources checker marks as *)
(* fixed whatever passes its checks, and a laboratory that is asked again  *)
(* and again answers some day.                                             *)
Fairness ==
  /\ \A u \in Updaters : WF_vars(Update(u))
  /\ \A c \in Removers : WF_vars(Remove(c))
  /\ \A b \in Breakers : WF_vars(Break(b))
  /\ WF_vars(\E t \in confirms : PutInitial(t) \/ ReadToConfirm(t) \/ WriteReserved(t))
  /\ SF_vars(\E t \in confirms : ReserveInLab(t))
  /\ WF_vars(\E t \in frees : Free(t))
  /\ \A r \in Reservations : SF_vars(\E c \in Removers : BeginExpire(c, r))
  /\ \A i \in Instances : WF_vars(MarkFixed(i))
FairSpec == Spec /\ Fairness

-----------------------------------------------------------------------------
(* Types. An updater knows whom and where it is trying once it has         *)
(* confirmed that the reservation exists; so do the other threads.         *)

UpdaterPc == {"pick", "list", "try", "exists", "confirm", "acquire", "assign",
              "unconfirm", "read", "unsuitable", "release", "gone",
              "unassign", "unassignGone", "set", "dequeue"}
RemoverPc == {"idle", "known", "active", "touch", "clean", "downgrade", "unassign",
              "delete", "unmap", "dequeue", "purge", "free", "clear"}
BreakerPc == {"idle", "find", "remove", "downgrade", "release", "read", "write",
              "requeue", "mark"}

UpdaterState ==
  [pc : UpdaterPc, r : Members, i : Instances \cup {NoInstance},
   free : SUBSET Instances, tried : SUBSET Members, data : Data]
RemoverState ==
  [pc : RemoverPc, op : {"finish", "expire", "drop", "poll"}, r : Members,
   data : Data, won : BOOLEAN]
BreakerState ==
  [pc : BreakerPc, i : Instances \cup {NoInstance}, r : Members, data : Data]
ConfirmTask ==
  [r : Reservations, i : Instances, pc : {"lab", "confirm", "read", "write"},
   data : Data]
FreeTask == [r : Reservations, i : Instances, pc : {"lab", "dispose"}]

KeyTypes ==
  /\ fresh \subseteq Reservations
  /\ stored \subseteq Reservations /\ listed \subseteq Reservations
  /\ current \subseteq Reservations /\ finishing \subseteq Reservations
  /\ pqdata \in [Reservations -> Data]
  /\ map \subseteq Reservations
  /\ sorted \subseteq Members \X Int
  /\ slots \subseteq Instances /\ working \subseteq Instances
  /\ assigned \in [Instances -> SUBSET Reservations]
LabTypes ==
  /\ sessions \in [Instances -> SUBSET Reservations]
  /\ confirms \subseteq ConfirmTask /\ frees \subseteq FreeTask
  /\ initial \subseteq Reservations /\ finished \subseteq Reservations
UpdaterTypes ==
  /\ up \in [Updaters -> UpdaterState]
  /\ \A u \in Updaters :
       /\ up[u].pc \notin {"pick", "list", "try"} => up[u].i \in Instances
       /\ up[u].pc \notin {"pick", "list", "try", "exists"} => up[u].r \in Reservations
RemoverTypes ==
  /\ rm \in [Removers -> RemoverState]
  /\ \A c \in Removers :
       /\ rm[c].pc # "idle" => rm[c].r \in Reservations
       /\ rm[c].won \/ rm[c].pc = "unassign" => rm[c].data.inst \in Instances
BreakerTypes ==
  /\ br \in [Breakers -> BreakerState]
  /\ \A b \in Breakers :
       /\ br[b].pc # "idle" => br[b].i \in Instances
       /\ br[b].pc \notin {"idle", "find", "mark"} => br[b].r \in Reservations

(* Every key and every thread has the values its code expects.             *)
TypeOK == KeyTypes /\ LabTypes /\ UpdaterTypes /\ RemoverTypes /\ BreakerTypes

-----------------------------------------------------------------------------
(* Who has an instance in his hands: the updater that acquired it, the     *)
(* remover that took it from its reservation, the thread that frees its    *)
(* experiment or the breaker that takes it from its user.                  *)

UpdaterHolds(u, i) ==
  /\ up[u].pc \in {"assign", "read", "set", "unsuitable", "gone", "release"}
  /\ up[u].i = i
RemoverHolds(c, i) == rm[c].won /\ rm[c].data.inst = i
FreeHolds(t, i)    == t.i = i
BreakerHolds(b, i) == br[b].pc \in {"downgrade", "release"} /\ br[b].i = i

HeldByThread(i) ==
  \/ \E u \in Updaters : UpdaterHolds(u, i)
  \/ \E c \in Removers : RemoverHolds(c, i)
  \/ \E t \in frees : FreeHolds(t, i)
  \/ \E b \in Breakers : BreakerHolds(b, i)

(* The reservation an instance was given to, as the keys record it.        *)
HeldFor(r, i) == Active(pqdata[r]) /\ pqdata[r].inst = i /\ r \in current

(* A reservation that nobody is removing, nor moving back to the queue.    *)
Alive(r) ==
  /\ r \in stored
  /\ \A c \in Removers : rm[c].r = r => rm[c].op = "poll"
  /\ \A b \in Breakers : br[b].r # r
Using(r, i) == Alive(r) /\ Active(pqdata[r]) /\ pqdata[r].inst = i

-----------------------------------------------------------------------------
(* Safety                                                                  *)

(* No instance is given to two students: the reason to have a queue.       *)
NoSharedInstance ==
  \A i \in Instances : \A q, r \in Reservations :
    Using(q, i) /\ Using(r, i) => q = r

(* An instance is in the hands of one thread at most, and while it is in   *)
(* somebody's hands it is not a free slot: SREM and HDEL are the only      *)
(* gates, and whoever passes them is the one that will give it back.       *)
SlotHeldOnce ==
  \A i \in Instances :
    /\ \A u, v \in Updaters : UpdaterHolds(u, i) /\ UpdaterHolds(v, i) => u = v
    /\ \A c, d \in Removers : RemoverHolds(c, i) /\ RemoverHolds(d, i) => c = d
    /\ \A s, t \in frees : FreeHolds(s, i) /\ FreeHolds(t, i) => s = t
    /\ \A u \in Updaters, c \in Removers : ~(UpdaterHolds(u, i) /\ RemoverHolds(c, i))
    /\ \A u \in Updaters, t \in frees : ~(UpdaterHolds(u, i) /\ FreeHolds(t, i))
    /\ \A c \in Removers, t \in frees : ~(RemoverHolds(c, i) /\ FreeHolds(t, i))
    /\ i \in slots => /\ \A u \in Updaters : ~UpdaterHolds(u, i)
                      /\ \A c \in Removers : ~RemoverHolds(c, i)
                      /\ \A t \in frees : ~FreeHolds(t, i)

(* An instance that is not free has somebody who will give it back.        *)
NoSlotLost ==
  \A i \in Instances :
    i \in slots \/ HeldByThread(i) \/ \E r \in Reservations : HeldFor(r, i)

(* A resource that was marked as fixed works again.                        *)
FixedWorksAgain ==
  \A i \in working :
    \/ i \in slots \/ HeldByThread(i) \/ \E r \in Reservations : HeldFor(r, i)
    \/ \E b \in Breakers : br[b].i = i

(* A student who waits is in the queue or has been promoted: he is never   *)
(* left polling for a place he cannot reach.                               *)
NotForgotten ==
  \A r \in Reservations : Alive(r) => r \in Queued \/ Active(pqdata[r])

(* Who is told that he is in has a laboratory session in his instance, and *)
(* his usage was sent to the database before.                              *)
ReservedHasSession ==
  \A r \in Reservations, i \in Instances :
    Using(r, i) /\ pqdata[r].active = "reserved"
      => r \in sessions[i] /\ r \in initial

(* The laboratory has one session at most per experiment.                  *)
OneSession == \A i \in Instances : \A q, r \in sessions[i] : q = r

(* The usage of a reservation is closed only when it is being removed or   *)
(* gone, whatever breaks meanwhile.                                        *)
FinishedIsOver == \A r \in finished : ~Alive(r)

-----------------------------------------------------------------------------
(* Liveness                                                                *)

(* Whoever waits in the queue is served some day.                          *)
WaitingIsServed ==
  \A r \in Reservations : r \in Queued ~> pqdata[r].active = "reserved"

(* Whatever was taken from the slots comes back to them.                   *)
SlotsComeBack == \A i \in Instances : i \notin slots ~> i \in slots

=============================================================================
