------------------------- MODULE SchedulerAggregator -------------------------
(***************************************************************************)
(* A reservation that competes in several schedulers: the aggregator       *)
(* (redis/meta_scheduler.py) puts it in the queue of each resource type    *)
(* that hosts its experiment, and takes it out of the others once it is    *)
(* promoted in one of them.  The schedulers share the data of the          *)
(* reservation, its field CURRENT and the set of its schedulers; the       *)
(* threads of the aggregator exclude each other by a lock that expires.    *)
(*                                                                         *)
(* PriorityQueueScheduler has every command of one scheduler.  Here the    *)
(* commands of a scheduler on its own data that follow each other are one  *)
(* step; nothing fails, each resource type has one instance, all           *)
(* reservations have the same priority, and the initialization is not part *)
(* of the accounted time.  The schedulers are visited in any order.        *)
(***************************************************************************)
EXTENDS Naturals

CONSTANTS
  Reservations,
  Schedulers,     \* resource types, all of which host the experiment
  Servers,        \* core servers: each updates the queue of each scheduler
  Workers,        \* bound on the requests and removals at the same time
  LeaveFrom,      \* statuses in which users finish their reservation
  Removals,       \* which removals occur besides: "expire", "drop"
  Slow,           \* requests that last longer than their lock is respected
  NoReservation, NoScheduler

Updaters == Servers \X Schedulers
\* The threads that confirm what each updater promotes.  Bound: one of a
\* reservation at a time.
Confirmers == Reservations \X Updaters
Threads == Workers \cup Confirmers

ASSUME AggregatorAssumption ==
  /\ Schedulers # {}
  /\ NoReservation \notin Reservations
  /\ NoScheduler \notin Schedulers
  /\ Workers \cap Confirmers = {}
  /\ LeaveFrom \subseteq {"waiting", "confirming", "reserved"}
  /\ Removals \subseteq {"expire", "drop"}
  /\ Slow \subseteq {"status", "confirm"}

VARIABLES
  fresh,      \* reservations not made yet
  stored,     \* reservations whose data exists
  accessed,   \* reservations whose status has the field LATEST_ACCESS
  current,    \* reservations whose status has the field CURRENT
  assoc,      \* WEBLAB_RESERVATIONS_ACTIVE_SCHEDULERS of each reservation
  locked,     \* reservations whose individual lock exists
  finishing,  \* WEBLAB_RESERVATIONS_FINISHING
  pqdata,     \* status of each reservation in the data of each scheduler
  place,      \* its number in the queue of each scheduler, 0 when not there
  drawn,      \* the counter of each queue
  slots,      \* resource types whose instance is free
  frees,      \* resource types whose instance is being freed
  up,         \* state of each updater
  thr         \* state of each thread

data == <<fresh, stored, accessed>>
shared == <<current, assoc, locked, finishing>>
queues == <<pqdata, place, drawn>>
instances == <<slots, frees>>
vars == <<data, shared, queues, instances, up, thr>>

Active(status) == status \in {"confirming", "reserved"}

IdleUpdater == [pc |-> "pick", r |-> NoReservation, tried |-> {}]

(* op: what the thread is for; todo: the schedulers it still has to visit; *)
(* q: the one it visits; s: the one the reservation is assigned to; won:   *)
(* it took CURRENT away.                                                   *)
Idle == [op |-> "none", pc |-> "idle", r |-> NoReservation, todo |-> {},
         q |-> NoScheduler, s |-> NoScheduler, won |-> FALSE]

Init ==
  /\ fresh = Reservations
  /\ stored = {} /\ accessed = {} /\ current = {} /\ locked = {} /\ finishing = {}
  /\ assoc = [r \in Reservations |-> {}]
  /\ pqdata = [s \in Schedulers |-> [r \in Reservations |-> "absent"]]
  /\ place = [s \in Schedulers |-> [r \in Reservations |-> 0]]
  /\ drawn = [s \in Schedulers |-> 0]
  /\ slots \in SUBSET Schedulers
  /\ frees = Schedulers \ slots
  /\ up = [u \in Updaters |-> IdleUpdater]
  /\ thr = [t \in Threads |-> Idle]

-----------------------------------------------------------------------------
(* _update_queues of one scheduler.                                        *)

Queue(u) == u[2]
UpGoto(u, pc) == up' = [up EXCEPT ![u].pc = pc]
EndUpdate(u) == up' = [up EXCEPT ![u] = IdleUpdater]

(* The first reservation of the queue that was not tried yet.              *)
Untried(u) == {r \in Reservations : place[Queue(u)][r] # 0 /\ r \notin up[u].tried}
First(u, r) == r \in Untried(u) /\ \A q \in Untried(u) : place[Queue(u)][r] <= place[Queue(u)][q]

Pick(u) ==
  /\ up[u].pc = "pick" /\ Queue(u) \in slots
  /\ \E r \in Reservations :
       /\ First(u, r)
       /\ up' = [up EXCEPT ![u] = [pc |-> "exists", r |-> r, tried |-> up[u].tried \cup {r}]]
  /\ UNCHANGED <<data, shared, queues, instances, thr>>

EndRun(u) ==
  /\ up[u].pc = "pick" /\ (Untried(u) = {} \/ Queue(u) \notin slots)
  /\ up[u] # IdleUpdater
  /\ EndUpdate(u)
  /\ UNCHANGED <<data, shared, queues, instances, thr>>

(* ReservationsManager.confirm(): EXISTS, which raises and ends the run,   *)
(* and HSET CURRENT.                                                       *)
CheckExists(u) ==
  /\ up[u].pc = "exists"
  /\ IF up[u].r \in stored THEN UpGoto(u, "confirm") ELSE EndUpdate(u)
  /\ UNCHANGED <<data, shared, queues, instances, thr>>

(* Variant: does not look at what HSET answers.                            *)
ConfirmCurrentAnyway(u) ==
  /\ up[u].pc = "confirm"
  /\ current' = current \cup {up[u].r}
  /\ UpGoto(u, "acquire")
  /\ UNCHANGED <<data, assoc, locked, finishing, queues, instances, thr>>

ConfirmCurrent(u) ==
  /\ up[u].pc = "confirm"
  /\ current' = current \cup {up[u].r}
  /\ UpGoto(u, IF up[u].r \in current THEN "pick" ELSE "acquire")
  /\ UNCHANGED <<data, assoc, locked, finishing, queues, instances, thr>>

(* SREM of the slot, or downgrade_confirmation.                            *)
Acquire(u) ==
  LET acquired == Queue(u) \in slots
  IN /\ up[u].pc = "acquire"
     /\ slots' = slots \ {Queue(u)}
     /\ current' = IF acquired THEN current ELSE current \ {up[u].r}
     /\ UpGoto(u, IF acquired THEN "read" ELSE "pick")
     /\ UNCHANGED <<data, assoc, locked, finishing, queues, frees, thr>>

(* The student may not be here anymore: the slot is released, CURRENT is   *)
(* left.                                                                   *)
Read(u) ==
  LET here == pqdata[Queue(u)][up[u].r] # "absent" /\ up[u].r \in stored
  IN /\ up[u].pc = "read"
     /\ UpGoto(u, IF here THEN "set" ELSE "pick")
     /\ slots' = IF here THEN slots ELSE slots \cup {Queue(u)}
     /\ UNCHANGED <<data, shared, queues, frees, thr>>

SetConfirming(u) ==
  /\ up[u].pc = "set"
  /\ pqdata' = [pqdata EXCEPT ![Queue(u)][up[u].r] = "confirming"]
  /\ UpGoto(u, "dequeue")
  /\ UNCHANGED <<data, shared, place, drawn, instances, thr>>

Start(t, op, pc, r, todo, q, s) ==
  thr' = [thr EXCEPT ![t] = [op |-> op, pc |-> pc, r |-> r, todo |-> todo, q |-> q, s |-> s,
                             won |-> FALSE]]

(* ZREM, and the confirmer starts a thread.                                *)
Dequeue(u) ==
  /\ up[u].pc = "dequeue" /\ thr[<<up[u].r, u>>].pc = "idle"
  /\ place' = [place EXCEPT ![Queue(u)][up[u].r] = 0]
  /\ Start(<<up[u].r, u>>, "confirm", "lab", up[u].r, {}, NoScheduler, Queue(u))
  /\ UpGoto(u, "pick")
  /\ UNCHANGED <<data, shared, pqdata, drawn, instances>>

Update(u) ==
  \/ Pick(u) \/ EndRun(u) \/ CheckExists(u) \/ ConfirmCurrent(u) \/ Acquire(u)
  \/ Read(u) \/ SetConfirming(u) \/ Dequeue(u)

-----------------------------------------------------------------------------
(* Threads: what starts them.                                              *)

(* Coordinator.reserve_experiment() creates the reservation.               *)
BeginReserve(w, r) ==
  /\ thr[w].pc = "idle" /\ r \in fresh
  /\ fresh' = fresh \ {r} /\ stored' = stored \cup {r} /\ accessed' = accessed \cup {r}
  /\ Start(w, "reserve", "lock", r, {}, NoScheduler, NoScheduler)
  /\ UNCHANGED <<shared, queues, instances, up>>

(* Nobody knows a reservation before reserve_experiment() returns.         *)
Known(r) == r \in stored /\ \A t \in Threads : ~(thr[t].op = "reserve" /\ thr[t].r = r)

(* The user asks for the status.                                           *)
BeginStatus(w, r) ==
  /\ thr[w].pc = "idle" /\ Known(r)
  /\ Start(w, "status", "lock", r, {}, NoScheduler, NoScheduler)
  /\ UNCHANGED <<data, shared, queues, instances, up>>

StatusOf(r) ==
  CASE \E s \in Schedulers : pqdata[s][r] = "reserved" -> "reserved"
    [] \E s \in Schedulers : pqdata[s][r] = "confirming" -> "confirming"
    [] OTHER -> "waiting"

(* Coordinator.finish_reservation(): the schedulers are read without the   *)
(* lock.                                                                   *)
BeginFinish(w, r) ==
  /\ thr[w].pc = "idle" /\ Known(r) /\ r \notin finishing
  /\ StatusOf(r) \in LeaveFrom
  /\ finishing' = finishing \cup {r}
  /\ Start(w, "finish", "each", r, assoc[r], NoScheduler, NoScheduler)
  /\ UNCHANGED <<data, current, assoc, locked, queues, instances, up>>

(* _remove_expired_reservations() of one scheduler: the time of a session  *)
(* is over, or nobody has asked for the reservation for six hours.         *)
IsOver(s, r) ==
  \/ "expire" \in Removals /\ pqdata[s][r] = "reserved"
  \/ "drop" \in Removals /\ Known(r) /\ pqdata[s][r] # "absent"

BeginExpire(w, s, r) ==
  /\ thr[w].pc = "idle" /\ IsOver(s, r)
  /\ Start(w, "expire", "clean", r, {}, s, NoScheduler)
  /\ UNCHANGED <<data, shared, queues, instances, up>>

Begin(w) ==
  \E r \in Reservations :
    \/ BeginReserve(w, r) \/ BeginStatus(w, r) \/ BeginFinish(w, r)
    \/ \E s \in Schedulers : BeginExpire(w, s, r)

-----------------------------------------------------------------------------
(* The steps of threads.                                                   *)

Goto(t, pc) == thr' = [thr EXCEPT ![t].pc = pc]
GotoWith(t, pc, todo) == thr' = [thr EXCEPT ![t].pc = pc, ![t].todo = todo]
GotoNext(t, pc, q) == thr' = [thr EXCEPT ![t].pc = pc, ![t].q = q, ![t].todo = @ \ {q}]
GotoWon(t, pc, won) == thr' = [thr EXCEPT ![t].pc = pc, ![t].won = won]
End(t) == thr' = [thr EXCEPT ![t] = Idle]

(* The laboratory has reserved; for a reservation that is gone the         *)
(* aggregator is not found, which raises.                                  *)
LabDone(t) ==
  /\ thr[t].pc = "lab"
  /\ IF thr[t].r \in stored THEN Goto(t, "lock") ELSE End(t)
  /\ UNCHANGED <<data, shared, queues, instances, up>>

(* lock_reservation(): SETNX of a key that its holder deletes or that      *)
(* expires in five seconds; who has waited for ten goes on without it.     *)
(* Assumption: making a reservation does not outlast its lock.             *)
UnderLock(t, r) ==
  /\ thr[t].r = r /\ thr[t].op \in {"reserve", "status", "confirm"}
  /\ thr[t].pc \notin {"lab", "lock", "list", "write"}
LockIsFree(r) == r \notin locked \/ \E t \in Threads : UnderLock(t, r) /\ thr[t].op \in Slow

UseLock(t) ==
  \/ thr[t].op = "reserve" /\ GotoWith(t, "next", Schedulers)
  \/ thr[t].op = "status" /\ GotoWith(t, "next", assoc[thr[t].r])
  \/ thr[t].op = "confirm" /\ Goto(t, "assign")

(* Variant: a confirming thread gives up when the lock is taken.           *)
LockOrGiveUp(t) ==
  /\ thr[t].pc = "lock"
  /\ \/ LockIsFree(thr[t].r) /\ UseLock(t)
     \/ ~LockIsFree(thr[t].r) /\ thr[t].op = "confirm" /\ End(t)
  /\ locked' = locked \cup {thr[t].r}
  /\ UNCHANGED <<data, current, assoc, finishing, queues, instances, up>>

Lock(t) ==
  /\ thr[t].pc = "lock" /\ LockIsFree(thr[t].r)
  /\ UseLock(t)
  /\ locked' = locked \cup {thr[t].r}
  /\ UNCHANGED <<data, current, assoc, finishing, queues, instances, up>>

(* The next scheduler to look at.  A reservation that is being made is     *)
(* associated to it and put in its queue.                                  *)
Join(q, r) ==
  /\ assoc' = [assoc EXCEPT ![r] = @ \cup {q}]
  /\ drawn' = [drawn EXCEPT ![q] = @ + 1]
  /\ place' = [place EXCEPT ![q][r] = drawn[q] + 1]
  /\ pqdata' = [pqdata EXCEPT ![q][r] = "waiting"]

Visit(t, q) ==
  /\ GotoNext(t, "look", q)
  /\ \/ thr[t].op = "reserve" /\ Join(q, thr[t].r)
     \/ thr[t].op = "status" /\ UNCHANGED <<assoc, queues>>

NextScheduler(t) ==
  /\ thr[t].pc = "next"
  /\ \/ thr[t].todo = {} /\ Goto(t, "unlock") /\ UNCHANGED <<assoc, queues>>
     \/ \E q \in thr[t].todo : Visit(t, q)
  /\ UNCHANGED <<data, current, locked, finishing, instances, up>>

(* Variant: forgets in which scheduler it is promoted.                     *)
LookForgets(t) ==
  /\ thr[t].pc = "look"
  /\ Goto(t, IF Active(pqdata[thr[t].q][thr[t].r]) THEN "assign" ELSE "next")
  /\ UNCHANGED <<data, shared, queues, instances, up>>

(* get_reservation_status() of a scheduler.  update() creates the status   *)
(* of a reservation that has disappeared, which is then deleted there.  A  *)
(* reservation that is promoted there ends the loop.                       *)
Look(t) ==
  LET r == thr[t].r
      q == thr[t].q
  IN /\ thr[t].pc = "look"
     /\ accessed' = accessed \cup {r}
     /\ IF r \in accessed /\ Active(pqdata[q][r])
        THEN thr' = [thr EXCEPT ![t].pc = "assign", ![t].s = q]
        ELSE Goto(t, "next")
     /\ IF r \in accessed
        THEN UNCHANGED <<pqdata, place>>
        ELSE /\ pqdata' = [pqdata EXCEPT ![q][r] = "absent"]
             /\ place' = [place EXCEPT ![q][r] = 0]
     /\ UNCHANGED <<fresh, stored, shared, drawn, instances, up>>

(* Variant: the scheduler it is assigned to is not left out.               *)
AssignNone(t) ==
  /\ thr[t].pc = "assign"
  /\ IF thr[t].s \in assoc[thr[t].r] THEN GotoWith(t, "each", assoc[thr[t].r])
                                     ELSE Goto(t, "abandon")
  /\ UNCHANGED <<data, shared, queues, instances, up>>

(* assign_single_scheduler(): None if it is another one already.           *)
Assign(t) ==
  /\ thr[t].pc = "assign"
  /\ IF thr[t].s \in assoc[thr[t].r]
     THEN GotoWith(t, "each", assoc[thr[t].r] \ {thr[t].s})
     ELSE Goto(t, "abandon")
  /\ UNCHANGED <<data, shared, queues, instances, up>>

(* The schedulers to finish the reservation in.  Assigning leaves out one  *)
(* that somebody else dissociated, and dissociates it; finish_reservation  *)
(* takes them as it read them.                                             *)
FinishIn(t, q) ==
  IF thr[t].op = "finish" \/ q \in assoc[thr[t].r]
  THEN GotoNext(t, "clean", q)
  ELSE GotoWith(t, "each", thr[t].todo \ {q})
EachDone(t) ==
  thr[t].todo = {} /\ Goto(t, IF thr[t].op = "finish" THEN "purge" ELSE "unlock")

(* Variant: the reservation is finished in the others, and still theirs.   *)
EachKeepsAssociation(t) ==
  /\ thr[t].pc = "each"
  /\ EachDone(t) \/ \E q \in thr[t].todo : FinishIn(t, q)
  /\ UNCHANGED <<data, shared, queues, instances, up>>

Each(t) ==
  /\ thr[t].pc = "each"
  /\ \/ EachDone(t) /\ UNCHANGED assoc
     \/ \E q \in thr[t].todo :
          /\ FinishIn(t, q)
          /\ assoc' = IF thr[t].op = "finish" THEN assoc
                      ELSE [assoc EXCEPT ![thr[t].r] = @ \ {q}]
  /\ UNCHANGED <<data, current, locked, finishing, queues, instances, up>>

(* finish_reservation() of a scheduler returns when it has no data of the  *)
(* reservation.                                                            *)
HasData(t) == pqdata[thr[t].q][thr[t].r] # "absent" \/ thr[t].op = "expire"

(* Variant: CURRENT is deleted of a reservation that waits there, too.     *)
CleanAnyway(t) ==
  LET r == thr[t].r
  IN /\ thr[t].pc = "clean"
     /\ GotoWon(t, IF HasData(t) THEN "delete" ELSE "each", HasData(t) /\ r \in current)
     /\ current' = IF HasData(t) THEN current \ {r} ELSE current
     /\ UNCHANGED <<data, assoc, locked, finishing, queues, instances, up>>

(* _clean_current_reservation(), of one that is promoted there: whoever    *)
(* deletes CURRENT frees the experiment.                                   *)
Clean(t) ==
  LET r == thr[t].r
      active == Active(pqdata[thr[t].q][r])
  IN /\ thr[t].pc = "clean"
     /\ GotoWon(t, IF HasData(t) THEN "delete" ELSE "each", active /\ r \in current)
     /\ current' = IF active THEN current \ {r} ELSE current
     /\ UNCHANGED <<data, assoc, locked, finishing, queues, instances, up>>

(* enqueue_free_experiment comes next, or when all that expired is         *)
(* deleted.                                                                *)
AfterDelete(t) ==
  /\ frees' = IF thr[t].won /\ thr[t].op # "expire" THEN frees \cup {thr[t].q} ELSE frees
  /\ IF thr[t].op = "expire" THEN Goto(t, "purge") ELSE GotoWon(t, "each", FALSE)

(* Variant: the reservation stays in the queue.                            *)
DeleteData(t) ==
  /\ thr[t].pc = "delete"
  /\ pqdata' = [pqdata EXCEPT ![thr[t].q][thr[t].r] = "absent"]
  /\ AfterDelete(t)
  /\ UNCHANGED <<data, shared, place, drawn, slots, up>>

(* _delete_reservation() of the scheduler.                                 *)
Delete(t) ==
  /\ thr[t].pc = "delete"
  /\ pqdata' = [pqdata EXCEPT ![thr[t].q][thr[t].r] = "absent"]
  /\ place' = [place EXCEPT ![thr[t].q][thr[t].r] = 0]
  /\ AfterDelete(t)
  /\ UNCHANGED <<data, shared, drawn, slots, up>>

(* clean_associations_for_reservation() and ReservationsManager.delete():  *)
(* of the data that all schedulers share.                                  *)
Purge(t) ==
  LET r == thr[t].r
  IN /\ thr[t].pc = "purge"
     /\ stored' = stored \ {r} /\ accessed' = accessed \ {r} /\ current' = current \ {r}
     /\ assoc' = [assoc EXCEPT ![r] = {}]
     /\ finishing' = IF thr[t].op = "finish" THEN finishing \ {r} ELSE finishing
     /\ frees' = IF thr[t].won THEN frees \cup {thr[t].q} ELSE frees
     /\ End(t)
     /\ UNCHANGED <<fresh, locked, queues, slots, up>>

(* unlock_reservation() deletes the lock, whoever holds it.  A confirming  *)
(* thread goes on if the reservation was assigned to its scheduler.        *)
Unlock(t) ==
  /\ thr[t].pc \in {"unlock", "abandon"}
  /\ locked' = locked \ {thr[t].r}
  /\ IF thr[t].op = "confirm" /\ thr[t].pc = "unlock" THEN Goto(t, "list") ELSE End(t)
  /\ UNCHANGED <<data, current, assoc, finishing, queues, instances, up>>

(* confirm_experiment() of the aggregator: in each scheduler that the      *)
(* reservation has then.                                                   *)
ListToConfirm(t) ==
  /\ thr[t].pc = "list" /\ GotoWith(t, "write", assoc[thr[t].r])
  /\ UNCHANGED <<data, shared, queues, instances, up>>

WriteReserved(t) ==
  /\ thr[t].pc = "write"
  /\ \/ thr[t].todo = {} /\ End(t) /\ UNCHANGED pqdata
     \/ \E q \in thr[t].todo :
          /\ GotoWith(t, "write", thr[t].todo \ {q})
          /\ pqdata' = [pqdata EXCEPT ![q][thr[t].r] = IF @ = "absent" THEN @ ELSE "reserved"]
  /\ UNCHANGED <<data, shared, place, drawn, instances, up>>

Work(t) ==
  \/ LabDone(t) \/ Lock(t) \/ NextScheduler(t) \/ Look(t) \/ Assign(t) \/ Each(t)
  \/ Clean(t) \/ Delete(t) \/ Purge(t) \/ Unlock(t) \/ ListToConfirm(t) \/ WriteReserved(t)

(* The experiment is freed in its laboratory and its slot released.        *)
Free(f) ==
  /\ f \in frees
  /\ frees' = frees \ {f} /\ slots' = slots \cup {f}
  /\ UNCHANGED <<data, shared, queues, up, thr>>

Next ==
  \/ \E u \in Updaters : Update(u)
  \/ \E w \in Workers : Begin(w)
  \/ \E t \in Threads : Work(t)
  \/ \E f \in frees : Free(f)

Spec == Init /\ [][Next]_vars

(* Threads go on, the laboratory answers, and who waits for a lock gets it *)
(* at the latest after ten seconds.  Nothing is asked of users.            *)
Fairness ==
  /\ \A u \in Updaters : WF_vars(Update(u))
  /\ \A t \in Threads : SF_vars(Work(t))
  /\ WF_vars(\E f \in frees : Free(f))

FairSpec == Spec /\ Fairness

-----------------------------------------------------------------------------
(* Properties.                                                             *)

UpdaterState ==
  [pc : {"pick", "exists", "confirm", "acquire", "read", "set", "dequeue"},
   r : Reservations \cup {NoReservation}, tried : SUBSET Reservations]
ThreadState ==
  [op : {"none", "reserve", "status", "confirm", "finish", "expire"},
   pc : {"idle", "lab", "lock", "next", "look", "assign", "each", "clean", "delete",
         "purge", "unlock", "abandon", "list", "write"},
   r : Reservations \cup {NoReservation}, todo : SUBSET Schedulers,
   q : Schedulers \cup {NoScheduler}, s : Schedulers \cup {NoScheduler}, won : BOOLEAN]

(* Each variable has its type, and who works on a reservation or in a      *)
(* scheduler knows which.                                                  *)
TypeOK ==
  /\ fresh \subseteq Reservations /\ stored \subseteq Reservations
  /\ accessed \subseteq Reservations /\ current \subseteq Reservations
  /\ assoc \in [Reservations -> SUBSET Schedulers]
  /\ locked \subseteq Reservations /\ finishing \subseteq Reservations
  /\ pqdata \in [Schedulers -> [Reservations -> {"absent", "waiting", "confirming", "reserved"}]]
  /\ place \in [Schedulers -> [Reservations -> Nat]]
  /\ drawn \in [Schedulers -> Nat]
  /\ slots \subseteq Schedulers /\ frees \subseteq Schedulers
  /\ up \in [Updaters -> UpdaterState] /\ thr \in [Threads -> ThreadState]
  /\ \A u \in Updaters : up[u].pc # "pick" => up[u].r \in Reservations
  /\ \A t \in Threads :
       /\ thr[t].pc # "idle" => thr[t].r \in Reservations
       /\ thr[t].pc \in {"look", "clean", "delete"} => thr[t].q \in Schedulers
       /\ thr[t].pc = "assign" => thr[t].s \in Schedulers

Removing(t, r) == thr[t].r = r /\ thr[t].op \in {"finish", "expire"}
Alive(r) == r \in stored /\ \A t \in Threads : ~Removing(t, r)

(* A reservation that uses an experiment has left every queue but the one  *)
(* it was promoted in, whoever asked for its status meanwhile and even if  *)
(* the lock expired under a slow thread (assign_single_scheduler).         *)
OneScheduler ==
  \A r \in Reservations, s \in Schedulers :
    Alive(r) /\ pqdata[s][r] = "reserved" => assoc[r] = {s}

(* Two schedulers never promote the same reservation, although their       *)
(* updates exclude each other by the field CURRENT alone.                  *)
PromotedOnce ==
  \A r \in Reservations, s, q \in Schedulers :
    Alive(r) /\ Active(pqdata[s][r]) /\ Active(pqdata[q][r]) => s = q

(* A user that was told of a reservation is in some queue or promoted, at  *)
(* every moment of the way out of the other queues.                        *)
StillSomewhere ==
  \A r \in Reservations :
    Alive(r) /\ Known(r) => \E s \in assoc[r] : place[s][r] # 0 \/ Active(pqdata[s][r])

Leaving(r, s) ==
  \E t \in Threads :
    /\ thr[t].r = r
    /\ \/ thr[t].pc \in {"clean", "delete", "look"} /\ thr[t].q = s
       \/ thr[t].op = "finish" /\ s \in thr[t].todo

(* No queue keeps a reservation that does not exist anymore, unless        *)
(* somebody is on the way to take it out: the schedulers that were left    *)
(* before the session was over are not visited again.                      *)
NothingLeftBehind ==
  \A r \in Reservations, s \in Schedulers :
    r \notin stored => (pqdata[s][r] = "absent" /\ place[s][r] = 0) \/ Leaving(r, s)

(* The instance of each resource type is free, or somebody is there to     *)
(* free it: leaving a queue does not take CURRENT from the scheduler that  *)
(* promoted the reservation.                                               *)
SlotAccounted ==
  \A s \in Schedulers :
    \/ s \in slots
    \/ \E u \in Updaters : Queue(u) = s /\ up[u].pc \in {"read", "set"}
    \/ \E r \in Reservations : Active(pqdata[s][r]) /\ r \in current
    \/ \E t \in Threads : thr[t].won /\ thr[t].q = s
    \/ s \in frees

(* Who waits in several queues gets an experiment in the end, although the *)
(* thread that confirms waits for a lock that requests for the status take *)
(* again and again.                                                        *)
WaitingIsServed ==
  \A r \in Reservations :
    (r \in stored /\ \E s \in Schedulers : place[s][r] # 0) ~> StatusOf(r) = "reserved"

-----------------------------------------------------------------------------
(* The aggregator as an implementation of SingleAssignment.                *)

PromotedIn(r) == {s \in Schedulers : Active(pqdata[s][r])}
CompetesIn(r) == IF Alive(r) THEN assoc[r] ELSE {}
AssignedTo(r) ==
  IF Alive(r) /\ PromotedIn(r) # {} THEN CHOOSE s \in PromotedIn(r) : TRUE ELSE NoScheduler
IsUsed(r) == Alive(r) /\ \E s \in Schedulers : pqdata[s][r] = "reserved"
HasEnded(r) == r \notin fresh /\ ~Alive(r)

Assignment == INSTANCE SingleAssignment
  WITH competes <- [r \in Reservations |-> CompetesIn(r)],
       assigned <- [r \in Reservations |-> AssignedTo(r)],
       used <- {r \in Reservations : IsUsed(r)},
       over <- {r \in Reservations : HasEnded(r)}

(* A reservation only ever goes through what SingleAssignment allows: once *)
(* assigned it keeps its scheduler, it leaves no queue before, and what is *)
(* over does not come back.                                                *)
ImplementsSingleAssignment == Assignment!Spec

=============================================================================
