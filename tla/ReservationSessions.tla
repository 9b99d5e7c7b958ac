------------------------- MODULE ReservationSessions -------------------------
(***************************************************************************)
(* The sessions of the reservations in the core server, and who watches    *)
(* over them.  A request works on the session of its reservation under the *)
(* lock of that session (server.py, voodoo/sessions/memory.py).  A thread  *)
(* of the server looks every few seconds for users who are gone            *)
(* (alive_users.py) and starts threads that finish their reservations      *)
(* (reservation_processor.py).                                             *)
(*                                                                         *)
(* Sessions in memory are not copied: what a request reads and writes is   *)
(* the object that is stored.  There are two of them for a reservation:    *)
(* the empty one that create_session() stores and the one that             *)
(* reserve_experiment() stores afterwards.  Who looks whether a key is in  *)
(* the session and then reads, writes or removes it may find that somebody *)
(* without the lock was faster.                                            *)
(***************************************************************************)
CONSTANTS
  Reservations,
  NoReservation,
  Clients,      \* requests at the same time
  Purgers,      \* bound on the purging threads at the same time
  Unwatched,    \* reservations of experiments that manage polling themselves,
                \* or of another server
  ChecksWhileReserving  \* whether a check may fall within reserve_experiment

ASSUME SessionsAssumption ==
  /\ NoReservation \notin Reservations
  /\ Clients \cap Purgers = {}
  /\ Unwatched \subseteq Reservations
  /\ ChecksWhileReserving \in BOOLEAN

Threads == Clients \cup Purgers

VARIABLES
  made,       \* how far reserve_experiment() is with each reservation
  store,      \* the object stored for each session
  lock,       \* whether the lock of each session is taken
  polling,    \* 'session_polling' is in the session: it is not finished
  clock,      \* "late": the latest poll was too long ago; "over": the
              \* expiration time has passed
  unwatched,  \* 'manages_polling' or 'federated' is in the session
  alive,      \* AliveUsersCollection: the reservations that are watched
  finishedStore,  \* Coordinator.finished_reservations_store
  fin,        \* Coordinator.finish_reservation was called
  timer,      \* the thread that checks
  thr         \* requests and purging threads

session == <<polling, clock, unwatched>>
vars == <<made, store, lock, polling, clock, unwatched, alive, finishedStore, fin,
          timer, thr>>

(* The requests that work under the lock of the session.                   *)
Ops == {"status", "poll", "finish", "command"}

Idle == [pc |-> "idle", op |-> "none", r |-> NoReservation, obj |-> "none", todo |-> {}]
IdleTimer == [pc |-> "idle", one |-> NoReservation, todo |-> {}, found |-> {}, expired |-> {}]

Init ==
  /\ made = [r \in Reservations |-> "no"]
  /\ store = [r \in Reservations |-> "none"]
  /\ lock = [r \in Reservations |-> FALSE]
  /\ polling = [r \in Reservations |-> TRUE]
  /\ clock = [r \in Reservations |-> "in time"]
  /\ unwatched = [r \in Reservations |-> FALSE]
  /\ alive = {} /\ finishedStore = {}
  /\ fin = [r \in Reservations |-> FALSE]
  /\ timer = IdleTimer
  /\ thr = [t \in Threads |-> Idle]

-----------------------------------------------------------------------------
(* reserve_experiment(), after the coordinator answered.                   *)

(* The lock of the list of users is held while all of them are checked.    *)
ListIsFree == timer.pc \notin {"checking", "reading"}

AddUser(r) ==
  /\ made[r] = "no" /\ ListIsFree
  /\ made' = [made EXCEPT ![r] = "listed"]
  /\ alive' = alive \cup {r}
  /\ UNCHANGED <<store, lock, session, finishedStore, fin, timer, thr>>

CreateSession(r) ==
  /\ made[r] = "listed"
  /\ made' = [made EXCEPT ![r] = "created"]
  /\ store' = [store EXCEPT ![r] = "empty"]
  /\ UNCHANGED <<lock, session, alive, finishedStore, fin, timer, thr>>

(* modify_session(), without the lock.                                     *)
StoreSession(r) ==
  /\ made[r] = "created"
  /\ made' = [made EXCEPT ![r] = "done"]
  /\ store' = [store EXCEPT ![r] = "full"]
  /\ \E now \in BOOLEAN :
       unwatched' = [unwatched EXCEPT ![r] = now /\ r \in Unwatched]
  /\ UNCHANGED <<lock, polling, clock, alive, finishedStore, fin, timer, thr>>

-----------------------------------------------------------------------------
(* Users and time.                                                         *)

TimePasses(r) ==
  /\ made[r] = "done" /\ polling[r]
  /\ \E now \in {"late", "over"} : /\ clock[r] \notin {now, "over"}
                                 /\ clock' = [clock EXCEPT ![r] = now]
  /\ UNCHANGED <<made, store, lock, polling, unwatched, alive, finishedStore, fin,
                 timer, thr>>

(* The coordinator finishes a reservation because the experiment said so.  *)
ExperimentFinishes(r) ==
  /\ made[r] = "done" /\ ~fin[r]
  /\ fin' = [fin EXCEPT ![r] = TRUE]
  /\ finishedStore' = finishedStore \cup {r}
  /\ UNCHANGED <<made, store, lock, session, alive, timer, thr>>

-----------------------------------------------------------------------------
(* Requests and purging threads.                                           *)

Goto(t, pc) == thr' = [thr EXCEPT ![t].pc = pc]

(* From there on it does not matter which request it was.                  *)
GoOn(t, pc) == thr' = [thr EXCEPT ![t].pc = pc, ![t].op = "none"]

(* A thread is done with a session: a request ends, a purging thread goes  *)
(* on with the next one, if any.                                           *)
Leave(t) ==
  thr' = [thr EXCEPT ![t] = IF thr[t].todo # {}
                            THEN [Idle EXCEPT !.pc = "next", !.todo = thr[t].todo]
                            ELSE Idle]

(* logout() works on the session without its lock.  Which of the others a   *)
(* request is does not matter until it has the lock.                       *)
Ask(c, op, r) ==
  /\ thr[c].pc = "idle" /\ made[r] = "done"
  /\ op = "logout" => store[r] # "empty"
  /\ thr' = [thr EXCEPT ![c] =
       [Idle EXCEPT !.op = op, !.r = r, !.obj = IF op = "logout" THEN store[r] ELSE "none",
                    !.pc = IF op # "logout" THEN "lock"
                           ELSE IF store[r] = "full" THEN "finish" ELSE "forget"]]
  /\ UNCHANGED <<made, store, lock, session, alive, finishedStore, fin, timer>>

NextToPurge(p) ==
  /\ thr[p].pc = "next"
  /\ \E r \in thr[p].todo :
       thr' = [thr EXCEPT ![p] = [Idle EXCEPT !.pc = "lock", !.op = "purge",
                                    !.r = r, !.todo = thr[p].todo \ {r}]]
  /\ UNCHANGED <<made, store, lock, session, alive, finishedStore, fin, timer>>

(* The lock is taken, and what was asked is done.                          *)
Enter(t) ==
  LET r == thr[t].r
  IN /\ lock' = [lock EXCEPT ![r] = TRUE]
     /\ \E op \in (IF t \in Purgers THEN {"purge"} ELSE Ops) :
          thr' = [thr EXCEPT ![t].pc = "act", ![t].op = op, ![t].obj = store[r]]

(* Variant: acquire(False) whose result nobody looks at.                   *)
LockWithoutWaiting(t) ==
  /\ thr[t].pc = "lock"
  /\ LET r == thr[t].r
     IN IF store[r] = "none" THEN Leave(t) /\ UNCHANGED lock
        ELSE Enter(t)
  /\ UNCHANGED <<made, store, session, alive, finishedStore, fin, timer>>

(* Variant: a purging thread skips a session that somebody works on.        *)
LockOrSkip(t) ==
  /\ thr[t].pc = "lock"
  /\ LET r == thr[t].r
     IN IF store[r] = "none" \/ (lock[r] /\ t \in Purgers) THEN Leave(t) /\ UNCHANGED lock
        ELSE ~lock[r] /\ Enter(t)
  /\ UNCHANGED <<made, store, session, alive, finishedStore, fin, timer>>

(* get_session_locking(); a session that is not there is an error.         *)
Lock(t) ==
  /\ thr[t].pc = "lock"
  /\ LET r == thr[t].r
     IN IF store[r] = "none" THEN Leave(t) /\ UNCHANGED lock
        ELSE ~lock[r] /\ Enter(t)
  /\ UNCHANGED <<made, store, session, alive, finishedStore, fin, timer>>

(* Variant: the time that was assigned is not looked at.                    *)
TimeIsUpOnlyIfSilent(r) == clock[r] = "late"

(* The end of is_expired(), which reads 'session_polling'.                  *)
TimeIsUp(r) == clock[r] # "in time"

(* get_reservation_status(): polls without looking whether it is expired.   *)
ActStatus(t) ==
  /\ thr[t].op = "status"
  /\ Goto(t, IF polling[thr[t].r] THEN "read" ELSE "record")
  /\ UNCHANGED alive

(* is_expired() and the tests of poll(); who is not watched only polls.     *)
ActPoll(t) ==
  LET r == thr[t].r
  IN /\ thr[t].op = "poll"
     /\ \/ polling[r] /\ unwatched[r] /\ GoOn(t, "read")
        \/ polling[r] /\ ~unwatched[r] /\ Goto(t, "read")
        \/ ~polling[r] /\ GoOn(t, IF unwatched[r] THEN "release" ELSE "finish")
     /\ UNCHANGED alive

(* finished_experiment() takes the user off the list first.                *)
ActFinish(t) ==
  /\ thr[t].op = "finish" /\ ListIsFree
  /\ alive' = alive \ {thr[t].r}
  /\ GoOn(t, "finish")

(* A command whose laboratory session is gone or whose laboratory fails,   *)
(* and _purge_expired_users().                                             *)
ActEnd(t) ==
  /\ thr[t].op \in {"command", "purge"}
  /\ GoOn(t, "finish")
  /\ UNCHANGED alive

(* The empty session has no reservation_id: KeyError.                      *)
Act(t) ==
  /\ thr[t].pc = "act"
  /\ IF thr[t].obj = "empty" THEN GoOn(t, "release") /\ UNCHANGED alive
     ELSE ActStatus(t) \/ ActPoll(t) \/ ActFinish(t) \/ ActEnd(t)
  /\ UNCHANGED <<made, store, lock, session, finishedStore, fin, timer>>

(* 'session_polling' is read.  When a logout() removed it after the test,   *)
(* that is a KeyError, and the request ends.                                *)
Read(t) ==
  LET r == thr[t].r
  IN /\ thr[t].pc = "read"
     /\ \/ ~polling[r] /\ GoOn(t, "release")
        \/ polling[r] /\ thr[t].op = "poll" /\ TimeIsUp(r) /\ GoOn(t, "finish")
        \/ polling[r] /\ ~(thr[t].op = "poll" /\ TimeIsUp(r)) /\ Goto(t, "write")
     /\ UNCHANGED <<made, store, lock, session, alive, finishedStore, fin, timer>>

(* The user is there.  'session_polling' is written, even if a logout()     *)
(* removed it after it was read.                                           *)
Write(t) ==
  LET r == thr[t].r
  IN /\ thr[t].pc = "write"
     /\ polling' = [polling EXCEPT ![r] = TRUE]
     /\ clock' = [clock EXCEPT ![r] = IF @ = "late" THEN "in time" ELSE @]
     /\ IF thr[t].op = "status" THEN Goto(t, "record") ELSE GoOn(t, "release")
     /\ UNCHANGED <<made, store, lock, unwatched, alive, finishedStore, fin, timer>>

(* get_status() records what the coordinator says of the experiment; the    *)
(* first time that it says "reserved", the expiration time is written.      *)
Record(t) ==
  LET r == thr[t].r
  IN /\ thr[t].pc = "record"
     /\ \E now \in BOOLEAN :
          unwatched' = [unwatched EXCEPT ![r] = @ \/ (now /\ r \in Unwatched)]
     /\ GoOn(t, "release") \/ (polling[r] /\ GoOn(t, "write"))
     /\ UNCHANGED <<made, store, lock, polling, clock, alive, finishedStore, fin, timer>>

AfterFinish(t) == IF thr[t].op = "logout" THEN "forget" ELSE "release"

(* ReservationProcessor.finish(): leaves if it is finished already.         *)
Finish(t) ==
  /\ thr[t].pc = "finish"
  /\ Goto(t, IF polling[thr[t].r] THEN "stop" ELSE AfterFinish(t))
  /\ UNCHANGED <<made, store, lock, session, alive, finishedStore, fin, timer>>

(* _stop_polling() looks once more,                                        *)
StopPolling(t) ==
  /\ thr[t].pc = "stop"
  /\ Goto(t, IF polling[thr[t].r] THEN "pop" ELSE "tell")
  /\ UNCHANGED <<made, store, lock, session, alive, finishedStore, fin, timer>>

(* and removes the key; when two finish(), one of them has a KeyError: a    *)
(* logout() ends there, with the user on the list, and others unlock.       *)
Pop(t) ==
  /\ thr[t].pc = "pop"
  /\ polling' = [polling EXCEPT ![thr[t].r] = FALSE]
  /\ IF polling[thr[t].r] THEN Goto(t, "tell")
     ELSE IF thr[t].op = "logout" THEN Leave(t)
     ELSE Goto(t, "release")
  /\ UNCHANGED <<made, store, lock, clock, unwatched, alive, finishedStore, fin, timer>>

TellCoordinator(t) ==
  /\ thr[t].pc = "tell"
  /\ fin' = [fin EXCEPT ![thr[t].r] = TRUE]
  /\ finishedStore' = finishedStore \cup {thr[t].r}
  /\ Goto(t, AfterFinish(t))
  /\ UNCHANGED <<made, store, lock, session, alive, timer>>

(* Variant: the error of a reservation that is over leaves the lock taken.  *)
ReleaseUnlessFinished(t) ==
  /\ thr[t].pc = "release"
  /\ LET r == thr[t].r
     IN /\ store' = [store EXCEPT ![r] = IF @ = "none" THEN @ ELSE thr[t].obj]
        /\ lock' = [lock EXCEPT ![r] = ~polling[r]]
  /\ Leave(t)
  /\ UNCHANGED <<made, session, alive, finishedStore, fin, timer>>

(* modify_session_unlocking(): the object that was read is stored again.   *)
Release(t) ==
  /\ thr[t].pc = "release"
  /\ LET r == thr[t].r
     IN /\ store' = [store EXCEPT ![r] = IF @ = "none" THEN @ ELSE thr[t].obj]
        /\ lock' = [lock EXCEPT ![r] = FALSE]
  /\ Leave(t)
  /\ UNCHANGED <<made, session, alive, finishedStore, fin, timer>>

(* logout() takes the user off the list last.                              *)
Forget(t) ==
  /\ thr[t].pc = "forget" /\ ListIsFree
  /\ alive' = alive \ {thr[t].r}
  /\ Leave(t)
  /\ UNCHANGED <<made, store, lock, session, finishedStore, fin, timer>>

-----------------------------------------------------------------------------
(* The thread that checks: check_expired_users().                          *)

(* Variant: None, which says that the queue is empty, is taken as one more. *)
TakeFinishedAndNone ==
  /\ timer.pc = "idle"
  /\ timer' = [timer EXCEPT !.pc = "taken", !.found = finishedStore \cup {NoReservation}]
  /\ finishedStore' = {}
  /\ alive' = alive \ finishedStore
  /\ UNCHANGED <<made, store, lock, session, fin, thr>>

(* Variant: those that finished are taken off the list, and not returned.   *)
TakeFinishedOffTheList ==
  /\ timer.pc = "idle"
  /\ timer' = [timer EXCEPT !.pc = "taken"]
  /\ finishedStore' = {}
  /\ alive' = alive \ finishedStore
  /\ UNCHANGED <<made, store, lock, session, fin, thr>>

Reserving == \E r \in Reservations : made[r] \in {"listed", "created"}

TakeFinished ==
  /\ timer.pc = "idle"
  /\ timer' = [timer EXCEPT !.pc = "taken", !.found = finishedStore]
  /\ finishedStore' = {}
  /\ alive' = alive \ finishedStore
  /\ UNCHANGED <<made, store, lock, session, fin, thr>>

StartCheck ==
  /\ timer.pc = "taken"
  /\ ChecksWhileReserving \/ ~Reserving
  /\ timer' = [timer EXCEPT !.pc = "checking", !.todo = alive]
  /\ UNCHANGED <<made, store, lock, session, alive, finishedStore, fin, thr>>

(* The exception leaves check_expired_users() and ends the thread; what was *)
(* found is lost.                                                          *)
Die == timer' = [IdleTimer EXCEPT !.pc = "dead"]

Judge(r, gone) ==
  timer' = [timer EXCEPT !.pc = "checking", !.one = NoReservation, !.todo = @ \ {r},
                         !.expired = IF gone THEN @ \cup {r} ELSE @]

(* is_expired(), without the lock of the session: a user without a session  *)
(* is an exception, the empty session is not polling.                       *)
CheckOne(r) ==
  /\ timer.pc = "checking" /\ r \in timer.todo
  /\ IF store[r] = "none" THEN Die
     ELSE IF store[r] = "full" /\ ~unwatched[r] /\ polling[r]
     THEN timer' = [timer EXCEPT !.pc = "reading", !.one = r]
     ELSE Judge(r, store[r] = "empty" \/ ~unwatched[r])
  /\ UNCHANGED <<made, store, lock, session, alive, finishedStore, fin, thr>>

(* A finish() that removed 'session_polling' since is a KeyError.           *)
ReadOne ==
  /\ timer.pc = "reading"
  /\ IF polling[timer.one] THEN Judge(timer.one, TimeIsUp(timer.one)) ELSE Die
  /\ UNCHANGED <<made, store, lock, session, alive, finishedStore, fin, thr>>

EndCheck ==
  /\ timer.pc = "checking" /\ timer.todo = {}
  /\ alive' = alive \ timer.expired
  /\ timer' = [timer EXCEPT !.pc = "found"]
  /\ UNCHANGED <<made, store, lock, session, finishedStore, fin, thr>>

(* _renew_checker_timer() starts a thread for those that were found.       *)
StartPurge ==
  /\ timer.pc = "found"
  /\ LET gone == timer.found \cup timer.expired
     IN \/ gone = {} /\ UNCHANGED thr
        \/ gone # {} /\ \E p \in Purgers :
             /\ thr[p].pc = "idle"
             /\ thr' = [thr EXCEPT ![p] = [Idle EXCEPT !.pc = "next", !.todo = gone]]
  /\ timer' = IdleTimer
  /\ UNCHANGED <<made, store, lock, session, alive, finishedStore, fin>>

(* delete_expired_sessions(): two hours after anybody needed the session.  *)
DeleteSession(r) ==
  /\ store[r] = "full" /\ fin[r] /\ ~polling[r]
  /\ r \notin alive \cup finishedStore \cup timer.todo \cup timer.found \cup timer.expired
  /\ timer.one # r
  /\ \A t \in Threads : thr[t].r # r /\ r \notin thr[t].todo
  /\ store' = [store EXCEPT ![r] = "none"]
  /\ UNCHANGED <<made, lock, session, alive, finishedStore, fin, timer, thr>>

Reserve(r) == AddUser(r) \/ CreateSession(r) \/ StoreSession(r)
Work(t) ==
  \/ Lock(t) \/ Act(t) \/ Read(t) \/ Write(t) \/ Record(t)
  \/ Finish(t) \/ StopPolling(t) \/ Pop(t) \/ TellCoordinator(t)
  \/ Release(t) \/ Forget(t)
Check == TakeFinished \/ StartCheck \/ (\E r \in Reservations : CheckOne(r))
         \/ ReadOne \/ EndCheck \/ StartPurge

Next ==
  \/ \E r \in Reservations :
       Reserve(r) \/ TimePasses(r) \/ ExperimentFinishes(r) \/ DeleteSession(r)
  \/ \E c \in Clients, op \in {"none", "logout"}, r \in Reservations : Ask(c, op, r)
  \/ \E p \in Purgers : NextToPurge(p)
  \/ \E t \in Threads : Work(t)
  \/ Check

Spec == Init /\ [][Next]_vars

(* Threads run; a lock that is free again and again, of a session or of    *)
(* the list of users, is given to each of those who wait for it.  Users    *)
(* need not do anything.                                                   *)
Fairness ==
  /\ \A r \in Reservations : WF_vars(Reserve(r))
  /\ \A p \in Purgers : WF_vars(NextToPurge(p))
  /\ \A t \in Threads : SF_vars(Work(t))
  /\ WF_vars(Check)

FairSpec == Spec /\ Fairness

-----------------------------------------------------------------------------
(* Properties.                                                             *)

Pcs == {"idle", "next", "lock", "act", "read", "write", "record", "finish", "stop", "pop",
        "tell", "release", "forget"}
ThreadState ==
  [pc : Pcs, op : Ops \cup {"none", "logout", "purge"}, r : Reservations \cup {NoReservation},
   obj : {"none", "empty", "full"}, todo : SUBSET Reservations]
TimerState ==
  [pc : {"idle", "taken", "checking", "reading", "found", "dead"},
   one : Reservations \cup {NoReservation}, todo : SUBSET Reservations,
   found : SUBSET Reservations, expired : SUBSET Reservations]

TypeOK ==
  /\ made \in [Reservations -> {"no", "listed", "created", "done"}]
  /\ store \in [Reservations -> {"none", "empty", "full"}]
  /\ lock \in [Reservations -> BOOLEAN]
  /\ polling \in [Reservations -> BOOLEAN]
  /\ clock \in [Reservations -> {"in time", "late", "over"}]
  /\ unwatched \in [Reservations -> BOOLEAN]
  /\ alive \subseteq Reservations /\ finishedStore \subseteq Reservations
  /\ fin \in [Reservations -> BOOLEAN]
  /\ timer \in TimerState
  /\ thr \in [Threads -> ThreadState]

(* A thread that will finish the reservation.                              *)
ToPurge(t, r) == \/ r \in thr[t].todo
                 \/ thr[t].op = "purge" /\ thr[t].r = r
Finishing(t, r) == thr[t].pc \in {"finish", "stop", "pop", "tell"} /\ thr[t].r = r
InHands(r) == \/ \E t \in Threads : ToPurge(t, r) \/ Finishing(t, r)
              \/ r \in timer.found \cup timer.expired

(* Until the coordinator is told, a reservation is watched or about to be   *)
(* finished: no order of requests, checks and logouts leaves one behind     *)
(* that nobody will look at, not even one whose finish() ends in an error   *)
(* or whose poll undoes a logout, nor does the end of the checks ("normally *)
(* no one would check this user's session status", alive_users.py:34).      *)
Watched ==
  \A r \in Reservations :
    made[r] = "done" /\ store[r] = "full" /\ ~fin[r] => r \in alive \/ InHands(r)

(* The lock of a session is held by the one thread that works under it.    *)
Holds(t, r) ==
  /\ thr[t].r = r /\ thr[t].op # "logout"
  /\ thr[t].pc \in {"act", "read", "write", "record", "finish", "stop", "pop", "tell", "release"}

OneAtATime ==
  \A r \in Reservations, s, t \in Threads :
    Holds(s, r) /\ Holds(t, r) => s = t /\ lock[r]

(* A user who is gone, or whose time is over, is finished, unless he comes *)
(* back before ("this class manages those cases", alive_users.py:39).      *)
Gone(r) == made[r] = "done" /\ polling[r] /\ ~unwatched[r] /\ clock[r] # "in time"
GoneIsFinished == \A r \in Reservations : Gone(r) ~> (fin[r] \/ (~Gone(r) /\ polling[r]))

(* As long as the checks go on, again and again each reservation is finished *)
(* or its user is there: no lock, queue or list loses a user between the    *)
(* check that finds him and the thread that purges him, and a session that  *)
(* stops polling does not stay without an end.                             *)
GoneIsFinishedWhileChecked ==
  \A r \in Reservations :
    []<>(fin[r] \/ (~Gone(r) /\ polling[r]) \/ timer.pc = "dead")

(* When a reservation is over, its session stops polling, and stops again   *)
(* whenever a poll puts 'session_polling' back after a logout, as long as   *)
(* the checks go on.                                                       *)
FinishedIsTold ==
  \A r \in Reservations : []<>(fin[r] => ~polling[r] \/ timer.pc = "dead")

(* Every request ends: no lock is kept by an error.                        *)
RequestsEnd == \A c \in Clients : []<>(thr[c].pc = "idle")

=============================================================================
