---------------------- MODULE ReservationSessionsProofs ----------------------
(***************************************************************************)
(* Whatever the number of reservations, requests and purging threads:      *)
(* while no check of the list of users falls within reserve_experiment(),  *)
(* no reservation that goes on is left without anybody to watch over it,   *)
(* whatever logouts, polls and the end of the checks do in between, and    *)
(* one thread at a time works under the lock of a session.                 *)
(***************************************************************************)
EXTENDS ReservationSessions, TLAPS

Done == {r \in Reservations : made[r] = "done"}

(* What is stored for a reservation follows reserve_experiment(), which    *)
(* puts the user in the list first.                                        *)
MadeInOrder ==
  \A r \in Reservations :
    /\ made[r] \in {"no", "listed"} => store[r] = "none"
    /\ made[r] = "created" => store[r] = "empty"
    /\ made[r] = "done" => store[r] \in {"none", "full"}
    /\ made[r] \in {"listed", "created"} => r \in alive
    /\ r \in alive => made[r] # "no"
    /\ r \in alive /\ made[r] = "done" => store[r] = "full"

(* The thread that checks only finds reservations that were made, and the  *)
(* session of each of them; who is expired is still on the list, and what  *)
(* comes from the queue is over.                                           *)
TimerKnows ==
  /\ timer.pc = "idle" => timer = IdleTimer
  /\ timer.pc = "taken" => timer.expired = {}
  /\ timer.pc = "reading" => timer.one \in timer.todo
  /\ timer.pc \in {"checking", "reading"} => timer.todo \cup timer.expired \subseteq alive
  /\ timer.todo \subseteq Done /\ timer.found \subseteq Done /\ timer.expired \subseteq Done
  /\ finishedStore \subseteq Done
  /\ \A r \in finishedStore \cup timer.found : fin[r]
  /\ \A r \in timer.todo : store[r] = "full"

(* What the threads work on.                                               *)
ThreadKnows(t) ==
  /\ thr[t].todo \subseteq Done
  /\ t \in Clients \/ thr[t].pc = "idle" => thr[t].todo = {}
  /\ thr[t].pc \notin {"idle", "next"} => thr[t].r \in Done
  /\ thr[t].pc \notin {"idle", "next", "lock", "forget"} => thr[t].obj = "full"
  /\ thr[t].op = "purge" => thr[t].pc \in {"lock", "act"} /\ t \in Purgers
  /\ thr[t].op = "logout" => thr[t].pc \in {"finish", "stop", "pop", "tell", "forget"}
  /\ thr[t].pc = "forget" => thr[t].op = "logout"
ThreadsKnow == \A t \in Threads : ThreadKnows(t)

(* Whoever removes 'session_polling' tells the coordinator next, whether or *)
(* not a poll puts it back meanwhile; and a logout takes the user off the  *)
(* list only when that is done or about to be done.                        *)
Telling(t, r) == thr[t].pc = "tell" /\ thr[t].r = r
Over(r) == fin[r] \/ \E t \in Threads : Telling(t, r)
Ended(r) == store[r] = "none" \/ Over(r)
Told == \A r \in Reservations : polling[r] \/ Over(r)
ForgetsLast == \A t \in Threads, r \in Reservations :
                 thr[t].pc = "forget" /\ thr[t].r = r => Ended(r)

IInv == /\ TypeOK /\ MadeInOrder /\ TimerKnows /\ ThreadsKnow /\ Told /\ ForgetsLast
        /\ Watched /\ OneAtATime

-----------------------------------------------------------------------------
(* What a step does to the thread that takes it.                           *)

Becomes(t, pc, op, r, obj, todo) ==
  /\ thr' \in [Threads -> ThreadState]
  /\ \A u \in Threads : u # t => thr'[u] = thr[u]
  /\ thr'[t].pc = pc /\ thr'[t].op = op /\ thr'[t].r = r
  /\ thr'[t].obj = obj /\ thr'[t].todo = todo

LEMMA ThreadBecomes ==
  ASSUME thr \in [Threads -> ThreadState], NEW t \in Threads, NEW s \in ThreadState,
         thr' = [thr EXCEPT ![t] = s]
  PROVE  Becomes(t, s.pc, s.op, s.r, s.obj, s.todo)
  BY DEF Becomes

LEMMA GotoBecomes ==
  ASSUME thr \in [Threads -> ThreadState], NEW t \in Threads, NEW pc \in Pcs, Goto(t, pc)
  PROVE  Becomes(t, pc, thr[t].op, thr[t].r, thr[t].obj, thr[t].todo)
<1> DEFINE s == [thr[t] EXCEPT !.pc = pc]
<1>1. /\ s \in ThreadState /\ s.pc = pc /\ s.op = thr[t].op /\ s.r = thr[t].r
      /\ s.obj = thr[t].obj /\ s.todo = thr[t].todo
  BY DEF ThreadState
<1>2. thr' = [thr EXCEPT ![t] = s]
  BY DEF Goto
<1>3. Becomes(t, s.pc, s.op, s.r, s.obj, s.todo)
  <2> HIDE DEF s
  <2> QED BY <1>1, <1>2, ThreadBecomes
<1>4. QED
  BY <1>1, <1>3

LEMMA GoOnBecomes ==
  ASSUME thr \in [Threads -> ThreadState], NEW t \in Threads, NEW pc \in Pcs, GoOn(t, pc)
  PROVE  Becomes(t, pc, "none", thr[t].r, thr[t].obj, thr[t].todo)
<1> DEFINE s == [thr[t] EXCEPT !.pc = pc, !.op = "none"]
<1>1. /\ s \in ThreadState /\ s.pc = pc /\ s.op = "none" /\ s.r = thr[t].r
      /\ s.obj = thr[t].obj /\ s.todo = thr[t].todo
  BY DEF ThreadState
<1>2. thr' = [thr EXCEPT ![t] = s]
  BY DEF GoOn
<1>3. Becomes(t, s.pc, s.op, s.r, s.obj, s.todo)
  <2> HIDE DEF s
  <2> QED BY <1>1, <1>2, ThreadBecomes
<1>4. QED
  BY <1>1, <1>3

Left(t) ==
  IF thr[t].todo # {} THEN Becomes(t, "next", "none", NoReservation, "none", thr[t].todo)
                      ELSE Becomes(t, "idle", "none", NoReservation, "none", {})

LEMMA LeaveBecomes ==
  ASSUME thr \in [Threads -> ThreadState], NEW t \in Threads, Leave(t)
  PROVE  Left(t)
<1> DEFINE s == IF thr[t].todo # {} THEN [Idle EXCEPT !.pc = "next", !.todo = thr[t].todo]
                                    ELSE Idle
<1>1. /\ s \in ThreadState /\ s.pc = (IF thr[t].todo # {} THEN "next" ELSE "idle")
      /\ s.op = "none" /\ s.r = NoReservation /\ s.obj = "none"
      /\ s.todo = (IF thr[t].todo # {} THEN thr[t].todo ELSE {})
  BY DEF ThreadState, Idle, Pcs
<1>2. thr' = [thr EXCEPT ![t] = s]
  BY DEF Leave
<1>3. Becomes(t, s.pc, s.op, s.r, s.obj, s.todo)
  <2> HIDE DEF s
  <2> QED BY <1>1, <1>2, ThreadBecomes
<1>4. QED
  BY <1>1, <1>3 DEF Left

LEMMA AskBecomes ==
  ASSUME thr \in [Threads -> ThreadState], store \in [Reservations -> {"none", "empty", "full"}],
         NEW c \in Clients, NEW op \in {"none", "logout"}, NEW r \in Reservations, Ask(c, op, r)
  PROVE  IF op = "logout"
         THEN Becomes(c, IF store[r] = "full" THEN "finish" ELSE "forget", op, r, store[r], {})
         ELSE Becomes(c, "lock", op, r, "none", {})
<1> DEFINE pc == IF op # "logout" THEN "lock" ELSE IF store[r] = "full" THEN "finish" ELSE "forget"
           obj == IF op = "logout" THEN store[r] ELSE "none"
           s == [Idle EXCEPT !.op = op, !.r = r, !.obj = obj, !.pc = pc]
<1>1. /\ s \in ThreadState /\ s.pc = pc /\ s.op = op /\ s.r = r /\ s.obj = obj
      /\ s.todo = {}
  BY DEF ThreadState, Idle, Pcs
<1>2. thr' = [thr EXCEPT ![c] = s] /\ c \in Threads
  BY DEF Ask, Threads
<1>3. Becomes(c, s.pc, s.op, s.r, s.obj, s.todo)
  <2> HIDE DEF s
  <2> QED BY <1>1, <1>2, ThreadBecomes
<1>4. QED
  BY <1>1, <1>3

LEMMA NextToPurgeBecomes ==
  ASSUME thr \in [Threads -> ThreadState], NEW p \in Purgers, NextToPurge(p)
  PROVE  \E r \in thr[p].todo : Becomes(p, "lock", "purge", r, "none", thr[p].todo \ {r})
<1>1. p \in Threads
  BY DEF Threads
<1>2. PICK r \in thr[p].todo :
        thr' = [thr EXCEPT ![p] = [Idle EXCEPT !.pc = "lock", !.op = "purge",
                                     !.r = r, !.todo = thr[p].todo \ {r}]]
  BY DEF NextToPurge
<1> DEFINE s == [Idle EXCEPT !.pc = "lock", !.op = "purge", !.r = r,
                             !.todo = thr[p].todo \ {r}]
<1>3. /\ s \in ThreadState /\ s.pc = "lock" /\ s.op = "purge" /\ s.r = r
      /\ s.obj = "none" /\ s.todo = thr[p].todo \ {r}
  BY <1>1 DEF ThreadState, Idle, Pcs
<1>4. Becomes(p, s.pc, s.op, s.r, s.obj, s.todo)
  <2> HIDE DEF s
  <2> QED BY <1>1, <1>2, <1>3, ThreadBecomes DEF s
<1>5. QED
  BY <1>3, <1>4

LEMMA LockBecomes ==
  ASSUME thr \in [Threads -> ThreadState], store \in [Reservations -> {"none", "empty", "full"}],
         NEW t \in Threads, thr[t].r \in Reservations, Lock(t)
  PROVE  IF store[thr[t].r] = "none" THEN Left(t)
         ELSE \E op \in (IF t \in Purgers THEN {"purge"} ELSE Ops) :
                Becomes(t, "act", op, thr[t].r, store[thr[t].r], thr[t].todo)
<1>1. CASE store[thr[t].r] = "none"
  BY <1>1, LeaveBecomes DEF Lock
<1>2. CASE store[thr[t].r] # "none"
  <2> DEFINE s(op) == [thr[t] EXCEPT !.pc = "act", !.op = op, !.obj = store[thr[t].r]]
  <2>1. PICK op \in (IF t \in Purgers THEN {"purge"} ELSE Ops) :
          thr' = [thr EXCEPT ![t] = s(op)]
    BY <1>2 DEF Lock, Enter
  <2>2. /\ s(op) \in ThreadState /\ s(op).pc = "act" /\ s(op).op = op
        /\ s(op).r = thr[t].r /\ s(op).obj = store[thr[t].r] /\ s(op).todo = thr[t].todo
    BY DEF ThreadState, Pcs
  <2>3. Becomes(t, s(op).pc, s(op).op, s(op).r, s(op).obj, s(op).todo)
    <3> HIDE DEF s
    <3> QED BY <2>1, <2>2, ThreadBecomes
  <2>4. QED
    BY <1>2, <2>2, <2>3
<1>3. QED
  BY <1>1, <1>2

LEMMA StartPurgeBecomes ==
  ASSUME thr \in [Threads -> ThreadState], StartPurge,
         timer.found \cup timer.expired \subseteq Reservations
  PROVE  \/ timer.found \cup timer.expired = {} /\ UNCHANGED thr
         \/ \E p \in Purgers :
              /\ thr[p].pc = "idle"
              /\ Becomes(p, "next", "none", NoReservation, "none", timer.found \cup timer.expired)
<1> DEFINE gone == timer.found \cup timer.expired
<1>1. CASE gone = {} /\ UNCHANGED thr
  BY <1>1
<1>2. CASE \E p \in Purgers :
             /\ thr[p].pc = "idle"
             /\ thr' = [thr EXCEPT ![p] = [Idle EXCEPT !.pc = "next", !.todo = gone]]
  <2>1. PICK p \in Purgers :
             /\ thr[p].pc = "idle"
             /\ thr' = [thr EXCEPT ![p] = [Idle EXCEPT !.pc = "next", !.todo = gone]]
    BY <1>2
  <2> DEFINE s == [Idle EXCEPT !.pc = "next", !.todo = gone]
  <2>2. /\ s \in ThreadState /\ s.pc = "next" /\ s.op = "none" /\ s.r = NoReservation
        /\ s.obj = "none" /\ s.todo = gone
    BY DEF ThreadState, Idle, Pcs
  <2>3. thr' = [thr EXCEPT ![p] = s] /\ p \in Threads
    BY <2>1 DEF Threads
  <2>4. Becomes(p, s.pc, s.op, s.r, s.obj, s.todo)
    <3> HIDE DEF s
    <3> QED BY <2>2, <2>3, ThreadBecomes
  <2>5. QED
    BY <2>1, <2>2, <2>4
<1>3. QED
  BY <1>1, <1>2 DEF StartPurge

(* What a step of the check may do to the thread that checks.              *)
LEMMA CheckTypes ==
  ASSUME timer \in TimerState, NEW r \in Reservations
  PROVE  /\ Die => timer' \in TimerState
         /\ \A gone \in BOOLEAN : Judge(r, gone) => timer' \in TimerState
         /\ timer' = [timer EXCEPT !.pc = "reading", !.one = r] => timer' \in TimerState
<1>1. Die => timer' \in TimerState
  BY DEF Die, IdleTimer, TimerState
<1>2. ASSUME NEW gone \in BOOLEAN, Judge(r, gone) PROVE timer' \in TimerState
  BY <1>2 DEF Judge, TimerState
<1>3. timer' = [timer EXCEPT !.pc = "reading", !.one = r] => timer' \in TimerState
  BY DEF TimerState
<1>4. QED
  BY <1>1, <1>2, <1>3

(* A user is judged, is looked at once more, or ends the checks.           *)
LEMMA CheckOneSteps ==
  ASSUME NEW r \in Reservations, CheckOne(r)
  PROVE  \/ Die \/ Judge(r, TRUE) \/ Judge(r, FALSE)
         \/ timer' = [timer EXCEPT !.pc = "reading", !.one = r]
<1> DEFINE gone == store[r] = "empty" \/ ~unwatched[r]
<1>1. \/ Die \/ Judge(r, gone)
      \/ timer' = [timer EXCEPT !.pc = "reading", !.one = r]
  BY DEF CheckOne
<1>2. gone = TRUE \/ gone = FALSE
  OBVIOUS
<1> HIDE DEF gone
<1>3. QED
  BY <1>1, <1>2

(* Every step keeps the types.                                             *)
LEMMA TypesKept ==
  ASSUME SessionsAssumption, TypeOK, TimerKnows, ThreadsKnow, [Next]_vars
  PROVE  TypeOK'
<1> USE SessionsAssumption DEF TypeOK, Threads, Ops, Pcs, IdleTimer, session,
             Becomes, Left, Done, TimerKnows, ThreadsKnow, ThreadKnows
<1>1. ASSUME NEW r \in Reservations, AddUser(r) PROVE TypeOK'
  BY <1>1, ZenonT(60) DEF AddUser
<1>2. ASSUME NEW r \in Reservations, CreateSession(r) PROVE TypeOK'
  BY <1>2 DEF CreateSession
<1>3. ASSUME NEW r \in Reservations, StoreSession(r) PROVE TypeOK'
  BY <1>3, ZenonT(60) DEF StoreSession
<1>4. ASSUME NEW r \in Reservations, TimePasses(r) PROVE TypeOK'
  <2>1. PICK now \in {"late", "over"} : clock' = [clock EXCEPT ![r] = now]
    BY <1>4 DEF TimePasses
  <2>2. clock' \in [Reservations -> {"in time", "late", "over"}]
    BY <2>1
  <2>3. QED
    BY <1>4, <2>2 DEF TimePasses
<1>5. ASSUME NEW r \in Reservations, ExperimentFinishes(r) PROVE TypeOK'
  BY <1>5, ZenonT(60) DEF ExperimentFinishes
<1>6. ASSUME NEW r \in Reservations, DeleteSession(r) PROVE TypeOK'
  BY <1>6 DEF DeleteSession
<1>7. ASSUME NEW c \in Clients, NEW op \in {"none", "logout"}, NEW r \in Reservations,
           Ask(c, op, r) PROVE TypeOK'
  <2>1. thr' \in [Threads -> ThreadState]
    <3> HIDE DEF Threads, Ops, Pcs, ThreadKnows
    <3> QED BY <1>7, AskBecomes
  <2>2. QED
    BY <1>7, <2>1 DEF Ask
<1>8. ASSUME NEW p \in Purgers, NextToPurge(p) PROVE TypeOK'
  BY <1>8, NextToPurgeBecomes, ZenonT(60) DEF NextToPurge
<1>9. ASSUME NEW t \in Threads, Lock(t) PROVE TypeOK'
  <2>1. thr[t].pc = "lock" /\ thr[t].r \in Reservations
    BY <1>9 DEF Lock, Enter
  <2>2. thr' \in [Threads -> ThreadState]
    <3> HIDE DEF Threads, Ops, Pcs, ThreadKnows, Done
    <3> QED BY <1>9, <2>1, LockBecomes
  <2>3. lock' \in [Reservations -> BOOLEAN]
    <3>1. lock' = lock \/ lock' = [lock EXCEPT ![thr[t].r] = TRUE]
      BY <1>9 DEF Lock, Enter
    <3>2. QED
      BY <3>1, ZenonT(60)
  <2>4. QED
    BY <1>9, <2>2, <2>3 DEF Lock, Enter
<1>10. ASSUME NEW t \in Threads, Act(t) PROVE TypeOK'
  <2>0. /\ thr[t].pc = "act" /\ thr[t].obj = "full"
        /\ UNCHANGED <<made, store, lock, polling, clock, unwatched, finishedStore, fin, timer>>
    BY <1>10 DEF Act
  <2>1. PICK pc \in {"release", "finish", "read", "record"} : GoOn(t, pc) \/ Goto(t, pc)
    BY <1>10, <2>0 DEF Act, ActStatus, ActPoll, ActFinish, ActEnd
  <2>2. thr' \in [Threads -> ThreadState]
    <3>1. pc \in Pcs
      BY <2>1
    <3>2. QED
      <4> HIDE DEF Threads, Ops, Pcs, ThreadKnows
      <4> QED BY <2>1, <3>1, GoOnBecomes, GotoBecomes
  <2>3. alive' \subseteq alive
    BY <1>10, <2>0, ZenonT(60) DEF Act, ActStatus, ActPoll, ActFinish, ActEnd
  <2>4. QED
    BY <2>0, <2>2, <2>3
<1>11. ASSUME NEW t \in Threads, Read(t) PROVE TypeOK'
  <2>1. PICK pc \in {"release", "finish", "write"} : GoOn(t, pc) \/ Goto(t, pc)
    BY <1>11 DEF Read
  <2>2. thr' \in [Threads -> ThreadState]
    <3>1. pc \in Pcs
      BY <2>1
    <3>2. QED
      <4> HIDE DEF Threads, Ops, Pcs, ThreadKnows
      <4> QED BY <2>1, <3>1, GoOnBecomes, GotoBecomes
  <2>3. QED
    BY <1>11, <2>2 DEF Read
<1>12. ASSUME NEW t \in Threads, Write(t) PROVE TypeOK'
  <2>1. PICK pc \in {"release", "record"} : GoOn(t, pc) \/ Goto(t, pc)
    BY <1>12 DEF Write
  <2>2. thr' \in [Threads -> ThreadState]
    <3>1. pc \in Pcs
      BY <2>1
    <3>2. QED
      <4> HIDE DEF Threads, Ops, Pcs, ThreadKnows
      <4> QED BY <2>1, <3>1, GoOnBecomes, GotoBecomes
  <2>3. thr[t].r \in Reservations
    BY <1>12 DEF Write
  <2>4. clock' \in [Reservations -> {"in time", "late", "over"}]
    <3>1. clock' = [clock EXCEPT ![thr[t].r] = IF @ = "late" THEN "in time" ELSE @]
      BY <1>12 DEF Write
    <3>2. QED
      BY <2>3, <3>1, ZenonT(60)
  <2>5. polling' \in [Reservations -> BOOLEAN]
    <3>1. polling' = [polling EXCEPT ![thr[t].r] = TRUE]
      BY <1>12 DEF Write
    <3>2. QED
      BY <2>3, <3>1, ZenonT(60)
  <2>6. QED
    BY <1>12, <2>2, <2>4, <2>5 DEF Write
<1>13. ASSUME NEW t \in Threads, Record(t) PROVE TypeOK'
  <2>1. PICK pc \in {"release", "write"} : GoOn(t, pc)
    BY <1>13 DEF Record
  <2>2. thr' \in [Threads -> ThreadState]
    <3>1. pc \in Pcs
      BY <2>1
    <3>2. QED
      <4> HIDE DEF Threads, Ops, Pcs, ThreadKnows
      <4> QED BY <2>1, <3>1, GoOnBecomes
  <2>3. unwatched' \in [Reservations -> BOOLEAN]
    <3>1. PICK now \in BOOLEAN :
            unwatched' = [unwatched EXCEPT ![thr[t].r] = @ \/ (now /\ thr[t].r \in Unwatched)]
      BY <1>13 DEF Record
    <3>2. QED
      BY <3>1
  <2>4. QED
    BY <1>13, <2>2, <2>3 DEF Record
<1>14. ASSUME NEW t \in Threads, Finish(t) PROVE TypeOK'
  BY <1>14, GotoBecomes DEF Finish, AfterFinish
<1>15. ASSUME NEW t \in Threads, StopPolling(t) PROVE TypeOK'
  <2>1. PICK pc \in {"pop", "tell"} : Goto(t, pc)
    BY <1>15 DEF StopPolling
  <2>2. thr' \in [Threads -> ThreadState]
    <3>1. pc \in Pcs
      BY <2>1
    <3>2. QED
      <4> HIDE DEF Threads, Ops, Pcs, ThreadKnows
      <4> QED BY <2>1, <3>1, GotoBecomes
  <2>3. QED
    BY <1>15, <2>2 DEF StopPolling
<1>16. ASSUME NEW t \in Threads, Pop(t) PROVE TypeOK'
  <2>1. Leave(t) \/ \E pc \in {"release", "tell"} : Goto(t, pc)
    BY <1>16 DEF Pop
  <2>2. thr' \in [Threads -> ThreadState]
    <3>1. CASE Leave(t)
      BY <3>1, LeaveBecomes
    <3>2. ASSUME NEW pc \in {"release", "tell"}, Goto(t, pc) PROVE thr' \in [Threads -> ThreadState]
      <4>1. pc \in Pcs
        BY <3>2
      <4>2. QED
        <5> HIDE DEF Threads, Ops, Pcs, ThreadKnows
        <5> QED BY <3>2, <4>1, GotoBecomes
    <3>3. QED
      BY <2>1, <3>1, <3>2
  <2>3. polling' \in [Reservations -> BOOLEAN]
    <3>1. polling' = [polling EXCEPT ![thr[t].r] = FALSE] /\ thr[t].r \in Reservations
      BY <1>16 DEF Pop
    <3>2. QED
      BY <3>1, ZenonT(60)
  <2>4. QED
    BY <1>16, <2>2, <2>3 DEF Pop
<1>17. ASSUME NEW t \in Threads, TellCoordinator(t) PROVE TypeOK'
  <2>1. PICK pc \in {"release", "forget"} : Goto(t, pc)
    BY <1>17 DEF TellCoordinator, AfterFinish
  <2>2. thr' \in [Threads -> ThreadState]
    <3>1. pc \in Pcs
      BY <2>1
    <3>2. QED
      <4> HIDE DEF Threads, Ops, Pcs, ThreadKnows
      <4> QED BY <2>1, <3>1, GotoBecomes
  <2>3. thr[t].r \in Reservations
    BY <1>17 DEF TellCoordinator
  <2>4. fin' \in [Reservations -> BOOLEAN] /\ finishedStore' \subseteq Reservations
    <3>1. /\ fin' = [fin EXCEPT ![thr[t].r] = TRUE]
          /\ finishedStore' = finishedStore \cup {thr[t].r}
      BY <1>17 DEF TellCoordinator
    <3> HIDE DEF ThreadKnows, TimerKnows
    <3> QED BY <2>3, <3>1
  <2>5. QED
    BY <1>17, <2>2, <2>4 DEF TellCoordinator
<1>18. ASSUME NEW t \in Threads, Release(t) PROVE TypeOK'
  BY <1>18, LeaveBecomes DEF Release
<1>19. ASSUME NEW t \in Threads, Forget(t) PROVE TypeOK'
  BY <1>19, LeaveBecomes DEF Forget
<1>20. ASSUME NEW r \in Reservations, CheckOne(r) PROVE TypeOK'
  BY <1>20, CheckTypes, CheckOneSteps DEF CheckOne
<1>21. ASSUME ReadOne PROVE TypeOK'
  <2>1. timer.one \in Reservations
    BY <1>21 DEF ReadOne
  <2>2. Die \/ Judge(timer.one, TRUE) \/ Judge(timer.one, FALSE)
    BY <1>21 DEF ReadOne, TimeIsUp
  <2>3. QED
    BY <1>21, <2>1, <2>2, CheckTypes DEF ReadOne
<1>22. ASSUME TakeFinished PROVE TypeOK'
  <2>1. timer' \in TimerState
    BY <1>22 DEF TakeFinished, TimerState
  <2>2. QED
    BY <1>22, <2>1 DEF TakeFinished
<1>23. ASSUME StartCheck PROVE TypeOK'
  <2>1. timer' \in TimerState
    BY <1>23 DEF StartCheck, TimerState
  <2>2. QED
    BY <1>23, <2>1 DEF StartCheck
<1>24. ASSUME EndCheck PROVE TypeOK'
  <2>1. timer' \in TimerState
    BY <1>24 DEF EndCheck, TimerState
  <2>2. QED
    BY <1>24, <2>1 DEF EndCheck
<1>25. ASSUME StartPurge PROVE TypeOK'
  <2>1. timer' \in TimerState
    BY <1>25 DEF StartPurge, TimerState
  <2>2. thr' \in [Threads -> ThreadState]
    BY <1>25, StartPurgeBecomes, ZenonT(60)
  <2>3. QED
    BY <1>25, <2>1, <2>2 DEF StartPurge
<1>26. CASE UNCHANGED vars
  BY <1>26 DEF vars
<1> HIDE DEF TypeOK, Threads, Ops, Pcs, IdleTimer, session,
             Becomes, Left, Done, TimerKnows, ThreadsKnow, ThreadKnows
<1>27. QED
  BY <1>1, <1>2, <1>3, <1>4, <1>5, <1>6, <1>7, <1>8, <1>9, <1>10,
     <1>11, <1>12, <1>13, <1>14, <1>15, <1>16, <1>17, <1>18, <1>19,
     <1>20, <1>21, <1>22, <1>23, <1>24, <1>25, <1>26
  DEF Next, Reserve, Work, Check

(* What is stored and listed follows reserve_experiment().                 *)
LEMMA MadeInOrderKept ==
  ASSUME ~ChecksWhileReserving, TypeOK, MadeInOrder, TimerKnows, ThreadsKnow, [Next]_vars
  PROVE  MadeInOrder'
<1> USE ~ChecksWhileReserving DEF TypeOK, MadeInOrder, TimerKnows, ThreadsKnow,
             ThreadKnows, Done, session
<1>1. ASSUME NEW r \in Reservations, AddUser(r) PROVE MadeInOrder'
  <2>1. /\ made[r] = "no" /\ made' = [made EXCEPT ![r] = "listed"]
        /\ alive' = alive \cup {r} /\ store' = store
    BY <1>1 DEF AddUser
  <2> HIDE DEF TimerKnows, ThreadsKnow
  <2> QED BY <2>1
<1>2. ASSUME NEW r \in Reservations, CreateSession(r) PROVE MadeInOrder'
  <2>1. /\ made[r] = "listed" /\ made' = [made EXCEPT ![r] = "created"]
        /\ store' = [store EXCEPT ![r] = "empty"] /\ alive' = alive
    BY <1>2 DEF CreateSession
  <2> HIDE DEF TimerKnows, ThreadsKnow
  <2> QED BY <2>1
<1>3. ASSUME NEW r \in Reservations, StoreSession(r) PROVE MadeInOrder'
  <2>1. /\ made[r] = "created" /\ made' = [made EXCEPT ![r] = "done"]
        /\ store' = [store EXCEPT ![r] = "full"] /\ alive' = alive
    BY <1>3 DEF StoreSession
  <2> HIDE DEF TimerKnows, ThreadsKnow
  <2> QED BY <2>1
<1>4. ASSUME NEW r \in Reservations, TimePasses(r) PROVE MadeInOrder'
  <2>1. made' = made /\ store' = store /\ alive' = alive
    BY <1>4 DEF TimePasses
  <2> HIDE DEF TimerKnows, ThreadsKnow
  <2> QED BY <2>1
<1>5. ASSUME NEW r \in Reservations, ExperimentFinishes(r) PROVE MadeInOrder'
  <2>1. made' = made /\ store' = store /\ alive' = alive
    BY <1>5 DEF ExperimentFinishes
  <2> HIDE DEF TimerKnows, ThreadsKnow
  <2> QED BY <2>1
<1>6. ASSUME NEW r \in Reservations, DeleteSession(r) PROVE MadeInOrder'
  <2>1. /\ store[r] = "full" /\ store' = [store EXCEPT ![r] = "none"]
        /\ r \notin alive /\ alive' = alive /\ made' = made
    BY <1>6 DEF DeleteSession
  <2> HIDE DEF TimerKnows, ThreadsKnow
  <2> QED BY <2>1, ZenonT(60)
<1>7. ASSUME NEW c \in Clients, NEW op \in {"none", "logout"}, NEW r \in Reservations,
           Ask(c, op, r) PROVE MadeInOrder'
  BY <1>7, AskBecomes, ZenonT(60) DEF Ask
<1>8. ASSUME NEW p \in Purgers, NextToPurge(p) PROVE MadeInOrder'
  BY <1>8, NextToPurgeBecomes DEF NextToPurge
<1>9. ASSUME NEW t \in Threads, Lock(t) PROVE MadeInOrder'
  BY <1>9, LockBecomes DEF Lock, Enter
<1>10. ASSUME NEW t \in Threads, Act(t) PROVE MadeInOrder'
  <2>1. /\ made' = made /\ store' = store /\ thr[t].r \in Done
        /\ alive' = alive \/ alive' = alive \ {thr[t].r}
    BY <1>10, ZenonT(60) DEF Act, ActStatus, ActPoll, ActFinish, ActEnd
  <2> HIDE DEF TimerKnows, ThreadsKnow
  <2> QED BY <2>1
<1>11. ASSUME NEW t \in Threads, Read(t) PROVE MadeInOrder'
  <2>1. made' = made /\ store' = store /\ alive' = alive
    BY <1>11 DEF Read
  <2> HIDE DEF TimerKnows, ThreadsKnow
  <2> QED BY <2>1
<1>12. ASSUME NEW t \in Threads, Write(t) PROVE MadeInOrder'
  <2>1. made' = made /\ store' = store /\ alive' = alive
    BY <1>12 DEF Write
  <2> HIDE DEF TimerKnows, ThreadsKnow
  <2> QED BY <2>1
<1>13. ASSUME NEW t \in Threads, Record(t) PROVE MadeInOrder'
  <2>1. made' = made /\ store' = store /\ alive' = alive
    BY <1>13 DEF Record
  <2> HIDE DEF TimerKnows, ThreadsKnow
  <2> QED BY <2>1
<1>14. ASSUME NEW t \in Threads, Pop(t) PROVE MadeInOrder'
  <2>1. made' = made /\ store' = store /\ alive' = alive
    BY <1>14 DEF Pop
  <2> HIDE DEF TimerKnows, ThreadsKnow
  <2> QED BY <2>1
<1>15. ASSUME NEW t \in Threads, Finish(t) PROVE MadeInOrder'
  <2>1. made' = made /\ store' = store /\ alive' = alive
    BY <1>15 DEF Finish
  <2> HIDE DEF TimerKnows, ThreadsKnow
  <2> QED BY <2>1
<1>16. ASSUME NEW t \in Threads, StopPolling(t) PROVE MadeInOrder'
  <2>1. made' = made /\ store' = store /\ alive' = alive
    BY <1>16 DEF StopPolling
  <2> HIDE DEF TimerKnows, ThreadsKnow
  <2> QED BY <2>1
<1>17. ASSUME NEW t \in Threads, TellCoordinator(t) PROVE MadeInOrder'
  BY <1>17, GotoBecomes DEF TellCoordinator, AfterFinish
<1>18. ASSUME NEW t \in Threads, Release(t) PROVE MadeInOrder'
  BY <1>18, LeaveBecomes, ZenonT(60) DEF Release
<1>19. ASSUME NEW t \in Threads, Forget(t) PROVE MadeInOrder'
  BY <1>19, LeaveBecomes DEF Forget
<1>20. ASSUME NEW r \in Reservations, CheckOne(r) PROVE MadeInOrder'
  BY <1>20 DEF CheckOne
<1>21. ASSUME ReadOne PROVE MadeInOrder'
  <2>1. made' = made /\ store' = store /\ alive' = alive
    BY <1>21 DEF ReadOne
  <2> HIDE DEF TimerKnows, ThreadsKnow
  <2> QED BY <2>1
<1>22. ASSUME TakeFinished PROVE MadeInOrder'
  BY <1>22 DEF TakeFinished
<1>23. ASSUME StartCheck PROVE MadeInOrder'
  BY <1>23 DEF StartCheck
<1>24. ASSUME EndCheck PROVE MadeInOrder'
  BY <1>24 DEF EndCheck
<1>25. ASSUME StartPurge PROVE MadeInOrder'
  BY <1>25, StartPurgeBecomes DEF StartPurge
<1>26. CASE UNCHANGED vars
  BY <1>26 DEF vars
<1> HIDE DEF TypeOK, MadeInOrder, TimerKnows, ThreadsKnow,
             ThreadKnows, Done, session
<1>27. QED
  BY <1>1, <1>2, <1>3, <1>4, <1>5, <1>6, <1>7, <1>8, <1>9, <1>10,
     <1>11, <1>12, <1>13, <1>14, <1>15, <1>16, <1>17, <1>18, <1>19,
     <1>20, <1>21, <1>22, <1>23, <1>24, <1>25, <1>26
  DEF Next, Reserve, Work, Check

(* The checker always finds the sessions that it looks for.                *)
LEMMA TimerKnowsKept ==
  ASSUME ~ChecksWhileReserving, TypeOK, MadeInOrder, TimerKnows, ThreadsKnow, [Next]_vars
  PROVE  TimerKnows'
<1> USE ~ChecksWhileReserving DEF TypeOK, MadeInOrder, TimerKnows, ThreadsKnow,
             ThreadKnows, Done, session, IdleTimer
<1>1. ASSUME NEW r \in Reservations, AddUser(r) PROVE TimerKnows'
  <2>1. /\ timer.pc \notin {"checking", "reading"} /\ made' = [made EXCEPT ![r] = "listed"]
        /\ made[r] = "no" /\ UNCHANGED <<store, timer, finishedStore, fin>>
    BY <1>1 DEF AddUser, ListIsFree
  <2>2. Done' = Done
    BY <2>1
  <2> HIDE DEF MadeInOrder, ThreadsKnow, IdleTimer, Done, TypeOK
  <2> QED BY <2>1, <2>2
<1>2. ASSUME NEW r \in Reservations, CreateSession(r) PROVE TimerKnows'
  <2>1. /\ made' = [made EXCEPT ![r] = "created"] /\ store' = [store EXCEPT ![r] = "empty"]
        /\ made[r] = "listed" /\ UNCHANGED <<alive, timer, finishedStore, fin>>
    BY <1>2 DEF CreateSession
  <2>2. Done' = Done /\ \A q \in timer.todo : store'[q] = store[q]
    BY <2>1
  <2> HIDE DEF MadeInOrder, ThreadsKnow, IdleTimer, Done, TypeOK
  <2> QED BY <2>1, <2>2
<1>3. ASSUME NEW r \in Reservations, StoreSession(r) PROVE TimerKnows'
  <2>1. /\ made' = [made EXCEPT ![r] = "done"] /\ store' = [store EXCEPT ![r] = "full"]
        /\ made[r] = "created" /\ UNCHANGED <<alive, timer, finishedStore, fin>>
    BY <1>3 DEF StoreSession
  <2>2. Done \subseteq Done' /\ \A q \in timer.todo : store'[q] = "full"
    BY <2>1
  <2> HIDE DEF MadeInOrder, ThreadsKnow, IdleTimer, Done, TypeOK
  <2> QED BY <2>1, <2>2
<1>4. ASSUME NEW r \in Reservations, TimePasses(r) PROVE TimerKnows'
  <2>1. UNCHANGED <<made, store, timer, finishedStore, fin>> /\ alive' = alive
    BY <1>4 DEF TimePasses
  <2> HIDE DEF MadeInOrder, ThreadsKnow, TypeOK, IdleTimer
  <2> QED BY <2>1
<1>5. ASSUME NEW r \in Reservations, ExperimentFinishes(r) PROVE TimerKnows'
  <2>1. /\ made[r] = "done" /\ finishedStore' = finishedStore \cup {r}
        /\ fin' = [fin EXCEPT ![r] = TRUE] /\ UNCHANGED <<made, store, timer, alive>>
    BY <1>5 DEF ExperimentFinishes
  <2>2. \A q \in Reservations : fin[q] \/ q = r => fin'[q]
    BY <2>1
  <2>3. finishedStore \cup timer.found \subseteq Reservations
    OBVIOUS
  <2> HIDE DEF MadeInOrder, ThreadsKnow, TypeOK, IdleTimer
  <2> QED BY <2>1, <2>2, <2>3
<1>6. ASSUME NEW r \in Reservations, DeleteSession(r) PROVE TimerKnows'
  <2>1. /\ store' = [store EXCEPT ![r] = "none"] /\ r \notin timer.todo
        /\ UNCHANGED <<made, alive, timer, finishedStore, fin>>
    BY <1>6 DEF DeleteSession
  <2>2. \A q \in timer.todo : store'[q] = store[q]
    BY <2>1, ZenonT(60)
  <2> HIDE DEF MadeInOrder, ThreadsKnow, TypeOK
  <2> QED BY <2>1, <2>2
<1>7. ASSUME NEW c \in Clients, NEW op \in {"none", "logout"}, NEW r \in Reservations,
           Ask(c, op, r) PROVE TimerKnows'
  <2>1. UNCHANGED <<made, store, timer, finishedStore, fin>> /\ alive' = alive
    BY <1>7 DEF Ask
  <2> HIDE DEF MadeInOrder, ThreadsKnow, TypeOK, IdleTimer
  <2> QED BY <2>1
<1>8. ASSUME NEW p \in Purgers, NextToPurge(p) PROVE TimerKnows'
  <2>1. UNCHANGED <<made, store, timer, finishedStore, fin>> /\ alive' = alive
    BY <1>8 DEF NextToPurge
  <2> HIDE DEF MadeInOrder, ThreadsKnow, TypeOK, IdleTimer
  <2> QED BY <2>1
<1>9. ASSUME NEW t \in Threads, Lock(t) PROVE TimerKnows'
  <2>1. UNCHANGED <<made, store, timer, finishedStore, fin>> /\ alive' = alive
    BY <1>9 DEF Lock, Enter
  <2> HIDE DEF MadeInOrder, ThreadsKnow, TypeOK, IdleTimer
  <2> QED BY <2>1
<1>10. ASSUME NEW t \in Threads, Act(t) PROVE TimerKnows'
  <2>1. /\ UNCHANGED <<made, store, timer, finishedStore, fin>>
        /\ alive' = alive \/ timer.pc \notin {"checking", "reading"}
    BY <1>10 DEF Act, ActStatus, ActPoll, ActFinish, ActEnd, ListIsFree
  <2> HIDE DEF MadeInOrder, ThreadsKnow, TypeOK, IdleTimer
  <2> QED BY <2>1
<1>11. ASSUME NEW t \in Threads, Read(t) PROVE TimerKnows'
  <2>1. UNCHANGED <<made, store, timer, finishedStore, fin>> /\ alive' = alive
    BY <1>11 DEF Read
  <2> HIDE DEF MadeInOrder, ThreadsKnow, TypeOK, IdleTimer
  <2> QED BY <2>1
<1>12. ASSUME NEW t \in Threads, Write(t) PROVE TimerKnows'
  <2>1. UNCHANGED <<made, store, timer, finishedStore, fin>> /\ alive' = alive
    BY <1>12 DEF Write
  <2> HIDE DEF MadeInOrder, ThreadsKnow, TypeOK, IdleTimer
  <2> QED BY <2>1
<1>13. ASSUME NEW t \in Threads, Record(t) PROVE TimerKnows'
  <2>1. UNCHANGED <<made, store, timer, finishedStore, fin>> /\ alive' = alive
    BY <1>13 DEF Record
  <2> HIDE DEF MadeInOrder, ThreadsKnow, TypeOK, IdleTimer
  <2> QED BY <2>1
<1>14. ASSUME NEW t \in Threads, Finish(t) PROVE TimerKnows'
  <2>1. UNCHANGED <<made, store, timer, finishedStore, fin>> /\ alive' = alive
    BY <1>14 DEF Finish
  <2> HIDE DEF MadeInOrder, ThreadsKnow, TypeOK, IdleTimer
  <2> QED BY <2>1
<1>15. ASSUME NEW t \in Threads, StopPolling(t) PROVE TimerKnows'
  <2>1. UNCHANGED <<made, store, timer, finishedStore, fin>> /\ alive' = alive
    BY <1>15 DEF StopPolling
  <2> HIDE DEF MadeInOrder, ThreadsKnow, TypeOK, IdleTimer
  <2> QED BY <2>1
<1>16. ASSUME NEW t \in Threads, Pop(t) PROVE TimerKnows'
  <2>1. UNCHANGED <<made, store, timer, finishedStore, fin>> /\ alive' = alive
    BY <1>16 DEF Pop
  <2> HIDE DEF MadeInOrder, ThreadsKnow, TypeOK, IdleTimer
  <2> QED BY <2>1
<1>17. ASSUME NEW t \in Threads, TellCoordinator(t) PROVE TimerKnows'
  <2>1. /\ thr[t].r \in Done /\ finishedStore' = finishedStore \cup {thr[t].r}
        /\ fin' = [fin EXCEPT ![thr[t].r] = TRUE] /\ UNCHANGED <<made, store, timer, alive>>
    BY <1>17 DEF TellCoordinator
  <2>2. \A q \in Reservations : fin[q] \/ q = thr[t].r => fin'[q]
    BY <2>1
  <2>3. finishedStore \cup timer.found \subseteq Reservations
    OBVIOUS
  <2> HIDE DEF MadeInOrder, ThreadsKnow, TypeOK, IdleTimer
  <2> QED BY <2>1, <2>2, <2>3
<1>18. ASSUME NEW t \in Threads, Release(t) PROVE TimerKnows'
  <2>1. /\ UNCHANGED <<made, timer, finishedStore, fin, alive>>
        /\ store' = [store EXCEPT ![thr[t].r] = IF @ = "none" THEN @ ELSE thr[t].obj]
        /\ thr[t].obj = "full"
    BY <1>18 DEF Release
  <2>2. \A q \in timer.todo : store'[q] = "full"
    BY <2>1, ZenonT(60)
  <2> HIDE DEF MadeInOrder, ThreadsKnow, TypeOK, IdleTimer
  <2> QED BY <2>1, <2>2
<1>19. ASSUME NEW t \in Threads, Forget(t) PROVE TimerKnows'
  <2>1. /\ UNCHANGED <<made, store, timer, finishedStore, fin>>
        /\ timer.pc \notin {"checking", "reading"}
    BY <1>19 DEF Forget, ListIsFree
  <2> HIDE DEF MadeInOrder, ThreadsKnow, TypeOK, IdleTimer
  <2> QED BY <2>1
<1>20. ASSUME Die PROVE timer' = [IdleTimer EXCEPT !.pc = "dead"]
  BY <1>20 DEF Die
<1>21. ASSUME NEW r \in timer.todo, NEW gone \in BOOLEAN, Judge(r, gone),
              timer.pc \in {"checking", "reading"},
              UNCHANGED <<made, store, alive, finishedStore, fin>>
       PROVE  TimerKnows'
  <2>1. /\ timer'.pc = "checking" /\ timer'.todo = timer.todo \ {r}
        /\ timer'.found = timer.found /\ timer'.expired \subseteq timer.expired \cup {r}
    BY <1>21 DEF Judge, TimerState
  <2>2. r \in alive /\ r \in Done
    BY <1>21
  <2> HIDE DEF MadeInOrder, ThreadsKnow, TypeOK, IdleTimer
  <2> QED BY <1>21, <2>1, <2>2
<1>22. ASSUME Die, UNCHANGED <<made, store, alive, finishedStore, fin>> PROVE TimerKnows'
  <2>1. /\ timer'.pc = "dead" /\ timer'.todo = {} /\ timer'.found = {} /\ timer'.expired = {}
    BY <1>22 DEF Die
  <2> HIDE DEF MadeInOrder, ThreadsKnow, TypeOK, IdleTimer
  <2> QED BY <1>22, <2>1
<1>23. ASSUME NEW r \in Reservations, CheckOne(r) PROVE TimerKnows'
  <2>1. /\ timer.pc = "checking" /\ r \in timer.todo
        /\ UNCHANGED <<made, store, alive, finishedStore, fin>>
    BY <1>23 DEF CheckOne
  <2>2. CASE timer' = [timer EXCEPT !.pc = "reading", !.one = r]
    <3>1. /\ timer'.pc = "reading" /\ timer'.one = r /\ timer'.todo = timer.todo
          /\ timer'.found = timer.found /\ timer'.expired = timer.expired
      BY <2>2 DEF TimerState
    <3> HIDE DEF MadeInOrder, ThreadsKnow, TypeOK, IdleTimer
    <3> QED BY <2>1, <3>1
  <2>3. QED
    BY <1>23, <2>1, <2>2, <1>21, <1>22, CheckOneSteps
<1>24. ASSUME ReadOne PROVE TimerKnows'
  <2>1. /\ timer.pc = "reading" /\ timer.one \in timer.todo
        /\ UNCHANGED <<made, store, alive, finishedStore, fin>>
    BY <1>24 DEF ReadOne
  <2>2. Die \/ Judge(timer.one, TRUE) \/ Judge(timer.one, FALSE)
    BY <1>24 DEF ReadOne, TimeIsUp
  <2>3. QED
    BY <2>1, <2>2, <1>21, <1>22
<1>25. ASSUME TakeFinished PROVE TimerKnows'
  <2>1. /\ timer = IdleTimer /\ finishedStore' = {} /\ UNCHANGED <<made, store, fin>>
    BY <1>25 DEF TakeFinished
  <2>2. /\ timer'.pc = "taken" /\ timer'.found = finishedStore
        /\ timer'.todo = {} /\ timer'.expired = {}
    BY <1>25, <2>1 DEF TakeFinished
  <2> HIDE DEF MadeInOrder, ThreadsKnow, TypeOK, IdleTimer
  <2> QED BY <2>1, <2>2
<1>26. ASSUME StartCheck PROVE TimerKnows'
  <2>1. /\ UNCHANGED <<made, store, alive, finishedStore, fin>>
        /\ timer.pc = "taken" /\ timer'.pc = "checking" /\ timer'.todo = alive
        /\ timer'.found = timer.found /\ timer'.expired = timer.expired
    BY <1>26 DEF StartCheck, TimerState
  <2>2. \A r \in alive : made[r] = "done" /\ store[r] = "full"
    <3>1. ~Reserving
      BY <1>26 DEF StartCheck
    <3> HIDE DEF TimerKnows, ThreadsKnow
    <3> QED BY <3>1 DEF Reserving
  <2>3. alive \subseteq Done
    BY <2>2
  <2> HIDE DEF MadeInOrder, ThreadsKnow, TypeOK, IdleTimer
  <2> QED BY <2>1, <2>2, <2>3
<1>27. ASSUME EndCheck PROVE TimerKnows'
  <2>1. /\ UNCHANGED <<made, store, finishedStore, fin>>
        /\ timer'.pc = "found" /\ timer'.todo = timer.todo
        /\ timer'.found = timer.found /\ timer'.expired = timer.expired
    BY <1>27 DEF EndCheck, TimerState
  <2> HIDE DEF MadeInOrder, ThreadsKnow, TypeOK, IdleTimer
  <2> QED BY <2>1
<1>28. ASSUME StartPurge PROVE TimerKnows'
  <2>1. timer' = IdleTimer /\ UNCHANGED <<made, store, finishedStore, fin>>
    BY <1>28 DEF StartPurge
  <2>2. timer'.pc = "idle" /\ timer'.todo = {} /\ timer'.found = {} /\ timer'.expired = {}
    BY <2>1
  <2> HIDE DEF MadeInOrder, ThreadsKnow, TypeOK, IdleTimer
  <2> QED BY <2>1, <2>2
<1>29. CASE UNCHANGED vars
  <2>1. UNCHANGED <<made, store, timer, finishedStore, fin, alive>>
    BY <1>29 DEF vars
  <2> HIDE DEF MadeInOrder, ThreadsKnow, TypeOK, IdleTimer
  <2> QED BY <2>1
<1> HIDE DEF TypeOK, MadeInOrder, TimerKnows, ThreadsKnow,
             ThreadKnows, Done, session, IdleTimer
<1>30. QED
  BY <1>1, <1>2, <1>3, <1>4, <1>5, <1>6, <1>7, <1>8, <1>9, <1>10,
     <1>11, <1>12, <1>13, <1>14, <1>15, <1>16, <1>17, <1>18, <1>19,
     <1>23, <1>24, <1>25, <1>26, <1>27, <1>28, <1>29
  DEF Next, Reserve, Work, Check

Frame ==
  \A r \in Reservations :
    /\ r \in Done => made'[r] = "done" /\ store'[r] \in {store[r], "none"}
    /\ fin[r] => fin'[r]
    /\ r \notin Done /\ made'[r] = "done" => r \in alive'

(* What no step takes back.                                                *)
LEMMA StepFrame ==
  ASSUME TypeOK, MadeInOrder, ThreadsKnow, [Next]_vars
  PROVE  Frame
<1> USE DEF TypeOK, MadeInOrder, ThreadsKnow, ThreadKnows, Done, session, Frame
<1>1. ASSUME NEW r \in Reservations, AddUser(r) PROVE Frame
  BY <1>1, ZenonT(60) DEF AddUser
<1>2. ASSUME NEW r \in Reservations, CreateSession(r) PROVE Frame
  BY <1>2, ZenonT(60) DEF CreateSession
<1>3. ASSUME NEW r \in Reservations, StoreSession(r) PROVE Frame
  <2>1. /\ made[r] = "created" /\ made' = [made EXCEPT ![r] = "done"]
        /\ store' = [store EXCEPT ![r] = "full"] /\ UNCHANGED <<fin, alive>>
    BY <1>3 DEF StoreSession
  <2>2. r \in alive /\ r \notin Done
    BY <2>1
  <2> HIDE DEF MadeInOrder, ThreadsKnow
  <2> QED BY <2>1, <2>2
<1>4. ASSUME NEW r \in Reservations, TimePasses(r) PROVE Frame
  BY <1>4 DEF TimePasses
<1>5. ASSUME NEW r \in Reservations, ExperimentFinishes(r) PROVE Frame
  BY <1>5, ZenonT(60) DEF ExperimentFinishes
<1>6. ASSUME NEW r \in Reservations, DeleteSession(r) PROVE Frame
  BY <1>6, ZenonT(60) DEF DeleteSession
<1>7. ASSUME NEW c \in Clients, NEW op \in {"none", "logout"}, NEW r \in Reservations,
           Ask(c, op, r) PROVE Frame
  BY <1>7 DEF Ask
<1>8. ASSUME NEW p \in Purgers, NextToPurge(p) PROVE Frame
  BY <1>8 DEF NextToPurge
<1>9. ASSUME NEW t \in Threads, Lock(t) PROVE Frame
  BY <1>9 DEF Lock, Enter
<1>10. ASSUME NEW t \in Threads, Act(t) PROVE Frame
  <2>1. UNCHANGED <<made, store, fin>>
    BY <1>10 DEF Act
  <2> HIDE DEF MadeInOrder, ThreadsKnow
  <2> QED BY <2>1
<1>11. ASSUME NEW t \in Threads, Read(t) PROVE Frame
  <2>1. UNCHANGED <<made, store, fin>>
    BY <1>11 DEF Read
  <2> HIDE DEF MadeInOrder, ThreadsKnow
  <2> QED BY <2>1
<1>12. ASSUME NEW t \in Threads, Write(t) PROVE Frame
  <2>1. UNCHANGED <<made, store, fin>>
    BY <1>12 DEF Write
  <2> HIDE DEF MadeInOrder, ThreadsKnow
  <2> QED BY <2>1
<1>13. ASSUME NEW t \in Threads, Record(t) PROVE Frame
  <2>1. UNCHANGED <<made, store, fin>>
    BY <1>13 DEF Record
  <2> HIDE DEF MadeInOrder, ThreadsKnow
  <2> QED BY <2>1
<1>14. ASSUME NEW t \in Threads, Finish(t) PROVE Frame
  <2>1. UNCHANGED <<made, store, fin>>
    BY <1>14 DEF Finish
  <2> HIDE DEF MadeInOrder, ThreadsKnow
  <2> QED BY <2>1
<1>15. ASSUME NEW t \in Threads, StopPolling(t) PROVE Frame
  <2>1. UNCHANGED <<made, store, fin>>
    BY <1>15 DEF StopPolling
  <2> HIDE DEF MadeInOrder, ThreadsKnow
  <2> QED BY <2>1
<1>16. ASSUME NEW t \in Threads, Pop(t) PROVE Frame
  <2>1. UNCHANGED <<made, store, fin>>
    BY <1>16 DEF Pop
  <2> HIDE DEF MadeInOrder, ThreadsKnow
  <2> QED BY <2>1
<1>17. ASSUME NEW t \in Threads, TellCoordinator(t) PROVE Frame
  <2>1. /\ fin' = [fin EXCEPT ![thr[t].r] = TRUE]
        /\ UNCHANGED <<made, store, alive>>
    BY <1>17 DEF TellCoordinator
  <2> HIDE DEF MadeInOrder, ThreadsKnow
  <2> QED BY <2>1
<1>18. ASSUME NEW t \in Threads, Release(t) PROVE Frame
  BY <1>18, ZenonT(60) DEF Release
<1>19. ASSUME NEW t \in Threads, Forget(t) PROVE Frame
  BY <1>19 DEF Forget
<1>20. ASSUME NEW r \in Reservations, CheckOne(r) PROVE Frame
  BY <1>20 DEF CheckOne
<1>21. ASSUME ReadOne PROVE Frame
  <2>1. UNCHANGED <<made, store, fin>>
    BY <1>21 DEF ReadOne
  <2> HIDE DEF MadeInOrder, ThreadsKnow
  <2> QED BY <2>1
<1>22. ASSUME TakeFinished PROVE Frame
  BY <1>22 DEF TakeFinished
<1>23. ASSUME StartCheck PROVE Frame
  BY <1>23 DEF StartCheck
<1>24. ASSUME EndCheck PROVE Frame
  BY <1>24 DEF EndCheck
<1>25. ASSUME StartPurge PROVE Frame
  BY <1>25 DEF StartPurge
<1>26. CASE UNCHANGED vars
  BY <1>26 DEF vars
<1> HIDE DEF TypeOK, MadeInOrder, ThreadsKnow, ThreadKnows, Done, session, Frame
<1>27. QED
  BY <1>1, <1>2, <1>3, <1>4, <1>5, <1>6, <1>7, <1>8, <1>9, <1>10,
     <1>11, <1>12, <1>13, <1>14, <1>15, <1>16, <1>17, <1>18, <1>19,
     <1>20, <1>21, <1>22, <1>23, <1>24, <1>25, <1>26
  DEF Next, Reserve, Work, Check

(* A thread that does not move.                                            *)
LEMMA Others ==
  ASSUME TypeOK, TypeOK', MadeInOrder', Frame, NEW u \in Threads, ThreadKnows(u), thr'[u] = thr[u]
  PROVE  ThreadKnows(u)'
  BY DEF TypeOK, MadeInOrder, Frame, ThreadKnows, Done

-----------------------------------------------------------------------------
(* The thread that moves keeps what it has to finish, until it is or        *)
(* somebody else tells the coordinator; it finishes what it takes off the   *)
(* list; and it takes no lock that is taken.                                *)

InHand(t, r) == ToPurge(t, r) \/ Finishing(t, r)

Keeps(t, r) ==
  /\ InHand(t, r) => InHand(t, r)' \/ Ended(r) \/ fin'[r]
  /\ r \in alive => r \in alive' \/ Finishing(t, r)' \/ Ended(r)
  /\ Telling(t, r) => Telling(t, r)' \/ fin'[r]
  /\ polling[r] => polling'[r] \/ Telling(t, r)'
  /\ thr'[t].pc = "forget" /\ thr'[t].r = r => Ended(r) \/ fin'[r]
  /\ (Holds(t, r) => lock[r]) => (Holds(t, r)' => lock'[r])
  /\ Holds(t, r)' => Holds(t, r) \/ ~lock[r]
  /\ lock[r] /\ ~lock'[r] => Holds(t, r)

Moves(t) ==
  /\ \A u \in Threads : u # t => thr'[u] = thr[u]
  /\ timer' = timer /\ made' = made
  /\ ThreadKnows(t)'
  /\ \A r \in Reservations : Keeps(t, r)

LEMMA LockMoves ==
  ASSUME SessionsAssumption, TypeOK, TypeOK', MadeInOrder, MadeInOrder', Frame,
         Told, ForgetsLast, NEW t \in Threads,
         ThreadKnows(t), Lock(t)
  PROVE  Moves(t)
<1>1. /\ thr[t].r \in Done /\ timer' = timer /\ made' = made
      /\ lock \in [Reservations -> BOOLEAN] /\ polling \in [Reservations -> BOOLEAN]
      /\ fin \in [Reservations -> BOOLEAN]
      /\ store \in [Reservations -> {"none", "empty", "full"}]
      /\ thr \in [Threads -> ThreadState]
      /\ thr[t].pc = "lock"
      /\ IF store[thr[t].r] = "none" THEN lock' = lock
         ELSE ~lock[thr[t].r] /\ lock' = [lock EXCEPT ![thr[t].r] = TRUE]
      /\ UNCHANGED <<store, polling, alive, fin>>
  BY DEF ThreadKnows, TypeOK, session, Lock, Enter
<1>2. IF store[thr[t].r] = "none" THEN Left(t)
      ELSE \E op \in (IF t \in Purgers THEN {"purge"} ELSE Ops) :
             Becomes(t, "act", op, thr[t].r, store[thr[t].r], thr[t].todo)
  BY <1>1, LockBecomes DEF Done
<1>3. \A q \in Reservations : ~polling[q] \/ store[q] = "none" \/ fin[q] => Ended(q)
  BY DEF Told, Ended, Over
<1>4. store[thr[t].r] \in {"none", "full"}
  BY <1>1 DEF MadeInOrder, Done
<1>5. ThreadKnows(t)'
  <2>1. Done' = Done /\ thr[t].todo \subseteq Done
    BY <1>1 DEF ThreadKnows, Done
  <2>2. CASE store[thr[t].r] = "none"
    BY <1>1, <1>2, <2>1, <2>2 DEF ThreadKnows, Becomes, Left
  <2>3. CASE store[thr[t].r] = "full"
    <3>1. PICK op \in (IF t \in Purgers THEN {"purge"} ELSE Ops) :
            Becomes(t, "act", op, thr[t].r, "full", thr[t].todo)
      BY <1>2, <2>3
    <3>2. op # "logout" /\ (op = "purge" => t \in Purgers)
      BY <3>1 DEF Ops
    <3>3. QED
      BY <1>1, <2>1, <3>1, <3>2 DEF ThreadKnows, Becomes
  <2>4. QED
    BY <1>4, <2>2, <2>3
<1>6. ASSUME NEW q \in Reservations PROVE Keeps(t, q)
  <2>1. InHand(t, q) => InHand(t, q)' \/ Ended(q) \/ fin'[q]
    BY <1>1, <1>2, <1>3, <1>4, <1>6, SessionsAssumption, ZenonT(60)
    DEF InHand, ToPurge, Finishing, ThreadKnows, Becomes, Left, Done, Threads
  <2>2. q \in alive => q \in alive' \/ Finishing(t, q)' \/ Ended(q)
    BY <1>1, <1>2, <1>3, <1>4, <1>6, SessionsAssumption, ZenonT(60)
    DEF Finishing, ThreadKnows, Becomes, Left, Done, Threads
  <2>3. Telling(t, q) => Telling(t, q)' \/ fin'[q]
    BY <1>1, <1>2, <1>3, <1>4, <1>6, SessionsAssumption, ZenonT(60)
    DEF Telling, ThreadKnows, Becomes, Left, Done, Threads
  <2>4. polling[q] => polling'[q] \/ Telling(t, q)'
    BY <1>1, <1>2, <1>3, <1>4, <1>6, SessionsAssumption, ZenonT(60)
    DEF Telling, ThreadKnows, Becomes, Left, Done, Threads
  <2>5. thr'[t].pc = "forget" /\ thr'[t].r = q => Ended(q) \/ fin'[q]
    BY <1>1, <1>2, <1>3, <1>4, <1>6, SessionsAssumption, ZenonT(60)
    DEF ThreadKnows, Becomes, Left, Done, Threads
  <2>6. (Holds(t, q) => lock[q]) => (Holds(t, q)' => lock'[q])
    BY <1>1, <1>2, <1>3, <1>4, <1>6, SessionsAssumption, ZenonT(60)
    DEF Holds, ThreadKnows, Becomes, Left, Done, Threads
  <2>7. Holds(t, q)' => Holds(t, q) \/ ~lock[q]
    BY <1>1, <1>2, <1>3, <1>4, <1>6, SessionsAssumption, ZenonT(60)
    DEF Holds, ThreadKnows, Becomes, Left, Done, Threads
  <2>8. lock[q] /\ ~lock'[q] => Holds(t, q)
    BY <1>1, <1>2, <1>3, <1>4, <1>6, SessionsAssumption, ZenonT(60)
    DEF Holds, ThreadKnows, Becomes, Left, Done, Threads
  <2>9. QED
    BY <2>1, <2>2, <2>3, <2>4, <2>5, <2>6, <2>7, <2>8 DEF Keeps
<1>7. QED
  BY <1>1, <1>2, <1>5, <1>6 DEF Moves, Becomes, Left

LEMMA FinishMoves ==
  ASSUME SessionsAssumption, TypeOK, TypeOK', MadeInOrder, MadeInOrder', Frame,
         Told, ForgetsLast, NEW t \in Threads,
         ThreadKnows(t), Finish(t)
  PROVE  Moves(t)
<1>1. /\ thr[t].r \in Done /\ timer' = timer /\ made' = made
      /\ lock \in [Reservations -> BOOLEAN] /\ polling \in [Reservations -> BOOLEAN]
      /\ fin \in [Reservations -> BOOLEAN]
      /\ store \in [Reservations -> {"none", "empty", "full"}]
      /\ thr \in [Threads -> ThreadState]
      /\ thr[t].pc = "finish" /\ UNCHANGED <<store, lock, polling, alive, fin>>
  BY DEF ThreadKnows, TypeOK, session, Finish
<1>2. IF polling[thr[t].r] THEN Becomes(t, "stop", thr[t].op, thr[t].r, thr[t].obj, thr[t].todo)
      ELSE IF thr[t].op = "logout"
           THEN Becomes(t, "forget", thr[t].op, thr[t].r, thr[t].obj, thr[t].todo)
           ELSE Becomes(t, "release", thr[t].op, thr[t].r, thr[t].obj, thr[t].todo)
  <2>1. {"stop", "forget", "release"} \subseteq Pcs
    BY DEF Pcs
  <2>2. IF polling[thr[t].r] THEN Goto(t, "stop")
        ELSE IF thr[t].op = "logout" THEN Goto(t, "forget") ELSE Goto(t, "release")
    BY DEF Finish, AfterFinish
  <2>3. QED
    BY <1>1, <2>1, <2>2, GotoBecomes
<1>3. \A q \in Reservations : ~polling[q] \/ store[q] = "none" \/ fin[q] => Ended(q)
  BY DEF Told, Ended, Over
<1>4. ThreadKnows(t)'
  <2>1. CASE polling[thr[t].r]
    BY <1>1, <1>2, <2>1, SessionsAssumption, ZenonT(60) DEF ThreadKnows, Becomes, Left, Done
  <2>2. CASE ~polling[thr[t].r] /\ thr[t].op = "logout"
    BY <1>1, <1>2, <2>2, SessionsAssumption, ZenonT(60) DEF ThreadKnows, Becomes, Left, Done
  <2>3. CASE ~polling[thr[t].r] /\ thr[t].op # "logout"
    BY <1>1, <1>2, <2>3, SessionsAssumption, ZenonT(60) DEF ThreadKnows, Becomes, Left, Done
  <2>4. QED
    BY <2>1, <2>2, <2>3
<1>5. ASSUME NEW q \in Reservations PROVE Keeps(t, q)
  <2>1. InHand(t, q) => InHand(t, q)' \/ Ended(q) \/ fin'[q]
    BY <1>1, <1>2, <1>3, <1>5, SessionsAssumption, ZenonT(60)
    DEF InHand, ToPurge, Finishing, ThreadKnows, Becomes, Left, Done, Threads
  <2>2. q \in alive => q \in alive' \/ Finishing(t, q)' \/ Ended(q)
    BY <1>1, <1>2, <1>3, <1>5, SessionsAssumption, ZenonT(60)
    DEF Finishing, ThreadKnows, Becomes, Left, Done, Threads
  <2>3. Telling(t, q) => Telling(t, q)' \/ fin'[q]
    BY <1>1, <1>2, <1>3, <1>5, SessionsAssumption, ZenonT(60)
    DEF Telling, ThreadKnows, Becomes, Left, Done, Threads
  <2>4. polling[q] => polling'[q] \/ Telling(t, q)'
    BY <1>1, <1>2, <1>3, <1>5, SessionsAssumption, ZenonT(60)
    DEF Telling, ThreadKnows, Becomes, Left, Done, Threads
  <2>5. thr'[t].pc = "forget" /\ thr'[t].r = q => Ended(q) \/ fin'[q]
    BY <1>1, <1>2, <1>3, <1>5, SessionsAssumption, ZenonT(60)
    DEF ThreadKnows, Becomes, Left, Done, Threads
  <2>6. (Holds(t, q) => lock[q]) => (Holds(t, q)' => lock'[q])
    BY <1>1, <1>2, <1>3, <1>5, SessionsAssumption, ZenonT(60)
    DEF Holds, ThreadKnows, Becomes, Left, Done, Threads
  <2>7. Holds(t, q)' => Holds(t, q) \/ ~lock[q]
    BY <1>1, <1>2, <1>3, <1>5, SessionsAssumption, ZenonT(60)
    DEF Holds, ThreadKnows, Becomes, Left, Done, Threads
  <2>8. lock[q] /\ ~lock'[q] => Holds(t, q)
    BY <1>1, <1>2, <1>3, <1>5, SessionsAssumption, ZenonT(60)
    DEF Holds, ThreadKnows, Becomes, Left, Done, Threads
  <2>9. QED
    BY <2>1, <2>2, <2>3, <2>4, <2>5, <2>6, <2>7, <2>8 DEF Keeps
<1>6. QED
  BY <1>1, <1>2, <1>4, <1>5 DEF Moves, Becomes, Left

LEMMA StopPollingMoves ==
  ASSUME SessionsAssumption, TypeOK, TypeOK', MadeInOrder, MadeInOrder', Frame,
         Told, ForgetsLast, NEW t \in Threads,
         ThreadKnows(t), StopPolling(t)
  PROVE  Moves(t)
<1>1. /\ thr[t].r \in Done /\ timer' = timer /\ made' = made
      /\ lock \in [Reservations -> BOOLEAN] /\ polling \in [Reservations -> BOOLEAN]
      /\ fin \in [Reservations -> BOOLEAN]
      /\ store \in [Reservations -> {"none", "empty", "full"}]
      /\ thr \in [Threads -> ThreadState]
      /\ thr[t].pc = "stop" /\ UNCHANGED <<store, lock, polling, alive, fin>>
  BY DEF ThreadKnows, TypeOK, session, StopPolling
<1>2. IF polling[thr[t].r] THEN Becomes(t, "pop", thr[t].op, thr[t].r, thr[t].obj, thr[t].todo)
      ELSE Becomes(t, "tell", thr[t].op, thr[t].r, thr[t].obj, thr[t].todo)
  <2>1. {"pop", "tell"} \subseteq Pcs
    BY DEF Pcs
  <2>2. IF polling[thr[t].r] THEN Goto(t, "pop") ELSE Goto(t, "tell")
    BY DEF StopPolling
  <2>3. QED
    BY <1>1, <2>1, <2>2, GotoBecomes
<1>3. \A q \in Reservations : ~polling[q] \/ store[q] = "none" \/ fin[q] => Ended(q)
  BY DEF Told, Ended, Over
<1>4. ThreadKnows(t)'
  BY <1>1, <1>2, SessionsAssumption, ZenonT(60)
     DEF ThreadKnows, Becomes, Left, Done, Frame, MadeInOrder, TypeOK, Threads
<1>5. ASSUME NEW q \in Reservations PROVE Keeps(t, q)
  <2>1. InHand(t, q) => InHand(t, q)' \/ Ended(q) \/ fin'[q]
    BY <1>1, <1>2, <1>3, <1>5, SessionsAssumption, ZenonT(60)
    DEF InHand, ToPurge, Finishing, ThreadKnows, Becomes, Left, Done, Threads
  <2>2. q \in alive => q \in alive' \/ Finishing(t, q)' \/ Ended(q)
    BY <1>1, <1>2, <1>3, <1>5, SessionsAssumption, ZenonT(60)
    DEF Finishing, ThreadKnows, Becomes, Left, Done, Threads
  <2>3. Telling(t, q) => Telling(t, q)' \/ fin'[q]
    BY <1>1, <1>2, <1>3, <1>5, SessionsAssumption, ZenonT(60)
    DEF Telling, ThreadKnows, Becomes, Left, Done, Threads
  <2>4. polling[q] => polling'[q] \/ Telling(t, q)'
    BY <1>1, <1>2, <1>3, <1>5, SessionsAssumption, ZenonT(60)
    DEF Telling, ThreadKnows, Becomes, Left, Done, Threads
  <2>5. thr'[t].pc = "forget" /\ thr'[t].r = q => Ended(q) \/ fin'[q]
    BY <1>1, <1>2, <1>3, <1>5, SessionsAssumption, ZenonT(60)
    DEF ThreadKnows, Becomes, Left, Done, Threads
  <2>6. (Holds(t, q) => lock[q]) => (Holds(t, q)' => lock'[q])
    BY <1>1, <1>2, <1>3, <1>5, SessionsAssumption, ZenonT(60)
    DEF Holds, ThreadKnows, Becomes, Left, Done, Threads
  <2>7. Holds(t, q)' => Holds(t, q) \/ ~lock[q]
    BY <1>1, <1>2, <1>3, <1>5, SessionsAssumption, ZenonT(60)
    DEF Holds, ThreadKnows, Becomes, Left, Done, Threads
  <2>8. lock[q] /\ ~lock'[q] => Holds(t, q)
    BY <1>1, <1>2, <1>3, <1>5, SessionsAssumption, ZenonT(60)
    DEF Holds, ThreadKnows, Becomes, Left, Done, Threads
  <2>9. QED
    BY <2>1, <2>2, <2>3, <2>4, <2>5, <2>6, <2>7, <2>8 DEF Keeps
<1>6. QED
  BY <1>1, <1>2, <1>4, <1>5 DEF Moves, Becomes, Left

LEMMA PopMoves ==
  ASSUME SessionsAssumption, TypeOK, TypeOK', MadeInOrder, MadeInOrder', Frame,
         Told, ForgetsLast, NEW t \in Threads,
         ThreadKnows(t), Pop(t)
  PROVE  Moves(t)
<1>1. /\ thr[t].r \in Done /\ timer' = timer /\ made' = made
      /\ lock \in [Reservations -> BOOLEAN] /\ polling \in [Reservations -> BOOLEAN]
      /\ fin \in [Reservations -> BOOLEAN]
      /\ store \in [Reservations -> {"none", "empty", "full"}]
      /\ thr \in [Threads -> ThreadState]
      /\ thr[t].pc = "pop" /\ polling' = [polling EXCEPT ![thr[t].r] = FALSE]
      /\ UNCHANGED <<store, lock, alive, fin>>
  BY DEF ThreadKnows, TypeOK, session, Pop
<1>2. IF polling[thr[t].r] THEN Becomes(t, "tell", thr[t].op, thr[t].r, thr[t].obj, thr[t].todo)
      ELSE IF thr[t].op = "logout" THEN Left(t)
      ELSE Becomes(t, "release", thr[t].op, thr[t].r, thr[t].obj, thr[t].todo)
  <2>1. {"tell", "release"} \subseteq Pcs
    BY DEF Pcs
  <2>2. IF polling[thr[t].r] THEN Goto(t, "tell")
        ELSE IF thr[t].op = "logout" THEN Leave(t) ELSE Goto(t, "release")
    BY DEF Pop
  <2>3. QED
    BY <1>1, <2>1, <2>2, GotoBecomes, LeaveBecomes
<1>3. \A q \in Reservations : ~polling[q] \/ store[q] = "none" \/ fin[q] => Ended(q)
  BY DEF Told, Ended, Over
<1>4. ThreadKnows(t)'
  <2>1. CASE polling[thr[t].r]
    BY <1>1, <1>2, <2>1, SessionsAssumption, ZenonT(60) DEF ThreadKnows, Becomes, Left, Done, Threads
  <2>2. CASE ~polling[thr[t].r] /\ thr[t].op = "logout"
    BY <1>1, <1>2, <2>2, SessionsAssumption, ZenonT(60) DEF ThreadKnows, Becomes, Left, Done, Threads
  <2>3. CASE ~polling[thr[t].r] /\ thr[t].op # "logout"
    BY <1>1, <1>2, <2>3, SessionsAssumption, ZenonT(60) DEF ThreadKnows, Becomes, Left, Done, Threads
  <2>4. QED
    BY <2>1, <2>2, <2>3
<1>5. ASSUME NEW q \in Reservations PROVE Keeps(t, q)
  <2>1. InHand(t, q) => InHand(t, q)' \/ Ended(q) \/ fin'[q]
    BY <1>1, <1>2, <1>3, <1>5, SessionsAssumption, ZenonT(60)
    DEF InHand, ToPurge, Finishing, ThreadKnows, Becomes, Left, Done, Threads
  <2>2. q \in alive => q \in alive' \/ Finishing(t, q)' \/ Ended(q)
    BY <1>1, <1>2, <1>3, <1>5, SessionsAssumption, ZenonT(60)
    DEF Finishing, ThreadKnows, Becomes, Left, Done, Threads
  <2>3. Telling(t, q) => Telling(t, q)' \/ fin'[q]
    BY <1>1, <1>2, <1>3, <1>5, SessionsAssumption, ZenonT(60)
    DEF Telling, ThreadKnows, Becomes, Left, Done, Threads
  <2>4. polling[q] => polling'[q] \/ Telling(t, q)'
    BY <1>1, <1>2, <1>3, <1>5, SessionsAssumption, ZenonT(60)
    DEF Telling, ThreadKnows, Becomes, Left, Done, Threads
  <2>5. thr'[t].pc = "forget" /\ thr'[t].r = q => Ended(q) \/ fin'[q]
    BY <1>1, <1>2, <1>3, <1>5, SessionsAssumption, ZenonT(60)
    DEF ThreadKnows, Becomes, Left, Done, Threads
  <2>6. (Holds(t, q) => lock[q]) => (Holds(t, q)' => lock'[q])
    BY <1>1, <1>2, <1>3, <1>5, SessionsAssumption, ZenonT(60)
    DEF Holds, ThreadKnows, Becomes, Left, Done, Threads
  <2>7. Holds(t, q)' => Holds(t, q) \/ ~lock[q]
    BY <1>1, <1>2, <1>3, <1>5, SessionsAssumption, ZenonT(60)
    DEF Holds, ThreadKnows, Becomes, Left, Done, Threads
  <2>8. lock[q] /\ ~lock'[q] => Holds(t, q)
    BY <1>1, <1>2, <1>3, <1>5, SessionsAssumption, ZenonT(60)
    DEF Holds, ThreadKnows, Becomes, Left, Done, Threads
  <2>9. QED
    BY <2>1, <2>2, <2>3, <2>4, <2>5, <2>6, <2>7, <2>8 DEF Keeps
<1>6. QED
  BY <1>1, <1>2, <1>4, <1>5 DEF Moves, Becomes, Left

LEMMA TellCoordinatorMoves ==
  ASSUME SessionsAssumption, TypeOK, TypeOK', MadeInOrder, MadeInOrder', Frame,
         Told, ForgetsLast, NEW t \in Threads,
         ThreadKnows(t), TellCoordinator(t)
  PROVE  Moves(t)
<1>1. /\ thr[t].r \in Done /\ timer' = timer /\ made' = made
      /\ lock \in [Reservations -> BOOLEAN] /\ polling \in [Reservations -> BOOLEAN]
      /\ fin \in [Reservations -> BOOLEAN]
      /\ store \in [Reservations -> {"none", "empty", "full"}]
      /\ thr \in [Threads -> ThreadState]
      /\ thr[t].pc = "tell" /\ fin' = [fin EXCEPT ![thr[t].r] = TRUE]
      /\ UNCHANGED <<store, lock, polling, alive>>
  BY DEF ThreadKnows, TypeOK, session, TellCoordinator
<1>2. IF thr[t].op = "logout"
      THEN Becomes(t, "forget", thr[t].op, thr[t].r, thr[t].obj, thr[t].todo)
      ELSE Becomes(t, "release", thr[t].op, thr[t].r, thr[t].obj, thr[t].todo)
  <2>1. {"forget", "release"} \subseteq Pcs
    BY DEF Pcs
  <2>2. IF thr[t].op = "logout" THEN Goto(t, "forget") ELSE Goto(t, "release")
    BY DEF TellCoordinator, AfterFinish
  <2>3. QED
    BY <1>1, <2>1, <2>2, GotoBecomes
<1>3. \A q \in Reservations : ~polling[q] \/ store[q] = "none" \/ fin[q] => Ended(q)
  BY DEF Told, Ended, Over
<1>4. ThreadKnows(t)'
  <2>1. CASE thr[t].op = "logout"
    BY <1>1, <1>2, <2>1, SessionsAssumption, ZenonT(60) DEF ThreadKnows, Becomes, Left, Done
  <2>2. CASE thr[t].op # "logout"
    BY <1>1, <1>2, <2>2, SessionsAssumption, ZenonT(60) DEF ThreadKnows, Becomes, Left, Done
  <2>3. QED
    BY <2>1, <2>2
<1>5. ASSUME NEW q \in Reservations PROVE Keeps(t, q)
  <2>1. InHand(t, q) => InHand(t, q)' \/ Ended(q) \/ fin'[q]
    BY <1>1, <1>2, <1>3, <1>5, SessionsAssumption, ZenonT(60)
    DEF InHand, ToPurge, Finishing, ThreadKnows, Becomes, Left, Done, Threads
  <2>2. q \in alive => q \in alive' \/ Finishing(t, q)' \/ Ended(q)
    BY <1>1, <1>2, <1>3, <1>5, SessionsAssumption, ZenonT(60)
    DEF Finishing, ThreadKnows, Becomes, Left, Done, Threads
  <2>3. Telling(t, q) => Telling(t, q)' \/ fin'[q]
    BY <1>1, <1>2, <1>3, <1>5, SessionsAssumption, ZenonT(60)
    DEF Telling, ThreadKnows, Becomes, Left, Done, Threads
  <2>4. polling[q] => polling'[q] \/ Telling(t, q)'
    BY <1>1, <1>2, <1>3, <1>5, SessionsAssumption, ZenonT(60)
    DEF Telling, ThreadKnows, Becomes, Left, Done, Threads
  <2>5. thr'[t].pc = "forget" /\ thr'[t].r = q => Ended(q) \/ fin'[q]
    BY <1>1, <1>2, <1>3, <1>5, SessionsAssumption, ZenonT(60)
    DEF ThreadKnows, Becomes, Left, Done, Threads
  <2>6. (Holds(t, q) => lock[q]) => (Holds(t, q)' => lock'[q])
    BY <1>1, <1>2, <1>3, <1>5, SessionsAssumption, ZenonT(60)
    DEF Holds, ThreadKnows, Becomes, Left, Done, Threads
  <2>7. Holds(t, q)' => Holds(t, q) \/ ~lock[q]
    BY <1>1, <1>2, <1>3, <1>5, SessionsAssumption, ZenonT(60)
    DEF Holds, ThreadKnows, Becomes, Left, Done, Threads
  <2>8. lock[q] /\ ~lock'[q] => Holds(t, q)
    BY <1>1, <1>2, <1>3, <1>5, SessionsAssumption, ZenonT(60)
    DEF Holds, ThreadKnows, Becomes, Left, Done, Threads
  <2>9. QED
    BY <2>1, <2>2, <2>3, <2>4, <2>5, <2>6, <2>7, <2>8 DEF Keeps
<1>6. QED
  BY <1>1, <1>2, <1>4, <1>5 DEF Moves, Becomes, Left

LEMMA ReleaseMoves ==
  ASSUME SessionsAssumption, TypeOK, TypeOK', MadeInOrder, MadeInOrder', Frame,
         Told, ForgetsLast, NEW t \in Threads,
         ThreadKnows(t), Release(t)
  PROVE  Moves(t)
<1>1. /\ thr[t].r \in Done /\ timer' = timer /\ made' = made
      /\ lock \in [Reservations -> BOOLEAN] /\ polling \in [Reservations -> BOOLEAN]
      /\ fin \in [Reservations -> BOOLEAN]
      /\ store \in [Reservations -> {"none", "empty", "full"}]
      /\ thr \in [Threads -> ThreadState]
      /\ thr[t].pc = "release" /\ lock' = [lock EXCEPT ![thr[t].r] = FALSE]
      /\ UNCHANGED <<alive, fin, polling>>
  BY DEF ThreadKnows, TypeOK, session, Release
<1>2. Left(t)
  BY <1>1, LeaveBecomes DEF Release
<1>3. \A q \in Reservations : ~polling[q] \/ store[q] = "none" \/ fin[q] => Ended(q)
  BY DEF Told, Ended, Over
<1>4. ThreadKnows(t)'
  BY <1>1, <1>2, SessionsAssumption, ZenonT(60)
     DEF ThreadKnows, Becomes, Left, Done, Frame, MadeInOrder, TypeOK, Threads
<1>5. ASSUME NEW q \in Reservations PROVE Keeps(t, q)
  <2>1. InHand(t, q) => InHand(t, q)' \/ Ended(q) \/ fin'[q]
    BY <1>1, <1>2, <1>3, <1>5, SessionsAssumption, ZenonT(60)
    DEF InHand, ToPurge, Finishing, ThreadKnows, Becomes, Left, Done, Threads
  <2>2. q \in alive => q \in alive' \/ Finishing(t, q)' \/ Ended(q)
    BY <1>1, <1>2, <1>3, <1>5, SessionsAssumption, ZenonT(60)
    DEF Finishing, ThreadKnows, Becomes, Left, Done, Threads
  <2>3. Telling(t, q) => Telling(t, q)' \/ fin'[q]
    BY <1>1, <1>2, <1>3, <1>5, SessionsAssumption, ZenonT(60)
    DEF Telling, ThreadKnows, Becomes, Left, Done, Threads
  <2>4. polling[q] => polling'[q] \/ Telling(t, q)'
    BY <1>1, <1>2, <1>3, <1>5, SessionsAssumption, ZenonT(60)
    DEF Telling, ThreadKnows, Becomes, Left, Done, Threads
  <2>5. thr'[t].pc = "forget" /\ thr'[t].r = q => Ended(q) \/ fin'[q]
    BY <1>1, <1>2, <1>3, <1>5, SessionsAssumption, ZenonT(60)
    DEF ThreadKnows, Becomes, Left, Done, Threads
  <2>6. (Holds(t, q) => lock[q]) => (Holds(t, q)' => lock'[q])
    BY <1>1, <1>2, <1>3, <1>5, SessionsAssumption, ZenonT(60)
    DEF Holds, ThreadKnows, Becomes, Left, Done, Threads
  <2>7. Holds(t, q)' => Holds(t, q) \/ ~lock[q]
    BY <1>1, <1>2, <1>3, <1>5, SessionsAssumption, ZenonT(60)
    DEF Holds, ThreadKnows, Becomes, Left, Done, Threads
  <2>8. lock[q] /\ ~lock'[q] => Holds(t, q)
    BY <1>1, <1>2, <1>3, <1>5, SessionsAssumption, ZenonT(60)
    DEF Holds, ThreadKnows, Becomes, Left, Done, Threads
  <2>9. QED
    BY <2>1, <2>2, <2>3, <2>4, <2>5, <2>6, <2>7, <2>8 DEF Keeps
<1>6. QED
  BY <1>1, <1>2, <1>4, <1>5 DEF Moves, Becomes, Left

LEMMA ForgetMoves ==
  ASSUME SessionsAssumption, TypeOK, TypeOK', MadeInOrder, MadeInOrder', Frame,
         Told, ForgetsLast, NEW t \in Threads,
         ThreadKnows(t), Forget(t)
  PROVE  Moves(t)
<1>1. /\ thr[t].r \in Done /\ timer' = timer /\ made' = made
      /\ lock \in [Reservations -> BOOLEAN] /\ polling \in [Reservations -> BOOLEAN]
      /\ fin \in [Reservations -> BOOLEAN]
      /\ store \in [Reservations -> {"none", "empty", "full"}]
      /\ thr \in [Threads -> ThreadState]
      /\ thr[t].pc = "forget" /\ alive' = alive \ {thr[t].r}
      /\ UNCHANGED <<store, lock, fin, polling>>
  BY DEF ThreadKnows, TypeOK, session, Forget
<1>2. Left(t)
  BY <1>1, LeaveBecomes DEF Forget
<1>3. \A q \in Reservations : ~polling[q] \/ store[q] = "none" \/ fin[q] => Ended(q)
  BY DEF Told, Ended, Over
<1>4. Ended(thr[t].r)
  BY <1>1 DEF ForgetsLast, Done
<1>5. ThreadKnows(t)'
  BY <1>1, <1>2, SessionsAssumption, ZenonT(60)
     DEF ThreadKnows, Becomes, Left, Done, Frame, MadeInOrder, TypeOK, Threads
<1>6. ASSUME NEW q \in Reservations PROVE Keeps(t, q)
  <2>1. InHand(t, q) => InHand(t, q)' \/ Ended(q) \/ fin'[q]
    BY <1>1, <1>2, <1>3, <1>4, <1>6, SessionsAssumption, ZenonT(60)
    DEF InHand, ToPurge, Finishing, ThreadKnows, Becomes, Left, Done, Threads
  <2>2. q \in alive => q \in alive' \/ Finishing(t, q)' \/ Ended(q)
    BY <1>1, <1>2, <1>3, <1>4, <1>6, SessionsAssumption, ZenonT(60)
    DEF Finishing, ThreadKnows, Becomes, Left, Done, Threads
  <2>3. Telling(t, q) => Telling(t, q)' \/ fin'[q]
    BY <1>1, <1>2, <1>3, <1>4, <1>6, SessionsAssumption, ZenonT(60)
    DEF Telling, ThreadKnows, Becomes, Left, Done, Threads
  <2>4. polling[q] => polling'[q] \/ Telling(t, q)'
    BY <1>1, <1>2, <1>3, <1>4, <1>6, SessionsAssumption, ZenonT(60)
    DEF Telling, ThreadKnows, Becomes, Left, Done, Threads
  <2>5. thr'[t].pc = "forget" /\ thr'[t].r = q => Ended(q) \/ fin'[q]
    BY <1>1, <1>2, <1>3, <1>4, <1>6, SessionsAssumption, ZenonT(60)
    DEF ThreadKnows, Becomes, Left, Done, Threads
  <2>6. (Holds(t, q) => lock[q]) => (Holds(t, q)' => lock'[q])
    BY <1>1, <1>2, <1>3, <1>4, <1>6, SessionsAssumption, ZenonT(60)
    DEF Holds, ThreadKnows, Becomes, Left, Done, Threads
  <2>7. Holds(t, q)' => Holds(t, q) \/ ~lock[q]
    BY <1>1, <1>2, <1>3, <1>4, <1>6, SessionsAssumption, ZenonT(60)
    DEF Holds, ThreadKnows, Becomes, Left, Done, Threads
  <2>8. lock[q] /\ ~lock'[q] => Holds(t, q)
    BY <1>1, <1>2, <1>3, <1>4, <1>6, SessionsAssumption, ZenonT(60)
    DEF Holds, ThreadKnows, Becomes, Left, Done, Threads
  <2>9. QED
    BY <2>1, <2>2, <2>3, <2>4, <2>5, <2>6, <2>7, <2>8 DEF Keeps
<1>7. QED
  BY <1>1, <1>2, <1>5, <1>6 DEF Moves, Becomes, Left

LEMMA ActMoves ==
  ASSUME SessionsAssumption, TypeOK, TypeOK', MadeInOrder, MadeInOrder', Frame,
         Told, ForgetsLast, NEW t \in Threads,
         ThreadKnows(t), Act(t)
  PROVE  Moves(t)
<1>1. /\ thr[t].r \in Done /\ timer' = timer /\ made' = made
      /\ lock \in [Reservations -> BOOLEAN] /\ polling \in [Reservations -> BOOLEAN]
      /\ fin \in [Reservations -> BOOLEAN]
      /\ store \in [Reservations -> {"none", "empty", "full"}]
      /\ thr \in [Threads -> ThreadState]
      /\ thr[t].pc = "act" /\ thr[t].obj = "full"
      /\ UNCHANGED <<store, lock, fin, polling>>
  BY DEF ThreadKnows, TypeOK, session, Act
<1>2. \E pc \in {"release", "finish", "read", "record"}, op \in {"none", "status", "poll"} :
        /\ Becomes(t, pc, op, thr[t].r, thr[t].obj, thr[t].todo)
        /\ alive' = alive \/ (pc = "finish" /\ alive' = alive \ {thr[t].r})
        /\ thr[t].op = "purge" => pc = "finish"
  <2>1. PICK pc \in {"release", "finish", "read", "record"} :
          /\ GoOn(t, pc) \/ (thr[t].op \in {"status", "poll"} /\ Goto(t, pc))
          /\ alive' = alive \/ (pc = "finish" /\ alive' = alive \ {thr[t].r})
          /\ thr[t].op = "purge" => pc = "finish"
    BY <1>1 DEF Act, ActStatus, ActPoll, ActFinish, ActEnd
  <2>2. pc \in Pcs
    BY DEF Pcs
  <2>3. \/ Becomes(t, pc, "none", thr[t].r, thr[t].obj, thr[t].todo)
        \/ /\ thr[t].op \in {"status", "poll"}
           /\ Becomes(t, pc, thr[t].op, thr[t].r, thr[t].obj, thr[t].todo)
    BY <1>1, <2>1, <2>2, GoOnBecomes, GotoBecomes
  <2>4. QED
    BY <2>1, <2>3
<1>3. \A q \in Reservations : ~polling[q] \/ store[q] = "none" \/ fin[q] => Ended(q)
  BY DEF Told, Ended, Over
<1>4. ThreadKnows(t)'
  BY <1>1, <1>2, SessionsAssumption, ZenonT(60)
     DEF ThreadKnows, Becomes, Left, Done, Frame, MadeInOrder, TypeOK, Threads
<1>5. ASSUME NEW q \in Reservations PROVE Keeps(t, q)
  <2>1. InHand(t, q) => InHand(t, q)' \/ Ended(q) \/ fin'[q]
    BY <1>1, <1>2, <1>3, <1>5, SessionsAssumption, ZenonT(60)
    DEF InHand, ToPurge, Finishing, ThreadKnows, Becomes, Left, Done, Threads
  <2>2. q \in alive => q \in alive' \/ Finishing(t, q)' \/ Ended(q)
    BY <1>1, <1>2, <1>3, <1>5, SessionsAssumption, ZenonT(60)
    DEF Finishing, ThreadKnows, Becomes, Left, Done, Threads
  <2>3. Telling(t, q) => Telling(t, q)' \/ fin'[q]
    BY <1>1, <1>2, <1>3, <1>5, SessionsAssumption, ZenonT(60)
    DEF Telling, ThreadKnows, Becomes, Left, Done, Threads
  <2>4. polling[q] => polling'[q] \/ Telling(t, q)'
    BY <1>1, <1>2, <1>3, <1>5, SessionsAssumption, ZenonT(60)
    DEF Telling, ThreadKnows, Becomes, Left, Done, Threads
  <2>5. thr'[t].pc = "forget" /\ thr'[t].r = q => Ended(q) \/ fin'[q]
    BY <1>1, <1>2, <1>3, <1>5, SessionsAssumption, ZenonT(60)
    DEF ThreadKnows, Becomes, Left, Done, Threads
  <2>6. (Holds(t, q) => lock[q]) => (Holds(t, q)' => lock'[q])
    BY <1>1, <1>2, <1>3, <1>5, SessionsAssumption, ZenonT(60)
    DEF Holds, ThreadKnows, Becomes, Left, Done, Threads
  <2>7. Holds(t, q)' => Holds(t, q) \/ ~lock[q]
    BY <1>1, <1>2, <1>3, <1>5, SessionsAssumption, ZenonT(60)
    DEF Holds, ThreadKnows, Becomes, Left, Done, Threads
  <2>8. lock[q] /\ ~lock'[q] => Holds(t, q)
    BY <1>1, <1>2, <1>3, <1>5, SessionsAssumption, ZenonT(60)
    DEF Holds, ThreadKnows, Becomes, Left, Done, Threads
  <2>9. QED
    BY <2>1, <2>2, <2>3, <2>4, <2>5, <2>6, <2>7, <2>8 DEF Keeps
<1>6. QED
  BY <1>1, <1>2, <1>4, <1>5 DEF Moves, Becomes, Left

LEMMA ReadMoves ==
  ASSUME SessionsAssumption, TypeOK, TypeOK', MadeInOrder, MadeInOrder', Frame,
         Told, ForgetsLast, NEW t \in Threads,
         ThreadKnows(t), Read(t)
  PROVE  Moves(t)
<1>1. /\ thr[t].r \in Done /\ timer' = timer /\ made' = made
      /\ lock \in [Reservations -> BOOLEAN] /\ polling \in [Reservations -> BOOLEAN]
      /\ fin \in [Reservations -> BOOLEAN]
      /\ store \in [Reservations -> {"none", "empty", "full"}]
      /\ thr \in [Threads -> ThreadState]
      /\ thr[t].pc = "read"
      /\ UNCHANGED <<store, lock, fin, polling, alive>>
  BY DEF ThreadKnows, TypeOK, session, Read
<1>2. \E pc \in {"release", "finish", "write"}, op \in {"none", thr[t].op} :
        Becomes(t, pc, op, thr[t].r, thr[t].obj, thr[t].todo)
  <2>1. PICK pc \in {"release", "finish", "write"} : GoOn(t, pc) \/ Goto(t, pc)
    BY DEF Read
  <2>2. pc \in Pcs
    BY DEF Pcs
  <2>3. QED
    BY <1>1, <2>1, <2>2, GoOnBecomes, GotoBecomes
<1>3. \A q \in Reservations : ~polling[q] \/ store[q] = "none" \/ fin[q] => Ended(q)
  BY DEF Told, Ended, Over
<1>4. ThreadKnows(t)'
  <2>1. thr[t].op # "purge" /\ thr[t].op # "logout"
    BY <1>1 DEF ThreadKnows
  <2>2. PICK pc \in {"release", "finish", "write"}, op \in {"none", thr[t].op} :
          Becomes(t, pc, op, thr[t].r, thr[t].obj, thr[t].todo)
    BY <1>2
  <2>3. op # "purge" /\ op # "logout"
    BY <2>1
  <2>4. QED
    BY <1>1, <2>2, <2>3, ZenonT(60) DEF ThreadKnows, Becomes, Done
<1>5. ASSUME NEW q \in Reservations PROVE Keeps(t, q)
  <2>1. InHand(t, q) => InHand(t, q)' \/ Ended(q) \/ fin'[q]
    BY <1>1, <1>2, <1>3, <1>5, SessionsAssumption, ZenonT(60)
    DEF InHand, ToPurge, Finishing, ThreadKnows, Becomes, Left, Done, Threads
  <2>2. q \in alive => q \in alive' \/ Finishing(t, q)' \/ Ended(q)
    BY <1>1, <1>2, <1>3, <1>5, SessionsAssumption, ZenonT(60)
    DEF Finishing, ThreadKnows, Becomes, Left, Done, Threads
  <2>3. Telling(t, q) => Telling(t, q)' \/ fin'[q]
    BY <1>1, <1>2, <1>3, <1>5, SessionsAssumption, ZenonT(60)
    DEF Telling, ThreadKnows, Becomes, Left, Done, Threads
  <2>4. polling[q] => polling'[q] \/ Telling(t, q)'
    BY <1>1, <1>2, <1>3, <1>5, SessionsAssumption, ZenonT(60)
    DEF Telling, ThreadKnows, Becomes, Left, Done, Threads
  <2>5. thr'[t].pc = "forget" /\ thr'[t].r = q => Ended(q) \/ fin'[q]
    BY <1>1, <1>2, <1>3, <1>5, SessionsAssumption, ZenonT(60)
    DEF ThreadKnows, Becomes, Left, Done, Threads
  <2>6. (Holds(t, q) => lock[q]) => (Holds(t, q)' => lock'[q])
    BY <1>1, <1>2, <1>3, <1>5, SessionsAssumption, ZenonT(60)
    DEF Holds, ThreadKnows, Becomes, Left, Done, Threads
  <2>7. Holds(t, q)' => Holds(t, q) \/ ~lock[q]
    BY <1>1, <1>2, <1>3, <1>5, SessionsAssumption, ZenonT(60)
    DEF Holds, ThreadKnows, Becomes, Left, Done, Threads
  <2>8. lock[q] /\ ~lock'[q] => Holds(t, q)
    BY <1>1, <1>2, <1>3, <1>5, SessionsAssumption, ZenonT(60)
    DEF Holds, ThreadKnows, Becomes, Left, Done, Threads
  <2>9. QED
    BY <2>1, <2>2, <2>3, <2>4, <2>5, <2>6, <2>7, <2>8 DEF Keeps
<1>6. QED
  BY <1>1, <1>2, <1>4, <1>5 DEF Moves, Becomes, Left

LEMMA WriteMoves ==
  ASSUME SessionsAssumption, TypeOK, TypeOK', MadeInOrder, MadeInOrder', Frame,
         Told, ForgetsLast, NEW t \in Threads,
         ThreadKnows(t), Write(t)
  PROVE  Moves(t)
<1>1. /\ thr[t].r \in Done /\ timer' = timer /\ made' = made
      /\ lock \in [Reservations -> BOOLEAN] /\ polling \in [Reservations -> BOOLEAN]
      /\ fin \in [Reservations -> BOOLEAN]
      /\ store \in [Reservations -> {"none", "empty", "full"}]
      /\ thr \in [Threads -> ThreadState]
      /\ thr[t].pc = "write" /\ polling' = [polling EXCEPT ![thr[t].r] = TRUE]
      /\ UNCHANGED <<store, lock, fin, alive>>
  BY DEF ThreadKnows, TypeOK, session, Write
<1>2. \E pc \in {"release", "record"}, op \in {"none", thr[t].op} :
        Becomes(t, pc, op, thr[t].r, thr[t].obj, thr[t].todo)
  <2>1. PICK pc \in {"release", "record"} : GoOn(t, pc) \/ Goto(t, pc)
    BY DEF Write
  <2>2. pc \in Pcs
    BY DEF Pcs
  <2>3. QED
    BY <1>1, <2>1, <2>2, GoOnBecomes, GotoBecomes
<1>3. \A q \in Reservations : ~polling[q] \/ store[q] = "none" \/ fin[q] => Ended(q)
  BY DEF Told, Ended, Over
<1>4. ThreadKnows(t)'
  <2>1. thr[t].op # "purge" /\ thr[t].op # "logout"
    BY <1>1 DEF ThreadKnows
  <2>2. PICK pc \in {"release", "record"}, op \in {"none", thr[t].op} :
          Becomes(t, pc, op, thr[t].r, thr[t].obj, thr[t].todo)
    BY <1>2
  <2>3. op # "purge" /\ op # "logout"
    BY <2>1
  <2>4. QED
    BY <1>1, <2>2, <2>3, ZenonT(60) DEF ThreadKnows, Becomes, Done
<1>5. ASSUME NEW q \in Reservations PROVE Keeps(t, q)
  <2>1. InHand(t, q) => InHand(t, q)' \/ Ended(q) \/ fin'[q]
    BY <1>1, <1>2, <1>3, <1>5, SessionsAssumption, ZenonT(60)
    DEF InHand, ToPurge, Finishing, ThreadKnows, Becomes, Left, Done, Threads
  <2>2. q \in alive => q \in alive' \/ Finishing(t, q)' \/ Ended(q)
    BY <1>1, <1>2, <1>3, <1>5, SessionsAssumption, ZenonT(60)
    DEF Finishing, ThreadKnows, Becomes, Left, Done, Threads
  <2>3. Telling(t, q) => Telling(t, q)' \/ fin'[q]
    BY <1>1, <1>2, <1>3, <1>5, SessionsAssumption, ZenonT(60)
    DEF Telling, ThreadKnows, Becomes, Left, Done, Threads
  <2>4. polling[q] => polling'[q] \/ Telling(t, q)'
    BY <1>1, <1>2, <1>3, <1>5, SessionsAssumption, ZenonT(60)
    DEF Telling, ThreadKnows, Becomes, Left, Done, Threads
  <2>5. thr'[t].pc = "forget" /\ thr'[t].r = q => Ended(q) \/ fin'[q]
    BY <1>1, <1>2, <1>3, <1>5, SessionsAssumption, ZenonT(60)
    DEF ThreadKnows, Becomes, Left, Done, Threads
  <2>6. (Holds(t, q) => lock[q]) => (Holds(t, q)' => lock'[q])
    BY <1>1, <1>2, <1>3, <1>5, SessionsAssumption, ZenonT(60)
    DEF Holds, ThreadKnows, Becomes, Left, Done, Threads
  <2>7. Holds(t, q)' => Holds(t, q) \/ ~lock[q]
    BY <1>1, <1>2, <1>3, <1>5, SessionsAssumption, ZenonT(60)
    DEF Holds, ThreadKnows, Becomes, Left, Done, Threads
  <2>8. lock[q] /\ ~lock'[q] => Holds(t, q)
    BY <1>1, <1>2, <1>3, <1>5, SessionsAssumption, ZenonT(60)
    DEF Holds, ThreadKnows, Becomes, Left, Done, Threads
  <2>9. QED
    BY <2>1, <2>2, <2>3, <2>4, <2>5, <2>6, <2>7, <2>8 DEF Keeps
<1>6. QED
  BY <1>1, <1>2, <1>4, <1>5 DEF Moves, Becomes, Left

LEMMA RecordMoves ==
  ASSUME SessionsAssumption, TypeOK, TypeOK', MadeInOrder, MadeInOrder', Frame,
         Told, ForgetsLast, NEW t \in Threads,
         ThreadKnows(t), Record(t)
  PROVE  Moves(t)
<1>1. /\ thr[t].r \in Done /\ timer' = timer /\ made' = made
      /\ lock \in [Reservations -> BOOLEAN] /\ polling \in [Reservations -> BOOLEAN]
      /\ fin \in [Reservations -> BOOLEAN]
      /\ store \in [Reservations -> {"none", "empty", "full"}]
      /\ thr \in [Threads -> ThreadState]
      /\ thr[t].pc = "record"
      /\ UNCHANGED <<store, lock, fin, polling, alive>>
  BY DEF ThreadKnows, TypeOK, session, Record
<1>2. \E pc \in {"release", "write"}, op \in {"none", thr[t].op} :
        Becomes(t, pc, op, thr[t].r, thr[t].obj, thr[t].todo)
  <2>1. PICK pc \in {"release", "write"} : GoOn(t, pc) \/ Goto(t, pc)
    BY DEF Record
  <2>2. pc \in Pcs
    BY DEF Pcs
  <2>3. QED
    BY <1>1, <2>1, <2>2, GoOnBecomes, GotoBecomes
<1>3. \A q \in Reservations : ~polling[q] \/ store[q] = "none" \/ fin[q] => Ended(q)
  BY DEF Told, Ended, Over
<1>4. ThreadKnows(t)'
  <2>1. thr[t].op # "purge" /\ thr[t].op # "logout"
    BY <1>1 DEF ThreadKnows
  <2>2. PICK pc \in {"release", "write"}, op \in {"none", thr[t].op} :
          Becomes(t, pc, op, thr[t].r, thr[t].obj, thr[t].todo)
    BY <1>2
  <2>3. op # "purge" /\ op # "logout"
    BY <2>1
  <2>4. QED
    BY <1>1, <2>2, <2>3, ZenonT(60) DEF ThreadKnows, Becomes, Done
<1>5. ASSUME NEW q \in Reservations PROVE Keeps(t, q)
  <2>1. InHand(t, q) => InHand(t, q)' \/ Ended(q) \/ fin'[q]
    BY <1>1, <1>2, <1>3, <1>5, SessionsAssumption, ZenonT(60)
    DEF InHand, ToPurge, Finishing, ThreadKnows, Becomes, Left, Done, Threads
  <2>2. q \in alive => q \in alive' \/ Finishing(t, q)' \/ Ended(q)
    BY <1>1, <1>2, <1>3, <1>5, SessionsAssumption, ZenonT(60)
    DEF Finishing, ThreadKnows, Becomes, Left, Done, Threads
  <2>3. Telling(t, q) => Telling(t, q)' \/ fin'[q]
    BY <1>1, <1>2, <1>3, <1>5, SessionsAssumption, ZenonT(60)
    DEF Telling, ThreadKnows, Becomes, Left, Done, Threads
  <2>4. polling[q] => polling'[q] \/ Telling(t, q)'
    BY <1>1, <1>2, <1>3, <1>5, SessionsAssumption, ZenonT(60)
    DEF Telling, ThreadKnows, Becomes, Left, Done, Threads
  <2>5. thr'[t].pc = "forget" /\ thr'[t].r = q => Ended(q) \/ fin'[q]
    BY <1>1, <1>2, <1>3, <1>5, SessionsAssumption, ZenonT(60)
    DEF ThreadKnows, Becomes, Left, Done, Threads
  <2>6. (Holds(t, q) => lock[q]) => (Holds(t, q)' => lock'[q])
    BY <1>1, <1>2, <1>3, <1>5, SessionsAssumption, ZenonT(60)
    DEF Holds, ThreadKnows, Becomes, Left, Done, Threads
  <2>7. Holds(t, q)' => Holds(t, q) \/ ~lock[q]
    BY <1>1, <1>2, <1>3, <1>5, SessionsAssumption, ZenonT(60)
    DEF Holds, ThreadKnows, Becomes, Left, Done, Threads
  <2>8. lock[q] /\ ~lock'[q] => Holds(t, q)
    BY <1>1, <1>2, <1>3, <1>5, SessionsAssumption, ZenonT(60)
    DEF Holds, ThreadKnows, Becomes, Left, Done, Threads
  <2>9. QED
    BY <2>1, <2>2, <2>3, <2>4, <2>5, <2>6, <2>7, <2>8 DEF Keeps
<1>6. QED
  BY <1>1, <1>2, <1>4, <1>5 DEF Moves, Becomes, Left

LEMMA AskMoves ==
  ASSUME SessionsAssumption, TypeOK, TypeOK', MadeInOrder, MadeInOrder', Frame,
         Told, ForgetsLast, NEW c \in Clients,
         NEW op \in {"none", "logout"}, NEW r \in Reservations,
         ThreadKnows(c), Ask(c, op, r)
  PROVE  Moves(c)
<1>1. /\ r \in Done /\ timer' = timer /\ made' = made
      /\ lock \in [Reservations -> BOOLEAN] /\ polling \in [Reservations -> BOOLEAN]
      /\ fin \in [Reservations -> BOOLEAN]
      /\ store \in [Reservations -> {"none", "empty", "full"}]
      /\ thr \in [Threads -> ThreadState]
      /\ c \in Threads /\ c \notin Purgers /\ thr[c].pc = "idle"
      /\ op # "purge" /\ (op = "logout" => store[r] # "empty")
      /\ UNCHANGED <<store, lock, polling, alive, fin>>
  BY SessionsAssumption DEF Ask, Done, Threads, TypeOK, Ops, session
<1>2. IF op = "logout"
      THEN IF store[r] = "full" THEN Becomes(c, "finish", op, r, "full", {})
                                ELSE Becomes(c, "forget", op, r, "none", {}) /\ store[r] = "none"
      ELSE Becomes(c, "lock", op, r, "none", {})
  <2>1. IF op = "logout"
        THEN Becomes(c, IF store[r] = "full" THEN "finish" ELSE "forget", op, r, store[r], {})
        ELSE Becomes(c, "lock", op, r, "none", {})
    BY <1>1, AskBecomes
  <2>2. op = "logout" => store[r] \in {"full", "none"}
    BY <1>1
  <2>3. CASE store[r] = "full"
    BY <2>1, <2>3
  <2>4. CASE store[r] = "none"
    BY <2>1, <2>4
  <2>5. QED
    BY <2>1, <2>2, <2>3, <2>4
<1>3. \A q \in Reservations : ~polling[q] \/ store[q] = "none" \/ fin[q] => Ended(q)
  BY DEF Told, Ended, Over
<1>4. ThreadKnows(c)'
  BY <1>1, <1>2, ZenonT(60) DEF Becomes, ThreadKnows, Done
<1>5. ASSUME NEW q \in Reservations PROVE Keeps(c, q)
  <2>1. InHand(c, q) => InHand(c, q)' \/ Ended(q) \/ fin'[q]
    BY <1>1, <1>2, <1>3, <1>5, SessionsAssumption, ZenonT(60)
    DEF InHand, ToPurge, Finishing, ThreadKnows, Becomes, Left, Done, Threads
  <2>2. q \in alive => q \in alive' \/ Finishing(c, q)' \/ Ended(q)
    BY <1>1, <1>2, <1>3, <1>5, SessionsAssumption, ZenonT(60)
    DEF Finishing, ThreadKnows, Becomes, Left, Done, Threads
  <2>3. Telling(c, q) => Telling(c, q)' \/ fin'[q]
    BY <1>1, <1>2, <1>3, <1>5, SessionsAssumption, ZenonT(60)
    DEF Telling, ThreadKnows, Becomes, Left, Done, Threads
  <2>4. polling[q] => polling'[q] \/ Telling(c, q)'
    BY <1>1, <1>2, <1>3, <1>5, SessionsAssumption, ZenonT(60)
    DEF Telling, ThreadKnows, Becomes, Left, Done, Threads
  <2>5. thr'[c].pc = "forget" /\ thr'[c].r = q => Ended(q) \/ fin'[q]
    BY <1>1, <1>2, <1>3, <1>5, SessionsAssumption, ZenonT(60)
    DEF ThreadKnows, Becomes, Left, Done, Threads
  <2>6. (Holds(c, q) => lock[q]) => (Holds(c, q)' => lock'[q])
    BY <1>1, <1>2, <1>3, <1>5, SessionsAssumption, ZenonT(60)
    DEF Holds, ThreadKnows, Becomes, Left, Done, Threads
  <2>7. Holds(c, q)' => Holds(c, q) \/ ~lock[q]
    BY <1>1, <1>2, <1>3, <1>5, SessionsAssumption, ZenonT(60)
    DEF Holds, ThreadKnows, Becomes, Left, Done, Threads
  <2>8. lock[q] /\ ~lock'[q] => Holds(c, q)
    BY <1>1, <1>2, <1>3, <1>5, SessionsAssumption, ZenonT(60)
    DEF Holds, ThreadKnows, Becomes, Left, Done, Threads
  <2>9. QED
    BY <2>1, <2>2, <2>3, <2>4, <2>5, <2>6, <2>7, <2>8 DEF Keeps
<1>6. QED
  BY <1>1, <1>2, <1>4, <1>5 DEF Moves, Becomes, Left

LEMMA NextToPurgeMoves ==
  ASSUME SessionsAssumption, TypeOK, TypeOK', MadeInOrder, MadeInOrder', Frame,
         Told, ForgetsLast, NEW p \in Purgers,
         ThreadKnows(p), NextToPurge(p)
  PROVE  Moves(p)
<1>1. /\ p \in Threads /\ timer' = timer /\ made' = made
      /\ lock \in [Reservations -> BOOLEAN] /\ polling \in [Reservations -> BOOLEAN]
      /\ fin \in [Reservations -> BOOLEAN]
      /\ store \in [Reservations -> {"none", "empty", "full"}]
      /\ thr \in [Threads -> ThreadState]
      /\ p \notin Clients /\ thr[p].pc = "next"
      /\ UNCHANGED <<store, lock, polling, alive, fin>>
  BY SessionsAssumption DEF NextToPurge, Threads, TypeOK, session
<1>2. \E r \in thr[p].todo : Becomes(p, "lock", "purge", r, "none", thr[p].todo \ {r})
  BY <1>1, NextToPurgeBecomes
<1>3. \A q \in Reservations : ~polling[q] \/ store[q] = "none" \/ fin[q] => Ended(q)
  BY DEF Told, Ended, Over
<1>4. ThreadKnows(p)'
  <2>1. thr[p].todo \subseteq Done /\ Done' = Done
    BY <1>1 DEF ThreadKnows, Done
  <2>2. ASSUME NEW r \in thr[p].todo,
               Becomes(p, "lock", "purge", r, "none", thr[p].todo \ {r})
        PROVE  ThreadKnows(p)'
    BY <1>1, <2>1, <2>2 DEF Becomes, ThreadKnows
  <2>3. QED
    BY <1>2, <2>2
<1>5. ASSUME NEW q \in Reservations PROVE Keeps(p, q)
  <2>1. InHand(p, q) => InHand(p, q)' \/ Ended(q) \/ fin'[q]
    BY <1>1, <1>2, <1>3, <1>5, SessionsAssumption, ZenonT(60)
    DEF InHand, ToPurge, Finishing, ThreadKnows, Becomes, Left, Done, Threads
  <2>2. q \in alive => q \in alive' \/ Finishing(p, q)' \/ Ended(q)
    BY <1>1, <1>2, <1>3, <1>5, SessionsAssumption, ZenonT(60)
    DEF Finishing, ThreadKnows, Becomes, Left, Done, Threads
  <2>3. Telling(p, q) => Telling(p, q)' \/ fin'[q]
    BY <1>1, <1>2, <1>3, <1>5, SessionsAssumption, ZenonT(60)
    DEF Telling, ThreadKnows, Becomes, Left, Done, Threads
  <2>4. polling[q] => polling'[q] \/ Telling(p, q)'
    BY <1>1, <1>2, <1>3, <1>5, SessionsAssumption, ZenonT(60)
    DEF Telling, ThreadKnows, Becomes, Left, Done, Threads
  <2>5. thr'[p].pc = "forget" /\ thr'[p].r = q => Ended(q) \/ fin'[q]
    BY <1>1, <1>2, <1>3, <1>5, SessionsAssumption, ZenonT(60)
    DEF ThreadKnows, Becomes, Left, Done, Threads
  <2>6. (Holds(p, q) => lock[q]) => (Holds(p, q)' => lock'[q])
    BY <1>1, <1>2, <1>3, <1>5, SessionsAssumption, ZenonT(60)
    DEF Holds, ThreadKnows, Becomes, Left, Done, Threads
  <2>7. Holds(p, q)' => Holds(p, q) \/ ~lock[q]
    BY <1>1, <1>2, <1>3, <1>5, SessionsAssumption, ZenonT(60)
    DEF Holds, ThreadKnows, Becomes, Left, Done, Threads
  <2>8. lock[q] /\ ~lock'[q] => Holds(p, q)
    BY <1>1, <1>2, <1>3, <1>5, SessionsAssumption, ZenonT(60)
    DEF Holds, ThreadKnows, Becomes, Left, Done, Threads
  <2>9. QED
    BY <2>1, <2>2, <2>3, <2>4, <2>5, <2>6, <2>7, <2>8 DEF Keeps
<1>6. QED
  BY <1>1, <1>2, <1>4, <1>5 DEF Moves, Becomes, Left

-----------------------------------------------------------------------------
(* The invariant.                                                          *)

Listed == alive \cup timer.found \cup timer.expired

(* What is over stays so; who is over and not finished is in hands.         *)
LEMMA EndedStays ==
  ASSUME Frame, \A r \in Reservations : Over(r) => Over(r)', NEW r \in Done, Ended(r)
  PROVE  Ended(r)' /\ (store'[r] = "full" /\ ~fin'[r] => InHands(r)')
<1>1. r \in Reservations
  BY DEF Done
<1>2. Ended(r)'
  BY <1>1 DEF Frame, Ended
<1>3. Over(r)' /\ ~fin'[r] => InHands(r)'
  BY DEF Over, Telling, InHands, Finishing
<1>4. QED
  BY <1>2, <1>3 DEF Ended

LEMMA MovesKeep ==
  ASSUME TypeOK, TypeOK', MadeInOrder', Frame, ThreadsKnow, Told, ForgetsLast, Watched,
         OneAtATime, NEW t \in Threads, Moves(t)
  PROVE  ThreadsKnow' /\ Told' /\ ForgetsLast' /\ Watched' /\ OneAtATime'
<1>1. ThreadsKnow'
  <2>1. ASSUME NEW u \in Threads PROVE ThreadKnows(u)'
    <3>1. CASE u = t
      BY <3>1 DEF Moves
    <3>2. CASE u # t
      BY <3>2, Others DEF Moves, ThreadsKnow
    <3>3. QED
      BY <3>1, <3>2
  <2>2. QED
    BY <2>1 DEF ThreadsKnow
<1>2. ASSUME NEW r \in Reservations, Over(r) PROVE Over(r)'
  <2>1. CASE fin[r]
    BY <2>1 DEF Frame, Over
  <2>2. ASSUME NEW u \in Threads, Telling(u, r) PROVE Over(r)'
    <3>1. CASE u = t
      BY <2>2, <3>1 DEF Moves, Keeps, Over
    <3>2. CASE u # t
      BY <2>2, <3>2 DEF Moves, Telling, Over
    <3>3. QED
      BY <3>1, <3>2
  <2>3. QED
    BY <1>2, <2>1, <2>2 DEF Over
<1>3. ASSUME NEW r \in Reservations PROVE polling'[r] \/ Over(r)'
  BY <1>2 DEF Told, Moves, Keeps, Over
<1>4. ASSUME NEW u \in Threads, NEW r \in Reservations,
             thr'[u].pc = "forget", thr'[u].r = r
      PROVE  Ended(r)'
  <2>1. r \in Done
    BY <1>1, <1>4 DEF ThreadsKnow, ThreadKnows, Moves, Done
  <2>2. Ended(r) \/ fin'[r]
    <3>1. CASE u = t
      BY <1>4, <3>1 DEF Moves, Keeps
    <3>2. CASE u # t
      BY <1>4, <3>2 DEF Moves, ForgetsLast
    <3>3. QED
      BY <3>1, <3>2
  <2>3. QED
    BY <1>2, <2>1, <2>2, EndedStays DEF Ended, Over
<1>5. ASSUME NEW r \in Reservations,
             made'[r] = "done", store'[r] = "full", ~fin'[r]
      PROVE  r \in alive' \/ InHands(r)'
  <2>1. r \in Done
    BY <1>5 DEF Moves, Done
  <2>2. CASE Ended(r)
    BY <1>2, <1>5, <2>1, <2>2, EndedStays
  <2>3. CASE ~Ended(r)
    <3>1. made[r] = "done" /\ store[r] = "full" /\ ~fin[r]
      BY <1>5, <2>1 DEF Frame, Done
    <3>2. CASE r \in timer.found \cup timer.expired
      BY <3>2 DEF Moves, InHands
    <3>3. CASE r \in alive
      BY <2>3, <3>3 DEF Moves, Keeps, InHands
    <3>4. ASSUME NEW u \in Threads, InHand(u, r) PROVE InHands(r)'
      <4>1. CASE u = t
        <5>1. InHand(t, r)'
          BY <1>5, <2>3, <3>4, <4>1 DEF Moves, Keeps
        <5>2. QED
          BY <5>1 DEF InHands, InHand
      <4>2. CASE u # t
        BY <3>4, <4>2 DEF Moves, InHands, InHand, ToPurge, Finishing
      <4>3. QED
        BY <4>1, <4>2
    <3>5. QED
      BY <3>1, <3>2, <3>3, <3>4 DEF Watched, InHands, InHand
  <2>4. QED
    BY <2>2, <2>3
<1>6. ASSUME NEW r \in Reservations, NEW u \in Threads, NEW v \in Threads,
             Holds(u, r)', Holds(v, r)'
      PROVE  u = v /\ lock'[r]
  <2>1. \A w \in Threads : Holds(w, r) => lock[r]
    BY DEF OneAtATime
  <2>2. \A w \in Threads : w # t => (Holds(w, r)' <=> Holds(w, r))
    BY DEF Moves, Holds
  <2>3. lock[r] /\ ~lock'[r] => Holds(t, r)
    BY DEF Moves, Keeps
  <2>4. Holds(t, r)' => lock'[r] /\ (Holds(t, r) \/ ~lock[r])
    BY <2>1 DEF Moves, Keeps
  <2>5. CASE u = t /\ v = t
    BY <1>6, <2>4, <2>5
  <2>6. CASE u # t /\ v # t
    BY <1>6, <2>1, <2>2, <2>3, <2>6 DEF OneAtATime
  <2>7. CASE u = t /\ v # t
    BY <1>6, <2>1, <2>2, <2>4, <2>7 DEF OneAtATime
  <2>8. CASE u # t /\ v = t
    BY <1>6, <2>1, <2>2, <2>4, <2>8 DEF OneAtATime
  <2>9. QED
    BY <2>5, <2>6, <2>7, <2>8
<1>7. QED
  BY <1>1, <1>3, <1>4, <1>5, <1>6 DEF Told, ForgetsLast, Watched, OneAtATime

LEMMA StandingKeeps ==
  ASSUME TypeOK, TypeOK', MadeInOrder', Frame, ThreadsKnow, Told, ForgetsLast, Watched,
         OneAtATime, UNCHANGED <<thr, lock, polling>>,
         \A r \in Listed : r \in Listed' \/ fin[r]
  PROVE  ThreadsKnow' /\ Told' /\ ForgetsLast' /\ Watched' /\ OneAtATime'
<1>1. ThreadsKnow'
  BY Others DEF ThreadsKnow
<1>2. \A r \in Reservations : Over(r) => Over(r)'
  BY DEF Over, Telling, Frame
<1>3. Told'
  BY <1>2 DEF Told
<1>4. ForgetsLast'
  <2>1. ASSUME NEW u \in Threads, NEW r \in Reservations,
               thr'[u].pc = "forget", thr'[u].r = r
        PROVE  Ended(r)'
    <3>1. r \in Done /\ Ended(r)
      BY <2>1 DEF ThreadsKnow, ThreadKnows, ForgetsLast
    <3>2. QED
      BY <1>2, <3>1, EndedStays
  <2>2. QED
    BY <2>1 DEF ForgetsLast
<1>5. ASSUME NEW r \in Reservations,
             made'[r] = "done", store'[r] = "full", ~fin'[r]
      PROVE  r \in alive' \/ InHands(r)'
  <2>1. CASE r \notin Done
    BY <1>5, <2>1 DEF Frame
  <2>2. CASE r \in Done
    <3>1. made[r] = "done" /\ store[r] = "full" /\ ~fin[r]
      BY <1>5, <2>2 DEF Frame, Done
    <3>2. r \in Listed \/ \E u \in Threads : InHand(u, r)
      BY <3>1 DEF Watched, InHands, InHand, Listed
    <3>3. r \in Listed' \/ \E u \in Threads : InHand(u, r)
      BY <3>1, <3>2
    <3>4. QED
      BY <3>3 DEF Listed, InHands, InHand, ToPurge, Finishing
  <2>3. QED
    BY <2>1, <2>2
<1>6. OneAtATime'
  BY DEF OneAtATime, Holds
<1>7. QED
  BY <1>1, <1>3, <1>4, <1>5, <1>6 DEF Watched

LEMMA StartPurgeKeeps ==
  ASSUME SessionsAssumption, TypeOK, TypeOK', MadeInOrder', Frame, TimerKnows, ThreadsKnow,
         Told, ForgetsLast, Watched, OneAtATime, StartPurge
  PROVE  ThreadsKnow' /\ Told' /\ ForgetsLast' /\ Watched' /\ OneAtATime'
<1> DEFINE gone == timer.found \cup timer.expired
<1>1. /\ UNCHANGED <<made, store, lock, polling, alive, fin>>
      /\ thr \in [Threads -> ThreadState] /\ gone \subseteq Done /\ gone \subseteq Reservations
  BY DEF StartPurge, session, TypeOK, TimerKnows, Done
<1>2. CASE gone = {} /\ UNCHANGED thr
  <2>1. \A r \in Listed : r \in Listed'
    BY <1>1, <1>2 DEF Listed
  <2>2. QED
    BY <1>1, <1>2, <2>1, StandingKeeps
<1>3. ASSUME NEW p \in Purgers, thr[p].pc = "idle",
             Becomes(p, "next", "none", NoReservation, "none", gone)
      PROVE  ThreadsKnow' /\ Told' /\ ForgetsLast' /\ Watched' /\ OneAtATime'
  <2>0. p \in Threads /\ p \notin Clients /\ ThreadKnows(p)
    BY SessionsAssumption DEF Threads, ThreadsKnow
  <2>1. \A u \in Threads : u # p => thr'[u] = thr[u]
    BY <1>3 DEF Becomes
  <2>2. ThreadKnows(p)'
    BY <1>1, <1>3, <2>0 DEF Becomes, ThreadKnows, Done
  <2>3. ThreadsKnow'
    <3>1. ASSUME NEW u \in Threads PROVE ThreadKnows(u)'
      BY <2>1, <2>2, Others DEF ThreadsKnow
    <3>2. QED
      BY <3>1 DEF ThreadsKnow
  <2>4. \A r \in Reservations : Over(r) => Over(r)'
    <3>1. ASSUME NEW r \in Reservations, NEW u \in Threads, Telling(u, r) PROVE Telling(u, r)'
      BY <1>3, <2>1, <3>1 DEF Telling
    <3>2. QED
      BY <1>1, <3>1 DEF Over
  <2>5. Told'
    BY <1>1, <2>4 DEF Told
  <2>6. ASSUME NEW u \in Threads, NEW r \in Reservations,
               thr'[u].pc = "forget", thr'[u].r = r
        PROVE  Ended(r)'
    <3>1. thr'[u] = thr[u]
      BY <1>3, <2>1, <2>6 DEF Becomes
    <3>2. r \in Done /\ Ended(r)
      BY <2>6, <3>1 DEF ThreadsKnow, ThreadKnows, ForgetsLast
    <3>3. QED
      BY <2>4, <3>2, EndedStays
  <2>7. ASSUME NEW r \in Reservations, made'[r] = "done", store'[r] = "full", ~fin'[r]
        PROVE  r \in alive' \/ InHands(r)'
    <3>1. r \in alive \/ r \in gone \/ \E u \in Threads : InHand(u, r)
      BY <1>1, <2>7 DEF Watched, InHands, InHand
    <3>2. CASE r \in gone
      BY <1>3, <2>0, <3>2 DEF Becomes, InHands, ToPurge
    <3>3. ASSUME NEW u \in Threads, InHand(u, r) PROVE InHands(r)'
      <4>1. u # p
        BY <1>3, <2>0, <3>3 DEF InHand, ToPurge, Finishing, ThreadKnows
      <4>2. thr'[u] = thr[u]
        BY <2>1, <4>1
      <4>3. QED
        BY <3>3, <4>2 DEF InHands, InHand, ToPurge, Finishing
    <3>4. QED
      BY <1>1, <3>1, <3>2, <3>3
  <2>8. OneAtATime'
    <3>1. \A u \in Threads, r \in Reservations : Holds(u, r)' => Holds(u, r)
      BY <1>3, <2>1 DEF Becomes, Holds
    <3>2. QED
      BY <1>1, <3>1 DEF OneAtATime
  <2>9. QED
    BY <2>3, <2>5, <2>6, <2>7, <2>8 DEF ForgetsLast, Watched
<1>4. QED
  BY <1>1, <1>2, <1>3, StartPurgeBecomes

(* The steps that move no thread, and lose nobody: who is dropped from the  *)
(* list when the queue is read, or lost when the checks end, is over.       *)
Stands ==
  \/ \E r \in Reservations : Reserve(r) \/ TimePasses(r) \/ ExperimentFinishes(r)
                             \/ DeleteSession(r) \/ CheckOne(r)
  \/ TakeFinished \/ StartCheck \/ ReadOne \/ EndCheck
  \/ UNCHANGED vars

LEMMA NobodyLost ==
  ASSUME TypeOK, TimerKnows, Stands
  PROVE  UNCHANGED <<thr, lock, polling>> /\ \A r \in Listed : r \in Listed' \/ fin[r]
<1>1. ASSUME NEW r \in Reservations, Reserve(r) \/ TimePasses(r) \/ ExperimentFinishes(r)
                                     \/ DeleteSession(r)
      PROVE  UNCHANGED <<thr, lock, polling, timer>> /\ alive \subseteq alive'
  BY <1>1 DEF Reserve, AddUser, CreateSession, StoreSession, TimePasses,
     ExperimentFinishes, DeleteSession, session
<1>2. ASSUME timer.pc \in {"checking", "reading"}, Die, alive' = alive
      PROVE  \A r \in Listed : r \in Listed' \/ fin[r]
  <2>1. timer.expired \subseteq alive /\ \A r \in timer.found : fin[r]
    BY <1>2 DEF TimerKnows
  <2>2. QED
    BY <1>2, <2>1 DEF Listed
<1>3. ASSUME NEW r \in Reservations, NEW gone \in BOOLEAN, Judge(r, gone), alive' = alive
      PROVE  \A q \in Listed : q \in Listed' \/ fin[q]
  <2>1. timer'.found = timer.found /\ timer.expired \subseteq timer'.expired
    BY <1>3 DEF Judge, TypeOK, TimerState
  <2>2. QED
    BY <1>3, <2>1 DEF Listed
<1>4. ASSUME NEW r \in Reservations, CheckOne(r)
      PROVE  UNCHANGED <<thr, lock, polling>> /\ \A q \in Listed : q \in Listed' \/ fin[q]
  <2>1. timer.pc = "checking" /\ UNCHANGED <<thr, lock, polling, alive>>
    BY <1>4 DEF CheckOne, session
  <2>2. CASE timer' = [timer EXCEPT !.pc = "reading", !.one = r]
    <3>1. timer'.found = timer.found /\ timer'.expired = timer.expired
      BY <2>2 DEF TypeOK, TimerState
    <3>2. QED
      BY <2>1, <3>1 DEF Listed
  <2>3. QED
    BY <1>2, <1>3, <1>4, <2>1, <2>2, CheckOneSteps
<1>5. CASE ReadOne
  <2>1. timer.pc = "reading" /\ UNCHANGED <<thr, lock, polling, alive>>
    BY <1>5 DEF ReadOne, session
  <2>2. timer.one \in Reservations
    BY <2>1 DEF TimerKnows, Done
  <2>3. Die \/ Judge(timer.one, TRUE) \/ Judge(timer.one, FALSE)
    BY <1>5 DEF ReadOne, TimeIsUp
  <2>4. QED
    BY <1>2, <1>3, <2>1, <2>2, <2>3
<1>6. CASE TakeFinished
  <2>1. timer = IdleTimer /\ UNCHANGED <<thr, lock, polling>> /\ alive' = alive \ finishedStore
    BY <1>6 DEF TakeFinished, TimerKnows, session
  <2>2. timer.found = {} /\ timer.expired = {}
    BY <2>1 DEF IdleTimer
  <2>3. timer'.found = finishedStore
    BY <1>6 DEF TakeFinished, TypeOK, TimerState
  <2>4. QED
    BY <2>1, <2>2, <2>3 DEF Listed
<1>7. CASE StartCheck
  <2>1. /\ UNCHANGED <<thr, lock, polling, alive>>
        /\ timer'.found = timer.found /\ timer'.expired = timer.expired
    BY <1>7 DEF StartCheck, TypeOK, TimerState, session
  <2>2. QED
    BY <2>1 DEF Listed
<1>8. CASE EndCheck
  <2>1. /\ UNCHANGED <<thr, lock, polling>> /\ alive' = alive \ timer.expired
        /\ timer'.found = timer.found /\ timer'.expired = timer.expired
    BY <1>8 DEF EndCheck, TypeOK, TimerState, session
  <2>2. QED
    BY <2>1 DEF Listed
<1>9. CASE UNCHANGED vars
  BY <1>9 DEF vars, Listed, session
<1>10. QED
  BY <1>1, <1>4, <1>5, <1>6, <1>7, <1>8, <1>9 DEF Stands, Listed

LEMMA InitInv == SessionsAssumption /\ Init => IInv
<1> SUFFICES ASSUME SessionsAssumption, Init PROVE IInv
  OBVIOUS
<1>1. TypeOK
  BY DEF Init, TypeOK, ThreadState, TimerState, Pcs, Idle, IdleTimer
<1>2. MadeInOrder /\ TimerKnows /\ Watched
  BY DEF Init, MadeInOrder, TimerKnows, Watched, IdleTimer, Done
<1>3. ThreadsKnow /\ ForgetsLast /\ OneAtATime
  BY DEF Init, ThreadsKnow, ThreadKnows, ForgetsLast, OneAtATime, Holds, Idle, Done
<1>4. Told
  BY DEF Init, Told
<1>5. QED
  BY <1>1, <1>2, <1>3, <1>4 DEF IInv

LEMMA InvKept ==
  ASSUME SessionsAssumption, ~ChecksWhileReserving, IInv, [Next]_vars
  PROVE  IInv'
<1> USE DEF IInv
<1>1. TypeOK' /\ MadeInOrder' /\ TimerKnows' /\ Frame
  BY TypesKept, MadeInOrderKept, TimerKnowsKept, StepFrame
<1>2. ASSUME NEW t \in Threads, Work(t) PROVE Moves(t)
  BY <1>1, <1>2, LockMoves, ActMoves, ReadMoves, WriteMoves, RecordMoves, FinishMoves,
     StopPollingMoves, PopMoves, TellCoordinatorMoves, ReleaseMoves, ForgetMoves
  DEF Work, ThreadsKnow
<1>3. ASSUME NEW p \in Purgers, NextToPurge(p) PROVE p \in Threads /\ Moves(p)
  BY <1>1, <1>3, NextToPurgeMoves DEF Threads, ThreadsKnow
<1>4. ASSUME NEW c \in Clients, NEW op \in {"none", "logout"}, NEW r \in Reservations, Ask(c, op, r)
      PROVE  c \in Threads /\ Moves(c)
  BY <1>1, <1>4, AskMoves DEF Threads, ThreadsKnow
<1>5. CASE \E t \in Threads : Moves(t)
  BY <1>1, <1>5, MovesKeep
<1>6. CASE StartPurge
  BY <1>1, <1>6, StartPurgeKeeps
<1>7. CASE Stands
  BY <1>1, <1>7, NobodyLost, StandingKeeps
<1>8. Stands \/ StartPurge \/ \E t \in Threads : Moves(t)
  BY <1>2, <1>3, <1>4 DEF Next, Stands, Check
<1>9. QED
  BY <1>5, <1>6, <1>7, <1>8

(* The inductive invariant holds in every state, while no check of the     *)
(* list of users falls within reserve_experiment().                        *)
THEOREM SessionsInvariant ==
  SessionsAssumption /\ ~ChecksWhileReserving => (Spec => []IInv)
<1> SUFFICES ASSUME SessionsAssumption, ~ChecksWhileReserving PROVE Spec => []IInv
  OBVIOUS
<1>1. Init => IInv
  BY InitInv
<1>2. IInv /\ [Next]_vars => IInv'
  BY InvKept
<1>3. QED
  BY <1>1, <1>2, PTL DEF Spec

(* The variables of the sessions, of the list of users and of the threads  *)
(* keep their types.                                                       *)
THEOREM SessionsTypes == ~ChecksWhileReserving => (Spec => []TypeOK)
<1>1. IInv => TypeOK
  BY DEF IInv
<1>2. QED
  BY <1>1, SessionsInvariant, SessionsAssumption, PTL

(* No order of requests, logouts, checks and purges leaves behind a        *)
(* reservation that goes on and that nobody will look at.                  *)
THEOREM NobodyIsLeftBehind == ~ChecksWhileReserving => (Spec => []Watched)
<1>1. IInv => Watched
  BY DEF IInv
<1>2. QED
  BY <1>1, SessionsInvariant, SessionsAssumption, PTL

(* One thread at a time works on a session under its lock.                 *)
THEOREM SessionsAreLocked == ~ChecksWhileReserving => (Spec => []OneAtATime)
<1>1. IInv => OneAtATime
  BY DEF IInv
<1>2. QED
  BY <1>1, SessionsInvariant, SessionsAssumption, PTL

=============================================================================
