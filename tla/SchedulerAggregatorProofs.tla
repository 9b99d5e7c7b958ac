---------------------- MODULE SchedulerAggregatorProofs ----------------------
(***************************************************************************)
(* Whatever the number of reservations, schedulers, core servers and       *)
(* requests, however slow the requests for the status and the confirming   *)
(* threads are, whenever users leave: a reservation is promoted in one     *)
(* scheduler, has left the others when it can be used, and is always in    *)
(* some queue until then.                                                  *)
(***************************************************************************)
EXTENDS SchedulerAggregator, TLAPS

Promoted(r) == \E s \in Schedulers : Active(pqdata[s][r])

(* Where a thread is tells what it is for.                                 *)
ThreadsInOrder ==
  \A t \in Threads :
    /\ thr[t].pc = "idle" <=> thr[t].op = "none"
    /\ thr[t].pc = "idle" => thr[t].r = NoReservation
    /\ thr[t].pc \in {"next", "look"} => thr[t].op \in {"reserve", "status"}
    /\ thr[t].pc \in {"lock", "assign", "unlock", "abandon"} =>
         thr[t].op \in {"reserve", "status", "confirm"}
    /\ thr[t].pc \in {"lab", "list", "write"} => thr[t].op = "confirm"
    /\ thr[t].op = "confirm" => thr[t].s \in Schedulers
    /\ thr[t].pc = "each" => thr[t].op # "expire"
    /\ thr[t].pc = "purge" => thr[t].op \in {"finish", "expire"}
    /\ thr[t].won => thr[t].q \in Schedulers

StoredIsAccessed(r) == r \in stored => r \in accessed

(* Before it is made, a reservation is nowhere.                            *)
Works(u, r) == up[u].r = r /\ up[u].pc # "pick"
Nowhere(r) ==
  /\ r \notin current /\ assoc[r] = {}
  /\ \A s \in Schedulers : pqdata[s][r] = "absent" /\ place[s][r] = 0
  /\ \A u \in Updaters : ~Works(u, r)
FreshIsNowhere(r) ==
  r \in fresh => r \notin stored /\ Nowhere(r) /\ \A t \in Threads : thr[t].r # r

(* While it is made, at most the threads that confirm it are there, which  *)
(* wait for the lock; it enters each scheduler once.                       *)
Reserving(t, r) == thr[t].op = "reserve" /\ thr[t].r = r
Alone(t, r) ==
  /\ r \in stored
  /\ \A x \in Threads \ {t} :
       thr[x].r = r => thr[x].op = "confirm" /\ thr[x].pc \in {"lab", "lock"}
  /\ thr[t].pc = "lock" => Nowhere(r) /\ \A x \in Threads \ {t} : thr[x].r # r
  /\ thr[t].pc # "lock" => r \in locked
  /\ thr[t].pc \in {"next", "look"} => \A s \in thr[t].todo : s \notin assoc[r]
  /\ \A s \in Schedulers : pqdata[s][r] # "reserved"
ReservesAlone(r) == \A t \in Threads : Reserving(t, r) => Alone(t, r)

(* One updater at a time holds CURRENT of a reservation, until it is       *)
(* promoted.                                                               *)
Owner(u, r) == up[u].r = r /\ up[u].pc \in {"acquire", "read", "set"}
Owned(r) ==
  /\ \A u \in Updaters : Owner(u, r) => r \in current /\ ~Promoted(r) /\ Queue(u) \in assoc[r]
  /\ \A u, v \in Updaters : Owner(u, r) /\ Owner(v, r) => u = v
Trying(r) ==
  \A u \in Updaters : up[u].r = r =>
    /\ up[u].pc \in {"exists", "confirm"} => Queue(u) \in assoc[r] \/ Promoted(r)
    /\ up[u].pc = "dequeue" => Active(pqdata[Queue(u)][r])

PromotedIsCurrent(r) ==
  \A s \in Schedulers : Active(pqdata[s][r]) => r \in current /\ s \in assoc[r]
Once(r) ==
  \A s, q \in Schedulers : Active(pqdata[s][r]) /\ Active(pqdata[q][r]) => s = q

(* It is in the queues it is associated to, and in others only for as long *)
(* as somebody takes it out.                                               *)
InQueues(r) ==
  \A s \in Schedulers :
    /\ place[s][r] # 0 => s \in assoc[r] \/ Promoted(r)
    /\ s \in assoc[r] => place[s][r] # 0 \/ Active(pqdata[s][r])
Joins(t, r) ==
  Reserving(t, r) /\ (thr[t].pc = "lock" \/ (thr[t].pc = "next" /\ thr[t].todo = Schedulers))
HasJoined(r) == assoc[r] = {} => \E t \in Threads : Joins(t, r)

(* Threads that assign it know where it is promoted, and take it out of    *)
(* the others.                                                             *)
Assigning(t, r) ==
  /\ thr[t].op = "confirm" \/ thr[t].pc \in {"assign", "each", "clean", "delete"} =>
       thr[t].s \in Schedulers /\ Active(pqdata[thr[t].s][r])
  /\ thr[t].pc \in {"each", "clean", "delete"} => thr[t].s \notin thr[t].todo
  /\ thr[t].pc \in {"clean", "delete"} => thr[t].q # thr[t].s /\ thr[t].q \notin assoc[r]
Confirming(t, r) ==
  thr[t].op = "confirm" =>
    /\ thr[t].pc \in {"each", "clean", "delete"} => assoc[r] \subseteq thr[t].todo \cup {thr[t].s}
    /\ thr[t].pc \in {"unlock", "list", "write"} => assoc[r] = {thr[t].s}
    /\ thr[t].pc = "write" => thr[t].todo \subseteq {thr[t].s}
Assigned(r) == \A t \in Threads : thr[t].r = r => Assigning(t, r) /\ Confirming(t, r)
OnlyScheduler(r) == \A s \in Schedulers : pqdata[s][r] = "reserved" => assoc[r] = {s}

Consistent(r) ==
  /\ Owned(r) /\ Trying(r) /\ PromotedIsCurrent(r) /\ Once(r) /\ InQueues(r)
  /\ HasJoined(r) /\ Assigned(r) /\ OnlyScheduler(r)

Good(r) ==
  /\ StoredIsAccessed(r) /\ FreshIsNowhere(r) /\ ReservesAlone(r)
  /\ Alive(r) => Consistent(r)

IInv == TypeOK /\ ThreadsInOrder /\ \A r \in Reservations : Good(r)

-----------------------------------------------------------------------------
(* What a step does to the thread or to the updater that takes it.         *)

Becomes(t, op, pc, r, todo, q, s) ==
  /\ thr' \in [Threads -> ThreadState]
  /\ \A x \in Threads : x # t => thr'[x] = thr[x]
  /\ thr'[t].op = op /\ thr'[t].pc = pc /\ thr'[t].r = r /\ thr'[t].todo = todo
  /\ thr'[t].q = q /\ thr'[t].s = s
  /\ thr'[t].won => (thr[t].won /\ q = thr[t].q) \/ q \in Schedulers

LEMMA ThreadBecomes ==
  ASSUME thr \in [Threads -> ThreadState], NEW t \in Threads, NEW a \in ThreadState,
         thr' = [thr EXCEPT ![t] = a],
         a.won => (thr[t].won /\ a.q = thr[t].q) \/ a.q \in Schedulers
  PROVE  Becomes(t, a.op, a.pc, a.r, a.todo, a.q, a.s)
  BY DEF Becomes

Pcs == {"idle", "lab", "lock", "next", "look", "assign", "each", "clean", "delete",
        "purge", "unlock", "abandon", "list", "write"}
Ops == {"none", "reserve", "status", "confirm", "finish", "expire"}

LEMMA StartBecomes ==
  ASSUME thr \in [Threads -> ThreadState], NEW t \in Threads,
         NEW op \in Ops, NEW pc \in Pcs, NEW r \in Reservations, NEW todo \in SUBSET Schedulers,
         NEW q \in Schedulers \cup {NoScheduler}, NEW s \in Schedulers \cup {NoScheduler},
         Start(t, op, pc, r, todo, q, s)
  PROVE  Becomes(t, op, pc, r, todo, q, s)
<1> DEFINE a == [op |-> op, pc |-> pc, r |-> r, todo |-> todo, q |-> q, s |-> s, won |-> FALSE]
<1>1. /\ a \in ThreadState /\ a.op = op /\ a.pc = pc /\ a.r = r /\ a.todo = todo
      /\ a.q = q /\ a.s = s /\ ~a.won
  BY DEF ThreadState, Pcs, Ops
<1>2. thr' = [thr EXCEPT ![t] = a]
  BY DEF Start
<1>3. Becomes(t, a.op, a.pc, a.r, a.todo, a.q, a.s)
  <2> HIDE DEF a
  <2> QED BY <1>1, <1>2, ThreadBecomes
<1>4. QED
  BY <1>1, <1>3

LEMMA GotoBecomes ==
  ASSUME thr \in [Threads -> ThreadState], NEW t \in Threads, NEW pc \in Pcs, Goto(t, pc)
  PROVE  Becomes(t, thr[t].op, pc, thr[t].r, thr[t].todo, thr[t].q, thr[t].s)
<1> DEFINE a == [thr[t] EXCEPT !.pc = pc]
<1>1. /\ a \in ThreadState /\ a.op = thr[t].op /\ a.pc = pc /\ a.r = thr[t].r
      /\ a.todo = thr[t].todo /\ a.q = thr[t].q /\ a.s = thr[t].s /\ a.won = thr[t].won
  BY DEF ThreadState, Pcs
<1>2. thr' = [thr EXCEPT ![t] = a]
  BY DEF Goto
<1>3. Becomes(t, a.op, a.pc, a.r, a.todo, a.q, a.s)
  <2> HIDE DEF a
  <2> QED BY <1>1, <1>2, ThreadBecomes
<1>4. QED
  BY <1>1, <1>3

LEMMA GotoWithBecomes ==
  ASSUME thr \in [Threads -> ThreadState], NEW t \in Threads, NEW pc \in Pcs,
         NEW todo \in SUBSET Schedulers, GotoWith(t, pc, todo)
  PROVE  Becomes(t, thr[t].op, pc, thr[t].r, todo, thr[t].q, thr[t].s)
<1> DEFINE a == [thr[t] EXCEPT !.pc = pc, !.todo = todo]
<1>1. /\ a \in ThreadState /\ a.op = thr[t].op /\ a.pc = pc /\ a.r = thr[t].r
      /\ a.todo = todo /\ a.q = thr[t].q /\ a.s = thr[t].s /\ a.won = thr[t].won
  BY ZenonT(60) DEF ThreadState, Pcs
<1>2. thr' = [thr EXCEPT ![t] = a]
  BY DEF GotoWith
<1>3. Becomes(t, a.op, a.pc, a.r, a.todo, a.q, a.s)
  <2> HIDE DEF a
  <2> QED BY <1>1, <1>2, ThreadBecomes
<1>4. QED
  BY <1>1, <1>3

LEMMA GotoNextBecomes ==
  ASSUME thr \in [Threads -> ThreadState], NEW t \in Threads, NEW pc \in Pcs,
         NEW q \in Schedulers, GotoNext(t, pc, q)
  PROVE  Becomes(t, thr[t].op, pc, thr[t].r, thr[t].todo \ {q}, q, thr[t].s)
<1> DEFINE a == [thr[t] EXCEPT !.pc = pc, !.q = q, !.todo = @ \ {q}]
<1>1. /\ a \in ThreadState /\ a.op = thr[t].op /\ a.pc = pc /\ a.r = thr[t].r
      /\ a.todo = thr[t].todo \ {q} /\ a.q = q /\ a.s = thr[t].s
  BY ZenonT(60) DEF ThreadState, Pcs
<1>2. thr' = [thr EXCEPT ![t] = a]
  BY DEF GotoNext
<1>3. Becomes(t, a.op, a.pc, a.r, a.todo, a.q, a.s)
  <2> HIDE DEF a
  <2> QED BY <1>1, <1>2, ThreadBecomes
<1>4. QED
  BY <1>1, <1>3

LEMMA GotoWonBecomes ==
  ASSUME thr \in [Threads -> ThreadState], NEW t \in Threads, NEW pc \in Pcs,
         NEW won, won \in BOOLEAN, GotoWon(t, pc, won), thr[t].q \in Schedulers
  PROVE  Becomes(t, thr[t].op, pc, thr[t].r, thr[t].todo, thr[t].q, thr[t].s)
<1> DEFINE a == [thr[t] EXCEPT !.pc = pc, !.won = won]
<1>1. /\ a.op = thr[t].op /\ a.pc = pc /\ a.r = thr[t].r
      /\ a.todo = thr[t].todo /\ a.q = thr[t].q /\ a.s = thr[t].s
  BY DEF ThreadState, Pcs
<1>2. a \in ThreadState
  <2>1. CASE won = TRUE
    BY <2>1, ZenonT(60) DEF ThreadState, Pcs
  <2>2. CASE won = FALSE
    BY <2>2, ZenonT(60) DEF ThreadState, Pcs
  <2>3. QED
    BY <2>1, <2>2
<1>3. thr' = [thr EXCEPT ![t] = a]
  BY DEF GotoWon
<1>4. Becomes(t, a.op, a.pc, a.r, a.todo, a.q, a.s)
  <2> HIDE DEF a
  <2> QED BY <1>1, <1>2, <1>3, ThreadBecomes
<1>5. QED
  BY <1>1, <1>4

LEMMA EndBecomes ==
  ASSUME thr \in [Threads -> ThreadState], NEW t \in Threads, End(t)
  PROVE  Becomes(t, "none", "idle", NoReservation, {}, NoScheduler, NoScheduler)
<1>1. /\ Idle \in ThreadState /\ Idle.op = "none" /\ Idle.pc = "idle" /\ Idle.todo = {}
      /\ Idle.r = NoReservation /\ Idle.q = NoScheduler /\ Idle.s = NoScheduler
      /\ ~Idle.won
  BY DEF ThreadState, Idle
<1>2. thr' = [thr EXCEPT ![t] = Idle]
  BY DEF End
<1>3. Becomes(t, Idle.op, Idle.pc, Idle.r, Idle.todo, Idle.q, Idle.s)
  BY <1>1, <1>2, ThreadBecomes
<1>4. QED
  BY <1>1, <1>3

(* A scheduler in which the reservation is promoted is found.              *)
LEMMA FoundBecomes ==
  ASSUME thr \in [Threads -> ThreadState], NEW t \in Threads, thr[t].q \in Schedulers,
         thr' = [thr EXCEPT ![t].pc = "assign", ![t].s = thr[t].q]
  PROVE  Becomes(t, thr[t].op, "assign", thr[t].r, thr[t].todo, thr[t].q, thr[t].q)
<1> DEFINE a == [thr[t] EXCEPT !.pc = "assign", !.s = thr[t].q]
<1>1. /\ a \in ThreadState /\ a.op = thr[t].op /\ a.pc = "assign" /\ a.r = thr[t].r
      /\ a.todo = thr[t].todo /\ a.q = thr[t].q /\ a.s = thr[t].q
  BY ZenonT(60) DEF ThreadState
<1>2. thr' = [thr EXCEPT ![t] = a]
  OBVIOUS
<1>3. Becomes(t, a.op, a.pc, a.r, a.todo, a.q, a.s)
  <2> HIDE DEF a
  <2> QED BY <1>1, <1>2, ThreadBecomes
<1>4. QED
  BY <1>1, <1>3

UpBecomes(u, pc, r) ==
  /\ up' \in [Updaters -> UpdaterState]
  /\ \A x \in Updaters : x # u => up'[x] = up[x]
  /\ up'[u].pc = pc /\ up'[u].r = r

LEMMA UpGotoBecomes ==
  ASSUME up \in [Updaters -> UpdaterState], NEW u \in Updaters,
         NEW pc \in {"pick", "exists", "confirm", "acquire", "read", "set", "dequeue"},
         UpGoto(u, pc)
  PROVE  UpBecomes(u, pc, up[u].r)
<1> DEFINE a == [up[u] EXCEPT !.pc = pc]
<1>1. a \in UpdaterState /\ a.pc = pc /\ a.r = up[u].r
  BY DEF UpdaterState
<1>2. up' = [up EXCEPT ![u] = a]
  BY DEF UpGoto
<1>3. QED
  <2> HIDE DEF a
  <2> QED BY <1>1, <1>2 DEF UpBecomes

LEMMA EndUpdateBecomes ==
  ASSUME up \in [Updaters -> UpdaterState], NEW u \in Updaters, EndUpdate(u)
  PROVE  UpBecomes(u, "pick", NoReservation)
<1>1. IdleUpdater \in UpdaterState /\ IdleUpdater.pc = "pick" /\ IdleUpdater.r = NoReservation
  BY DEF UpdaterState, IdleUpdater
<1>2. up' = [up EXCEPT ![u] = IdleUpdater]
  BY DEF EndUpdate
<1>3. QED
  BY <1>1, <1>2 DEF UpBecomes

-----------------------------------------------------------------------------
(* A step that works on one reservation leaves the others as they are.     *)

ThreadsSame(r) == \A t \in Threads : thr[t].r = r \/ thr'[t].r = r => thr'[t] = thr[t]
UpdatersSame(r) == \A u \in Updaters : Works(u, r) \/ Works(u, r)' => up'[u] = up[u]
SetsSame(r) ==
  /\ r \in fresh <=> r \in fresh'
  /\ r \in stored <=> r \in stored'
  /\ r \in accessed <=> r \in accessed'
  /\ r \in current <=> r \in current'
  /\ r \in locked <=> r \in locked'
QueuesSame(r) ==
  /\ assoc'[r] = assoc[r]
  /\ \A s \in Schedulers : pqdata'[s][r] = pqdata[s][r] /\ place'[s][r] = place[s][r]
Same(r) == ThreadsSame(r) /\ UpdatersSame(r) /\ SetsSame(r) /\ QueuesSame(r)

LEMMA SameKept ==
  ASSUME NEW r \in Reservations, Same(r), Good(r)
  PROVE  Good(r)'
<1> USE DEF Same, SetsSame, QueuesSame
<1>1. StoredIsAccessed(r)'
  BY DEF Good, StoredIsAccessed
<1>2. Nowhere(r) => Nowhere(r)'
  BY DEF Nowhere, UpdatersSame, Works
<1>3. FreshIsNowhere(r)'
  BY <1>2 DEF Good, FreshIsNowhere, ThreadsSame
<1>4. ReservesAlone(r)'
  <2> SUFFICES ASSUME NEW t \in Threads, Reserving(t, r)'
               PROVE  Alone(t, r)'
    BY DEF ReservesAlone
  <2>1. thr'[t] = thr[t] /\ Reserving(t, r)
    BY DEF Reserving, ThreadsSame
  <2>2. Alone(t, r)
    BY <2>1 DEF Good, ReservesAlone
  <2>3. QED
    BY <1>2, <2>1, <2>2 DEF Alone, ThreadsSame
<1>5. ASSUME Alive(r)'
      PROVE  Consistent(r)'
  <2>1. Alive(r)
    BY <1>5 DEF Alive, Removing, ThreadsSame
  <2>2. Consistent(r)
    BY <2>1 DEF Good
  <2>3. Promoted(r) <=> Promoted(r)'
    BY DEF Promoted
  <2>4. Owned(r)'
    BY <2>2, <2>3 DEF Consistent, Owned, Owner, UpdatersSame, Works, Queue
  <2>5. Trying(r)'
    BY <2>2, <2>3 DEF Consistent, Trying, UpdatersSame, Works, Queue, Updaters
  <2>6. PromotedIsCurrent(r)' /\ Once(r)' /\ OnlyScheduler(r)'
    BY <2>2 DEF Consistent, PromotedIsCurrent, Once, OnlyScheduler
  <2>7. InQueues(r)'
    BY <2>2, <2>3 DEF Consistent, InQueues
  <2>8. HasJoined(r)'
    BY <2>2 DEF Consistent, HasJoined, Joins, Reserving, ThreadsSame
  <2>9. Assigned(r)'
    <3> SUFFICES ASSUME NEW t \in Threads, (thr[t].r = r)'
                 PROVE  Assigning(t, r)' /\ Confirming(t, r)'
      BY DEF Assigned
    <3>1. thr'[t] = thr[t] /\ Assigning(t, r) /\ Confirming(t, r)
      BY <2>2 DEF Consistent, Assigned, ThreadsSame
    <3>2. QED
      BY <3>1 DEF Assigning, Confirming
  <2>10. QED
    BY <2>4, <2>5, <2>6, <2>7, <2>8, <2>9 DEF Consistent
<1>6. QED
  BY <1>1, <1>3, <1>4, <1>5 DEF Good

(* What is left to show of a step: that its reservation stays good.        *)
LEMMA OthersKept ==
  ASSUME IInv, NEW r \in Reservations, \A x \in Reservations \ {r} : Same(x), Good(r)'
  PROVE  \A x \in Reservations : Good(x)'
  BY SameKept DEF IInv

(* The threads of the others.                                              *)
LEMMA OthersThreads ==
  ASSUME NEW t \in Threads, NEW op, NEW pc, NEW r, NEW todo, NEW q, NEW s,
         Becomes(t, op, pc, r, todo, q, s), NEW y \in Reservations,
         NoReservation \notin Reservations,
         thr[t].r \in {y, NoReservation}, r \in {y, NoReservation}
  PROVE  \A x \in Reservations \ {y} : ThreadsSame(x)
  BY DEF Becomes, ThreadsSame

(* What is left of ThreadsInOrder and of the types of the threads.         *)
WellFormed(op, pc, r, q, s) ==
  /\ pc = "idle" <=> op = "none"
  /\ pc = "idle" => r = NoReservation
  /\ pc \in {"next", "look"} => op \in {"reserve", "status"}
  /\ pc \in {"lock", "assign", "unlock", "abandon"} => op \in {"reserve", "status", "confirm"}
  /\ pc \in {"lab", "list", "write"} => op = "confirm"
  /\ op = "confirm" => s \in Schedulers
  /\ pc = "each" => op # "expire"
  /\ pc = "purge" => op \in {"finish", "expire"}
  /\ pc # "idle" => r \in Reservations
  /\ pc \in {"look", "clean", "delete"} => q \in Schedulers
  /\ pc = "assign" => s \in Schedulers

ThreadTypes ==
  /\ thr \in [Threads -> ThreadState]
  /\ \A t \in Threads :
       /\ WellFormed(thr[t].op, thr[t].pc, thr[t].r, thr[t].q, thr[t].s)
       /\ thr[t].won => thr[t].q \in Schedulers

UpdaterTypes ==
  /\ up \in [Updaters -> UpdaterState]
  /\ \A u \in Updaters : up[u].pc # "pick" => up[u].r \in Reservations

DataTypes ==
  /\ fresh \subseteq Reservations /\ stored \subseteq Reservations
  /\ accessed \subseteq Reservations /\ current \subseteq Reservations
  /\ assoc \in [Reservations -> SUBSET Schedulers]
  /\ locked \subseteq Reservations /\ finishing \subseteq Reservations
  /\ pqdata \in [Schedulers -> [Reservations -> {"absent", "waiting", "confirming", "reserved"}]]
  /\ place \in [Schedulers -> [Reservations -> Nat]]
  /\ drawn \in [Schedulers -> Nat]
  /\ slots \subseteq Schedulers /\ frees \subseteq Schedulers

(* The types, by who has them.                                             *)
LEMMA Types ==
  TypeOK /\ ThreadsInOrder <=> ThreadTypes /\ UpdaterTypes /\ DataTypes
<1>1. TypeOK /\ ThreadsInOrder => ThreadTypes /\ UpdaterTypes /\ DataTypes
  BY DEF TypeOK, ThreadsInOrder, ThreadTypes, UpdaterTypes, DataTypes, WellFormed
<1>2. ThreadTypes /\ UpdaterTypes /\ DataTypes => TypeOK /\ ThreadsInOrder
  BY DEF TypeOK, ThreadsInOrder, ThreadTypes, UpdaterTypes, DataTypes, WellFormed
<1>3. QED
  BY <1>1, <1>2

LEMMA ThreadTypesKept ==
  ASSUME ThreadTypes, NEW t \in Threads, NEW op, NEW pc, NEW r, NEW todo, NEW q, NEW s,
         Becomes(t, op, pc, r, todo, q, s), WellFormed(op, pc, r, q, s)
  PROVE  ThreadTypes'
  BY DEF Becomes, ThreadTypes, WellFormed

LEMMA UpdaterTypesKept ==
  ASSUME UpdaterTypes, NEW u \in Updaters, NEW pc, NEW r, UpBecomes(u, pc, r),
         pc # "pick" => r \in Reservations
  PROVE  UpdaterTypes'
  BY DEF UpBecomes, UpdaterTypes

LEMMA InvNext ==
  ASSUME ThreadTypes', UpdaterTypes', DataTypes', \A x \in Reservations : Good(x)'
  PROVE  IInv'
<1>1. TypeOK'
  BY DEF TypeOK, ThreadTypes, UpdaterTypes, DataTypes, WellFormed
<1>2. ThreadsInOrder'
  BY DEF ThreadsInOrder, ThreadTypes, WellFormed
<1>3. QED
  BY <1>1, <1>2 DEF IInv

-----------------------------------------------------------------------------
(* Updaters.                                                               *)

(* The updaters that work on the others.                                   *)
LEMMA OthersUpdaters ==
  ASSUME NEW u \in Updaters, NEW pc, NEW r, UpBecomes(u, pc, r), NEW y \in Reservations,
         up[u].pc # "pick" => up[u].r = y, pc # "pick" => r = y
  PROVE  \A x \in Reservations \ {y} : UpdatersSame(x)
  BY DEF UpBecomes, UpdatersSame, Works

(* Who is worked on is somewhere.                                          *)
LEMMA WorkedOnIsSomewhere ==
  ASSUME NEW y \in Reservations, ~Nowhere(y), Good(y)
  PROVE  y \notin fresh /\ \A t \in Threads : Reserving(t, y) => thr[t].pc # "lock"
  BY DEF Good, FreshIsNowhere, ReservesAlone, Alone

(* Steps of an updater that change CURRENT at most.                        *)
LEMMA UpdaterStep ==
  ASSUME IInv, NEW u \in Updaters, NEW pc, NEW r, UpBecomes(u, pc, r), NEW y \in Reservations,
         up[u].pc # "pick" => up[u].r = y, pc # "pick" => r = y, ~Nowhere(y),
         UNCHANGED <<data, assoc, locked, queues, thr>>,
         \A x \in Reservations \ {y} : x \in current <=> x \in current',
         Alive(y) => Owned(y)' /\ Trying(y)' /\ PromotedIsCurrent(y)'
  PROVE  \A x \in Reservations : Good(x)'
<1> USE DEF data, queues
<1>1. Good(y)
  BY DEF IInv
<1>2. \A x \in Reservations \ {y} : Same(x)
  BY OthersUpdaters DEF Same, ThreadsSame, SetsSame, QueuesSame
<1>3. y \notin fresh /\ \A t \in Threads : Reserving(t, y) => thr[t].pc # "lock"
  BY <1>1, WorkedOnIsSomewhere
<1>4. StoredIsAccessed(y)' /\ FreshIsNowhere(y)'
  BY <1>1, <1>3 DEF Good, StoredIsAccessed, FreshIsNowhere
<1>5. ReservesAlone(y)'
  BY <1>1, <1>3 DEF Good, ReservesAlone, Reserving, Alone
<1>6. ASSUME Alive(y)'
      PROVE  Consistent(y)'
  <2>1. Alive(y)
    BY <1>6 DEF Alive, Removing
  <2>2. Consistent(y) /\ Owned(y)' /\ Trying(y)' /\ PromotedIsCurrent(y)'
    BY <1>1, <2>1 DEF Good
  <2>3. Once(y)' /\ InQueues(y)' /\ OnlyScheduler(y)'
    BY <2>2 DEF Consistent, Once, InQueues, OnlyScheduler, Promoted
  <2>4. HasJoined(y)' /\ Assigned(y)'
    BY <2>2 DEF Consistent, HasJoined, Joins, Reserving, Assigned, Assigning, Confirming
  <2>5. QED
    BY <2>2, <2>3, <2>4 DEF Consistent
<1>7. Good(y)'
  BY <1>4, <1>5, <1>6 DEF Good
<1>8. QED
  BY <1>2, <1>7, OthersKept

(* A reservation that is picked is in the queue.                           *)
LEMMA PickKeeps ==
  ASSUME IInv, NEW u \in Updaters, Pick(u)
  PROVE  IInv'
<1> USE DEF data, shared, queues, instances
<1>1. PICK y \in Reservations :
        /\ First(u, y)
        /\ up' = [up EXCEPT ![u] = [pc |-> "exists", r |-> y, tried |-> up[u].tried \cup {y}]]
  BY DEF Pick
<1>2. ThreadTypes /\ UpdaterTypes /\ DataTypes
  BY Types DEF IInv
<1>3. UpBecomes(u, "exists", y)
  <2> DEFINE a == [pc |-> "exists", r |-> y, tried |-> up[u].tried \cup {y}]
  <2>1. a \in UpdaterState /\ a.pc = "exists" /\ a.r = y
    BY <1>2 DEF UpdaterTypes, UpdaterState
  <2>2. up' = [up EXCEPT ![u] = a]
    BY <1>1
  <2>3. QED
    <3> HIDE DEF a
    <3> QED BY <1>2, <2>1, <2>2 DEF UpBecomes, UpdaterTypes
<1>4. place[Queue(u)][y] # 0 /\ up[u].pc = "pick" /\ Queue(u) \in Schedulers
  BY <1>1 DEF First, Untried, Pick, Queue, Updaters
<1>5. ~Nowhere(y)
  BY <1>4 DEF Nowhere
<1>6. ASSUME Alive(y)
      PROVE  Owned(y)' /\ Trying(y)' /\ PromotedIsCurrent(y)'
  <2>1. Consistent(y)
    BY <1>6 DEF IInv, Good
  <2>2. Queue(u) \in assoc[y] \/ Promoted(y)
    BY <1>4, <2>1 DEF Consistent, InQueues
  <2>3. Owned(y)'
    BY <1>3, <2>1 DEF Consistent, Owned, Owner, UpBecomes, Pick, Promoted
  <2>4. Trying(y)'
    BY <1>3, <2>1, <2>2 DEF Consistent, Trying, UpBecomes, Pick, Promoted
  <2>5. PromotedIsCurrent(y)'
    BY <2>1 DEF Consistent, PromotedIsCurrent, Pick
  <2>6. QED
    BY <2>3, <2>4, <2>5
<1>7. \A x \in Reservations : Good(x)'
  BY <1>3, <1>4, <1>5, <1>6, UpdaterStep DEF Pick
<1>8. UpdaterTypes' /\ ThreadTypes' /\ DataTypes'
  BY <1>2, <1>3, UpdaterTypesKept DEF ThreadTypes, DataTypes, Pick
<1>9. QED
  BY <1>7, <1>8, InvNext

(* The run of an updater ends.                                             *)
LEMMA EndRunKeeps ==
  ASSUME IInv, NEW u \in Updaters, EndRun(u)
  PROVE  IInv'
<1> USE DEF data, shared, queues, instances
<1>1. ThreadTypes /\ UpdaterTypes /\ DataTypes
  BY Types DEF IInv
<1>2. UpBecomes(u, "pick", NoReservation)
  BY <1>1, EndUpdateBecomes DEF EndRun, UpdaterTypes
<1>3. ASSUME NEW x \in Reservations
      PROVE  Good(x)'
  <2>1. Same(x)
    BY <1>2 DEF EndRun, UpBecomes, Same, ThreadsSame, UpdatersSame, Works, SetsSame, QueuesSame
  <2>2. QED
    BY <2>1, SameKept DEF IInv
<1>4. UpdaterTypes' /\ ThreadTypes' /\ DataTypes'
  BY <1>1, <1>2, UpdaterTypesKept DEF ThreadTypes, DataTypes, EndRun
<1>5. QED
  BY <1>3, <1>4, InvNext

(* An updater that works on a reservation.                                 *)
LEMMA Working ==
  ASSUME IInv, NEW u \in Updaters, up[u].pc # "pick"
  PROVE  /\ up[u].r \in Reservations /\ ~Nowhere(up[u].r) /\ Queue(u) \in Schedulers
         /\ ThreadTypes /\ UpdaterTypes /\ DataTypes
  BY Types DEF IInv, Nowhere, Works, UpdaterTypes, Queue, Updaters

(* EXISTS tells whether the reservation goes on.                           *)
LEMMA CheckExistsKeeps ==
  ASSUME IInv, NEW u \in Updaters, CheckExists(u)
  PROVE  IInv'
<1> USE DEF data, shared, queues, instances
<1>0. UNCHANGED <<data, shared, queues, instances, thr>>
  BY DEF CheckExists
<1>y. PICK y \in Reservations : y = up[u].r
  BY Working DEF CheckExists
<1>1. /\ up[u].pc = "exists" /\ up[u].r = y /\ ~Nowhere(y) /\ Queue(u) \in Schedulers
      /\ ThreadTypes /\ UpdaterTypes /\ DataTypes
  BY <1>y, Working DEF CheckExists
<1>2. PICK pc \in {"confirm", "pick"}, r \in {y, NoReservation} :
        UpBecomes(u, pc, r) /\ (pc = "confirm" => r = y)
  BY <1>1, UpGotoBecomes, EndUpdateBecomes DEF CheckExists, UpdaterTypes
<1>3. ASSUME Alive(y)
      PROVE  Owned(y)' /\ Trying(y)' /\ PromotedIsCurrent(y)'
  <2>1. Consistent(y)
    BY <1>1, <1>3 DEF IInv, Good
  <2>2. Owned(y)'
    BY <1>0, <1>2, <2>1 DEF Consistent, Owned, Owner, UpBecomes, Promoted
  <2>3. Trying(y)'
    BY <1>0, <1>1, <1>2, <2>1 DEF Consistent, Trying, UpBecomes, Promoted
  <2>4. PromotedIsCurrent(y)'
    BY <1>0, <2>1 DEF Consistent, PromotedIsCurrent
  <2>5. QED
    BY <2>2, <2>3, <2>4
<1>4. \A x \in Reservations : Good(x)'
  BY <1>0, <1>1, <1>2, <1>3, UpdaterStep
<1>5. UpdaterTypes' /\ ThreadTypes' /\ DataTypes'
  BY <1>0, <1>1, <1>2, UpdaterTypesKept DEF ThreadTypes, DataTypes
<1>6. QED
  BY <1>4, <1>5, InvNext

(* HSET makes one updater the owner of CURRENT.                            *)
LEMMA ConfirmCurrentKeeps ==
  ASSUME IInv, NEW u \in Updaters, ConfirmCurrent(u)
  PROVE  IInv'
<1> USE DEF data, queues, instances
<1>0. UNCHANGED <<data, assoc, locked, finishing, queues, instances, thr>>
  BY DEF ConfirmCurrent
<1>y. PICK y \in Reservations : y = up[u].r
  BY Working DEF ConfirmCurrent
<1>1. /\ up[u].pc = "confirm" /\ up[u].r = y /\ ~Nowhere(y) /\ Queue(u) \in Schedulers
      /\ ThreadTypes /\ UpdaterTypes /\ DataTypes
  BY <1>y, Working DEF ConfirmCurrent
<1>2. PICK pc \in {"pick", "acquire"} :
        /\ UpBecomes(u, pc, y) /\ current' = current \cup {y}
        /\ pc = "acquire" <=> y \notin current
  BY <1>1, UpGotoBecomes DEF ConfirmCurrent, UpdaterTypes
<1>3. ASSUME Alive(y)
      PROVE  Owned(y)' /\ Trying(y)' /\ PromotedIsCurrent(y)'
  <2>1. Consistent(y)
    BY <1>1, <1>3 DEF IInv, Good
  <2>2. PromotedIsCurrent(y)'
    BY <1>0, <1>2, <2>1 DEF Consistent, PromotedIsCurrent
  <2>3. Trying(y)'
    BY <1>0, <1>1, <1>2, <2>1 DEF Consistent, Trying, UpBecomes, Promoted
  <2>4. CASE y \in current
    BY <1>0, <1>2, <2>1, <2>2, <2>3, <2>4 DEF Consistent, Owned, Owner, UpBecomes, Promoted
  <2>5. CASE y \notin current
    <3>1. ~Promoted(y) /\ Queue(u) \in assoc[y]
      BY <1>1, <2>1, <2>5 DEF Consistent, Promoted, PromotedIsCurrent, Trying
    <3>2. \A v \in Updaters : Owner(v, y)' => v = u
      BY <1>2, <2>1, <2>5 DEF Consistent, Owned, Owner, UpBecomes
    <3>3. QED
      BY <1>0, <1>2, <2>2, <2>3, <3>1, <3>2 DEF Owned, Promoted
  <2>6. QED
    BY <2>4, <2>5
<1>4. \A x \in Reservations : Good(x)'
  BY <1>0, <1>1, <1>2, <1>3, UpdaterStep
<1>5. UpdaterTypes' /\ ThreadTypes' /\ DataTypes'
  BY <1>0, <1>1, <1>2, UpdaterTypesKept DEF ThreadTypes, DataTypes
<1>6. QED
  BY <1>4, <1>5, InvNext

(* Who gets no instance gives CURRENT back.                                *)
LEMMA AcquireKeeps ==
  ASSUME IInv, NEW u \in Updaters, Acquire(u)
  PROVE  IInv'
<1> USE DEF data, queues
<1>0. UNCHANGED <<data, assoc, locked, finishing, queues, frees, thr>> /\ slots' \subseteq slots
  BY DEF Acquire
<1>y. PICK y \in Reservations : y = up[u].r
  BY Working DEF Acquire
<1>1. /\ up[u].pc = "acquire" /\ up[u].r = y /\ ~Nowhere(y) /\ Queue(u) \in Schedulers
      /\ ThreadTypes /\ UpdaterTypes /\ DataTypes
  BY <1>y, Working DEF Acquire
<1>2. PICK pc \in {"read", "pick"} :
        UpBecomes(u, pc, y) /\ current' = IF pc = "read" THEN current ELSE current \ {y}
  BY <1>1, UpGotoBecomes DEF Acquire, UpdaterTypes
<1>3. ASSUME Alive(y)
      PROVE  Owned(y)' /\ Trying(y)' /\ PromotedIsCurrent(y)'
  <2>1. Consistent(y) /\ Owner(u, y)
    BY <1>1, <1>3 DEF IInv, Good, Owner
  <2>2. ~Promoted(y) /\ \A v \in Updaters : Owner(v, y) => v = u
    BY <2>1 DEF Consistent, Owned
  <2>3. PromotedIsCurrent(y)'
    BY <1>0, <2>2 DEF Promoted, PromotedIsCurrent
  <2>4. Trying(y)'
    BY <1>0, <1>1, <1>2, <2>1 DEF Consistent, Trying, UpBecomes, Promoted
  <2>5. Owned(y)'
    <3>1. \A v \in Updaters : Owner(v, y)' => v = u /\ pc = "read"
      BY <1>2, <2>2 DEF Owner, UpBecomes
    <3>2. QED
      BY <1>0, <1>2, <2>1, <2>2, <3>1 DEF Consistent, Owned, Promoted
  <2>6. QED
    BY <2>3, <2>4, <2>5
<1>4. \A x \in Reservations : Good(x)'
  BY <1>0, <1>1, <1>2, <1>3, UpdaterStep
<1>5. UpdaterTypes' /\ ThreadTypes' /\ DataTypes'
  BY <1>0, <1>1, <1>2, UpdaterTypesKept DEF ThreadTypes, DataTypes
<1>6. QED
  BY <1>4, <1>5, InvNext


(* A reservation that is gone is not promoted.                             *)
LEMMA ReadKeeps ==
  ASSUME IInv, NEW u \in Updaters, Read(u)
  PROVE  IInv'
<1> USE DEF data, shared, queues
<1>0. UNCHANGED <<data, shared, queues, frees, thr>> /\ slots' \subseteq slots \cup {Queue(u)}
  BY DEF Read
<1>y. PICK y \in Reservations : y = up[u].r
  BY Working DEF Read
<1>1. /\ up[u].pc = "read" /\ up[u].r = y /\ ~Nowhere(y) /\ Queue(u) \in Schedulers
      /\ ThreadTypes /\ UpdaterTypes /\ DataTypes
  BY <1>y, Working DEF Read
<1>2. PICK pc \in {"set", "pick"} : UpBecomes(u, pc, y)
  BY <1>1, UpGotoBecomes DEF Read, UpdaterTypes
<1>3. ASSUME Alive(y)
      PROVE  Owned(y)' /\ Trying(y)' /\ PromotedIsCurrent(y)'
  <2>1. Consistent(y)
    BY <1>1, <1>3 DEF IInv, Good
  <2>2. \A v \in Updaters : Owner(v, y)' => Owner(v, y)
    BY <1>1, <1>2 DEF Owner, UpBecomes
  <2>3. Owned(y)'
    BY <1>0, <2>1, <2>2 DEF Consistent, Owned, Promoted
  <2>4. Trying(y)'
    BY <1>0, <1>1, <1>2, <2>1 DEF Consistent, Trying, UpBecomes, Promoted
  <2>5. PromotedIsCurrent(y)'
    BY <1>0, <2>1 DEF Consistent, PromotedIsCurrent
  <2>6. QED
    BY <2>3, <2>4, <2>5
<1>4. \A x \in Reservations : Good(x)'
  BY <1>0, <1>1, <1>2, <1>3, UpdaterStep
<1>5. UpdaterTypes' /\ ThreadTypes' /\ DataTypes'
  BY <1>0, <1>1, <1>2, UpdaterTypesKept DEF ThreadTypes, DataTypes
<1>6. QED
  BY <1>4, <1>5, InvNext

(* The reservation is promoted by the one that owns it.                    *)
LEMMA SetConfirmingKeeps ==
  ASSUME IInv, NEW u \in Updaters, SetConfirming(u)
  PROVE  IInv'
<1> USE DEF data, shared
<1>0. UNCHANGED <<data, shared, place, drawn, instances, thr>>
  BY DEF SetConfirming
<1>y. PICK y \in Reservations : y = up[u].r
  BY Working DEF SetConfirming
<1>1. /\ up[u].pc = "set" /\ up[u].r = y /\ ~Nowhere(y) /\ Queue(u) \in Schedulers
      /\ ThreadTypes /\ UpdaterTypes /\ DataTypes /\ Good(y)
  BY <1>y, Working DEF SetConfirming, IInv
<1>2. UpBecomes(u, "dequeue", y)
  BY <1>1, UpGotoBecomes DEF SetConfirming, UpdaterTypes
<1>3. /\ pqdata' \in [Schedulers -> [Reservations -> {"absent", "waiting", "confirming", "reserved"}]]
      /\ \A s \in Schedulers, x \in Reservations :
           pqdata'[s][x] = IF s = Queue(u) /\ x = y THEN "confirming" ELSE pqdata[s][x]
  BY <1>1 DEF SetConfirming, DataTypes
<1>4. \A x \in Reservations \ {y} : Same(x)
  BY <1>0, <1>1, <1>2, <1>3, OthersUpdaters DEF Same, ThreadsSame, SetsSame, QueuesSame
<1>5. y \notin fresh /\ \A t \in Threads : Reserving(t, y) => thr[t].pc # "lock"
  BY <1>1, WorkedOnIsSomewhere
<1>6. StoredIsAccessed(y)' /\ FreshIsNowhere(y)'
  BY <1>0, <1>1, <1>5 DEF Good, StoredIsAccessed, FreshIsNowhere
<1>7. ReservesAlone(y)'
  BY <1>0, <1>1, <1>3, <1>5 DEF Good, ReservesAlone, Reserving, Alone
<1>8. ASSUME Alive(y)'
      PROVE  Consistent(y)'
  <2>1. Consistent(y) /\ Owner(u, y)
    BY <1>0, <1>1, <1>8 DEF Alive, Removing, Good, Owner
  <2>2. /\ y \in current /\ ~Promoted(y) /\ Queue(u) \in assoc[y]
        /\ \A v \in Updaters : Owner(v, y) => v = u
    BY <2>1 DEF Consistent, Owned
  <2>3. Promoted(y)' /\ Active(pqdata[Queue(u)][y])'
    BY <1>1, <1>3 DEF Promoted, Active
  <2>4. \A s \in Schedulers : Active(pqdata[s][y])' => s = Queue(u)
    BY <1>3, <2>2 DEF Promoted
  <2>5. \A v \in Updaters : ~Owner(v, y)'
    BY <1>2, <2>2 DEF Owner, UpBecomes
  <2>6. Owned(y)'
    BY <2>5 DEF Owned
  <2>7. Trying(y)'
    BY <1>2, <2>1, <2>2, <2>3 DEF Consistent, Trying, UpBecomes, Promoted, Queue, Updaters
  <2>8. PromotedIsCurrent(y)' /\ Once(y)'
    BY <1>0, <2>2, <2>4 DEF PromotedIsCurrent, Once
  <2>9. InQueues(y)' /\ HasJoined(y)'
    BY <1>0, <1>3, <2>1, <2>2, <2>3
       DEF Consistent, InQueues, Promoted, HasJoined, Joins, Reserving
  <2>10. Assigned(y)'
    BY <1>0, <2>1, <2>2 DEF Consistent, Assigned, Assigning, Confirming, Promoted
  <2>11. OnlyScheduler(y)'
    BY <1>0, <1>3, <2>1 DEF Consistent, OnlyScheduler
  <2>12. QED
    BY <2>6, <2>7, <2>8, <2>9, <2>10, <2>11 DEF Consistent
<1>9. \A x \in Reservations : Good(x)'
  BY <1>4, <1>6, <1>7, <1>8, OthersKept DEF Good
<1>10. UpdaterTypes' /\ ThreadTypes' /\ DataTypes'
  BY <1>0, <1>1, <1>2, <1>3, UpdaterTypesKept DEF ThreadTypes, DataTypes, instances
<1>11. QED
  BY <1>9, <1>10, InvNext

(* The thread that confirms knows where the reservation was promoted.      *)
LEMMA DequeueKeeps ==
  ASSUME IInv, NEW u \in Updaters, Dequeue(u), AggregatorAssumption
  PROVE  IInv'
<1> USE DEF data, shared
<1>0. UNCHANGED <<data, shared, pqdata, drawn, instances>>
  BY DEF Dequeue
<1>y. PICK y \in Reservations : y = up[u].r
  BY Working DEF Dequeue
<1> DEFINE t == <<y, u>>
<1>1. /\ up[u].pc = "dequeue" /\ up[u].r = y /\ ~Nowhere(y) /\ Queue(u) \in Schedulers
      /\ ThreadTypes /\ UpdaterTypes /\ DataTypes /\ Good(y)
      /\ t \in Threads /\ thr[t].pc = "idle"
  BY <1>y, Working DEF Dequeue, IInv, Threads, Confirmers
<1>t. thr[t].op = "none" /\ thr[t].r = NoReservation
  BY <1>1 DEF ThreadTypes, WellFormed
<1>2. UpBecomes(u, "pick", y)
  BY <1>1, UpGotoBecomes DEF Dequeue, UpdaterTypes
<1>3. Becomes(t, "confirm", "lab", y, {}, NoScheduler, Queue(u))
  <2>1. Start(t, "confirm", "lab", y, {}, NoScheduler, Queue(u))
    BY <1>y DEF Dequeue
  <2> HIDE DEF t
  <2>2. QED
    BY <1>1, <2>1, StartBecomes DEF ThreadTypes, Pcs, Ops
<1> HIDE DEF t
<1>4. /\ place' \in [Schedulers -> [Reservations -> Nat]]
      /\ \A s \in Schedulers, x \in Reservations :
           place'[s][x] = IF s = Queue(u) /\ x = y THEN 0 ELSE place[s][x]
  BY <1>1 DEF Dequeue, DataTypes
<1>5. \A x \in Reservations \ {y} : Same(x)
  <2>1. \A x \in Reservations \ {y} : UpdatersSame(x)
    BY <1>1, <1>2, OthersUpdaters
  <2>2. \A x \in Reservations \ {y} : ThreadsSame(x)
    BY <1>1, <1>t, <1>3, OthersThreads DEF AggregatorAssumption
  <2>3. QED
    BY <1>0, <1>4, <2>1, <2>2 DEF Same, SetsSame, QueuesSame
<1>6. y \notin fresh /\ \A x \in Threads : Reserving(x, y) => thr[x].pc # "lock"
  BY <1>1, WorkedOnIsSomewhere
<1>7. StoredIsAccessed(y)' /\ FreshIsNowhere(y)'
  BY <1>0, <1>1, <1>6 DEF Good, StoredIsAccessed, FreshIsNowhere
<1>8. ReservesAlone(y)'
  <2> SUFFICES ASSUME NEW z \in Threads, Reserving(z, y)'
               PROVE  Alone(z, y)'
    BY DEF ReservesAlone
  <2>1. z # t /\ thr'[z] = thr[z] /\ Reserving(z, y) /\ thr[z].pc # "lock"
    BY <1>3, <1>6 DEF Reserving, Becomes
  <2>2. Alone(z, y)
    BY <1>1, <2>1 DEF Good, ReservesAlone
  <2>3. QED
    BY <1>0, <1>3, <2>1, <2>2 DEF Alone, Becomes
<1>9. ASSUME Alive(y)'
      PROVE  Consistent(y)'
  <2>1. Alive(y)
    BY <1>0, <1>3, <1>9, <1>t DEF Alive, Removing, Becomes
  <2>2. Consistent(y)
    BY <1>1, <2>1 DEF Good
  <2>3. Active(pqdata[Queue(u)][y]) /\ Promoted(y) /\ Promoted(y)'
    BY <1>0, <1>1, <2>2 DEF Consistent, Trying, Promoted
  <2>4. Owned(y)' /\ Trying(y)'
    BY <1>0, <1>1, <1>2, <2>2, <2>3
       DEF Consistent, Owned, Trying, Owner, UpBecomes
  <2>5. PromotedIsCurrent(y)' /\ Once(y)' /\ OnlyScheduler(y)'
    BY <1>0, <2>2 DEF Consistent, PromotedIsCurrent, Once, OnlyScheduler
  <2>6. InQueues(y)'
    BY <1>0, <1>4, <2>2, <2>3 DEF Consistent, InQueues
  <2>7. HasJoined(y)'
    BY <1>0, <1>3, <1>t, <2>2 DEF Consistent, HasJoined, Joins, Reserving, Becomes
  <2>8. Assigned(y)'
    <3> SUFFICES ASSUME NEW z \in Threads, (thr[z].r = y)'
                 PROVE  Assigning(z, y)' /\ Confirming(z, y)'
      BY DEF Assigned
    <3>1. CASE z = t
      BY <1>0, <1>1, <1>3, <2>3, <3>1 DEF Assigning, Confirming, Becomes
    <3>2. CASE z # t
      BY <1>0, <1>3, <2>2, <3>2 DEF Consistent, Assigned, Assigning, Confirming, Becomes
    <3>3. QED
      BY <3>1, <3>2
  <2>9. QED
    BY <2>2, <2>4, <2>5, <2>6, <2>7, <2>8 DEF Consistent
<1>10. \A x \in Reservations : Good(x)'
  BY <1>5, <1>7, <1>8, <1>9, OthersKept DEF Good
<1>11. UpdaterTypes' /\ DataTypes'
  BY <1>0, <1>1, <1>2, <1>4, UpdaterTypesKept DEF DataTypes, instances
<1>12. ThreadTypes'
  BY <1>1, <1>3, ThreadTypesKept DEF WellFormed
<1>13. QED
  BY <1>10, <1>11, <1>12, InvNext

(* Any step of an updater.                                                 *)
LEMMA UpdateKeeps ==
  ASSUME IInv, NEW u \in Updaters, Update(u), AggregatorAssumption
  PROVE  IInv'
  BY PickKeeps, EndRunKeeps, CheckExistsKeeps, ConfirmCurrentKeeps, AcquireKeeps, ReadKeeps,
     SetConfirmingKeeps, DequeueKeeps DEF Update

-----------------------------------------------------------------------------
(* Threads that start.                                                     *)

(* A thread that may start.                                                *)
LEMMA IdleThread ==
  ASSUME IInv, NEW w \in Workers, thr[w].pc = "idle"
  PROVE  /\ w \in Threads /\ thr[w].op = "none" /\ thr[w].r = NoReservation
         /\ ThreadTypes /\ UpdaterTypes /\ DataTypes
  BY Types DEF IInv, ThreadsInOrder, Threads

(* A new reservation is nowhere, and nobody has heard of it.               *)
LEMMA BeginReserveKeeps ==
  ASSUME IInv, NEW w \in Workers, NEW y \in Reservations, BeginReserve(w, y), AggregatorAssumption
  PROVE  IInv'
<1> USE DEF shared, queues
<1>0. /\ fresh' = fresh \ {y} /\ stored' = stored \cup {y} /\ accessed' = accessed \cup {y}
      /\ y \in fresh /\ thr[w].pc = "idle" /\ UNCHANGED <<shared, queues, instances, up>>
  BY DEF BeginReserve
<1>1. /\ w \in Threads /\ thr[w].op = "none" /\ thr[w].r = NoReservation /\ Good(y)
      /\ ThreadTypes /\ UpdaterTypes /\ DataTypes
  BY <1>0, IdleThread DEF IInv
<1>2. Becomes(w, "reserve", "lock", y, {}, NoScheduler, NoScheduler)
  BY <1>1, StartBecomes DEF BeginReserve, ThreadTypes, Pcs, Ops
<1>3. \A x \in Reservations \ {y} : Same(x)
  <2>1. \A x \in Reservations \ {y} : ThreadsSame(x)
    BY <1>1, <1>2, OthersThreads DEF AggregatorAssumption
  <2>2. QED
    BY <1>0, <2>1 DEF Same, UpdatersSame, SetsSame, QueuesSame
<1>4. Nowhere(y) /\ \A t \in Threads : thr[t].r # y
  BY <1>0, <1>1 DEF Good, FreshIsNowhere
<1>5. Nowhere(y)'
  BY <1>0, <1>4 DEF Nowhere, Works
<1>6. \A t \in Threads : (thr[t].r = y)' => t = w
  BY <1>2, <1>4 DEF Becomes
<1>7. ReservesAlone(y)'
  BY <1>0, <1>1, <1>2, <1>5, <1>6
     DEF ReservesAlone, Reserving, Alone, Becomes, Nowhere
<1>8. Consistent(y)'
  <2>1. Owned(y)' /\ Trying(y)'
    BY <1>5 DEF Nowhere, Owned, Trying, Owner, Works
  <2>2. PromotedIsCurrent(y)' /\ Once(y)' /\ OnlyScheduler(y)' /\ InQueues(y)'
    BY <1>5 DEF Nowhere, PromotedIsCurrent, Once, OnlyScheduler, InQueues, Active
  <2>3. HasJoined(y)' /\ Assigned(y)'
    BY <1>1, <1>2, <1>6
       DEF HasJoined, Joins, Reserving, Assigned, Assigning, Confirming, Becomes
  <2>4. QED
    BY <2>1, <2>2, <2>3 DEF Consistent
<1>9. \A x \in Reservations : Good(x)'
  BY <1>0, <1>3, <1>7, <1>8, OthersKept DEF Good, StoredIsAccessed, FreshIsNowhere
<1>10. UpdaterTypes' /\ DataTypes'
  BY <1>0, <1>1 DEF DataTypes, UpdaterTypes, instances
<1>11. ThreadTypes'
  BY <1>1, <1>2, ThreadTypesKept DEF WellFormed
<1>12. QED
  BY <1>9, <1>10, <1>11, InvNext

(* Whatever else starts for a reservation that was made: the request for   *)
(* the status, or a removal, after which the reservation is not alive.     *)
LEMMA BeginStep ==
  ASSUME IInv, AggregatorAssumption, NEW w \in Workers, thr[w].pc = "idle",
         NEW op \in {"status", "finish", "expire"}, NEW pc \in {"lock", "each", "clean"},
         NEW y \in Reservations, NEW todo \in SUBSET Schedulers,
         NEW q \in Schedulers \cup {NoScheduler}, Start(w, op, pc, y, todo, q, NoScheduler),
         UNCHANGED <<data, current, assoc, locked, queues, instances, up>>,
         finishing' \subseteq Reservations,
         WellFormed(op, pc, y, q, NoScheduler),
         y \notin fresh, \A t \in Threads : ~Reserving(t, y), op = "status" => pc = "lock"
  PROVE  IInv'
<1> USE DEF data, queues
<1>1. /\ w \in Threads /\ thr[w].op = "none" /\ thr[w].r = NoReservation /\ Good(y)
      /\ ThreadTypes /\ UpdaterTypes /\ DataTypes
  BY IdleThread DEF IInv
<1>2. Becomes(w, op, pc, y, todo, q, NoScheduler)
  BY <1>1, StartBecomes DEF ThreadTypes, Pcs, Ops
<1>3. \A x \in Reservations \ {y} : Same(x)
  <2>1. \A x \in Reservations \ {y} : ThreadsSame(x)
    BY <1>1, <1>2, OthersThreads DEF AggregatorAssumption
  <2>2. QED
    BY <2>1 DEF Same, UpdatersSame, SetsSame, QueuesSame
<1>4. \A t \in Threads : ~Reserving(t, y)'
  BY <1>1, <1>2 DEF Reserving, Becomes
<1>5. ASSUME Alive(y)'
      PROVE  Consistent(y)'
  <2>1. op = "status" /\ pc = "lock"
    BY <1>1, <1>2, <1>5 DEF Alive, Removing, Becomes
  <2>2. Alive(y)
    BY <1>1, <1>2, <1>5 DEF Alive, Removing, Becomes
  <2>3. Consistent(y)
    BY <1>1, <2>2 DEF Good
  <2>4. Owned(y)' /\ Trying(y)'
    BY <2>3 DEF Consistent, Owned, Trying, Owner, Promoted
  <2>5. PromotedIsCurrent(y)' /\ Once(y)' /\ OnlyScheduler(y)' /\ InQueues(y)'
    BY <2>3 DEF Consistent, PromotedIsCurrent, Once, OnlyScheduler, InQueues, Promoted
  <2>6. HasJoined(y)'
    BY <2>3 DEF Consistent, HasJoined, Joins
  <2>7. Assigned(y)'
    <3> SUFFICES ASSUME NEW z \in Threads, (thr[z].r = y)'
                 PROVE  Assigning(z, y)' /\ Confirming(z, y)'
      BY DEF Assigned
    <3>1. CASE z = w
      BY <1>1, <1>2, <2>1, <3>1 DEF Assigning, Confirming, Becomes
    <3>2. CASE z # w
      BY <1>2, <2>3, <3>2 DEF Consistent, Assigned, Assigning, Confirming, Becomes
    <3>3. QED
      BY <3>1, <3>2
  <2>8. QED
    BY <2>4, <2>5, <2>6, <2>7 DEF Consistent
<1>6. \A x \in Reservations : Good(x)'
  BY <1>1, <1>3, <1>4, <1>5, OthersKept
     DEF Good, StoredIsAccessed, FreshIsNowhere, ReservesAlone
<1>7. UpdaterTypes' /\ DataTypes'
  BY <1>1 DEF DataTypes, UpdaterTypes, instances
<1>8. ThreadTypes'
  BY <1>1, <1>2, ThreadTypesKept
<1>9. QED
  BY <1>6, <1>7, <1>8, InvNext

(* Who is known is not being made.                                         *)
LEMMA KnownIsMade ==
  ASSUME IInv, NEW y \in Reservations, Known(y)
  PROVE  y \notin fresh /\ \A t \in Threads : ~Reserving(t, y)
  BY DEF IInv, Good, FreshIsNowhere, Known, Reserving

(* Any thread that starts.                                                 *)
LEMMA BeginKeeps ==
  ASSUME IInv, NEW w \in Workers, Begin(w), AggregatorAssumption
  PROVE  IInv'
<1> USE DEF data, shared, queues
<1>1. PICK y \in Reservations :
        \/ BeginReserve(w, y) \/ BeginStatus(w, y) \/ BeginFinish(w, y)
        \/ \E s \in Schedulers : BeginExpire(w, s, y)
  BY DEF Begin
<1>2. CASE BeginReserve(w, y)
  BY <1>2, BeginReserveKeeps
<1>t. ASSUME thr[w].pc = "idle"
      PROVE  ThreadTypes /\ UpdaterTypes /\ DataTypes
  BY <1>t, IdleThread
<1>3. CASE BeginStatus(w, y)
  <2>1. WellFormed("status", "lock", y, NoScheduler, NoScheduler)
    BY DEF WellFormed
  <2>2. /\ thr[w].pc = "idle" /\ Known(y) /\ UNCHANGED <<data, shared, queues, instances, up>>
        /\ Start(w, "status", "lock", y, {}, NoScheduler, NoScheduler)
    BY <1>3 DEF BeginStatus
  <2>3. QED
    BY <1>t, <2>1, <2>2, KnownIsMade, BeginStep DEF DataTypes
<1>4. CASE BeginFinish(w, y)
  <2>1. WellFormed("finish", "each", y, NoScheduler, NoScheduler)
    BY DEF WellFormed
  <2>2. /\ thr[w].pc = "idle" /\ Known(y) /\ finishing' = finishing \cup {y}
        /\ Start(w, "finish", "each", y, assoc[y], NoScheduler, NoScheduler)
        /\ UNCHANGED <<data, current, assoc, locked, queues, instances, up>>
    BY <1>4 DEF BeginFinish
  <2>3. assoc[y] \in SUBSET Schedulers /\ finishing' \subseteq Reservations
    BY <1>t, <2>2 DEF DataTypes
  <2>4. QED
    BY <2>1, <2>2, <2>3, KnownIsMade, BeginStep
<1>5. ASSUME NEW s \in Schedulers, BeginExpire(w, s, y)
      PROVE  IInv'
  <2>1. WellFormed("expire", "clean", y, s, NoScheduler)
    BY DEF WellFormed
  <2>2. /\ thr[w].pc = "idle" /\ IsOver(s, y) /\ UNCHANGED <<data, shared, queues, instances, up>>
        /\ Start(w, "expire", "clean", y, {}, s, NoScheduler)
    BY <1>5 DEF BeginExpire
  <2>3. y \notin fresh /\ \A t \in Threads : ~Reserving(t, y)
    <3>1. CASE pqdata[s][y] = "reserved"
      BY <3>1 DEF IInv, Good, FreshIsNowhere, Nowhere, ReservesAlone, Alone
    <3>2. CASE Known(y)
      BY <3>2, KnownIsMade
    <3>3. QED
      BY <2>2, <3>1, <3>2 DEF IsOver
  <2>4. QED
    BY <1>t, <2>1, <2>2, <2>3, BeginStep DEF DataTypes
<1>6. QED
  BY <1>1, <1>2, <1>3, <1>4, <1>5

-----------------------------------------------------------------------------
(* Threads that work.                                                      *)

(* A thread that has started works for a reservation that was made.        *)
LEMMA WorkingThread ==
  ASSUME IInv, NEW t \in Threads, thr[t].pc # "idle"
  PROVE  /\ thr[t].r \in Reservations /\ thr[t].r \notin fresh
         /\ ThreadTypes /\ UpdaterTypes /\ DataTypes
<1>1. ThreadTypes /\ UpdaterTypes /\ DataTypes
  BY Types DEF IInv
<1>2. thr[t].r \in Reservations
  BY <1>1 DEF ThreadTypes, WellFormed
<1>3. QED
  BY <1>1, <1>2 DEF IInv, Good, FreshIsNowhere

(* Who works under the lock is not disturbed, and disturbs nobody who      *)
(* makes the reservation.                                                  *)
LEMMA ReservesAloneKept ==
  ASSUME NEW t \in Threads, NEW y \in Reservations, Good(y), thr[t].r = y,
         ~(thr[t].op = "confirm" /\ thr[t].pc \in {"lab", "lock"}),
         NEW op, NEW pc, NEW r, NEW todo, NEW q, NEW s, Becomes(t, op, pc, r, todo, q, s),
         op = "reserve" =>
           /\ thr[t].op = "reserve" /\ thr[t].pc # "lock" /\ pc # "lock"
           /\ y \in stored' /\ y \in locked'
           /\ pc \in {"next", "look"} => \A x \in todo : x \notin assoc'[y],
         \A x \in Schedulers : pqdata'[x][y] = "reserved" => pqdata[x][y] = "reserved"
  PROVE  ReservesAlone(y)'
<1> SUFFICES ASSUME NEW z \in Threads, Reserving(z, y)'
             PROVE  Alone(z, y)'
  BY DEF ReservesAlone
<1>1. z = t
  <2> SUFFICES ASSUME z # t
               PROVE  FALSE
    OBVIOUS
  <2>1. Reserving(z, y)
    BY DEF Reserving, Becomes
  <2>2. QED
    BY <2>1 DEF Good, ReservesAlone, Alone
<1>2. op = "reserve" /\ Reserving(t, y)
  BY <1>1 DEF Reserving, Becomes
<1>3. Alone(t, y)
  BY <1>2 DEF Good, ReservesAlone
<1>4. QED
  BY <1>1, <1>2, <1>3 DEF Alone, Becomes

(* Once it has joined the first queue a reservation is in some scheduler.  *)
LEMMA SomewhereAlready ==
  ASSUME NEW t \in Threads, NEW y \in Reservations, Good(y), Consistent(y), thr[t].r = y,
         ~(thr[t].op = "confirm" /\ thr[t].pc \in {"lab", "lock"}), ~Joins(t, y)
  PROVE  assoc[y] # {}
<1> SUFFICES ASSUME assoc[y] = {}
             PROVE  FALSE
  OBVIOUS
<1>1. PICK z \in Threads : Joins(z, y)
  BY DEF Consistent, HasJoined
<1>2. z # t /\ Alone(z, y)
  BY <1>1 DEF Joins, Good, ReservesAlone
<1>3. QED
  BY <1>1, <1>2 DEF Alone

(* A step that changes the thread, and the lock of its reservation at most. *)
LEMMA ThreadStep ==
  ASSUME IInv, AggregatorAssumption, NEW t \in Threads, thr[t].pc # "idle",
         NEW y \in Reservations, thr[t].r = y,
         NEW op, NEW pc, NEW r, NEW todo, NEW q, NEW s, Becomes(t, op, pc, r, todo, q, s),
         WellFormed(op, pc, r, q, s),
         \/ op = thr[t].op /\ r = y
         \/ op = "none" /\ r = NoReservation /\ thr[t].op \notin {"finish", "expire"},
         UNCHANGED <<data, current, assoc, finishing, queues, instances, up>>,
         locked' \subseteq Reservations,
         \A x \in Reservations \ {y} : x \in locked <=> x \in locked',
         ReservesAlone(y)',
         Consistent(y) => HasJoined(y)' /\ (Alive(y) => Assigning(t, y)' /\ Confirming(t, y)')
  PROVE  IInv'
<1> USE DEF data, queues
<1>1. /\ y \notin fresh /\ Good(y) /\ ThreadTypes /\ UpdaterTypes /\ DataTypes
  BY WorkingThread DEF IInv
<1>2. \A x \in Reservations \ {y} : Same(x)
  <2>1. \A x \in Reservations \ {y} : ThreadsSame(x)
    BY OthersThreads DEF AggregatorAssumption
  <2>2. QED
    BY <2>1 DEF Same, UpdatersSame, SetsSame, QueuesSame
<1>3. ASSUME Alive(y)'
      PROVE  Consistent(y)'
  <2>1. Alive(y)
    BY <1>3 DEF Alive, Removing, Becomes
  <2>2. Consistent(y)
    BY <1>1, <2>1 DEF Good
  <2>3. Owned(y)' /\ Trying(y)'
    BY <2>2 DEF Consistent, Owned, Trying, Owner, Promoted
  <2>4. PromotedIsCurrent(y)' /\ Once(y)' /\ OnlyScheduler(y)' /\ InQueues(y)'
    BY <2>2 DEF Consistent, PromotedIsCurrent, Once, OnlyScheduler, InQueues, Promoted
  <2>5. Assigned(y)'
    <3> SUFFICES ASSUME NEW z \in Threads, (thr[z].r = y)'
                 PROVE  Assigning(z, y)' /\ Confirming(z, y)'
      BY DEF Assigned
    <3>1. CASE z = t
      BY <2>1, <2>2, <3>1
    <3>2. CASE z # t
      BY <2>2, <3>2 DEF Consistent, Assigned, Assigning, Confirming, Becomes
    <3>3. QED
      BY <3>1, <3>2
  <2>6. QED
    BY <2>2, <2>3, <2>4, <2>5 DEF Consistent
<1>4. \A x \in Reservations : Good(x)'
  BY <1>1, <1>2, <1>3, OthersKept DEF Good, StoredIsAccessed, FreshIsNowhere
<1>5. UpdaterTypes' /\ DataTypes'
  BY <1>1 DEF DataTypes, UpdaterTypes, instances
<1>6. ThreadTypes'
  BY <1>1, ThreadTypesKept
<1>7. QED
  BY <1>4, <1>5, <1>6, InvNext

(* A step that may change whatever belongs to a reservation that is not    *)
(* alive afterwards.                                                       *)
LEMMA DeadStep ==
  ASSUME IInv, AggregatorAssumption, NEW t \in Threads, thr[t].pc # "idle",
         NEW y \in Reservations, thr[t].r = y,
         NEW op, NEW pc, NEW r, NEW todo, NEW q, NEW s, Becomes(t, op, pc, r, todo, q, s),
         WellFormed(op, pc, r, q, s), r \in {y, NoReservation},
         UNCHANGED <<fresh, up>>, DataTypes', ~Alive(y)', y \in stored' => y \in accessed',
         \A x \in Reservations \ {y} : SetsSame(x) /\ QueuesSame(x),
         ReservesAlone(y)'
  PROVE  IInv'
<1>1. /\ y \notin fresh /\ Good(y) /\ ThreadTypes /\ UpdaterTypes
  BY WorkingThread DEF IInv
<1>2. \A x \in Reservations \ {y} : Same(x)
  <2>1. \A x \in Reservations \ {y} : ThreadsSame(x)
    BY OthersThreads DEF AggregatorAssumption
  <2>2. QED
    BY <2>1 DEF Same, UpdatersSame
<1>3. \A x \in Reservations : Good(x)'
  BY <1>1, <1>2, OthersKept DEF Good, StoredIsAccessed, FreshIsNowhere
<1>4. UpdaterTypes'
  BY <1>1 DEF UpdaterTypes
<1>5. ThreadTypes'
  BY <1>1, ThreadTypesKept
<1>6. QED
  BY <1>3, <1>4, <1>5, InvNext

(* The same, by the value of the thread.                                   *)
LEMMA ThreadData ==
  ASSUME IInv, NEW t \in Threads, NEW a, thr[t] = a, a.pc # "idle"
  PROVE  /\ a \in ThreadState /\ a.r \in Reservations /\ a.r \notin fresh /\ Good(a.r)
         /\ WellFormed(a.op, a.pc, a.r, a.q, a.s)
         /\ ThreadTypes /\ UpdaterTypes /\ DataTypes
  BY WorkingThread DEF IInv, ThreadTypes

(* The laboratory answers; nobody else is under the lock because of it.    *)
LEMMA LabDoneKeeps ==
  ASSUME IInv, NEW t \in Threads, LabDone(t), AggregatorAssumption
  PROVE  IInv'
<1> USE DEF data, shared, queues
<1>a. PICK a : thr[t] = a
  OBVIOUS
<1>1. a.pc = "lab" /\ UNCHANGED <<data, shared, queues, instances, up>>
  BY <1>a DEF LabDone
<1>2. /\ a \in ThreadState /\ a.r \in Reservations /\ Good(a.r) /\ a.op = "confirm"
      /\ a.s \in Schedulers /\ ThreadTypes /\ UpdaterTypes /\ DataTypes
  BY <1>a, <1>1, ThreadData DEF WellFormed
<1> DEFINE y == a.r
<1>3. ReservesAlone(y)' /\ (Consistent(y) => HasJoined(y)')
  <2>1. \A z \in Threads \ {t} : thr'[z] = thr[z]
    BY <1>2 DEF LabDone, Goto, End, ThreadTypes
  <2>2. thr'[t].op # "reserve" /\ (thr'[t].r = y =>
           thr'[t].op = "confirm" /\ thr'[t].pc \in {"lab", "lock"})
    <3>1. CASE a.r \in stored
      BY <1>a, <1>2, <3>1, GotoBecomes DEF LabDone, Becomes, ThreadTypes, Pcs
    <3>2. CASE a.r \notin stored
      BY <1>a, <1>2, <3>2, EndBecomes DEF LabDone, Becomes, ThreadTypes, AggregatorAssumption
    <3>3. QED
      BY <3>1, <3>2
  <2>3. ReservesAlone(y)'
    <3> SUFFICES ASSUME NEW z \in Threads, Reserving(z, y)'
                 PROVE  Alone(z, y)'
      BY DEF ReservesAlone
    <3>1. z # t /\ Alone(z, y) /\ thr'[z] = thr[z]
      BY <1>2, <2>1, <2>2 DEF Reserving, Good, ReservesAlone
    <3>2. thr[z].pc # "lock"
      BY <1>a, <3>1 DEF Alone
    <3> HIDE DEF y
    <3>3. QED
      BY <1>1, <2>1, <2>2, <3>1, <3>2 DEF Alone
  <2>4. ASSUME Consistent(y)
        PROVE  HasJoined(y)'
    <3>1. \A z \in Threads : Joins(z, y) => z # t
      BY <1>a, <1>2 DEF Joins, Reserving
    <3>2. QED
      BY <1>1, <2>1, <2>4, <3>1 DEF Consistent, HasJoined, Joins, Reserving
  <2>5. QED
    BY <2>3, <2>4
<1>4. CASE a.r \in stored
  <2>1. Becomes(t, "confirm", "lock", y, a.todo, a.q, a.s)
    BY <1>a, <1>2, <1>4, GotoBecomes DEF LabDone, ThreadTypes, Pcs
  <2>2. WellFormed("confirm", "lock", y, a.q, a.s)
    BY <1>2 DEF WellFormed
  <2>3. Consistent(y) => Assigning(t, y)' /\ Confirming(t, y)'
    BY <1>a, <1>1, <1>2, <2>1 DEF Consistent, Assigned, Assigning, Confirming, Becomes
  <2>4. QED
    BY <1>a, <1>1, <1>2, <1>3, <2>1, <2>2, <2>3, ThreadStep DEF DataTypes
<1>5. CASE a.r \notin stored
  <2>1. Becomes(t, "none", "idle", NoReservation, {}, NoScheduler, NoScheduler)
    BY <1>a, <1>2, <1>5, EndBecomes DEF LabDone, ThreadTypes
  <2>2. WellFormed("none", "idle", NoReservation, NoScheduler, NoScheduler)
    BY DEF WellFormed
  <2>3. ~Alive(y)
    BY <1>5 DEF Alive
  <2>4. QED
    BY <1>a, <1>1, <1>2, <1>3, <2>1, <2>2, <2>3, ThreadStep DEF DataTypes
<1>6. QED
  BY <1>4, <1>5

(* Who confirms does not get the lock while the reservation is made.       *)
LEMMA LockedWhileReserving ==
  ASSUME IInv, AggregatorAssumption, NEW t \in Threads, NEW y \in Reservations, thr[t].r = y,
         thr[t].op # "reserve", LockIsFree(y)
  PROVE  \A z \in Threads : ~Reserving(z, y)
<1> SUFFICES ASSUME NEW z \in Threads, Reserving(z, y)
             PROVE  FALSE
  OBVIOUS
<1>1. Alone(z, y) /\ z # t
  BY DEF IInv, Good, ReservesAlone, Reserving
<1>2. y \in locked
  BY <1>1 DEF Alone
<1>3. PICK x \in Threads : UnderLock(x, y) /\ thr[x].op \in Slow
  BY <1>2 DEF LockIsFree
<1>4. x # z
  BY <1>3 DEF Reserving, AggregatorAssumption
<1>5. QED
  BY <1>1, <1>3, <1>4 DEF Alone, UnderLock

(* The lock is taken, or respected no longer.                              *)
LEMMA LockKeeps ==
  ASSUME IInv, NEW t \in Threads, Lock(t), AggregatorAssumption
  PROVE  IInv'
<1> USE DEF data, queues
<1>a. PICK a : thr[t] = a
  OBVIOUS
<1>1. /\ a.pc = "lock" /\ LockIsFree(a.r) /\ UseLock(t) /\ locked' = locked \cup {a.r}
      /\ UNCHANGED <<data, current, assoc, finishing, queues, instances, up>>
  BY <1>a DEF Lock
<1>2. /\ a \in ThreadState /\ a.r \in Reservations /\ Good(a.r)
      /\ a.op \in {"reserve", "status", "confirm"}
      /\ ThreadTypes /\ UpdaterTypes /\ DataTypes
  BY <1>a, <1>1, ThreadData DEF WellFormed
<1> DEFINE y == a.r
<1>l. locked' \subseteq Reservations /\ \A x \in Reservations \ {y} : x \in locked <=> x \in locked'
  BY <1>1, <1>2 DEF DataTypes
<1>3. CASE a.op = "reserve"
  <2>1. Becomes(t, "reserve", "next", y, Schedulers, a.q, a.s)
    BY <1>a, <1>1, <1>2, <1>3, GotoWithBecomes DEF UseLock, ThreadTypes, Pcs
  <2>2. WellFormed("reserve", "next", y, a.q, a.s)
    BY <1>2 DEF WellFormed
  <2>3. Alone(t, y) /\ Nowhere(y) /\ \A x \in Threads \ {t} : thr[x].r # y
    BY <1>a, <1>1, <1>2, <1>3 DEF Good, ReservesAlone, Reserving, Alone
  <2>4. \A x \in Threads : thr'[x].r = y => x = t
    BY <2>1, <2>3 DEF Becomes
  <2>5. ReservesAlone(y)'
    BY <1>1, <2>1, <2>3, <2>4 DEF ReservesAlone, Reserving, Alone, Nowhere, Becomes
  <2>6. HasJoined(y)' /\ Assigning(t, y)' /\ Confirming(t, y)'
    BY <2>1 DEF HasJoined, Joins, Reserving, Becomes, Assigning, Confirming
  <2>7. QED
    BY <1>a, <1>1, <1>2, <1>3, <1>l, <2>1, <2>2, <2>5, <2>6, ThreadStep
<1>4. CASE a.op # "reserve"
  <2>1. PICK pc \in {"next", "assign"}, todo \in SUBSET Schedulers :
          /\ Becomes(t, a.op, pc, y, todo, a.q, a.s)
          /\ pc = "next" => a.op = "status"
          /\ pc = "assign" => a.op = "confirm"
    <3>1. CASE a.op = "status"
      <4>1. GotoWith(t, "next", assoc[y]) /\ assoc[y] \in SUBSET Schedulers
        BY <1>a, <1>1, <1>2, <3>1 DEF UseLock, DataTypes
      <4>2. Becomes(t, a.op, "next", y, assoc[y], a.q, a.s)
        BY <1>a, <1>2, <4>1, GotoWithBecomes DEF ThreadTypes, Pcs
      <4>3. QED
        BY <3>1, <4>1, <4>2
    <3>2. CASE a.op = "confirm"
      <4>1. Goto(t, "assign")
        BY <1>a, <1>1, <3>2 DEF UseLock
      <4>2. Becomes(t, a.op, "assign", y, a.todo, a.q, a.s)
        BY <1>a, <1>2, <4>1, GotoBecomes DEF ThreadTypes, Pcs
      <4>3. a.todo \in SUBSET Schedulers
        BY <1>2 DEF ThreadState
      <4>4. QED
        BY <3>2, <4>2, <4>3
    <3>3. QED
      BY <1>2, <1>4, <3>1, <3>2
  <2>2. \A z \in Threads : ~Reserving(z, y)
    BY <1>a, <1>1, <1>2, <1>4, LockedWhileReserving
  <2>3. ReservesAlone(y)'
    BY <1>4, <2>1, <2>2 DEF ReservesAlone, Reserving, Becomes
  <2>4. ASSUME Consistent(y)
        PROVE  HasJoined(y)' /\ Assigning(t, y)' /\ Confirming(t, y)'
    <3>1. HasJoined(y)'
      BY <1>1, <2>2, <2>4 DEF Consistent, HasJoined, Joins
    <3>2. Assigning(t, y) /\ Confirming(t, y)
      BY <1>a, <2>4 DEF Consistent, Assigned
    <3> HIDE DEF y
    <3>3. QED
      BY <1>a, <1>1, <1>4, <2>1, <3>1, <3>2 DEF Assigning, Confirming, Becomes
  <2>5. WellFormed(a.op, pc, y, a.q, a.s)
    BY <1>a, <1>1, <1>2, <2>1, ThreadData DEF WellFormed
  <2>6. QED
    BY <1>a, <1>1, <1>2, <1>l, <2>1, <2>3, <2>4, <2>5, ThreadStep
<1>5. QED
  BY <1>3, <1>4

(* A scheduler that has the reservation in no queue yet.                   *)
LEMMA JoinKeeps ==
  ASSUME IInv, AggregatorAssumption, NEW t \in Threads, NEW y \in Reservations, thr[t].r = y,
         thr[t].op = "reserve", thr[t].pc = "next", NEW q \in Schedulers, q \in thr[t].todo,
         GotoNext(t, "look", q), Join(q, y),
         UNCHANGED <<data, current, locked, finishing, instances, up>>
  PROVE  IInv'
<1> USE DEF data
<1>a. PICK a : thr[t] = a
  OBVIOUS
<1>1. /\ a \in ThreadState /\ y \notin fresh /\ Good(y) /\ ThreadTypes /\ UpdaterTypes /\ DataTypes
      /\ a.r = y /\ a.op = "reserve" /\ a.pc = "next" /\ q \in a.todo
  BY <1>a, ThreadData
<1>2. Becomes(t, "reserve", "look", y, a.todo \ {q}, q, a.s)
  BY <1>a, <1>1, GotoNextBecomes, ZenonT(60) DEF ThreadTypes, Pcs
<1>3. /\ assoc' \in [Reservations -> SUBSET Schedulers]
      /\ \A x \in Reservations : assoc'[x] = IF x = y THEN assoc[x] \cup {q} ELSE assoc[x]
  BY <1>1 DEF Join, DataTypes
<1>4. /\ pqdata' \in [Schedulers -> [Reservations -> {"absent", "waiting", "confirming", "reserved"}]]
      /\ \A s \in Schedulers, x \in Reservations :
           pqdata'[s][x] = IF s = q /\ x = y THEN "waiting" ELSE pqdata[s][x]
  BY <1>1 DEF Join, DataTypes
<1>5. drawn' \in [Schedulers -> Nat] /\ drawn[q] + 1 \in Nat \ {0}
  BY <1>1 DEF Join, DataTypes
<1>6. /\ place' \in [Schedulers -> [Reservations -> Nat]]
      /\ \A s \in Schedulers, x \in Reservations :
           place'[s][x] = IF s = q /\ x = y THEN drawn[q] + 1 ELSE place[s][x]
  BY <1>1, <1>5 DEF Join, DataTypes
<1>7. \A x \in Reservations \ {y} : Same(x)
  <2>1. \A x \in Reservations \ {y} : ThreadsSame(x)
    BY <1>1, <1>2, OthersThreads DEF AggregatorAssumption
  <2>2. QED
    BY <1>3, <1>4, <1>6, <2>1 DEF Same, UpdatersSame, SetsSame, QueuesSame
<1>8. Alone(t, y) /\ Reserving(t, y) /\ q \notin assoc[y]
  BY <1>a, <1>1 DEF Good, ReservesAlone, Reserving, Alone
<1>9. ReservesAlone(y)'
  <2>1. \A x \in Schedulers : pqdata'[x][y] = "reserved" => pqdata[x][y] = "reserved"
    BY <1>4
  <2>2. y \in stored' /\ y \in locked' /\ \A x \in a.todo \ {q} : x \notin assoc'[y]
    BY <1>a, <1>1, <1>3, <1>8 DEF Alone
  <2>3. QED
    BY <1>a, <1>1, <1>2, <2>1, <2>2, ReservesAloneKept
<1>10. ASSUME Alive(y)'
       PROVE  Consistent(y)'
  <2>1. Alive(y)
    BY <1>1, <1>2, <1>10, <1>a DEF Alive, Removing, Becomes
  <2>2. Consistent(y)
    BY <1>1, <2>1 DEF Good
  <2>3. ~Active(pqdata[q][y]) /\ \A s \in Schedulers : Active(pqdata[s][y])' <=> Active(pqdata[s][y])
    BY <1>4, <1>8, <2>2 DEF Consistent, PromotedIsCurrent, Active
  <2>4. Promoted(y)' <=> Promoted(y)
    BY <2>3 DEF Promoted
  <2>5. Owned(y)'
    BY <1>3, <2>2, <2>4 DEF Consistent, Owned, Owner
  <2>6. Trying(y)'
    BY <1>3, <2>2, <2>3, <2>4 DEF Consistent, Trying, Queue, Updaters
  <2>7. PromotedIsCurrent(y)' /\ Once(y)'
    BY <1>3, <2>2, <2>3 DEF Consistent, PromotedIsCurrent, Once
  <2>8. InQueues(y)'
    BY <1>3, <1>5, <1>6, <2>2, <2>3, <2>4 DEF Consistent, InQueues
  <2>9. HasJoined(y)'
    BY <1>3 DEF HasJoined
  <2>10. OnlyScheduler(y)'
    BY <1>4, <1>8 DEF Alone, OnlyScheduler
  <2>11. Assigned(y)'
    <3> SUFFICES ASSUME NEW z \in Threads, (thr[z].r = y)'
                 PROVE  Assigning(z, y)' /\ Confirming(z, y)'
      BY DEF Assigned
    <3>1. CASE z = t
      BY <1>2, <3>1 DEF Assigning, Confirming, Becomes
    <3>2. CASE z # t
      <4>1. thr'[z] = thr[z] /\ thr[z].op = "confirm" /\ thr[z].pc \in {"lab", "lock"}
        BY <1>2, <1>8, <3>2 DEF Alone, Becomes
      <4>2. Assigning(z, y)
        BY <2>2, <4>1 DEF Consistent, Assigned
      <4>3. QED
        BY <2>3, <4>1, <4>2 DEF Assigning, Confirming
    <3>3. QED
      BY <3>1, <3>2
  <2>12. QED
    BY <2>5, <2>6, <2>7, <2>8, <2>9, <2>10, <2>11 DEF Consistent
<1>11. \A x \in Reservations : Good(x)'
  BY <1>1, <1>7, <1>9, <1>10, OthersKept DEF Good, StoredIsAccessed, FreshIsNowhere
<1>12. UpdaterTypes' /\ DataTypes'
  BY <1>1, <1>3, <1>4, <1>5, <1>6 DEF DataTypes, UpdaterTypes, instances
<1>13. ThreadTypes'
  <2>1. WellFormed("reserve", "look", y, q, a.s)
    BY DEF WellFormed
  <2>2. QED
    BY <1>1, <1>2, <2>1, ThreadTypesKept
<1>14. QED
  BY <1>11, <1>12, <1>13, InvNext

(* The next scheduler, or none.                                            *)
LEMMA NextSchedulerKeeps ==
  ASSUME IInv, NEW t \in Threads, NextScheduler(t), AggregatorAssumption
  PROVE  IInv'
<1> USE DEF data
<1>a. PICK a : thr[t] = a
  OBVIOUS
<1>1. a.pc = "next" /\ UNCHANGED <<data, current, locked, finishing, instances, up>>
  BY <1>a DEF NextScheduler
<1>2. /\ a \in ThreadState /\ a.r \in Reservations /\ Good(a.r)
      /\ a.op \in {"reserve", "status"} /\ a.todo \in SUBSET Schedulers
      /\ ThreadTypes /\ UpdaterTypes /\ DataTypes
  BY <1>a, <1>1, ThreadData DEF WellFormed, ThreadState
<1> DEFINE y == a.r
<1>3. CASE \E q \in a.todo : GotoNext(t, "look", q) /\ a.op = "reserve" /\ Join(q, y)
  BY <1>a, <1>1, <1>2, <1>3, JoinKeeps
<1>4. ASSUME UNCHANGED <<assoc, queues>>,
             NEW pc \in {"unlock", "look"}, NEW todo \in SUBSET a.todo,
             NEW q \in Schedulers \cup {NoScheduler},
             Becomes(t, a.op, pc, y, todo, q, a.s), pc = "look" => q \in Schedulers,
             a.todo = {} \/ a.op = "status"
      PROVE  IInv'
  <2>1. WellFormed(a.op, pc, y, q, a.s)
    BY <1>2, <1>4 DEF WellFormed
  <2>2. ReservesAlone(y)'
    <3>1. a.op = "reserve" =>
            y \in stored' /\ y \in locked' /\ \A x \in todo : x \notin assoc'[y]
      BY <1>a, <1>1, <1>2, <1>4 DEF Good, ReservesAlone, Reserving, Alone
    <3>2. QED
      BY <1>a, <1>1, <1>2, <1>4, <3>1, ReservesAloneKept DEF queues
  <2>3. ASSUME Consistent(y)
        PROVE  HasJoined(y)' /\ Assigning(t, y)' /\ Confirming(t, y)'
    <3>1. assoc[y] # {}
      <4>1. ~Joins(t, y)
        BY <1>a, <1>1, <1>4 DEF Joins, Reserving, AggregatorAssumption
      <4>2. QED
        BY <1>a, <1>1, <1>2, <2>3, <4>1, SomewhereAlready
    <3>2. QED
      BY <1>2, <1>4, <3>1 DEF HasJoined, Assigning, Confirming, Becomes
  <2>4. locked' \subseteq Reservations /\ \A x \in Reservations \ {y} : x \in locked <=> x \in locked'
    BY <1>1, <1>2 DEF DataTypes
  <2>5. QED
    BY <1>a, <1>1, <1>2, <1>4, <2>1, <2>2, <2>3, <2>4, ThreadStep
<1>5. CASE a.todo = {} /\ Goto(t, "unlock") /\ UNCHANGED <<assoc, queues>>
  <2>1. Becomes(t, a.op, "unlock", y, a.todo, a.q, a.s) /\ a.q \in Schedulers \cup {NoScheduler}
    BY <1>a, <1>2, <1>5, GotoBecomes DEF ThreadTypes, Pcs, ThreadState
  <2>2. QED
    BY <1>4, <1>5, <2>1
<1>6. CASE \E q \in a.todo : GotoNext(t, "look", q) /\ a.op = "status" /\ UNCHANGED <<assoc, queues>>
  <2>1. PICK q \in a.todo : GotoNext(t, "look", q) /\ a.op = "status" /\ UNCHANGED <<assoc, queues>>
    BY <1>6
  <2>2. Becomes(t, a.op, "look", y, a.todo \ {q}, q, a.s) /\ q \in Schedulers
    BY <1>a, <1>2, <2>1, GotoNextBecomes DEF ThreadTypes, Pcs
  <2>3. QED
    BY <1>4, <2>1, <2>2
<1>7. QED
  BY <1>a, <1>3, <1>5, <1>6 DEF NextScheduler, Visit

(* The reservation may be promoted in the scheduler, or be gone.           *)
LEMMA LookKeeps ==
  ASSUME IInv, NEW t \in Threads, Look(t), AggregatorAssumption
  PROVE  IInv'
<1> USE DEF data, shared, queues
<1>a. PICK a : thr[t] = a
  OBVIOUS
<1>1. /\ a.pc = "look" /\ accessed' = accessed \cup {a.r}
      /\ UNCHANGED <<fresh, stored, shared, drawn, instances, up>>
  BY <1>a DEF Look
<1>2. /\ a \in ThreadState /\ a.r \in Reservations /\ Good(a.r)
      /\ a.op \in {"reserve", "status"} /\ a.q \in Schedulers
      /\ ThreadTypes /\ UpdaterTypes /\ DataTypes
  BY <1>a, <1>1, ThreadData DEF WellFormed, ThreadState
<1> DEFINE y == a.r
<1>l. locked' \subseteq Reservations /\ \A x \in Reservations \ {y} : x \in locked <=> x \in locked'
  BY <1>1, <1>2 DEF DataTypes
<1>3. PICK pc \in {"next", "assign"}, s \in Schedulers \cup {NoScheduler} :
        /\ Becomes(t, a.op, pc, y, a.todo, a.q, s)
        /\ pc = "assign" => s = a.q /\ y \in accessed /\ Active(pqdata[a.q][y])
  <2>1. CASE y \in accessed /\ Active(pqdata[a.q][y])
    <3>1. thr' = [thr EXCEPT ![t].pc = "assign", ![t].s = thr[t].q]
      BY <1>a, <2>1 DEF Look
    <3>2. Becomes(t, a.op, "assign", y, a.todo, a.q, a.q)
      BY <1>a, <1>2, <3>1, FoundBecomes DEF ThreadTypes
    <3>3. QED
      BY <1>2, <2>1, <3>2
  <2>2. CASE ~(y \in accessed /\ Active(pqdata[a.q][y]))
    <3>1. Goto(t, "next")
      BY <1>a, <2>2 DEF Look
    <3>2. Becomes(t, a.op, "next", y, a.todo, a.q, a.s)
      BY <1>a, <1>2, <3>1, GotoBecomes DEF ThreadTypes, Pcs
    <3>3. QED
      BY <1>2, <3>2 DEF ThreadState
  <2>3. QED
    BY <2>1, <2>2
<1>4. WellFormed(a.op, pc, y, a.q, s)
  BY <1>2, <1>3 DEF WellFormed
<1>5. a.op = "reserve" =>
        y \in stored' /\ y \in locked' /\ \A x \in a.todo : x \notin assoc'[y]
  BY <1>a, <1>1, <1>2 DEF Good, ReservesAlone, Reserving, Alone
<1>6. CASE y \in accessed
  <2>1. UNCHANGED <<accessed, pqdata, place>>
    BY <1>a, <1>1, <1>6 DEF Look
  <2>2. ReservesAlone(y)'
    BY <1>a, <1>1, <1>2, <1>3, <1>5, <2>1, ReservesAloneKept
  <2>3. ASSUME Consistent(y)
        PROVE  HasJoined(y)' /\ Assigning(t, y)' /\ Confirming(t, y)'
    <3>1. assoc[y] # {}
      <4>1. ~Joins(t, y)
        BY <1>a, <1>1 DEF Joins
      <4>2. QED
        BY <1>a, <1>1, <1>2, <2>3, <4>1, SomewhereAlready
    <3>2. QED
      BY <1>1, <1>2, <1>3, <2>1, <3>1 DEF HasJoined, Assigning, Confirming, Becomes
  <2>4. QED
    BY <1>a, <1>1, <1>2, <1>3, <1>4, <1>l, <2>1, <2>2, <2>3, ThreadStep
<1>7. CASE y \notin accessed
  <2>1. /\ y \notin stored /\ pqdata' = [pqdata EXCEPT ![a.q][y] = "absent"]
        /\ place' = [place EXCEPT ![a.q][y] = 0]
    BY <1>a, <1>2, <1>7 DEF Look, Good, StoredIsAccessed
  <2>2. /\ pqdata' \in [Schedulers -> [Reservations -> {"absent", "waiting", "confirming", "reserved"}]]
        /\ \A x \in Schedulers, z \in Reservations :
             pqdata'[x][z] = IF x = a.q /\ z = y THEN "absent" ELSE pqdata[x][z]
    BY <1>2, <2>1 DEF DataTypes
  <2>3. /\ place' \in [Schedulers -> [Reservations -> Nat]]
        /\ \A x \in Schedulers, z \in Reservations :
             place'[x][z] = IF x = a.q /\ z = y THEN 0 ELSE place[x][z]
    BY <1>2, <2>1 DEF DataTypes
  <2>4. DataTypes'
    BY <1>1, <1>2, <2>2, <2>3 DEF DataTypes, instances
  <2>5. ~Alive(y)' /\ (y \in stored' => y \in accessed')
    BY <1>1, <2>1 DEF Alive
  <2>6. \A x \in Reservations \ {y} : SetsSame(x) /\ QueuesSame(x)
    BY <1>1, <2>2, <2>3 DEF SetsSame, QueuesSame
  <2>7. \A x \in Schedulers : pqdata'[x][y] = "reserved" => pqdata[x][y] = "reserved"
    BY <1>2, <2>2
  <2>8. ReservesAlone(y)'
    BY <1>a, <1>1, <1>2, <1>3, <1>5, <2>7, ReservesAloneKept
  <2>9. QED
    BY <1>a, <1>1, <1>2, <1>3, <1>4, <2>4, <2>5, <2>6, <2>8, DeadStep
<1>8. QED
  BY <1>6, <1>7

(* The others are to be left only if it is not assigned elsewhere.         *)
LEMMA AssignKeeps ==
  ASSUME IInv, NEW t \in Threads, Assign(t), AggregatorAssumption
  PROVE  IInv'
<1> USE DEF data, shared, queues
<1>a. PICK a : thr[t] = a
  OBVIOUS
<1>1. a.pc = "assign" /\ UNCHANGED <<data, shared, queues, instances, up>>
  BY <1>a DEF Assign
<1>2. /\ a \in ThreadState /\ a.r \in Reservations /\ Good(a.r)
      /\ a.op \in {"reserve", "status", "confirm"} /\ a.s \in Schedulers
      /\ ThreadTypes /\ UpdaterTypes /\ DataTypes
  BY <1>a, <1>1, ThreadData DEF WellFormed, ThreadState
<1> DEFINE y == a.r
<1>l. locked' \subseteq Reservations /\ \A x \in Reservations \ {y} : x \in locked <=> x \in locked'
  BY <1>1, <1>2 DEF DataTypes
<1>3. PICK pc \in {"each", "abandon"}, todo \in SUBSET Schedulers :
        /\ Becomes(t, a.op, pc, y, todo, a.q, a.s)
        /\ pc = "each" => todo = assoc[y] \ {a.s}
  <2>1. CASE a.s \in assoc[y]
    <3>1. GotoWith(t, "each", assoc[y] \ {a.s}) /\ assoc[y] \ {a.s} \in SUBSET Schedulers
      BY <1>a, <1>2, <2>1 DEF Assign, DataTypes
    <3>2. Becomes(t, a.op, "each", y, assoc[y] \ {a.s}, a.q, a.s)
      BY <1>a, <1>2, <3>1, GotoWithBecomes DEF ThreadTypes, Pcs
    <3>3. QED
      BY <3>1, <3>2
  <2>2. CASE a.s \notin assoc[y]
    <3>1. Goto(t, "abandon") /\ a.todo \in SUBSET Schedulers
      BY <1>a, <1>2, <2>2 DEF Assign, ThreadState
    <3>2. Becomes(t, a.op, "abandon", y, a.todo, a.q, a.s)
      BY <1>a, <1>2, <3>1, GotoBecomes DEF ThreadTypes, Pcs
    <3>3. QED
      BY <3>1, <3>2
  <2>3. QED
    BY <2>1, <2>2
<1>4. WellFormed(a.op, pc, y, a.q, a.s)
  BY <1>2, <1>3 DEF WellFormed
<1>5. ReservesAlone(y)'
  <2>1. a.op = "reserve" => y \in stored' /\ y \in locked'
    BY <1>a, <1>1, <1>2 DEF Good, ReservesAlone, Reserving, Alone
  <2>2. QED
    BY <1>a, <1>1, <1>2, <1>3, <2>1, ReservesAloneKept
<1>6. ASSUME Consistent(y)
      PROVE  HasJoined(y)' /\ Assigning(t, y)' /\ Confirming(t, y)'
  <2>1. assoc[y] # {}
    <3>1. ~Joins(t, y)
      BY <1>a, <1>1 DEF Joins
    <3>2. QED
      BY <1>a, <1>1, <1>2, <1>6, <3>1, SomewhereAlready
  <2>2. Active(pqdata[a.s][y])
    BY <1>a, <1>1, <1>6 DEF Consistent, Assigned, Assigning
  <2>3. QED
    BY <1>1, <1>2, <1>3, <2>1, <2>2 DEF HasJoined, Assigning, Confirming, Becomes
<1>7. QED
  BY <1>a, <1>1, <1>2, <1>3, <1>4, <1>l, <1>5, <1>6, ThreadStep

(* One of the others is left, or turns out to be left already.             *)
LEMMA DissociateKeeps ==
  ASSUME IInv, AggregatorAssumption, NEW t \in Threads, NEW y \in Reservations, thr[t].r = y,
         thr[t].pc = "each", thr[t].op # "finish", NEW q \in Schedulers, q \in thr[t].todo,
         FinishIn(t, q), assoc' = [assoc EXCEPT ![y] = @ \ {q}],
         UNCHANGED <<data, current, locked, finishing, queues, instances, up>>
  PROVE  IInv'
<1> USE DEF data, queues
<1>a. PICK a : thr[t] = a
  OBVIOUS
<1>1. /\ a \in ThreadState /\ y \notin fresh /\ Good(y) /\ ThreadTypes /\ UpdaterTypes /\ DataTypes
      /\ a.r = y /\ a.op \in {"reserve", "status", "confirm"} /\ a.pc = "each" /\ q \in a.todo
      /\ WellFormed(a.op, a.pc, y, a.q, a.s)
  BY <1>a, ThreadData DEF WellFormed, ThreadState
<1>2. PICK pc \in {"each", "clean"}, o \in Schedulers \cup {NoScheduler} :
        /\ Becomes(t, a.op, pc, y, a.todo \ {q}, o, a.s)
        /\ pc = "clean" => o = q
  <2>1. CASE q \in assoc[y]
    <3>1. GotoNext(t, "clean", q)
      BY <1>a, <1>1, <2>1 DEF FinishIn
    <3>2. Becomes(t, a.op, "clean", y, a.todo \ {q}, q, a.s)
      BY <1>a, <1>1, <3>1, GotoNextBecomes DEF ThreadTypes, Pcs
    <3>3. QED
      BY <3>2
  <2>2. CASE q \notin assoc[y]
    <3>1. GotoWith(t, "each", a.todo \ {q}) /\ a.todo \ {q} \in SUBSET Schedulers
      BY <1>a, <1>1, <2>2 DEF FinishIn, ThreadState
    <3>2. Becomes(t, a.op, "each", y, a.todo \ {q}, a.q, a.s)
      BY <1>a, <1>1, <3>1, GotoWithBecomes DEF ThreadTypes, Pcs
    <3>3. QED
      BY <1>1, <3>2 DEF ThreadState
  <2>3. QED
    BY <2>1, <2>2
<1>3. /\ assoc' \in [Reservations -> SUBSET Schedulers]
      /\ \A x \in Reservations : assoc'[x] = IF x = y THEN assoc[x] \ {q} ELSE assoc[x]
  BY <1>1 DEF DataTypes
<1>4. \A x \in Reservations \ {y} : Same(x)
  <2>1. \A x \in Reservations \ {y} : ThreadsSame(x)
    BY <1>1, <1>2, <1>a, OthersThreads DEF AggregatorAssumption
  <2>2. QED
    BY <1>3, <2>1 DEF Same, UpdatersSame, SetsSame, QueuesSame
<1>5. ReservesAlone(y)'
  <2>1. a.op = "reserve" => y \in stored' /\ y \in locked'
    BY <1>a, <1>1 DEF Good, ReservesAlone, Reserving, Alone
  <2>2. QED
    BY <1>a, <1>1, <1>2, <2>1, ReservesAloneKept
<1>6. ASSUME Alive(y)'
      PROVE  Consistent(y)'
  <2>1. Alive(y)
    BY <1>1, <1>2, <1>6, <1>a DEF Alive, Removing, Becomes
  <2>2. Consistent(y)
    BY <1>1, <2>1 DEF Good
  <2>3. a.s \in Schedulers /\ Active(pqdata[a.s][y]) /\ a.s \notin a.todo
    BY <1>a, <1>1, <2>2 DEF Consistent, Assigned, Assigning
  <2>4. \A x \in Schedulers : Active(pqdata[x][y]) => x = a.s
    BY <2>2, <2>3 DEF Consistent, Once
  <2>5. a.s # q /\ a.s \in assoc[y] /\ a.s \in assoc'[y] /\ Promoted(y) /\ Promoted(y)'
    BY <1>1, <1>3, <2>2, <2>3 DEF Consistent, PromotedIsCurrent, Promoted
  <2>6. Owned(y)' /\ Trying(y)'
    BY <2>2, <2>5 DEF Consistent, Owned, Trying, Owner
  <2>7. PromotedIsCurrent(y)' /\ Once(y)' /\ HasJoined(y)'
    BY <2>2, <2>4, <2>5 DEF Consistent, PromotedIsCurrent, Once, HasJoined
  <2>8. InQueues(y)'
    BY <1>3, <2>2, <2>5 DEF Consistent, InQueues
  <2>9. OnlyScheduler(y)'
    BY <1>3, <2>2, <2>4, <2>5 DEF Consistent, OnlyScheduler, Active
  <2>10. Assigned(y)'
    <3> SUFFICES ASSUME NEW z \in Threads, (thr[z].r = y)'
                 PROVE  Assigning(z, y)' /\ Confirming(z, y)'
      BY DEF Assigned
    <3>1. CASE z = t
      <4>1. Assigning(t, y)'
        BY <1>1, <1>2, <1>3, <2>3, <2>5 DEF Assigning, Becomes
      <4>2. Confirming(t, y)'
        <5>1. a.op = "confirm" => assoc[y] \subseteq a.todo \cup {a.s}
          BY <1>a, <1>1, <2>2 DEF Consistent, Assigned, Confirming
        <5>2. QED
          BY <1>2, <1>3, <5>1 DEF Confirming, Becomes
      <4>3. QED
        BY <3>1, <4>1, <4>2
    <3>2. CASE z # t
      <4>1. thr'[z] = thr[z] /\ Assigning(z, y) /\ Confirming(z, y)
        BY <1>2, <2>2, <3>2 DEF Consistent, Assigned, Becomes
      <4>2. Assigning(z, y)'
        BY <1>3, <4>1 DEF Assigning
      <4>3. thr[z].op = "confirm" => thr[z].s = a.s
        BY <2>4, <4>1 DEF Assigning
      <4>4. Confirming(z, y)'
        BY <1>3, <2>5, <4>1, <4>3 DEF Confirming
      <4>5. QED
        BY <4>2, <4>4
    <3>3. QED
      BY <3>1, <3>2
  <2>11. QED
    BY <2>6, <2>7, <2>8, <2>9, <2>10 DEF Consistent
<1>7. \A x \in Reservations : Good(x)'
  BY <1>1, <1>4, <1>5, <1>6, OthersKept DEF Good, StoredIsAccessed, FreshIsNowhere
<1>8. UpdaterTypes' /\ DataTypes'
  BY <1>1, <1>3 DEF DataTypes, UpdaterTypes, instances
<1>9. ThreadTypes'
  <2>1. WellFormed(a.op, pc, y, o, a.s)
    BY <1>1, <1>2 DEF WellFormed
  <2>2. QED
    BY <1>1, <1>2, <2>1, ThreadTypesKept
<1>10. QED
  BY <1>7, <1>8, <1>9, InvNext

(* The next scheduler to leave, or none.                                   *)
LEMMA EachKeeps ==
  ASSUME IInv, NEW t \in Threads, Each(t), AggregatorAssumption
  PROVE  IInv'
<1> USE DEF data, queues
<1>a. PICK a : thr[t] = a
  OBVIOUS
<1>1. a.pc = "each" /\ UNCHANGED <<data, current, locked, finishing, queues, instances, up>>
  BY <1>a DEF Each
<1>2. /\ a \in ThreadState /\ a.r \in Reservations /\ Good(a.r)
      /\ a.op \in {"reserve", "status", "confirm", "finish"} /\ a.todo \in SUBSET Schedulers
      /\ WellFormed(a.op, a.pc, a.r, a.q, a.s) /\ ThreadTypes /\ UpdaterTypes /\ DataTypes
  BY <1>a, <1>1, ThreadData DEF WellFormed, ThreadState
<1> DEFINE y == a.r
<1>l. locked' \subseteq Reservations /\ \A x \in Reservations \ {y} : x \in locked <=> x \in locked'
  BY <1>1, <1>2 DEF DataTypes
<1>3. ASSUME UNCHANGED assoc, NEW pc \in {"purge", "unlock", "clean"},
             NEW todo \in SUBSET a.todo, NEW q \in Schedulers \cup {NoScheduler},
             Becomes(t, a.op, pc, y, todo, q, a.s),
             pc = "clean" => a.op = "finish" /\ q \in Schedulers,
             pc = "purge" => a.op = "finish",
             pc = "unlock" => a.op # "finish" /\ a.todo = {}
      PROVE  IInv'
  <2>1. WellFormed(a.op, pc, y, q, a.s)
    BY <1>2, <1>3 DEF WellFormed
  <2>2. ReservesAlone(y)'
    <3>1. a.op = "reserve" => y \in stored' /\ y \in locked'
      BY <1>a, <1>1, <1>2 DEF Good, ReservesAlone, Reserving, Alone
    <3>2. QED
      BY <1>a, <1>1, <1>2, <1>3, <3>1, ReservesAloneKept
  <2>3. ASSUME Consistent(y)
        PROVE  HasJoined(y)' /\ (Alive(y) => Assigning(t, y)' /\ Confirming(t, y)')
    <3>1. Assigning(t, y) /\ Confirming(t, y) /\ PromotedIsCurrent(y)
      BY <1>a, <2>3 DEF Consistent, Assigned
    <3>2. a.s \in assoc[y]
      BY <1>a, <1>1, <3>1 DEF Assigning, PromotedIsCurrent
    <3>3. HasJoined(y)'
      BY <1>3, <3>2 DEF HasJoined
    <3>4. Alive(y) => a.op # "finish"
      BY <1>a DEF Alive, Removing
    <3>5. pc = "unlock" => Assigning(t, y)' /\ Confirming(t, y)'
      BY <1>a, <1>1, <1>3, <3>1, <3>2 DEF Assigning, Confirming, Becomes
    <3>6. QED
      BY <1>3, <3>3, <3>4, <3>5
  <2>4. QED
    BY <1>a, <1>1, <1>2, <1>l, <1>3, <2>1, <2>2, <2>3, ThreadStep
<1>4. CASE EachDone(t) /\ UNCHANGED assoc
  <2>1. PICK pc \in {"purge", "unlock"} :
          Goto(t, pc) /\ (pc = "purge" <=> a.op = "finish")
    BY <1>a, <1>4 DEF EachDone
  <2>2. Becomes(t, a.op, pc, y, a.todo, a.q, a.s) /\ a.q \in Schedulers \cup {NoScheduler}
    BY <1>a, <1>2, <2>1, GotoBecomes DEF ThreadTypes, Pcs, ThreadState
  <2>3. a.todo = {}
    BY <1>a, <1>4 DEF EachDone
  <2>4. QED
    BY <1>3, <1>4, <2>1, <2>2, <2>3
<1>5. ASSUME NEW q \in a.todo, FinishIn(t, q), a.op = "finish", UNCHANGED assoc
      PROVE  IInv'
  <2>1. GotoNext(t, "clean", q)
    BY <1>a, <1>5 DEF FinishIn
  <2>2. Becomes(t, a.op, "clean", y, a.todo \ {q}, q, a.s) /\ q \in Schedulers
    BY <1>a, <1>2, <2>1, GotoNextBecomes DEF ThreadTypes, Pcs
  <2>3. QED
    BY <1>3, <1>5, <2>2
<1>6. ASSUME NEW q \in a.todo, FinishIn(t, q), a.op # "finish",
             assoc' = [assoc EXCEPT ![y] = @ \ {q}]
      PROVE  IInv'
  BY <1>a, <1>1, <1>2, <1>6, DissociateKeeps
<1>7. QED
  BY <1>a, <1>4, <1>5, <1>6 DEF Each

(* CURRENT is taken away of a reservation that is not alive only.          *)
LEMMA CleanKeeps ==
  ASSUME IInv, NEW t \in Threads, Clean(t), AggregatorAssumption
  PROVE  IInv'
<1> USE DEF data, queues
<1>a. PICK a : thr[t] = a
  OBVIOUS
<1>1. /\ a.pc = "clean" /\ UNCHANGED <<data, assoc, locked, finishing, queues, instances, up>>
      /\ current' = IF Active(pqdata[a.q][a.r]) THEN current \ {a.r} ELSE current
  BY <1>a DEF Clean
<1>2. /\ a \in ThreadState /\ a.r \in Reservations /\ Good(a.r) /\ a.q \in Schedulers
      /\ WellFormed(a.op, a.pc, a.r, a.q, a.s) /\ ThreadTypes /\ UpdaterTypes /\ DataTypes
  BY <1>a, <1>1, ThreadData DEF WellFormed, ThreadState
<1> DEFINE y == a.r
<1>l. locked' \subseteq Reservations /\ \A x \in Reservations \ {y} : x \in locked <=> x \in locked'
  BY <1>1, <1>2 DEF DataTypes
<1>3. PICK pc \in {"delete", "each"} :
        Becomes(t, a.op, pc, y, a.todo, a.q, a.s) /\ (pc = "each" => a.op # "expire")
  <2>1. PICK pc \in {"delete", "each"}, won \in BOOLEAN :
          GotoWon(t, pc, won) /\ (pc = "each" => a.op # "expire")
    BY <1>a DEF Clean, HasData
  <2>2. QED
    BY <1>a, <1>2, <2>1, GotoWonBecomes DEF ThreadTypes, Pcs
<1>4. WellFormed(a.op, pc, y, a.q, a.s)
  BY <1>1, <1>2, <1>3 DEF WellFormed
<1>5. ReservesAlone(y)'
  <2>1. a.op = "reserve" => y \in stored' /\ y \in locked'
    BY <1>a, <1>1, <1>2 DEF Good, ReservesAlone, Reserving, Alone
  <2>2. QED
    BY <1>a, <1>1, <1>2, <1>3, <2>1, ReservesAloneKept
<1>6. ASSUME Consistent(y)
      PROVE  /\ HasJoined(y)' /\ Assigning(t, y)' /\ Confirming(t, y)'
             /\ UNCHANGED current
  <2>1. Assigning(t, y) /\ Confirming(t, y) /\ PromotedIsCurrent(y)
    BY <1>a, <1>6 DEF Consistent, Assigned
  <2>2. a.s \in assoc[y] /\ a.q \notin assoc[y]
    BY <1>a, <1>1, <2>1 DEF Assigning, PromotedIsCurrent
  <2>3. UNCHANGED current
    BY <1>1, <1>2, <2>1, <2>2 DEF PromotedIsCurrent
  <2>4. QED
    BY <1>a, <1>1, <1>3, <2>1, <2>2, <2>3 DEF HasJoined, Assigning, Confirming, Becomes
<1>7. CASE Alive(y)
  <2>1. UNCHANGED current
    BY <1>2, <1>6, <1>7 DEF Good
  <2>2. QED
    BY <1>a, <1>1, <1>2, <1>3, <1>4, <1>l, <1>5, <1>6, <2>1, ThreadStep
<1>8. CASE ~Alive(y)
  <2>1. ~Alive(y)'
    BY <1>a, <1>1, <1>3, <1>8 DEF Alive, Removing, Becomes
  <2>2. DataTypes' /\ (y \in stored' => y \in accessed')
    BY <1>1, <1>2 DEF DataTypes, Good, StoredIsAccessed, instances
  <2>3. \A x \in Reservations \ {y} : SetsSame(x) /\ QueuesSame(x)
    BY <1>1 DEF SetsSame, QueuesSame
  <2>4. QED
    BY <1>a, <1>1, <1>2, <1>3, <1>4, <1>5, <2>1, <2>2, <2>3, DeadStep
<1>9. QED
  BY <1>7, <1>8

(* It is deleted in a scheduler that did not promote it.                   *)
LEMMA DeleteKeeps ==
  ASSUME IInv, NEW t \in Threads, Delete(t), AggregatorAssumption
  PROVE  IInv'
<1> USE DEF data, shared
<1>a. PICK a : thr[t] = a
  OBVIOUS
<1>1. /\ a.pc = "delete" /\ UNCHANGED <<data, shared, drawn, slots, up>> /\ AfterDelete(t)
      /\ pqdata' = [pqdata EXCEPT ![a.q][a.r] = "absent"]
      /\ place' = [place EXCEPT ![a.q][a.r] = 0]
  BY <1>a DEF Delete
<1>2. /\ a \in ThreadState /\ a.r \in Reservations /\ a.r \notin fresh /\ Good(a.r)
      /\ a.q \in Schedulers
      /\ WellFormed(a.op, a.pc, a.r, a.q, a.s) /\ ThreadTypes /\ UpdaterTypes /\ DataTypes
  BY <1>a, <1>1, ThreadData DEF WellFormed, ThreadState
<1>y. PICK y \in Reservations : y = a.r
  BY <1>2
<1>3. PICK pc \in {"purge", "each"} :
        Becomes(t, a.op, pc, y, a.todo, a.q, a.s) /\ (pc = "purge" <=> a.op = "expire")
  <2>1. CASE a.op = "expire"
    BY <1>a, <1>y, <1>1, <1>2, <2>1, GotoBecomes DEF AfterDelete, ThreadTypes, Pcs
  <2>2. CASE a.op # "expire"
    BY <1>a, <1>y, <1>1, <1>2, <2>2, GotoWonBecomes DEF AfterDelete, ThreadTypes, Pcs
  <2>3. QED
    BY <2>1, <2>2
<1>4. WellFormed(a.op, pc, y, a.q, a.s)
  BY <1>1, <1>2, <1>3 DEF WellFormed
<1>5. /\ pqdata' \in [Schedulers -> [Reservations -> {"absent", "waiting", "confirming", "reserved"}]]
      /\ \A x \in Schedulers, z \in Reservations :
           pqdata'[x][z] = IF x = a.q /\ z = y THEN "absent" ELSE pqdata[x][z]
  BY <1>1, <1>2, <1>y DEF DataTypes
<1>6. /\ place' \in [Schedulers -> [Reservations -> Nat]]
      /\ \A x \in Schedulers, z \in Reservations :
           place'[x][z] = IF x = a.q /\ z = y THEN 0 ELSE place[x][z]
  BY <1>1, <1>2, <1>y DEF DataTypes
<1>7. DataTypes'
  <2>1. frees' \subseteq Schedulers
    BY <1>a, <1>1, <1>2 DEF AfterDelete, DataTypes
  <2>2. QED
    BY <1>1, <1>2, <1>5, <1>6, <2>1 DEF DataTypes
<1>8. ReservesAlone(y)'
  <2>1. \A x \in Schedulers : pqdata'[x][y] = "reserved" => pqdata[x][y] = "reserved"
    BY <1>5
  <2>2. a.op = "reserve" => y \in stored' /\ y \in locked'
    BY <1>a, <1>y, <1>1, <1>2 DEF Good, ReservesAlone, Reserving, Alone
  <2>3. QED
    BY <1>a, <1>y, <1>1, <1>2, <1>3, <2>1, <2>2, ReservesAloneKept
<1>9. \A x \in Reservations \ {y} : SetsSame(x) /\ QueuesSame(x)
  BY <1>1, <1>5, <1>6 DEF SetsSame, QueuesSame
<1>10. CASE Alive(y)'
  <2>1. Consistent(y)
    BY <1>a, <1>y, <1>1, <1>2, <1>3, <1>10 DEF Alive, Removing, Becomes, Good
  <2>2. /\ a.s \in Schedulers /\ Active(pqdata[a.s][y]) /\ a.q # a.s /\ a.q \notin assoc[y]
        /\ a.s \notin a.todo /\ Confirming(t, y)
    BY <1>a, <1>y, <1>1, <2>1 DEF Consistent, Assigned, Assigning
  <2>3. ~Active(pqdata[a.q][y]) /\ \A x \in Schedulers : Active(pqdata[x][y])' <=> Active(pqdata[x][y])
    BY <1>2, <1>5, <2>1, <2>2 DEF Consistent, PromotedIsCurrent, Active
  <2>4. Promoted(y) /\ Promoted(y)' /\ a.s \in assoc[y]
    BY <2>1, <2>2, <2>3 DEF Promoted, Consistent, PromotedIsCurrent
  <2>5. Owned(y)' /\ Trying(y)'
    BY <1>1, <2>1, <2>3, <2>4 DEF Consistent, Owned, Trying, Owner, Queue, Updaters
  <2>6. PromotedIsCurrent(y)' /\ Once(y)' /\ HasJoined(y)'
    BY <1>1, <2>1, <2>3, <2>4 DEF Consistent, PromotedIsCurrent, Once, HasJoined
  <2>7. InQueues(y)'
    BY <1>1, <1>6, <2>1, <2>2, <2>3, <2>4 DEF Consistent, InQueues
  <2>8. OnlyScheduler(y)'
    BY <1>1, <1>5, <2>1 DEF Consistent, OnlyScheduler
  <2>9. Assigned(y)'
    <3> SUFFICES ASSUME NEW z \in Threads, (thr[z].r = y)'
                 PROVE  Assigning(z, y)' /\ Confirming(z, y)'
      BY DEF Assigned
    <3>1. CASE z = t
      BY <1>a, <1>1, <1>3, <2>2, <2>3, <3>1 DEF Assigning, Confirming, Becomes
    <3>2. CASE z # t
      <4>1. thr'[z] = thr[z] /\ Assigning(z, y) /\ Confirming(z, y)
        BY <1>3, <2>1, <3>2 DEF Consistent, Assigned, Becomes
      <4>2. QED
        BY <1>1, <2>3, <4>1 DEF Assigning, Confirming
    <3>3. QED
      BY <3>1, <3>2
  <2>10. Good(y)'
    BY <1>1, <1>2, <1>y, <1>8, <2>5, <2>6, <2>7, <2>8, <2>9
       DEF Good, Consistent, StoredIsAccessed, FreshIsNowhere
  <2>11. \A x \in Reservations \ {y} : Same(x)
    <3>1. \A x \in Reservations \ {y} : ThreadsSame(x)
      BY <1>a, <1>y, <1>3, OthersThreads DEF AggregatorAssumption
    <3>2. QED
      BY <1>1, <1>9, <3>1 DEF Same, UpdatersSame
  <2>12. UpdaterTypes' /\ ThreadTypes'
    BY <1>1, <1>2, <1>3, <1>4, ThreadTypesKept DEF UpdaterTypes
  <2>13. QED
    BY <1>7, <2>10, <2>11, <2>12, OthersKept, InvNext
<1>11. CASE ~Alive(y)'
  <2>1. y \in stored' => y \in accessed'
    BY <1>1, <1>2, <1>y DEF Good, StoredIsAccessed
  <2>2. QED
    BY <1>a, <1>y, <1>1, <1>3, <1>4, <1>7, <1>8, <1>9, <1>11, <2>1, DeadStep
<1>12. QED
  BY <1>10, <1>11

(* What all schedulers share is deleted, of one that is not alive.         *)
LEMMA PurgeKeeps ==
  ASSUME IInv, NEW t \in Threads, Purge(t), AggregatorAssumption
  PROVE  IInv'
<1> USE DEF queues
<1>a. PICK a : thr[t] = a
  OBVIOUS
<1>1. /\ a.pc = "purge" /\ UNCHANGED <<fresh, locked, queues, slots, up>> /\ End(t)
      /\ stored' = stored \ {a.r} /\ accessed' = accessed \ {a.r} /\ current' = current \ {a.r}
      /\ assoc' = [assoc EXCEPT ![a.r] = {}]
  BY <1>a DEF Purge
<1>2. /\ a \in ThreadState /\ a.r \in Reservations /\ Good(a.r)
      /\ a.op \in {"finish", "expire"} /\ ThreadTypes /\ UpdaterTypes /\ DataTypes
  BY <1>a, <1>1, ThreadData DEF WellFormed
<1>y. PICK y \in Reservations : y = a.r
  BY <1>2
<1>3. Becomes(t, "none", "idle", NoReservation, {}, NoScheduler, NoScheduler)
  BY <1>1, <1>2, EndBecomes DEF ThreadTypes
<1>4. WellFormed("none", "idle", NoReservation, NoScheduler, NoScheduler)
  BY DEF WellFormed
<1>5. /\ assoc' \in [Reservations -> SUBSET Schedulers]
      /\ \A x \in Reservations \ {y} : assoc'[x] = assoc[x]
  BY <1>1, <1>2, <1>y DEF DataTypes
<1>6. DataTypes'
  <2>1. finishing' \subseteq Reservations
    BY <1>a, <1>2 DEF Purge, DataTypes
  <2>2. frees' \subseteq Schedulers
    <3>1. CASE a.won
      BY <1>a, <1>2, <3>1 DEF Purge, DataTypes, ThreadTypes
    <3>2. CASE ~a.won
      BY <1>a, <1>2, <3>2 DEF Purge, DataTypes
    <3>3. QED
      BY <3>1, <3>2
  <2>3. QED
    BY <1>1, <1>2, <1>5, <2>1, <2>2 DEF DataTypes
<1>7. ~Alive(y)' /\ (y \in stored' => y \in accessed')
  BY <1>1, <1>y DEF Alive
<1>8. \A x \in Reservations \ {y} : SetsSame(x) /\ QueuesSame(x)
  BY <1>1, <1>5, <1>y DEF SetsSame, QueuesSame
<1>9. ReservesAlone(y)'
  BY <1>a, <1>y, <1>1, <1>2, <1>3, ReservesAloneKept
<1>10. QED
  BY <1>a, <1>y, <1>1, <1>3, <1>4, <1>6, <1>7, <1>8, <1>9, DeadStep

(* The lock is deleted, whoever has it.                                    *)
LEMMA UnlockKeeps ==
  ASSUME IInv, NEW t \in Threads, Unlock(t), AggregatorAssumption
  PROVE  IInv'
<1> USE DEF data, queues
<1>a. PICK a : thr[t] = a
  OBVIOUS
<1>1. /\ a.pc \in {"unlock", "abandon"} /\ locked' = locked \ {a.r}
      /\ UNCHANGED <<data, current, assoc, finishing, queues, instances, up>>
  BY <1>a DEF Unlock
<1>2. /\ a \in ThreadState /\ a.r \in Reservations /\ Good(a.r)
      /\ a.op \in {"reserve", "status", "confirm"} /\ WellFormed(a.op, a.pc, a.r, a.q, a.s)
      /\ ThreadTypes /\ UpdaterTypes /\ DataTypes
  BY <1>a, <1>1, ThreadData DEF WellFormed
<1>y. PICK y \in Reservations : y = a.r
  BY <1>2
<1>l. locked' \subseteq Reservations /\ \A x \in Reservations \ {y} : x \in locked <=> x \in locked'
  BY <1>1, <1>2, <1>y DEF DataTypes
<1>3. ASSUME Consistent(y)
      PROVE  assoc[y] # {}
  BY <1>a, <1>y, <1>1, <1>2, <1>3, SomewhereAlready DEF Joins
<1>4. CASE a.op = "confirm" /\ a.pc = "unlock"
  <2>1. Becomes(t, "confirm", "list", y, a.todo, a.q, a.s)
    BY <1>a, <1>y, <1>2, <1>4, GotoBecomes DEF Unlock, ThreadTypes, Pcs
  <2>2. WellFormed("confirm", "list", y, a.q, a.s)
    BY <1>2, <1>4 DEF WellFormed
  <2>3. ReservesAlone(y)'
    BY <1>a, <1>y, <1>1, <1>2, <1>4, <2>1, ReservesAloneKept
  <2>4. ASSUME Consistent(y)
        PROVE  HasJoined(y)' /\ Assigning(t, y)' /\ Confirming(t, y)'
    <3>1. Assigning(t, y) /\ Confirming(t, y)
      BY <1>a, <1>y, <2>4 DEF Consistent, Assigned
    <3>2. QED
      BY <1>a, <1>1, <1>3, <1>4, <2>1, <2>4, <3>1 DEF HasJoined, Assigning, Confirming, Becomes
  <2>5. QED
    BY <1>a, <1>y, <1>1, <1>4, <1>l, <2>1, <2>2, <2>3, <2>4, ThreadStep
<1>5. CASE ~(a.op = "confirm" /\ a.pc = "unlock")
  <2>1. Becomes(t, "none", "idle", NoReservation, {}, NoScheduler, NoScheduler)
    BY <1>a, <1>2, <1>5, EndBecomes DEF Unlock, ThreadTypes
  <2>2. WellFormed("none", "idle", NoReservation, NoScheduler, NoScheduler)
    BY DEF WellFormed
  <2>3. ReservesAlone(y)'
    BY <1>a, <1>y, <1>1, <1>2, <2>1, ReservesAloneKept
  <2>4. ASSUME Consistent(y)
        PROVE  HasJoined(y)' /\ Assigning(t, y)' /\ Confirming(t, y)'
    BY <1>1, <1>3, <2>1, <2>4 DEF HasJoined, Assigning, Confirming, Becomes
  <2>5. QED
    BY <1>a, <1>y, <1>1, <1>2, <1>l, <2>1, <2>2, <2>3, <2>4, ThreadStep
<1>6. QED
  BY <1>4, <1>5

(* It is assigned: the list has one scheduler.                             *)
LEMMA ListToConfirmKeeps ==
  ASSUME IInv, NEW t \in Threads, ListToConfirm(t), AggregatorAssumption
  PROVE  IInv'
<1> USE DEF data, shared, queues
<1>a. PICK a : thr[t] = a
  OBVIOUS
<1>1. a.pc = "list" /\ UNCHANGED <<data, shared, queues, instances, up>>
  BY <1>a DEF ListToConfirm
<1>2. /\ a \in ThreadState /\ a.r \in Reservations /\ Good(a.r)
      /\ a.op = "confirm" /\ a.s \in Schedulers
      /\ ThreadTypes /\ UpdaterTypes /\ DataTypes
  BY <1>a, <1>1, ThreadData DEF WellFormed
<1>y. PICK y \in Reservations : y = a.r
  BY <1>2
<1>l. locked' \subseteq Reservations /\ \A x \in Reservations \ {y} : x \in locked <=> x \in locked'
  BY <1>1, <1>2 DEF DataTypes
<1>3. PICK todo \in SUBSET Schedulers :
        todo = assoc[y] /\ Becomes(t, "confirm", "write", y, todo, a.q, a.s)
  <2>1. GotoWith(t, "write", assoc[y]) /\ assoc[y] \in SUBSET Schedulers
    BY <1>a, <1>y, <1>2 DEF ListToConfirm, DataTypes
  <2>2. QED
    BY <1>a, <1>y, <1>2, <2>1, GotoWithBecomes DEF ThreadTypes, Pcs
<1>4. WellFormed("confirm", "write", y, a.q, a.s)
  BY <1>2 DEF WellFormed
<1>5. ReservesAlone(y)'
  BY <1>a, <1>y, <1>1, <1>2, <1>3, ReservesAloneKept
<1>6. ASSUME Consistent(y)
      PROVE  HasJoined(y)' /\ Assigning(t, y)' /\ Confirming(t, y)'
  <2>1. Assigning(t, y) /\ Confirming(t, y)
    BY <1>a, <1>y, <1>6 DEF Consistent, Assigned
  <2>2. assoc[y] = {a.s}
    BY <1>a, <1>1, <1>2, <2>1 DEF Confirming
  <2>3. QED
    BY <1>a, <1>1, <1>2, <1>3, <2>1, <2>2 DEF HasJoined, Assigning, Confirming, Becomes
<1>7. QED
  BY <1>a, <1>y, <1>1, <1>2, <1>3, <1>4, <1>l, <1>5, <1>6, ThreadStep

(* The reservation is confirmed in the scheduler that promoted it.         *)
LEMMA WriteOneKeeps ==
  ASSUME IInv, AggregatorAssumption, NEW t \in Threads, NEW y \in Reservations, thr[t].r = y,
         thr[t].pc = "write", NEW q \in Schedulers, q \in thr[t].todo,
         GotoWith(t, "write", thr[t].todo \ {q}),
         pqdata' = [pqdata EXCEPT ![q][y] = IF @ = "absent" THEN @ ELSE "reserved"],
         UNCHANGED <<data, shared, place, drawn, instances, up>>
  PROVE  IInv'
<1> USE DEF data, shared
<1>a. PICK a : thr[t] = a
  OBVIOUS
<1>1. /\ a \in ThreadState /\ y \notin fresh /\ Good(y) /\ ThreadTypes /\ UpdaterTypes /\ DataTypes
      /\ a.r = y /\ a.op = "confirm" /\ a.pc = "write" /\ q \in a.todo /\ a.s \in Schedulers
  BY <1>a, ThreadData DEF WellFormed
<1>2. Becomes(t, "confirm", "write", y, a.todo \ {q}, a.q, a.s)
  <2>1. GotoWith(t, "write", a.todo \ {q}) /\ a.todo \ {q} \in SUBSET Schedulers
    BY <1>a, <1>1 DEF ThreadState
  <2>2. QED
    BY <1>a, <1>1, <2>1, GotoWithBecomes DEF ThreadTypes, Pcs
<1>3. WellFormed("confirm", "write", y, a.q, a.s)
  BY <1>1 DEF WellFormed
<1>4. /\ pqdata' \in [Schedulers -> [Reservations -> {"absent", "waiting", "confirming", "reserved"}]]
      /\ \A x \in Schedulers, z \in Reservations :
           pqdata'[x][z] = IF x = q /\ z = y
                           THEN IF pqdata[q][y] = "absent" THEN "absent" ELSE "reserved"
                           ELSE pqdata[x][z]
  <2>1. PICK v \in {"absent", "waiting", "confirming", "reserved"} :
          /\ v = IF pqdata[q][y] = "absent" THEN "absent" ELSE "reserved"
          /\ pqdata' = [pqdata EXCEPT ![q][y] = v]
    BY <1>1 DEF DataTypes
  <2>2. QED
    BY <1>1, <2>1 DEF DataTypes
<1>5. DataTypes'
  BY <1>1, <1>4 DEF DataTypes, instances
<1>6. \A z \in Threads : ~Reserving(z, y) /\ ~Reserving(z, y)'
  <2>1. \A z \in Threads : ~Reserving(z, y)
    BY <1>a, <1>1 DEF Good, ReservesAlone, Reserving, Alone
  <2>2. QED
    BY <1>2, <2>1 DEF Reserving, Becomes
<1>7. ReservesAlone(y)'
  BY <1>6 DEF ReservesAlone
<1>8. \A x \in Reservations \ {y} : SetsSame(x) /\ QueuesSame(x)
  BY <1>4 DEF SetsSame, QueuesSame
<1>9. CASE Alive(y)'
  <2>1. Consistent(y)
    BY <1>a, <1>1, <1>2, <1>9 DEF Alive, Removing, Becomes, Good
  <2>2. Assigning(t, y) /\ Confirming(t, y)
    BY <1>a, <2>1 DEF Consistent, Assigned
  <2>3. q = a.s /\ Active(pqdata[q][y]) /\ assoc[y] = {q}
    BY <1>a, <1>1, <2>2 DEF Assigning, Confirming
  <2>4. \A x \in Schedulers : Active(pqdata[x][y])' <=> Active(pqdata[x][y])
    BY <1>4, <2>3 DEF Active
  <2>5. Promoted(y)' <=> Promoted(y)
    BY <2>4 DEF Promoted
  <2>6. Owned(y)' /\ Trying(y)'
    BY <2>1, <2>4, <2>5 DEF Consistent, Owned, Trying, Owner, Queue, Updaters
  <2>7. PromotedIsCurrent(y)' /\ Once(y)' /\ InQueues(y)'
    BY <2>1, <2>4, <2>5 DEF Consistent, PromotedIsCurrent, Once, InQueues
  <2>8. HasJoined(y)'
    BY <2>3 DEF HasJoined
  <2>9. OnlyScheduler(y)'
    BY <1>4, <2>1, <2>3 DEF Consistent, OnlyScheduler
  <2>10. Assigned(y)'
    <3> SUFFICES ASSUME NEW z \in Threads, (thr[z].r = y)'
                 PROVE  Assigning(z, y)' /\ Confirming(z, y)'
      BY DEF Assigned
    <3>1. CASE z = t
      BY <1>a, <1>1, <1>2, <2>2, <2>3, <2>4, <3>1 DEF Assigning, Confirming, Becomes
    <3>2. CASE z # t
      <4>1. thr'[z] = thr[z] /\ Assigning(z, y) /\ Confirming(z, y)
        BY <1>2, <2>1, <3>2 DEF Consistent, Assigned, Becomes
      <4>2. QED
        BY <2>4, <4>1 DEF Assigning, Confirming
    <3>3. QED
      BY <3>1, <3>2
  <2>11. Good(y)'
    BY <1>1, <1>7, <2>6, <2>7, <2>8, <2>9, <2>10
       DEF Good, Consistent, StoredIsAccessed, FreshIsNowhere
  <2>12. \A x \in Reservations \ {y} : Same(x)
    <3>1. \A x \in Reservations \ {y} : ThreadsSame(x)
      BY <1>a, <1>1, <1>2, OthersThreads DEF AggregatorAssumption
    <3>2. QED
      BY <1>8, <3>1 DEF Same, UpdatersSame
  <2>13. UpdaterTypes' /\ ThreadTypes'
    BY <1>1, <1>2, <1>3, ThreadTypesKept DEF UpdaterTypes
  <2>14. QED
    BY <1>5, <2>11, <2>12, <2>13, OthersKept, InvNext
<1>10. CASE ~Alive(y)'
  <2>1. y \in stored' => y \in accessed'
    BY <1>1 DEF Good, StoredIsAccessed
  <2>2. QED
    BY <1>a, <1>1, <1>2, <1>3, <1>5, <1>7, <1>8, <1>10, <2>1, DeadStep
<1>11. QED
  BY <1>9, <1>10

(* The next scheduler to confirm it in, or none.                           *)
LEMMA WriteReservedKeeps ==
  ASSUME IInv, NEW t \in Threads, WriteReserved(t), AggregatorAssumption
  PROVE  IInv'
<1> USE DEF data, shared, queues
<1>a. PICK a : thr[t] = a
  OBVIOUS
<1>1. a.pc = "write" /\ UNCHANGED <<data, shared, place, drawn, instances, up>>
  BY <1>a DEF WriteReserved
<1>2. /\ a \in ThreadState /\ a.r \in Reservations /\ Good(a.r) /\ a.op = "confirm"
      /\ a.todo \in SUBSET Schedulers /\ ThreadTypes /\ UpdaterTypes /\ DataTypes
  BY <1>a, <1>1, ThreadData DEF WellFormed, ThreadState
<1>y. PICK y \in Reservations : y = a.r
  BY <1>2
<1>3. CASE End(t) /\ UNCHANGED pqdata
  <2>1. Becomes(t, "none", "idle", NoReservation, {}, NoScheduler, NoScheduler)
    BY <1>2, <1>3, EndBecomes DEF ThreadTypes
  <2>2. WellFormed("none", "idle", NoReservation, NoScheduler, NoScheduler)
    BY DEF WellFormed
  <2>3. ReservesAlone(y)'
    BY <1>a, <1>y, <1>1, <1>2, <1>3, <2>1, ReservesAloneKept
  <2>4. ASSUME Consistent(y)
        PROVE  HasJoined(y)' /\ Assigning(t, y)' /\ Confirming(t, y)'
    <3>1. assoc[y] # {}
      BY <1>a, <1>y, <1>1, <1>2, <2>4, SomewhereAlready DEF Joins
    <3>2. QED
      BY <1>1, <2>1, <3>1 DEF HasJoined, Assigning, Confirming, Becomes
  <2>5. locked' \subseteq Reservations /\ \A x \in Reservations \ {y} : x \in locked <=> x \in locked'
    BY <1>1, <1>2 DEF DataTypes
  <2>6. QED
    BY <1>a, <1>y, <1>1, <1>2, <1>3, <2>1, <2>2, <2>3, <2>4, <2>5, ThreadStep
<1>4. ASSUME NEW q \in a.todo, GotoWith(t, "write", a.todo \ {q}),
             pqdata' = [pqdata EXCEPT ![q][a.r] = IF @ = "absent" THEN @ ELSE "reserved"]
      PROVE  IInv'
  BY <1>a, <1>1, <1>2, <1>4, WriteOneKeeps
<1>5. QED
  BY <1>a, <1>3, <1>4 DEF WriteReserved

(* Any step of a thread.                                                   *)
LEMMA WorkKeeps ==
  ASSUME IInv, NEW t \in Threads, Work(t), AggregatorAssumption
  PROVE  IInv'
  BY LabDoneKeeps, LockKeeps, NextSchedulerKeeps, LookKeeps, AssignKeeps, EachKeeps, CleanKeeps,
     DeleteKeeps, PurgeKeeps, UnlockKeeps, ListToConfirmKeeps, WriteReservedKeeps DEF Work

-----------------------------------------------------------------------------
(* All steps.                                                              *)

(* Steps that change instances only.                                       *)
LEMMA UnchangedKeeps ==
  ASSUME IInv, UNCHANGED <<data, shared, queues, up, thr>>,
         slots' \subseteq Schedulers, frees' \subseteq Schedulers
  PROVE  IInv'
<1> USE DEF data, shared, queues
<1>1. ThreadTypes /\ UpdaterTypes /\ DataTypes
  BY Types DEF IInv
<1>2. \A x \in Reservations : Same(x)
  BY DEF Same, ThreadsSame, UpdatersSame, SetsSame, QueuesSame
<1>3. \A x \in Reservations : Good(x)'
  BY <1>2, SameKept DEF IInv
<1>4. ThreadTypes' /\ UpdaterTypes' /\ DataTypes'
  BY <1>1 DEF ThreadTypes, UpdaterTypes, DataTypes
<1>5. QED
  BY <1>3, <1>4, InvNext

(* Nothing exists in the beginning.                                        *)
LEMMA InitiallyInv ==
  ASSUME AggregatorAssumption, Init
  PROVE  IInv
<1>1. /\ Idle \in ThreadState /\ Idle.op = "none" /\ Idle.pc = "idle" /\ ~Idle.won
      /\ Idle.r = NoReservation
  BY DEF ThreadState, Idle
<1>2. IdleUpdater \in UpdaterState /\ IdleUpdater.pc = "pick"
  BY DEF UpdaterState, IdleUpdater
<1>3. ThreadTypes
  BY <1>1 DEF Init, ThreadTypes, WellFormed
<1>4. UpdaterTypes
  BY <1>2 DEF Init, UpdaterTypes
<1>5. DataTypes
  BY DEF Init, DataTypes
<1>6. ASSUME NEW r \in Reservations
      PROVE  Good(r)
  <2>1. Nowhere(r)
    BY <1>2 DEF Init, Nowhere, Works
  <2>2. \A t \in Threads : thr[t].r # r /\ thr[t].op = "none"
    BY <1>1 DEF Init, AggregatorAssumption
  <2>3. QED
    BY <2>1, <2>2
       DEF Init, Good, StoredIsAccessed, FreshIsNowhere, ReservesAlone, Reserving, Alive
<1>7. QED
  BY <1>3, <1>4, <1>5, <1>6, Types DEF IInv

(* The invariant is inductive.                                             *)
LEMMA InductiveStep ==
  ASSUME AggregatorAssumption, IInv, [Next]_vars
  PROVE  IInv'
<1>1. DataTypes
  BY Types DEF IInv
<1>2. ASSUME NEW f \in frees, Free(f)
      PROVE  IInv'
  BY <1>1, <1>2, UnchangedKeeps DEF Free, DataTypes
<1>3. CASE UNCHANGED vars
  BY <1>1, <1>3, UnchangedKeeps DEF vars, instances, DataTypes
<1>4. QED
  BY <1>2, <1>3, UpdateKeeps, BeginKeeps, WorkKeeps DEF Next

(* The inductive invariant holds of every behaviour.                       *)
THEOREM AggregatorInvariant == Spec => []IInv
<1>1. Init => IInv
  BY AggregatorAssumption, InitiallyInv
<1>2. IInv /\ [Next]_vars => IInv'
  BY AggregatorAssumption, InductiveStep
<1>3. QED
  BY <1>1, <1>2, PTL DEF Spec

(* Each variable keeps its type, and who works on a reservation knows on   *)
(* which and in which scheduler.                                           *)
THEOREM AggregatorTypes == Spec => []TypeOK
<1>1. IInv => TypeOK
  BY DEF IInv
<1>2. QED
  BY <1>1, AggregatorInvariant, PTL

(* A reservation in use has left all the schedulers but one: what          *)
(* assign_single_scheduler is for, with any number of schedulers, servers  *)
(* and requests, even if the lock expires under slow threads.              *)
THEOREM UsedInOneScheduler == Spec => []OneScheduler
<1>1. IInv => OneScheduler
  BY DEF IInv, Good, Consistent, OnlyScheduler, OneScheduler
<1>2. QED
  BY <1>1, AggregatorInvariant, PTL

(* No two schedulers promote the same reservation: the field CURRENT is    *)
(* enough to exclude the updates from each other.                          *)
THEOREM PromotedOnlyOnce == Spec => []PromotedOnce
<1>1. IInv => PromotedOnce
  BY DEF IInv, Good, Consistent, Once, PromotedOnce
<1>2. QED
  BY <1>1, AggregatorInvariant, PTL

(* Nobody that was told of a reservation drops out of all the queues,      *)
(* whoever takes it out of them at the same time.                          *)
THEOREM NobodyDropsOut == Spec => []StillSomewhere
<1>1. ASSUME IInv, NEW r \in Reservations, Alive(r), Known(r)
      PROVE  \E s \in assoc[r] : place[s][r] # 0 \/ Active(pqdata[s][r])
  <2>1. InQueues(r) /\ HasJoined(r) /\ assoc[r] \subseteq Schedulers
    BY <1>1, Types DEF IInv, Good, Consistent, DataTypes
  <2>2. assoc[r] # {}
    BY <1>1, <2>1 DEF HasJoined, Joins, Reserving, Known
  <2>3. QED
    BY <2>1, <2>2 DEF InQueues
<1>2. IInv => StillSomewhere
  BY <1>1 DEF StillSomewhere
<1>3. QED
  BY <1>2, AggregatorInvariant, PTL
=============================================================================
