------------------------ MODULE SchedulerSettledProofs ------------------------
(***************************************************************************)
(* With one core server, users who leave once they are in, sessions that   *)
(* expire, and a lock that is respected: whatever the number of            *)
(* reservations, schedulers and requests, no queue keeps a reservation     *)
(* that does not exist anymore, and every instance is free, used, or on    *)
(* its way back.                                                           *)
(***************************************************************************)
EXTENDS SchedulerAssignmentProofs

(* One updater for each queue; users finish, and sessions expire, when     *)
(* they are reserved; nobody outlasts the lock.                            *)
UsersStay ==
  /\ \A v, x \in Servers : v = x
  /\ LeaveFrom \subseteq {"reserved"} /\ Removals \subseteq {"expire"} /\ Slow = {}

(* Who is in a queue has data there.                                       *)
QueuedHasData(r) == \A s \in Schedulers : place[s][r] # 0 => pqdata[s][r] # "absent"

(* One thread at a time is past the lock.                                  *)
LockedOnce(r) ==
  \A t \in Threads : UnderLock(t, r) =>
    r \in locked /\ \A x \in Threads : UnderLock(x, r) => x = t

(* Who is promoted leaves the queue next, and is not tried there again.    *)
LeftOnce(r) ==
  \A u \in Updaters : Active(pqdata[Queue(u)][r]) =>
    /\ Works(u, r) => up[u].pc = "dequeue"
    /\ place[Queue(u)][r] # 0 => Works(u, r)

(* A scheduler has data of a reservation that is associated to it, or      *)
(* that somebody is taking out of it.                                      *)
Cleans(t, r) == thr[t].r = r /\ thr[t].pc \in {"clean", "delete"}
Covered(r) ==
  \A s \in Schedulers : pqdata[s][r] # "absent" =>
    s \in assoc[r] \/ \E t \in Threads : Cleans(t, r) /\ thr[t].q = s

(* Once it is assigned for good, nobody takes it out of anything.          *)
Confirmed(r) ==
  \/ \E s \in Schedulers : pqdata[s][r] = "reserved"
  \/ \E t \in Threads :
       thr[t].r = r /\ thr[t].op = "confirm" /\ thr[t].pc \in {"unlock", "list", "write"}
NobodyCleans(r) == \A t \in Threads : Cleans(t, r) => Removing(t, r)
OthersLeft(r) == Confirmed(r) => NobodyCleans(r)

(* From its first removal on, it is in the scheduler that promoted it and  *)
(* in no other, until each of those who remove it has been there.          *)
Ended(r) == r \notin fresh /\ ~Alive(r)
StillIn(t, s) ==
  \/ thr[t].pc \in {"clean", "delete"} /\ thr[t].q = s
  \/ thr[t].op = "finish" /\ thr[t].pc # "purge" /\ s \in thr[t].todo
StillActive(s, r) ==
  /\ Active(pqdata[s][r]) /\ s \in assoc[r] /\ r \in stored /\ r \in accessed
  /\ \A t \in Threads : Removing(t, r) => StillIn(t, s)
NothingToLeave(r) ==
  \A t \in Threads : thr[t].r = r /\ thr[t].pc = "each" /\ ~Removing(t, r) =>
    thr[t].todo \cap assoc[r] = {}
Settled(r) ==
  /\ \A t \in Threads : ~Reserving(t, r)
  /\ NobodyCleans(r) /\ NothingToLeave(r)
  /\ \A s, q \in assoc[r] : s = q
  /\ \A u \in Updaters : up[u].r = r => up[u].pc # "set"
  /\ \A s \in Schedulers : pqdata[s][r] # "absent" => StillActive(s, r)

Tidy(r) ==
  /\ QueuedHasData(r) /\ LockedOnce(r) /\ LeftOnce(r)
  /\ Alive(r) => Covered(r) /\ OthersLeft(r)
  /\ Ended(r) => Settled(r)

(* Who has won an instance gives it back before it does anything else.     *)
WonToFree ==
  \A t \in Threads : thr[t].won =>
    thr[t].pc = "delete" \/ (thr[t].pc = "purge" /\ thr[t].op = "expire")

(* A reservation holds the instance until somebody takes CURRENT away: not *)
(* if an updater made CURRENT again after that.                            *)
Holds(s, r) ==
  /\ Active(pqdata[s][r]) /\ r \in current
  /\ \A t \in Threads : thr[t].r = r /\ thr[t].pc = "delete" => thr[t].q # s
  /\ \A u \in Updaters : ~Owner(u, r)

Acquiring(s) == \E u \in Updaters : Queue(u) = s /\ up[u].pc \in {"read", "set"}
Won(s) == \E t \in Threads : thr[t].won /\ thr[t].q = s
Accounted(s) ==
  \/ s \in slots \/ Acquiring(s)
  \/ \E r \in Reservations : Holds(s, r)
  \/ Won(s) \/ s \in frees

TidyInv ==
  /\ \A r \in Reservations : Tidy(r)
  /\ WonToFree
  /\ \A s \in Schedulers : Accounted(s)

-----------------------------------------------------------------------------
(* A step that works on one reservation leaves the others as they are.     *)

LEMMA SameTidy ==
  ASSUME NEW r \in Reservations, Same(r), Tidy(r)
  PROVE  Tidy(r)'
<1> USE DEF Same, SetsSame, QueuesSame
<1>1. \A t \in Threads : (thr[t].r = r \/ thr'[t].r = r) => thr'[t] = thr[t]
  BY DEF ThreadsSame
<1>2. \A u \in Updaters : (Works(u, r) \/ Works(u, r)') => up'[u] = up[u]
  BY DEF UpdatersSame
<1>3. QueuedHasData(r)'
  BY DEF Tidy, QueuedHasData
<1>4. LockedOnce(r)'
  <2>1. \A t \in Threads : UnderLock(t, r)' <=> UnderLock(t, r)
    BY <1>1 DEF UnderLock
  <2>2. QED
    BY <2>1 DEF Tidy, LockedOnce
<1>5. LeftOnce(r)'
  BY <1>2 DEF Tidy, LeftOnce, Works, Queue, Updaters
<1>6. (Alive(r)' <=> Alive(r)) /\ (Ended(r)' <=> Ended(r))
  BY <1>1 DEF Alive, Removing, Ended
<1>7. /\ \A t \in Threads : Cleans(t, r)' <=> Cleans(t, r)
      /\ \A t \in Threads : Removing(t, r)' <=> Removing(t, r)
      /\ \A t \in Threads : Reserving(t, r)' <=> Reserving(t, r)
  BY <1>1 DEF Cleans, Removing, Reserving
<1>8. NobodyCleans(r)' <=> NobodyCleans(r)
  BY <1>7 DEF NobodyCleans
<1>9. Alive(r)' => Covered(r)'
  BY <1>1, <1>6, <1>7 DEF Tidy, Covered, Cleans
<1>10. Alive(r)' => OthersLeft(r)'
  <2>1. Confirmed(r)' => Confirmed(r)
    BY <1>1 DEF Confirmed
  <2>2. QED
    BY <1>6, <1>8, <2>1 DEF Tidy, OthersLeft
<1>11. Ended(r)' => Settled(r)'
  <2> SUFFICES ASSUME Settled(r)
               PROVE  Settled(r)'
    BY <1>6 DEF Tidy
  <2>1. NothingToLeave(r)'
    BY <1>1, <1>7 DEF Settled, NothingToLeave
  <2>2. \A u \in Updaters : (up[u].r = r => up[u].pc # "set")'
    BY <1>2 DEF Settled, Works
  <2>3. \A s \in Schedulers : StillActive(s, r) => StillActive(s, r)'
    BY <1>1, <1>7 DEF StillActive, StillIn, Removing
  <2>4. QED
    BY <1>7, <1>8, <2>1, <2>2, <2>3 DEF Settled
<1>12. QED
  BY <1>3, <1>4, <1>5, <1>9, <1>10, <1>11 DEF Tidy

LEMMA OthersTidy ==
  ASSUME \A x \in Reservations : Tidy(x), NEW y \in Reservations,
         \A x \in Reservations \ {y} : Same(x), Tidy(y)'
  PROVE  \A x \in Reservations : Tidy(x)'
  BY SameTidy

LEMMA SameHolds ==
  ASSUME NEW s \in Schedulers, NEW r \in Reservations, Same(r), Holds(s, r)
  PROVE  Holds(s, r)'
<1>1. \A t \in Threads : (thr[t].r = r \/ thr'[t].r = r) => thr'[t] = thr[t]
  BY DEF Same, ThreadsSame
<1>2. \A u \in Updaters : ~Owner(u, r)'
  BY DEF Same, UpdatersSame, Works, Owner, Holds
<1>3. QED
  BY <1>1, <1>2 DEF Same, SetsSame, QueuesSame, Holds

(* What is left to show of an instance.                                    *)
LEMMA AccountedNext ==
  ASSUME NEW s \in Schedulers, Accounted(s), NEW y \in Reservations,
         \A x \in Reservations \ {y} : Same(x),
         s \in slots \/ Acquiring(s) \/ Holds(s, y) \/ Won(s) \/ s \in frees => Accounted(s)'
  PROVE  Accounted(s)'
<1>1. ASSUME NEW x \in Reservations \ {y}, Holds(s, x)
      PROVE  Accounted(s)'
  <2>1. Holds(s, x)'
    BY <1>1, SameHolds
  <2>2. QED
    BY <2>1 DEF Accounted
<1>2. QED
  BY <1>1 DEF Accounted

(* Of a step of a thread that frees at most.                               *)
LEMMA ThreadAccounted ==
  ASSUME NEW y \in Reservations, \A x \in Reservations \ {y} : Same(x),
         \A s \in Schedulers : Accounted(s), UNCHANGED <<slots, up>>, frees \subseteq frees',
         \A z \in Threads : thr[z].won =>
           (thr'[z].won /\ thr'[z].q = thr[z].q) \/ thr[z].q \in frees',
         \A s \in Schedulers : Holds(s, y) => Holds(s, y)' \/ Won(s)'
  PROVE  \A s \in Schedulers : Accounted(s)'
<1> SUFFICES ASSUME NEW s \in Schedulers
             PROVE  Accounted(s)'
  OBVIOUS
<1>1. Won(s) => Won(s)' \/ s \in frees'
  BY DEF Won
<1>2. Acquiring(s) => Acquiring(s)'
  BY DEF Acquiring
<1>3. s \in slots \/ Acquiring(s) \/ Holds(s, y) \/ Won(s) \/ s \in frees => Accounted(s)'
  BY <1>1, <1>2 DEF Accounted
<1>4. QED
  BY <1>3, AccountedNext

-----------------------------------------------------------------------------
(* Updaters.                                                               *)

LEMMA OnlyUpdater ==
  ASSUME UsersStay, NEW u \in Updaters, NEW v \in Updaters, Queue(u) = Queue(v)
  PROVE  u = v
  BY DEF UsersStay, Updaters, Queue

(* Where an updater works on a reservation, it is not promoted yet.        *)
LEMMA NotPromotedYet ==
  ASSUME NEW u \in Updaters, NEW y \in Reservations, Tidy(y),
         up[u].r = y, up[u].pc \notin {"pick", "dequeue"}
  PROVE  ~Active(pqdata[Queue(u)][y])
  BY DEF Tidy, LeftOnce, Works

(* Steps that leave the queues as they are.                                *)
LEMMA UpdaterTidy ==
  ASSUME TidyInv, NEW u \in Updaters, NEW pc, NEW r, UpBecomes(u, pc, r),
         NEW y \in Reservations, up[u].pc # "pick" => up[u].r = y, pc # "pick" => r = y,
         UNCHANGED <<data, assoc, locked, queues, thr>>,
         \A x \in Reservations \ {y} : x \in current <=> x \in current',
         pc # "dequeue", ~Active(pqdata[Queue(u)][y]), pc = "set" => ~Ended(y)
  PROVE  /\ \A x \in Reservations \ {y} : Same(x)
         /\ \A x \in Reservations : Tidy(x)'
         /\ WonToFree'
<1> USE DEF data, queues
<1>1. \A x \in Reservations \ {y} : Same(x)
  BY OthersUpdaters DEF Same, ThreadsSame, SetsSame, QueuesSame
<1>2. Tidy(y)
  BY DEF TidyInv
<1>3. QueuedHasData(y)' /\ LockedOnce(y)'
  BY <1>2 DEF Tidy, QueuedHasData, LockedOnce, UnderLock
<1>4. LeftOnce(y)'
  <2> SUFFICES ASSUME NEW v \in Updaters, Active(pqdata[Queue(v)][y])
               PROVE  /\ Works(v, y)' => up'[v].pc = "dequeue"
                      /\ place[Queue(v)][y] # 0 => Works(v, y)'
    BY DEF LeftOnce, Queue
  <2>1. v # u
    OBVIOUS
  <2>2. up'[v] = up[v]
    BY <2>1 DEF UpBecomes
  <2>3. QED
    BY <1>2, <2>2 DEF Tidy, LeftOnce, Works
<1>5. Alive(y)' => Covered(y)' /\ OthersLeft(y)'
  BY <1>2 DEF Tidy, Alive, Covered, OthersLeft, Confirmed, NobodyCleans, Cleans, Removing
<1>6. ASSUME Ended(y)'
      PROVE  Settled(y)'
  <2>1. Ended(y)
    BY <1>6 DEF Ended, Alive, Removing
  <2>2. Settled(y)
    BY <1>2, <2>1 DEF Tidy
  <2>3. \A v \in Updaters : (up[v].r = y => up[v].pc # "set")'
    BY <2>1, <2>2 DEF Settled, UpBecomes
  <2>4. QED
    BY <2>2, <2>3 DEF Settled, NobodyCleans, Cleans, Removing, Reserving, NothingToLeave,
                      StillActive, StillIn
<1>7. Tidy(y)'
  BY <1>3, <1>4, <1>5, <1>6 DEF Tidy
<1>8. QED
  BY <1>1, <1>7, OthersTidy DEF TidyInv, WonToFree

(* What is left to show of the instances.                                  *)
LEMMA UpdaterAccounted ==
  ASSUME TidyInv, NEW u \in Updaters, NEW pc, NEW r, UpBecomes(u, pc, r),
         NEW y \in Reservations, \A x \in Reservations \ {y} : Same(x),
         frees' = frees, \A z \in Threads : thr[z].won => thr'[z] = thr[z],
         \A s \in Schedulers : s \in slots => s \in slots' \/ (s = Queue(u) /\ pc = "read"),
         up[u].pc \in {"read", "set"} => Accounted(Queue(u))',
         \A s \in Schedulers : Holds(s, y) => Holds(s, y)'
  PROVE  \A s \in Schedulers : Accounted(s)'
<1> SUFFICES ASSUME NEW s \in Schedulers
             PROVE  Accounted(s)'
  OBVIOUS
<1>1. s \in slots => Accounted(s)'
  BY DEF Accounted, Acquiring, UpBecomes, Queue
<1>2. ASSUME Acquiring(s)
      PROVE  Accounted(s)'
  <2>1. PICK v \in Updaters : Queue(v) = s /\ up[v].pc \in {"read", "set"}
    BY <1>2 DEF Acquiring
  <2>2. CASE v # u
    BY <2>1, <2>2 DEF UpBecomes, Accounted, Acquiring, Queue
  <2>3. QED
    BY <2>1, <2>2
<1>3. Holds(s, y) => Accounted(s)'
  BY DEF Accounted
<1>4. Won(s) \/ s \in frees => Accounted(s)'
  BY DEF Accounted, Won
<1>5. QED
  BY <1>1, <1>2, <1>3, <1>4, AccountedNext DEF TidyInv

LEMMA PickTidy ==
  ASSUME IInv, TidyInv, NEW u \in Updaters, Pick(u)
  PROVE  TidyInv'
<1> USE DEF data, shared, queues, instances
<1>1. PICK y \in Reservations :
        /\ First(u, y)
        /\ up' = [up EXCEPT ![u] = [pc |-> "exists", r |-> y, tried |-> up[u].tried \cup {y}]]
  BY DEF Pick
<1>2. up \in [Updaters -> UpdaterState]
  BY DEF IInv, TypeOK
<1>3. UpBecomes(u, "exists", y)
  <2> DEFINE a == [pc |-> "exists", r |-> y, tried |-> up[u].tried \cup {y}]
  <2>1. a \in UpdaterState /\ a.pc = "exists" /\ a.r = y
    BY <1>2 DEF UpdaterState
  <2>2. up' = [up EXCEPT ![u] = a]
    BY <1>1
  <2>3. QED
    <3> HIDE DEF a
    <3> QED BY <1>2, <2>1, <2>2 DEF UpBecomes
<1>4. up[u].pc = "pick" /\ place[Queue(u)][y] # 0
  BY <1>1 DEF Pick, First, Untried
<1>5. ~Active(pqdata[Queue(u)][y])
  BY <1>4 DEF TidyInv, Tidy, LeftOnce, Works
<1>6. /\ \A x \in Reservations \ {y} : Same(x)
      /\ (\A x \in Reservations : Tidy(x)') /\ WonToFree'
  BY <1>3, <1>4, <1>5, UpdaterTidy DEF Pick
<1>7. \A s \in Schedulers : Holds(s, y) => Holds(s, y)'
  BY <1>3, <1>4 DEF Pick, Holds, Owner, UpBecomes
<1>8. \A s \in Schedulers : Accounted(s)'
  BY <1>3, <1>4, <1>6, <1>7, UpdaterAccounted DEF Pick
<1>9. QED
  BY <1>6, <1>8 DEF TidyInv

LEMMA EndRunTidy ==
  ASSUME IInv, TidyInv, NEW u \in Updaters, EndRun(u)
  PROVE  TidyInv'
<1> USE DEF data, shared, queues, instances
<1>1. UpBecomes(u, "pick", NoReservation)
  BY EndUpdateBecomes DEF EndRun, IInv, TypeOK
<1>2. ASSUME NEW x \in Reservations
      PROVE  Same(x)
  BY <1>1 DEF EndRun, UpBecomes, Same, ThreadsSame, UpdatersSame, Works, SetsSame, QueuesSame
<1>3. \A x \in Reservations : Tidy(x)'
  BY <1>2, SameTidy DEF TidyInv
<1>4. WonToFree'
  BY DEF EndRun, TidyInv, WonToFree
<1>5. ASSUME NEW s \in Schedulers
      PROVE  Accounted(s)'
  <2>1. \A x \in Reservations : Holds(s, x) => Holds(s, x)'
    BY <1>2, SameHolds
  <2>2. Acquiring(s) => Acquiring(s)'
    BY <1>1 DEF EndRun, Acquiring, UpBecomes
  <2>3. QED
    BY <2>1, <2>2 DEF EndRun, TidyInv, Accounted, Won
<1>6. QED
  BY <1>3, <1>4, <1>5 DEF TidyInv

LEMMA CheckExistsTidy ==
  ASSUME IInv, TidyInv, NEW u \in Updaters, CheckExists(u)
  PROVE  TidyInv'
<1> USE DEF data, shared, queues, instances
<1>0. UNCHANGED <<data, shared, queues, instances, thr>>
  BY DEF CheckExists
<1>y. PICK y \in Reservations : y = up[u].r
  BY Working DEF CheckExists
<1>1. up[u].pc = "exists" /\ up[u].r = y /\ up \in [Updaters -> UpdaterState]
  BY <1>y DEF CheckExists, IInv, TypeOK
<1>2. PICK pc \in {"confirm", "pick"}, r \in {y, NoReservation} :
        UpBecomes(u, pc, r) /\ (pc = "confirm" => r = y)
  BY <1>1, UpGotoBecomes, EndUpdateBecomes DEF CheckExists
<1>3. ~Active(pqdata[Queue(u)][y])
  BY <1>1, NotPromotedYet DEF TidyInv
<1>4. /\ \A x \in Reservations \ {y} : Same(x)
      /\ (\A x \in Reservations : Tidy(x)') /\ WonToFree'
  BY <1>0, <1>1, <1>2, <1>3, UpdaterTidy
<1>5. \A s \in Schedulers : Holds(s, y) => Holds(s, y)'
  BY <1>0, <1>1, <1>2 DEF Holds, Owner, UpBecomes
<1>6. \A s \in Schedulers : Accounted(s)'
  BY <1>0, <1>1, <1>2, <1>4, <1>5, UpdaterAccounted
<1>7. QED
  BY <1>4, <1>6 DEF TidyInv

LEMMA ConfirmCurrentTidy ==
  ASSUME IInv, TidyInv, NEW u \in Updaters, ConfirmCurrent(u)
  PROVE  TidyInv'
<1> USE DEF data, queues, instances
<1>0. UNCHANGED <<data, assoc, locked, finishing, queues, instances, thr>>
  BY DEF ConfirmCurrent
<1>y. PICK y \in Reservations : y = up[u].r
  BY Working DEF ConfirmCurrent
<1>1. up[u].pc = "confirm" /\ up[u].r = y /\ up \in [Updaters -> UpdaterState]
  BY <1>y DEF ConfirmCurrent, IInv, TypeOK
<1>2. PICK pc \in {"pick", "acquire"} :
        /\ UpBecomes(u, pc, y) /\ current' = current \cup {y}
        /\ pc = "acquire" <=> y \notin current
  BY <1>1, UpGotoBecomes DEF ConfirmCurrent
<1>3. ~Active(pqdata[Queue(u)][y])
  BY <1>1, NotPromotedYet DEF TidyInv
<1>4. /\ \A x \in Reservations \ {y} : Same(x)
      /\ (\A x \in Reservations : Tidy(x)') /\ WonToFree'
  BY <1>0, <1>1, <1>2, <1>3, UpdaterTidy
<1>5. \A s \in Schedulers : Holds(s, y) => Holds(s, y)'
  BY <1>0, <1>1, <1>2 DEF Holds, Owner, UpBecomes
<1>6. \A s \in Schedulers : Accounted(s)'
  BY <1>0, <1>1, <1>2, <1>4, <1>5, UpdaterAccounted
<1>7. QED
  BY <1>4, <1>6 DEF TidyInv

LEMMA AcquireTidy ==
  ASSUME IInv, TidyInv, NEW u \in Updaters, Acquire(u)
  PROVE  TidyInv'
<1> USE DEF data, queues
<1>0. /\ UNCHANGED <<data, assoc, locked, finishing, queues, frees, thr>>
      /\ slots' = slots \ {Queue(u)}
  BY DEF Acquire
<1>y. PICK y \in Reservations : y = up[u].r
  BY Working DEF Acquire
<1>1. up[u].pc = "acquire" /\ up[u].r = y /\ up \in [Updaters -> UpdaterState]
  BY <1>y DEF Acquire, IInv, TypeOK
<1>2. PICK pc \in {"read", "pick"} :
        /\ UpBecomes(u, pc, y) /\ (pc = "read" <=> Queue(u) \in slots)
        /\ current' \in {current, current \ {y}}
  BY <1>1, UpGotoBecomes DEF Acquire
<1>3. ~Active(pqdata[Queue(u)][y])
  BY <1>1, NotPromotedYet DEF TidyInv
<1>4. /\ \A x \in Reservations \ {y} : Same(x)
      /\ (\A x \in Reservations : Tidy(x)') /\ WonToFree'
  BY <1>0, <1>1, <1>2, <1>3, UpdaterTidy
<1>5. \A s \in Schedulers : ~Holds(s, y)
  BY <1>1 DEF Holds, Owner
<1>6. \A s \in Schedulers : Accounted(s)'
  BY <1>0, <1>1, <1>2, <1>4, <1>5, UpdaterAccounted
<1>7. QED
  BY <1>4, <1>6 DEF TidyInv

(* Of a reservation that has ended nothing is found, or it would still be  *)
(* promoted there.                                                         *)
LEMMA ReadTidy ==
  ASSUME IInv, TidyInv, NEW u \in Updaters, Read(u)
  PROVE  TidyInv'
<1> USE DEF data, shared, queues
<1>0. UNCHANGED <<data, shared, queues, frees, thr>>
  BY DEF Read
<1>y. PICK y \in Reservations : y = up[u].r
  BY Working DEF Read
<1>1. up[u].pc = "read" /\ up[u].r = y /\ up \in [Updaters -> UpdaterState]
  BY <1>y DEF Read, IInv, TypeOK
<1>2. PICK pc \in {"set", "pick"} :
        /\ UpBecomes(u, pc, y) /\ (pc = "set" => pqdata[Queue(u)][y] # "absent")
        /\ slots' = IF pc = "set" THEN slots ELSE slots \cup {Queue(u)}
  BY <1>1, UpGotoBecomes DEF Read
<1>3. ~Active(pqdata[Queue(u)][y])
  BY <1>1, NotPromotedYet DEF TidyInv
<1>4. pc = "set" => ~Ended(y)
  BY <1>2, <1>3 DEF TidyInv, Tidy, Settled, StillActive, Queue, Updaters
<1>5. /\ \A x \in Reservations \ {y} : Same(x)
      /\ (\A x \in Reservations : Tidy(x)') /\ WonToFree'
  BY <1>0, <1>1, <1>2, <1>3, <1>4, UpdaterTidy
<1>6. \A s \in Schedulers : ~Holds(s, y)
  BY <1>1 DEF Holds, Owner
<1>7. Accounted(Queue(u))'
  BY <1>2 DEF Accounted, Acquiring, UpBecomes, Queue
<1>8. \A s \in Schedulers : Accounted(s)'
  BY <1>0, <1>1, <1>2, <1>5, <1>6, <1>7, UpdaterAccounted
<1>9. QED
  BY <1>5, <1>8 DEF TidyInv

-----------------------------------------------------------------------------
(* Threads: what a step leaves to show.                                    *)

(* Whether a thread has won is changed by what frees only.                 *)
LEMMA WonNext ==
  ASSUME thr \in [Threads -> ThreadState], NEW t \in Threads
  PROVE  /\ \A pc : Goto(t, pc) => thr'[t].won = thr[t].won
         /\ \A pc, todo : GotoWith(t, pc, todo) => thr'[t].won = thr[t].won
         /\ \A pc, q : GotoNext(t, pc, q) => thr'[t].won = thr[t].won
         /\ \A pc, won : GotoWon(t, pc, won) => thr'[t].won = won
         /\ \A op, pc, r, todo, q, s : Start(t, op, pc, r, todo, q, s) => thr'[t].won = FALSE
         /\ End(t) => thr'[t].won = FALSE
<1>1. ASSUME NEW pc, Goto(t, pc)
      PROVE  thr'[t].won = thr[t].won
  BY <1>1 DEF Goto, ThreadState
<1>2. ASSUME NEW pc, NEW todo, GotoWith(t, pc, todo)
      PROVE  thr'[t].won = thr[t].won
  BY <1>2 DEF GotoWith, ThreadState
<1>3. ASSUME NEW pc, NEW q, GotoNext(t, pc, q)
      PROVE  thr'[t].won = thr[t].won
  BY <1>3 DEF GotoNext, ThreadState
<1>4. ASSUME NEW pc, NEW won, GotoWon(t, pc, won)
      PROVE  thr'[t].won = won
  BY <1>4 DEF GotoWon, ThreadState
<1>5. ASSUME NEW op, NEW pc, NEW r, NEW todo, NEW q, NEW s, Start(t, op, pc, r, todo, q, s)
      PROVE  thr'[t].won = FALSE
  BY <1>5 DEF Start
<1>6. ASSUME End(t)
      PROVE  thr'[t].won = FALSE
  BY <1>6 DEF End, Idle
<1>7. QED
  BY <1>1, <1>2, <1>3, <1>4, <1>5, <1>6

(* The lock, of a step that does not get past it.                          *)
LEMMA LockedNext ==
  ASSUME NEW y \in Reservations, Tidy(y), y \in locked <=> y \in locked',
         NEW t \in Threads, \A z \in Threads \ {t} : thr'[z] = thr[z],
         UnderLock(t, y)' => UnderLock(t, y)
  PROVE  LockedOnce(y)'
<1>1. \A z \in Threads : UnderLock(z, y)' => UnderLock(z, y)
  BY DEF UnderLock
<1>2. QED
  BY <1>1 DEF Tidy, LockedOnce

(* A thread that neither removes its reservation nor takes it out of       *)
(* anything.                                                               *)
LEMMA QuietTidy ==
  ASSUME NEW y \in Reservations, Tidy(y), NEW t \in Threads,
         NEW op, NEW pc, NEW r, NEW todo, NEW q, NEW s, Becomes(t, op, pc, r, todo, q, s),
         QueuedHasData(y)', LeftOnce(y)', LockedOnce(y)',
         y \in fresh <=> y \in fresh', y \in stored <=> y \in stored',
         y \in accessed => y \in accessed', assoc'[y] = assoc[y],
         \A x \in Schedulers :
           /\ pqdata'[x][y] = "absent" <=> pqdata[x][y] = "absent"
           /\ Active(pqdata'[x][y]) <=> Active(pqdata[x][y])
           /\ Alive(y) /\ pqdata'[x][y] = "reserved" => pqdata[x][y] = "reserved" \/ Confirmed(y),
         \A u \in Updaters : (up[u].r = y /\ up[u].pc = "set")' => up[u].r = y /\ up[u].pc = "set",
         ~Removing(t, y), ~Cleans(t, y), op \notin {"finish", "expire"},
         pc \notin {"clean", "delete"}, op = "reserve" /\ r = y => Reserving(t, y),
         Alive(y) /\ r = y /\ op = "confirm" /\ pc \in {"unlock", "list", "write"} =>
           Confirmed(y) \/ NobodyCleans(y),
         Ended(y) /\ r = y /\ pc = "each" => todo \cap assoc[y] = {}
  PROVE  Tidy(y)'
<1>1. \A z \in Threads \ {t} : thr'[z] = thr[z]
  BY DEF Becomes
<1>2. /\ \A z \in Threads : Removing(z, y)' <=> Removing(z, y)
      /\ \A z \in Threads : Cleans(z, y)' <=> Cleans(z, y)
  BY <1>1 DEF Removing, Cleans, Becomes
<1>3. (Alive(y)' <=> Alive(y)) /\ (Ended(y)' <=> Ended(y))
  BY <1>2 DEF Alive, Ended
<1>4. NobodyCleans(y)' <=> NobodyCleans(y)
  BY <1>2 DEF NobodyCleans
<1>5. ASSUME Alive(y)
      PROVE  Covered(y)' /\ OthersLeft(y)'
  <2>1. Covered(y)'
    BY <1>1, <1>2, <1>5 DEF Tidy, Covered, Cleans
  <2>2. Confirmed(y)' => Confirmed(y) \/ NobodyCleans(y)
    BY <1>1, <1>5 DEF Confirmed, Becomes
  <2>3. OthersLeft(y)'
    BY <1>4, <1>5, <2>2 DEF Tidy, OthersLeft
  <2>4. QED
    BY <2>1, <2>3
<1>6. ASSUME Ended(y)
      PROVE  Settled(y)'
  <2>1. Settled(y)
    BY <1>6 DEF Tidy
  <2>2. \A z \in Threads : ~Reserving(z, y)'
    BY <1>1, <2>1 DEF Settled, Reserving, Becomes
  <2>3. NothingToLeave(y)'
    BY <1>1, <1>2, <1>6, <2>1 DEF Settled, NothingToLeave, Becomes
  <2>4. \A x \in Schedulers : StillActive(x, y) => StillActive(x, y)'
    BY <1>1, <1>2 DEF StillActive, StillIn, Removing, Becomes
  <2>5. QED
    BY <1>4, <2>1, <2>2, <2>3, <2>4 DEF Settled
<1>7. QED
  BY <1>3, <1>5, <1>6 DEF Tidy

(* A thread that frees nothing.                                            *)
LEMMA ThreadTidyInv ==
  ASSUME TidyInv, NEW y \in Reservations, Tidy(y)', \A x \in Reservations \ {y} : Same(x),
         NEW t \in Threads,
         NEW op, NEW pc, NEW r, NEW todo, NEW q, NEW s, Becomes(t, op, pc, r, todo, q, s),
         UNCHANGED <<slots, frees, up>>, ~thr[t].won, ~thr'[t].won,
         y \in current <=> y \in current',
         \A x \in Schedulers : Holds(x, y) =>
           Active(pqdata'[x][y]) /\ ~(pc = "delete" /\ r = y /\ q = x)
  PROVE  TidyInv'
<1>1. \A z \in Threads \ {t} : thr'[z] = thr[z]
  BY DEF Becomes
<1>2. \A x \in Reservations : Tidy(x)'
  BY OthersTidy DEF TidyInv
<1>3. WonToFree'
  BY <1>1 DEF TidyInv, WonToFree
<1>4. \A x \in Schedulers : Holds(x, y) => Holds(x, y)'
  BY <1>1 DEF Holds, Owner, Becomes
<1>5. \A z \in Threads : thr[z].won => thr'[z].won /\ thr'[z].q = thr[z].q
  BY <1>1
<1>6. \A x \in Schedulers : Accounted(x)'
  BY <1>4, <1>5, ThreadAccounted DEF TidyInv
<1>7. QED
  BY <1>2, <1>3, <1>6 DEF TidyInv

-----------------------------------------------------------------------------
(* The last steps of an updater.                                           *)

LEMMA SetConfirmingTidy ==
  ASSUME UsersStay, IInv, TidyInv, NEW u \in Updaters, SetConfirming(u)
  PROVE  TidyInv'
<1> USE DEF data, shared, instances
<1>0. UNCHANGED <<data, shared, place, drawn, instances, thr>>
  BY DEF SetConfirming
<1>y. PICK y \in Reservations : y = up[u].r
  BY Working DEF SetConfirming
<1>1. /\ up[u].pc = "set" /\ up[u].r = y /\ ~Nowhere(y) /\ Queue(u) \in Schedulers
      /\ UpdaterTypes /\ DataTypes /\ Good(y) /\ Tidy(y)
  BY <1>y, Working DEF SetConfirming, IInv, TidyInv
<1>2. UpBecomes(u, "dequeue", y)
  BY <1>1, UpGotoBecomes DEF SetConfirming, UpdaterTypes
<1>3. \A s \in Schedulers, x \in Reservations :
        pqdata'[s][x] = IF s = Queue(u) /\ x = y THEN "confirming" ELSE pqdata[s][x]
  BY <1>1 DEF SetConfirming, DataTypes
<1>4. \A x \in Reservations \ {y} : Same(x)
  BY <1>0, <1>1, <1>2, <1>3, OthersUpdaters DEF Same, ThreadsSame, SetsSame, QueuesSame
<1>5. Alive(y) /\ Consistent(y)
  <2>1. y \notin fresh /\ ~Ended(y)
    BY <1>1, WorkedOnIsSomewhere DEF Tidy, Settled
  <2>2. QED
    BY <1>1, <2>1 DEF Ended, Good
<1>6. /\ y \in current /\ ~Promoted(y) /\ Queue(u) \in assoc[y]
      /\ \A v \in Updaters : Owner(v, y) => v = u
  BY <1>1, <1>5 DEF Consistent, Owned, Owner
<1>7. QueuedHasData(y)' /\ LockedOnce(y)'
  BY <1>0, <1>1, <1>3 DEF Tidy, QueuedHasData, LockedOnce, UnderLock
<1>8. LeftOnce(y)'
  <2> SUFFICES ASSUME NEW v \in Updaters, Active(pqdata'[Queue(v)][y])
               PROVE  up'[v].pc = "dequeue" /\ Works(v, y)'
    BY DEF LeftOnce, Queue
  <2>1. Queue(v) = Queue(u)
    BY <1>3, <1>6 DEF Promoted, Queue, Updaters
  <2>2. v = u
    BY <2>1, OnlyUpdater
  <2>3. QED
    BY <1>2, <2>2 DEF UpBecomes, Works
<1>9. Alive(y)' /\ Covered(y)' /\ OthersLeft(y)'
  <2>1. Alive(y)'
    BY <1>0, <1>5 DEF Alive, Removing
  <2>2. Covered(y)'
    BY <1>0, <1>1, <1>3, <1>5, <1>6 DEF Tidy, Covered, Cleans
  <2>3. Confirmed(y)' => Confirmed(y)
    BY <1>0, <1>3 DEF Confirmed
  <2>4. QED
    BY <1>0, <1>1, <1>5, <2>1, <2>2, <2>3 DEF Tidy, OthersLeft, NobodyCleans, Cleans, Removing
<1>10. \A x \in Reservations : Tidy(x)'
  <2>1. Tidy(y)'
    BY <1>7, <1>8, <1>9 DEF Tidy, Ended
  <2>2. QED
    BY <1>4, <2>1, OthersTidy DEF TidyInv
<1>11. Holds(Queue(u), y)'
  <2>1. \A t \in Threads : thr[t].r = y => thr[t].pc # "delete"
    BY <1>5, <1>6 DEF Consistent, Assigned, Assigning, Promoted
  <2>2. \A v \in Updaters : ~Owner(v, y)'
    BY <1>2, <1>6 DEF Owner, UpBecomes
  <2>3. QED
    BY <1>0, <1>1, <1>3, <1>6, <2>1, <2>2 DEF Holds, Active, Queue
<1>12. \A s \in Schedulers : ~Holds(s, y)
  BY <1>1 DEF Holds, Owner
<1>13. \A s \in Schedulers : Accounted(s)'
  <2>1. Accounted(Queue(u))'
    BY <1>11 DEF Accounted, Queue
  <2>2. QED
    BY <1>0, <1>2, <1>4, <1>12, <2>1, UpdaterAccounted
<1>14. QED
  BY <1>0, <1>10, <1>13 DEF TidyInv, WonToFree

LEMMA DequeueTidy ==
  ASSUME UsersStay, AggregatorAssumption, IInv, TidyInv, NEW u \in Updaters, Dequeue(u)
  PROVE  TidyInv'
<1> USE DEF data, shared, instances
<1>0. UNCHANGED <<data, shared, pqdata, drawn, instances>>
  BY DEF Dequeue
<1>y. PICK y \in Reservations : y = up[u].r
  BY Working DEF Dequeue
<1> DEFINE t == <<y, u>>
<1>1. /\ up[u].pc = "dequeue" /\ up[u].r = y /\ Queue(u) \in Schedulers
      /\ ThreadTypes /\ UpdaterTypes /\ DataTypes /\ Tidy(y)
      /\ t \in Threads /\ thr[t].pc = "idle"
  BY <1>y, Working DEF Dequeue, TidyInv, Threads, Confirmers
<1>t. thr[t].op = "none" /\ thr[t].r = NoReservation /\ NoReservation # y
  BY <1>1 DEF ThreadTypes, WellFormed, AggregatorAssumption
<1>2. UpBecomes(u, "pick", y)
  BY <1>1, UpGotoBecomes DEF Dequeue, UpdaterTypes
<1>s. Start(t, "confirm", "lab", y, {}, NoScheduler, Queue(u))
  BY <1>y DEF Dequeue
<1> HIDE DEF t
<1>3. Becomes(t, "confirm", "lab", y, {}, NoScheduler, Queue(u)) /\ ~thr'[t].won /\ ~thr[t].won
  BY <1>1, <1>s, StartBecomes, WonNext DEF ThreadTypes, Pcs, Ops, TidyInv, WonToFree
<1>4. \A s \in Schedulers, x \in Reservations :
        place'[s][x] = IF s = Queue(u) /\ x = y THEN 0 ELSE place[s][x]
  BY <1>1 DEF Dequeue, DataTypes
<1>5. \A x \in Reservations \ {y} : Same(x)
  <2>1. \A x \in Reservations \ {y} : UpdatersSame(x)
    BY <1>1, <1>2, OthersUpdaters
  <2>2. \A x \in Reservations \ {y} : ThreadsSame(x)
    BY <1>1, <1>t, <1>3, OthersThreads DEF AggregatorAssumption
  <2>3. QED
    BY <1>0, <1>4, <2>1, <2>2 DEF Same, SetsSame, QueuesSame
<1>6. QueuedHasData(y)'
  BY <1>0, <1>1, <1>4 DEF Tidy, QueuedHasData
<1>7. LeftOnce(y)'
  <2> SUFFICES ASSUME NEW v \in Updaters, Active(pqdata[Queue(v)][y])
               PROVE  /\ Works(v, y)' => up'[v].pc = "dequeue"
                      /\ place'[Queue(v)][y] # 0 => Works(v, y)'
    BY <1>0 DEF LeftOnce, Queue
  <2>1. CASE v = u
    BY <1>1, <1>2, <1>4, <2>1 DEF Works, UpBecomes
  <2>2. CASE v # u
    <3>1. up'[v] = up[v] /\ Queue(v) # Queue(u) /\ Queue(v) \in Schedulers
      BY <1>2, <2>2, OnlyUpdater DEF UpBecomes, Queue, Updaters
    <3>2. QED
      BY <1>1, <1>4, <3>1 DEF Tidy, LeftOnce, Works
  <2>3. QED
    BY <2>1, <2>2
<1>8. LockedOnce(y)'
  BY <1>0, <1>1, <1>3, LockedNext DEF Becomes, UnderLock
<1>9. \A v \in Updaters : (up[v].r = y /\ up[v].pc = "set")' => up[v].r = y /\ up[v].pc = "set"
  BY <1>2 DEF UpBecomes
<1>10. Tidy(y)'
  BY <1>0, <1>1, <1>t, <1>3, <1>6, <1>7, <1>8, <1>9, QuietTidy DEF Removing, Cleans
<1>11. \A s \in Schedulers : Holds(s, y) => Holds(s, y)'
  BY <1>0, <1>1, <1>2, <1>3 DEF Holds, Owner, UpBecomes, Becomes
<1>12. \A z \in Threads : thr[z].won => thr'[z] = thr[z]
  BY <1>3 DEF Becomes
<1>13. \A s \in Schedulers : Accounted(s)'
  BY <1>0, <1>1, <1>2, <1>5, <1>11, <1>12, UpdaterAccounted
<1>14. WonToFree'
  BY <1>3, <1>12 DEF TidyInv, WonToFree, Becomes
<1>15. QED
  BY <1>5, <1>10, <1>13, <1>14, OthersTidy DEF TidyInv

(* Any step of an updater.                                                 *)
LEMMA UpdateTidy ==
  ASSUME UsersStay, AggregatorAssumption, IInv, TidyInv, NEW u \in Updaters, Update(u)
  PROVE  TidyInv'
  BY PickTidy, EndRunTidy, CheckExistsTidy, ConfirmCurrentTidy, AcquireTidy, ReadTidy,
     SetConfirmingTidy, DequeueTidy DEF Update

-----------------------------------------------------------------------------
(* Threads that start.                                                     *)

LEMMA BeginReserveTidy ==
  ASSUME AggregatorAssumption, IInv, TidyInv, NEW w \in Workers, NEW y \in Reservations,
         BeginReserve(w, y)
  PROVE  TidyInv'
<1> USE DEF shared, queues, instances
<1>0. /\ fresh' = fresh \ {y} /\ stored' = stored \cup {y} /\ accessed' = accessed \cup {y}
      /\ y \in fresh /\ thr[w].pc = "idle" /\ UNCHANGED <<shared, queues, instances, up>>
  BY DEF BeginReserve
<1>1. /\ w \in Threads /\ thr[w].op = "none" /\ thr[w].r = NoReservation /\ Good(y)
      /\ ThreadTypes
  BY <1>0, IdleThread DEF IInv
<1>2. /\ Becomes(w, "reserve", "lock", y, {}, NoScheduler, NoScheduler)
      /\ ~thr[w].won /\ ~thr'[w].won
  BY <1>0, <1>1, StartBecomes, WonNext
     DEF BeginReserve, ThreadTypes, Pcs, Ops, TidyInv, WonToFree
<1>3. \A x \in Reservations \ {y} : Same(x)
  <2>1. \A x \in Reservations \ {y} : ThreadsSame(x)
    BY <1>1, <1>2, OthersThreads DEF AggregatorAssumption
  <2>2. QED
    BY <1>0, <2>1 DEF Same, UpdatersSame, SetsSame, QueuesSame
<1>4. Nowhere(y) /\ \A t \in Threads : thr[t].r # y
  BY <1>0, <1>1 DEF Good, FreshIsNowhere
<1>5. \A t \in Threads : (thr[t].r = y)' => thr'[t].op = "reserve" /\ thr'[t].pc = "lock"
  BY <1>2, <1>4 DEF Becomes
<1>6. \A s \in Schedulers : pqdata'[s][y] = "absent" /\ place'[s][y] = 0
  BY <1>0, <1>4 DEF Nowhere
<1>7. QueuedHasData(y)' /\ LeftOnce(y)'
  BY <1>6 DEF QueuedHasData, LeftOnce, Active, Queue, Updaters
<1>8. LockedOnce(y)'
  BY <1>5 DEF LockedOnce, UnderLock
<1>9. Covered(y)' /\ OthersLeft(y)' /\ ~Ended(y)'
  BY <1>0, <1>5, <1>6
     DEF Covered, OthersLeft, Confirmed, NobodyCleans, Cleans, Ended, Alive, Removing
<1>10. Tidy(y)'
  BY <1>7, <1>8, <1>9 DEF Tidy
<1>11. \A s \in Schedulers : ~Holds(s, y)
  BY <1>4 DEF Nowhere, Holds, Active
<1>12. UNCHANGED <<slots, frees, up>> /\ (y \in current <=> y \in current')
  BY <1>0
<1>13. QED
  BY <1>1, <1>2, <1>3, <1>10, <1>11, <1>12, ThreadTidyInv

(* A removal starts where the reservation is used, and nowhere else.       *)
LEMMA BeginRemoveTidy ==
  ASSUME AggregatorAssumption, IInv, TidyInv, NEW w \in Workers, thr[w].pc = "idle",
         NEW y \in Reservations, NEW s \in Schedulers, pqdata[s][y] = "reserved",
         NEW op \in {"finish", "expire"}, NEW pc \in {"each", "clean"},
         NEW todo \in SUBSET Schedulers, NEW q \in Schedulers \cup {NoScheduler},
         Start(w, op, pc, y, todo, q, NoScheduler),
         UNCHANGED <<data, current, assoc, locked, queues, instances, up>>,
         \/ op = "finish" /\ pc = "each" /\ todo = assoc[y]
         \/ op = "expire" /\ pc = "clean" /\ q = s
  PROVE  TidyInv'
<1> USE DEF data, queues, instances
<1>1. /\ w \in Threads /\ thr[w].op = "none" /\ thr[w].r = NoReservation /\ Good(y) /\ Tidy(y)
      /\ NoReservation # y /\ ThreadTypes /\ DataTypes
  BY IdleThread DEF IInv, TidyInv, AggregatorAssumption
<1>2. Becomes(w, op, pc, y, todo, q, NoScheduler) /\ ~thr[w].won /\ ~thr'[w].won
  <2>1. op \in Ops /\ pc \in Pcs
    BY DEF Ops, Pcs
  <2>2. thr \in [Threads -> ThreadState]
    BY <1>1 DEF ThreadTypes
  <2>3. Becomes(w, op, pc, y, todo, q, NoScheduler)
    BY <1>1, <2>1, <2>2, StartBecomes
  <2>4. ~thr'[w].won
    BY <1>1, <2>2, WonNext
  <2>5. ~thr[w].won
    BY <1>1 DEF TidyInv, WonToFree
  <2>6. QED
    BY <2>3, <2>4, <2>5
<1>3. \A x \in Reservations \ {y} : Same(x)
  <2>1. \A x \in Reservations \ {y} : ThreadsSame(x)
    BY <1>1, <1>2, OthersThreads DEF AggregatorAssumption
  <2>2. QED
    BY <2>1 DEF Same, UpdatersSame, SetsSame, QueuesSame
<1>4. y \notin fresh /\ \A z \in Threads : ~Reserving(z, y)
  BY <1>1 DEF Good, FreshIsNowhere, Nowhere, ReservesAlone, Alone
<1>5. \A z \in Threads : z # w => thr'[z] = thr[z]
  BY <1>2 DEF Becomes
<1>6. /\ NobodyCleans(y) /\ NothingToLeave(y) /\ \A x \in assoc[y] : x = s
      /\ \A u \in Updaters : up[u].r = y => up[u].pc # "set"
      /\ \A x \in Schedulers : pqdata[x][y] # "absent" => StillActive(x, y) /\ x = s
  <2>1. CASE Alive(y)
    <3>1. Consistent(y) /\ assoc[y] = {s} /\ NobodyCleans(y) /\ Promoted(y)
      BY <1>1, <2>1 DEF Good, Consistent, OnlyScheduler, Tidy, OthersLeft, Confirmed, Promoted,
                        Active
    <3>2. \A z \in Threads : ~Removing(z, y)
      BY <2>1 DEF Alive
    <3>3. NothingToLeave(y)
      <4> SUFFICES ASSUME NEW z \in Threads, thr[z].r = y, thr[z].pc = "each"
                   PROVE  s \notin thr[z].todo
        BY <3>1 DEF NothingToLeave
      <4>1. thr[z].s \in Schedulers /\ Active(pqdata[thr[z].s][y]) /\ thr[z].s \notin thr[z].todo
        BY <3>1 DEF Consistent, Assigned, Assigning
      <4>2. thr[z].s = s
        BY <3>1, <4>1 DEF Consistent, Once, Active
      <4>3. QED
        BY <4>1, <4>2
    <3>4. \A u \in Updaters : up[u].r = y => up[u].pc # "set"
      BY <3>1 DEF Consistent, Owned, Owner
    <3>5. \A x \in Schedulers : pqdata[x][y] # "absent" => x = s
      BY <1>1, <2>1, <3>1, <3>2 DEF Tidy, Covered, NobodyCleans
    <3>6. StillActive(s, y)
      BY <1>1, <2>1, <3>1, <3>2 DEF StillActive, Alive, Good, StoredIsAccessed, Active
    <3>7. QED
      BY <3>1, <3>3, <3>4, <3>5, <3>6
  <2>2. CASE ~Alive(y)
    <3>1. Settled(y)
      BY <1>1, <1>4, <2>2 DEF Tidy, Ended
    <3>2. s \in assoc[y]
      BY <3>1 DEF Settled, StillActive
    <3>3. QED
      BY <3>1, <3>2 DEF Settled, StillActive
  <2>3. QED
    BY <2>1, <2>2
<1>7. Removing(w, y)' /\ StillIn(w, s)' /\ Ended(y)'
  <2>1. Removing(w, y)'
    BY <1>2 DEF Removing, Becomes
  <2>2. StillIn(w, s)'
    BY <1>2, <1>6 DEF StillIn, Becomes, StillActive
  <2>3. QED
    BY <1>1, <1>4, <2>1, <2>2 DEF Ended, Alive
<1>8. Settled(y)'
  <2>1. NobodyCleans(y)' /\ NothingToLeave(y)'
    BY <1>5, <1>6, <1>7 DEF NobodyCleans, Cleans, Removing, NothingToLeave
  <2>2. \A z \in Threads : ~Reserving(z, y)'
    BY <1>2, <1>4, <1>5 DEF Reserving, Becomes
  <2>3. \A x \in Schedulers : pqdata[x][y] # "absent" => StillActive(x, y)'
    BY <1>5, <1>6, <1>7 DEF StillActive, StillIn, Removing
  <2>4. QED
    BY <1>6, <2>1, <2>2, <2>3 DEF Settled
<1>9. LockedOnce(y)'
  BY <1>1, <1>2, <1>5, LockedNext DEF UnderLock, Becomes
<1>10. Tidy(y)'
  BY <1>1, <1>7, <1>8, <1>9 DEF Tidy, QueuedHasData, LeftOnce, Works, Ended
<1>11. \A x \in Schedulers : Holds(x, y) => Active(pqdata'[x][y])
  BY DEF Holds
<1>12. QED
  BY <1>1, <1>2, <1>3, <1>10, <1>11, ThreadTidyInv

-----------------------------------------------------------------------------
(* Threads that neither remove nor clean.                                  *)

LEMMA QuietStepTidy ==
  ASSUME AggregatorAssumption, TidyInv, NEW t \in Threads, NEW y \in Reservations,
         thr[t].r \in {y, NoReservation},
         NEW op, NEW pc, NEW r, NEW todo, NEW q, NEW s, Becomes(t, op, pc, r, todo, q, s),
         \/ op = thr[t].op /\ r = y
         \/ op = "none" /\ r = NoReservation
         \/ op = "status" /\ r = y /\ thr[t].op = "none",
         thr[t].op \notin {"finish", "expire"}, thr[t].pc \notin {"clean", "delete", "purge"},
         pc \notin {"clean", "delete"}, ~thr'[t].won,
         op = "reserve" => thr[t].r = y,
         \A x \in Reservations \ {y} : SetsSame(x) /\ QueuesSame(x),
         UNCHANGED <<fresh, stored, current, instances, up>>,
         y \in accessed => y \in accessed', assoc'[y] = assoc[y],
         \A x \in Schedulers :
           /\ place'[x][y] = place[x][y]
           /\ pqdata'[x][y] = "absent" <=> pqdata[x][y] = "absent"
           /\ Active(pqdata'[x][y]) <=> Active(pqdata[x][y])
           /\ Alive(y) /\ pqdata'[x][y] = "reserved" => pqdata[x][y] = "reserved" \/ Confirmed(y),
         LockedOnce(y)',
         Alive(y) /\ op = "confirm" /\ pc \in {"unlock", "list", "write"} =>
           Confirmed(y) \/ NobodyCleans(y),
         Ended(y) /\ pc = "each" => todo \cap assoc[y] = {}
  PROVE  TidyInv'
<1> USE DEF instances
<1>1. Tidy(y) /\ ~thr[t].won /\ y # NoReservation
  BY DEF TidyInv, WonToFree, AggregatorAssumption
<1>2. \A x \in Reservations \ {y} : Same(x)
  <2>1. \A x \in Reservations \ {y} : ThreadsSame(x)
    BY OthersThreads DEF AggregatorAssumption
  <2>2. QED
    BY <2>1 DEF Same, UpdatersSame
<1>3. QueuedHasData(y)' /\ LeftOnce(y)'
  BY <1>1 DEF Tidy, QueuedHasData, LeftOnce, Works, Queue, Updaters
<1>4. Tidy(y)'
  <2>1. ~Removing(t, y) /\ ~Cleans(t, y) /\ op \notin {"finish", "expire"}
    BY DEF Removing, Cleans
  <2>2. op = "reserve" /\ r = y => Reserving(t, y)
    BY DEF Reserving
  <2>3. QED
    BY <1>1, <1>3, <2>1, <2>2, QuietTidy
<1>5. \A x \in Schedulers : Holds(x, y) => Active(pqdata'[x][y])
  BY DEF Holds
<1>6. QED
  BY <1>1, <1>2, <1>4, <1>5, ThreadTidyInv

(* Any thread that starts.                                                 *)
LEMMA BeginTidy ==
  ASSUME UsersStay, AggregatorAssumption, IInv, TidyInv, NEW w \in Workers, Begin(w)
  PROVE  TidyInv'
<1> USE DEF data, shared, queues
<1>1. PICK y \in Reservations :
        \/ BeginReserve(w, y) \/ BeginStatus(w, y) \/ BeginFinish(w, y)
        \/ \E s \in Schedulers : BeginExpire(w, s, y)
  BY DEF Begin
<1>2. CASE BeginReserve(w, y)
  BY <1>2, BeginReserveTidy
<1>t. ASSUME thr[w].pc = "idle"
      PROVE  /\ w \in Threads /\ thr[w].op = "none" /\ thr[w].r = NoReservation
             /\ ThreadTypes /\ DataTypes
  BY <1>t, IdleThread
<1>3. CASE BeginStatus(w, y)
  <2>1. /\ thr[w].pc = "idle" /\ UNCHANGED <<data, shared, queues, instances, up>>
        /\ Start(w, "status", "lock", y, {}, NoScheduler, NoScheduler)
    BY <1>3 DEF BeginStatus
  <2>2. Becomes(w, "status", "lock", y, {}, NoScheduler, NoScheduler) /\ ~thr'[w].won
    BY <1>t, <2>1, StartBecomes, WonNext DEF ThreadTypes, Pcs, Ops
  <2>3. LockedOnce(y)'
    BY <1>t, <2>1, <2>2, LockedNext DEF TidyInv, Becomes, UnderLock
  <2>4. \A x \in Reservations \ {y} : SetsSame(x) /\ QueuesSame(x)
    BY <2>1 DEF SetsSame, QueuesSame
  <2>5. QED
    BY <1>t, <2>1, <2>2, <2>3, <2>4, QuietStepTidy
<1>4. CASE BeginFinish(w, y)
  <2>1. /\ thr[w].pc = "idle" /\ StatusOf(y) \in LeaveFrom
        /\ Start(w, "finish", "each", y, assoc[y], NoScheduler, NoScheduler)
        /\ UNCHANGED <<data, current, assoc, locked, queues, instances, up>>
    BY <1>4 DEF BeginFinish
  <2>2. StatusOf(y) = "reserved"
    BY <2>1 DEF UsersStay
  <2>3. PICK s \in Schedulers : pqdata[s][y] = "reserved"
    BY <2>2 DEF StatusOf
  <2>4. assoc[y] \in SUBSET Schedulers
    BY <1>t, <2>1 DEF DataTypes
  <2>5. QED
    BY <2>1, <2>3, <2>4, BeginRemoveTidy
<1>5. ASSUME NEW s \in Schedulers, BeginExpire(w, s, y)
      PROVE  TidyInv'
  <2>1. /\ thr[w].pc = "idle" /\ IsOver(s, y) /\ UNCHANGED <<data, shared, queues, instances, up>>
        /\ Start(w, "expire", "clean", y, {}, s, NoScheduler)
    BY <1>5 DEF BeginExpire
  <2>2. pqdata[s][y] = "reserved"
    BY <2>1 DEF IsOver, UsersStay
  <2>3. QED
    BY <2>1, <2>2, BeginRemoveTidy
<1>6. QED
  BY <1>1, <1>2, <1>3, <1>4, <1>5


-----------------------------------------------------------------------------
(* Threads that work: those that neither remove nor clean.                 *)

LEMMA NotWon ==
  ASSUME TidyInv, NEW t \in Threads, thr[t].pc \notin {"delete", "purge"}
  PROVE  ~thr[t].won
  BY DEF TidyInv, WonToFree

(* Who works under the lock and takes it out of nothing knows that nobody  *)
(* else does.                                                              *)
LEMMA AloneUnderLock ==
  ASSUME ThreadTypes, NEW y \in Reservations, Tidy(y), NEW t \in Threads, UnderLock(t, y),
         ~Cleans(t, y)
  PROVE  NobodyCleans(y)
<1> SUFFICES ASSUME NEW z \in Threads, Cleans(z, y), ~Removing(z, y)
             PROVE  FALSE
  BY DEF NobodyCleans
<1>1. thr[z].op \in {"reserve", "status", "confirm"}
  BY DEF ThreadTypes, ThreadState, WellFormed, Cleans, Removing
<1>2. UnderLock(z, y)
  BY <1>1 DEF UnderLock, Cleans
<1>3. QED
  BY <1>2 DEF Tidy, LockedOnce

LEMMA LabDoneTidy ==
  ASSUME AggregatorAssumption, IInv, TidyInv, NEW t \in Threads, LabDone(t)
  PROVE  TidyInv'
<1> USE DEF data, shared, queues
<1>a. PICK a : thr[t] = a
  OBVIOUS
<1>1. a.pc = "lab" /\ UNCHANGED <<data, shared, queues, instances, up>>
  BY <1>a DEF LabDone
<1>2. /\ a \in ThreadState /\ a.r \in Reservations /\ a.op = "confirm" /\ ThreadTypes
  BY <1>a, <1>1, ThreadData DEF WellFormed
<1>y. PICK y \in Reservations : y = a.r
  BY <1>2
<1>w. ~thr[t].won
  BY <1>a, <1>1, NotWon
<1>3. PICK op, pc, r, todo, q, s :
        /\ Becomes(t, op, pc, r, todo, q, s) /\ ~thr'[t].won
        /\ \/ op = "confirm" /\ pc = "lock" /\ r = y
           \/ op = "none" /\ pc = "idle" /\ r = NoReservation
  <2>1. CASE a.r \in stored
    <3>1. Goto(t, "lock") /\ "lock" \in Pcs
      BY <1>a, <2>1 DEF LabDone, Pcs
    <3>2. Becomes(t, "confirm", "lock", y, a.todo, a.q, a.s)
      BY <1>a, <1>y, <1>2, <3>1, GotoBecomes DEF ThreadTypes
    <3>3. ~thr'[t].won
      BY <1>2, <1>w, <3>1, WonNext DEF ThreadTypes
    <3>4. QED
      BY <3>2, <3>3
  <2>2. CASE a.r \notin stored
    <3>1. End(t)
      BY <1>a, <2>2 DEF LabDone
    <3>2. QED
      BY <1>2, <3>1, EndBecomes, WonNext DEF ThreadTypes
  <2>3. QED
    BY <2>1, <2>2
<1>4. LockedOnce(y)'
  BY <1>1, <1>3, LockedNext DEF TidyInv, Becomes, UnderLock
<1>5. \A x \in Reservations \ {y} : SetsSame(x) /\ QueuesSame(x)
  BY <1>1 DEF SetsSame, QueuesSame
<1>6. QED
  BY <1>a, <1>y, <1>1, <1>2, <1>3, <1>4, <1>5, QuietStepTidy

(* Nobody was under the lock.                                              *)
LEMMA LockTidy ==
  ASSUME UsersStay, AggregatorAssumption, IInv, TidyInv, NEW t \in Threads, Lock(t)
  PROVE  TidyInv'
<1> USE DEF data, queues
<1>a. PICK a : thr[t] = a
  OBVIOUS
<1>1. /\ a.pc = "lock" /\ LockIsFree(a.r) /\ UseLock(t) /\ locked' = locked \cup {a.r}
      /\ UNCHANGED <<data, current, assoc, finishing, queues, instances, up>>
  BY <1>a DEF Lock
<1>2. /\ a \in ThreadState /\ a.r \in Reservations /\ a.op \in {"reserve", "status", "confirm"}
      /\ ThreadTypes /\ DataTypes
  BY <1>a, <1>1, ThreadData DEF WellFormed
<1>y. PICK y \in Reservations : y = a.r
  BY <1>2
<1>w. ~thr[t].won
  BY <1>a, <1>1, NotWon
<1>3. PICK pc \in {"next", "assign"}, todo \in SUBSET Schedulers :
        Becomes(t, a.op, pc, y, todo, a.q, a.s) /\ ~thr'[t].won
  <2>1. ASSUME NEW todo \in SUBSET Schedulers, GotoWith(t, "next", todo)
        PROVE  Becomes(t, a.op, "next", y, todo, a.q, a.s) /\ ~thr'[t].won
    BY <1>a, <1>y, <1>w, <1>2, <2>1, GotoWithBecomes, WonNext DEF ThreadTypes, Pcs
  <2>2. ASSUME Goto(t, "assign")
        PROVE  Becomes(t, a.op, "assign", y, a.todo, a.q, a.s) /\ ~thr'[t].won
    BY <1>a, <1>y, <1>w, <1>2, <2>2, GotoBecomes, WonNext DEF ThreadTypes, Pcs
  <2>3. assoc[y] \in SUBSET Schedulers
    BY <1>2 DEF DataTypes
  <2>4. a.todo \in SUBSET Schedulers
    BY <1>2 DEF ThreadState
  <2>5. QED
    BY <1>a, <1>y, <1>1, <2>1, <2>2, <2>3, <2>4 DEF UseLock
<1>4. LockedOnce(y)'
  <2>1. y \notin locked
    BY <1>y, <1>1 DEF LockIsFree, UsersStay
  <2>2. \A z \in Threads : ~UnderLock(z, y)
    BY <2>1 DEF TidyInv, Tidy, LockedOnce
  <2>3. \A z \in Threads : UnderLock(z, y)' => z = t
    BY <1>3, <2>2 DEF Becomes, UnderLock
  <2>4. QED
    BY <1>y, <1>1, <2>3 DEF LockedOnce
<1>5. \A x \in Reservations \ {y} : SetsSame(x) /\ QueuesSame(x)
  BY <1>y, <1>1 DEF SetsSame, QueuesSame
<1>6. QED
  BY <1>a, <1>y, <1>1, <1>2, <1>3, <1>4, <1>5, QuietStepTidy

(* A reservation that is being made is assigned to nobody yet.             *)
LEMMA JoinTidy ==
  ASSUME AggregatorAssumption, IInv, TidyInv, NEW t \in Threads, NEW y \in Reservations,
         thr[t].r = y, thr[t].op = "reserve", thr[t].pc = "next",
         NEW q \in Schedulers, q \in thr[t].todo, GotoNext(t, "look", q), Join(q, y),
         UNCHANGED <<data, current, locked, finishing, instances, up>>
  PROVE  TidyInv'
<1> USE DEF data, instances
<1>a. PICK a : thr[t] = a
  OBVIOUS
<1>1. /\ a \in ThreadState /\ y \notin fresh /\ Good(y) /\ Tidy(y) /\ ThreadTypes /\ DataTypes
      /\ a.r = y /\ a.op = "reserve" /\ a.pc = "next" /\ q \in a.todo
  BY <1>a, ThreadData DEF TidyInv
<1>2. Becomes(t, "reserve", "look", y, a.todo \ {q}, q, a.s)
  BY <1>a, <1>1, GotoNextBecomes DEF ThreadTypes, Pcs
<1>w. ~thr[t].won /\ ~thr'[t].won
  BY <1>1, NotWon, WonNext DEF ThreadTypes
<1>3. \A x \in Reservations : assoc'[x] = IF x = y THEN assoc[x] \cup {q} ELSE assoc[x]
  BY <1>1 DEF Join, DataTypes
<1>4. \A s \in Schedulers, x \in Reservations :
        pqdata'[s][x] = IF s = q /\ x = y THEN "waiting" ELSE pqdata[s][x]
  BY <1>1 DEF Join, DataTypes
<1>5. \A s \in Schedulers, x \in Reservations : s # q \/ x # y => place'[s][x] = place[s][x]
  BY <1>1 DEF Join, DataTypes
<1>6. \A x \in Reservations \ {y} : Same(x)
  <2>1. \A x \in Reservations \ {y} : ThreadsSame(x)
    BY <1>1, <1>2, OthersThreads DEF AggregatorAssumption
  <2>2. ASSUME NEW x \in Reservations \ {y}
        PROVE  QueuesSame(x)
    <3>1. assoc'[x] = assoc[x]
      BY <1>3
    <3>2. \A s \in Schedulers : pqdata'[s][x] = pqdata[s][x]
      BY <1>4
    <3>3. \A s \in Schedulers : place'[s][x] = place[s][x]
      BY <1>5
    <3>4. QED
      BY <3>1, <3>2, <3>3 DEF QueuesSame
  <2>3. \A x \in Reservations \ {y} : UpdatersSame(x) /\ SetsSame(x)
    BY DEF UpdatersSame, SetsSame
  <2>4. QED
    BY <2>1, <2>2, <2>3 DEF Same
<1>7. Alive(y) /\ Alone(t, y) /\ q \notin assoc[y] /\ Consistent(y)
  <2>1. Alive(y) /\ Alone(t, y)
    BY ReservedLater DEF Reserving
  <2>2. QED
    BY <1>1, <1>a, <2>1 DEF Alone, Good
<1>8. ~Active(pqdata[q][y])
  BY <1>7 DEF Consistent, PromotedIsCurrent
<1>9. QueuedHasData(y)'
  BY <1>1, <1>4, <1>5 DEF Tidy, QueuedHasData
<1>10. LockedOnce(y)'
  BY <1>a, <1>1, <1>2, LockedNext DEF UnderLock, Becomes
<1>11. LeftOnce(y)'
  <2> SUFFICES ASSUME NEW u \in Updaters, Active(pqdata'[Queue(u)][y])
               PROVE  /\ Works(u, y) => up[u].pc = "dequeue"
                      /\ place'[Queue(u)][y] # 0 => Works(u, y)
    BY DEF LeftOnce, Queue, Works
  <2>1. Queue(u) \in Schedulers /\ Queue(u) # q
    BY <1>4 DEF Queue, Updaters, Active
  <2>2. QED
    BY <1>1, <1>4, <1>5, <2>1 DEF Tidy, LeftOnce
<1>12. Alive(y)'
  BY <1>a, <1>1, <1>2, <1>7 DEF Alive, Removing, Becomes
<1>13. Covered(y)'
  <2>1. \A z \in Threads : Cleans(z, y) => Cleans(z, y)' /\ thr'[z].q = thr[z].q
    BY <1>a, <1>1, <1>2 DEF Cleans, Becomes
  <2>2. Covered(y)
    BY <1>1, <1>7 DEF Tidy
  <2> SUFFICES ASSUME NEW s \in Schedulers, pqdata'[s][y] # "absent", s # q
               PROVE  s \in assoc[y] \/ \E z \in Threads : Cleans(z, y)' /\ thr'[z].q = s
    BY <1>3 DEF Covered
  <2>3. QED
    BY <1>4, <2>1, <2>2 DEF Covered
<1>14. OthersLeft(y)'
  <2>1. \A s \in Schedulers : pqdata'[s][y] # "reserved"
    BY <1>4, <1>7 DEF Alone
  <2>2. \A z \in Threads : (thr[z].r = y /\ thr[z].op = "confirm")' => thr'[z].pc \in {"lab", "lock"}
    BY <1>2, <1>7 DEF Alone, Becomes
  <2>3. QED
    BY <2>1, <2>2 DEF OthersLeft, Confirmed
<1>15. Tidy(y)'
  BY <1>9, <1>10, <1>11, <1>12, <1>13, <1>14 DEF Tidy, Ended
<1>16. \A x \in Schedulers : Holds(x, y) => Active(pqdata'[x][y])
  BY <1>4, <1>8 DEF Holds
<1>17. UNCHANGED <<slots, frees, up>> /\ (y \in current <=> y \in current')
  OBVIOUS
<1>18. QED
  BY <1>2, <1>w, <1>6, <1>15, <1>16, <1>17, ThreadTidyInv

LEMMA NextSchedulerTidy ==
  ASSUME AggregatorAssumption, IInv, TidyInv, NEW t \in Threads, NextScheduler(t)
  PROVE  TidyInv'
<1> USE DEF data
<1>a. PICK a : thr[t] = a
  OBVIOUS
<1>1. a.pc = "next" /\ UNCHANGED <<data, current, locked, finishing, instances, up>>
  BY <1>a DEF NextScheduler
<1>2. /\ a \in ThreadState /\ a.r \in Reservations
      /\ a.op \in {"reserve", "status"} /\ a.todo \in SUBSET Schedulers /\ ThreadTypes
  BY <1>a, <1>1, ThreadData DEF WellFormed, ThreadState
<1>y. PICK y \in Reservations : y = a.r
  BY <1>2
<1>w. ~thr[t].won
  BY <1>a, <1>1, NotWon
<1>3. CASE \E q \in a.todo : GotoNext(t, "look", q) /\ a.op = "reserve" /\ Join(q, y)
  BY <1>a, <1>y, <1>1, <1>2, <1>3, JoinTidy
<1>4. ASSUME UNCHANGED <<assoc, queues>>, NEW pc \in {"unlock", "look"}, NEW todo, NEW q,
             Becomes(t, a.op, pc, y, todo, q, a.s), ~thr'[t].won
      PROVE  TidyInv'
  <2>1. LockedOnce(y)'
    BY <1>a, <1>y, <1>1, <1>2, <1>4, LockedNext DEF TidyInv, Becomes, UnderLock
  <2>2. \A x \in Reservations \ {y} : SetsSame(x) /\ QueuesSame(x)
    BY <1>1, <1>4 DEF SetsSame, QueuesSame, queues
  <2>3. QED
    BY <1>a, <1>y, <1>1, <1>2, <1>4, <2>1, <2>2, QuietStepTidy DEF queues
<1>5. CASE a.todo = {} /\ Goto(t, "unlock") /\ UNCHANGED <<assoc, queues>>
  <2>1. Becomes(t, a.op, "unlock", y, a.todo, a.q, a.s) /\ ~thr'[t].won
    BY <1>a, <1>y, <1>w, <1>2, <1>5, GotoBecomes, WonNext DEF ThreadTypes, Pcs
  <2>2. QED
    BY <1>4, <1>5, <2>1
<1>6. CASE \E q \in a.todo : GotoNext(t, "look", q) /\ a.op = "status" /\ UNCHANGED <<assoc, queues>>
  <2>1. PICK q \in a.todo : GotoNext(t, "look", q) /\ UNCHANGED <<assoc, queues>>
    BY <1>6
  <2>2. Becomes(t, a.op, "look", y, a.todo \ {q}, q, a.s) /\ ~thr'[t].won
    BY <1>a, <1>y, <1>w, <1>2, <2>1, GotoNextBecomes, WonNext DEF ThreadTypes, Pcs
  <2>3. QED
    BY <1>4, <2>1, <2>2
<1>7. QED
  BY <1>a, <1>y, <1>3, <1>5, <1>6 DEF NextScheduler, Visit

(* Of a reservation whose status disappeared nothing is left there.        *)
LEMMA LookTidy ==
  ASSUME AggregatorAssumption, IInv, TidyInv, NEW t \in Threads, Look(t)
  PROVE  TidyInv'
<1> USE DEF data, shared, queues
<1>a. PICK a : thr[t] = a
  OBVIOUS
<1>1. /\ a.pc = "look" /\ accessed' = accessed \cup {a.r}
      /\ UNCHANGED <<fresh, stored, shared, drawn, instances, up>>
  BY <1>a DEF Look
<1>2. /\ a \in ThreadState /\ a.r \in Reservations /\ a.r \notin fresh /\ Good(a.r)
      /\ a.op \in {"reserve", "status"} /\ a.q \in Schedulers /\ ThreadTypes /\ DataTypes
  BY <1>a, <1>1, ThreadData DEF WellFormed
<1>y. PICK y \in Reservations : y = a.r
  BY <1>2
<1>w. ~thr[t].won
  BY <1>a, <1>1, NotWon
<1>3. PICK pc \in {"next", "assign"}, s \in Schedulers \cup {NoScheduler} :
        Becomes(t, a.op, pc, y, a.todo, a.q, s) /\ ~thr'[t].won
  <2>1. CASE y \in accessed /\ Active(pqdata[a.q][y])
    <3>1. thr' = [thr EXCEPT ![t].pc = "assign", ![t].s = thr[t].q]
      BY <1>a, <1>y, <2>1 DEF Look
    <3>2. Becomes(t, a.op, "assign", y, a.todo, a.q, a.q)
      BY <1>a, <1>y, <1>2, <3>1, FoundBecomes DEF ThreadTypes
    <3>3. thr'[t].won = thr[t].won
      BY <1>2, <3>1 DEF ThreadTypes, ThreadState
    <3>4. QED
      BY <1>w, <1>2, <3>2, <3>3
  <2>2. CASE ~(y \in accessed /\ Active(pqdata[a.q][y]))
    <3>1. Goto(t, "next") /\ a.s \in Schedulers \cup {NoScheduler}
      BY <1>a, <1>y, <1>2, <2>2 DEF Look, ThreadState
    <3>2. Becomes(t, a.op, "next", y, a.todo, a.q, a.s) /\ ~thr'[t].won
      BY <1>a, <1>y, <1>w, <1>2, <3>1, GotoBecomes, WonNext DEF ThreadTypes, Pcs
    <3>3. QED
      BY <3>1, <3>2
  <2>3. QED
    BY <2>1, <2>2
<1>4. \A x \in Schedulers, z \in Reservations :
        pqdata'[x][z] = pqdata[x][z] /\ place'[x][z] = place[x][z]
  <2>1. CASE y \in accessed
    BY <1>a, <1>y, <2>1 DEF Look
  <2>2. CASE y \notin accessed
    <3>1. Ended(y) /\ y \notin stored
      BY <1>y, <1>2, <2>2 DEF Good, StoredIsAccessed, Ended, Alive
    <3>2. pqdata[a.q][y] = "absent" /\ place[a.q][y] = 0
      BY <1>2, <3>1 DEF TidyInv, Tidy, Settled, StillActive, QueuedHasData
    <3>3. /\ pqdata' = [pqdata EXCEPT ![a.q][y] = "absent"]
          /\ place' = [place EXCEPT ![a.q][y] = 0]
      BY <1>a, <1>y, <2>2 DEF Look
    <3>4. QED
      BY <1>2, <3>2, <3>3 DEF DataTypes
  <2>3. QED
    BY <2>1, <2>2
<1>5. LockedOnce(y)'
  BY <1>a, <1>y, <1>1, <1>2, <1>3, LockedNext DEF TidyInv, Becomes, UnderLock
<1>6. \A x \in Reservations \ {y} : SetsSame(x) /\ QueuesSame(x)
  BY <1>y, <1>1, <1>4 DEF SetsSame, QueuesSame
<1>7. QED
  BY <1>a, <1>y, <1>1, <1>2, <1>3, <1>4, <1>5, <1>6, QuietStepTidy

(* Of a reservation that has ended no other scheduler is left to leave.    *)
LEMMA AssignTidy ==
  ASSUME AggregatorAssumption, IInv, TidyInv, NEW t \in Threads, Assign(t)
  PROVE  TidyInv'
<1> USE DEF data, shared, queues
<1>a. PICK a : thr[t] = a
  OBVIOUS
<1>1. a.pc = "assign" /\ UNCHANGED <<data, shared, queues, instances, up>>
  BY <1>a DEF Assign
<1>2. /\ a \in ThreadState /\ a.r \in Reservations /\ a.op \in {"reserve", "status", "confirm"}
      /\ ThreadTypes /\ DataTypes
  BY <1>a, <1>1, ThreadData DEF WellFormed
<1>y. PICK y \in Reservations : y = a.r
  BY <1>2
<1>w. ~thr[t].won
  BY <1>a, <1>1, NotWon
<1>3. PICK pc \in {"each", "abandon"}, todo \in SUBSET Schedulers :
        /\ Becomes(t, a.op, pc, y, todo, a.q, a.s) /\ ~thr'[t].won
        /\ pc = "each" => a.s \in assoc[y] /\ todo = assoc[y] \ {a.s}
  <2>1. CASE a.s \in assoc[y]
    <3>1. GotoWith(t, "each", assoc[y] \ {a.s}) /\ assoc[y] \ {a.s} \in SUBSET Schedulers
      BY <1>a, <1>y, <1>2, <2>1 DEF Assign, DataTypes
    <3>2. Becomes(t, a.op, "each", y, assoc[y] \ {a.s}, a.q, a.s) /\ ~thr'[t].won
      BY <1>a, <1>y, <1>w, <1>2, <3>1, GotoWithBecomes, WonNext DEF ThreadTypes, Pcs
    <3>3. QED
      BY <2>1, <3>1, <3>2
  <2>2. CASE a.s \notin assoc[y]
    <3>1. Goto(t, "abandon") /\ a.todo \in SUBSET Schedulers
      BY <1>a, <1>y, <1>2, <2>2 DEF Assign, ThreadState
    <3>2. Becomes(t, a.op, "abandon", y, a.todo, a.q, a.s) /\ ~thr'[t].won
      BY <1>a, <1>y, <1>w, <1>2, <3>1, GotoBecomes, WonNext DEF ThreadTypes, Pcs
    <3>3. QED
      BY <3>1, <3>2
  <2>3. QED
    BY <2>1, <2>2
<1>4. LockedOnce(y)'
  BY <1>a, <1>y, <1>1, <1>2, <1>3, LockedNext DEF TidyInv, Becomes, UnderLock
<1>5. \A x \in Reservations \ {y} : SetsSame(x) /\ QueuesSame(x)
  BY <1>1 DEF SetsSame, QueuesSame
<1>6. Ended(y) /\ pc = "each" => todo \cap assoc[y] = {}
  BY <1>3 DEF TidyInv, Tidy, Settled
<1>7. QED
  BY <1>a, <1>y, <1>1, <1>2, <1>3, <1>4, <1>5, <1>6, QuietStepTidy

(* The others are left by who works under the lock, of a reservation that  *)
(* nobody has assigned for good yet.                                       *)
LEMMA DissociateTidy ==
  ASSUME AggregatorAssumption, IInv, TidyInv, NEW t \in Threads, NEW y \in Reservations,
         thr[t].r = y, thr[t].pc = "each", thr[t].op # "finish",
         NEW q \in Schedulers, q \in thr[t].todo, q \in assoc[y],
         GotoNext(t, "clean", q), assoc' = [assoc EXCEPT ![y] = @ \ {q}],
         UNCHANGED <<data, current, locked, finishing, queues, instances, up>>
  PROVE  TidyInv'
<1> USE DEF data, queues, instances
<1>a. PICK a : thr[t] = a
  OBVIOUS
<1>1. /\ a \in ThreadState /\ y \notin fresh /\ Good(y) /\ Tidy(y) /\ ThreadTypes /\ DataTypes
      /\ a.r = y /\ a.pc = "each" /\ q \in a.todo /\ a.op \notin {"none", "finish", "expire"}
  BY <1>a, ThreadData DEF TidyInv, WellFormed
<1>2. Becomes(t, a.op, "clean", y, a.todo \ {q}, q, a.s)
  BY <1>a, <1>1, GotoNextBecomes DEF ThreadTypes, Pcs
<1>w. ~thr[t].won /\ ~thr'[t].won
  BY <1>1, NotWon, WonNext DEF ThreadTypes
<1>3. \A x \in Reservations : assoc'[x] = IF x = y THEN assoc[x] \ {q} ELSE assoc[x]
  BY <1>1 DEF DataTypes
<1>4. \A x \in Reservations \ {y} : Same(x)
  <2>1. \A x \in Reservations \ {y} : ThreadsSame(x)
    BY <1>a, <1>1, <1>2, OthersThreads DEF AggregatorAssumption
  <2>2. QED
    BY <1>3, <2>1 DEF Same, UpdatersSame, SetsSame, QueuesSame
<1>5. Alive(y) /\ Consistent(y)
  <2>1. ~Removing(t, y)
    BY <1>a, <1>1 DEF Removing
  <2>2. ~Settled(y)
    BY <2>1 DEF Settled, NothingToLeave
  <2>3. QED
    BY <1>1, <2>2 DEF Tidy, Ended, Good
<1>6. /\ a.s \in Schedulers /\ Active(pqdata[a.s][y]) /\ a.s # q
      /\ \A s \in Schedulers : Active(pqdata[s][y]) => s = a.s
  BY <1>a, <1>1, <1>5 DEF Consistent, Assigned, Assigning, Once
<1>7. ~Confirmed(y)
  <2>1. \A s \in Schedulers : pqdata[s][y] # "reserved"
    BY <1>5, <1>6 DEF Consistent, OnlyScheduler, Active
  <2>2. ASSUME NEW z \in Threads, thr[z].r = y, thr[z].op = "confirm",
               thr[z].pc \in {"unlock", "list", "write"}
        PROVE  FALSE
    <3>1. Assigning(z, y) /\ Confirming(z, y)
      BY <1>5, <2>2 DEF Consistent, Assigned
    <3>2. thr[z].s = a.s /\ assoc[y] = {thr[z].s}
      BY <1>6, <2>2, <3>1 DEF Assigning, Confirming
    <3>3. QED
      BY <1>6, <3>2
  <2>3. QED
    BY <2>1, <2>2 DEF Confirmed
<1>8. QueuedHasData(y)' /\ LeftOnce(y)'
  BY <1>1 DEF Tidy, QueuedHasData, LeftOnce, Works, Queue
<1>9. LockedOnce(y)'
  BY <1>a, <1>1, <1>2, LockedNext DEF UnderLock, Becomes
<1>10. Alive(y)'
  BY <1>a, <1>1, <1>2, <1>5 DEF Alive, Removing, Becomes
<1>11. Covered(y)'
  <2>1. \A z \in Threads : Cleans(z, y) => Cleans(z, y)' /\ thr'[z].q = thr[z].q
    BY <1>a, <1>1, <1>2 DEF Cleans, Becomes
  <2>2. Cleans(t, y)' /\ thr'[t].q = q
    BY <1>2 DEF Cleans, Becomes
  <2>3. Covered(y)
    BY <1>1, <1>5 DEF Tidy
  <2>4. QED
    BY <1>3, <2>1, <2>2, <2>3 DEF Covered
<1>12. OthersLeft(y)'
  <2>1. ~Confirmed(y)'
    BY <1>2, <1>7 DEF Confirmed, Becomes
  <2>2. QED
    BY <2>1 DEF OthersLeft
<1>13. Tidy(y)'
  BY <1>8, <1>9, <1>10, <1>11, <1>12 DEF Tidy, Ended
<1>14. \A x \in Schedulers : Holds(x, y) => Active(pqdata'[x][y])
  BY DEF Holds
<1>15. UNCHANGED <<slots, frees, up>> /\ (y \in current <=> y \in current')
  OBVIOUS
<1>16. QED
  BY <1>2, <1>w, <1>4, <1>13, <1>14, <1>15, ThreadTidyInv

LEMMA UnlockTidy ==
  ASSUME AggregatorAssumption, IInv, TidyInv, NEW t \in Threads, Unlock(t)
  PROVE  TidyInv'
<1> USE DEF data, queues
<1>a. PICK a : thr[t] = a
  OBVIOUS
<1>1. /\ a.pc \in {"unlock", "abandon"} /\ locked' = locked \ {a.r}
      /\ UNCHANGED <<data, current, assoc, finishing, queues, instances, up>>
  BY <1>a DEF Unlock
<1>2. /\ a \in ThreadState /\ a.r \in Reservations /\ a.op \in {"reserve", "status", "confirm"}
      /\ ThreadTypes
  BY <1>a, <1>1, ThreadData DEF WellFormed
<1>y. PICK y \in Reservations : y = a.r
  BY <1>2
<1>w. ~thr[t].won
  BY <1>a, <1>1, NotWon
<1>3. PICK op, pc, r, todo, q, s :
        /\ Becomes(t, op, pc, r, todo, q, s) /\ ~thr'[t].won
        /\ \/ op = "confirm" /\ a.op = "confirm" /\ a.pc = "unlock" /\ pc = "list" /\ r = y
           \/ op = "none" /\ pc = "idle" /\ r = NoReservation
  <2>1. CASE a.op = "confirm" /\ a.pc = "unlock"
    <3>1. Goto(t, "list") /\ "list" \in Pcs
      BY <1>a, <2>1 DEF Unlock, Pcs
    <3>2. Becomes(t, "confirm", "list", y, a.todo, a.q, a.s)
      BY <1>a, <1>y, <1>2, <2>1, <3>1, GotoBecomes DEF ThreadTypes
    <3>3. ~thr'[t].won
      BY <1>2, <1>w, <3>1, WonNext DEF ThreadTypes
    <3>4. QED
      BY <2>1, <3>2, <3>3
  <2>2. CASE ~(a.op = "confirm" /\ a.pc = "unlock")
    <3>1. End(t)
      BY <1>a, <2>2 DEF Unlock
    <3>2. QED
      BY <1>2, <3>1, EndBecomes, WonNext DEF ThreadTypes
  <2>3. QED
    BY <2>1, <2>2
<1>4. LockedOnce(y)'
  <2>1. UnderLock(t, y)
    BY <1>a, <1>y, <1>1, <1>2 DEF UnderLock
  <2>2. \A z \in Threads : UnderLock(z, y) => z = t
    BY <2>1 DEF TidyInv, Tidy, LockedOnce
  <2>3. \A z \in Threads : ~UnderLock(z, y)'
    BY <1>3, <2>2 DEF Becomes, UnderLock
  <2>4. QED
    BY <2>3 DEF LockedOnce
<1>5. \A x \in Reservations \ {y} : SetsSame(x) /\ QueuesSame(x)
  BY <1>y, <1>1 DEF SetsSame, QueuesSame
<1>6. op = "confirm" => Confirmed(y)
  BY <1>a, <1>y, <1>3 DEF Confirmed
<1>7. QED
  BY <1>a, <1>y, <1>1, <1>2, <1>3, <1>4, <1>5, <1>6, QuietStepTidy

LEMMA ListToConfirmTidy ==
  ASSUME AggregatorAssumption, IInv, TidyInv, NEW t \in Threads, ListToConfirm(t)
  PROVE  TidyInv'
<1> USE DEF data, shared, queues
<1>a. PICK a : thr[t] = a
  OBVIOUS
<1>1. a.pc = "list" /\ UNCHANGED <<data, shared, queues, instances, up>>
  BY <1>a DEF ListToConfirm
<1>2. /\ a \in ThreadState /\ a.r \in Reservations /\ a.op = "confirm" /\ ThreadTypes /\ DataTypes
  BY <1>a, <1>1, ThreadData DEF WellFormed
<1>y. PICK y \in Reservations : y = a.r
  BY <1>2
<1>w. ~thr[t].won
  BY <1>a, <1>1, NotWon
<1>3. Becomes(t, "confirm", "write", y, assoc[y], a.q, a.s) /\ ~thr'[t].won
  <2>1. GotoWith(t, "write", assoc[y]) /\ assoc[y] \in SUBSET Schedulers
    BY <1>a, <1>y, <1>2 DEF ListToConfirm, DataTypes
  <2>2. thr \in [Threads -> ThreadState] /\ "write" \in Pcs
    BY <1>2 DEF ThreadTypes, Pcs
  <2>3. Becomes(t, "confirm", "write", y, assoc[y], a.q, a.s)
    BY <1>a, <1>y, <1>2, <2>1, <2>2, GotoWithBecomes
  <2>4. ~thr'[t].won
    BY <1>w, <2>1, <2>2, WonNext
  <2>5. QED
    BY <2>3, <2>4
<1>4. LockedOnce(y)'
  BY <1>1, <1>3, LockedNext DEF TidyInv, Becomes, UnderLock
<1>5. \A x \in Reservations \ {y} : SetsSame(x) /\ QueuesSame(x)
  BY <1>1 DEF SetsSame, QueuesSame
<1>6. Confirmed(y)
  BY <1>a, <1>y, <1>1, <1>2 DEF Confirmed
<1>7. QED
  BY <1>a, <1>y, <1>1, <1>2, <1>3, <1>4, <1>5, <1>6, QuietStepTidy

(* It is confirmed where it is promoted, or not at all.                    *)
LEMMA WriteReservedTidy ==
  ASSUME AggregatorAssumption, IInv, TidyInv, NEW t \in Threads, WriteReserved(t)
  PROVE  TidyInv'
<1> USE DEF data, shared
<1>a. PICK a : thr[t] = a
  OBVIOUS
<1>1. a.pc = "write" /\ UNCHANGED <<data, shared, place, drawn, instances, up>>
  BY <1>a DEF WriteReserved
<1>2. /\ a \in ThreadState /\ a.r \in Reservations /\ a.r \notin fresh /\ Good(a.r)
      /\ a.op = "confirm" /\ a.s \in Schedulers /\ a.todo \in SUBSET Schedulers
      /\ ThreadTypes /\ DataTypes
  BY <1>a, <1>1, ThreadData DEF WellFormed, ThreadState
<1>y. PICK y \in Reservations : y = a.r
  BY <1>2
<1>w. ~thr[t].won
  BY <1>a, <1>1, NotWon
<1>6. Confirmed(y)
  BY <1>a, <1>y, <1>1, <1>2 DEF Confirmed
<1>3. CASE End(t) /\ UNCHANGED pqdata
  <2>1. /\ Becomes(t, "none", "idle", NoReservation, {}, NoScheduler, NoScheduler)
        /\ ~thr'[t].won
    BY <1>2, <1>3, EndBecomes, WonNext DEF ThreadTypes
  <2>2. LockedOnce(y)'
    BY <1>1, <2>1, LockedNext DEF TidyInv, Becomes, UnderLock
  <2>3. \A x \in Reservations \ {y} : SetsSame(x) /\ QueuesSame(x)
    BY <1>1, <1>3 DEF SetsSame, QueuesSame
  <2>4. QED
    BY <1>a, <1>y, <1>1, <1>2, <1>3, <2>1, <2>2, <2>3, QuietStepTidy
<1>4. ASSUME NEW q \in a.todo, GotoWith(t, "write", a.todo \ {q}),
             pqdata' = [pqdata EXCEPT ![q][y] = IF @ = "absent" THEN @ ELSE "reserved"]
      PROVE  TidyInv'
  <2>1. Becomes(t, "confirm", "write", y, a.todo \ {q}, a.q, a.s) /\ ~thr'[t].won
    <3>1. a.todo \ {q} \in SUBSET Schedulers
      BY <1>2
    <3>2. thr \in [Threads -> ThreadState] /\ "write" \in Pcs
      BY <1>2 DEF ThreadTypes, Pcs
    <3>3. Becomes(t, "confirm", "write", y, a.todo \ {q}, a.q, a.s)
      BY <1>a, <1>y, <1>2, <1>4, <3>1, <3>2, GotoWithBecomes
    <3>4. ~thr'[t].won
      BY <1>w, <1>4, <3>2, WonNext
    <3>5. QED
      BY <3>3, <3>4
  <2>2. \A x \in Schedulers, z \in Reservations :
          pqdata'[x][z] = IF x = q /\ z = y
                          THEN IF pqdata[q][y] = "absent" THEN "absent" ELSE "reserved"
                          ELSE pqdata[x][z]
    <3>1. PICK v : /\ v = IF pqdata[q][y] = "absent" THEN "absent" ELSE "reserved"
                   /\ pqdata' = [pqdata EXCEPT ![q][y] = v]
      BY <1>2, <1>4 DEF DataTypes
    <3>2. QED
      BY <1>2, <3>1 DEF DataTypes
  <2>3. pqdata[q][y] # "absent" => Active(pqdata[q][y])
    <3>1. CASE Alive(y)
      <4>1. Assigning(t, y) /\ Confirming(t, y)
        BY <1>a, <1>y, <1>2, <3>1 DEF Good, Consistent, Assigned
      <4>2. QED
        BY <1>a, <1>1, <1>2, <1>4, <4>1 DEF Assigning, Confirming
    <3>2. CASE ~Alive(y)
      BY <1>y, <1>2, <1>4, <3>2 DEF TidyInv, Tidy, Ended, Settled, StillActive
    <3>3. QED
      BY <3>1, <3>2
  <2>4. LockedOnce(y)'
    BY <1>1, <2>1, LockedNext DEF TidyInv, Becomes, UnderLock
  <2>5. \A x \in Reservations \ {y} : SetsSame(x) /\ QueuesSame(x)
    BY <1>1, <2>2 DEF SetsSame, QueuesSame
  <2>6. \A x \in Schedulers :
          /\ place'[x][y] = place[x][y]
          /\ pqdata'[x][y] = "absent" <=> pqdata[x][y] = "absent"
          /\ Active(pqdata'[x][y]) <=> Active(pqdata[x][y])
    BY <1>1, <2>2, <2>3 DEF Active
  <2>7. QED
    BY <1>a, <1>y, <1>1, <1>2, <1>6, <2>1, <2>4, <2>5, <2>6, QuietStepTidy
<1>5. QED
  BY <1>a, <1>y, <1>3, <1>4 DEF WriteReserved

-----------------------------------------------------------------------------
(* Threads that remove a reservation.                                      *)

(* What is left of it was promoted, and is where the remover still is.     *)
LEMMA RemoverTidy ==
  ASSUME AggregatorAssumption, NEW y \in Reservations, Tidy(y), NEW t \in Threads,
         Removing(t, y), y \notin fresh, fresh' = fresh, up' = up, ~Alive(y)',
         NEW op, NEW pc, NEW r, NEW todo, NEW q, NEW s, Becomes(t, op, pc, r, todo, q, s),
         (op = thr[t].op /\ r = y) \/ (op = "none" /\ r = NoReservation),
         y \in locked <=> y \in locked', assoc'[y] \subseteq assoc[y],
         \A x \in Schedulers :
           /\ pqdata'[x][y] \in {pqdata[x][y], "absent"} /\ place'[x][y] \in {place[x][y], 0}
           /\ pqdata'[x][y] = "absent" => place'[x][y] = 0 \/ pqdata[x][y] = "absent",
         \A x \in Schedulers : pqdata'[x][y] # "absent" /\ StillIn(t, x) =>
           /\ r = y /\ StillIn(t, x)' /\ assoc'[y] = assoc[y]
           /\ y \in stored => y \in stored'
           /\ y \in accessed => y \in accessed'
  PROVE  Tidy(y)'
<1>1. \A z \in Threads \ {t} : thr'[z] = thr[z]
  BY DEF Becomes
<1>2. Settled(y)
  BY DEF Tidy, Ended, Alive
<1>3. /\ thr[t].op \in {"finish", "expire"} /\ thr[t].r = y /\ y # NoReservation
      /\ thr'[t].op = op /\ thr'[t].r = r /\ ~UnderLock(t, y)'
  BY DEF Removing, AggregatorAssumption, Becomes, UnderLock
<1>4. QueuedHasData(y)'
  BY DEF Tidy, QueuedHasData
<1>5. LockedOnce(y)'
  BY <1>1, <1>3, LockedNext
<1>6. LeftOnce(y)'
  BY DEF Tidy, LeftOnce, Works, Queue, Updaters, Active
<1>7. \A z \in Threads : Removing(z, y)' => Removing(z, y)
  BY <1>1, <1>3 DEF Removing
<1>8. NobodyCleans(y)'
  BY <1>1, <1>2, <1>3 DEF Settled, NobodyCleans, Cleans, Removing
<1>9. NothingToLeave(y)'
  <2> SUFFICES ASSUME NEW z \in Threads, thr'[z].r = y, thr'[z].pc = "each", ~Removing(z, y)'
               PROVE  thr'[z].todo \cap assoc'[y] = {}
    BY DEF NothingToLeave
  <2>1. z # t
    BY <1>3 DEF Removing
  <2>2. QED
    BY <1>1, <1>2, <2>1 DEF Settled, NothingToLeave, Removing
<1>10. \A z \in Threads : ~Reserving(z, y)'
  BY <1>1, <1>2, <1>3 DEF Settled, Reserving
<1>11. ASSUME NEW x \in Schedulers, pqdata'[x][y] # "absent"
       PROVE  StillActive(x, y)'
  <2>1. StillActive(x, y) /\ pqdata'[x][y] = pqdata[x][y]
    BY <1>2, <1>11 DEF Settled
  <2>2. StillIn(t, x)
    BY <2>1 DEF StillActive
  <2>3. \A z \in Threads : Removing(z, y)' => StillIn(z, x)'
    BY <1>1, <1>7, <1>11, <2>1, <2>2 DEF StillActive, StillIn
  <2>4. QED
    BY <1>11, <2>1, <2>2, <2>3 DEF StillActive
<1>12. Settled(y)'
  BY <1>2, <1>8, <1>9, <1>10, <1>11 DEF Settled
<1>13. QED
  BY <1>4, <1>5, <1>6, <1>12 DEF Tidy

(* Who takes a reservation that is not over out of a scheduler that has    *)
(* not promoted it.                                                        *)
LEMMA CleanerTidy ==
  ASSUME AggregatorAssumption, IInv, TidyInv, NEW y \in Reservations, NEW t \in Threads,
         Cleans(t, y), ~Removing(t, y), NEW pc \in {"delete", "each"},
         Becomes(t, thr[t].op, pc, y, thr[t].todo, thr[t].q, thr[t].s),
         UNCHANGED <<data, assoc, locked, up>>,
         \A x \in Schedulers :
           /\ pqdata'[x][y] = IF x = thr[t].q /\ pc = "each" THEN "absent" ELSE pqdata[x][y]
           /\ place'[x][y] \in {place[x][y], 0}
           /\ pqdata'[x][y] = "absent" => place'[x][y] = 0 \/ pqdata[x][y] = "absent"
  PROVE  Tidy(y)' /\ ~Active(pqdata[thr[t].q][y])
<1> USE DEF data
<1>a. PICK a : thr[t] = a
  OBVIOUS
<1>1. /\ a \in ThreadState /\ y \notin fresh /\ Good(y) /\ Tidy(y) /\ ThreadTypes /\ DataTypes
      /\ a.r = y /\ a.pc \in {"clean", "delete"} /\ a.op \notin {"none", "finish", "expire"}
      /\ a.q \in Schedulers
  BY <1>a, ThreadData DEF TidyInv, WellFormed, Cleans, Removing
<1>2. \A z \in Threads \ {t} : thr'[z] = thr[z]
  BY DEF Becomes
<1>3. Alive(y) /\ Consistent(y)
  <2>1. ~Settled(y)
    BY DEF Settled, NobodyCleans
  <2>2. QED
    BY <1>1, <2>1 DEF Tidy, Ended, Good
<1>4. ~Active(pqdata[a.q][y])
  <2>1. a.q \notin assoc[y]
    BY <1>a, <1>1, <1>3 DEF Consistent, Assigned, Assigning
  <2>2. QED
    BY <1>1, <1>3, <2>1 DEF Consistent, PromotedIsCurrent
<1>5. QueuedHasData(y)'
  BY <1>1 DEF Tidy, QueuedHasData
<1>6. LeftOnce(y)'
  BY <1>a, <1>1, <1>4 DEF Tidy, LeftOnce, Works, Queue, Updaters, Active
<1>7. LockedOnce(y)'
  BY <1>a, <1>1, <1>2, LockedNext DEF UnderLock, Becomes
<1>8. Alive(y)'
  BY <1>a, <1>1, <1>2, <1>3 DEF Alive, Removing, Becomes
<1>9. Covered(y)'
  <2> SUFFICES ASSUME NEW x \in Schedulers, pqdata'[x][y] # "absent"
               PROVE  x \in assoc[y] \/ \E z \in Threads : Cleans(z, y)' /\ thr'[z].q = x
    BY DEF Covered
  <2>1. pqdata[x][y] # "absent" /\ (x = thr[t].q => pc = "delete")
    OBVIOUS
  <2>2. x \in assoc[y] \/ \E z \in Threads : Cleans(z, y) /\ thr[z].q = x
    BY <1>1, <1>3, <2>1 DEF Tidy, Covered
  <2>3. ASSUME NEW z \in Threads, Cleans(z, y), thr[z].q = x
        PROVE  Cleans(z, y)' /\ thr'[z].q = x
    BY <1>2, <2>1, <2>3 DEF Cleans, Becomes
  <2>4. QED
    BY <2>2, <2>3
<1>10. OthersLeft(y)'
  <2>1. ~Confirmed(y)
    BY <1>1, <1>3 DEF Tidy, OthersLeft, NobodyCleans
  <2>2. \A x \in Schedulers : pqdata'[x][y] # "reserved"
    BY <2>1 DEF Confirmed
  <2>3. ~Confirmed(y)'
    BY <1>2, <2>1, <2>2 DEF Confirmed, Becomes
  <2>4. QED
    BY <2>3 DEF OthersLeft
<1>11. QED
  BY <1>a, <1>4, <1>5, <1>6, <1>7, <1>8, <1>9, <1>10 DEF Tidy, Ended

(* The next scheduler to leave, or none.                                   *)
LEMMA EachTidy ==
  ASSUME AggregatorAssumption, IInv, TidyInv, NEW t \in Threads, Each(t)
  PROVE  TidyInv'
<1> USE DEF data, queues
<1>a. PICK a : thr[t] = a
  OBVIOUS
<1>1. a.pc = "each" /\ UNCHANGED <<data, current, locked, finishing, queues, instances, up>>
  BY <1>a DEF Each
<1>2. /\ a \in ThreadState /\ a.r \in Reservations /\ a.r \notin fresh
      /\ a.op \in {"reserve", "status", "confirm", "finish"} /\ a.todo \in SUBSET Schedulers
      /\ ThreadTypes /\ DataTypes
  BY <1>a, <1>1, ThreadData DEF WellFormed, ThreadState
<1>y. PICK y \in Reservations : y = a.r
  BY <1>2
<1>w. ~thr[t].won
  BY <1>a, <1>1, NotWon
<1>s. Tidy(y) /\ \A x \in Reservations \ {y} : SetsSame(x)
  BY <1>1 DEF TidyInv, SetsSame
<1>3. ASSUME UNCHANGED assoc, a.op = "finish", NEW pc \in {"purge", "clean"}, NEW todo, NEW q,
             Becomes(t, "finish", pc, y, todo, q, a.s), ~thr'[t].won,
             \/ pc = "purge" /\ a.todo = {}
             \/ pc = "clean" /\ todo = a.todo \ {q}
      PROVE  TidyInv'
  <2>1. Removing(t, y) /\ Removing(t, y)' /\ ~Alive(y)'
    BY <1>a, <1>y, <1>3 DEF Removing, Becomes, Alive
  <2>2. \A x \in Schedulers : StillIn(t, x) => StillIn(t, x)'
    BY <1>a, <1>1, <1>3 DEF StillIn, Becomes
  <2>3. Tidy(y)'
    BY <1>a, <1>y, <1>s, <1>1, <1>2, <1>3, <2>1, <2>2, RemoverTidy
  <2>4. \A x \in Reservations \ {y} : Same(x)
    <3>1. \A x \in Reservations \ {y} : ThreadsSame(x)
      BY <1>a, <1>y, <1>3, OthersThreads DEF AggregatorAssumption
    <3>2. QED
      BY <1>1, <1>3, <1>s, <3>1 DEF Same, UpdatersSame, QueuesSame
  <2>5. \A x \in Schedulers : Holds(x, y) => Active(pqdata'[x][y])
    BY <1>1 DEF Holds
  <2>6. UNCHANGED <<slots, frees, up>> /\ (y \in current <=> y \in current')
    BY <1>1 DEF instances
  <2>7. QED
    BY <1>w, <1>3, <2>3, <2>4, <2>5, <2>6, ThreadTidyInv
<1>4. ASSUME a.op # "finish", NEW pc \in {"unlock", "each"}, NEW todo,
             Becomes(t, a.op, pc, y, todo, a.q, a.s), ~thr'[t].won,
             \A x \in Reservations : assoc'[x] = assoc[x],
             pc = "each" => todo \subseteq a.todo
      PROVE  TidyInv'
  <2>1. LockedOnce(y)'
    BY <1>a, <1>y, <1>1, <1>2, <1>4, LockedNext DEF TidyInv, Becomes, UnderLock
  <2>2. \A x \in Reservations \ {y} : SetsSame(x) /\ QueuesSame(x)
    BY <1>1, <1>4, <1>s DEF QueuesSame
  <2>3. pc = "unlock" => NobodyCleans(y)
    <3>1. UnderLock(t, y) /\ ~Cleans(t, y)
      BY <1>a, <1>y, <1>1, <1>2, <1>4 DEF UnderLock, Cleans
    <3>2. QED
      BY <1>2, <1>s, <3>1, AloneUnderLock
  <2>4. Ended(y) /\ pc = "each" => todo \cap assoc[y] = {}
    <3>1. Ended(y) => a.todo \cap assoc[y] = {}
      BY <1>a, <1>y, <1>s, <1>1, <1>2, <1>4 DEF Tidy, Settled, NothingToLeave, Removing
    <3>2. QED
      BY <1>4, <3>1
  <2>5. UNCHANGED <<fresh, stored, current, instances, up>>
    BY <1>1
  <2>6. QED
    BY <1>a, <1>y, <1>1, <1>2, <1>4, <2>1, <2>2, <2>3, <2>4, <2>5, QuietStepTidy
<1>5. CASE EachDone(t) /\ UNCHANGED assoc
  <2>1. PICK pc \in {"purge", "unlock"} :
          Goto(t, pc) /\ (pc = "purge" <=> a.op = "finish") /\ a.todo = {}
    BY <1>a, <1>5 DEF EachDone
  <2>2. thr \in [Threads -> ThreadState] /\ pc \in Pcs
    BY <1>2 DEF ThreadTypes, Pcs
  <2>3. Becomes(t, a.op, pc, y, a.todo, a.q, a.s)
    BY <1>a, <1>y, <2>1, <2>2, GotoBecomes
  <2>4. ~thr'[t].won
    BY <1>w, <2>1, <2>2, WonNext
  <2>5. QED
    BY <1>3, <1>4, <1>5, <2>1, <2>3, <2>4
<1>6. ASSUME NEW q \in a.todo, FinishIn(t, q), a.op = "finish", UNCHANGED assoc
      PROVE  TidyInv'
  <2>1. GotoNext(t, "clean", q) /\ q \in Schedulers
    BY <1>a, <1>2, <1>6 DEF FinishIn
  <2>2. thr \in [Threads -> ThreadState] /\ "clean" \in Pcs
    BY <1>2 DEF ThreadTypes, Pcs
  <2>3. Becomes(t, a.op, "clean", y, a.todo \ {q}, q, a.s)
    BY <1>a, <1>y, <2>1, <2>2, GotoNextBecomes
  <2>4. ~thr'[t].won
    BY <1>w, <2>1, <2>2, WonNext
  <2>5. QED
    BY <1>3, <1>6, <2>3, <2>4
<1>7. ASSUME NEW q \in a.todo, FinishIn(t, q), a.op # "finish",
             assoc' = [assoc EXCEPT ![y] = @ \ {q}]
      PROVE  TidyInv'
  <2>1. CASE q \in assoc[y]
    <3>1. GotoNext(t, "clean", q)
      BY <1>a, <1>y, <1>7, <2>1 DEF FinishIn
    <3>2. QED
      BY <1>a, <1>y, <1>1, <1>2, <1>7, <2>1, <3>1, DissociateTidy
  <2>2. CASE q \notin assoc[y]
    <3>1. GotoWith(t, "each", a.todo \ {q}) /\ a.todo \ {q} \in SUBSET Schedulers
      BY <1>a, <1>y, <1>2, <1>7, <2>2 DEF FinishIn
    <3>2. thr \in [Threads -> ThreadState] /\ "each" \in Pcs
      BY <1>2 DEF ThreadTypes, Pcs
    <3>3. Becomes(t, a.op, "each", y, a.todo \ {q}, a.q, a.s)
      BY <1>a, <1>y, <3>1, <3>2, GotoWithBecomes
    <3>4. ~thr'[t].won
      BY <1>w, <3>1, <3>2, WonNext
    <3>5. \A x \in Reservations : assoc'[x] = assoc[x]
      BY <1>2, <1>7, <2>2 DEF DataTypes
    <3>6. "each" \in {"unlock", "each"} /\ a.todo \ {q} \subseteq a.todo
      OBVIOUS
    <3>7. QED
      BY <1>4, <1>7, <3>3, <3>4, <3>5, <3>6
  <2>3. QED
    BY <2>1, <2>2
<1>8. QED
  BY <1>a, <1>y, <1>5, <1>6, <1>7 DEF Each

(* Whoever takes CURRENT away has won the instance it stood for.           *)
LEMMA CleanTidy ==
  ASSUME AggregatorAssumption, IInv, TidyInv, NEW t \in Threads, Clean(t)
  PROVE  TidyInv'
<1> USE DEF data, queues
<1>a. PICK a : thr[t] = a
  OBVIOUS
<1>1. a.pc = "clean" /\ UNCHANGED <<data, assoc, locked, finishing, queues, instances, up>>
  BY <1>a DEF Clean
<1>2. /\ a \in ThreadState /\ a.r \in Reservations /\ a.r \notin fresh /\ a.q \in Schedulers
      /\ ThreadTypes /\ DataTypes
  BY <1>a, <1>1, ThreadData DEF WellFormed
<1>y. PICK y \in Reservations : y = a.r
  BY <1>2
<1>3. PICK pc \in {"delete", "each"}, won \in BOOLEAN :
        /\ GotoWon(t, pc, won)
        /\ won <=> Active(pqdata[a.q][y]) /\ y \in current
        /\ pc = "each" => pqdata[a.q][y] = "absent" /\ a.op # "expire"
        /\ current' = IF Active(pqdata[a.q][y]) THEN current \ {y} ELSE current
  BY <1>a, <1>y DEF Clean, HasData
<1>4. Becomes(t, a.op, pc, y, a.todo, a.q, a.s) /\ (thr'[t].won <=> won)
  <2>1. thr \in [Threads -> ThreadState] /\ pc \in Pcs
    BY <1>2 DEF ThreadTypes, Pcs
  <2>2. Becomes(t, a.op, pc, y, a.todo, a.q, a.s)
    BY <1>a, <1>y, <1>2, <1>3, <2>1, GotoWonBecomes
  <2>3. thr'[t].won = won
    BY <1>3, <2>1, WonNext
  <2>4. QED
    BY <2>2, <2>3
<1>w. ~thr[t].won
  BY <1>a, <1>1, NotWon
<1>5. \A x \in Reservations \ {y} : Same(x)
  <2>1. \A x \in Reservations \ {y} : ThreadsSame(x)
    BY <1>a, <1>y, <1>4, OthersThreads DEF AggregatorAssumption
  <2>2. QED
    BY <1>1, <1>3, <2>1 DEF Same, UpdatersSame, SetsSame, QueuesSame
<1>6. Tidy(y) /\ Cleans(t, y)
  BY <1>a, <1>y, <1>1 DEF TidyInv, Cleans
<1>7. CASE ~Removing(t, y)
  <2>1. \A x \in Schedulers :
          /\ pqdata'[x][y] = IF x = thr[t].q /\ pc = "each" THEN "absent" ELSE pqdata[x][y]
          /\ pqdata'[x][y] = pqdata[x][y] /\ place'[x][y] = place[x][y]
    BY <1>a, <1>1, <1>3
  <2>b. Becomes(t, thr[t].op, pc, y, thr[t].todo, thr[t].q, thr[t].s)
    BY <1>a, <1>4
  <2>2. UNCHANGED <<data, assoc, locked, up>>
    BY <1>1
  <2>3. Tidy(y)' /\ ~Active(pqdata[a.q][y])
    BY <1>a, <1>6, <1>7, <2>1, <2>2, <2>b, CleanerTidy
  <2>4. current' = current /\ ~thr'[t].won
    BY <1>3, <1>4, <2>3
  <2>5. \A x \in Schedulers : Holds(x, y) => Active(pqdata'[x][y]) /\ ~(pc = "delete" /\ a.q = x)
    BY <1>1, <2>3 DEF Holds
  <2>6. UNCHANGED <<slots, frees, up>>
    BY <1>1 DEF instances
  <2>7. QED
    BY <1>4, <1>w, <1>5, <2>3, <2>4, <2>5, <2>6, ThreadTidyInv
<1>8. CASE Removing(t, y)
  <2>1. Settled(y) /\ ~Alive(y)' /\ a.op \in {"finish", "expire"}
    BY <1>a, <1>y, <1>2, <1>4, <1>6, <1>8 DEF Tidy, Ended, Alive, Removing, Becomes
  <2>2. \A x \in Schedulers : pqdata[x][y] # "absent" /\ StillIn(t, x) => StillIn(t, x)'
    BY <1>a, <1>1, <1>3, <1>4, <2>1 DEF StillIn, Becomes
  <2>3. Tidy(y)'
    BY <1>a, <1>y, <1>1, <1>2, <1>4, <1>6, <1>8, <2>1, <2>2, RemoverTidy
  <2>4. \A x \in Reservations : Tidy(x)'
    BY <1>5, <2>3, OthersTidy DEF TidyInv
  <2>5. WonToFree'
    <3>1. thr'[t].won => thr'[t].pc = "delete"
      BY <1>3, <1>4 DEF Becomes, Active
    <3>2. \A z \in Threads \ {t} : thr'[z] = thr[z]
      BY <1>4 DEF Becomes
    <3>3. QED
      BY <3>1, <3>2 DEF TidyInv, WonToFree
  <2>6. ASSUME NEW s \in Schedulers, Holds(s, y)
        PROVE  Holds(s, y)' \/ Won(s)'
    <3>1. CASE Active(pqdata[a.q][y])
      <4>1. s = a.q
        BY <1>2, <2>1, <2>6, <3>1 DEF Holds, Settled, StillActive, Active
      <4>2. thr'[t].won /\ thr'[t].q = s
        BY <1>3, <1>4, <2>6, <3>1, <4>1 DEF Holds, Becomes
      <4>3. QED
        BY <4>2 DEF Won
    <3>2. CASE ~Active(pqdata[a.q][y])
      <4>1. s # a.q /\ current' = current
        BY <1>3, <2>6, <3>2 DEF Holds
      <4>2. QED
        BY <1>1, <1>4, <2>6, <4>1 DEF Holds, Owner, Becomes
    <3>3. QED
      BY <3>1, <3>2
  <2>7. \A z \in Threads : thr[z].won => thr'[z].won /\ thr'[z].q = thr[z].q
    BY <1>4, <1>w DEF Becomes
  <2>8. UNCHANGED <<slots, frees, up>>
    BY <1>1 DEF instances
  <2>9. \A s \in Schedulers : Accounted(s)'
    BY <1>5, <2>6, <2>7, <2>8, ThreadAccounted DEF TidyInv
  <2>10. QED
    BY <2>4, <2>5, <2>9 DEF TidyInv
<1>9. QED
  BY <1>7, <1>8

LEMMA DeleteTidy ==
  ASSUME AggregatorAssumption, IInv, TidyInv, NEW t \in Threads, Delete(t)
  PROVE  TidyInv'
<1> USE DEF data, shared
<1>a. PICK a : thr[t] = a
  OBVIOUS
<1>1. a.pc = "delete" /\ UNCHANGED <<data, shared, drawn, slots, up>> /\ AfterDelete(t)
  BY <1>a DEF Delete
<1>2. /\ a \in ThreadState /\ a.r \in Reservations /\ a.r \notin fresh /\ a.q \in Schedulers
      /\ ThreadTypes /\ DataTypes
  BY <1>a, <1>1, ThreadData DEF WellFormed
<1>y. PICK y \in Reservations : y = a.r
  BY <1>2
<1>3. PICK pc \in {"purge", "each"} :
        /\ Becomes(t, a.op, pc, y, a.todo, a.q, a.s) /\ (pc = "purge" <=> a.op = "expire")
        /\ thr'[t].won => pc = "purge" /\ thr[t].won
  <2>1. thr \in [Threads -> ThreadState] /\ "purge" \in Pcs /\ "each" \in Pcs
    BY <1>2 DEF ThreadTypes, Pcs
  <2>2. CASE a.op = "expire"
    <3>1. Goto(t, "purge")
      BY <1>a, <1>1, <2>2 DEF AfterDelete
    <3>2. Becomes(t, a.op, "purge", y, a.todo, a.q, a.s) /\ thr'[t].won = thr[t].won
      BY <1>a, <1>y, <2>1, <3>1, GotoBecomes, WonNext
    <3>3. QED
      BY <2>2, <3>2
  <2>3. CASE a.op # "expire"
    <3>1. GotoWon(t, "each", FALSE)
      BY <1>a, <1>1, <2>3 DEF AfterDelete
    <3>2. Becomes(t, a.op, "each", y, a.todo, a.q, a.s)
      BY <1>a, <1>y, <1>2, <2>1, <3>1, GotoWonBecomes
    <3>3. thr'[t].won = FALSE
      BY <2>1, <3>1, WonNext
    <3>4. QED
      BY <2>3, <3>2, <3>3
  <2>4. QED
    BY <2>2, <2>3
<1>4. \A x \in Schedulers, z \in Reservations :
        /\ pqdata'[x][z] = IF x = a.q /\ z = y THEN "absent" ELSE pqdata[x][z]
        /\ place'[x][z] = IF x = a.q /\ z = y THEN 0 ELSE place[x][z]
  BY <1>a, <1>y, <1>2 DEF Delete, DataTypes
<1>5. \A x \in Reservations \ {y} : Same(x)
  <2>1. \A x \in Reservations \ {y} : ThreadsSame(x)
    BY <1>a, <1>y, <1>3, OthersThreads DEF AggregatorAssumption
  <2>2. \A x \in Reservations \ {y} : QueuesSame(x)
    BY <1>1, <1>4 DEF QueuesSame
  <2>3. QED
    BY <1>1, <2>1, <2>2 DEF Same, UpdatersSame, SetsSame
<1>6. Tidy(y) /\ Cleans(t, y)
  BY <1>a, <1>y, <1>1 DEF TidyInv, Cleans
<1>7. Tidy(y)'
  <2>1. CASE ~Removing(t, y)
    <3>1. a.op # "expire"
      BY <1>a, <1>y, <2>1 DEF Removing
    <3>2. Becomes(t, thr[t].op, "each", y, thr[t].todo, thr[t].q, thr[t].s)
      BY <1>a, <1>3, <3>1
    <3>3. \A x \in Schedulers :
            /\ pqdata'[x][y] = IF x = thr[t].q /\ "each" = "each" THEN "absent" ELSE pqdata[x][y]
            /\ place'[x][y] \in {place[x][y], 0}
            /\ pqdata'[x][y] = "absent" => place'[x][y] = 0 \/ pqdata[x][y] = "absent"
      BY <1>a, <1>4
    <3>4. UNCHANGED <<data, assoc, locked, up>>
      BY <1>1
    <3>5. QED
      BY <1>6, <2>1, <3>2, <3>3, <3>4, CleanerTidy
  <2>2. CASE Removing(t, y)
    <3>1. ~Alive(y)' /\ a.op \in {"finish", "expire"}
      BY <1>a, <1>y, <1>3, <2>2 DEF Alive, Removing, Becomes
    <3>2. \A x \in Schedulers : x # a.q /\ StillIn(t, x) => StillIn(t, x)'
      BY <1>a, <1>1, <1>3, <3>1 DEF StillIn, Becomes
    <3>3. \A x \in Schedulers : pqdata'[x][y] # "absent" /\ StillIn(t, x) => StillIn(t, x)'
      BY <1>4, <3>2
    <3>4. \A x \in Schedulers :
            /\ pqdata'[x][y] \in {pqdata[x][y], "absent"} /\ place'[x][y] \in {place[x][y], 0}
            /\ pqdata'[x][y] = "absent" => place'[x][y] = 0 \/ pqdata[x][y] = "absent"
      BY <1>4
    <3>5. QED
      BY <1>a, <1>y, <1>1, <1>2, <1>3, <1>6, <2>2, <3>1, <3>3, <3>4, RemoverTidy
  <2>3. QED
    BY <2>1, <2>2
<1>8. \A z \in Threads \ {t} : thr'[z] = thr[z]
  BY <1>3 DEF Becomes
<1>9. WonToFree'
  <2>1. thr'[t].won => thr'[t].pc = "purge" /\ thr'[t].op = "expire"
    BY <1>3 DEF Becomes
  <2>2. QED
    BY <1>8, <2>1 DEF TidyInv, WonToFree
<1>10. frees \subseteq frees'
  BY <1>1 DEF AfterDelete
<1>11. ASSUME NEW z \in Threads, thr[z].won
       PROVE  (thr'[z].won /\ thr'[z].q = thr[z].q) \/ thr[z].q \in frees'
  <2>1. CASE z = t /\ a.op = "expire"
    BY <1>a, <1>1, <1>2, <1>11, <2>1 DEF AfterDelete, Goto, ThreadTypes, ThreadState
  <2>2. CASE z = t /\ a.op # "expire"
    BY <1>a, <1>1, <1>11, <2>2 DEF AfterDelete
  <2>3. CASE z # t
    BY <1>8, <1>11, <2>3
  <2>4. QED
    BY <2>1, <2>2, <2>3
<1>12. ASSUME NEW s \in Schedulers, Holds(s, y)
       PROVE  Holds(s, y)'
  <2>1. s # a.q
    BY <1>a, <1>y, <1>1, <1>12 DEF Holds
  <2>2. pqdata'[s][y] = pqdata[s][y] /\ current' = current /\ up' = up
    BY <1>1, <1>4, <2>1
  <2>3. \A z \in Threads : (thr[z].r = y /\ thr[z].pc = "delete")' => thr'[z].q # s
    BY <1>3, <1>8, <1>12 DEF Holds, Becomes
  <2>4. QED
    BY <1>12, <2>2, <2>3 DEF Holds, Owner
<1>13. \A s \in Schedulers : Accounted(s)'
  <2>1. UNCHANGED <<slots, up>>
    BY <1>1
  <2>2. QED
    BY <1>5, <1>10, <1>11, <1>12, <2>1, ThreadAccounted DEF TidyInv
<1>14. QED
  BY <1>5, <1>7, <1>9, <1>13, OthersTidy DEF TidyInv

(* All who remove it have been where it was promoted.                      *)
LEMMA PurgeTidy ==
  ASSUME AggregatorAssumption, IInv, TidyInv, NEW t \in Threads, Purge(t)
  PROVE  TidyInv'
<1> USE DEF queues
<1>a. PICK a : thr[t] = a
  OBVIOUS
<1>1. /\ a.pc = "purge" /\ UNCHANGED <<fresh, locked, queues, slots, up>> /\ End(t)
      /\ stored' = stored \ {a.r} /\ accessed' = accessed \ {a.r} /\ current' = current \ {a.r}
      /\ assoc' = [assoc EXCEPT ![a.r] = {}]
      /\ frees' = IF a.won THEN frees \cup {a.q} ELSE frees
  BY <1>a DEF Purge
<1>2. /\ a \in ThreadState /\ a.r \in Reservations /\ a.r \notin fresh
      /\ a.op \in {"finish", "expire"} /\ ThreadTypes /\ DataTypes
  BY <1>a, <1>1, ThreadData DEF WellFormed
<1>y. PICK y \in Reservations : y = a.r
  BY <1>2
<1>3. Becomes(t, "none", "idle", NoReservation, {}, NoScheduler, NoScheduler) /\ ~thr'[t].won
  BY <1>1, <1>2, EndBecomes, WonNext DEF ThreadTypes
<1>4. assoc'[y] = {} /\ \A x \in Reservations \ {y} : assoc'[x] = assoc[x]
  BY <1>1, <1>2, <1>y DEF DataTypes
<1>5. \A x \in Reservations \ {y} : Same(x)
  <2>1. \A x \in Reservations \ {y} : ThreadsSame(x)
    BY <1>a, <1>y, <1>3, OthersThreads DEF AggregatorAssumption
  <2>2. QED
    BY <1>1, <1>y, <1>4, <2>1 DEF Same, UpdatersSame, SetsSame, QueuesSame
<1>6. Tidy(y) /\ Removing(t, y)
  BY <1>a, <1>y, <1>2 DEF TidyInv, Removing
<1>7. \A x \in Schedulers : pqdata[x][y] = "absent"
  <2>1. Settled(y)
    BY <1>y, <1>2, <1>6 DEF Tidy, Ended, Alive
  <2>2. \A x \in Schedulers : ~StillIn(t, x)
    BY <1>a, <1>1 DEF StillIn
  <2>3. QED
    BY <1>6, <2>1, <2>2 DEF Settled, StillActive
<1>8. Tidy(y)'
  <2>1. ~Alive(y)'
    BY <1>y, <1>1 DEF Alive
  <2>2. \A x \in Schedulers : pqdata'[x][y] = "absent" /\ place'[x][y] = place[x][y]
    BY <1>1, <1>7
  <2>3. QED
    BY <1>y, <1>1, <1>2, <1>3, <1>4, <1>6, <1>7, <2>1, <2>2, RemoverTidy
<1>9. \A z \in Threads \ {t} : thr'[z] = thr[z]
  BY <1>3 DEF Becomes
<1>10. WonToFree'
  BY <1>3, <1>9 DEF TidyInv, WonToFree
<1>11. \A z \in Threads : thr[z].won =>
         (thr'[z].won /\ thr'[z].q = thr[z].q) \/ thr[z].q \in frees'
  BY <1>a, <1>1, <1>9
<1>12. \A s \in Schedulers : ~Holds(s, y)
  BY <1>7 DEF Holds, Active
<1>13. \A s \in Schedulers : Accounted(s)'
  <2>1. UNCHANGED <<slots, up>> /\ frees \subseteq frees'
    BY <1>1
  <2>2. QED
    BY <1>5, <1>11, <1>12, <2>1, ThreadAccounted DEF TidyInv
<1>14. QED
  BY <1>5, <1>8, <1>10, <1>13, OthersTidy DEF TidyInv

(* Any step of a thread.                                                   *)
LEMMA WorkTidy ==
  ASSUME UsersStay, AggregatorAssumption, IInv, TidyInv, NEW t \in Threads, Work(t)
  PROVE  TidyInv'
  BY LabDoneTidy, LockTidy, NextSchedulerTidy, LookTidy, AssignTidy, EachTidy, CleanTidy,
     DeleteTidy, PurgeTidy, UnlockTidy, ListToConfirmTidy, WriteReservedTidy DEF Work

-----------------------------------------------------------------------------
(* All steps.                                                              *)

(* Steps that change instances only.                                       *)
LEMMA InstancesTidy ==
  ASSUME TidyInv, UNCHANGED <<data, shared, queues, up, thr>>,
         \A s \in Schedulers : s \in slots \/ s \in frees => s \in slots' \/ s \in frees'
  PROVE  TidyInv'
<1> USE DEF data, shared, queues
<1>1. \A x \in Reservations : Same(x)
  BY DEF Same, ThreadsSame, UpdatersSame, SetsSame, QueuesSame
<1>2. \A x \in Reservations : Tidy(x)'
  BY <1>1, SameTidy DEF TidyInv
<1>3. WonToFree'
  BY DEF TidyInv, WonToFree
<1>4. ASSUME NEW s \in Schedulers
      PROVE  Accounted(s)'
  <2>1. \A x \in Reservations : Holds(s, x) => Holds(s, x)'
    BY <1>1, SameHolds
  <2>2. (Acquiring(s) => Acquiring(s)') /\ (Won(s) => Won(s)')
    BY DEF Acquiring, Won
  <2>3. QED
    BY <2>1, <2>2 DEF TidyInv, Accounted
<1>5. QED
  BY <1>2, <1>3, <1>4 DEF TidyInv

(* Nothing exists in the beginning, and each instance is free or freed.    *)
LEMMA InitiallyTidy ==
  ASSUME AggregatorAssumption, Init
  PROVE  TidyInv
<1>1. IInv
  BY InitiallyInv
<1>2. ASSUME NEW t \in Threads
      PROVE  thr[t] = Idle /\ Idle.r = NoReservation /\ Idle.op = "none" /\ ~Idle.won
  BY DEF Init, Idle
<1>3. ASSUME NEW r \in Reservations
      PROVE  Tidy(r)
  <2>1. r \in fresh /\ \A s \in Schedulers : pqdata[s][r] = "absent" /\ place[s][r] = 0
    BY DEF Init
  <2>2. \A t \in Threads : thr[t].r # r
    BY <1>2 DEF AggregatorAssumption
  <2>3. QueuedHasData(r) /\ LeftOnce(r)
    BY <2>1 DEF QueuedHasData, LeftOnce, Active, Queue, Updaters
  <2>4. LockedOnce(r) /\ Covered(r) /\ OthersLeft(r) /\ ~Ended(r)
    BY <2>1, <2>2 DEF LockedOnce, UnderLock, Covered, OthersLeft, NobodyCleans, Cleans, Ended
  <2>5. QED
    BY <2>3, <2>4 DEF Tidy
<1>4. WonToFree
  BY <1>2 DEF WonToFree
<1>5. \A s \in Schedulers : Accounted(s)
  BY DEF Init, Accounted
<1>6. QED
  BY <1>3, <1>4, <1>5 DEF TidyInv

LEMMA TidyStep ==
  ASSUME UsersStay, AggregatorAssumption, IInv, TidyInv, [Next]_vars
  PROVE  TidyInv'
<1>1. ASSUME NEW f \in frees, Free(f)
      PROVE  TidyInv'
  BY <1>1, InstancesTidy DEF Free
<1>2. CASE UNCHANGED vars
  BY <1>2, InstancesTidy DEF vars, instances
<1>3. QED
  BY <1>1, <1>2, UpdateTidy, BeginTidy, WorkTidy DEF Next

(* The invariant holds of every behaviour of such users.                   *)
THEOREM AggregatorTidy == UsersStay => (Spec => [](IInv /\ TidyInv))
<1> SUFFICES ASSUME UsersStay
             PROVE  Spec => [](IInv /\ TidyInv)
  OBVIOUS
<1>1. Init => IInv /\ TidyInv
  BY AggregatorAssumption, InitiallyInv, InitiallyTidy
<1>2. IInv /\ TidyInv /\ [Next]_vars => (IInv /\ TidyInv)'
  BY AggregatorAssumption, InductiveStep, TidyStep
<1>3. QED
  BY <1>1, <1>2, PTL DEF Spec

(* A reservation that does not exist anymore is in no queue and has data   *)
(* in no scheduler: who finishes it and who sees it expire have been in    *)
(* the only scheduler that it had not left before, and no request for the  *)
(* status puts it back.                                                    *)
THEOREM LeavesNothingBehind == UsersStay => (Spec => []NothingLeftBehind)
<1> SUFFICES ASSUME UsersStay
             PROVE  Spec => []NothingLeftBehind
  OBVIOUS
<1>1. ASSUME IInv, TidyInv, NEW r \in Reservations, NEW s \in Schedulers, r \notin stored
      PROVE  pqdata[s][r] = "absent" /\ place[s][r] = 0
  <2>1. CASE r \in fresh
    BY <1>1, <2>1 DEF IInv, Good, FreshIsNowhere, Nowhere
  <2>2. CASE r \notin fresh
    <3>1. Settled(r) /\ QueuedHasData(r)
      BY <1>1, <2>2 DEF TidyInv, Tidy, Ended, Alive
    <3>2. pqdata[s][r] = "absent"
      BY <1>1, <3>1 DEF Settled, StillActive
    <3>3. QED
      BY <3>1, <3>2 DEF QueuedHasData
  <2>3. QED
    BY <2>1, <2>2
<1>2. IInv /\ TidyInv => NothingLeftBehind
  BY <1>1 DEF NothingLeftBehind
<1>3. QED
  BY <1>2, AggregatorTidy, PTL

(* No instance is lost, whatever competes for it: it is free, taken by an  *)
(* updater that promotes, held by a reservation that has CURRENT, won by   *)
(* who took CURRENT away, or being freed.                                  *)
THEOREM EverySlotAccounted == UsersStay => (Spec => []SlotAccounted)
<1> SUFFICES ASSUME UsersStay
             PROVE  Spec => []SlotAccounted
  OBVIOUS
<1>1. TidyInv => SlotAccounted
  BY DEF TidyInv, Accounted, Acquiring, Holds, Won, SlotAccounted
<1>2. QED
  BY <1>1, AggregatorTidy, PTL
=============================================================================
