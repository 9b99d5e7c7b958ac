------------------------ MODULE SchedulerStayProofs ------------------------
(***************************************************************************)
(* For every number of reservations, instances, removals and failures at   *)
(* once: with one server, whose users stay until they are in and then      *)
(* leave or are found to be over, also while the laboratory fails.         *)
(***************************************************************************)
EXTENDS PriorityQueueSchedulerProofs, SchedulerRefinement

(* ZREM takes one member out of those who are queued, ...                  *)
LEMMA QueuedWithout ==
  ASSUME NEW m \in Members, sorted' = Without(m)
  PROVE  Queued' = Queued \ {m}
<1>1. \A n \in Members :
        (\E e \in sorted' : e[1] = n) <=> n # m /\ \E e \in sorted : e[1] = n
  BY DEF Without
<1>2. QED
  BY <1>1 DEF Queued

(* ... and ZADD adds one.                                                  *)
LEMMA QueuedWith ==
  ASSUME NEW m \in Members, NEW score \in Int, sorted' = With(m, score)
  PROVE  Queued' = Queued \cup {m}
<1> DEFINE new == <<m, score>>
<1>1. new[1] = m
  OBVIOUS
<1>2. new \in sorted'
  BY DEF With
<1>3. \A e : e \in sorted' <=> e = new \/ (e \in sorted /\ e[1] # m)
  BY DEF With, Without
<1> HIDE DEF new
<1>4. \A n \in Members :
        (\E e \in sorted' : e[1] = n) <=> n = m \/ \E e \in sorted : e[1] = n
  BY <1>1, <1>2, <1>3
<1>5. QED
  BY <1>4 DEF Queued

(* No other command changes who is queued.                                 *)
LEMMA QueuedSame == UNCHANGED sorted => Queued' = Queued
  BY DEF Queued

(* Data are written by whoever knows what they say: an updater that of one *)
(* who waits, a confirming thread and a breaker that of one who confirms.  *)
LEMMA DataStayAgreed ==
  ASSUME ConstantsAssumption, UsersStay, TypeOK, FreshIsNowhere, DataAgree,
         UpdaterKnows, ConfirmersKnow, BreakersKnow, RemoversKnow, Next
  PROVE  DataAgree'
<1> USE DEF TypeOK, KeyTypes, LabTypes, UpdaterTypes, RemoverTypes,
            BreakerTypes, keys, lab, DataAgree, Active
<1>1. ASSUME NEW r \in Reservations, Reserve(r)
      PROVE  DataAgree'
  BY <1>1 DEF Reserve, FreshIsNowhere, NoData
<1>2. ASSUME NEW u \in Updaters, Update(u)
      PROVE  DataAgree'
  <2>1. CASE PickFirst(u)
    <3>1. UNCHANGED <<stored, pqdata, current, map>>
      BY <2>1 DEF PickFirst
    <3>2. QED
      BY <3>1
  <2>2. CASE NobodyWaiting(u)
    <3>1. UNCHANGED <<stored, pqdata, current, map>>
      BY <2>2 DEF NobodyWaiting
    <3>2. QED
      BY <3>1
  <2>3. CASE ListFreeInstances(u)
    <3>1. UNCHANGED <<stored, pqdata, current, map>>
      BY <2>3 DEF ListFreeInstances
    <3>2. QED
      BY <3>1
  <2>4. CASE TryInstance(u)
    <3>1. UNCHANGED <<stored, pqdata, current, map>>
      BY <2>4 DEF TryInstance
    <3>2. QED
      BY <3>1
  <2>5. CASE NoInstanceLeft(u)
    <3>1. UNCHANGED <<stored, pqdata, current, map>>
      BY <2>5 DEF NoInstanceLeft
    <3>2. QED
      BY <3>1
  <2>6. CASE CheckExists(u)
    <3>1. UNCHANGED <<stored, pqdata, current, map>>
      BY <2>6 DEF CheckExists
    <3>2. QED
      BY <3>1
  <2>7. CASE SetCurrent(u)
    BY <2>7 DEF SetCurrent, NextRound, IdleUpdater, UpdaterKnows, TakesCare,
            Confirming
  <2>8. CASE AcquireResource(u)
    <3>1. UNCHANGED <<stored, pqdata, current, map>>
      BY <2>8 DEF AcquireResource
    <3>2. QED
      BY <3>1
  <2>9. CASE Unconfirm(u)
    BY <2>9 DEF Unconfirm
  <2>10. CASE AssignInstance(u)
    <3>1. UNCHANGED <<stored, pqdata, current, map>>
      BY <2>10 DEF AssignInstance
    <3>2. QED
      BY <3>1
  <2>11. CASE ReadReservation(u)
    <3>1. UNCHANGED <<stored, pqdata, current, map>>
      BY <2>11 DEF ReadReservation
    <3>2. QED
      BY <3>1
  <2>12. CASE DowngradeUnsuitable(u)
    BY <2>12 DEF DowngradeUnsuitable
  <2>13. CASE ReleaseAcquired(u)
    <3>1. UNCHANGED <<stored, pqdata, current, map>>
      BY <2>13 DEF ReleaseAcquired
    <3>2. QED
      BY <3>1
  <2>14. CASE Unassign(u)
    <3>1. UNCHANGED <<stored, pqdata, current, map>>
      BY <2>14 DEF Unassign
    <3>2. QED
      BY <3>1
  <2>15. CASE SetWaitingConfirmation(u)
    BY <2>15 DEF SetWaitingConfirmation, UpdaterKnows, TakesCare, UpdaterState,
             Data
  <2>16. CASE DequeueAndConfirm(u)
    <3>1. UNCHANGED <<stored, pqdata, current, map>>
      BY <2>16 DEF DequeueAndConfirm
    <3>2. QED
      BY <3>1
  <2>17. QED
    BY <1>2, <2>1, <2>2, <2>3, <2>4, <2>5, <2>6, <2>7, <2>8, <2>9, <2>10,
            <2>11, <2>12, <2>13, <2>14, <2>15, <2>16 DEF Update
<1>3. ASSUME NEW t \in confirms, Confirm(t)
      PROVE  DataAgree'
  <2>1. CASE ReserveInLab(t)
    <3>1. UNCHANGED <<stored, pqdata, current, map>>
      BY <2>1 DEF ReserveInLab
    <3>2. QED
      BY <3>1
  <2>2. CASE PutInitial(t)
    <3>1. UNCHANGED <<stored, pqdata, current, map>>
      BY <2>2 DEF PutInitial
    <3>2. QED
      BY <3>1
  <2>3. CASE ReadToConfirm(t)
    <3>1. UNCHANGED <<stored, pqdata, current, map>>
      BY <2>3 DEF ReadToConfirm
    <3>2. QED
      BY <3>1
  <2>4. CASE WriteReserved(t)
    BY <2>4 DEF WriteReserved, End, ConfirmersKnow, HeldFor, ConfirmTask, Data
  <2>5. QED
    BY <1>3, <2>1, <2>2, <2>3, <2>4 DEF Confirm
<1>4. ASSUME NEW t \in confirms, NEW b \in Breakers, LabFailsToReserve(t, b)
      PROVE  DataAgree'
  BY <1>4 DEF LabFailsToReserve, End
<1>5. ASSUME NEW c \in Removers, NEW r \in Reservations,
             \/ BeginFinish(c, r) \/ BeginExpire(c, r)
             \/ BeginDrop(c, r) \/ BeginPoll(c, r)
      PROVE  DataAgree'
  <2>1. UNCHANGED <<stored, pqdata, current, map>>
    BY <1>5 DEF BeginFinish, IdleRemover, BeginExpire, BeginDrop, BeginPoll
  <2>2. QED
    BY <2>1
<1>6. ASSUME NEW c \in Removers, Remove(c)
      PROVE  DataAgree'
  <2>1. CASE FindAggregator(c)
    <3>1. UNCHANGED <<stored, pqdata, current, map>>
      BY <2>1 DEF FindAggregator
    <3>2. QED
      BY <3>1
  <2>2. CASE ReadActive(c)
    <3>1. UNCHANGED <<stored, pqdata, current, map>>
      BY <2>2 DEF ReadActive
    <3>2. QED
      BY <3>1
  <2>3. CASE Touch(c)
    <3>1. UNCHANGED <<stored, pqdata, current, map>>
      BY <2>3 DEF Touch
    <3>2. QED
      BY <3>1
  <2>4. CASE ReadToClean(c)
    <3>1. UNCHANGED <<stored, pqdata, current, map>>
      BY <2>4 DEF ReadToClean
    <3>2. QED
      BY <3>1
  <2>5. CASE DowngradeConfirmation(c)
    BY <2>5 DEF DowngradeConfirmation
  <2>6. CASE UnassignCleaned(c)
    <3>1. UNCHANGED <<stored, pqdata, current, map>>
      BY <2>6 DEF UnassignCleaned
    <3>2. QED
      BY <3>1
  <2>7. CASE DeleteReservation(c)
    BY <2>7 DEF DeleteReservation, Goto, RemoversKnow, Removing, NoData
  <2>8. CASE Unmap(c)
    BY <2>8 DEF Unmap, AfterDequeue, IdleRemover, RemoversKnow, Removing
  <2>9. CASE Dequeue(c)
    <3>1. UNCHANGED <<stored, pqdata, current, map>>
      BY <2>9 DEF Dequeue
    <3>2. QED
      BY <3>1
  <2>10. CASE Purge(c)
    BY <2>10 DEF Purge, Goto, RemoversKnow, Removing
  <2>11. CASE EnqueueFree(c)
    <3>1. UNCHANGED <<stored, pqdata, current, map>>
      BY <2>11 DEF EnqueueFree
    <3>2. QED
      BY <3>1
  <2>12. CASE ClearFinishing(c)
    <3>1. UNCHANGED <<stored, pqdata, current, map>>
      BY <2>12 DEF ClearFinishing
    <3>2. QED
      BY <3>1
  <2>13. QED
    BY <1>6, <2>1, <2>2, <2>3, <2>4, <2>5, <2>6, <2>7, <2>8, <2>9, <2>10,
            <2>11, <2>12 DEF Remove
<1>7. ASSUME NEW t \in frees, Free(t)
      PROVE  DataAgree'
  <2>1. UNCHANGED <<stored, pqdata, current, map>>
    BY <1>7 DEF Free, FreeInLab, ConfirmDisposal
  <2>2. QED
    BY <2>1
<1>8. ASSUME NEW t \in frees, NEW b \in Breakers, LabFailsToFree(t, b)
      PROVE  DataAgree'
  BY <1>8 DEF LabFailsToFree
<1>9. ASSUME NEW b \in Breakers, Break(b)
      PROVE  DataAgree'
  <2>1. CASE FindCurrent(b)
    <3>1. UNCHANGED <<stored, pqdata, current, map>>
      BY <2>1 DEF FindCurrent
    <3>2. QED
      BY <3>1
  <2>2. CASE RemoveCurrent(b)
    <3>1. UNCHANGED <<stored, pqdata, current, map>>
      BY <2>2 DEF RemoveCurrent
    <3>2. QED
      BY <3>1
  <2>3. CASE DowngradeCurrent(b)
    BY <2>3 DEF DowngradeCurrent, BreakerGoto
  <2>4. CASE ReleaseBroken(b)
    <3>1. UNCHANGED <<stored, pqdata, current, map>>
      BY <2>4 DEF ReleaseBroken
    <3>2. QED
      BY <3>1
  <2>5. CASE ReadBroken(b)
    <3>1. UNCHANGED <<stored, pqdata, current, map>>
      BY <2>5 DEF ReadBroken
    <3>2. QED
      BY <3>1
  <2>6. CASE WriteWaiting(b)
    BY <2>6 DEF WriteWaiting, BreakerGoto, BreakersKnow, Data, BreakerState
  <2>7. CASE Requeue(b)
    <3>1. UNCHANGED <<stored, pqdata, current, map>>
      BY <2>7 DEF Requeue
    <3>2. QED
      BY <3>1
  <2>8. CASE MarkBroken(b)
    <3>1. UNCHANGED <<stored, pqdata, current, map>>
      BY <2>8 DEF MarkBroken
    <3>2. QED
      BY <3>1
  <2>9. QED
    BY <1>9, <2>1, <2>2, <2>3, <2>4, <2>5, <2>6, <2>7, <2>8 DEF Break
<1>10. ASSUME NEW b \in Breakers, NEW i \in Instances, BeginBreak(b, i)
      PROVE  DataAgree'
  BY <1>10 DEF BeginBreak
<1>11. ASSUME NEW i \in Instances, MarkFixed(i)
      PROVE  DataAgree'
  BY <1>11 DEF MarkFixed
<1>12. QED
  BY <1>1, <1>2, <1>3, <1>4, <1>5, <1>6, <1>7, <1>8, <1>9, <1>10, <1>11
     DEF Next, Begin

(* The queue loses whoever is promoted and gets back whoever loses his      *)
(* instance; the removals find nothing of theirs in it.                    *)
LEMMA QueueStaysAgreed ==
  ASSUME ConstantsAssumption, UsersStay, TypeOK, FreshIsNowhere, RemovalOrder,
         DataAgree, QueueAgrees, UpdaterKnows, ConfirmersKnow, BreakersKnow,
         RemoversKnow, Next
  PROVE  QueueAgrees'
<1> USE DEF TypeOK, KeyTypes, LabTypes, UpdaterTypes, RemoverTypes,
            BreakerTypes, keys, lab, QueueAgrees, Confirming
<1>1. ASSUME NEW r \in Reservations, Reserve(r)
      PROVE  QueueAgrees'
  <2>1. Queued' = Queued \cup {r}
    BY <1>1, QueuedWith DEF Reserve, Members
  <2>2. QED
    BY <1>1, <2>1 DEF Reserve, FreshIsNowhere, DataAgree, NoData
<1>2. ASSUME NEW u \in Updaters, Update(u)
      PROVE  QueueAgrees'
  <2>0. \A v \in Updaters : v = u
    BY DEF UsersStay
  <2>1. CASE PickFirst(u)
    BY <2>1, <2>0, QueuedSame DEF PickFirst, Untried, UpdaterState
  <2>2. CASE NobodyWaiting(u)
    BY <2>2, <2>0, QueuedSame DEF NobodyWaiting, IdleUpdater, UpdaterState
  <2>3. CASE ListFreeInstances(u)
    BY <2>3, <2>0, QueuedSame DEF ListFreeInstances, IdleUpdater, UpdaterState
  <2>4. CASE TryInstance(u)
    BY <2>4, <2>0, QueuedSame DEF TryInstance, UpdaterState
  <2>5. CASE NoInstanceLeft(u)
    BY <2>5, <2>0, QueuedSame DEF NoInstanceLeft, NextRound, IdleUpdater,
                              UpdaterState
  <2>6. CASE CheckExists(u)
    BY <2>6, <2>0, QueuedSame DEF CheckExists, IdleUpdater, UpdaterState
  <2>7. CASE SetCurrent(u)
    BY <2>7, <2>0, QueuedSame DEF SetCurrent, NextRound, IdleUpdater,
                              UpdaterState, UpdaterKnows, TakesCare, Confirming
  <2>8. CASE AcquireResource(u)
    BY <2>8, <2>0, QueuedSame DEF AcquireResource, UpdaterState
  <2>9. CASE Unconfirm(u)
    BY <2>9, <2>0, QueuedSame DEF Unconfirm, UpdaterState
  <2>10. CASE AssignInstance(u)
    BY <2>10, <2>0, QueuedSame, SMTT(30) DEF AssignInstance, UpdaterState
  <2>11. CASE ReadReservation(u)
    BY <2>11, <2>0, QueuedSame DEF ReadReservation, UpdaterState, UpdaterKnows,
                               TakesCare, DataAgree
  <2>12. CASE DowngradeUnsuitable(u)
    BY <2>12, <2>0, QueuedSame DEF DowngradeUnsuitable, UpdaterState
  <2>13. CASE ReleaseAcquired(u)
    BY <2>13, <2>0, QueuedSame DEF ReleaseAcquired, UpdaterState
  <2>14. CASE Unassign(u)
    BY <2>14, <2>0, QueuedSame DEF Unassign, NextRound, IdleUpdater,
                               UpdaterState
  <2>15. CASE SetWaitingConfirmation(u)
    BY <2>15, <2>0, QueuedSame DEF SetWaitingConfirmation, UpdaterState,
                               UpdaterKnows, TakesCare, Data
  <2>16. CASE DequeueAndConfirm(u)
    <3>1. Queued' = Queued \ {up[u].r}
      BY <2>16, <2>0, QueuedWithout
         DEF DequeueAndConfirm, MemberOf, DataAgree, UpdaterKnows, TakesCare,
            Members
    <3>2. QED
      BY <2>16, <2>0, <3>1 DEF DequeueAndConfirm, NextRound, IdleUpdater
  <2>17. QED
    BY <1>2, <2>1, <2>2, <2>3, <2>4, <2>5, <2>6, <2>7, <2>8, <2>9, <2>10,
            <2>11, <2>12, <2>13, <2>14, <2>15, <2>16 DEF Update
<1>3. ASSUME NEW t \in confirms, Confirm(t)
      PROVE  QueueAgrees'
  <2>1. CASE ReserveInLab(t)
    <3>1. UNCHANGED <<stored, sorted, up, pqdata, current>>
      BY <2>1 DEF ReserveInLab
    <3>2. QED
      BY <3>1, QueuedSame
  <2>2. CASE PutInitial(t)
    <3>1. UNCHANGED <<stored, sorted, up, pqdata, current>>
      BY <2>2 DEF PutInitial
    <3>2. QED
      BY <3>1, QueuedSame
  <2>3. CASE ReadToConfirm(t)
    <3>1. UNCHANGED <<stored, sorted, up, pqdata, current>>
      BY <2>3 DEF ReadToConfirm
    <3>2. QED
      BY <3>1, QueuedSame
  <2>4. CASE WriteReserved(t)
    BY <2>4, QueuedSame DEF WriteReserved, End, UpdaterState, ConfirmersKnow,
                        HeldFor, ConfirmTask, Data
  <2>5. QED
    BY <1>3, <2>1, <2>2, <2>3, <2>4 DEF Confirm
<1>4. ASSUME NEW t \in confirms, NEW b \in Breakers, LabFailsToReserve(t, b)
      PROVE  QueueAgrees'
  BY <1>4, QueuedSame DEF LabFailsToReserve, End
<1>5. ASSUME NEW c \in Removers, NEW r \in Reservations,
             \/ BeginFinish(c, r) \/ BeginExpire(c, r)
             \/ BeginDrop(c, r) \/ BeginPoll(c, r)
      PROVE  QueueAgrees'
  <2>1. UNCHANGED <<stored, sorted, up, pqdata, current>>
    BY <1>5 DEF BeginFinish, IdleRemover, BeginExpire, BeginDrop, BeginPoll
  <2>2. QED
    BY <2>1, QueuedSame
<1>6. ASSUME NEW c \in Removers, Remove(c)
      PROVE  QueueAgrees'
  <2>1. CASE FindAggregator(c)
    <3>1. UNCHANGED <<stored, sorted, up, pqdata, current>>
      BY <2>1 DEF FindAggregator
    <3>2. QED
      BY <3>1, QueuedSame
  <2>2. CASE ReadActive(c)
    <3>1. UNCHANGED <<stored, sorted, up, pqdata, current>>
      BY <2>2 DEF ReadActive
    <3>2. QED
      BY <3>1, QueuedSame
  <2>3. CASE Touch(c)
    <3>1. UNCHANGED <<stored, sorted, up, pqdata, current>>
      BY <2>3 DEF Touch
    <3>2. QED
      BY <3>1, QueuedSame
  <2>4. CASE ReadToClean(c)
    <3>1. UNCHANGED <<stored, sorted, up, pqdata, current>>
      BY <2>4 DEF ReadToClean
    <3>2. QED
      BY <3>1, QueuedSame
  <2>5. CASE DowngradeConfirmation(c)
    BY <2>5, QueuedSame DEF DowngradeConfirmation, UpdaterState
  <2>6. CASE UnassignCleaned(c)
    <3>1. UNCHANGED <<stored, sorted, up, pqdata, current>>
      BY <2>6 DEF UnassignCleaned
    <3>2. QED
      BY <3>1, QueuedSame
  <2>7. CASE DeleteReservation(c)
    BY <2>7, QueuedSame DEF DeleteReservation, Goto, UpdaterState,
                        RemoversKnow, Removing, NoData, UpdaterKnows,
                        TakesCare, DataAgree
  <2>8. CASE Unmap(c)
    <3>1. Queued' = Queued \/ Queued' = Queued \ {NoneMember}
      BY <2>8, QueuedWithout, QueuedSame DEF Unmap, Members
    <3>2. NoneMember \notin Reservations
      BY DEF NoneMember, Reservations
    <3>3. QED
      BY <2>8, <3>1, <3>2 DEF Unmap, AfterDequeue, IdleRemover
  <2>9. CASE Dequeue(c)
    <3>1. rm[c].r \in Reservations /\ Queued' = Queued \ {rm[c].r}
      BY <2>9, QueuedWithout DEF Dequeue, Members
    <3>2. QED
      BY <2>9, <3>1 DEF Dequeue, AfterDequeue, IdleRemover
  <2>10. CASE Purge(c)
    BY <2>10, QueuedSame DEF Purge, Goto, UpdaterState, RemoversKnow, Removing,
                         UpdaterKnows, TakesCare
  <2>11. CASE EnqueueFree(c)
    <3>1. UNCHANGED <<stored, sorted, up, pqdata, current>>
      BY <2>11 DEF EnqueueFree
    <3>2. QED
      BY <3>1, QueuedSame
  <2>12. CASE ClearFinishing(c)
    <3>1. UNCHANGED <<stored, sorted, up, pqdata, current>>
      BY <2>12 DEF ClearFinishing
    <3>2. QED
      BY <3>1, QueuedSame
  <2>13. QED
    BY <1>6, <2>1, <2>2, <2>3, <2>4, <2>5, <2>6, <2>7, <2>8, <2>9, <2>10,
            <2>11, <2>12 DEF Remove
<1>7. ASSUME NEW t \in frees, Free(t)
      PROVE  QueueAgrees'
  <2>1. UNCHANGED <<stored, sorted, up, pqdata, current>>
    BY <1>7 DEF Free, FreeInLab, ConfirmDisposal
  <2>2. QED
    BY <2>1, QueuedSame
<1>8. ASSUME NEW t \in frees, NEW b \in Breakers, LabFailsToFree(t, b)
      PROVE  QueueAgrees'
  BY <1>8, QueuedSame DEF LabFailsToFree
<1>9. ASSUME NEW b \in Breakers, Break(b)
      PROVE  QueueAgrees'
  <2>1. CASE FindCurrent(b)
    <3>1. UNCHANGED <<stored, sorted, up, pqdata, current>>
      BY <2>1 DEF FindCurrent
    <3>2. QED
      BY <3>1, QueuedSame
  <2>2. CASE RemoveCurrent(b)
    <3>1. UNCHANGED <<stored, sorted, up, pqdata, current>>
      BY <2>2 DEF RemoveCurrent
    <3>2. QED
      BY <3>1, QueuedSame
  <2>3. CASE DowngradeCurrent(b)
    BY <2>3, QueuedSame DEF DowngradeCurrent, BreakerGoto, UpdaterState
  <2>4. CASE ReleaseBroken(b)
    <3>1. UNCHANGED <<stored, sorted, up, pqdata, current>>
      BY <2>4 DEF ReleaseBroken
    <3>2. QED
      BY <3>1, QueuedSame
  <2>5. CASE ReadBroken(b)
    <3>1. UNCHANGED <<stored, sorted, up, pqdata, current>>
      BY <2>5 DEF ReadBroken
    <3>2. QED
      BY <3>1, QueuedSame
  <2>6. CASE WriteWaiting(b)
    BY <2>6, QueuedSame DEF WriteWaiting, BreakerGoto, UpdaterState,
                        BreakersKnow, Data, BreakerState
  <2>7. CASE Requeue(b)
    <3>1. br[b].r \in Reservations /\ Queued' = Queued \cup {br[b].r}
      BY <2>7, QueuedWith DEF Requeue, MemberOf, DataAgree, BreakersKnow,
         Members, Requeued
    <3>2. QED
      BY <2>7, <3>1 DEF Requeue, IdleBreaker, BreakersKnow, DataAgree,
         BreakerState
  <2>8. CASE MarkBroken(b)
    <3>1. UNCHANGED <<stored, sorted, up, pqdata, current>>
      BY <2>8 DEF MarkBroken
    <3>2. QED
      BY <3>1, QueuedSame
  <2>9. QED
    BY <1>9, <2>1, <2>2, <2>3, <2>4, <2>5, <2>6, <2>7, <2>8 DEF Break
<1>10. ASSUME NEW b \in Breakers, NEW i \in Instances, BeginBreak(b, i)
      PROVE  QueueAgrees'
  BY <1>10, QueuedSame DEF BeginBreak
<1>11. ASSUME NEW i \in Instances, MarkFixed(i)
      PROVE  QueueAgrees'
  BY <1>11, QueuedSame DEF MarkFixed
<1>12. QED
  BY <1>1, <1>2, <1>3, <1>4, <1>5, <1>6, <1>7, <1>8, <1>9, <1>10, <1>11
     DEF Next, Begin

(* Whom the updater has picked waits in the queue until the updater itself *)
(* takes him out: nobody else touches the data of somebody who waits.      *)
LEMMA UpdaterStaysKnowing ==
  ASSUME ConstantsAssumption, UsersStay, TypeOK, FreshIsNowhere, RemovalOrder,
         DataAgree, QueueAgrees, UpdaterKnows, ConfirmersKnow, BreakersKnow,
         RemoversKnow, InstanceOnce, Next
  PROVE  UpdaterKnows'
<1> USE DEF TypeOK, KeyTypes, LabTypes, UpdaterTypes, RemoverTypes,
            BreakerTypes, keys, lab, UpdaterKnows, TakesCare, Confirming,
            HeldFor, Active
<1>1. ASSUME NEW r \in Reservations, Reserve(r)
      PROVE  UpdaterKnows'
  <2>1. Queued' = Queued \cup {r}
    BY <1>1, QueuedWith DEF Reserve, Members
  <2>2. QED
    BY <1>1, <2>1 DEF Reserve, FreshIsNowhere, NoData
<1>2. ASSUME NEW u \in Updaters, Update(u)
      PROVE  UpdaterKnows'
  <2>0. \A v \in Updaters : v = u
    BY DEF UsersStay
  <2>1. CASE PickFirst(u)
    BY <2>1, <2>0, QueuedSame DEF PickFirst, Untried, UpdaterState,
                              QueueAgrees, Members
  <2>2. CASE NobodyWaiting(u)
    BY <2>2, <2>0, QueuedSame DEF NobodyWaiting, IdleUpdater, UpdaterState
  <2>3. CASE ListFreeInstances(u)
    BY <2>3, <2>0, QueuedSame DEF ListFreeInstances, IdleUpdater, UpdaterState
  <2>4. CASE TryInstance(u)
    BY <2>4, <2>0, QueuedSame DEF TryInstance, UpdaterState
  <2>5. CASE NoInstanceLeft(u)
    BY <2>5, <2>0, QueuedSame DEF NoInstanceLeft, NextRound, IdleUpdater,
                              UpdaterState
  <2>6. CASE CheckExists(u)
    BY <2>6, <2>0, QueuedSame DEF CheckExists, IdleUpdater, UpdaterState
  <2>7. CASE SetCurrent(u)
    BY <2>7, <2>0, QueuedSame DEF SetCurrent, NextRound, IdleUpdater,
                              UpdaterState
  <2>8. CASE AcquireResource(u)
    BY <2>8, <2>0, QueuedSame DEF AcquireResource, UpdaterState
  <2>9. CASE Unconfirm(u)
    BY <2>9, <2>0, QueuedSame DEF Unconfirm, UpdaterState
  <2>10. CASE AssignInstance(u)
    BY <2>10, <2>0, QueuedSame DEF AssignInstance, UpdaterState
  <2>11. CASE ReadReservation(u)
    <3>1. up[u].r \in stored /\ pqdata[up[u].r].active = "waiting"
      BY <2>11, <2>0 DEF ReadReservation, DataAgree
    <3>2. up'[u].pc \in {"set", "unsuitable"}
      BY <2>11, <2>0, <3>1 DEF ReadReservation, UpdaterState
    <3>3. up'[u].r = up[u].r /\ up'[u].i = up[u].i /\ up[u].pc = "read"
      BY <2>11, <2>0 DEF ReadReservation, UpdaterState
    <3>4. Queued' = Queued /\ UNCHANGED <<slots, current, pqdata>>
      BY <2>11, <2>0, QueuedSame DEF ReadReservation
    <3>5. QED
      BY <2>11, <2>0, <3>2, <3>3, <3>4
  <2>12. CASE DowngradeUnsuitable(u)
    BY <2>12, <2>0, QueuedSame DEF DowngradeUnsuitable, UpdaterState
  <2>13. CASE ReleaseAcquired(u)
    BY <2>13, <2>0, QueuedSame DEF ReleaseAcquired, UpdaterState
  <2>14. CASE Unassign(u)
    BY <2>14, <2>0, QueuedSame DEF Unassign, NextRound, IdleUpdater,
                               UpdaterState
  <2>15. CASE SetWaitingConfirmation(u)
    BY <2>15, <2>0, QueuedSame DEF SetWaitingConfirmation, UpdaterState, Data,
                               DataAgree
  <2>16. CASE DequeueAndConfirm(u)
    <3>1. Queued' = Queued \ {up[u].r}
      BY <2>16, <2>0, QueuedWithout
         DEF DequeueAndConfirm, MemberOf, DataAgree, UpdaterKnows, TakesCare,
            Members
    <3>2. QED
      BY <2>16, <2>0, <3>1 DEF DequeueAndConfirm, NextRound, IdleUpdater,
         UpdaterState
  <2>17. QED
    BY <1>2, <2>1, <2>2, <2>3, <2>4, <2>5, <2>6, <2>7, <2>8, <2>9, <2>10,
            <2>11, <2>12, <2>13, <2>14, <2>15, <2>16 DEF Update
<1>3. ASSUME NEW t \in confirms, Confirm(t)
      PROVE  UpdaterKnows'
  <2>1. CASE ReserveInLab(t)
    <3>1. UNCHANGED <<up, slots, sorted, pqdata, current>>
      BY <2>1 DEF ReserveInLab
    <3>2. QED
      BY <3>1, QueuedSame
  <2>2. CASE PutInitial(t)
    <3>1. UNCHANGED <<up, slots, sorted, pqdata, current>>
      BY <2>2 DEF PutInitial
    <3>2. QED
      BY <3>1, QueuedSame
  <2>3. CASE ReadToConfirm(t)
    <3>1. UNCHANGED <<up, slots, sorted, pqdata, current>>
      BY <2>3 DEF ReadToConfirm
    <3>2. QED
      BY <3>1, QueuedSame
  <2>4. CASE WriteReserved(t)
    BY <2>4, QueuedSame DEF WriteReserved, End, UpdaterState, ConfirmersKnow,
                        ConfirmTask, Data
  <2>5. QED
    BY <1>3, <2>1, <2>2, <2>3, <2>4 DEF Confirm
<1>4. ASSUME NEW t \in confirms, NEW b \in Breakers, LabFailsToReserve(t, b)
      PROVE  UpdaterKnows'
  BY <1>4, QueuedSame DEF LabFailsToReserve, End
<1>5. ASSUME NEW c \in Removers, NEW r \in Reservations,
             \/ BeginFinish(c, r) \/ BeginExpire(c, r)
             \/ BeginDrop(c, r) \/ BeginPoll(c, r)
      PROVE  UpdaterKnows'
  <2>1. UNCHANGED <<up, slots, sorted, pqdata, current>>
    BY <1>5 DEF BeginFinish, IdleRemover, BeginExpire, BeginDrop, BeginPoll
  <2>2. QED
    BY <2>1, QueuedSame
<1>6. ASSUME NEW c \in Removers, Remove(c)
      PROVE  UpdaterKnows'
  <2>1. CASE FindAggregator(c)
    <3>1. UNCHANGED <<up, slots, sorted, pqdata, current>>
      BY <2>1 DEF FindAggregator
    <3>2. QED
      BY <3>1, QueuedSame
  <2>2. CASE ReadActive(c)
    <3>1. UNCHANGED <<up, slots, sorted, pqdata, current>>
      BY <2>2 DEF ReadActive
    <3>2. QED
      BY <3>1, QueuedSame
  <2>3. CASE Touch(c)
    <3>1. UNCHANGED <<up, slots, sorted, pqdata, current>>
      BY <2>3 DEF Touch
    <3>2. QED
      BY <3>1, QueuedSame
  <2>4. CASE ReadToClean(c)
    <3>1. UNCHANGED <<up, slots, sorted, pqdata, current>>
      BY <2>4 DEF ReadToClean
    <3>2. QED
      BY <3>1, QueuedSame
  <2>5. CASE DowngradeConfirmation(c)
    BY <2>5, QueuedSame, SMTT(30)
       DEF DowngradeConfirmation, UpdaterState, RemoversKnow,
                        Removing, RemovalOrder
  <2>6. CASE UnassignCleaned(c)
    <3>1. UNCHANGED <<up, slots, sorted, pqdata, current>>
      BY <2>6 DEF UnassignCleaned
    <3>2. QED
      BY <3>1, QueuedSame
  <2>7. CASE DeleteReservation(c)
    BY <2>7, QueuedSame DEF DeleteReservation, Goto, UpdaterState,
                        RemoversKnow, Removing, NoData, DataAgree
  <2>8. CASE Unmap(c)
    <3>1. Queued' = Queued \/ Queued' = Queued \ {NoneMember}
      BY <2>8, QueuedWithout, QueuedSame DEF Unmap, Members
    <3>2. NoneMember \notin Reservations
      BY DEF NoneMember, Reservations
    <3>3. QED
      BY <2>8, <3>1, <3>2 DEF Unmap, AfterDequeue, IdleRemover, RemoverState
  <2>9. CASE Dequeue(c)
    <3>1. rm[c].r \in Reservations /\ Queued' = Queued \ {rm[c].r}
      BY <2>9, QueuedWithout DEF Dequeue, Members
    <3>2. QED
      BY <2>9, <3>1 DEF Dequeue, AfterDequeue, IdleRemover, RemoversKnow,
         Removing, DataAgree
  <2>10. CASE Purge(c)
    BY <2>10, QueuedSame DEF Purge, Goto, UpdaterState, RemoversKnow, Removing,
                         DataAgree
  <2>11. CASE EnqueueFree(c)
    BY <2>11, QueuedSame DEF EnqueueFree, IdleRemover, UpdaterState
  <2>12. CASE ClearFinishing(c)
    <3>1. UNCHANGED <<up, slots, sorted, pqdata, current>>
      BY <2>12 DEF ClearFinishing
    <3>2. QED
      BY <3>1, QueuedSame
  <2>13. QED
    BY <1>6, <2>1, <2>2, <2>3, <2>4, <2>5, <2>6, <2>7, <2>8, <2>9, <2>10,
            <2>11, <2>12 DEF Remove
<1>7. ASSUME NEW t \in frees, Free(t)
      PROVE  UpdaterKnows'
  <2>1. CASE FreeInLab(t)
    <3>1. UNCHANGED <<up, slots, sorted, pqdata, current>>
      BY <2>1 DEF FreeInLab
    <3>2. QED
      BY <3>1, QueuedSame
  <2>2. CASE ConfirmDisposal(t)
    BY <2>2, QueuedSame DEF ConfirmDisposal, UpdaterState
  <2>3. QED
    BY <1>7, <2>1, <2>2 DEF Free
<1>8. ASSUME NEW t \in frees, NEW b \in Breakers, LabFailsToFree(t, b)
      PROVE  UpdaterKnows'
  BY <1>8, QueuedSame DEF LabFailsToFree
<1>9. ASSUME NEW b \in Breakers, Break(b)
      PROVE  UpdaterKnows'
  <2>1. CASE FindCurrent(b)
    <3>1. UNCHANGED <<up, slots, sorted, pqdata, current>>
      BY <2>1 DEF FindCurrent
    <3>2. QED
      BY <3>1, QueuedSame
  <2>2. CASE RemoveCurrent(b)
    <3>1. UNCHANGED <<up, slots, sorted, pqdata, current>>
      BY <2>2 DEF RemoveCurrent
    <3>2. QED
      BY <3>1, QueuedSame
  <2>3. CASE DowngradeCurrent(b)
    BY <2>3, QueuedSame DEF DowngradeCurrent, BreakerGoto, UpdaterState,
                        BreakersKnow
  <2>4. CASE ReleaseBroken(b)
    BY <2>4, QueuedSame DEF ReleaseBroken, BreakerGoto, UpdaterState
  <2>5. CASE ReadBroken(b)
    <3>1. UNCHANGED <<up, slots, sorted, pqdata, current>>
      BY <2>5 DEF ReadBroken
    <3>2. QED
      BY <3>1, QueuedSame
  <2>6. CASE WriteWaiting(b)
    BY <2>6, QueuedSame DEF WriteWaiting, BreakerGoto, UpdaterState,
                        BreakersKnow, Data, BreakerState
  <2>7. CASE Requeue(b)
    <3>1. br[b].r \in Reservations /\ Queued' = Queued \cup {br[b].r}
      BY <2>7, QueuedWith, SMTT(30)
         DEF Requeue, MemberOf, DataAgree, BreakersKnow,
         Members, Requeued
    <3>2. QED
      BY <2>7, <3>1 DEF Requeue, IdleBreaker, BreakersKnow, BreakerState
  <2>8. CASE MarkBroken(b)
    <3>1. UNCHANGED <<up, slots, sorted, pqdata, current>>
      BY <2>8 DEF MarkBroken
    <3>2. QED
      BY <3>1, QueuedSame
  <2>9. QED
    BY <1>9, <2>1, <2>2, <2>3, <2>4, <2>5, <2>6, <2>7, <2>8 DEF Break
<1>10. ASSUME NEW b \in Breakers, NEW i \in Instances, BeginBreak(b, i)
      PROVE  UpdaterKnows'
  BY <1>10, QueuedSame DEF BeginBreak
<1>11. ASSUME NEW i \in Instances, MarkFixed(i)
      PROVE  UpdaterKnows'
  BY <1>11, QueuedSame DEF MarkFixed
<1>12. QED
  BY <1>1, <1>2, <1>3, <1>4, <1>5, <1>6, <1>7, <1>8, <1>9, <1>10, <1>11
     DEF Next, Begin

(* A confirming thread is started for whom the updater has just promoted,  *)
(* and until it has done nobody else writes the data it confirms.          *)
LEMMA ConfirmersStayKnowing ==
  ASSUME ConstantsAssumption, UsersStay, TypeOK, FreshIsNowhere, RemovalOrder,
         DataAgree, QueueAgrees, UpdaterKnows, ConfirmersKnow, BreakersKnow,
         RemoversKnow, OneBreaks, Next
  PROVE  ConfirmersKnow'
<1> USE DEF TypeOK, KeyTypes, LabTypes, UpdaterTypes, RemoverTypes,
            BreakerTypes, keys, lab, ConfirmersKnow, HeldFor, Active
<1>1. ASSUME NEW r \in Reservations, Reserve(r)
      PROVE  ConfirmersKnow'
  <2>1. Queued' = Queued \cup {r}
    BY <1>1, QueuedWith DEF Reserve, Members
  <2>2. QED
    BY <1>1, <2>1 DEF Reserve, FreshIsNowhere, NoData
<1>2. ASSUME NEW u \in Updaters, Update(u)
      PROVE  ConfirmersKnow'
  <2>1. CASE PickFirst(u)
    <3>1. UNCHANGED <<confirms, sorted, pqdata, current>>
      BY <2>1 DEF PickFirst
    <3>2. QED
      BY <3>1, QueuedSame
  <2>2. CASE NobodyWaiting(u)
    <3>1. UNCHANGED <<confirms, sorted, pqdata, current>>
      BY <2>2 DEF NobodyWaiting
    <3>2. QED
      BY <3>1, QueuedSame
  <2>3. CASE ListFreeInstances(u)
    <3>1. UNCHANGED <<confirms, sorted, pqdata, current>>
      BY <2>3 DEF ListFreeInstances
    <3>2. QED
      BY <3>1, QueuedSame
  <2>4. CASE TryInstance(u)
    <3>1. UNCHANGED <<confirms, sorted, pqdata, current>>
      BY <2>4 DEF TryInstance
    <3>2. QED
      BY <3>1, QueuedSame
  <2>5. CASE NoInstanceLeft(u)
    <3>1. UNCHANGED <<confirms, sorted, pqdata, current>>
      BY <2>5 DEF NoInstanceLeft
    <3>2. QED
      BY <3>1, QueuedSame
  <2>6. CASE CheckExists(u)
    <3>1. UNCHANGED <<confirms, sorted, pqdata, current>>
      BY <2>6 DEF CheckExists
    <3>2. QED
      BY <3>1, QueuedSame
  <2>7. CASE SetCurrent(u)
    BY <2>7, QueuedSame DEF SetCurrent, NextRound, IdleUpdater, ConfirmTask
  <2>8. CASE AcquireResource(u)
    <3>1. UNCHANGED <<confirms, sorted, pqdata, current>>
      BY <2>8 DEF AcquireResource
    <3>2. QED
      BY <3>1, QueuedSame
  <2>9. CASE Unconfirm(u)
    BY <2>9, QueuedSame DEF Unconfirm, ConfirmTask, UpdaterKnows, TakesCare,
                        Confirming
  <2>10. CASE AssignInstance(u)
    <3>1. UNCHANGED <<confirms, sorted, pqdata, current>>
      BY <2>10 DEF AssignInstance
    <3>2. QED
      BY <3>1, QueuedSame
  <2>11. CASE ReadReservation(u)
    <3>1. UNCHANGED <<confirms, sorted, pqdata, current>>
      BY <2>11 DEF ReadReservation
    <3>2. QED
      BY <3>1, QueuedSame
  <2>12. CASE DowngradeUnsuitable(u)
    BY <2>12, QueuedSame DEF DowngradeUnsuitable, ConfirmTask, UpdaterKnows,
                         TakesCare, Confirming
  <2>13. CASE ReleaseAcquired(u)
    <3>1. UNCHANGED <<confirms, sorted, pqdata, current>>
      BY <2>13 DEF ReleaseAcquired
    <3>2. QED
      BY <3>1, QueuedSame
  <2>14. CASE Unassign(u)
    <3>1. UNCHANGED <<confirms, sorted, pqdata, current>>
      BY <2>14 DEF Unassign
    <3>2. QED
      BY <3>1, QueuedSame
  <2>15. CASE SetWaitingConfirmation(u)
    BY <2>15, QueuedSame DEF SetWaitingConfirmation, ConfirmTask, UpdaterKnows,
                         TakesCare, UpdaterState, Data, DataAgree
  <2>16. CASE DequeueAndConfirm(u)
    <3>1. Queued' = Queued \ {up[u].r}
      BY <2>16, QueuedWithout
         DEF DequeueAndConfirm, MemberOf, DataAgree, UpdaterKnows, TakesCare,
            Members
    <3>2. QED
      BY <2>16, <3>1 DEF DequeueAndConfirm, NextRound, IdleUpdater,
         UpdaterKnows, TakesCare
  <2>17. QED
    BY <1>2, <2>1, <2>2, <2>3, <2>4, <2>5, <2>6, <2>7, <2>8, <2>9, <2>10,
            <2>11, <2>12, <2>13, <2>14, <2>15, <2>16 DEF Update
<1>3. ASSUME NEW t \in confirms, Confirm(t)
      PROVE  ConfirmersKnow'
  <2>1. CASE ReserveInLab(t)
    <3> DEFINE s == [t EXCEPT !.pc = "confirm"]
    <3>1. s.r = t.r /\ s.i = t.i /\ s.pc = "confirm"
      BY DEF ConfirmTask
    <3>2. confirms' \subseteq (confirms \ {t}) \cup {s}
      BY <2>1 DEF ReserveInLab, Step
    <3> HIDE DEF s
    <3>3. QED
      BY <2>1, <3>1, <3>2, QueuedSame DEF ReserveInLab
  <2>2. CASE PutInitial(t)
    <3> DEFINE s == [t EXCEPT !.pc = "read"]
    <3>1. s.r = t.r /\ s.i = t.i /\ s.pc = "read"
      BY DEF ConfirmTask
    <3>2. confirms' \subseteq (confirms \ {t}) \cup {s}
      BY <2>2 DEF PutInitial, Step, End
    <3> HIDE DEF s
    <3>3. QED
      BY <2>2, <3>1, <3>2, QueuedSame DEF PutInitial
  <2>3. CASE ReadToConfirm(t)
    <3> DEFINE s == [t EXCEPT !.pc = "write", !.data = pqdata[t.r]]
    <3>1. s.r = t.r /\ s.i = t.i /\ s.pc = "write" /\ s.data = pqdata[t.r]
      BY DEF ConfirmTask
    <3>2. confirms' \subseteq (confirms \ {t}) \cup {s}
      BY <2>3 DEF ReadToConfirm, End
    <3> HIDE DEF s
    <3>3. QED
      BY <2>3, <3>1, <3>2, QueuedSame DEF ReadToConfirm
  <2>4. CASE WriteReserved(t)
    BY <2>4, QueuedSame DEF WriteReserved, End, ConfirmTask
  <2>5. QED
    BY <1>3, <2>1, <2>2, <2>3, <2>4 DEF Confirm
<1>4. ASSUME NEW t \in confirms, NEW b \in Breakers, LabFailsToReserve(t, b)
      PROVE  ConfirmersKnow'
  BY <1>4, QueuedSame DEF LabFailsToReserve, End, ConfirmTask
<1>5. ASSUME NEW c \in Removers, NEW r \in Reservations,
             \/ BeginFinish(c, r) \/ BeginExpire(c, r)
             \/ BeginDrop(c, r) \/ BeginPoll(c, r)
      PROVE  ConfirmersKnow'
  <2>1. UNCHANGED <<confirms, sorted, pqdata, current>>
    BY <1>5 DEF BeginFinish, IdleRemover, BeginExpire, BeginDrop, BeginPoll
  <2>2. QED
    BY <2>1, QueuedSame
<1>6. ASSUME NEW c \in Removers, Remove(c)
      PROVE  ConfirmersKnow'
  <2>1. CASE FindAggregator(c)
    <3>1. UNCHANGED <<confirms, sorted, pqdata, current>>
      BY <2>1 DEF FindAggregator
    <3>2. QED
      BY <3>1, QueuedSame
  <2>2. CASE ReadActive(c)
    <3>1. UNCHANGED <<confirms, sorted, pqdata, current>>
      BY <2>2 DEF ReadActive
    <3>2. QED
      BY <3>1, QueuedSame
  <2>3. CASE Touch(c)
    <3>1. UNCHANGED <<confirms, sorted, pqdata, current>>
      BY <2>3 DEF Touch
    <3>2. QED
      BY <3>1, QueuedSame
  <2>4. CASE ReadToClean(c)
    <3>1. UNCHANGED <<confirms, sorted, pqdata, current>>
      BY <2>4 DEF ReadToClean
    <3>2. QED
      BY <3>1, QueuedSame
  <2>5. CASE DowngradeConfirmation(c)
    BY <2>5, QueuedSame DEF DowngradeConfirmation, ConfirmTask, RemoversKnow,
                        Removing, RemovalOrder
  <2>6. CASE UnassignCleaned(c)
    <3>1. UNCHANGED <<confirms, sorted, pqdata, current>>
      BY <2>6 DEF UnassignCleaned
    <3>2. QED
      BY <3>1, QueuedSame
  <2>7. CASE DeleteReservation(c)
    BY <2>7, QueuedSame DEF DeleteReservation, Goto, ConfirmTask, RemoversKnow,
                        Removing, NoData, DataAgree
  <2>8. CASE Unmap(c)
    <3>1. Queued' = Queued \/ Queued' = Queued \ {NoneMember}
      BY <2>8, QueuedWithout, QueuedSame DEF Unmap, Members
    <3>2. NoneMember \notin Reservations
      BY DEF NoneMember, Reservations
    <3>3. QED
      BY <2>8, <3>1, <3>2 DEF Unmap, AfterDequeue, IdleRemover
  <2>9. CASE Dequeue(c)
    <3>1. rm[c].r \in Reservations /\ Queued' = Queued \ {rm[c].r}
      BY <2>9, QueuedWithout DEF Dequeue, Members
    <3>2. QED
      BY <2>9, <3>1 DEF Dequeue, AfterDequeue, IdleRemover
  <2>10. CASE Purge(c)
    BY <2>10, QueuedSame DEF Purge, Goto, ConfirmTask, RemoversKnow, Removing,
                         DataAgree
  <2>11. CASE EnqueueFree(c)
    <3>1. UNCHANGED <<confirms, sorted, pqdata, current>>
      BY <2>11 DEF EnqueueFree
    <3>2. QED
      BY <3>1, QueuedSame
  <2>12. CASE ClearFinishing(c)
    <3>1. UNCHANGED <<confirms, sorted, pqdata, current>>
      BY <2>12 DEF ClearFinishing
    <3>2. QED
      BY <3>1, QueuedSame
  <2>13. QED
    BY <1>6, <2>1, <2>2, <2>3, <2>4, <2>5, <2>6, <2>7, <2>8, <2>9, <2>10,
            <2>11, <2>12 DEF Remove
<1>7. ASSUME NEW t \in frees, Free(t)
      PROVE  ConfirmersKnow'
  <2>1. UNCHANGED <<confirms, sorted, pqdata, current>>
    BY <1>7 DEF Free, FreeInLab, ConfirmDisposal
  <2>2. QED
    BY <2>1, QueuedSame
<1>8. ASSUME NEW t \in frees, NEW b \in Breakers, LabFailsToFree(t, b)
      PROVE  ConfirmersKnow'
  BY <1>8, QueuedSame DEF LabFailsToFree
<1>9. ASSUME NEW b \in Breakers, Break(b)
      PROVE  ConfirmersKnow'
  <2>1. CASE FindCurrent(b)
    <3>1. UNCHANGED <<confirms, sorted, pqdata, current>>
      BY <2>1 DEF FindCurrent
    <3>2. QED
      BY <3>1, QueuedSame
  <2>2. CASE RemoveCurrent(b)
    <3>1. UNCHANGED <<confirms, sorted, pqdata, current>>
      BY <2>2 DEF RemoveCurrent
    <3>2. QED
      BY <3>1, QueuedSame
  <2>3. CASE DowngradeCurrent(b)
    BY <2>3, QueuedSame DEF DowngradeCurrent, BreakerGoto, ConfirmTask,
                        BreakersKnow, BreaksAt, OneBreaks
  <2>4. CASE ReleaseBroken(b)
    <3>1. UNCHANGED <<confirms, sorted, pqdata, current>>
      BY <2>4 DEF ReleaseBroken
    <3>2. QED
      BY <3>1, QueuedSame
  <2>5. CASE ReadBroken(b)
    <3>1. UNCHANGED <<confirms, sorted, pqdata, current>>
      BY <2>5 DEF ReadBroken
    <3>2. QED
      BY <3>1, QueuedSame
  <2>6. CASE WriteWaiting(b)
    BY <2>6, QueuedSame DEF WriteWaiting, BreakerGoto, ConfirmTask,
                        BreakersKnow, Data, BreakerState
  <2>7. CASE Requeue(b)
    <3>1. br[b].r \in Reservations /\ Queued' = Queued \cup {br[b].r}
      BY <2>7, QueuedWith DEF Requeue, MemberOf, DataAgree, BreakersKnow,
         Members, Requeued
    <3>2. QED
      BY <2>7, <3>1 DEF Requeue, IdleBreaker, BreakersKnow
  <2>8. CASE MarkBroken(b)
    <3>1. UNCHANGED <<confirms, sorted, pqdata, current>>
      BY <2>8 DEF MarkBroken
    <3>2. QED
      BY <3>1, QueuedSame
  <2>9. QED
    BY <1>9, <2>1, <2>2, <2>3, <2>4, <2>5, <2>6, <2>7, <2>8 DEF Break
<1>10. ASSUME NEW b \in Breakers, NEW i \in Instances, BeginBreak(b, i)
      PROVE  ConfirmersKnow'
  BY <1>10, QueuedSame DEF BeginBreak
<1>11. ASSUME NEW i \in Instances, MarkFixed(i)
      PROVE  ConfirmersKnow'
  BY <1>11, QueuedSame, SMTT(30) DEF MarkFixed
<1>12. QED
  BY <1>1, <1>2, <1>3, <1>4, <1>5, <1>6, <1>7, <1>8, <1>9, <1>10, <1>11
     DEF Next, Begin

(* A removal begins when the reservation is in, and finds it in or gone;   *)
(* the first to delete CURRENT has read the instance that it has.          *)
LEMMA RemoversStayKnowing ==
  ASSUME ConstantsAssumption, UsersStay, TypeOK, FreshIsNowhere, RemovalOrder,
         DataAgree, QueueAgrees, UpdaterKnows, ConfirmersKnow, BreakersKnow,
         RemoversKnow, Next
  PROVE  RemoversKnow'
<1> USE DEF TypeOK, KeyTypes, LabTypes, UpdaterTypes, RemoverTypes,
            BreakerTypes, keys, lab, RemoversKnow, Removing
<1>1. ASSUME NEW r \in Reservations, Reserve(r)
      PROVE  RemoversKnow'
  BY <1>1, SMTT(30) DEF Reserve, RemoverState, FreshIsNowhere, NoData
<1>2. ASSUME NEW u \in Updaters, Update(u)
      PROVE  RemoversKnow'
  <2>1. CASE PickFirst(u)
    <3>1. UNCHANGED <<rm, stored, pqdata, current>>
      BY <2>1 DEF PickFirst
    <3>2. QED
      BY <3>1
  <2>2. CASE NobodyWaiting(u)
    <3>1. UNCHANGED <<rm, stored, pqdata, current>>
      BY <2>2 DEF NobodyWaiting
    <3>2. QED
      BY <3>1
  <2>3. CASE ListFreeInstances(u)
    <3>1. UNCHANGED <<rm, stored, pqdata, current>>
      BY <2>3 DEF ListFreeInstances
    <3>2. QED
      BY <3>1
  <2>4. CASE TryInstance(u)
    <3>1. UNCHANGED <<rm, stored, pqdata, current>>
      BY <2>4 DEF TryInstance
    <3>2. QED
      BY <3>1
  <2>5. CASE NoInstanceLeft(u)
    <3>1. UNCHANGED <<rm, stored, pqdata, current>>
      BY <2>5 DEF NoInstanceLeft
    <3>2. QED
      BY <3>1
  <2>6. CASE CheckExists(u)
    <3>1. UNCHANGED <<rm, stored, pqdata, current>>
      BY <2>6 DEF CheckExists
    <3>2. QED
      BY <3>1
  <2>7. CASE SetCurrent(u)
    BY <2>7 DEF SetCurrent, NextRound, IdleUpdater, RemoverState, UpdaterKnows,
            TakesCare, Confirming
  <2>8. CASE AcquireResource(u)
    <3>1. UNCHANGED <<rm, stored, pqdata, current>>
      BY <2>8 DEF AcquireResource
    <3>2. QED
      BY <3>1
  <2>9. CASE Unconfirm(u)
    BY <2>9 DEF Unconfirm, RemoverState
  <2>10. CASE AssignInstance(u)
    <3>1. UNCHANGED <<rm, stored, pqdata, current>>
      BY <2>10 DEF AssignInstance
    <3>2. QED
      BY <3>1
  <2>11. CASE ReadReservation(u)
    <3>1. UNCHANGED <<rm, stored, pqdata, current>>
      BY <2>11 DEF ReadReservation
    <3>2. QED
      BY <3>1
  <2>12. CASE DowngradeUnsuitable(u)
    BY <2>12 DEF DowngradeUnsuitable, RemoverState
  <2>13. CASE ReleaseAcquired(u)
    <3>1. UNCHANGED <<rm, stored, pqdata, current>>
      BY <2>13 DEF ReleaseAcquired
    <3>2. QED
      BY <3>1
  <2>14. CASE Unassign(u)
    <3>1. UNCHANGED <<rm, stored, pqdata, current>>
      BY <2>14 DEF Unassign
    <3>2. QED
      BY <3>1
  <2>15. CASE SetWaitingConfirmation(u)
    BY <2>15 DEF SetWaitingConfirmation, RemoverState, UpdaterKnows, TakesCare,
             UpdaterState, Data, DataAgree
  <2>16. CASE DequeueAndConfirm(u)
    <3>1. UNCHANGED <<rm, stored, pqdata, current>>
      BY <2>16 DEF DequeueAndConfirm
    <3>2. QED
      BY <3>1
  <2>17. QED
    BY <1>2, <2>1, <2>2, <2>3, <2>4, <2>5, <2>6, <2>7, <2>8, <2>9, <2>10,
            <2>11, <2>12, <2>13, <2>14, <2>15, <2>16 DEF Update
<1>3. ASSUME NEW t \in confirms, Confirm(t)
      PROVE  RemoversKnow'
  <2>1. CASE ReserveInLab(t)
    <3>1. UNCHANGED <<rm, stored, pqdata, current>>
      BY <2>1 DEF ReserveInLab
    <3>2. QED
      BY <3>1
  <2>2. CASE PutInitial(t)
    <3>1. UNCHANGED <<rm, stored, pqdata, current>>
      BY <2>2 DEF PutInitial
    <3>2. QED
      BY <3>1
  <2>3. CASE ReadToConfirm(t)
    <3>1. UNCHANGED <<rm, stored, pqdata, current>>
      BY <2>3 DEF ReadToConfirm
    <3>2. QED
      BY <3>1
  <2>4. CASE WriteReserved(t)
    BY <2>4 DEF WriteReserved, End, RemoverState, ConfirmersKnow, ConfirmTask,
            Data
  <2>5. QED
    BY <1>3, <2>1, <2>2, <2>3, <2>4 DEF Confirm
<1>4. ASSUME NEW t \in confirms, NEW b \in Breakers, LabFailsToReserve(t, b)
      PROVE  RemoversKnow'
  BY <1>4 DEF LabFailsToReserve, End
<1>5. ASSUME NEW c \in Removers, NEW r \in Reservations,
             \/ BeginFinish(c, r) \/ BeginExpire(c, r)
             \/ BeginDrop(c, r) \/ BeginPoll(c, r)
      PROVE  RemoversKnow'
  <2>1. CASE BeginFinish(c, r)
    BY <2>1 DEF BeginFinish, IdleRemover, RemoverState, UsersStay
  <2>2. CASE BeginExpire(c, r)
    BY <2>2 DEF BeginExpire, IdleRemover, RemoverState, UsersStay
  <2>3. CASE BeginDrop(c, r)
    BY <2>3 DEF BeginDrop, IdleRemover, RemoverState, UsersStay
  <2>4. CASE BeginPoll(c, r)
    BY <2>4, SMTT(30) DEF BeginPoll, IdleRemover, RemoverState
  <2>5. QED
    BY <1>5, <2>1, <2>2, <2>3, <2>4
<1>6. ASSUME NEW c \in Removers, Remove(c)
      PROVE  RemoversKnow'
  <2>1. CASE FindAggregator(c)
    BY <2>1, SMTT(30) DEF FindAggregator, Goto, RemoverState, DataAgree
  <2>2. CASE ReadActive(c)
    BY <2>2 DEF ReadActive, IdleRemover, RemoverState, DataAgree, Data
  <2>3. CASE Touch(c)
    BY <2>3, SMTT(30) DEF Touch, IdleRemover, RemoverState, RemovalOrder
  <2>4. CASE ReadToClean(c)
    BY <2>4 DEF ReadToClean, RemoverState, DataAgree
  <2>5. CASE DowngradeConfirmation(c)
    <3>1. Removing(c) /\ rm[c].data.session
      BY <2>5 DEF DowngradeConfirmation, RemovalOrder, RemoverState
    <3>2. \A d \in Removers : d # c => rm'[d] = rm[d]
      BY <2>5 DEF DowngradeConfirmation
    <3>3. /\ rm'[c].op = rm[c].op /\ rm'[c].r = rm[c].r /\ rm'[c].data = rm[c].data
          /\ rm'[c].pc \in {"unassign", "delete"}
      BY <2>5 DEF DowngradeConfirmation, RemoverState
    <3>4. current' = current \ {rm[c].r} /\ UNCHANGED <<stored, pqdata>>
      BY <2>5 DEF DowngradeConfirmation
    <3>5. QED
      BY <3>1, <3>2, <3>3, <3>4
  <2>6. CASE UnassignCleaned(c)
    BY <2>6 DEF UnassignCleaned, Goto, RemoverState
  <2>7. CASE DeleteReservation(c)
    BY <2>7 DEF DeleteReservation, Goto, RemoverState, NoData, DataAgree
  <2>8. CASE Unmap(c)
    BY <2>8 DEF Unmap, AfterDequeue, IdleRemover, RemoverState
  <2>9. CASE Dequeue(c)
    BY <2>9 DEF Dequeue, AfterDequeue, IdleRemover, RemoverState
  <2>10. CASE Purge(c)
    BY <2>10 DEF Purge, Goto, RemoverState
  <2>11. CASE EnqueueFree(c)
    BY <2>11 DEF EnqueueFree, IdleRemover, RemoverState, RemovalOrder
  <2>12. CASE ClearFinishing(c)
    BY <2>12 DEF ClearFinishing, IdleRemover, RemoverState
  <2>13. QED
    BY <1>6, <2>1, <2>2, <2>3, <2>4, <2>5, <2>6, <2>7, <2>8, <2>9, <2>10,
            <2>11, <2>12 DEF Remove
<1>7. ASSUME NEW t \in frees, Free(t)
      PROVE  RemoversKnow'
  <2>1. UNCHANGED <<rm, stored, pqdata, current>>
    BY <1>7 DEF Free, FreeInLab, ConfirmDisposal
  <2>2. QED
    BY <2>1
<1>8. ASSUME NEW t \in frees, NEW b \in Breakers, LabFailsToFree(t, b)
      PROVE  RemoversKnow'
  BY <1>8, SMTT(30) DEF LabFailsToFree
<1>9. ASSUME NEW b \in Breakers, Break(b)
      PROVE  RemoversKnow'
  <2>1. CASE FindCurrent(b)
    <3>1. UNCHANGED <<rm, stored, pqdata, current>>
      BY <2>1 DEF FindCurrent
    <3>2. QED
      BY <3>1
  <2>2. CASE RemoveCurrent(b)
    <3>1. UNCHANGED <<rm, stored, pqdata, current>>
      BY <2>2 DEF RemoveCurrent
    <3>2. QED
      BY <3>1
  <2>3. CASE DowngradeCurrent(b)
    BY <2>3 DEF DowngradeCurrent, BreakerGoto, RemoverState
  <2>4. CASE ReleaseBroken(b)
    <3>1. UNCHANGED <<rm, stored, pqdata, current>>
      BY <2>4 DEF ReleaseBroken
    <3>2. QED
      BY <3>1
  <2>5. CASE ReadBroken(b)
    <3>1. UNCHANGED <<rm, stored, pqdata, current>>
      BY <2>5 DEF ReadBroken
    <3>2. QED
      BY <3>1
  <2>6. CASE WriteWaiting(b)
    BY <2>6 DEF WriteWaiting, BreakerGoto, RemoverState, BreakersKnow, Data,
            BreakerState
  <2>7. CASE Requeue(b)
    <3>1. UNCHANGED <<rm, stored, pqdata, current>>
      BY <2>7 DEF Requeue
    <3>2. QED
      BY <3>1
  <2>8. CASE MarkBroken(b)
    <3>1. UNCHANGED <<rm, stored, pqdata, current>>
      BY <2>8 DEF MarkBroken
    <3>2. QED
      BY <3>1
  <2>9. QED
    BY <1>9, <2>1, <2>2, <2>3, <2>4, <2>5, <2>6, <2>7, <2>8 DEF Break
<1>10. ASSUME NEW b \in Breakers, NEW i \in Instances, BeginBreak(b, i)
      PROVE  RemoversKnow'
  BY <1>10 DEF BeginBreak
<1>11. ASSUME NEW i \in Instances, MarkFixed(i)
      PROVE  RemoversKnow'
  BY <1>11 DEF MarkFixed
<1>12. QED
  BY <1>1, <1>2, <1>3, <1>4, <1>5, <1>6, <1>7, <1>8, <1>9, <1>10, <1>11
     DEF Next, Begin

(* In an instance that fails, who is assigned has it held for him.         *)
LEMMA AssignedIsHeld ==
  ASSUME UsersStay, TypeOK, UpdaterKnows, InstanceOnce, AssignedAgree,
         NEW b \in Breakers, NEW i \in Instances, BreaksAt(b, i),
         NEW r \in assigned[i]
  PROVE  HeldFor(r, i)
<1>1. \A u \in Updaters : ~UpdaterHolds(u, i) /\ i \notin slots
  BY DEF InstanceOnce
<1>2. \A c \in Removers : ~RemoverHolds(c, i)
  BY SMTT(30) DEF InstanceOnce
<1>3. QED
  BY <1>1, <1>2 DEF AssignedAgree, UpdaterHolds, UpdaterKnows

(* From the moment it takes the instance away until it puts the user back  *)
(* in the queue, the breaker is the only one to know of the reservation.   *)
LEMMA BreakersStayKnowing ==
  ASSUME ConstantsAssumption, UsersStay, TypeOK, FreshIsNowhere, RemovalOrder,
         DataAgree, QueueAgrees, UpdaterKnows, ConfirmersKnow, BreakersKnow,
         RemoversKnow, OneBreaks, InstanceOnce, AssignedAgree, Next
  PROVE  BreakersKnow'
<1> USE DEF TypeOK, KeyTypes, LabTypes, UpdaterTypes, RemoverTypes,
            BreakerTypes, keys, lab, BreakersKnow, HeldFor, Active
<1>1. ASSUME NEW r \in Reservations, Reserve(r)
      PROVE  BreakersKnow'
  <2>1. Queued' = Queued \cup {r}
    BY <1>1, QueuedWith, SMTT(30) DEF Reserve, Members
  <2>2. QED
    BY <1>1, <2>1 DEF Reserve, FreshIsNowhere, NoData
<1>2. ASSUME NEW u \in Updaters, Update(u)
      PROVE  BreakersKnow'
  <2>1. CASE PickFirst(u)
    <3>1. UNCHANGED <<br, confirms, sorted, pqdata, current, assigned>>
      BY <2>1 DEF PickFirst
    <3>2. QED
      BY <3>1, QueuedSame
  <2>2. CASE NobodyWaiting(u)
    <3>1. UNCHANGED <<br, confirms, sorted, pqdata, current, assigned>>
      BY <2>2 DEF NobodyWaiting
    <3>2. QED
      BY <3>1, QueuedSame
  <2>3. CASE ListFreeInstances(u)
    <3>1. UNCHANGED <<br, confirms, sorted, pqdata, current, assigned>>
      BY <2>3 DEF ListFreeInstances
    <3>2. QED
      BY <3>1, QueuedSame
  <2>4. CASE TryInstance(u)
    <3>1. UNCHANGED <<br, confirms, sorted, pqdata, current, assigned>>
      BY <2>4 DEF TryInstance
    <3>2. QED
      BY <3>1, QueuedSame
  <2>5. CASE NoInstanceLeft(u)
    <3>1. UNCHANGED <<br, confirms, sorted, pqdata, current, assigned>>
      BY <2>5 DEF NoInstanceLeft
    <3>2. QED
      BY <3>1, QueuedSame
  <2>6. CASE CheckExists(u)
    <3>1. UNCHANGED <<br, confirms, sorted, pqdata, current, assigned>>
      BY <2>6 DEF CheckExists
    <3>2. QED
      BY <3>1, QueuedSame
  <2>7. CASE SetCurrent(u)
    BY <2>7, QueuedSame DEF SetCurrent, NextRound, IdleUpdater, BreakerState,
                        ConfirmTask, UpdaterKnows, TakesCare, Confirming
  <2>8. CASE AcquireResource(u)
    <3>1. UNCHANGED <<br, confirms, sorted, pqdata, current, assigned>>
      BY <2>8 DEF AcquireResource
    <3>2. QED
      BY <3>1, QueuedSame
  <2>9. CASE Unconfirm(u)
    BY <2>9, QueuedSame DEF Unconfirm, BreakerState, ConfirmTask, UpdaterKnows,
                        TakesCare, Confirming
  <2>10. CASE AssignInstance(u)
    BY <2>10, QueuedSame DEF AssignInstance, BreakerState, ConfirmTask,
                         UpdaterKnows, TakesCare, Confirming
  <2>11. CASE ReadReservation(u)
    <3>1. UNCHANGED <<br, confirms, sorted, pqdata, current, assigned>>
      BY <2>11 DEF ReadReservation
    <3>2. QED
      BY <3>1, QueuedSame
  <2>12. CASE DowngradeUnsuitable(u)
    BY <2>12, QueuedSame DEF DowngradeUnsuitable, BreakerState, ConfirmTask,
                         UpdaterKnows, TakesCare, Confirming
  <2>13. CASE ReleaseAcquired(u)
    <3>1. UNCHANGED <<br, confirms, sorted, pqdata, current, assigned>>
      BY <2>13 DEF ReleaseAcquired
    <3>2. QED
      BY <3>1, QueuedSame
  <2>14. CASE Unassign(u)
    BY <2>14, QueuedSame DEF Unassign, NextRound, IdleUpdater, BreakerState,
                         ConfirmTask
  <2>15. CASE SetWaitingConfirmation(u)
    BY <2>15, QueuedSame, SMTT(30)
       DEF SetWaitingConfirmation, BreakerState, ConfirmTask,
                         UpdaterKnows, TakesCare, UpdaterState, Data, DataAgree
  <2>16. CASE DequeueAndConfirm(u)
    <3>1. Queued' = Queued \ {up[u].r}
      BY <2>16, QueuedWithout
         DEF DequeueAndConfirm, MemberOf, DataAgree, UpdaterKnows, TakesCare,
            Members
    <3>2. QED
      BY <2>16, <3>1 DEF DequeueAndConfirm, NextRound, IdleUpdater
  <2>17. QED
    BY <1>2, <2>1, <2>2, <2>3, <2>4, <2>5, <2>6, <2>7, <2>8, <2>9, <2>10,
            <2>11, <2>12, <2>13, <2>14, <2>15, <2>16 DEF Update
<1>3. ASSUME NEW t \in confirms, Confirm(t)
      PROVE  BreakersKnow'
  <2>1. CASE ReserveInLab(t)
    BY <2>1, QueuedSame DEF ReserveInLab, Step, BreakerState, ConfirmTask
  <2>2. CASE PutInitial(t)
    BY <2>2, QueuedSame DEF PutInitial, Step, End, BreakerState, ConfirmTask
  <2>3. CASE ReadToConfirm(t)
    BY <2>3, QueuedSame DEF ReadToConfirm, End, BreakerState, ConfirmTask
  <2>4. CASE WriteReserved(t)
    BY <2>4, QueuedSame DEF WriteReserved, End, BreakerState, ConfirmTask,
                        ConfirmersKnow, OneBreaks, BreaksAt
  <2>5. QED
    BY <1>3, <2>1, <2>2, <2>3, <2>4 DEF Confirm
<1>4. ASSUME NEW t \in confirms, NEW b \in Breakers, LabFailsToReserve(t, b)
      PROVE  BreakersKnow'
  BY <1>4, QueuedSame DEF LabFailsToReserve, End, BreakerState, ConfirmTask
<1>5. ASSUME NEW c \in Removers, NEW r \in Reservations,
             \/ BeginFinish(c, r) \/ BeginExpire(c, r)
             \/ BeginDrop(c, r) \/ BeginPoll(c, r)
      PROVE  BreakersKnow'
  <2>1. UNCHANGED <<br, confirms, sorted, pqdata, current, assigned>>
    BY <1>5, SMTT(30)
       DEF BeginFinish, IdleRemover, BeginExpire, BeginDrop, BeginPoll
  <2>2. QED
    BY <2>1, QueuedSame
<1>6. ASSUME NEW c \in Removers, Remove(c)
      PROVE  BreakersKnow'
  <2>1. CASE FindAggregator(c)
    <3>1. UNCHANGED <<br, confirms, sorted, pqdata, current, assigned>>
      BY <2>1 DEF FindAggregator
    <3>2. QED
      BY <3>1, QueuedSame
  <2>2. CASE ReadActive(c)
    <3>1. UNCHANGED <<br, confirms, sorted, pqdata, current, assigned>>
      BY <2>2 DEF ReadActive
    <3>2. QED
      BY <3>1, QueuedSame
  <2>3. CASE Touch(c)
    <3>1. UNCHANGED <<br, confirms, sorted, pqdata, current, assigned>>
      BY <2>3 DEF Touch
    <3>2. QED
      BY <3>1, QueuedSame
  <2>4. CASE ReadToClean(c)
    <3>1. UNCHANGED <<br, confirms, sorted, pqdata, current, assigned>>
      BY <2>4 DEF ReadToClean
    <3>2. QED
      BY <3>1, QueuedSame
  <2>5. CASE DowngradeConfirmation(c)
    BY <2>5, QueuedSame DEF DowngradeConfirmation, BreakerState, ConfirmTask,
                        RemoversKnow, Removing, RemovalOrder
  <2>6. CASE UnassignCleaned(c)
    BY <2>6, QueuedSame DEF UnassignCleaned, Goto, BreakerState, ConfirmTask
  <2>7. CASE DeleteReservation(c)
    BY <2>7, QueuedSame DEF DeleteReservation, Goto, BreakerState, ConfirmTask,
                        RemoversKnow, Removing, NoData, DataAgree
  <2>8. CASE Unmap(c)
    <3>1. Queued' = Queued \/ Queued' = Queued \ {NoneMember}
      BY <2>8, QueuedWithout, QueuedSame DEF Unmap, Members
    <3>2. NoneMember \notin Reservations
      BY DEF NoneMember, Reservations
    <3>3. QED
      BY <2>8, <3>1, <3>2 DEF Unmap, AfterDequeue, IdleRemover
  <2>9. CASE Dequeue(c)
    <3>1. rm[c].r \in Reservations /\ Queued' = Queued \ {rm[c].r}
      BY <2>9, QueuedWithout DEF Dequeue, Members
    <3>2. QED
      BY <2>9, <3>1 DEF Dequeue, AfterDequeue, IdleRemover
  <2>10. CASE Purge(c)
    BY <2>10, QueuedSame DEF Purge, Goto, BreakerState, ConfirmTask,
                         RemoversKnow, Removing, DataAgree
  <2>11. CASE EnqueueFree(c)
    <3>1. UNCHANGED <<br, confirms, sorted, pqdata, current, assigned>>
      BY <2>11 DEF EnqueueFree
    <3>2. QED
      BY <3>1, QueuedSame
  <2>12. CASE ClearFinishing(c)
    <3>1. UNCHANGED <<br, confirms, sorted, pqdata, current, assigned>>
      BY <2>12 DEF ClearFinishing
    <3>2. QED
      BY <3>1, QueuedSame
  <2>13. QED
    BY <1>6, <2>1, <2>2, <2>3, <2>4, <2>5, <2>6, <2>7, <2>8, <2>9, <2>10,
            <2>11, <2>12 DEF Remove
<1>7. ASSUME NEW t \in frees, Free(t)
      PROVE  BreakersKnow'
  <2>1. UNCHANGED <<br, confirms, sorted, pqdata, current, assigned>>
    BY <1>7 DEF Free, FreeInLab, ConfirmDisposal
  <2>2. QED
    BY <2>1, QueuedSame
<1>8. ASSUME NEW t \in frees, NEW b \in Breakers, LabFailsToFree(t, b)
      PROVE  BreakersKnow'
  BY <1>8, QueuedSame, SMTT(30) DEF LabFailsToFree, BreakerState
<1>9. ASSUME NEW b \in Breakers, Break(b)
      PROVE  BreakersKnow'
  <2>1. CASE FindCurrent(b)
    <3>1. PICK r : br' = [br EXCEPT ![b].pc = "mark"] \/ br' = [br EXCEPT ![b].pc = "remove", ![b].r = r]
      BY <2>1 DEF FindCurrent, BreakerGoto
    <3>2. br[b].pc = "find" /\ br'[b].pc \in {"mark", "remove"} /\ br'[b].i = br[b].i
      BY <2>1, <3>1 DEF FindCurrent, BreakerState
    <3>3. \A a \in Breakers : a # b => br'[a] = br[a]
      BY <3>1
    <3>4. QED
      BY <2>1, <3>2, <3>3, QueuedSame DEF FindCurrent
  <2>2. CASE RemoveCurrent(b)
    <3> DEFINE r == br[b].r
               i == br[b].i
    <3>1. r \in Reservations /\ i \in Instances /\ BreaksAt(b, i)
      BY <2>2 DEF RemoveCurrent, BreaksAt
    <3>2. CASE r \notin assigned[i]
      BY <2>2, <3>2, QueuedSame DEF RemoveCurrent, IdleBreaker, BreakerState
    <3>3. CASE r \in assigned[i]
      <4>1. HeldFor(r, i)
        BY <3>1, <3>3, AssignedIsHeld
      <4>2. pqdata[r].active = "confirming" /\ r \notin Queued
        BY <3>1, <4>1 DEF OneBreaks
      <4>3. \A a \in Breakers :
                br[a].pc \in {"downgrade", "release", "read", "write", "requeue"} /\ br[a].r = r =>
                  a = b
        <5>1. SUFFICES ASSUME NEW a \in Breakers, br[a].pc = "downgrade", br[a].r = r
                       PROVE  a = b
          BY <4>1
        <5>2. br[a].i = i /\ BreaksAt(a, i)
          BY <4>1, <5>1 DEF BreaksAt
        <5>3. QED
          BY <3>1, <5>2 DEF OneBreaks
      <4>4. /\ br'[b].pc = "downgrade" /\ br'[b].r = r /\ br'[b].i = i
            /\ \A a \in Breakers : a # b => br'[a] = br[a]
            /\ r \notin assigned'[i] /\ \A j \in Instances :
                                            assigned'[j] \subseteq assigned[j]
        BY <2>2, <3>1, <3>3 DEF RemoveCurrent, BreakerState
      <4>5. Queued' = Queued /\ UNCHANGED <<pqdata, current>>
        BY <2>2, QueuedSame DEF RemoveCurrent
      <4> HIDE DEF r, i
      <4>6. QED
        BY <4>1, <4>2, <4>3, <4>4, <4>5
    <3>4. QED
      BY <3>2, <3>3
  <2>3. CASE DowngradeCurrent(b)
    BY <2>3, QueuedSame DEF DowngradeCurrent, BreakerGoto, BreakerState,
                        ConfirmTask
  <2>4. CASE ReleaseBroken(b)
    BY <2>4, QueuedSame DEF ReleaseBroken, BreakerGoto, BreakerState,
                        ConfirmTask
  <2>5. CASE ReadBroken(b)
    BY <2>5, QueuedSame DEF ReadBroken, IdleBreaker, BreakerState, ConfirmTask
  <2>6. CASE WriteWaiting(b)
    <3>1. /\ br[b].r \in Reservations /\ br[b].pc = "write" /\ br'[b].pc = "requeue"
          /\ br'[b].r = br[b].r /\ br'[b].i = br[b].i
      BY <2>6 DEF WriteWaiting, BreakerGoto, BreakerState
    <3>2. \A a \in Breakers : a # b => br'[a] = br[a]
      BY <2>6 DEF WriteWaiting, BreakerGoto
    <3>3. /\ pqdata'[br[b].r].active = "waiting"
          /\ \A r \in Reservations \ {br[b].r} : pqdata'[r] = pqdata[r]
      BY <2>6, <3>1 DEF WriteWaiting, BreakerState, Data
    <3>4. Queued' = Queued /\ UNCHANGED <<current, assigned>>
      BY <2>6, QueuedSame DEF WriteWaiting
    <3>5. QED
      BY <3>1, <3>2, <3>3, <3>4
  <2>7. CASE Requeue(b)
    <3>1. br[b].r \in Reservations /\ Queued' = Queued \cup {br[b].r}
      BY <2>7, QueuedWith DEF Requeue, MemberOf, DataAgree, BreakersKnow,
         Members, Requeued
    <3>2. QED
      BY <2>7, <3>1 DEF Requeue, IdleBreaker
  <2>8. CASE MarkBroken(b)
    BY <2>8, QueuedSame DEF MarkBroken, IdleBreaker, BreakerState, ConfirmTask
  <2>9. QED
    BY <1>9, <2>1, <2>2, <2>3, <2>4, <2>5, <2>6, <2>7, <2>8 DEF Break
<1>10. ASSUME NEW b \in Breakers, NEW i \in Instances, BeginBreak(b, i)
      PROVE  BreakersKnow'
  BY <1>10, QueuedSame DEF BeginBreak, BreakerState
<1>11. ASSUME NEW i \in Instances, MarkFixed(i)
      PROVE  BreakersKnow'
  BY <1>11, QueuedSame DEF MarkFixed
<1>12. QED
  BY <1>1, <1>2, <1>3, <1>4, <1>5, <1>6, <1>7, <1>8, <1>9, <1>10, <1>11
     DEF Next, Begin

(* A breaker starts in the instance of the thread that failed, which was   *)
(* the only one with that instance.                                        *)
LEMMA OneStaysBreaking ==
  ASSUME ConstantsAssumption, UsersStay, TypeOK, FreshIsNowhere, RemovalOrder,
         DataAgree, QueueAgrees, UpdaterKnows, ConfirmersKnow, BreakersKnow,
         RemoversKnow, OneBreaks, InstanceOnce, AssignedAgree, Next
  PROVE  OneBreaks'
<1> USE DEF TypeOK, KeyTypes, LabTypes, UpdaterTypes, RemoverTypes,
            BreakerTypes, keys, lab, OneBreaks, HeldFor, Active, BreaksAt
<1>1. ASSUME NEW r \in Reservations, Reserve(r)
      PROVE  OneBreaks'
  <2>1. Queued' = Queued \cup {r}
    BY <1>1, QueuedWith DEF Reserve, Members
  <2>2. QED
    BY <1>1, <2>1 DEF Reserve, FreshIsNowhere, NoData
<1>2. ASSUME NEW u \in Updaters, Update(u)
      PROVE  OneBreaks'
  <2>1. CASE PickFirst(u)
    <3>1. UNCHANGED <<br, confirms, sorted, pqdata, current>>
      BY <2>1 DEF PickFirst
    <3>2. QED
      BY <3>1, QueuedSame
  <2>2. CASE NobodyWaiting(u)
    <3>1. UNCHANGED <<br, confirms, sorted, pqdata, current>>
      BY <2>2 DEF NobodyWaiting
    <3>2. QED
      BY <3>1, QueuedSame
  <2>3. CASE ListFreeInstances(u)
    <3>1. UNCHANGED <<br, confirms, sorted, pqdata, current>>
      BY <2>3 DEF ListFreeInstances
    <3>2. QED
      BY <3>1, QueuedSame
  <2>4. CASE TryInstance(u)
    <3>1. UNCHANGED <<br, confirms, sorted, pqdata, current>>
      BY <2>4 DEF TryInstance
    <3>2. QED
      BY <3>1, QueuedSame
  <2>5. CASE NoInstanceLeft(u)
    <3>1. UNCHANGED <<br, confirms, sorted, pqdata, current>>
      BY <2>5 DEF NoInstanceLeft
    <3>2. QED
      BY <3>1, QueuedSame
  <2>6. CASE CheckExists(u)
    <3>1. UNCHANGED <<br, confirms, sorted, pqdata, current>>
      BY <2>6 DEF CheckExists
    <3>2. QED
      BY <3>1, QueuedSame
  <2>7. CASE SetCurrent(u)
    BY <2>7, QueuedSame DEF SetCurrent, NextRound, IdleUpdater, BreakerState,
                        ConfirmTask, UpdaterKnows, TakesCare, Confirming
  <2>8. CASE AcquireResource(u)
    <3>1. UNCHANGED <<br, confirms, sorted, pqdata, current>>
      BY <2>8 DEF AcquireResource
    <3>2. QED
      BY <3>1, QueuedSame
  <2>9. CASE Unconfirm(u)
    BY <2>9, QueuedSame DEF Unconfirm, BreakerState, ConfirmTask
  <2>10. CASE AssignInstance(u)
    <3>1. UNCHANGED <<br, confirms, sorted, pqdata, current>>
      BY <2>10 DEF AssignInstance
    <3>2. QED
      BY <3>1, QueuedSame
  <2>11. CASE ReadReservation(u)
    <3>1. UNCHANGED <<br, confirms, sorted, pqdata, current>>
      BY <2>11 DEF ReadReservation
    <3>2. QED
      BY <3>1, QueuedSame
  <2>12. CASE DowngradeUnsuitable(u)
    BY <2>12, QueuedSame DEF DowngradeUnsuitable, BreakerState, ConfirmTask
  <2>13. CASE ReleaseAcquired(u)
    <3>1. UNCHANGED <<br, confirms, sorted, pqdata, current>>
      BY <2>13 DEF ReleaseAcquired
    <3>2. QED
      BY <3>1, QueuedSame
  <2>14. CASE Unassign(u)
    <3>1. UNCHANGED <<br, confirms, sorted, pqdata, current>>
      BY <2>14 DEF Unassign
    <3>2. QED
      BY <3>1, QueuedSame
  <2>15. CASE SetWaitingConfirmation(u)
    <3>1. up[u].r \in Reservations /\ up[u].i \in Instances /\ UpdaterHolds(u, up[u].i)
      BY <2>15 DEF SetWaitingConfirmation, UpdaterHolds
    <3>2. \A a \in Breakers : ~BreaksAt(a, up[u].i)
      BY <3>1 DEF InstanceOnce
    <3>3. /\ pqdata'[up[u].r].inst = up[u].i
          /\ \A r \in Reservations \ {up[u].r} : pqdata'[r] = pqdata[r]
      BY <2>15, <3>1 DEF SetWaitingConfirmation, UpdaterState, Data
    <3>4. Queued' = Queued /\ UNCHANGED <<current, confirms, br>>
      BY <2>15, QueuedSame DEF SetWaitingConfirmation
    <3>5. QED
      BY <3>1, <3>2, <3>3, <3>4
  <2>16. CASE DequeueAndConfirm(u)
    <3>1. Queued' = Queued \ {up[u].r}
      BY <2>16, QueuedWithout
         DEF DequeueAndConfirm, MemberOf, DataAgree, UpdaterKnows, TakesCare,
            Members
    <3>2. QED
      BY <2>16, <3>1 DEF DequeueAndConfirm, NextRound, IdleUpdater,
         UpdaterKnows, TakesCare
  <2>17. QED
    BY <1>2, <2>1, <2>2, <2>3, <2>4, <2>5, <2>6, <2>7, <2>8, <2>9, <2>10,
            <2>11, <2>12, <2>13, <2>14, <2>15, <2>16 DEF Update
<1>3. ASSUME NEW t \in confirms, Confirm(t)
      PROVE  OneBreaks'
  <2>1. CASE ReserveInLab(t)
    <3> DEFINE s == [t EXCEPT !.pc = "confirm"]
    <3>1. s.r = t.r /\ s.i = t.i /\ s.pc = "confirm"
      BY DEF ConfirmTask
    <3>2. confirms' \subseteq (confirms \ {t}) \cup {s}
      BY <2>1 DEF ReserveInLab, Step
    <3> HIDE DEF s
    <3>3. QED
      BY <2>1, <3>1, <3>2, QueuedSame DEF ReserveInLab
  <2>2. CASE PutInitial(t)
    <3> DEFINE s == [t EXCEPT !.pc = "read"]
    <3>1. s.r = t.r /\ s.i = t.i /\ s.pc = "read"
      BY DEF ConfirmTask
    <3>2. confirms' \subseteq (confirms \ {t}) \cup {s}
      BY <2>2 DEF PutInitial, Step, End
    <3> HIDE DEF s
    <3>3. QED
      BY <2>2, <3>1, <3>2, QueuedSame DEF PutInitial
  <2>3. CASE ReadToConfirm(t)
    <3> DEFINE s == [t EXCEPT !.pc = "write", !.data = pqdata[t.r]]
    <3>1. s.r = t.r /\ s.i = t.i /\ s.pc = "write" /\ s.data = pqdata[t.r]
      BY DEF ConfirmTask
    <3>2. confirms' \subseteq (confirms \ {t}) \cup {s}
      BY <2>3 DEF ReadToConfirm, End
    <3> HIDE DEF s
    <3>3. QED
      BY <2>3, <3>1, <3>2, QueuedSame DEF ReadToConfirm
  <2>4. CASE WriteReserved(t)
    BY <2>4, QueuedSame DEF WriteReserved, End, BreakerState, ConfirmTask,
                        ConfirmersKnow
  <2>5. QED
    BY <1>3, <2>1, <2>2, <2>3, <2>4 DEF Confirm
<1>4. ASSUME NEW t \in confirms, NEW b \in Breakers, LabFailsToReserve(t, b)
      PROVE  OneBreaks'
  <2>1. /\ t.i \in Instances /\ t.r \in Reservations /\ HeldFor(t.r, t.i)
        /\ pqdata[t.r].active = "confirming" /\ t.r \notin Queued
    BY DEF ConfirmersKnow, ConfirmTask
  <2>2. \A s \in confirms : s.i = t.i => s = t
    BY <2>1 DEF ConfirmersKnow, InstanceOnce, ConfirmTask
  <2>3. \A r \in Reservations : HeldFor(r, t.i) => r = t.r
    BY <2>1 DEF InstanceOnce
  <2>4. \A a \in Breakers : ~BreaksAt(a, t.i)
    BY <2>1 DEF OneBreaks
  <2>5. /\ br'[b].pc = "find" /\ br'[b].i = t.i
        /\ \A a \in Breakers : a # b => br'[a] = br[a]
    BY <1>4 DEF LabFailsToReserve, BreakerState
  <2>6. /\ confirms' = confirms \ {t} /\ Queued' = Queued
        /\ UNCHANGED <<current, pqdata>>
    BY <1>4, QueuedSame DEF LabFailsToReserve, End
  <2>7. QED
    BY <2>1, <2>2, <2>3, <2>4, <2>5, <2>6
<1>5. ASSUME NEW c \in Removers, NEW r \in Reservations,
             \/ BeginFinish(c, r) \/ BeginExpire(c, r)
             \/ BeginDrop(c, r) \/ BeginPoll(c, r)
      PROVE  OneBreaks'
  <2>1. UNCHANGED <<br, confirms, sorted, pqdata, current>>
    BY <1>5 DEF BeginFinish, IdleRemover, BeginExpire, BeginDrop, BeginPoll
  <2>2. QED
    BY <2>1, QueuedSame
<1>6. ASSUME NEW c \in Removers, Remove(c)
      PROVE  OneBreaks'
  <2>1. CASE FindAggregator(c)
    <3>1. UNCHANGED <<br, confirms, sorted, pqdata, current>>
      BY <2>1 DEF FindAggregator
    <3>2. QED
      BY <3>1, QueuedSame
  <2>2. CASE ReadActive(c)
    <3>1. UNCHANGED <<br, confirms, sorted, pqdata, current>>
      BY <2>2 DEF ReadActive
    <3>2. QED
      BY <3>1, QueuedSame
  <2>3. CASE Touch(c)
    <3>1. UNCHANGED <<br, confirms, sorted, pqdata, current>>
      BY <2>3 DEF Touch
    <3>2. QED
      BY <3>1, QueuedSame
  <2>4. CASE ReadToClean(c)
    <3>1. UNCHANGED <<br, confirms, sorted, pqdata, current>>
      BY <2>4 DEF ReadToClean
    <3>2. QED
      BY <3>1, QueuedSame
  <2>5. CASE DowngradeConfirmation(c)
    BY <2>5, QueuedSame DEF DowngradeConfirmation, BreakerState, ConfirmTask
  <2>6. CASE UnassignCleaned(c)
    <3>1. UNCHANGED <<br, confirms, sorted, pqdata, current>>
      BY <2>6 DEF UnassignCleaned
    <3>2. QED
      BY <3>1, QueuedSame
  <2>7. CASE DeleteReservation(c)
    BY <2>7, QueuedSame DEF DeleteReservation, Goto, BreakerState, ConfirmTask,
                        NoData
  <2>8. CASE Unmap(c)
    <3>1. Queued' = Queued \/ Queued' = Queued \ {NoneMember}
      BY <2>8, QueuedWithout, QueuedSame DEF Unmap, Members
    <3>2. NoneMember \notin Reservations
      BY DEF NoneMember, Reservations
    <3>3. QED
      BY <2>8, <3>1, <3>2 DEF Unmap, AfterDequeue, IdleRemover
  <2>9. CASE Dequeue(c)
    <3>1. rm[c].r \in Reservations /\ Queued' = Queued \ {rm[c].r}
      BY <2>9, QueuedWithout DEF Dequeue, Members
    <3>2. QED
      BY <2>9, <3>1 DEF Dequeue, AfterDequeue, IdleRemover
  <2>10. CASE Purge(c)
    BY <2>10, QueuedSame DEF Purge, Goto, BreakerState, ConfirmTask
  <2>11. CASE EnqueueFree(c)
    <3>1. UNCHANGED <<br, confirms, sorted, pqdata, current>>
      BY <2>11 DEF EnqueueFree
    <3>2. QED
      BY <3>1, QueuedSame
  <2>12. CASE ClearFinishing(c)
    <3>1. UNCHANGED <<br, confirms, sorted, pqdata, current>>
      BY <2>12 DEF ClearFinishing
    <3>2. QED
      BY <3>1, QueuedSame
  <2>13. QED
    BY <1>6, <2>1, <2>2, <2>3, <2>4, <2>5, <2>6, <2>7, <2>8, <2>9, <2>10,
            <2>11, <2>12 DEF Remove
<1>7. ASSUME NEW t \in frees, Free(t)
      PROVE  OneBreaks'
  <2>1. UNCHANGED <<br, confirms, sorted, pqdata, current>>
    BY <1>7 DEF Free, FreeInLab, ConfirmDisposal
  <2>2. QED
    BY <2>1, QueuedSame
<1>8. ASSUME NEW t \in frees, NEW b \in Breakers, LabFailsToFree(t, b)
      PROVE  OneBreaks'
  <2>1. t.i \in Instances /\ FreeHolds(t, t.i)
    BY DEF FreeHolds, FreeTask
  <2>2. \A r \in Reservations : ~HeldFor(r, t.i)
    BY <2>1 DEF InstanceOnce
  <2>3. \A s \in confirms : s.i # t.i
    BY <2>2 DEF ConfirmersKnow, ConfirmTask
  <2>4. \A a \in Breakers : ~BreaksAt(a, t.i)
    BY <2>1 DEF InstanceOnce
  <2>5. /\ br'[b].pc = "find" /\ br'[b].i = t.i
        /\ \A a \in Breakers : a # b => br'[a] = br[a]
    BY <1>8 DEF LabFailsToFree, BreakerState
  <2>6. Queued' = Queued /\ UNCHANGED <<confirms, current, pqdata>>
    BY <1>8, QueuedSame DEF LabFailsToFree
  <2>7. QED
    BY <2>2, <2>3, <2>4, <2>5, <2>6
<1>9. ASSUME NEW b \in Breakers, Break(b)
      PROVE  OneBreaks'
  <2>1. CASE FindCurrent(b)
    <3>1. PICK r : br' = [br EXCEPT ![b].pc = "mark"] \/ br' = [br EXCEPT ![b].pc = "remove", ![b].r = r]
      BY <2>1 DEF FindCurrent, BreakerGoto
    <3>2. br[b].pc = "find" /\ br'[b].pc \in {"mark", "remove"} /\ br'[b].i = br[b].i
      BY <2>1, <3>1 DEF FindCurrent, BreakerState
    <3>3. \A a \in Breakers : a # b => br'[a] = br[a]
      BY <3>1
    <3>4. QED
      BY <2>1, <3>2, <3>3, QueuedSame DEF FindCurrent
  <2>2. CASE RemoveCurrent(b)
    <3> DEFINE i == br[b].i
    <3>1. i \in Instances /\ BreaksAt(b, i)
      BY <2>2 DEF RemoveCurrent
    <3>2. br[b].r \in assigned[i] => HeldFor(br[b].r, i)
      BY <3>1, AssignedIsHeld
    <3>3. \A r \in Reservations :
              br[b].r \in assigned[i] /\ HeldFor(r, i) => br[b].r = r
      BY <2>2, <3>1, <3>2 DEF RemoveCurrent, InstanceOnce
    <3>4. /\ br'[b].i = i
          /\ \/ br'[b].pc = "mark"
             \/ br'[b].pc = "downgrade" /\ br'[b].r = br[b].r /\ br[b].r \in assigned[i]
      BY <2>2 DEF RemoveCurrent, IdleBreaker, BreakerState
    <3>5. \A a \in Breakers : a # b => br'[a] = br[a]
      BY <2>2 DEF RemoveCurrent
    <3>6. Queued' = Queued /\ UNCHANGED <<confirms, current, pqdata>>
      BY <2>2, QueuedSame DEF RemoveCurrent
    <3>7. QED
      BY <3>1, <3>3, <3>4, <3>5, <3>6
  <2>3. CASE DowngradeCurrent(b)
    BY <2>3, QueuedSame DEF DowngradeCurrent, BreakerGoto, BreakerState,
                        ConfirmTask, BreakersKnow
  <2>4. CASE ReleaseBroken(b)
    BY <2>4, QueuedSame DEF ReleaseBroken, BreakerGoto, BreakerState,
                        ConfirmTask
  <2>5. CASE ReadBroken(b)
    BY <2>5, QueuedSame DEF ReadBroken, IdleBreaker, BreakerState, ConfirmTask
  <2>6. CASE WriteWaiting(b)
    BY <2>6, QueuedSame DEF WriteWaiting, BreakerGoto, BreakerState,
                        ConfirmTask, BreakersKnow
  <2>7. CASE Requeue(b)
    <3>1. br[b].r \in Reservations /\ Queued' = Queued \cup {br[b].r}
      BY <2>7, QueuedWith DEF Requeue, MemberOf, DataAgree, BreakersKnow,
         Members, Requeued
    <3>2. QED
      BY <2>7, <3>1 DEF Requeue, IdleBreaker, BreakersKnow, BreakerState
  <2>8. CASE MarkBroken(b)
    BY <2>8, QueuedSame DEF MarkBroken, IdleBreaker, BreakerState, ConfirmTask
  <2>9. QED
    BY <1>9, <2>1, <2>2, <2>3, <2>4, <2>5, <2>6, <2>7, <2>8 DEF Break
<1>10. ASSUME NEW b \in Breakers, NEW i \in Instances, BeginBreak(b, i)
      PROVE  OneBreaks'
  BY <1>10, QueuedSame DEF BeginBreak, BreakerState, UsersStay
<1>11. ASSUME NEW i \in Instances, MarkFixed(i)
      PROVE  OneBreaks'
  BY <1>11, QueuedSame DEF MarkFixed
<1>12. QED
  BY <1>1, <1>2, <1>3, <1>4, <1>5, <1>6, <1>7, <1>8, <1>9, <1>10, <1>11
     DEF Next, Begin

(* An instance passes to a reservation from the updater that acquired it,  *)
(* and from it to the remover that has read it in its data.                *)
LEMMA InstanceStaysOnce ==
  ASSUME ConstantsAssumption, UsersStay, TypeOK, FreshIsNowhere, RemovalOrder,
         DataAgree, QueueAgrees, UpdaterKnows, ConfirmersKnow, BreakersKnow,
         RemoversKnow, OneBreaks, InstanceOnce, SlotHeldOnce, Next
  PROVE  InstanceOnce'
<1> USE DEF TypeOK, KeyTypes, LabTypes, UpdaterTypes, RemoverTypes,
            BreakerTypes, keys, lab, InstanceOnce, HeldFor, Active, BreaksAt,
            UpdaterHolds, RemoverHolds, FreeHolds
<1>1. ASSUME NEW r \in Reservations, Reserve(r)
      PROVE  InstanceOnce'
  BY <1>1 DEF Reserve, UpdaterState, RemoverState, BreakerState,
             FreshIsNowhere, NoData
<1>2. ASSUME NEW u \in Updaters, Update(u)
      PROVE  InstanceOnce'
  <2>0. \A v \in Updaters : v = u
    BY DEF UsersStay
  <2>1. CASE PickFirst(u)
    BY <2>1, <2>0 DEF PickFirst, Untried, UpdaterState, RemoverState, FreeTask,
                  BreakerState
  <2>2. CASE NobodyWaiting(u)
    BY <2>2, <2>0 DEF NobodyWaiting, IdleUpdater, UpdaterState, RemoverState,
                  FreeTask, BreakerState
  <2>3. CASE ListFreeInstances(u)
    BY <2>3, <2>0 DEF ListFreeInstances, IdleUpdater, UpdaterState,
                  RemoverState, FreeTask, BreakerState
  <2>4. CASE TryInstance(u)
    BY <2>4, <2>0 DEF TryInstance, UpdaterState, RemoverState, FreeTask,
                  BreakerState
  <2>5. CASE NoInstanceLeft(u)
    BY <2>5, <2>0 DEF NoInstanceLeft, NextRound, IdleUpdater, UpdaterState,
                  RemoverState, FreeTask, BreakerState
  <2>6. CASE CheckExists(u)
    BY <2>6, <2>0 DEF CheckExists, IdleUpdater, UpdaterState, RemoverState,
                  FreeTask, BreakerState
  <2>7. CASE SetCurrent(u)
    <3>1. up[u].r \in Reservations /\ pqdata[up[u].r].active = "waiting"
      BY <2>7, <2>0 DEF SetCurrent, UpdaterKnows, TakesCare
    <3>2. \A r \in Reservations, i \in Instances :
              HeldFor(r, i)' => HeldFor(r, i)
      BY <2>7, <2>0, <3>1 DEF SetCurrent
    <3>3. \A v \in Updaters, i \in Instances :
              UpdaterHolds(v, i)' => UpdaterHolds(v, i)
      BY <2>7, <2>0 DEF SetCurrent, NextRound, IdleUpdater, UpdaterState
    <3>4. UNCHANGED <<pqdata, slots, rm, frees, br>>
      BY <2>7, <2>0 DEF SetCurrent
    <3> HIDE DEF UpdaterHolds, HeldFor
    <3>5. QED
      BY <3>2, <3>3, <3>4
  <2>8. CASE AcquireResource(u)
    BY <2>8, <2>0 DEF AcquireResource, UpdaterState, RemoverState, FreeTask,
                  BreakerState
  <2>9. CASE Unconfirm(u)
    BY <2>9, <2>0 DEF Unconfirm, UpdaterState, RemoverState, FreeTask,
                  BreakerState
  <2>10. CASE AssignInstance(u)
    BY <2>10, <2>0, SMTT(30)
       DEF AssignInstance, UpdaterState, RemoverState, FreeTask,
                   BreakerState
  <2>11. CASE ReadReservation(u)
    BY <2>11, <2>0 DEF ReadReservation, UpdaterState, RemoverState, FreeTask,
                   BreakerState, UpdaterKnows
  <2>12. CASE DowngradeUnsuitable(u)
    BY <2>12, <2>0 DEF DowngradeUnsuitable, UpdaterState, RemoverState,
                   FreeTask, BreakerState
  <2>13. CASE ReleaseAcquired(u)
    BY <2>13, <2>0 DEF ReleaseAcquired, UpdaterState, RemoverState, FreeTask,
                   BreakerState, SlotHeldOnce
  <2>14. CASE Unassign(u)
    BY <2>14, <2>0 DEF Unassign, NextRound, IdleUpdater, UpdaterState,
                   RemoverState, FreeTask, BreakerState
  <2>15. CASE SetWaitingConfirmation(u)
    <3>1. PICK r \in Reservations, i \in Instances : r = up[u].r /\ i = up[u].i
      BY <2>15, <2>0 DEF SetWaitingConfirmation
    <3>2. UpdaterHolds(u, i)
      BY <2>15, <2>0, <3>1 DEF SetWaitingConfirmation, UpdaterHolds,
         UpdaterState
    <3>3. /\ pqdata'[r].inst = i /\ Active(pqdata'[r])
          /\ \A q \in Reservations \ {r} : pqdata'[q] = pqdata[q]
      BY <2>15, <2>0, <3>1 DEF SetWaitingConfirmation, UpdaterState, Data
    <3>4. (\A q \in Reservations :
               ~HeldFor(q, i)) /\ \A a \in Breakers : ~BreaksAt(a, i)
      BY <3>2
    <3>5. /\ i \notin slots
          /\ \A c \in Removers : ~RemoverHolds(c, i)
          /\ \A t \in frees : ~FreeHolds(t, i)
      BY <3>2 DEF SlotHeldOnce
    <3>6. \A v \in Updaters, j \in Instances : ~UpdaterHolds(v, j)'
      BY <2>15, <2>0, <2>0, <3>1, <3>2 DEF SetWaitingConfirmation, UpdaterState
    <3>7. UNCHANGED <<current, slots, rm, frees, br>>
      BY <2>15, <2>0 DEF SetWaitingConfirmation
    <3>8. \A q \in Reservations, j \in Instances :
            HeldFor(q, j)' => HeldFor(q, j) \/ (q = r /\ j = i)
      BY <3>3, <3>7
    <3> HIDE DEF UpdaterHolds, HeldFor
    <3>9. QED
      BY <3>4, <3>5, <3>6, <3>7, <3>8
  <2>16. CASE DequeueAndConfirm(u)
    BY <2>16, <2>0 DEF DequeueAndConfirm, NextRound, IdleUpdater, UpdaterState,
                   RemoverState, FreeTask, BreakerState
  <2>17. QED
    BY <1>2, <2>1, <2>2, <2>3, <2>4, <2>5, <2>6, <2>7, <2>8, <2>9, <2>10,
            <2>11, <2>12, <2>13, <2>14, <2>15, <2>16 DEF Update
<1>3. ASSUME NEW t \in confirms, Confirm(t)
      PROVE  InstanceOnce'
  <2>1. CASE ReserveInLab(t)
    <3>1. UNCHANGED <<pqdata, current, slots, up, rm, frees, br>>
      BY <2>1 DEF ReserveInLab
    <3>2. QED
      BY <3>1
  <2>2. CASE PutInitial(t)
    <3>1. UNCHANGED <<pqdata, current, slots, up, rm, frees, br>>
      BY <2>2 DEF PutInitial
    <3>2. QED
      BY <3>1
  <2>3. CASE ReadToConfirm(t)
    <3>1. UNCHANGED <<pqdata, current, slots, up, rm, frees, br>>
      BY <2>3 DEF ReadToConfirm
    <3>2. QED
      BY <3>1
  <2>4. CASE WriteReserved(t)
    BY <2>4 DEF WriteReserved, End, UpdaterState, RemoverState, FreeTask,
            BreakerState, ConfirmersKnow, ConfirmTask, Data
  <2>5. QED
    BY <1>3, <2>1, <2>2, <2>3, <2>4 DEF Confirm
<1>4. ASSUME NEW t \in confirms, NEW b \in Breakers, LabFailsToReserve(t, b)
      PROVE  InstanceOnce'
  BY <1>4, SMTT(30)
     DEF LabFailsToReserve, End, BreakerState, ConfirmersKnow, ConfirmTask
<1>5. ASSUME NEW c \in Removers, NEW r \in Reservations,
             \/ BeginFinish(c, r) \/ BeginExpire(c, r)
             \/ BeginDrop(c, r) \/ BeginPoll(c, r)
      PROVE  InstanceOnce'
  <2>1. CASE BeginFinish(c, r)
    BY <2>1 DEF BeginFinish, IdleRemover, UpdaterState, RemoverState, FreeTask,
            BreakerState
  <2>2. CASE BeginExpire(c, r)
    BY <2>2 DEF BeginExpire, IdleRemover, UpdaterState, RemoverState, FreeTask,
            BreakerState
  <2>3. CASE BeginDrop(c, r)
    BY <2>3 DEF BeginDrop, IdleRemover, UpdaterState, RemoverState, FreeTask,
            BreakerState
  <2>4. CASE BeginPoll(c, r)
    BY <2>4 DEF BeginPoll, IdleRemover, UpdaterState, RemoverState, FreeTask,
            BreakerState
  <2>5. QED
    BY <1>5, <2>1, <2>2, <2>3, <2>4
<1>6. ASSUME NEW c \in Removers, Remove(c)
      PROVE  InstanceOnce'
  <2>1. CASE FindAggregator(c)
    BY <2>1 DEF FindAggregator, Goto, UpdaterState, RemoverState, FreeTask,
            BreakerState
  <2>2. CASE ReadActive(c)
    BY <2>2, SMTT(30)
       DEF ReadActive, IdleRemover, UpdaterState, RemoverState, FreeTask,
            BreakerState
  <2>3. CASE Touch(c)
    BY <2>3 DEF Touch, IdleRemover, UpdaterState, RemoverState, FreeTask,
            BreakerState
  <2>4. CASE ReadToClean(c)
    BY <2>4 DEF ReadToClean, UpdaterState, RemoverState, FreeTask, BreakerState
  <2>5. CASE DowngradeConfirmation(c)
    BY <2>5 DEF DowngradeConfirmation, UpdaterState, RemoverState, FreeTask,
            BreakerState, RemoversKnow, Removing, RemovalOrder, OneBreaks,
            DataAgree
  <2>6. CASE UnassignCleaned(c)
    BY <2>6, SMTT(30)
       DEF UnassignCleaned, Goto, UpdaterState, RemoverState, FreeTask,
            BreakerState
  <2>7. CASE DeleteReservation(c)
    BY <2>7 DEF DeleteReservation, Goto, UpdaterState, RemoverState, FreeTask,
            BreakerState, NoData
  <2>8. CASE Unmap(c)
    BY <2>8 DEF Unmap, AfterDequeue, IdleRemover, UpdaterState, RemoverState,
            FreeTask, BreakerState
  <2>9. CASE Dequeue(c)
    BY <2>9 DEF Dequeue, AfterDequeue, IdleRemover, UpdaterState, RemoverState,
            FreeTask, BreakerState
  <2>10. CASE Purge(c)
    BY <2>10 DEF Purge, Goto, UpdaterState, RemoverState, FreeTask,
             BreakerState
  <2>11. CASE EnqueueFree(c)
    BY <2>11 DEF EnqueueFree, IdleRemover, UpdaterState, RemoverState,
             FreeTask, BreakerState
  <2>12. CASE ClearFinishing(c)
    BY <2>12 DEF ClearFinishing, IdleRemover, UpdaterState, RemoverState,
             FreeTask, BreakerState
  <2>13. QED
    BY <1>6, <2>1, <2>2, <2>3, <2>4, <2>5, <2>6, <2>7, <2>8, <2>9, <2>10,
            <2>11, <2>12 DEF Remove
<1>7. ASSUME NEW t \in frees, Free(t)
      PROVE  InstanceOnce'
  <2>1. CASE FreeInLab(t)
    BY <2>1 DEF FreeInLab, UpdaterState, RemoverState, FreeTask, BreakerState
  <2>2. CASE ConfirmDisposal(t)
    BY <2>2, SMTT(30)
       DEF ConfirmDisposal, UpdaterState, RemoverState, FreeTask,
            BreakerState, SlotHeldOnce
  <2>3. QED
    BY <1>7, <2>1, <2>2 DEF Free
<1>8. ASSUME NEW t \in frees, NEW b \in Breakers, LabFailsToFree(t, b)
      PROVE  InstanceOnce'
  BY <1>8 DEF LabFailsToFree, FreeTask, BreakerState, SlotHeldOnce, FreeTask
<1>9. ASSUME NEW b \in Breakers, Break(b)
      PROVE  InstanceOnce'
  <2>1. CASE FindCurrent(b)
    <3>1. PICK r : br' = [br EXCEPT ![b].pc = "mark"] \/ br' = [br EXCEPT ![b].pc = "remove", ![b].r = r]
      BY <2>1 DEF FindCurrent, BreakerGoto
    <3>2. br[b].pc = "find" /\ br'[b].pc \in {"mark", "remove"} /\ br'[b].i = br[b].i
      BY <2>1, <3>1 DEF FindCurrent, BreakerState
    <3>3. \A a \in Breakers : a # b => br'[a] = br[a]
      BY <3>1
    <3>4. QED
      BY <2>1, <3>2, <3>3 DEF FindCurrent
  <2>2. CASE RemoveCurrent(b)
    BY <2>2 DEF RemoveCurrent, IdleBreaker, UpdaterState, RemoverState,
            FreeTask, BreakerState
  <2>3. CASE DowngradeCurrent(b)
    BY <2>3 DEF DowngradeCurrent, BreakerGoto, UpdaterState, RemoverState,
            FreeTask, BreakerState
  <2>4. CASE ReleaseBroken(b)
    BY <2>4, SMTT(30)
       DEF ReleaseBroken, BreakerGoto, UpdaterState, RemoverState,
            FreeTask, BreakerState, BreakersKnow, OneBreaks
  <2>5. CASE ReadBroken(b)
    BY <2>5 DEF ReadBroken, IdleBreaker, UpdaterState, RemoverState, FreeTask,
            BreakerState
  <2>6. CASE WriteWaiting(b)
    BY <2>6, SMTT(30)
       DEF WriteWaiting, BreakerGoto, UpdaterState, RemoverState,
            FreeTask, BreakerState
  <2>7. CASE Requeue(b)
    BY <2>7 DEF Requeue, IdleBreaker, UpdaterState, RemoverState, FreeTask,
            BreakerState
  <2>8. CASE MarkBroken(b)
    BY <2>8, SMTT(30)
       DEF MarkBroken, IdleBreaker, UpdaterState, RemoverState, FreeTask,
            BreakerState
  <2>9. QED
    BY <1>9, <2>1, <2>2, <2>3, <2>4, <2>5, <2>6, <2>7, <2>8 DEF Break
<1>10. ASSUME NEW b \in Breakers, NEW i \in Instances, BeginBreak(b, i)
      PROVE  InstanceOnce'
  BY <1>10 DEF BeginBreak, BreakerState, UsersStay
<1>11. ASSUME NEW i \in Instances, MarkFixed(i)
      PROVE  InstanceOnce'
  BY <1>11, SMTT(30) DEF MarkFixed
<1>12. QED
  BY <1>1, <1>2, <1>3, <1>4, <1>5, <1>6, <1>7, <1>8, <1>9, <1>10, <1>11
     DEF Next, Begin

(* SREM and HDEL have one winner, and whoever wins finds nobody else there. *)
LEMMA SlotStaysHeldOnce ==
  ASSUME ConstantsAssumption, UsersStay, TypeOK, FreshIsNowhere, RemovalOrder,
         DataAgree, QueueAgrees, UpdaterKnows, ConfirmersKnow, BreakersKnow,
         RemoversKnow, OneBreaks, InstanceOnce, SlotHeldOnce, Next
  PROVE  SlotHeldOnce'
<1> USE DEF TypeOK, KeyTypes, LabTypes, UpdaterTypes, RemoverTypes,
            BreakerTypes, keys, lab, SlotHeldOnce, UpdaterHolds, RemoverHolds,
            FreeHolds
<1>1. ASSUME NEW r \in Reservations, Reserve(r)
      PROVE  SlotHeldOnce'
  BY <1>1, SMTT(30) DEF Reserve, UpdaterState, RemoverState
<1>2. ASSUME NEW u \in Updaters, Update(u)
      PROVE  SlotHeldOnce'
  <2>0. \A v \in Updaters : v = u
    BY DEF UsersStay
  <2>1. CASE PickFirst(u)
    BY <2>1, <2>0 DEF PickFirst, Untried, UpdaterState, RemoverState, FreeTask
  <2>2. CASE NobodyWaiting(u)
    BY <2>2, <2>0 DEF NobodyWaiting, IdleUpdater, UpdaterState, RemoverState,
                  FreeTask
  <2>3. CASE ListFreeInstances(u)
    BY <2>3, <2>0 DEF ListFreeInstances, IdleUpdater, UpdaterState,
                  RemoverState, FreeTask
  <2>4. CASE TryInstance(u)
    BY <2>4, <2>0 DEF TryInstance, UpdaterState, RemoverState, FreeTask
  <2>5. CASE NoInstanceLeft(u)
    BY <2>5, <2>0 DEF NoInstanceLeft, NextRound, IdleUpdater, UpdaterState,
                  RemoverState, FreeTask
  <2>6. CASE CheckExists(u)
    BY <2>6, <2>0 DEF CheckExists, IdleUpdater, UpdaterState, RemoverState,
                  FreeTask
  <2>7. CASE SetCurrent(u)
    BY <2>7, <2>0 DEF SetCurrent, NextRound, IdleUpdater, UpdaterState,
                  RemoverState, FreeTask
  <2>8. CASE AcquireResource(u)
    BY <2>8, <2>0 DEF AcquireResource, UpdaterState, RemoverState, FreeTask
  <2>9. CASE Unconfirm(u)
    BY <2>9, <2>0 DEF Unconfirm, UpdaterState, RemoverState, FreeTask
  <2>10. CASE AssignInstance(u)
    BY <2>10, <2>0 DEF AssignInstance, UpdaterState, RemoverState, FreeTask
  <2>11. CASE ReadReservation(u)
    <3>1. \A v \in Updaters, i \in Instances :
              UpdaterHolds(v, i)' => UpdaterHolds(v, i)
      BY <2>11, <2>0 DEF ReadReservation, UpdaterState
    <3>2. UNCHANGED <<slots, rm, frees>>
      BY <2>11, <2>0 DEF ReadReservation
    <3> HIDE DEF UpdaterHolds
    <3>3. QED
      BY <3>1, <3>2
  <2>12. CASE DowngradeUnsuitable(u)
    BY <2>12, <2>0 DEF DowngradeUnsuitable, UpdaterState, RemoverState,
                   FreeTask
  <2>13. CASE ReleaseAcquired(u)
    BY <2>13, <2>0 DEF ReleaseAcquired, UpdaterState, RemoverState, FreeTask
  <2>14. CASE Unassign(u)
    BY <2>14, <2>0 DEF Unassign, NextRound, IdleUpdater, UpdaterState,
                   RemoverState, FreeTask
  <2>15. CASE SetWaitingConfirmation(u)
    BY <2>15, <2>0 DEF SetWaitingConfirmation, UpdaterState, RemoverState,
                   FreeTask
  <2>16. CASE DequeueAndConfirm(u)
    BY <2>16, <2>0 DEF DequeueAndConfirm, NextRound, IdleUpdater, UpdaterState,
                   RemoverState, FreeTask
  <2>17. QED
    BY <1>2, <2>1, <2>2, <2>3, <2>4, <2>5, <2>6, <2>7, <2>8, <2>9, <2>10,
            <2>11, <2>12, <2>13, <2>14, <2>15, <2>16 DEF Update
<1>3. ASSUME NEW t \in confirms, Confirm(t)
      PROVE  SlotHeldOnce'
  <2>1. UNCHANGED <<slots, up, rm, frees>>
    BY <1>3 DEF Confirm, ReserveInLab, Step, PutInitial, End, ReadToConfirm,
               WriteReserved
  <2>2. QED
    BY <2>1
<1>4. ASSUME NEW t \in confirms, NEW b \in Breakers, LabFailsToReserve(t, b)
      PROVE  SlotHeldOnce'
  BY <1>4 DEF LabFailsToReserve, End
<1>5. ASSUME NEW c \in Removers, NEW r \in Reservations,
             \/ BeginFinish(c, r) \/ BeginExpire(c, r)
             \/ BeginDrop(c, r) \/ BeginPoll(c, r)
      PROVE  SlotHeldOnce'
  <2>1. CASE BeginFinish(c, r)
    BY <2>1 DEF BeginFinish, IdleRemover, UpdaterState, RemoverState, FreeTask
  <2>2. CASE BeginExpire(c, r)
    BY <2>2 DEF BeginExpire, IdleRemover, UpdaterState, RemoverState, FreeTask
  <2>3. CASE BeginDrop(c, r)
    BY <2>3 DEF BeginDrop, IdleRemover, UpdaterState, RemoverState, FreeTask
  <2>4. CASE BeginPoll(c, r)
    BY <2>4, SMTT(30)
       DEF BeginPoll, IdleRemover, UpdaterState, RemoverState, FreeTask
  <2>5. QED
    BY <1>5, <2>1, <2>2, <2>3, <2>4
<1>6. ASSUME NEW c \in Removers, Remove(c)
      PROVE  SlotHeldOnce'
  <2>1. CASE FindAggregator(c)
    BY <2>1 DEF FindAggregator, Goto, UpdaterState, RemoverState, FreeTask
  <2>2. CASE ReadActive(c)
    BY <2>2 DEF ReadActive, IdleRemover, UpdaterState, RemoverState, FreeTask
  <2>3. CASE Touch(c)
    BY <2>3, SMTT(30)
       DEF Touch, IdleRemover, UpdaterState, RemoverState, FreeTask
  <2>4. CASE ReadToClean(c)
    BY <2>4, SMTT(30) DEF ReadToClean, UpdaterState, RemoverState, FreeTask
  <2>5. CASE DowngradeConfirmation(c)
    BY <2>5 DEF DowngradeConfirmation, UpdaterState, RemoverState, FreeTask,
            RemoversKnow, Removing, RemovalOrder, InstanceOnce, HeldFor,
            Active, DataAgree
  <2>6. CASE UnassignCleaned(c)
    BY <2>6 DEF UnassignCleaned, Goto, UpdaterState, RemoverState, FreeTask
  <2>7. CASE DeleteReservation(c)
    BY <2>7 DEF DeleteReservation, Goto, UpdaterState, RemoverState, FreeTask
  <2>8. CASE Unmap(c)
    BY <2>8 DEF Unmap, AfterDequeue, IdleRemover, UpdaterState, RemoverState,
            FreeTask
  <2>9. CASE Dequeue(c)
    BY <2>9 DEF Dequeue, AfterDequeue, IdleRemover, UpdaterState, RemoverState,
            FreeTask
  <2>10. CASE Purge(c)
    BY <2>10 DEF Purge, Goto, UpdaterState, RemoverState, FreeTask
  <2>11. CASE EnqueueFree(c)
    BY <2>11 DEF EnqueueFree, IdleRemover, UpdaterState, RemoverState,
             FreeTask, RemoversKnow
  <2>12. CASE ClearFinishing(c)
    BY <2>12 DEF ClearFinishing, IdleRemover, UpdaterState, RemoverState,
             FreeTask
  <2>13. QED
    BY <1>6, <2>1, <2>2, <2>3, <2>4, <2>5, <2>6, <2>7, <2>8, <2>9, <2>10,
            <2>11, <2>12 DEF Remove
<1>7. ASSUME NEW t \in frees, Free(t)
      PROVE  SlotHeldOnce'
  <2>1. CASE FreeInLab(t)
    BY <2>1 DEF FreeInLab, UpdaterState, RemoverState, FreeTask
  <2>2. CASE ConfirmDisposal(t)
    BY <2>2 DEF ConfirmDisposal, UpdaterState, RemoverState, FreeTask
  <2>3. QED
    BY <1>7, <2>1, <2>2 DEF Free
<1>8. ASSUME NEW t \in frees, NEW b \in Breakers, LabFailsToFree(t, b)
      PROVE  SlotHeldOnce'
  BY <1>8, SMTT(30) DEF LabFailsToFree, FreeTask, FreeTask
<1>9. ASSUME NEW b \in Breakers, Break(b)
      PROVE  SlotHeldOnce'
  <2>1. CASE FindCurrent(b)
    <3>1. UNCHANGED <<slots, up, rm, frees>>
      BY <2>1 DEF FindCurrent
    <3>2. QED
      BY <3>1
  <2>2. CASE RemoveCurrent(b)
    <3>1. UNCHANGED <<slots, up, rm, frees>>
      BY <2>2 DEF RemoveCurrent
    <3>2. QED
      BY <3>1
  <2>3. CASE DowngradeCurrent(b)
    <3>1. UNCHANGED <<slots, up, rm, frees>>
      BY <2>3 DEF DowngradeCurrent
    <3>2. QED
      BY <3>1
  <2>4. CASE ReleaseBroken(b)
    BY <2>4 DEF ReleaseBroken, BreakerGoto, UpdaterState, RemoverState,
            FreeTask, BreakersKnow, InstanceOnce, BreaksAt
  <2>5. CASE ReadBroken(b)
    <3>1. UNCHANGED <<slots, up, rm, frees>>
      BY <2>5 DEF ReadBroken
    <3>2. QED
      BY <3>1
  <2>6. CASE WriteWaiting(b)
    <3>1. UNCHANGED <<slots, up, rm, frees>>
      BY <2>6 DEF WriteWaiting
    <3>2. QED
      BY <3>1
  <2>7. CASE Requeue(b)
    <3>1. UNCHANGED <<slots, up, rm, frees>>
      BY <2>7 DEF Requeue
    <3>2. QED
      BY <3>1
  <2>8. CASE MarkBroken(b)
    <3>1. UNCHANGED <<slots, up, rm, frees>>
      BY <2>8 DEF MarkBroken
    <3>2. QED
      BY <3>1
  <2>9. QED
    BY <1>9, <2>1, <2>2, <2>3, <2>4, <2>5, <2>6, <2>7, <2>8 DEF Break
<1>10. ASSUME NEW b \in Breakers, NEW i \in Instances, BeginBreak(b, i)
      PROVE  SlotHeldOnce'
  BY <1>10 DEF BeginBreak
<1>11. ASSUME NEW i \in Instances, MarkFixed(i)
      PROVE  SlotHeldOnce'
  BY <1>11 DEF MarkFixed
<1>12. QED
  BY <1>1, <1>2, <1>3, <1>4, <1>5, <1>6, <1>7, <1>8, <1>9, <1>10, <1>11
     DEF Next, Begin

(* Whoever takes a reservation away from an instance also unassigns it.    *)
LEMMA AssignedStaysAgreed ==
  ASSUME ConstantsAssumption, UsersStay, TypeOK, FreshIsNowhere, RemovalOrder,
         DataAgree, QueueAgrees, UpdaterKnows, ConfirmersKnow, BreakersKnow,
         RemoversKnow, OneBreaks, AssignedAgree, Next
  PROVE  AssignedAgree'
<1> USE DEF TypeOK, KeyTypes, LabTypes, UpdaterTypes, RemoverTypes,
            BreakerTypes, keys, lab, AssignedAgree, HeldFor, Active,
            RemoverHolds
<1>1. ASSUME NEW r \in Reservations, Reserve(r)
      PROVE  AssignedAgree'
  BY <1>1 DEF Reserve, UpdaterState, RemoverState, FreshIsNowhere, NoData
<1>2. ASSUME NEW u \in Updaters, Update(u)
      PROVE  AssignedAgree'
  <2>0. \A v \in Updaters : v = u
    BY DEF UsersStay
  <2>1. CASE PickFirst(u)
    BY <2>1, <2>0 DEF PickFirst, Untried, UpdaterState, RemoverState
  <2>2. CASE NobodyWaiting(u)
    <3>1. \A v \in Updaters :
            up[v].pc \notin {"read", "set", "unsuitable", "release", "unassign"}
      BY <2>2, <2>0 DEF NobodyWaiting
    <3>2. UNCHANGED <<assigned, pqdata, current, rm>>
      BY <2>2, <2>0 DEF NobodyWaiting
    <3>3. QED
      BY <3>1, <3>2
  <2>3. CASE ListFreeInstances(u)
    <3>1. \A v \in Updaters :
            up[v].pc \notin {"read", "set", "unsuitable", "release", "unassign"}
      BY <2>3, <2>0 DEF ListFreeInstances
    <3>2. UNCHANGED <<assigned, pqdata, current, rm>>
      BY <2>3, <2>0 DEF ListFreeInstances
    <3>3. QED
      BY <3>1, <3>2
  <2>4. CASE TryInstance(u)
    BY <2>4, <2>0, SMTT(30) DEF TryInstance, UpdaterState, RemoverState
  <2>5. CASE NoInstanceLeft(u)
    <3>1. \A v \in Updaters :
            up[v].pc \notin {"read", "set", "unsuitable", "release", "unassign"}
      BY <2>5, <2>0 DEF NoInstanceLeft
    <3>2. UNCHANGED <<assigned, pqdata, current, rm>>
      BY <2>5, <2>0 DEF NoInstanceLeft
    <3>3. QED
      BY <3>1, <3>2
  <2>6. CASE CheckExists(u)
    BY <2>6, <2>0, SMTT(30)
       DEF CheckExists, IdleUpdater, UpdaterState, RemoverState
  <2>7. CASE SetCurrent(u)
    BY <2>7, <2>0, SMTT(30)
       DEF SetCurrent, NextRound, IdleUpdater, UpdaterState,
                  RemoverState
  <2>8. CASE AcquireResource(u)
    BY <2>8, <2>0 DEF AcquireResource, UpdaterState, RemoverState
  <2>9. CASE Unconfirm(u)
    BY <2>9, <2>0, SMTT(30)
       DEF Unconfirm, UpdaterState, RemoverState, UpdaterKnows,
                  TakesCare, Confirming
  <2>10. CASE AssignInstance(u)
    BY <2>10, <2>0, SMTT(30) DEF AssignInstance, UpdaterState, RemoverState
  <2>11. CASE ReadReservation(u)
    BY <2>11, <2>0 DEF ReadReservation, UpdaterState, RemoverState,
                   UpdaterKnows, TakesCare, DataAgree
  <2>12. CASE DowngradeUnsuitable(u)
    BY <2>12, <2>0 DEF DowngradeUnsuitable, UpdaterState, RemoverState,
                   UpdaterKnows, TakesCare, Confirming
  <2>13. CASE ReleaseAcquired(u)
    BY <2>13, <2>0 DEF ReleaseAcquired, UpdaterState, RemoverState
  <2>14. CASE Unassign(u)
    BY <2>14, <2>0 DEF Unassign, NextRound, IdleUpdater, UpdaterState,
                   RemoverState
  <2>15. CASE SetWaitingConfirmation(u)
    <3>1. PICK r \in Reservations, i \in Instances : r = up[u].r /\ i = up[u].i
      BY <2>15, <2>0 DEF SetWaitingConfirmation
    <3>2. UpdaterHolds(u, i)
      BY <2>15, <2>0, <3>1 DEF SetWaitingConfirmation, UpdaterHolds,
         UpdaterState
    <3>3. /\ pqdata'[r].inst = i /\ Active(pqdata'[r])
          /\ \A q \in Reservations \ {r} : pqdata'[q] = pqdata[q]
      BY <2>15, <2>0, <3>1 DEF SetWaitingConfirmation, UpdaterState, Data
    <3>4. r \in current
      BY <2>15, <2>0, <3>1 DEF SetWaitingConfirmation, UpdaterKnows, TakesCare,
         Confirming
    <3>5. UNCHANGED <<assigned, current, rm>>
      BY <2>15, <2>0 DEF SetWaitingConfirmation
    <3>6. \A j \in Instances, q \in Reservations :
              q # r /\ HeldFor(q, j) => HeldFor(q, j)'
      BY <3>3, <3>5
    <3>7. HeldFor(r, i)'
      BY <3>3, <3>4, <3>5
    <3>8. \A j \in Instances : ~HeldFor(r, j)
      BY <2>15, <2>0, <3>1 DEF SetWaitingConfirmation, UpdaterKnows, TakesCare
    <3>9. \A v \in Updaters : v = u
      BY DEF UsersStay
    <3> HIDE DEF HeldFor
    <3>10. QED
      BY <3>1, <3>5, <3>6, <3>7, <3>8, <3>9
  <2>16. CASE DequeueAndConfirm(u)
    BY <2>16, <2>0 DEF DequeueAndConfirm, NextRound, IdleUpdater, UpdaterState,
                   RemoverState, UpdaterKnows, TakesCare
  <2>17. QED
    BY <1>2, <2>1, <2>2, <2>3, <2>4, <2>5, <2>6, <2>7, <2>8, <2>9, <2>10,
            <2>11, <2>12, <2>13, <2>14, <2>15, <2>16 DEF Update
<1>3. ASSUME NEW t \in confirms, Confirm(t)
      PROVE  AssignedAgree'
  <2>1. CASE ReserveInLab(t)
    <3>1. UNCHANGED <<assigned, pqdata, current, up, rm>>
      BY <2>1 DEF ReserveInLab
    <3>2. QED
      BY <3>1
  <2>2. CASE PutInitial(t)
    <3>1. UNCHANGED <<assigned, pqdata, current, up, rm>>
      BY <2>2 DEF PutInitial
    <3>2. QED
      BY <3>1
  <2>3. CASE ReadToConfirm(t)
    <3>1. UNCHANGED <<assigned, pqdata, current, up, rm>>
      BY <2>3 DEF ReadToConfirm
    <3>2. QED
      BY <3>1
  <2>4. CASE WriteReserved(t)
    <3>1. t.r \in Reservations /\ t.data.inst = t.i /\ HeldFor(t.r, t.i)
      BY <2>4 DEF WriteReserved, ConfirmersKnow, ConfirmTask
    <3>2. /\ pqdata'[t.r].active = "reserved" /\ pqdata'[t.r].inst = t.i
          /\ \A r \in Reservations \ {t.r} : pqdata'[r] = pqdata[r]
      BY <2>4, <3>1 DEF WriteReserved, ConfirmTask, Data
    <3>3. UNCHANGED <<assigned, current, up, rm>>
      BY <2>4 DEF WriteReserved
    <3>4. \A i \in Instances, r \in Reservations :
              HeldFor(r, i) => HeldFor(r, i)'
      BY <3>1, <3>2, <3>3
    <3> HIDE DEF HeldFor
    <3>5. QED
      BY <3>3, <3>4
  <2>5. QED
    BY <1>3, <2>1, <2>2, <2>3, <2>4 DEF Confirm
<1>4. ASSUME NEW t \in confirms, NEW b \in Breakers, LabFailsToReserve(t, b)
      PROVE  AssignedAgree'
  BY <1>4 DEF LabFailsToReserve, End
<1>5. ASSUME NEW c \in Removers, NEW r \in Reservations,
             \/ BeginFinish(c, r) \/ BeginExpire(c, r)
             \/ BeginDrop(c, r) \/ BeginPoll(c, r)
      PROVE  AssignedAgree'
  <2>1. CASE BeginFinish(c, r)
    BY <2>1 DEF BeginFinish, IdleRemover, UpdaterState, RemoverState
  <2>2. CASE BeginExpire(c, r)
    BY <2>2 DEF BeginExpire, IdleRemover, UpdaterState, RemoverState
  <2>3. CASE BeginDrop(c, r)
    BY <2>3 DEF BeginDrop, IdleRemover, UpdaterState, RemoverState
  <2>4. CASE BeginPoll(c, r)
    BY <2>4 DEF BeginPoll, IdleRemover, UpdaterState, RemoverState
  <2>5. QED
    BY <1>5, <2>1, <2>2, <2>3, <2>4
<1>6. ASSUME NEW c \in Removers, Remove(c)
      PROVE  AssignedAgree'
  <2>1. CASE FindAggregator(c)
    BY <2>1 DEF FindAggregator, Goto, UpdaterState, RemoverState
  <2>2. CASE ReadActive(c)
    BY <2>2 DEF ReadActive, IdleRemover, UpdaterState, RemoverState
  <2>3. CASE Touch(c)
    BY <2>3 DEF Touch, IdleRemover, UpdaterState, RemoverState
  <2>4. CASE ReadToClean(c)
    BY <2>4, SMTT(30) DEF ReadToClean, UpdaterState, RemoverState
  <2>5. CASE DowngradeConfirmation(c)
    BY <2>5 DEF DowngradeConfirmation, UpdaterState, RemoverState,
            RemoversKnow, Removing, RemovalOrder, DataAgree
  <2>6. CASE UnassignCleaned(c)
    BY <2>6 DEF UnassignCleaned, Goto, UpdaterState, RemoverState
  <2>7. CASE DeleteReservation(c)
    BY <2>7, SMTT(30)
       DEF DeleteReservation, Goto, UpdaterState, RemoverState, NoData
  <2>8. CASE Unmap(c)
    BY <2>8 DEF Unmap, AfterDequeue, IdleRemover, UpdaterState, RemoverState
  <2>9. CASE Dequeue(c)
    BY <2>9, SMTT(30)
       DEF Dequeue, AfterDequeue, IdleRemover, UpdaterState, RemoverState
  <2>10. CASE Purge(c)
    <3>1. rm[c].r \in Reservations /\ rm[c].r \notin current
      BY <2>10 DEF Purge, RemoversKnow, Removing, DataAgree
    <3>2. current' = current /\ UNCHANGED <<assigned, pqdata, up>>
      BY <2>10, <3>1 DEF Purge
    <3>3. \A d \in Removers : rm[d].pc = "unassign" => rm'[d] = rm[d]
      BY <2>10 DEF Purge, Goto
    <3>4. \A i \in Instances, r \in Reservations :
              HeldFor(r, i) => HeldFor(r, i)'
      BY <3>2
    <3> HIDE DEF HeldFor
    <3>5. QED
      BY <3>2, <3>3, <3>4
  <2>11. CASE EnqueueFree(c)
    BY <2>11 DEF EnqueueFree, IdleRemover, UpdaterState, RemoverState
  <2>12. CASE ClearFinishing(c)
    BY <2>12 DEF ClearFinishing, IdleRemover, UpdaterState, RemoverState
  <2>13. QED
    BY <1>6, <2>1, <2>2, <2>3, <2>4, <2>5, <2>6, <2>7, <2>8, <2>9, <2>10,
            <2>11, <2>12 DEF Remove
<1>7. ASSUME NEW t \in frees, Free(t)
      PROVE  AssignedAgree'
  <2>1. UNCHANGED <<assigned, pqdata, current, up, rm>>
    BY <1>7 DEF Free, FreeInLab, ConfirmDisposal
  <2>2. QED
    BY <2>1
<1>8. ASSUME NEW t \in frees, NEW b \in Breakers, LabFailsToFree(t, b)
      PROVE  AssignedAgree'
  BY <1>8 DEF LabFailsToFree
<1>9. ASSUME NEW b \in Breakers, Break(b)
      PROVE  AssignedAgree'
  <2>1. CASE FindCurrent(b)
    <3>1. UNCHANGED <<assigned, pqdata, current, up, rm>>
      BY <2>1 DEF FindCurrent
    <3>2. QED
      BY <3>1
  <2>2. CASE RemoveCurrent(b)
    BY <2>2 DEF RemoveCurrent, IdleBreaker, UpdaterState, RemoverState
  <2>3. CASE DowngradeCurrent(b)
    BY <2>3 DEF DowngradeCurrent, BreakerGoto, UpdaterState, RemoverState,
            BreakersKnow
  <2>4. CASE ReleaseBroken(b)
    <3>1. UNCHANGED <<assigned, pqdata, current, up, rm>>
      BY <2>4 DEF ReleaseBroken
    <3>2. QED
      BY <3>1
  <2>5. CASE ReadBroken(b)
    <3>1. UNCHANGED <<assigned, pqdata, current, up, rm>>
      BY <2>5 DEF ReadBroken
    <3>2. QED
      BY <3>1
  <2>6. CASE WriteWaiting(b)
    BY <2>6 DEF WriteWaiting, BreakerGoto, UpdaterState, RemoverState,
            BreakersKnow
  <2>7. CASE Requeue(b)
    <3>1. UNCHANGED <<assigned, pqdata, current, up, rm>>
      BY <2>7 DEF Requeue
    <3>2. QED
      BY <3>1
  <2>8. CASE MarkBroken(b)
    <3>1. UNCHANGED <<assigned, pqdata, current, up, rm>>
      BY <2>8 DEF MarkBroken
    <3>2. QED
      BY <3>1
  <2>9. QED
    BY <1>9, <2>1, <2>2, <2>3, <2>4, <2>5, <2>6, <2>7, <2>8 DEF Break
<1>10. ASSUME NEW b \in Breakers, NEW i \in Instances, BeginBreak(b, i)
      PROVE  AssignedAgree'
  BY <1>10 DEF BeginBreak, UsersStay
<1>11. ASSUME NEW i \in Instances, MarkFixed(i)
      PROVE  AssignedAgree'
  BY <1>11 DEF MarkFixed
<1>12. QED
  BY <1>1, <1>2, <1>3, <1>4, <1>5, <1>6, <1>7, <1>8, <1>9, <1>10, <1>11
     DEF Next, Begin

(* Whoever leaves the queue has been promoted, whoever loses his instance  *)
(* has a breaker to put him back or a remover to delete him.               *)
LEMMA NobodyGoesAdrift ==
  ASSUME ConstantsAssumption, UsersStay, TypeOK, FreshIsNowhere, RemovalOrder,
         DataAgree, QueueAgrees, UpdaterKnows, ConfirmersKnow, BreakersKnow,
         RemoversKnow, NobodyAdrift, Next
  PROVE  NobodyAdrift'
<1> USE DEF TypeOK, KeyTypes, LabTypes, UpdaterTypes, RemoverTypes,
            BreakerTypes, keys, lab, NobodyAdrift, RemovedBy, Removing
<1>1. ASSUME NEW r \in Reservations, Reserve(r)
      PROVE  NobodyAdrift'
  <2>1. Queued' = Queued \cup {r}
    BY <1>1, QueuedWith DEF Reserve, Members
  <2>2. QED
    BY <1>1, <2>1 DEF Reserve
<1>2. ASSUME NEW u \in Updaters, Update(u)
      PROVE  NobodyAdrift'
  <2>1. CASE PickFirst(u)
    <3>1. UNCHANGED <<pqdata, stored, sorted, current, br, rm>>
      BY <2>1 DEF PickFirst
    <3>2. QED
      BY <3>1, QueuedSame
  <2>2. CASE NobodyWaiting(u)
    <3>1. UNCHANGED <<pqdata, stored, sorted, current, br, rm>>
      BY <2>2 DEF NobodyWaiting
    <3>2. QED
      BY <3>1, QueuedSame
  <2>3. CASE ListFreeInstances(u)
    <3>1. UNCHANGED <<pqdata, stored, sorted, current, br, rm>>
      BY <2>3 DEF ListFreeInstances
    <3>2. QED
      BY <3>1, QueuedSame
  <2>4. CASE TryInstance(u)
    <3>1. UNCHANGED <<pqdata, stored, sorted, current, br, rm>>
      BY <2>4 DEF TryInstance
    <3>2. QED
      BY <3>1, QueuedSame
  <2>5. CASE NoInstanceLeft(u)
    <3>1. UNCHANGED <<pqdata, stored, sorted, current, br, rm>>
      BY <2>5 DEF NoInstanceLeft
    <3>2. QED
      BY <3>1, QueuedSame
  <2>6. CASE CheckExists(u)
    <3>1. UNCHANGED <<pqdata, stored, sorted, current, br, rm>>
      BY <2>6 DEF CheckExists
    <3>2. QED
      BY <3>1, QueuedSame
  <2>7. CASE SetCurrent(u)
    BY <2>7, QueuedSame DEF SetCurrent, NextRound, IdleUpdater, BreakerState,
                        RemoverState
  <2>8. CASE AcquireResource(u)
    <3>1. UNCHANGED <<pqdata, stored, sorted, current, br, rm>>
      BY <2>8 DEF AcquireResource
    <3>2. QED
      BY <3>1, QueuedSame
  <2>9. CASE Unconfirm(u)
    BY <2>9, QueuedSame DEF Unconfirm, BreakerState, RemoverState,
                        UpdaterKnows, TakesCare, Confirming
  <2>10. CASE AssignInstance(u)
    <3>1. UNCHANGED <<pqdata, stored, sorted, current, br, rm>>
      BY <2>10 DEF AssignInstance
    <3>2. QED
      BY <3>1, QueuedSame
  <2>11. CASE ReadReservation(u)
    <3>1. UNCHANGED <<pqdata, stored, sorted, current, br, rm>>
      BY <2>11 DEF ReadReservation
    <3>2. QED
      BY <3>1, QueuedSame
  <2>12. CASE DowngradeUnsuitable(u)
    BY <2>12, QueuedSame DEF DowngradeUnsuitable, BreakerState, RemoverState,
                         UpdaterKnows, TakesCare, Confirming
  <2>13. CASE ReleaseAcquired(u)
    <3>1. UNCHANGED <<pqdata, stored, sorted, current, br, rm>>
      BY <2>13 DEF ReleaseAcquired
    <3>2. QED
      BY <3>1, QueuedSame
  <2>14. CASE Unassign(u)
    <3>1. UNCHANGED <<pqdata, stored, sorted, current, br, rm>>
      BY <2>14 DEF Unassign
    <3>2. QED
      BY <3>1, QueuedSame
  <2>15. CASE SetWaitingConfirmation(u)
    BY <2>15, QueuedSame DEF SetWaitingConfirmation, BreakerState,
                         RemoverState, UpdaterKnows, TakesCare, Confirming,
                         UpdaterState, Data
  <2>16. CASE DequeueAndConfirm(u)
    <3>1. Queued' = Queued \ {up[u].r}
      BY <2>16, QueuedWithout
         DEF DequeueAndConfirm, MemberOf, DataAgree, UpdaterKnows, TakesCare,
            Members
    <3>2. QED
      BY <2>16, <3>1 DEF DequeueAndConfirm, NextRound, IdleUpdater,
         UpdaterKnows, TakesCare, HeldFor
  <2>17. QED
    BY <1>2, <2>1, <2>2, <2>3, <2>4, <2>5, <2>6, <2>7, <2>8, <2>9, <2>10,
            <2>11, <2>12, <2>13, <2>14, <2>15, <2>16 DEF Update
<1>3. ASSUME NEW t \in confirms, Confirm(t)
      PROVE  NobodyAdrift'
  <2>1. CASE ReserveInLab(t)
    <3>1. UNCHANGED <<pqdata, stored, sorted, current, br, rm>>
      BY <2>1 DEF ReserveInLab
    <3>2. QED
      BY <3>1, QueuedSame
  <2>2. CASE PutInitial(t)
    <3>1. UNCHANGED <<pqdata, stored, sorted, current, br, rm>>
      BY <2>2 DEF PutInitial
    <3>2. QED
      BY <3>1, QueuedSame
  <2>3. CASE ReadToConfirm(t)
    <3>1. UNCHANGED <<pqdata, stored, sorted, current, br, rm>>
      BY <2>3 DEF ReadToConfirm
    <3>2. QED
      BY <3>1, QueuedSame
  <2>4. CASE WriteReserved(t)
    BY <2>4, QueuedSame DEF WriteReserved, End, BreakerState, RemoverState,
                        ConfirmersKnow, ConfirmTask, Data, HeldFor, Active
  <2>5. QED
    BY <1>3, <2>1, <2>2, <2>3, <2>4 DEF Confirm
<1>4. ASSUME NEW t \in confirms, NEW b \in Breakers, LabFailsToReserve(t, b)
      PROVE  NobodyAdrift'
  <2>1. \A a \in Breakers :
          br[a].pc \in {"release", "read", "write", "requeue"} => br'[a] = br[a]
    BY <1>4 DEF LabFailsToReserve
  <2>2. Queued' = Queued /\ UNCHANGED <<pqdata, stored, current, rm>>
    BY <1>4, QueuedSame DEF LabFailsToReserve
  <2>3. QED
    BY <2>1, <2>2
<1>5. ASSUME NEW c \in Removers, NEW r \in Reservations,
             \/ BeginFinish(c, r) \/ BeginExpire(c, r)
             \/ BeginDrop(c, r) \/ BeginPoll(c, r)
      PROVE  NobodyAdrift'
  <2>1. CASE BeginFinish(c, r)
    BY <2>1, QueuedSame DEF BeginFinish, IdleRemover, BreakerState,
                        RemoverState
  <2>2. CASE BeginExpire(c, r)
    BY <2>2, QueuedSame DEF BeginExpire, IdleRemover, BreakerState,
                        RemoverState
  <2>3. CASE BeginDrop(c, r)
    BY <2>3, QueuedSame DEF BeginDrop, IdleRemover, BreakerState, RemoverState
  <2>4. CASE BeginPoll(c, r)
    BY <2>4, QueuedSame DEF BeginPoll, IdleRemover, BreakerState, RemoverState
  <2>5. QED
    BY <1>5, <2>1, <2>2, <2>3, <2>4
<1>6. ASSUME NEW c \in Removers, Remove(c)
      PROVE  NobodyAdrift'
  <2>1. CASE FindAggregator(c)
    BY <2>1, QueuedSame DEF FindAggregator, Goto, BreakerState, RemoverState
  <2>2. CASE ReadActive(c)
    BY <2>2, QueuedSame DEF ReadActive, IdleRemover, BreakerState,
                        RemoverState, RemoversKnow
  <2>3. CASE Touch(c)
    BY <2>3, QueuedSame DEF Touch, IdleRemover, BreakerState, RemoverState,
                        RemovalOrder
  <2>4. CASE ReadToClean(c)
    BY <2>4, QueuedSame DEF ReadToClean, BreakerState, RemoverState
  <2>5. CASE DowngradeConfirmation(c)
    BY <2>5, QueuedSame DEF DowngradeConfirmation, BreakerState, RemoverState,
                        RemoversKnow, RemovalOrder
  <2>6. CASE UnassignCleaned(c)
    BY <2>6, QueuedSame DEF UnassignCleaned, Goto, BreakerState, RemoverState
  <2>7. CASE DeleteReservation(c)
    BY <2>7, QueuedSame DEF DeleteReservation, Goto, BreakerState,
                        RemoverState, NoData, RemoversKnow, RemovalOrder
  <2>8. CASE Unmap(c)
    <3>1. Queued' = Queued \/ Queued' = Queued \ {NoneMember}
      BY <2>8, QueuedWithout, QueuedSame DEF Unmap, Members
    <3>2. NoneMember \notin Reservations
      BY DEF NoneMember, Reservations
    <3>3. QED
      BY <2>8, <3>1, <3>2 DEF Unmap, AfterDequeue, IdleRemover, RemoverState
  <2>9. CASE Dequeue(c)
    <3>1. rm[c].r \in Reservations /\ Queued' = Queued \ {rm[c].r}
      BY <2>9, QueuedWithout DEF Dequeue, Members
    <3>2. pqdata[rm[c].r].active # "waiting"
      BY <2>9 DEF Dequeue, RemoversKnow, DataAgree
    <3>3. \A d \in Removers, r \in Reservations :
              RemovedBy(d, r) => RemovedBy(d, r)'
      BY <2>9 DEF Dequeue, AfterDequeue, IdleRemover, RemoverState,
         RemoversKnow
    <3>4. UNCHANGED <<pqdata, stored, current, br>>
      BY <2>9 DEF Dequeue
    <3> HIDE DEF RemovedBy
    <3>5. QED
      BY <3>1, <3>2, <3>3, <3>4
  <2>10. CASE Purge(c)
    BY <2>10, QueuedSame DEF Purge, Goto, BreakerState, RemoverState,
                         RemoversKnow, DataAgree
  <2>11. CASE EnqueueFree(c)
    BY <2>11, QueuedSame DEF EnqueueFree, IdleRemover, BreakerState,
                         RemoverState, RemovalOrder, RemoversKnow
  <2>12. CASE ClearFinishing(c)
    BY <2>12, QueuedSame DEF ClearFinishing, IdleRemover, BreakerState,
                         RemoverState, RemoversKnow
  <2>13. QED
    BY <1>6, <2>1, <2>2, <2>3, <2>4, <2>5, <2>6, <2>7, <2>8, <2>9, <2>10,
            <2>11, <2>12 DEF Remove
<1>7. ASSUME NEW t \in frees, Free(t)
      PROVE  NobodyAdrift'
  <2>1. UNCHANGED <<pqdata, stored, sorted, current, br, rm>>
    BY <1>7 DEF Free, FreeInLab, ConfirmDisposal
  <2>2. QED
    BY <2>1, QueuedSame
<1>8. ASSUME NEW t \in frees, NEW b \in Breakers, LabFailsToFree(t, b)
      PROVE  NobodyAdrift'
  <2>1. \A a \in Breakers :
          br[a].pc \in {"release", "read", "write", "requeue"} => br'[a] = br[a]
    BY <1>8 DEF LabFailsToFree
  <2>2. Queued' = Queued /\ UNCHANGED <<pqdata, stored, current, rm>>
    BY <1>8, QueuedSame DEF LabFailsToFree
  <2>3. QED
    BY <2>1, <2>2
<1>9. ASSUME NEW b \in Breakers, Break(b)
      PROVE  NobodyAdrift'
  <2>1. CASE FindCurrent(b)
    BY <2>1, QueuedSame DEF FindCurrent, BreakerGoto, BreakerState,
                        RemoverState
  <2>2. CASE RemoveCurrent(b)
    BY <2>2, QueuedSame DEF RemoveCurrent, IdleBreaker, BreakerState,
                        RemoverState
  <2>3. CASE DowngradeCurrent(b)
    BY <2>3, QueuedSame DEF DowngradeCurrent, BreakerGoto, BreakerState,
                        RemoverState, BreakersKnow
  <2>4. CASE ReleaseBroken(b)
    BY <2>4, QueuedSame DEF ReleaseBroken, BreakerGoto, BreakerState,
                        RemoverState
  <2>5. CASE ReadBroken(b)
    BY <2>5, QueuedSame DEF ReadBroken, IdleBreaker, BreakerState,
                        RemoverState, BreakersKnow
  <2>6. CASE WriteWaiting(b)
    BY <2>6, QueuedSame DEF WriteWaiting, BreakerGoto, BreakerState,
                        RemoverState, BreakersKnow, Data
  <2>7. CASE Requeue(b)
    <3>1. br[b].r \in Reservations /\ Queued' = Queued \cup {br[b].r}
      BY <2>7, QueuedWith DEF Requeue, MemberOf, DataAgree, BreakersKnow,
         Members, Requeued
    <3>2. QED
      BY <2>7, <3>1 DEF Requeue, IdleBreaker, BreakerState
  <2>8. CASE MarkBroken(b)
    BY <2>8, QueuedSame DEF MarkBroken, IdleBreaker, BreakerState, RemoverState
  <2>9. QED
    BY <1>9, <2>1, <2>2, <2>3, <2>4, <2>5, <2>6, <2>7, <2>8 DEF Break
<1>10. ASSUME NEW b \in Breakers, NEW i \in Instances, BeginBreak(b, i)
      PROVE  NobodyAdrift'
  BY <1>10, QueuedSame DEF BeginBreak, BreakerState, UsersStay
<1>11. ASSUME NEW i \in Instances, MarkFixed(i)
      PROVE  NobodyAdrift'
  BY <1>11, QueuedSame DEF MarkFixed
<1>12. QED
  BY <1>1, <1>2, <1>3, <1>4, <1>5, <1>6, <1>7, <1>8, <1>9, <1>10, <1>11
     DEF Next, Begin

(* The session of a reservation is closed only once its data are deleted.  *)
LEMMA SessionsStayReady ==
  ASSUME ConstantsAssumption, UsersStay, TypeOK, FreshIsNowhere, RemovalOrder,
         DataAgree, QueueAgrees, UpdaterKnows, ConfirmersKnow, BreakersKnow,
         RemoversKnow, ClosedIsPurged, SessionsReady, Next
  PROVE  SessionsReady'
<1> USE DEF TypeOK, KeyTypes, LabTypes, UpdaterTypes, RemoverTypes,
            BreakerTypes, keys, lab, SessionsReady, RemovedBy, Removing
<1>1. ASSUME NEW r \in Reservations, Reserve(r)
      PROVE  SessionsReady'
  BY <1>1 DEF Reserve, ConfirmTask, RemoverState, NoData
<1>2. ASSUME NEW u \in Updaters, Update(u)
      PROVE  SessionsReady'
  <2>1. CASE PickFirst(u)
    <3>1. UNCHANGED <<confirms, sessions, initial, pqdata, rm>>
      BY <2>1 DEF PickFirst
    <3>2. QED
      BY <3>1
  <2>2. CASE NobodyWaiting(u)
    <3>1. UNCHANGED <<confirms, sessions, initial, pqdata, rm>>
      BY <2>2 DEF NobodyWaiting
    <3>2. QED
      BY <3>1
  <2>3. CASE ListFreeInstances(u)
    <3>1. UNCHANGED <<confirms, sessions, initial, pqdata, rm>>
      BY <2>3 DEF ListFreeInstances
    <3>2. QED
      BY <3>1
  <2>4. CASE TryInstance(u)
    <3>1. UNCHANGED <<confirms, sessions, initial, pqdata, rm>>
      BY <2>4 DEF TryInstance
    <3>2. QED
      BY <3>1
  <2>5. CASE NoInstanceLeft(u)
    <3>1. UNCHANGED <<confirms, sessions, initial, pqdata, rm>>
      BY <2>5 DEF NoInstanceLeft
    <3>2. QED
      BY <3>1
  <2>6. CASE CheckExists(u)
    <3>1. UNCHANGED <<confirms, sessions, initial, pqdata, rm>>
      BY <2>6 DEF CheckExists
    <3>2. QED
      BY <3>1
  <2>7. CASE SetCurrent(u)
    <3>1. UNCHANGED <<confirms, sessions, initial, pqdata, rm>>
      BY <2>7 DEF SetCurrent
    <3>2. QED
      BY <3>1
  <2>8. CASE AcquireResource(u)
    <3>1. UNCHANGED <<confirms, sessions, initial, pqdata, rm>>
      BY <2>8 DEF AcquireResource
    <3>2. QED
      BY <3>1
  <2>9. CASE Unconfirm(u)
    <3>1. UNCHANGED <<confirms, sessions, initial, pqdata, rm>>
      BY <2>9 DEF Unconfirm
    <3>2. QED
      BY <3>1
  <2>10. CASE AssignInstance(u)
    <3>1. UNCHANGED <<confirms, sessions, initial, pqdata, rm>>
      BY <2>10 DEF AssignInstance
    <3>2. QED
      BY <3>1
  <2>11. CASE ReadReservation(u)
    <3>1. UNCHANGED <<confirms, sessions, initial, pqdata, rm>>
      BY <2>11 DEF ReadReservation
    <3>2. QED
      BY <3>1
  <2>12. CASE DowngradeUnsuitable(u)
    <3>1. UNCHANGED <<confirms, sessions, initial, pqdata, rm>>
      BY <2>12 DEF DowngradeUnsuitable
    <3>2. QED
      BY <3>1
  <2>13. CASE ReleaseAcquired(u)
    <3>1. UNCHANGED <<confirms, sessions, initial, pqdata, rm>>
      BY <2>13 DEF ReleaseAcquired
    <3>2. QED
      BY <3>1
  <2>14. CASE Unassign(u)
    <3>1. UNCHANGED <<confirms, sessions, initial, pqdata, rm>>
      BY <2>14 DEF Unassign
    <3>2. QED
      BY <3>1
  <2>15. CASE SetWaitingConfirmation(u)
    BY <2>15 DEF SetWaitingConfirmation, ConfirmTask, RemoverState,
             UpdaterKnows, TakesCare, UpdaterState, Data
  <2>16. CASE DequeueAndConfirm(u)
    BY <2>16 DEF DequeueAndConfirm, NextRound, IdleUpdater, ConfirmTask,
             RemoverState
  <2>17. QED
    BY <1>2, <2>1, <2>2, <2>3, <2>4, <2>5, <2>6, <2>7, <2>8, <2>9, <2>10,
            <2>11, <2>12, <2>13, <2>14, <2>15, <2>16 DEF Update
<1>3. ASSUME NEW t \in confirms, Confirm(t)
      PROVE  SessionsReady'
  <2>1. CASE ReserveInLab(t)
    <3> DEFINE s == [t EXCEPT !.pc = "confirm"]
    <3>1. s.r = t.r /\ s.i = t.i /\ s.pc = "confirm"
      BY DEF ConfirmTask
    <3>2. confirms' = (confirms \ {t}) \cup {s}
      BY <2>1 DEF ReserveInLab, Step
    <3>3. t.i \in Instances /\ \A i \in Instances :
                                   sessions[i] \subseteq sessions'[i]
      BY <2>1 DEF ReserveInLab, ConfirmTask
    <3>4. t.r \in sessions'[t.i]
      BY <2>1, <3>3 DEF ReserveInLab
    <3>5. \A r \in Reservations :
              pqdata[r].active = "reserved" => pqdata[r].inst \in Instances
      BY DEF DataAgree, Active
    <3>6. \A q \in confirms : q.i \in Instances
      BY DEF ConfirmTask
    <3>7. UNCHANGED <<initial, pqdata, rm>>
      BY <2>1 DEF ReserveInLab
    <3> HIDE DEF s
    <3>8. QED
      BY <3>1, <3>2, <3>3, <3>4, <3>5, <3>6, <3>7
  <2>2. CASE PutInitial(t)
    <3> DEFINE s == [t EXCEPT !.pc = "read"]
    <3>1. s.r = t.r /\ s.i = t.i /\ s.pc = "read" /\ t.pc = "confirm"
      BY <2>2 DEF PutInitial, ConfirmTask
    <3>2. /\ confirms' \subseteq (confirms \ {t}) \cup {s}
          /\ s \in confirms' \ confirms => t.r \in initial'
          /\ initial \subseteq initial'
      BY <2>2 DEF PutInitial, Step, End
    <3>3. UNCHANGED <<sessions, pqdata, rm>>
      BY <2>2 DEF PutInitial
    <3> HIDE DEF s
    <3>4. QED
      BY <3>1, <3>2, <3>3
  <2>3. CASE ReadToConfirm(t)
    <3> DEFINE s == [t EXCEPT !.pc = "write", !.data = pqdata[t.r]]
    <3>1. s.r = t.r /\ s.i = t.i /\ s.pc = "write" /\ s.data = pqdata[t.r]
      BY DEF ConfirmTask
    <3>2. confirms' \subseteq (confirms \ {t}) \cup {s}
      BY <2>3 DEF ReadToConfirm, End
    <3> HIDE DEF s
    <3>3. QED
      BY <2>3, <3>1, <3>2 DEF ReadToConfirm
  <2>4. CASE WriteReserved(t)
    BY <2>4 DEF WriteReserved, End, ConfirmTask, RemoverState, ConfirmersKnow,
            Data
  <2>5. QED
    BY <1>3, <2>1, <2>2, <2>3, <2>4 DEF Confirm
<1>4. ASSUME NEW t \in confirms, NEW b \in Breakers, LabFailsToReserve(t, b)
      PROVE  SessionsReady'
  <2>1. \A i \in Instances : sessions[i] \subseteq sessions'[i]
    BY <1>4 DEF LabFailsToReserve, ConfirmTask
  <2>2. \A r \in Reservations :
            pqdata[r].active = "reserved" => pqdata[r].inst \in Instances
    BY DEF DataAgree, Active
  <2>3. \A q \in confirms : q.i \in Instances
    BY DEF ConfirmTask
  <2>4. confirms' \subseteq confirms /\ UNCHANGED <<initial, pqdata, rm>>
    BY <1>4 DEF LabFailsToReserve, End
  <2>5. QED
    BY <2>1, <2>2, <2>3, <2>4
<1>5. ASSUME NEW c \in Removers, NEW r \in Reservations,
             \/ BeginFinish(c, r) \/ BeginExpire(c, r)
             \/ BeginDrop(c, r) \/ BeginPoll(c, r)
      PROVE  SessionsReady'
  <2>1. CASE BeginFinish(c, r)
    BY <2>1 DEF BeginFinish, IdleRemover, ConfirmTask, RemoverState
  <2>2. CASE BeginExpire(c, r)
    BY <2>2 DEF BeginExpire, IdleRemover, ConfirmTask, RemoverState
  <2>3. CASE BeginDrop(c, r)
    BY <2>3 DEF BeginDrop, IdleRemover, ConfirmTask, RemoverState
  <2>4. CASE BeginPoll(c, r)
    BY <2>4 DEF BeginPoll, IdleRemover, ConfirmTask, RemoverState
  <2>5. QED
    BY <1>5, <2>1, <2>2, <2>3, <2>4
<1>6. ASSUME NEW c \in Removers, Remove(c)
      PROVE  SessionsReady'
  <2>1. CASE FindAggregator(c)
    BY <2>1 DEF FindAggregator, Goto, ConfirmTask, RemoverState
  <2>2. CASE ReadActive(c)
    BY <2>2 DEF ReadActive, IdleRemover, ConfirmTask, RemoverState,
            RemoversKnow
  <2>3. CASE Touch(c)
    BY <2>3 DEF Touch, IdleRemover, ConfirmTask, RemoverState, RemovalOrder
  <2>4. CASE ReadToClean(c)
    BY <2>4 DEF ReadToClean, ConfirmTask, RemoverState
  <2>5. CASE DowngradeConfirmation(c)
    BY <2>5 DEF DowngradeConfirmation, ConfirmTask, RemoverState
  <2>6. CASE UnassignCleaned(c)
    BY <2>6 DEF UnassignCleaned, Goto, ConfirmTask, RemoverState
  <2>7. CASE DeleteReservation(c)
    BY <2>7 DEF DeleteReservation, Goto, ConfirmTask, RemoverState, NoData
  <2>8. CASE Unmap(c)
    BY <2>8 DEF Unmap, AfterDequeue, IdleRemover, ConfirmTask, RemoverState
  <2>9. CASE Dequeue(c)
    BY <2>9 DEF Dequeue, AfterDequeue, IdleRemover, ConfirmTask, RemoverState
  <2>10. CASE Purge(c)
    BY <2>10 DEF Purge, Goto, ConfirmTask, RemoverState
  <2>11. CASE EnqueueFree(c)
    BY <2>11 DEF EnqueueFree, IdleRemover, ConfirmTask, RemoverState,
             RemoversKnow
  <2>12. CASE ClearFinishing(c)
    BY <2>12 DEF ClearFinishing, IdleRemover, ConfirmTask, RemoverState,
             RemoversKnow
  <2>13. QED
    BY <1>6, <2>1, <2>2, <2>3, <2>4, <2>5, <2>6, <2>7, <2>8, <2>9, <2>10,
            <2>11, <2>12 DEF Remove
<1>7. ASSUME NEW t \in frees, Free(t)
      PROVE  SessionsReady'
  <2>1. CASE FreeInLab(t)
    <3>1. /\ t.r \in Reservations /\ pqdata[t.r].active # "confirming"
          /\ pqdata[t.r].active = "absent"
      BY DEF ClosedIsPurged, BeingPurged, DataAgree, RemoversKnow, Removing,
         FreeTask
    <3>2. /\ \A s \in confirms : s.r # t.r /\ s.i \in Instances
          /\ \A r \in Reservations :
                 pqdata[r].active = "reserved" =>
                   r # t.r /\ pqdata[r].inst \in Instances
      BY <3>1 DEF ConfirmersKnow, DataAgree, Active, ConfirmTask
    <3>3. \A i \in Instances :
              \A r \in sessions[i] : r # t.r => r \in sessions'[i]
      BY <2>1 DEF FreeInLab, FreeTask
    <3>4. UNCHANGED <<confirms, initial, pqdata, rm>>
      BY <2>1 DEF FreeInLab
    <3>5. QED
      BY <3>1, <3>2, <3>3, <3>4
  <2>2. CASE ConfirmDisposal(t)
    <3>1. UNCHANGED <<confirms, sessions, initial, pqdata, rm>>
      BY <2>2 DEF ConfirmDisposal
    <3>2. QED
      BY <3>1
  <2>3. QED
    BY <1>7, <2>1, <2>2 DEF Free
<1>8. ASSUME NEW t \in frees, NEW b \in Breakers, LabFailsToFree(t, b)
      PROVE  SessionsReady'
  <2>1. /\ t.r \in Reservations /\ pqdata[t.r].active # "confirming"
        /\ pqdata[t.r].active = "absent"
    BY DEF ClosedIsPurged, BeingPurged, DataAgree, RemoversKnow, Removing,
       FreeTask
  <2>2. /\ \A s \in confirms : s.r # t.r /\ s.i \in Instances
        /\ \A r \in Reservations :
               pqdata[r].active = "reserved" =>
                 r # t.r /\ pqdata[r].inst \in Instances
    BY <2>1 DEF ConfirmersKnow, DataAgree, Active, ConfirmTask
  <2>3. \A i \in Instances :
            \A r \in sessions[i] : r # t.r => r \in sessions'[i]
    BY <1>8 DEF LabFailsToFree, FreeTask
  <2>4. UNCHANGED <<confirms, initial, pqdata, rm>>
    BY <1>8 DEF LabFailsToFree
  <2>5. QED
    BY <2>1, <2>2, <2>3, <2>4
<1>9. ASSUME NEW b \in Breakers, Break(b)
      PROVE  SessionsReady'
  <2>1. CASE FindCurrent(b)
    <3>1. UNCHANGED <<confirms, sessions, initial, pqdata, rm>>
      BY <2>1 DEF FindCurrent
    <3>2. QED
      BY <3>1
  <2>2. CASE RemoveCurrent(b)
    <3>1. UNCHANGED <<confirms, sessions, initial, pqdata, rm>>
      BY <2>2 DEF RemoveCurrent
    <3>2. QED
      BY <3>1
  <2>3. CASE DowngradeCurrent(b)
    <3>1. UNCHANGED <<confirms, sessions, initial, pqdata, rm>>
      BY <2>3 DEF DowngradeCurrent
    <3>2. QED
      BY <3>1
  <2>4. CASE ReleaseBroken(b)
    <3>1. UNCHANGED <<confirms, sessions, initial, pqdata, rm>>
      BY <2>4 DEF ReleaseBroken
    <3>2. QED
      BY <3>1
  <2>5. CASE ReadBroken(b)
    <3>1. UNCHANGED <<confirms, sessions, initial, pqdata, rm>>
      BY <2>5 DEF ReadBroken
    <3>2. QED
      BY <3>1
  <2>6. CASE WriteWaiting(b)
    BY <2>6 DEF WriteWaiting, BreakerGoto, ConfirmTask, RemoverState, Data,
            BreakerState
  <2>7. CASE Requeue(b)
    <3>1. UNCHANGED <<confirms, sessions, initial, pqdata, rm>>
      BY <2>7 DEF Requeue
    <3>2. QED
      BY <3>1
  <2>8. CASE MarkBroken(b)
    <3>1. UNCHANGED <<confirms, sessions, initial, pqdata, rm>>
      BY <2>8 DEF MarkBroken
    <3>2. QED
      BY <3>1
  <2>9. QED
    BY <1>9, <2>1, <2>2, <2>3, <2>4, <2>5, <2>6, <2>7, <2>8 DEF Break
<1>10. ASSUME NEW b \in Breakers, NEW i \in Instances, BeginBreak(b, i)
      PROVE  SessionsReady'
  BY <1>10 DEF BeginBreak
<1>11. ASSUME NEW i \in Instances, MarkFixed(i)
      PROVE  SessionsReady'
  BY <1>11 DEF MarkFixed
<1>12. QED
  BY <1>1, <1>2, <1>3, <1>4, <1>5, <1>6, <1>7, <1>8, <1>9, <1>10, <1>11
     DEF Next, Begin

-----------------------------------------------------------------------------
(* The parts of the invariant keep each other, whatever the laboratory     *)
(* does.                                                                   *)
LEMMA StayIsKept ==
  ASSUME ConstantsAssumption, UsersStay, TypeOK, RemovalInvariant,
         StayInvariant, Next
  PROVE  StayInvariant'
<1>1. FreshIsNowhere /\ RemovalOrder /\ ClosedIsPurged
  BY DEF RemovalInvariant
<1>2. /\ DataAgree /\ QueueAgrees /\ UpdaterKnows /\ ConfirmersKnow
      /\ BreakersKnow /\ OneBreaks /\ RemoversKnow /\ InstanceOnce
      /\ AssignedAgree /\ SlotHeldOnce /\ NobodyAdrift /\ SessionsReady
  BY DEF StayInvariant
<1>3. DataAgree' /\ QueueAgrees' /\ UpdaterKnows' /\ ConfirmersKnow'
  BY <1>1, <1>2, DataStayAgreed, QueueStaysAgreed, UpdaterStaysKnowing,
     ConfirmersStayKnowing
<1>4. BreakersKnow' /\ OneBreaks' /\ RemoversKnow'
  BY <1>1, <1>2, BreakersStayKnowing, OneStaysBreaking, RemoversStayKnowing
<1>5. InstanceOnce' /\ SlotHeldOnce' /\ AssignedAgree'
  BY <1>1, <1>2, InstanceStaysOnce, SlotStaysHeldOnce, AssignedStaysAgreed
<1>6. NobodyAdrift' /\ SessionsReady'
  BY <1>1, <1>2, NobodyGoesAdrift, SessionsStayReady
<1>7. QED
  BY <1>3, <1>4, <1>5, <1>6 DEF StayInvariant

(* They hold at the beginning, so that together they are an invariant.     *)
LEMMA StayIsSound ==
  ASSUME UsersStay
  PROVE  Spec => []StayInvariant
<1>1. Init => StayInvariant
  BY ConstantsAssumption
     DEF Init, StayInvariant, DataAgree, QueueAgrees, UpdaterKnows, TakesCare,
         Confirming, ConfirmersKnow, BreakersKnow, BreaksAt, OneBreaks,
         RemoversKnow, Removing, InstanceOnce, HeldFor, UpdaterHolds,
         RemoverHolds, FreeHolds, AssignedAgree, SlotHeldOnce, NobodyAdrift,
         SessionsReady, Queued, Active, NoData, IdleUpdater, IdleRemover,
         IdleBreaker
<1>2. TypeOK /\ RemovalInvariant /\ StayInvariant /\ [Next]_vars
        => StayInvariant'
  <2>1. CASE Next
    BY <2>1, ConstantsAssumption, StayIsKept
  <2>2. CASE UNCHANGED vars
    BY <2>2
       DEF vars, keys, lab, StayInvariant, DataAgree, QueueAgrees,
           UpdaterKnows, TakesCare, Confirming, ConfirmersKnow, BreakersKnow,
           BreaksAt, OneBreaks, RemoversKnow, Removing, RemovedBy,
           InstanceOnce, HeldFor, UpdaterHolds, RemoverHolds, FreeHolds,
           AssignedAgree, SlotHeldOnce, NobodyAdrift, SessionsReady, Queued,
           Active
  <2>3. QED
    BY <2>1, <2>2
<1>3. QED
  BY <1>1, <1>2, TypeCorrect, RemovalsAreSound, PTL DEF Spec

-----------------------------------------------------------------------------
(* A reservation that nobody removes nor puts back has an instance only as *)
(* long as it is held for it.                                              *)
LEMMA UsedIsHeld ==
  ASSUME StayInvariant, NEW r \in Reservations, NEW i \in Instances, Using(r, i)
  PROVE  HeldFor(r, i)
BY DEF StayInvariant, NobodyAdrift, RemovedBy, Removing, Using, Alive, Active,
       HeldFor

(* No instance is given to two students although sessions expire and the   *)
(* laboratory fails, whoever waits and whatever breaks.                    *)
THEOREM StayNotShared ==
  ASSUME UsersStay
  PROVE  Spec => []NoSharedInstance
<1>1. StayInvariant => NoSharedInstance
  BY UsedIsHeld DEF StayInvariant, InstanceOnce, NoSharedInstance
<1>2. QED
  BY <1>1, StayIsSound, PTL

(* A slot is in the hands of one thread at most, also while breakers take  *)
(* instances from their users and sessions expire.                         *)
THEOREM StayHeldOnce ==
  ASSUME UsersStay
  PROVE  Spec => []SlotHeldOnce
<1>1. StayInvariant => SlotHeldOnce
  BY DEF StayInvariant
<1>2. QED
  BY <1>1, StayIsSound, PTL

(* Whoever loses his instance because it broke comes back to the queue: a  *)
(* student who waits is never left polling.                                *)
THEOREM StayRemembered ==
  ASSUME UsersStay
  PROVE  Spec => []NotForgotten
<1>1. TypeOK /\ StayInvariant => NotForgotten
  <2> SUFFICES ASSUME TypeOK, StayInvariant, NEW r \in Reservations, Alive(r)
               PROVE  r \in Queued \/ Active(pqdata[r])
    BY DEF NotForgotten
  <2>1. pqdata[r].active # "absent"
    BY DEF StayInvariant, NobodyAdrift, RemovedBy, Removing, Alive
  <2>2. pqdata[r].active = "waiting" => r \in Queued
    BY DEF StayInvariant, NobodyAdrift, Alive
  <2>3. QED
    BY <2>1, <2>2 DEF TypeOK, KeyTypes, Data, Active
<1>2. QED
  BY <1>1, StayIsSound, TypeCorrect, PTL

(* Whoever is told that he is in has his session and his usage, and keeps  *)
(* them until somebody removes him, although other calls fail.             *)
THEOREM StayInLaboratory ==
  ASSUME UsersStay
  PROVE  Spec => []ReservedHasSession
<1>1. StayInvariant => ReservedHasSession
  BY DEF StayInvariant, SessionsReady, RemovedBy, Removing, Using, Alive,
         ReservedHasSession
<1>2. QED
  BY <1>1, StayIsSound, PTL

(* A laboratory that only fails to free an experiment breaks an instance   *)
(* that is held for nobody, so that its breaker finds nobody there.        *)
LEMMA NobodyStaysBreaking ==
  ASSUME ConstantsAssumption, UsersStay, "reserve" \notin Failures, TypeOK,
         FreshIsNowhere, RemovalOrder, DataAgree, QueueAgrees, UpdaterKnows,
         ConfirmersKnow, BreakersKnow, RemoversKnow, InstanceOnce,
         AssignedAgree, NobodyBreaks, Next
  PROVE  NobodyBreaks'
<1> USE DEF TypeOK, KeyTypes, LabTypes, UpdaterTypes, RemoverTypes,
            BreakerTypes, keys, lab, NobodyBreaks, HeldFor, Active, BreaksAt
<1>1. ASSUME NEW r \in Reservations, Reserve(r)
      PROVE  NobodyBreaks'
  BY <1>1 DEF Reserve, BreakerState, NoData
<1>2. ASSUME NEW u \in Updaters, Update(u)
      PROVE  NobodyBreaks'
  <2>1. CASE PickFirst(u)
    <3>1. UNCHANGED <<pqdata, current, br>>
      BY <2>1 DEF PickFirst
    <3>2. QED
      BY <3>1
  <2>2. CASE NobodyWaiting(u)
    <3>1. UNCHANGED <<pqdata, current, br>>
      BY <2>2 DEF NobodyWaiting
    <3>2. QED
      BY <3>1
  <2>3. CASE ListFreeInstances(u)
    <3>1. UNCHANGED <<pqdata, current, br>>
      BY <2>3 DEF ListFreeInstances
    <3>2. QED
      BY <3>1
  <2>4. CASE TryInstance(u)
    <3>1. UNCHANGED <<pqdata, current, br>>
      BY <2>4 DEF TryInstance
    <3>2. QED
      BY <3>1
  <2>5. CASE NoInstanceLeft(u)
    <3>1. UNCHANGED <<pqdata, current, br>>
      BY <2>5 DEF NoInstanceLeft
    <3>2. QED
      BY <3>1
  <2>6. CASE CheckExists(u)
    <3>1. UNCHANGED <<pqdata, current, br>>
      BY <2>6 DEF CheckExists
    <3>2. QED
      BY <3>1
  <2>7. CASE SetCurrent(u)
    BY <2>7, SMTT(30)
       DEF SetCurrent, NextRound, IdleUpdater, BreakerState, UpdaterKnows,
            TakesCare, Confirming
  <2>8. CASE AcquireResource(u)
    <3>1. UNCHANGED <<pqdata, current, br>>
      BY <2>8 DEF AcquireResource
    <3>2. QED
      BY <3>1
  <2>9. CASE Unconfirm(u)
    BY <2>9 DEF Unconfirm, BreakerState
  <2>10. CASE AssignInstance(u)
    <3>1. UNCHANGED <<pqdata, current, br>>
      BY <2>10 DEF AssignInstance
    <3>2. QED
      BY <3>1
  <2>11. CASE ReadReservation(u)
    <3>1. UNCHANGED <<pqdata, current, br>>
      BY <2>11 DEF ReadReservation
    <3>2. QED
      BY <3>1
  <2>12. CASE DowngradeUnsuitable(u)
    BY <2>12 DEF DowngradeUnsuitable, BreakerState
  <2>13. CASE ReleaseAcquired(u)
    <3>1. UNCHANGED <<pqdata, current, br>>
      BY <2>13 DEF ReleaseAcquired
    <3>2. QED
      BY <3>1
  <2>14. CASE Unassign(u)
    <3>1. UNCHANGED <<pqdata, current, br>>
      BY <2>14 DEF Unassign
    <3>2. QED
      BY <3>1
  <2>15. CASE SetWaitingConfirmation(u)
    <3>1. PICK r \in Reservations, i \in Instances : r = up[u].r /\ i = up[u].i
      BY <2>15 DEF SetWaitingConfirmation
    <3>2. \A a \in Breakers : ~BreaksAt(a, i)
      BY <2>15, <3>1 DEF SetWaitingConfirmation, InstanceOnce, UpdaterHolds
    <3>3. /\ pqdata'[r].inst = i
          /\ \A q \in Reservations \ {r} : pqdata'[q] = pqdata[q]
      BY <2>15, <3>1 DEF SetWaitingConfirmation, UpdaterState, Data
    <3>4. UNCHANGED <<current, br>>
      BY <2>15 DEF SetWaitingConfirmation
    <3>5. QED
      BY <3>2, <3>3, <3>4
  <2>16. CASE DequeueAndConfirm(u)
    <3>1. UNCHANGED <<pqdata, current, br>>
      BY <2>16 DEF DequeueAndConfirm
    <3>2. QED
      BY <3>1
  <2>17. QED
    BY <1>2, <2>1, <2>2, <2>3, <2>4, <2>5, <2>6, <2>7, <2>8, <2>9, <2>10,
            <2>11, <2>12, <2>13, <2>14, <2>15, <2>16 DEF Update
<1>3. ASSUME NEW t \in confirms, Confirm(t)
      PROVE  NobodyBreaks'
  <2>1. CASE ReserveInLab(t)
    <3>1. UNCHANGED <<pqdata, current, br>>
      BY <2>1 DEF ReserveInLab
    <3>2. QED
      BY <3>1
  <2>2. CASE PutInitial(t)
    <3>1. UNCHANGED <<pqdata, current, br>>
      BY <2>2 DEF PutInitial
    <3>2. QED
      BY <3>1
  <2>3. CASE ReadToConfirm(t)
    <3>1. UNCHANGED <<pqdata, current, br>>
      BY <2>3 DEF ReadToConfirm
    <3>2. QED
      BY <3>1
  <2>4. CASE WriteReserved(t)
    BY <2>4 DEF WriteReserved, End, BreakerState, ConfirmersKnow, ConfirmTask,
            Data
  <2>5. QED
    BY <1>3, <2>1, <2>2, <2>3, <2>4 DEF Confirm
<1>4. ASSUME NEW t \in confirms, NEW b \in Breakers, LabFailsToReserve(t, b)
      PROVE  NobodyBreaks'
  BY <1>4 DEF LabFailsToReserve, End, BreakerState
<1>5. ASSUME NEW c \in Removers, NEW r \in Reservations,
             \/ BeginFinish(c, r) \/ BeginExpire(c, r)
             \/ BeginDrop(c, r) \/ BeginPoll(c, r)
      PROVE  NobodyBreaks'
  <2>1. UNCHANGED <<pqdata, current, br>>
    BY <1>5 DEF BeginFinish, IdleRemover, BeginExpire, BeginDrop, BeginPoll
  <2>2. QED
    BY <2>1
<1>6. ASSUME NEW c \in Removers, Remove(c)
      PROVE  NobodyBreaks'
  <2>1. CASE FindAggregator(c)
    <3>1. UNCHANGED <<pqdata, current, br>>
      BY <2>1 DEF FindAggregator
    <3>2. QED
      BY <3>1
  <2>2. CASE ReadActive(c)
    <3>1. UNCHANGED <<pqdata, current, br>>
      BY <2>2 DEF ReadActive
    <3>2. QED
      BY <3>1
  <2>3. CASE Touch(c)
    <3>1. UNCHANGED <<pqdata, current, br>>
      BY <2>3 DEF Touch
    <3>2. QED
      BY <3>1
  <2>4. CASE ReadToClean(c)
    <3>1. UNCHANGED <<pqdata, current, br>>
      BY <2>4 DEF ReadToClean
    <3>2. QED
      BY <3>1
  <2>5. CASE DowngradeConfirmation(c)
    BY <2>5 DEF DowngradeConfirmation, BreakerState
  <2>6. CASE UnassignCleaned(c)
    <3>1. UNCHANGED <<pqdata, current, br>>
      BY <2>6 DEF UnassignCleaned
    <3>2. QED
      BY <3>1
  <2>7. CASE DeleteReservation(c)
    BY <2>7 DEF DeleteReservation, Goto, BreakerState, NoData
  <2>8. CASE Unmap(c)
    <3>1. UNCHANGED <<pqdata, current, br>>
      BY <2>8 DEF Unmap
    <3>2. QED
      BY <3>1
  <2>9. CASE Dequeue(c)
    <3>1. UNCHANGED <<pqdata, current, br>>
      BY <2>9 DEF Dequeue
    <3>2. QED
      BY <3>1
  <2>10. CASE Purge(c)
    BY <2>10 DEF Purge, Goto, BreakerState
  <2>11. CASE EnqueueFree(c)
    <3>1. UNCHANGED <<pqdata, current, br>>
      BY <2>11 DEF EnqueueFree
    <3>2. QED
      BY <3>1
  <2>12. CASE ClearFinishing(c)
    <3>1. UNCHANGED <<pqdata, current, br>>
      BY <2>12 DEF ClearFinishing
    <3>2. QED
      BY <3>1
  <2>13. QED
    BY <1>6, <2>1, <2>2, <2>3, <2>4, <2>5, <2>6, <2>7, <2>8, <2>9, <2>10,
            <2>11, <2>12 DEF Remove
<1>7. ASSUME NEW t \in frees, Free(t)
      PROVE  NobodyBreaks'
  <2>1. UNCHANGED <<pqdata, current, br>>
    BY <1>7 DEF Free, FreeInLab, ConfirmDisposal
  <2>2. QED
    BY <2>1
<1>8. ASSUME NEW t \in frees, NEW b \in Breakers, LabFailsToFree(t, b)
      PROVE  NobodyBreaks'
  <2>1. \A i \in Instances, r \in Reservations : t.i = i => ~HeldFor(r, i)
    BY DEF InstanceOnce, FreeHolds
  <2>2. br'[b].pc = "find" /\ br'[b].i = t.i /\ \A a \in Breakers :
                                                    a # b => br'[a] = br[a]
    BY <1>8 DEF LabFailsToFree, BreakerState
  <2>3. UNCHANGED <<pqdata, current>>
    BY <1>8 DEF LabFailsToFree
  <2> HIDE DEF HeldFor
  <2>4. QED
    BY <2>1, <2>2, <2>3 DEF HeldFor
<1>9. ASSUME NEW b \in Breakers, Break(b)
      PROVE  NobodyBreaks'
  <2>1. CASE FindCurrent(b)
    <3>1. PICK r : br' = [br EXCEPT ![b].pc = "mark"] \/ br' = [br EXCEPT ![b].pc = "remove", ![b].r = r]
      BY <2>1 DEF FindCurrent, BreakerGoto
    <3>2. br[b].pc = "find" /\ br'[b].pc \in {"mark", "remove"} /\ br'[b].i = br[b].i
      BY <2>1, <3>1 DEF FindCurrent, BreakerState
    <3>3. \A a \in Breakers : a # b => br'[a] = br[a]
      BY <3>1
    <3>4. QED
      BY <2>1, <3>2, <3>3 DEF FindCurrent
  <2>2. CASE RemoveCurrent(b)
    <3>1. BreaksAt(b, br[b].i) /\ br[b].i \in Instances /\ br[b].r \in Reservations
      BY <2>2 DEF RemoveCurrent
    <3>2. br[b].r \notin assigned[br[b].i]
      BY <3>1, AssignedIsHeld
    <3>3. /\ br'[b].pc = "mark" /\ \A a \in Breakers : a # b => br'[a] = br[a]
          /\ UNCHANGED <<pqdata, current>>
      BY <2>2, <3>2 DEF RemoveCurrent, IdleBreaker
    <3>4. QED
      BY <3>3
  <2>3. CASE DowngradeCurrent(b)
    BY <2>3 DEF DowngradeCurrent, BreakerGoto, BreakerState
  <2>4. CASE ReleaseBroken(b)
    BY <2>4 DEF ReleaseBroken, BreakerGoto, BreakerState
  <2>5. CASE ReadBroken(b)
    BY <2>5 DEF ReadBroken, IdleBreaker, BreakerState
  <2>6. CASE WriteWaiting(b)
    BY <2>6 DEF WriteWaiting, BreakerGoto, BreakerState
  <2>7. CASE Requeue(b)
    BY <2>7 DEF Requeue, IdleBreaker, BreakerState
  <2>8. CASE MarkBroken(b)
    BY <2>8 DEF MarkBroken, IdleBreaker, BreakerState
  <2>9. QED
    BY <1>9, <2>1, <2>2, <2>3, <2>4, <2>5, <2>6, <2>7, <2>8 DEF Break
<1>10. ASSUME NEW b \in Breakers, NEW i \in Instances, BeginBreak(b, i)
      PROVE  NobodyBreaks'
  BY <1>10 DEF BeginBreak, BreakerState, UsersStay
<1>11. ASSUME NEW i \in Instances, MarkFixed(i)
      PROVE  NobodyBreaks'
  BY <1>11 DEF MarkFixed
<1>12. QED
  BY <1>1, <1>2, <1>3, <1>4, <1>5, <1>6, <1>7, <1>8, <1>9, <1>10, <1>11
     DEF Next, Begin

(* The instance with a session goes from its reservation to its remover,   *)
(* and from it to the thread that closes the session before it is free.    *)
LEMMA SessionStaysOwners ==
  ASSUME ConstantsAssumption, UsersStay, "reserve" \notin Failures, TypeOK,
         FreshIsNowhere, RemovalOrder, DataAgree, QueueAgrees, UpdaterKnows,
         ConfirmersKnow, BreakersKnow, RemoversKnow, InstanceOnce,
         SlotHeldOnce, NobodyBreaks, SessionIsOwners, Next
  PROVE  SessionIsOwners'
<1> USE DEF TypeOK, KeyTypes, LabTypes, UpdaterTypes, RemoverTypes,
            BreakerTypes, keys, lab, SessionIsOwners, HeldFor, Active,
            UpdaterHolds, RemoverHolds, FreeHolds
<1>1. ASSUME NEW r \in Reservations, Reserve(r)
      PROVE  SessionIsOwners'
  BY <1>1 DEF Reserve, UpdaterState, RemoverState, NoData
<1>2. ASSUME NEW u \in Updaters, Update(u)
      PROVE  SessionIsOwners'
  <2>0. \A v \in Updaters : v = u
    BY DEF UsersStay
  <2>1. CASE PickFirst(u)
    BY <2>1, <2>0 DEF PickFirst, Untried, UpdaterState, RemoverState, FreeTask
  <2>2. CASE NobodyWaiting(u)
    BY <2>2, <2>0 DEF NobodyWaiting, IdleUpdater, UpdaterState, RemoverState,
                  FreeTask
  <2>3. CASE ListFreeInstances(u)
    BY <2>3, <2>0 DEF ListFreeInstances, IdleUpdater, UpdaterState,
                  RemoverState, FreeTask
  <2>4. CASE TryInstance(u)
    BY <2>4, <2>0 DEF TryInstance, UpdaterState, RemoverState, FreeTask
  <2>5. CASE NoInstanceLeft(u)
    BY <2>5, <2>0 DEF NoInstanceLeft, NextRound, IdleUpdater, UpdaterState,
                  RemoverState, FreeTask
  <2>6. CASE CheckExists(u)
    BY <2>6, <2>0 DEF CheckExists, IdleUpdater, UpdaterState, RemoverState,
                  FreeTask
  <2>7. CASE SetCurrent(u)
    BY <2>7, <2>0 DEF SetCurrent, NextRound, IdleUpdater, UpdaterState,
                  RemoverState, FreeTask, UpdaterKnows, TakesCare, Confirming
  <2>8. CASE AcquireResource(u)
    BY <2>8, <2>0 DEF AcquireResource, UpdaterState, RemoverState, FreeTask
  <2>9. CASE Unconfirm(u)
    BY <2>9, <2>0 DEF Unconfirm, UpdaterState, RemoverState, FreeTask
  <2>10. CASE AssignInstance(u)
    BY <2>10, <2>0 DEF AssignInstance, UpdaterState, RemoverState, FreeTask
  <2>11. CASE ReadReservation(u)
    <3>1. \A v \in Updaters, i \in Instances :
              UpdaterHolds(v, i)' => UpdaterHolds(v, i)
      BY <2>11, <2>0 DEF ReadReservation, UpdaterState
    <3>2. UNCHANGED <<slots, pqdata, current, rm, sessions, frees>>
      BY <2>11, <2>0 DEF ReadReservation
    <3> HIDE DEF UpdaterHolds
    <3>3. QED
      BY <3>1, <3>2
  <2>12. CASE DowngradeUnsuitable(u)
    BY <2>12, <2>0 DEF DowngradeUnsuitable, UpdaterState, RemoverState,
                   FreeTask
  <2>13. CASE ReleaseAcquired(u)
    BY <2>13, <2>0 DEF ReleaseAcquired, UpdaterState, RemoverState, FreeTask
  <2>14. CASE Unassign(u)
    BY <2>14, <2>0 DEF Unassign, NextRound, IdleUpdater, UpdaterState,
                   RemoverState, FreeTask
  <2>15. CASE SetWaitingConfirmation(u)
    <3>1. PICK r \in Reservations, i \in Instances : r = up[u].r /\ i = up[u].i
      BY <2>15, <2>0 DEF SetWaitingConfirmation
    <3>2. UpdaterHolds(u, i)
      BY <2>15, <2>0, <3>1 DEF SetWaitingConfirmation, UpdaterHolds,
         UpdaterState
    <3>3. /\ pqdata'[r].inst = i /\ Active(pqdata'[r])
          /\ \A q \in Reservations \ {r} : pqdata'[q] = pqdata[q]
      BY <2>15, <2>0, <3>1 DEF SetWaitingConfirmation, UpdaterState, Data
    <3>4. /\ UNCHANGED <<slots, current, rm, sessions, frees>>
          /\ \A v \in Updaters, j \in Instances : ~UpdaterHolds(v, j)'
      BY <2>15, <2>0, <2>0 DEF SetWaitingConfirmation, UpdaterState
    <3>5. sessions[i] = {}
      BY <3>2
    <3>6. \A q \in Reservations, j \in Instances :
            HeldFor(q, j)' => HeldFor(q, j) \/ j = i
      BY <3>3, <3>4
    <3> HIDE DEF UpdaterHolds, HeldFor
    <3>7. QED
      BY <3>4, <3>5, <3>6
  <2>16. CASE DequeueAndConfirm(u)
    BY <2>16, <2>0 DEF DequeueAndConfirm, NextRound, IdleUpdater, UpdaterState,
                   RemoverState, FreeTask
  <2>17. QED
    BY <1>2, <2>1, <2>2, <2>3, <2>4, <2>5, <2>6, <2>7, <2>8, <2>9, <2>10,
            <2>11, <2>12, <2>13, <2>14, <2>15, <2>16 DEF Update
<1>3. ASSUME NEW t \in confirms, Confirm(t)
      PROVE  SessionIsOwners'
  <2>1. CASE ReserveInLab(t)
    <3>1. t.r \in Reservations /\ t.i \in Instances /\ HeldFor(t.r, t.i)
      BY DEF ConfirmersKnow, ConfirmTask
    <3>2. /\ sessions'[t.i] = sessions[t.i] \cup {t.r}
          /\ \A i \in Instances : i # t.i => sessions'[i] = sessions[i]
      BY <2>1, <3>1 DEF ReserveInLab
    <3>3. sessions'[t.i] = {t.r}
      BY <3>1, <3>2
    <3>4. UNCHANGED <<slots, pqdata, current, up, rm, frees>>
      BY <2>1 DEF ReserveInLab
    <3>5. /\ t.i \notin slots
          /\ \A q \in Reservations : HeldFor(q, t.i) => q = t.r
          /\ \A u \in Updaters : ~UpdaterHolds(u, t.i)
          /\ \A c \in Removers : ~RemoverHolds(c, t.i)
          /\ \A s \in frees : ~FreeHolds(s, t.i)
      BY <3>1 DEF InstanceOnce
    <3> HIDE DEF UpdaterHolds, HeldFor, RemoverHolds, FreeHolds
    <3>6. ASSUME NEW i \in Instances, NEW r \in sessions'[i]
          PROVE  \/ i = t.i /\ r = t.r
                 \/ i # t.i /\ r \in sessions[i] /\ sessions'[i] = sessions[i]
      BY <3>2, <3>3
    <3>7. QED
      BY <3>3, <3>4, <3>5, <3>6 DEF UpdaterHolds, HeldFor, RemoverHolds,
         FreeHolds
  <2>2. CASE PutInitial(t)
    <3>1. UNCHANGED <<slots, pqdata, current, up, rm, sessions, frees>>
      BY <2>2 DEF PutInitial
    <3>2. QED
      BY <3>1
  <2>3. CASE ReadToConfirm(t)
    <3>1. UNCHANGED <<slots, pqdata, current, up, rm, sessions, frees>>
      BY <2>3 DEF ReadToConfirm
    <3>2. QED
      BY <3>1
  <2>4. CASE WriteReserved(t)
    BY <2>4 DEF WriteReserved, End, UpdaterState, RemoverState, FreeTask,
            ConfirmersKnow, ConfirmTask, Data
  <2>5. QED
    BY <1>3, <2>1, <2>2, <2>3, <2>4 DEF Confirm
<1>4. ASSUME NEW t \in confirms, NEW b \in Breakers, LabFailsToReserve(t, b)
      PROVE  SessionIsOwners'
  BY <1>4 DEF LabFailsToReserve, End
<1>5. ASSUME NEW c \in Removers, NEW r \in Reservations,
             \/ BeginFinish(c, r) \/ BeginExpire(c, r)
             \/ BeginDrop(c, r) \/ BeginPoll(c, r)
      PROVE  SessionIsOwners'
  <2>1. CASE BeginFinish(c, r)
    BY <2>1 DEF BeginFinish, IdleRemover, UpdaterState, RemoverState, FreeTask
  <2>2. CASE BeginExpire(c, r)
    BY <2>2 DEF BeginExpire, IdleRemover, UpdaterState, RemoverState, FreeTask
  <2>3. CASE BeginDrop(c, r)
    BY <2>3 DEF BeginDrop, IdleRemover, UpdaterState, RemoverState, FreeTask
  <2>4. CASE BeginPoll(c, r)
    BY <2>4 DEF BeginPoll, IdleRemover, UpdaterState, RemoverState, FreeTask
  <2>5. QED
    BY <1>5, <2>1, <2>2, <2>3, <2>4
<1>6. ASSUME NEW c \in Removers, Remove(c)
      PROVE  SessionIsOwners'
  <2>1. CASE FindAggregator(c)
    BY <2>1 DEF FindAggregator, Goto, UpdaterState, RemoverState, FreeTask
  <2>2. CASE ReadActive(c)
    BY <2>2 DEF ReadActive, IdleRemover, UpdaterState, RemoverState, FreeTask
  <2>3. CASE Touch(c)
    BY <2>3 DEF Touch, IdleRemover, UpdaterState, RemoverState, FreeTask
  <2>4. CASE ReadToClean(c)
    BY <2>4 DEF ReadToClean, UpdaterState, RemoverState, FreeTask
  <2>5. CASE DowngradeConfirmation(c)
    BY <2>5 DEF DowngradeConfirmation, UpdaterState, RemoverState, FreeTask,
            RemoversKnow, Removing, RemovalOrder, DataAgree
  <2>6. CASE UnassignCleaned(c)
    BY <2>6 DEF UnassignCleaned, Goto, UpdaterState, RemoverState, FreeTask
  <2>7. CASE DeleteReservation(c)
    BY <2>7 DEF DeleteReservation, Goto, UpdaterState, RemoverState, FreeTask,
            NoData
  <2>8. CASE Unmap(c)
    BY <2>8 DEF Unmap, AfterDequeue, IdleRemover, UpdaterState, RemoverState,
            FreeTask
  <2>9. CASE Dequeue(c)
    BY <2>9 DEF Dequeue, AfterDequeue, IdleRemover, UpdaterState, RemoverState,
            FreeTask
  <2>10. CASE Purge(c)
    BY <2>10 DEF Purge, Goto, UpdaterState, RemoverState, FreeTask
  <2>11. CASE EnqueueFree(c)
    BY <2>11 DEF EnqueueFree, IdleRemover, UpdaterState, RemoverState,
             FreeTask, RemoversKnow
  <2>12. CASE ClearFinishing(c)
    BY <2>12 DEF ClearFinishing, IdleRemover, UpdaterState, RemoverState,
             FreeTask
  <2>13. QED
    BY <1>6, <2>1, <2>2, <2>3, <2>4, <2>5, <2>6, <2>7, <2>8, <2>9, <2>10,
            <2>11, <2>12 DEF Remove
<1>7. ASSUME NEW t \in frees, Free(t)
      PROVE  SessionIsOwners'
  <2>1. CASE FreeInLab(t)
    <3> DEFINE s == [t EXCEPT !.pc = "dispose"]
    <3>1. s.r = t.r /\ s.i = t.i /\ t.i \in Instances /\ t.r \in Reservations
      BY DEF FreeTask
    <3>2. frees' = (frees \ {t}) \cup {s}
      BY <2>1 DEF FreeInLab
    <3>3. sessions'[t.i] = sessions[t.i] \ {t.r}
          /\ \A i \in Instances : i # t.i => sessions'[i] = sessions[i]
      BY <2>1, <3>1 DEF FreeInLab
    <3>4. sessions'[t.i] = {}
      BY <3>1, <3>3
    <3>5. UNCHANGED <<slots, pqdata, current, up, rm>>
      BY <2>1 DEF FreeInLab
    <3> HIDE DEF s, UpdaterHolds, HeldFor, RemoverHolds
    <3>6. QED
      BY <3>1, <3>2, <3>3, <3>4, <3>5 DEF UpdaterHolds, HeldFor, RemoverHolds
  <2>2. CASE ConfirmDisposal(t)
    BY <2>2 DEF ConfirmDisposal, UpdaterState, RemoverState, FreeTask
  <2>3. QED
    BY <1>7, <2>1, <2>2 DEF Free
<1>8. ASSUME NEW t \in frees, NEW b \in Breakers, LabFailsToFree(t, b)
      PROVE  SessionIsOwners'
  BY <1>8 DEF LabFailsToFree, FreeTask, FreeTask
<1>9. ASSUME NEW b \in Breakers, Break(b)
      PROVE  SessionIsOwners'
  <2>1. CASE FindCurrent(b)
    <3>1. UNCHANGED <<slots, pqdata, current, up, rm, sessions, frees>>
      BY <2>1 DEF FindCurrent
    <3>2. QED
      BY <3>1
  <2>2. CASE RemoveCurrent(b)
    <3>1. UNCHANGED <<slots, pqdata, current, up, rm, sessions, frees>>
      BY <2>2 DEF RemoveCurrent
    <3>2. QED
      BY <3>1
  <2>3. CASE DowngradeCurrent(b)
    BY <2>3 DEF DowngradeCurrent, BreakerGoto, UpdaterState, RemoverState,
            FreeTask
  <2>4. CASE ReleaseBroken(b)
    BY <2>4 DEF ReleaseBroken, BreakerGoto, UpdaterState, RemoverState,
            FreeTask, NobodyBreaks
  <2>5. CASE ReadBroken(b)
    <3>1. UNCHANGED <<slots, pqdata, current, up, rm, sessions, frees>>
      BY <2>5 DEF ReadBroken
    <3>2. QED
      BY <3>1
  <2>6. CASE WriteWaiting(b)
    BY <2>6 DEF WriteWaiting, BreakerGoto, UpdaterState, RemoverState, FreeTask
  <2>7. CASE Requeue(b)
    <3>1. UNCHANGED <<slots, pqdata, current, up, rm, sessions, frees>>
      BY <2>7 DEF Requeue
    <3>2. QED
      BY <3>1
  <2>8. CASE MarkBroken(b)
    <3>1. UNCHANGED <<slots, pqdata, current, up, rm, sessions, frees>>
      BY <2>8 DEF MarkBroken
    <3>2. QED
      BY <3>1
  <2>9. QED
    BY <1>9, <2>1, <2>2, <2>3, <2>4, <2>5, <2>6, <2>7, <2>8 DEF Break
<1>10. ASSUME NEW b \in Breakers, NEW i \in Instances, BeginBreak(b, i)
      PROVE  SessionIsOwners'
  BY <1>10 DEF BeginBreak
<1>11. ASSUME NEW i \in Instances, MarkFixed(i)
      PROVE  SessionIsOwners'
  BY <1>11 DEF MarkFixed
<1>12. QED
  BY <1>1, <1>2, <1>3, <1>4, <1>5, <1>6, <1>7, <1>8, <1>9, <1>10, <1>11
     DEF Next, Begin

(* Without failures to reserve they are invariants, too.                   *)
LEMMA OwnersAreSound ==
  ASSUME UsersStay, "reserve" \notin Failures
  PROVE  Spec => [](NobodyBreaks /\ SessionIsOwners)
<1>1. Init => NobodyBreaks /\ SessionIsOwners
  BY DEF Init, NobodyBreaks, BreaksAt, SessionIsOwners, IdleBreaker
<1>2. TypeOK /\ RemovalInvariant /\ StayInvariant /\ NobodyBreaks
        /\ SessionIsOwners /\ [Next]_vars => NobodyBreaks' /\ SessionIsOwners'
  <2>1. CASE Next
    BY <2>1, ConstantsAssumption, NobodyStaysBreaking, SessionStaysOwners
       DEF RemovalInvariant, StayInvariant
  <2>2. CASE UNCHANGED vars
    BY <2>2
       DEF vars, keys, lab, NobodyBreaks, BreaksAt, SessionIsOwners, HeldFor,
           Active, UpdaterHolds, RemoverHolds, FreeHolds
  <2>3. QED
    BY <2>1, <2>2
<1>3. QED
  BY <1>1, <1>2, TypeCorrect, RemovalsAreSound, StayIsSound, PTL DEF Spec

(* When no call to reserve fails, the laboratory never has two sessions in *)
(* an instance: the one of a session that is over is closed before its     *)
(* instance is free. A session that a failed call left open, instead,      *)
(* stays there when the instance goes to the next student.                 *)
THEOREM StayOneSession ==
  ASSUME UsersStay, "reserve" \notin Failures
  PROVE  Spec => []OneSession
<1>1. SessionIsOwners => OneSession
  BY DEF SessionIsOwners, OneSession
<1>2. QED
  BY <1>1, OwnersAreSound, PTL

-----------------------------------------------------------------------------
(* Whoever lets an instance go puts it in the hands of the next one.       *)
LEMMA NoSlotGetsLost ==
  ASSUME ConstantsAssumption, UsersStay, "free" \notin Failures, TypeOK,
         FreshIsNowhere, RemovalOrder, DataAgree, QueueAgrees, UpdaterKnows,
         ConfirmersKnow, BreakersKnow, RemoversKnow, InstanceOnce,
         SlotHeldOnce, NoSlotLost, Next
  PROVE  NoSlotLost'
<1> USE DEF TypeOK, KeyTypes, LabTypes, UpdaterTypes, RemoverTypes,
            BreakerTypes, keys, lab, NoSlotLost, HeldByThread, HeldFor, Active,
            BreakerHolds, UpdaterHolds, RemoverHolds, FreeHolds
<1>1. ASSUME NEW r \in Reservations, Reserve(r)
      PROVE  NoSlotLost'
  <2>1. \A q \in Reservations, i \in Instances :
            HeldFor(q, i) => HeldFor(q, i)'
    BY <1>1 DEF Reserve, FreshIsNowhere
  <2>2. UNCHANGED <<slots, up, rm, frees, br>>
    BY <1>1 DEF Reserve
  <2> HIDE DEF HeldFor
  <2>3. QED
    BY <2>1, <2>2
<1>2. ASSUME NEW u \in Updaters, Update(u)
      PROVE  NoSlotLost'
  <2>0. \A v \in Updaters : v = u
    BY DEF UsersStay
  <2>1. CASE PickFirst(u)
    BY <2>1, <2>0 DEF PickFirst, Untried, UpdaterState, RemoverState, FreeTask,
                  BreakerState
  <2>2. CASE NobodyWaiting(u)
    BY <2>2, <2>0 DEF NobodyWaiting, IdleUpdater, UpdaterState, RemoverState,
                  FreeTask, BreakerState
  <2>3. CASE ListFreeInstances(u)
    BY <2>3, <2>0 DEF ListFreeInstances, IdleUpdater, UpdaterState,
                  RemoverState, FreeTask, BreakerState
  <2>4. CASE TryInstance(u)
    BY <2>4, <2>0 DEF TryInstance, UpdaterState, RemoverState, FreeTask,
                  BreakerState
  <2>5. CASE NoInstanceLeft(u)
    BY <2>5, <2>0 DEF NoInstanceLeft, NextRound, IdleUpdater, UpdaterState,
                  RemoverState, FreeTask, BreakerState
  <2>6. CASE CheckExists(u)
    BY <2>6, <2>0 DEF CheckExists, IdleUpdater, UpdaterState, RemoverState,
                  FreeTask, BreakerState
  <2>7. CASE SetCurrent(u)
    BY <2>7, <2>0 DEF SetCurrent, NextRound, IdleUpdater, UpdaterState,
                  RemoverState, FreeTask, BreakerState
  <2>8. CASE AcquireResource(u)
    BY <2>8, <2>0 DEF AcquireResource, UpdaterState, RemoverState, FreeTask,
                  BreakerState
  <2>9. CASE Unconfirm(u)
    <3>1. \A v \in Updaters, i \in Instances :
              UpdaterHolds(v, i) => UpdaterHolds(v, i)'
      BY <2>9, <2>0 DEF Unconfirm, UpdaterState
    <3>2. \A q \in Reservations, i \in Instances :
              HeldFor(q, i) => HeldFor(q, i)'
      BY <2>9, <2>0 DEF Unconfirm, UpdaterKnows, TakesCare
    <3>3. UNCHANGED <<slots, rm, frees, br>>
      BY <2>9, <2>0 DEF Unconfirm
    <3> HIDE DEF UpdaterHolds, HeldFor
    <3>4. QED
      BY <3>1, <3>2, <3>3
  <2>10. CASE AssignInstance(u)
    BY <2>10, <2>0 DEF AssignInstance, UpdaterState, RemoverState, FreeTask,
                   BreakerState
  <2>11. CASE ReadReservation(u)
    BY <2>11, <2>0 DEF ReadReservation, UpdaterState, RemoverState, FreeTask,
                   BreakerState
  <2>12. CASE DowngradeUnsuitable(u)
    <3>1. \A v \in Updaters, i \in Instances :
              UpdaterHolds(v, i) => UpdaterHolds(v, i)'
      BY <2>12, <2>0 DEF DowngradeUnsuitable, UpdaterState
    <3>2. \A q \in Reservations, i \in Instances :
              HeldFor(q, i) => HeldFor(q, i)'
      BY <2>12, <2>0 DEF DowngradeUnsuitable, UpdaterKnows, TakesCare
    <3>3. UNCHANGED <<slots, rm, frees, br>>
      BY <2>12, <2>0 DEF DowngradeUnsuitable
    <3> HIDE DEF UpdaterHolds, HeldFor
    <3>4. QED
      BY <3>1, <3>2, <3>3
  <2>13. CASE ReleaseAcquired(u)
    BY <2>13, <2>0 DEF ReleaseAcquired, UpdaterState, RemoverState, FreeTask,
                   BreakerState
  <2>14. CASE Unassign(u)
    BY <2>14, <2>0 DEF Unassign, NextRound, IdleUpdater, UpdaterState,
                   RemoverState, FreeTask, BreakerState
  <2>15. CASE SetWaitingConfirmation(u)
    <3>1. PICK r \in Reservations, i \in Instances : r = up[u].r /\ i = up[u].i
      BY <2>15, <2>0 DEF SetWaitingConfirmation
    <3>2. UpdaterHolds(u, i)
      BY <2>15, <2>0, <3>1 DEF SetWaitingConfirmation, UpdaterHolds,
         UpdaterState
    <3>3. /\ pqdata'[r].inst = i /\ Active(pqdata'[r])
          /\ \A q \in Reservations \ {r} : pqdata'[q] = pqdata[q]
      BY <2>15, <2>0, <3>1 DEF SetWaitingConfirmation, UpdaterState, Data
    <3>4. r \in current /\ ~Active(pqdata[r])
      BY <2>15, <2>0, <3>1 DEF SetWaitingConfirmation, UpdaterKnows, TakesCare,
         Confirming
    <3>5. UNCHANGED <<slots, current, rm, frees, br>>
      BY <2>15, <2>0 DEF SetWaitingConfirmation
    <3>6. \A q \in Reservations, j \in Instances :
              HeldFor(q, j) => HeldFor(q, j)'
      BY <3>3, <3>4, <3>5
    <3>7. HeldFor(r, i)'
      BY <3>3, <3>4, <3>5
    <3>8. \A v \in Updaters, j \in Instances : UpdaterHolds(v, j) => j = i
      BY <2>0, <3>1
    <3> HIDE DEF UpdaterHolds, HeldFor
    <3>9. QED
      BY <3>5, <3>6, <3>7, <3>8
  <2>16. CASE DequeueAndConfirm(u)
    BY <2>16, <2>0 DEF DequeueAndConfirm, NextRound, IdleUpdater, UpdaterState,
                   RemoverState, FreeTask, BreakerState
  <2>17. QED
    BY <1>2, <2>1, <2>2, <2>3, <2>4, <2>5, <2>6, <2>7, <2>8, <2>9, <2>10,
            <2>11, <2>12, <2>13, <2>14, <2>15, <2>16 DEF Update
<1>3. ASSUME NEW t \in confirms, Confirm(t)
      PROVE  NoSlotLost'
  <2>1. CASE ReserveInLab(t)
    <3>1. UNCHANGED <<slots, pqdata, current, up, rm, frees, br>>
      BY <2>1 DEF ReserveInLab
    <3>2. QED
      BY <3>1
  <2>2. CASE PutInitial(t)
    <3>1. UNCHANGED <<slots, pqdata, current, up, rm, frees, br>>
      BY <2>2 DEF PutInitial
    <3>2. QED
      BY <3>1
  <2>3. CASE ReadToConfirm(t)
    <3>1. UNCHANGED <<slots, pqdata, current, up, rm, frees, br>>
      BY <2>3 DEF ReadToConfirm
    <3>2. QED
      BY <3>1
  <2>4. CASE WriteReserved(t)
    BY <2>4 DEF WriteReserved, End, UpdaterState, RemoverState, FreeTask,
            BreakerState, ConfirmersKnow, ConfirmTask, Data
  <2>5. QED
    BY <1>3, <2>1, <2>2, <2>3, <2>4 DEF Confirm
<1>4. ASSUME NEW t \in confirms, NEW b \in Breakers, LabFailsToReserve(t, b)
      PROVE  NoSlotLost'
  BY <1>4 DEF LabFailsToReserve, End, BreakerState
<1>5. ASSUME NEW c \in Removers, NEW r \in Reservations,
             \/ BeginFinish(c, r) \/ BeginExpire(c, r)
             \/ BeginDrop(c, r) \/ BeginPoll(c, r)
      PROVE  NoSlotLost'
  <2>1. CASE BeginFinish(c, r)
    <3>1. \A d \in Removers, i \in Instances :
              RemoverHolds(d, i) => RemoverHolds(d, i)'
      BY <2>1 DEF BeginFinish, RemovalOrder
    <3>2. UNCHANGED <<slots, pqdata, current, up, frees, br>>
      BY <2>1 DEF BeginFinish
    <3> HIDE DEF RemoverHolds
    <3>3. QED
      BY <3>1, <3>2
  <2>2. CASE BeginExpire(c, r)
    <3>1. \A d \in Removers, i \in Instances :
              RemoverHolds(d, i) => RemoverHolds(d, i)'
      BY <2>2 DEF BeginExpire, RemovalOrder
    <3>2. UNCHANGED <<slots, pqdata, current, up, frees, br>>
      BY <2>2 DEF BeginExpire
    <3> HIDE DEF RemoverHolds
    <3>3. QED
      BY <3>1, <3>2
  <2>3. CASE BeginDrop(c, r)
    <3>1. \A d \in Removers, i \in Instances :
              RemoverHolds(d, i) => RemoverHolds(d, i)'
      BY <2>3 DEF BeginDrop, RemovalOrder
    <3>2. UNCHANGED <<slots, pqdata, current, up, frees, br>>
      BY <2>3 DEF BeginDrop
    <3> HIDE DEF RemoverHolds
    <3>3. QED
      BY <3>1, <3>2
  <2>4. CASE BeginPoll(c, r)
    <3>1. \A d \in Removers, i \in Instances :
              RemoverHolds(d, i) => RemoverHolds(d, i)'
      BY <2>4 DEF BeginPoll, RemovalOrder
    <3>2. UNCHANGED <<slots, pqdata, current, up, frees, br>>
      BY <2>4 DEF BeginPoll
    <3> HIDE DEF RemoverHolds
    <3>3. QED
      BY <3>1, <3>2
  <2>5. QED
    BY <1>5, <2>1, <2>2, <2>3, <2>4
<1>6. ASSUME NEW c \in Removers, Remove(c)
      PROVE  NoSlotLost'
  <2>1. CASE FindAggregator(c)
    <3>1. \A d \in Removers, i \in Instances :
              RemoverHolds(d, i) => RemoverHolds(d, i)'
      BY <2>1 DEF FindAggregator, Goto, RemovalOrder
    <3>2. UNCHANGED <<slots, pqdata, current, up, frees, br>>
      BY <2>1 DEF FindAggregator
    <3> HIDE DEF RemoverHolds
    <3>3. QED
      BY <3>1, <3>2
  <2>2. CASE ReadActive(c)
    <3>1. \A d \in Removers, i \in Instances :
              RemoverHolds(d, i) => RemoverHolds(d, i)'
      BY <2>2 DEF ReadActive, RemovalOrder
    <3>2. UNCHANGED <<slots, pqdata, current, up, frees, br>>
      BY <2>2 DEF ReadActive
    <3> HIDE DEF RemoverHolds
    <3>3. QED
      BY <3>1, <3>2
  <2>3. CASE Touch(c)
    <3>1. \A d \in Removers, i \in Instances :
              RemoverHolds(d, i) => RemoverHolds(d, i)'
      BY <2>3 DEF Touch, RemovalOrder
    <3>2. UNCHANGED <<slots, pqdata, current, up, frees, br>>
      BY <2>3 DEF Touch
    <3> HIDE DEF RemoverHolds
    <3>3. QED
      BY <3>1, <3>2
  <2>4. CASE ReadToClean(c)
    <3>1. \A d \in Removers, i \in Instances :
              RemoverHolds(d, i) => RemoverHolds(d, i)'
      BY <2>4 DEF ReadToClean, RemovalOrder
    <3>2. UNCHANGED <<slots, pqdata, current, up, frees, br>>
      BY <2>4 DEF ReadToClean
    <3> HIDE DEF RemoverHolds
    <3>3. QED
      BY <3>1, <3>2
  <2>5. CASE DowngradeConfirmation(c)
    <3> DEFINE r == rm[c].r
    <3>1. r \in Reservations /\ ~rm[c].won /\ Removing(c)
      BY <2>5 DEF DowngradeConfirmation, RemovalOrder, RemoversKnow,
         RemoverState, Removing
    <3>2. \A d \in Removers, i \in Instances :
              RemoverHolds(d, i) => RemoverHolds(d, i)'
      BY <2>5, <3>1 DEF DowngradeConfirmation
    <3>3. UNCHANGED <<slots, pqdata, up, frees, br>> /\ current' = current \ {r}
      BY <2>5 DEF DowngradeConfirmation
    <3>4. \A q \in Reservations, i \in Instances :
              HeldFor(q, i) => HeldFor(q, i)' \/ q = r
      BY <3>3
    <3>5. ASSUME NEW i \in Instances, HeldFor(r, i)
          PROVE  RemoverHolds(c, i)'
      <4>1. rm[c].data.inst = i /\ r \in current
        BY <2>5, <3>1, <3>5 DEF DowngradeConfirmation, RemoversKnow
      <4>2. rm'[c].won /\ rm'[c].data = rm[c].data
        BY <2>5, <4>1, ConstantsAssumption DEF DowngradeConfirmation,
           ConstantsAssumption, RemoverState
      <4>3. QED
        BY <4>1, <4>2
    <3> HIDE DEF r, RemoverHolds, HeldFor
    <3>6. QED
      BY <3>1, <3>2, <3>3, <3>4, <3>5
  <2>6. CASE UnassignCleaned(c)
    <3>1. \A d \in Removers, i \in Instances :
              RemoverHolds(d, i) => RemoverHolds(d, i)'
      BY <2>6 DEF UnassignCleaned, Goto, RemoverState
    <3>2. UNCHANGED <<slots, pqdata, current, up, frees, br>>
      BY <2>6 DEF UnassignCleaned
    <3> HIDE DEF RemoverHolds
    <3>3. QED
      BY <3>1, <3>2
  <2>7. CASE DeleteReservation(c)
    <3>1. \A d \in Removers, i \in Instances :
              RemoverHolds(d, i) => RemoverHolds(d, i)'
      BY <2>7 DEF DeleteReservation, Goto, RemoverState
    <3>2. \A q \in Reservations, i \in Instances :
              HeldFor(q, i) => HeldFor(q, i)'
      BY <2>7 DEF DeleteReservation, RemoversKnow, Removing, RemovalOrder,
         DataAgree
    <3>3. UNCHANGED <<slots, up, frees, br>>
      BY <2>7 DEF DeleteReservation
    <3> HIDE DEF RemoverHolds, HeldFor
    <3>4. QED
      BY <3>1, <3>2, <3>3
  <2>8. CASE Unmap(c)
    <3>1. \A d \in Removers, i \in Instances :
              RemoverHolds(d, i) => RemoverHolds(d, i)'
      BY <2>8 DEF Unmap, AfterDequeue, IdleRemover, RemoverState, RemoversKnow,
                  Removing
    <3>2. UNCHANGED <<slots, pqdata, current, up, frees, br>>
      BY <2>8 DEF Unmap
    <3> HIDE DEF RemoverHolds
    <3>3. QED
      BY <3>1, <3>2
  <2>9. CASE Dequeue(c)
    <3>1. \A d \in Removers, i \in Instances :
              RemoverHolds(d, i) => RemoverHolds(d, i)'
      BY <2>9 DEF Dequeue, AfterDequeue, IdleRemover, RemoverState,
         RemoversKnow,
                  Removing
    <3>2. UNCHANGED <<slots, pqdata, current, up, frees, br>>
      BY <2>9 DEF Dequeue
    <3> HIDE DEF RemoverHolds
    <3>3. QED
      BY <3>1, <3>2
  <2>10. CASE Purge(c)
    <3>1. \A d \in Removers, i \in Instances :
              RemoverHolds(d, i) => RemoverHolds(d, i)'
      BY <2>10 DEF Purge, Goto, RemoverState
    <3>2. \A q \in Reservations, i \in Instances :
              HeldFor(q, i) => HeldFor(q, i)'
      BY <2>10 DEF Purge, RemoversKnow, Removing, RemovalOrder
    <3>3. UNCHANGED <<slots, up, frees, br>>
      BY <2>10 DEF Purge
    <3> HIDE DEF RemoverHolds, HeldFor
    <3>4. QED
      BY <3>1, <3>2, <3>3
  <2>11. CASE EnqueueFree(c)
    <3> DEFINE s == [r |-> rm[c].r, i |-> rm[c].data.inst, pc |-> "lab"]
    <3>1. rm[c].won => rm[c].data.session /\ s \in frees'
      BY <2>11 DEF EnqueueFree, RemoversKnow
    <3>2. UNCHANGED <<pqdata, current, up, br>> /\ slots \subseteq slots' /\ frees \subseteq frees'
      BY <2>11 DEF EnqueueFree
    <3>3. \A d \in Removers : d # c => rm'[d] = rm[d]
      BY <2>11 DEF EnqueueFree
    <3>4. \A i \in Instances : RemoverHolds(c, i) => FreeHolds(s, i)
      OBVIOUS
    <3>5. \A i \in Instances :
              RemoverHolds(c, i) => \E f \in frees' : FreeHolds(f, i)
      BY <3>1, <3>4
    <3>6. \A d \in Removers, i \in Instances : RemoverHolds(d, i) =>
            RemoverHolds(d, i)' \/ \E f \in frees' : FreeHolds(f, i)
      BY <3>3, <3>5
    <3> HIDE DEF RemoverHolds
    <3>7. QED
      BY <3>2, <3>6
  <2>12. CASE ClearFinishing(c)
    <3>1. \A d \in Removers, i \in Instances :
              RemoverHolds(d, i) => RemoverHolds(d, i)'
      BY <2>12 DEF ClearFinishing, RemovalOrder
    <3>2. UNCHANGED <<slots, pqdata, current, up, frees, br>>
      BY <2>12 DEF ClearFinishing
    <3> HIDE DEF RemoverHolds
    <3>3. QED
      BY <3>1, <3>2
  <2>13. QED
    BY <1>6, <2>1, <2>2, <2>3, <2>4, <2>5, <2>6, <2>7, <2>8, <2>9, <2>10,
            <2>11, <2>12 DEF Remove
<1>7. ASSUME NEW t \in frees, Free(t)
      PROVE  NoSlotLost'
  <2>1. CASE FreeInLab(t)
    <3> DEFINE s == [t EXCEPT !.pc = "dispose"]
    <3>1. s \in frees' /\ s.i = t.i
      BY <2>1 DEF FreeInLab, FreeTask
    <3>2. \A f \in frees : f # t => f \in frees'
      BY <2>1 DEF FreeInLab
    <3>3. UNCHANGED <<slots, pqdata, current, up, rm, br>>
      BY <2>1 DEF FreeInLab
    <3> HIDE DEF s
    <3>4. \A i \in Instances :
            (\E f \in frees :
                 FreeHolds(f, i)) => \E f \in frees' : FreeHolds(f, i)
      BY <3>1, <3>2
    <3> HIDE DEF FreeHolds
    <3>5. QED
      BY <3>3, <3>4
  <2>2. CASE ConfirmDisposal(t)
    BY <2>2 DEF ConfirmDisposal, UpdaterState, RemoverState, FreeTask,
            BreakerState
  <2>3. QED
    BY <1>7, <2>1, <2>2 DEF Free
<1>8. ASSUME NEW t \in frees, NEW b \in Breakers, LabFailsToFree(t, b)
      PROVE  NoSlotLost'
  BY <1>8 DEF LabFailsToFree, FreeTask, BreakerState, FreeTask
<1>9. ASSUME NEW b \in Breakers, Break(b)
      PROVE  NoSlotLost'
  <2>1. CASE FindCurrent(b)
    <3>1. \A a \in Breakers, i \in Instances :
              BreakerHolds(a, i) => BreakerHolds(a, i)'
      BY <2>1 DEF FindCurrent, BreakerGoto, BreakerState
    <3>2. UNCHANGED <<slots, pqdata, current, up, rm, frees>>
      BY <2>1 DEF FindCurrent
    <3> HIDE DEF BreakerHolds
    <3>3. QED
      BY <3>1, <3>2
  <2>2. CASE RemoveCurrent(b)
    BY <2>2 DEF RemoveCurrent, IdleBreaker, UpdaterState, RemoverState,
            FreeTask, BreakerState
  <2>3. CASE DowngradeCurrent(b)
    <3> DEFINE r == br[b].r
    <3>1. r \in Reservations /\ br[b].i \in Instances
      BY <2>3 DEF DowngradeCurrent
    <3>2. \A a \in Breakers, i \in Instances :
              BreakerHolds(a, i) => BreakerHolds(a, i)'
      BY <2>3 DEF DowngradeCurrent, BreakerGoto, BreakerState
    <3>3. UNCHANGED <<slots, pqdata, up, rm, frees>> /\ current' = current \ {r}
      BY <2>3 DEF DowngradeCurrent
    <3>4. \A q \in Reservations, i \in Instances :
              HeldFor(q, i) => HeldFor(q, i)' \/ q = r
      BY <3>3
    <3>5. \A i \in Instances : HeldFor(r, i) => i = br[b].i
      BY <2>3 DEF DowngradeCurrent, BreakersKnow
    <3>6. BreakerHolds(b, br[b].i)
      BY <2>3 DEF DowngradeCurrent
    <3> HIDE DEF r, BreakerHolds, HeldFor
    <3>7. QED
      BY <3>1, <3>2, <3>3, <3>4, <3>5, <3>6
  <2>4. CASE ReleaseBroken(b)
    <3>1. slots' = slots \cup {br[b].i}
      BY <2>4 DEF ReleaseBroken
    <3>2. \A a \in Breakers, i \in Instances :
            BreakerHolds(a, i) => BreakerHolds(a, i)' \/ i = br[b].i
      BY <2>4 DEF ReleaseBroken, BreakerGoto
    <3>3. UNCHANGED <<pqdata, current, up, rm, frees>>
      BY <2>4 DEF ReleaseBroken
    <3> HIDE DEF BreakerHolds
    <3>4. QED
      BY <3>1, <3>2, <3>3
  <2>5. CASE ReadBroken(b)
    BY <2>5 DEF ReadBroken, IdleBreaker, UpdaterState, RemoverState, FreeTask,
            BreakerState
  <2>6. CASE WriteWaiting(b)
    <3>1. \A a \in Breakers, i \in Instances :
              BreakerHolds(a, i) => BreakerHolds(a, i)'
      BY <2>6 DEF WriteWaiting, BreakerGoto, BreakerState
    <3>2. \A q \in Reservations, i \in Instances :
              HeldFor(q, i) => HeldFor(q, i)'
      BY <2>6 DEF WriteWaiting, BreakersKnow
    <3>3. UNCHANGED <<slots, up, rm, frees>>
      BY <2>6 DEF WriteWaiting
    <3> HIDE DEF BreakerHolds, HeldFor
    <3>4. QED
      BY <3>1, <3>2, <3>3
  <2>7. CASE Requeue(b)
    BY <2>7 DEF Requeue, IdleBreaker, UpdaterState, RemoverState, FreeTask,
            BreakerState
  <2>8. CASE MarkBroken(b)
    BY <2>8 DEF MarkBroken, IdleBreaker, UpdaterState, RemoverState, FreeTask,
            BreakerState
  <2>9. QED
    BY <1>9, <2>1, <2>2, <2>3, <2>4, <2>5, <2>6, <2>7, <2>8 DEF Break
<1>10. ASSUME NEW b \in Breakers, NEW i \in Instances, BeginBreak(b, i)
      PROVE  NoSlotLost'
  BY <1>10 DEF BeginBreak, BreakerState
<1>11. ASSUME NEW i \in Instances, MarkFixed(i)
      PROVE  NoSlotLost'
  BY <1>11 DEF MarkFixed
<1>12. QED
  BY <1>1, <1>2, <1>3, <1>4, <1>5, <1>6, <1>7, <1>8, <1>9, <1>10, <1>11
     DEF Next, Begin

(* When no call to free fails, an instance that is not free has somebody   *)
(* who will give it back, although calls to reserve fail and breakers take *)
(* instances from their users.                                             *)
THEOREM StayNoSlotLost ==
  ASSUME UsersStay, "free" \notin Failures
  PROVE  Spec => []NoSlotLost
<1>1. Init => NoSlotLost
  BY DEF Init, NoSlotLost
<1>2. TypeOK /\ RemovalInvariant /\ StayInvariant /\ NoSlotLost /\ [Next]_vars
        => NoSlotLost'
  <2>1. CASE Next
    BY <2>1, ConstantsAssumption, NoSlotGetsLost
       DEF RemovalInvariant, StayInvariant
  <2>2. CASE UNCHANGED vars
    BY <2>2
       DEF vars, keys, lab, NoSlotLost, HeldByThread, HeldFor, Active,
           UpdaterHolds, RemoverHolds, FreeHolds, BreakerHolds
  <2>3. QED
    BY <2>1, <2>2
<1>3. QED
  BY <1>1, <1>2, TypeCorrect, RemovalsAreSound, StayIsSound, PTL DEF Spec

-----------------------------------------------------------------------------
(* Refinement of InstanceAllocation.                                       *)

(* A step that nobody sees: everything belongs to whom it did.             *)
Kept ==
  /\ finished' = finished
  /\ \A i \in Instances, r \in Reservations : Belongs(i, r)' <=> Belongs(i, r)

(* A free slot goes to a reservation with nothing, which is not over; ...  *)
Taken(i, r) ==
  /\ i \in slots /\ Belongs(i, r)'
  /\ r \notin finished /\ finished' = finished
  /\ \A j \in Instances : ~Belongs(j, r)
(* ... an instance stops being that of a reservation, maybe for good.      *)
GivenBack(i, r) ==
  /\ Belongs(i, r)
  /\ \A q \in Reservations : ~Belongs(i, q)'
  /\ finished' = finished \/ finished' = finished \cup {r}
(* One instance is taken or given back, and the others are kept.           *)
Passed == \E i \in Instances, r \in Reservations :
  /\ Taken(i, r) \/ GivenBack(i, r)
  /\ \A j \in Instances, q \in Reservations :
       j # i => (Belongs(j, q)' <=> Belongs(j, q))

(* An instance belongs to one reservation at most, and a free slot to none. *)
BelongsOnce == \A i \in Instances, r \in Reservations : Belongs(i, r) =>
  /\ i \notin slots
  /\ \A q \in Reservations : Belongs(i, q) => q = r

(* The invariant says so of each of those who may have it in their hands.  *)
LEMMA BelongsToOne ==
  ASSUME StayInvariant
  PROVE  BelongsOnce
<1> SUFFICES ASSUME NEW i \in Instances, NEW r \in Reservations, Belongs(i, r)
             PROVE  /\ i \notin slots
                    /\ \A q \in Reservations : Belongs(i, q) => q = r
  BY DEF BelongsOnce
<1>1. SlotHeldOnce /\ InstanceOnce /\ OneBreaks
  BY DEF StayInvariant
<1>2. \A b \in Breakers : BreakerHolds(b, i) => BreaksAt(b, i)
  BY DEF BreakerHolds, BreaksAt
<1>3. i \notin slots
  BY <1>1, <1>2 DEF Belongs, SlotHeldOnce, InstanceOnce
<1>4. ASSUME NEW q \in Reservations, Belongs(i, q)
      PROVE  q = r
  <2>1. CASE \/ \E u \in Updaters : UpdaterHolds(u, i)
             \/ \E c \in Removers : RemoverHolds(c, i)
             \/ \E t \in frees : FreeHolds(t, i)
    BY <1>1, <1>2, <1>4, <2>1 DEF Belongs, SlotHeldOnce, InstanceOnce
  <2>2. CASE \E b \in Breakers : BreakerHolds(b, i)
    <3>1. PICK b \in Breakers : BreakerHolds(b, i)
      BY <2>2
    <3>2. \A a \in Breakers : BreakerHolds(a, i) => a = b
      BY <1>1, <1>2, <3>1 DEF OneBreaks
    <3>3. \A p \in Reservations : HeldFor(p, i) => br[b].r = p
      BY <1>1, <1>2, <3>1 DEF OneBreaks, BreakerHolds
    <3>4. \A p \in Reservations : Belongs(i, p) => br[b].r = p
      BY <1>1, <1>2, <3>1, <3>2, <3>3 DEF Belongs, InstanceOnce
    <3>5. QED
      BY <1>4, <3>4
  <2>3. CASE HeldFor(q, i) /\ HeldFor(r, i)
    BY <1>1, <2>3 DEF InstanceOnce
  <2>4. QED
    BY <1>4, <2>1, <2>2, <2>3 DEF Belongs
<1>5. QED
  BY <1>3, <1>4

(* So it is an invariant.                                                  *)
LEMMA BelongsIsOnce ==
  ASSUME UsersStay
  PROVE  Spec => []BelongsOnce
<1>1. StayInvariant => BelongsOnce
  BY BelongsToOne, SMTT(30)
<1>2. QED
  BY <1>1, StayIsSound, PTL

(* Every step leaves the instances with whom they were, or passes one of   *)
(* them through the slots.                                                 *)
LEMMA StepsPass ==
  ASSUME ConstantsAssumption, UsersStay, TypeOK, FreshIsNowhere, RemovalOrder,
         DataAgree, QueueAgrees, UpdaterKnows, ConfirmersKnow, BreakersKnow,
         RemoversKnow, ClosedIsPurged, InstanceOnce, SlotHeldOnce,
         AssignedAgree, BelongsOnce', Next
  PROVE  Kept \/ Passed
<1> USE DEF TypeOK, KeyTypes, LabTypes, UpdaterTypes, RemoverTypes,
            BreakerTypes, keys, lab, Kept, Belongs, HeldFor, Active,
            BreakerHolds, UpdaterHolds, RemoverHolds, FreeHolds
<1>1. ASSUME NEW r \in Reservations, Reserve(r)
      PROVE  Kept \/ Passed
  <2>1. \A q \in Reservations, i \in Instances :
            HeldFor(q, i)' <=> HeldFor(q, i)
    BY <1>1 DEF Reserve, FreshIsNowhere, NoData
  <2>2. UNCHANGED <<up, rm, frees, br, finished>>
    BY <1>1, SMTT(30) DEF Reserve
  <2> HIDE DEF HeldFor
  <2>3. QED
    BY <2>1, <2>2
<1>2. ASSUME NEW u \in Updaters, Update(u)
      PROVE  Kept \/ Passed
  <2>0. \A v \in Updaters : v = u
    BY DEF UsersStay
  <2>1. CASE PickFirst(u)
    <3>1. \A v \in Updaters, i \in Instances, q \in Reservations :
          (UpdaterHolds(v, i) /\ up[v].r = q)' <=> UpdaterHolds(v, i) /\ up[v].r = q
      BY <2>1, <2>0 DEF PickFirst, UpdaterState
    <3>2. UNCHANGED <<pqdata, current, rm, frees, br, finished>>
      BY <2>1, <2>0 DEF PickFirst
    <3> HIDE DEF UpdaterHolds
    <3>3. QED
      BY <3>1, <3>2
  <2>2. CASE NobodyWaiting(u)
    <3>1. \A v \in Updaters, i \in Instances, q \in Reservations :
          (UpdaterHolds(v, i) /\ up[v].r = q)' <=> UpdaterHolds(v, i) /\ up[v].r = q
      BY <2>2, <2>0 DEF NobodyWaiting, IdleUpdater, UpdaterState
    <3>2. UNCHANGED <<pqdata, current, rm, frees, br, finished>>
      BY <2>2, <2>0 DEF NobodyWaiting
    <3> HIDE DEF UpdaterHolds
    <3>3. QED
      BY <3>1, <3>2
  <2>3. CASE ListFreeInstances(u)
    <3>1. \A v \in Updaters, i \in Instances, q \in Reservations :
          (UpdaterHolds(v, i) /\ up[v].r = q)' <=> UpdaterHolds(v, i) /\ up[v].r = q
      BY <2>3, <2>0 DEF ListFreeInstances, IdleUpdater, UpdaterState
    <3>2. UNCHANGED <<pqdata, current, rm, frees, br, finished>>
      BY <2>3, <2>0 DEF ListFreeInstances
    <3> HIDE DEF UpdaterHolds
    <3>3. QED
      BY <3>1, <3>2
  <2>4. CASE TryInstance(u)
    <3>1. \A v \in Updaters, i \in Instances, q \in Reservations :
          (UpdaterHolds(v, i) /\ up[v].r = q)' <=> UpdaterHolds(v, i) /\ up[v].r = q
      BY <2>4, <2>0 DEF TryInstance, UpdaterState
    <3>2. UNCHANGED <<pqdata, current, rm, frees, br, finished>>
      BY <2>4, <2>0 DEF TryInstance
    <3> HIDE DEF UpdaterHolds
    <3>3. QED
      BY <3>1, <3>2
  <2>5. CASE NoInstanceLeft(u)
    <3>1. \A v \in Updaters, i \in Instances, q \in Reservations :
          (UpdaterHolds(v, i) /\ up[v].r = q)' <=> UpdaterHolds(v, i) /\ up[v].r = q
      BY <2>5, <2>0 DEF NoInstanceLeft, NextRound, IdleUpdater, UpdaterState
    <3>2. UNCHANGED <<pqdata, current, rm, frees, br, finished>>
      BY <2>5, <2>0 DEF NoInstanceLeft
    <3> HIDE DEF UpdaterHolds
    <3>3. QED
      BY <3>1, <3>2
  <2>6. CASE CheckExists(u)
    <3>1. \A v \in Updaters, i \in Instances, q \in Reservations :
          (UpdaterHolds(v, i) /\ up[v].r = q)' <=> UpdaterHolds(v, i) /\ up[v].r = q
      BY <2>6, <2>0 DEF CheckExists, IdleUpdater, UpdaterState
    <3>2. UNCHANGED <<pqdata, current, rm, frees, br, finished>>
      BY <2>6, <2>0 DEF CheckExists
    <3> HIDE DEF UpdaterHolds
    <3>3. QED
      BY <3>1, <3>2
  <2>7. CASE SetCurrent(u)
    <3>1. \A v \in Updaters, i \in Instances, q \in Reservations :
          (UpdaterHolds(v, i) /\ up[v].r = q)' <=> UpdaterHolds(v, i) /\ up[v].r = q
      BY <2>7, <2>0 DEF SetCurrent, NextRound, IdleUpdater, UpdaterState
    <3>2. \A q \in Reservations, i \in Instances :
              HeldFor(q, i)' <=> HeldFor(q, i)
      BY <2>7, <2>0 DEF SetCurrent, UpdaterKnows, TakesCare, Confirming
    <3>3. UNCHANGED <<rm, frees, br, finished>>
      BY <2>7, <2>0 DEF SetCurrent
    <3> HIDE DEF UpdaterHolds, HeldFor
    <3>4. QED
      BY <3>1, <3>2, <3>3
  <2>8. CASE AcquireResource(u)
    <3>1. PICK r \in Reservations, i \in Instances : r = up[u].r /\ i = up[u].i
      BY <2>8, <2>0 DEF AcquireResource
    <3>2. \A v \in Updaters, j \in Instances : ~UpdaterHolds(v, j)
      BY <2>8, <2>0, <2>0 DEF AcquireResource
    <3>3. \A v \in Updaters, j \in Instances, q \in Reservations :
            (UpdaterHolds(v, j) /\ up[v].r = q)' <=> i \in slots /\ j = i /\ q = r
      BY <2>8, <2>0, <2>0, <3>1 DEF AcquireResource, UpdaterState
    <3>4. UNCHANGED <<pqdata, current, rm, frees, br, finished>>
      BY <2>8, <2>0 DEF AcquireResource
    <3> HIDE DEF UpdaterHolds
    <3>5. \A j \in Instances, q \in Reservations :
            Belongs(j, q)' <=> Belongs(j, q) \/ (i \in slots /\ j = i /\ q = r)
      BY <3>2, <3>3, <3>4
    <3>6. CASE i \notin slots
      BY <3>4, <3>5, <3>6
    <3>7. CASE i \in slots
      <4>1. r \in Queued /\ pqdata[r].active = "waiting"
        BY <2>8, <2>0, <3>1 DEF AcquireResource, UpdaterKnows, TakesCare
      <4>2. r \in stored /\ ~BeingPurged(r)
        BY <4>1 DEF QueueAgrees, BeingPurged, RemoversKnow, Removing
      <4>3. r \notin finished /\ \A t \in frees : t.r # r
        BY <4>2 DEF ClosedIsPurged
      <4>4. \A c \in Removers, j \in Instances :
                RemoverHolds(c, j) => rm[c].r # r
        BY <4>1 DEF RemoversKnow, Removing
      <4>5. \A b \in Breakers, j \in Instances :
                BreakerHolds(b, j) => br[b].r # r
        BY <4>1 DEF BreakersKnow
      <4>6. \A j \in Instances : ~HeldFor(r, j)
        BY <4>1
      <4>7. \A j \in Instances : ~Belongs(j, r)
        BY <3>2, <4>3, <4>4, <4>5, <4>6
      <4>8. Taken(i, r)
        BY <3>4, <3>5, <3>7, <4>3, <4>7 DEF Taken
      <4> HIDE DEF Belongs
      <4>9. QED
        BY <3>5, <4>8 DEF Passed
    <3>8. QED
      BY <3>6, <3>7
  <2>9. CASE Unconfirm(u)
    <3>1. \A v \in Updaters, i \in Instances, q \in Reservations :
          (UpdaterHolds(v, i) /\ up[v].r = q)' <=> UpdaterHolds(v, i) /\ up[v].r = q
      BY <2>9, <2>0 DEF Unconfirm, UpdaterState
    <3>2. \A q \in Reservations, i \in Instances :
              HeldFor(q, i)' <=> HeldFor(q, i)
      BY <2>9, <2>0 DEF Unconfirm, UpdaterKnows, TakesCare, Confirming
    <3>3. UNCHANGED <<rm, frees, br, finished>>
      BY <2>9, <2>0 DEF Unconfirm
    <3> HIDE DEF UpdaterHolds, HeldFor
    <3>4. QED
      BY <3>1, <3>2, <3>3
  <2>10. CASE AssignInstance(u)
    <3>1. \A v \in Updaters, i \in Instances, q \in Reservations :
          (UpdaterHolds(v, i) /\ up[v].r = q)' <=> UpdaterHolds(v, i) /\ up[v].r = q
      BY <2>10, <2>0 DEF AssignInstance, UpdaterState
    <3>2. UNCHANGED <<pqdata, current, rm, frees, br, finished>>
      BY <2>10, <2>0 DEF AssignInstance
    <3> HIDE DEF UpdaterHolds
    <3>3. QED
      BY <3>1, <3>2
  <2>11. CASE ReadReservation(u)
    <3>1. \A v \in Updaters, i \in Instances, q \in Reservations :
          (UpdaterHolds(v, i) /\ up[v].r = q)' <=> UpdaterHolds(v, i) /\ up[v].r = q
      BY <2>11, <2>0 DEF ReadReservation, UpdaterKnows, TakesCare, UpdaterState
    <3>2. UNCHANGED <<pqdata, current, rm, frees, br, finished>>
      BY <2>11, <2>0 DEF ReadReservation
    <3> HIDE DEF UpdaterHolds
    <3>3. QED
      BY <3>1, <3>2
  <2>12. CASE DowngradeUnsuitable(u)
    <3>1. \A v \in Updaters, i \in Instances, q \in Reservations :
          (UpdaterHolds(v, i) /\ up[v].r = q)' <=> UpdaterHolds(v, i) /\ up[v].r = q
      BY <2>12, <2>0 DEF DowngradeUnsuitable, UpdaterState
    <3>2. \A q \in Reservations, i \in Instances :
              HeldFor(q, i)' <=> HeldFor(q, i)
      BY <2>12, <2>0 DEF DowngradeUnsuitable, UpdaterKnows, TakesCare,
         Confirming
    <3>3. UNCHANGED <<rm, frees, br, finished>>
      BY <2>12, <2>0 DEF DowngradeUnsuitable
    <3> HIDE DEF UpdaterHolds, HeldFor
    <3>4. QED
      BY <3>1, <3>2, <3>3
  <2>13. CASE ReleaseAcquired(u)
    <3>1. PICK r \in Reservations, i \in Instances : r = up[u].r /\ i = up[u].i
      BY <2>13, <2>0 DEF ReleaseAcquired
    <3>2. \A v \in Updaters, j \in Instances, q \in Reservations :
            UpdaterHolds(v, j) /\ up[v].r = q <=> j = i /\ q = r
      BY <2>13, <2>0, <2>0, <3>1 DEF ReleaseAcquired
    <3>3. \A v \in Updaters, j \in Instances : ~UpdaterHolds(v, j)'
      BY <2>13, <2>0, <2>0 DEF ReleaseAcquired, UpdaterState
    <3>4. UNCHANGED <<pqdata, current, rm, frees, br, finished>> /\ i \in slots'
      BY <2>13, <2>0, <3>1 DEF ReleaseAcquired
    <3> HIDE DEF UpdaterHolds
    <3>5. Belongs(i, r)
      BY <3>2
    <3>6. \A j \in Instances, q \in Reservations :
              j # i => (Belongs(j, q)' <=> Belongs(j, q))
      BY <3>2, <3>3, <3>4
    <3> HIDE DEF Belongs
    <3>7. GivenBack(i, r)
      BY <3>4, <3>5 DEF GivenBack, BelongsOnce
    <3>8. QED
      BY <3>6, <3>7 DEF Passed
  <2>14. CASE Unassign(u)
    <3>1. \A v \in Updaters, i \in Instances, q \in Reservations :
          (UpdaterHolds(v, i) /\ up[v].r = q)' <=> UpdaterHolds(v, i) /\ up[v].r = q
      BY <2>14, <2>0 DEF Unassign, NextRound, IdleUpdater, UpdaterState
    <3>2. UNCHANGED <<pqdata, current, rm, frees, br, finished>>
      BY <2>14, <2>0 DEF Unassign
    <3> HIDE DEF UpdaterHolds
    <3>3. QED
      BY <3>1, <3>2
  <2>15. CASE SetWaitingConfirmation(u)
    <3>1. PICK r \in Reservations, i \in Instances : r = up[u].r /\ i = up[u].i
      BY <2>15, <2>0 DEF SetWaitingConfirmation
    <3>2. UpdaterHolds(u, i)
      BY <2>15, <2>0, <3>1 DEF SetWaitingConfirmation, UpdaterHolds,
         UpdaterState
    <3>3. /\ pqdata'[r].inst = i /\ Active(pqdata'[r])
          /\ \A q \in Reservations \ {r} : pqdata'[q] = pqdata[q]
      BY <2>15, <2>0, <3>1 DEF SetWaitingConfirmation, UpdaterState, Data
    <3>4. r \in current /\ ~Active(pqdata[r])
      BY <2>15, <2>0, <3>1 DEF SetWaitingConfirmation, UpdaterKnows, TakesCare,
         Confirming
    <3>5. UNCHANGED <<current, rm, frees, br, finished>>
      BY <2>15, <2>0 DEF SetWaitingConfirmation
    <3>6. \A q \in Reservations, j \in Instances :
            HeldFor(q, j)' <=> HeldFor(q, j) \/ (q = r /\ j = i)
      BY <3>3, <3>4, <3>5
    <3>7. \A v \in Updaters, j \in Instances, q \in Reservations :
            UpdaterHolds(v, j) /\ up[v].r = q <=> j = i /\ q = r
      BY <2>15, <2>0, <2>0, <3>1, <3>2
    <3>8. \A v \in Updaters, j \in Instances : ~UpdaterHolds(v, j)'
      BY <2>15, <2>0, <2>0 DEF SetWaitingConfirmation, UpdaterState
    <3> HIDE DEF UpdaterHolds, HeldFor
    <3>9. QED
      BY <3>5, <3>6, <3>7, <3>8
  <2>16. CASE DequeueAndConfirm(u)
    <3>1. \A v \in Updaters, i \in Instances, q \in Reservations :
          (UpdaterHolds(v, i) /\ up[v].r = q)' <=> UpdaterHolds(v, i) /\ up[v].r = q
      BY <2>16, <2>0 DEF DequeueAndConfirm, NextRound, IdleUpdater,
         UpdaterState
    <3>2. UNCHANGED <<pqdata, current, rm, frees, br, finished>>
      BY <2>16, <2>0 DEF DequeueAndConfirm
    <3> HIDE DEF UpdaterHolds
    <3>3. QED
      BY <3>1, <3>2
  <2>17. QED
    BY <1>2, <2>1, <2>2, <2>3, <2>4, <2>5, <2>6, <2>7, <2>8, <2>9, <2>10,
            <2>11, <2>12, <2>13, <2>14, <2>15, <2>16 DEF Update
<1>3. ASSUME NEW t \in confirms, Confirm(t)
      PROVE  Kept \/ Passed
  <2>1. CASE ReserveInLab(t)
    <3>1. UNCHANGED <<pqdata, current, up, rm, frees, br, finished>>
      BY <2>1 DEF ReserveInLab
    <3>2. QED
      BY <3>1
  <2>2. CASE PutInitial(t)
    <3>1. UNCHANGED <<pqdata, current, up, rm, frees, br, finished>>
      BY <2>2 DEF PutInitial
    <3>2. QED
      BY <3>1
  <2>3. CASE ReadToConfirm(t)
    <3>1. UNCHANGED <<pqdata, current, up, rm, frees, br, finished>>
      BY <2>3 DEF ReadToConfirm
    <3>2. QED
      BY <3>1
  <2>4. CASE WriteReserved(t)
    <3>1. \A q \in Reservations, i \in Instances :
              HeldFor(q, i)' <=> HeldFor(q, i)
      BY <2>4 DEF WriteReserved, ConfirmersKnow, ConfirmTask, Data
    <3>2. UNCHANGED <<up, rm, frees, br, finished>>
      BY <2>4 DEF WriteReserved
    <3> HIDE DEF HeldFor
    <3>3. QED
      BY <3>1, <3>2
  <2>5. QED
    BY <1>3, <2>1, <2>2, <2>3, <2>4 DEF Confirm
<1>4. ASSUME NEW t \in confirms, NEW b \in Breakers, LabFailsToReserve(t, b)
      PROVE  Kept \/ Passed
  <2>1. \A a \in Breakers, j \in Instances, q \in Reservations :
        (BreakerHolds(a, j) /\ br[a].r = q)' <=> BreakerHolds(a, j) /\ br[a].r = q
    BY <1>4 DEF LabFailsToReserve, BreakerState
  <2>2. UNCHANGED <<pqdata, current, up, rm, frees, finished>>
    BY <1>4 DEF LabFailsToReserve
  <2> HIDE DEF BreakerHolds
  <2>3. QED
    BY <2>1, <2>2
<1>5. ASSUME NEW c \in Removers, NEW r \in Reservations,
             \/ BeginFinish(c, r) \/ BeginExpire(c, r)
             \/ BeginDrop(c, r) \/ BeginPoll(c, r)
      PROVE  Kept \/ Passed
  <2>1. CASE BeginFinish(c, r)
    <3>1. \A d \in Removers, i \in Instances, q \in Reservations :
          (RemoverHolds(d, i) /\ rm[d].r = q)' <=> RemoverHolds(d, i) /\ rm[d].r = q
      BY <2>1 DEF BeginFinish, IdleRemover, RemoverState, RemovalOrder
    <3>2. UNCHANGED <<pqdata, current, up, frees, br, finished>>
      BY <2>1 DEF BeginFinish
    <3> HIDE DEF RemoverHolds
    <3>3. QED
      BY <3>1, <3>2
  <2>2. CASE BeginExpire(c, r)
    <3>1. \A d \in Removers, i \in Instances, q \in Reservations :
          (RemoverHolds(d, i) /\ rm[d].r = q)' <=> RemoverHolds(d, i) /\ rm[d].r = q
      BY <2>2 DEF BeginExpire, IdleRemover, RemoverState, RemovalOrder
    <3>2. UNCHANGED <<pqdata, current, up, frees, br, finished>>
      BY <2>2 DEF BeginExpire
    <3> HIDE DEF RemoverHolds
    <3>3. QED
      BY <3>1, <3>2
  <2>3. CASE BeginDrop(c, r)
    <3>1. \A d \in Removers, i \in Instances, q \in Reservations :
          (RemoverHolds(d, i) /\ rm[d].r = q)' <=> RemoverHolds(d, i) /\ rm[d].r = q
      BY <2>3 DEF BeginDrop, IdleRemover, RemoverState, RemovalOrder
    <3>2. UNCHANGED <<pqdata, current, up, frees, br, finished>>
      BY <2>3 DEF BeginDrop
    <3> HIDE DEF RemoverHolds
    <3>3. QED
      BY <3>1, <3>2
  <2>4. CASE BeginPoll(c, r)
    <3>1. \A d \in Removers, i \in Instances, q \in Reservations :
          (RemoverHolds(d, i) /\ rm[d].r = q)' <=> RemoverHolds(d, i) /\ rm[d].r = q
      BY <2>4, SMTT(30) DEF BeginPoll, IdleRemover, RemoverState, RemovalOrder
    <3>2. UNCHANGED <<pqdata, current, up, frees, br, finished>>
      BY <2>4 DEF BeginPoll
    <3> HIDE DEF RemoverHolds
    <3>3. QED
      BY <3>1, <3>2
  <2>5. QED
    BY <1>5, <2>1, <2>2, <2>3, <2>4
<1>6. ASSUME NEW c \in Removers, Remove(c)
      PROVE  Kept \/ Passed
  <2>1. CASE FindAggregator(c)
    <3>1. \A d \in Removers, i \in Instances, q \in Reservations :
          (RemoverHolds(d, i) /\ rm[d].r = q)' <=> RemoverHolds(d, i) /\ rm[d].r = q
      BY <2>1 DEF FindAggregator, Goto, RemoverState, RemovalOrder
    <3>2. UNCHANGED <<pqdata, current, up, frees, br, finished>>
      BY <2>1 DEF FindAggregator
    <3> HIDE DEF RemoverHolds
    <3>3. QED
      BY <3>1, <3>2
  <2>2. CASE ReadActive(c)
    <3>1. \A d \in Removers, i \in Instances, q \in Reservations :
          (RemoverHolds(d, i) /\ rm[d].r = q)' <=> RemoverHolds(d, i) /\ rm[d].r = q
      BY <2>2 DEF ReadActive, IdleRemover, RemoverState, RemovalOrder
    <3>2. UNCHANGED <<pqdata, current, up, frees, br, finished>>
      BY <2>2 DEF ReadActive
    <3> HIDE DEF RemoverHolds
    <3>3. QED
      BY <3>1, <3>2
  <2>3. CASE Touch(c)
    <3>1. \A d \in Removers, i \in Instances, q \in Reservations :
          (RemoverHolds(d, i) /\ rm[d].r = q)' <=> RemoverHolds(d, i) /\ rm[d].r = q
      BY <2>3 DEF Touch, IdleRemover, RemoverState, RemovalOrder
    <3>2. UNCHANGED <<pqdata, current, up, frees, br, finished>>
      BY <2>3 DEF Touch
    <3> HIDE DEF RemoverHolds
    <3>3. QED
      BY <3>1, <3>2
  <2>4. CASE ReadToClean(c)
    <3>1. \A d \in Removers, i \in Instances, q \in Reservations :
          (RemoverHolds(d, i) /\ rm[d].r = q)' <=> RemoverHolds(d, i) /\ rm[d].r = q
      BY <2>4 DEF ReadToClean, RemoverState, RemovalOrder
    <3>2. UNCHANGED <<pqdata, current, up, frees, br, finished>>
      BY <2>4 DEF ReadToClean
    <3> HIDE DEF RemoverHolds
    <3>3. QED
      BY <3>1, <3>2
  <2>5. CASE DowngradeConfirmation(c)
    <3>1. PICK r \in Reservations : r = rm[c].r
      BY <2>5 DEF DowngradeConfirmation
    <3>2. ~rm[c].won /\ (r \in current => rm[c].data = pqdata[r])
      BY <2>5, <3>1 DEF DowngradeConfirmation, RemovalOrder, RemoversKnow,
         RemoverState, Removing
    <3>3. current' = current \ {r} /\ UNCHANGED <<pqdata, up, frees, br, finished>>
      BY <2>5, <3>1 DEF DowngradeConfirmation
    <3>4. r \in current => Active(pqdata[r]) /\ pqdata[r].inst \in Instances
      BY <2>5, <3>1 DEF DowngradeConfirmation, RemoversKnow, Removing,
         RemovalOrder, DataAgree
    <3>5. \A q \in Reservations, j \in Instances :
            HeldFor(q, j)' <=> HeldFor(q, j) /\ q # r
      BY <3>3
    <3>6. \A j \in Instances :
            HeldFor(r, j) <=> r \in current /\ pqdata[r].inst = j
      BY <3>4
    <3>7. /\ rm'[c].r = r /\ rm'[c].data = rm[c].data /\ (rm'[c].won <=> r \in current)
          /\ \A d \in Removers : d # c => rm'[d] = rm[d]
      BY <2>5, <3>1, <3>2, <3>4, ConstantsAssumption
         DEF DowngradeConfirmation, RemoverState, ConstantsAssumption
    <3>8. \A d \in Removers, j \in Instances, q \in Reservations :
            (RemoverHolds(d, j) /\ rm[d].r = q)' <=>
              (RemoverHolds(d, j) /\ rm[d].r = q) \/ (d = c /\ q = r /\ HeldFor(r, j))
      BY <3>1, <3>2, <3>6, <3>7
    <3> HIDE DEF RemoverHolds, HeldFor
    <3>9. QED
      BY <3>3, <3>5, <3>8
  <2>6. CASE UnassignCleaned(c)
    <3>1. \A d \in Removers, i \in Instances, q \in Reservations :
          (RemoverHolds(d, i) /\ rm[d].r = q)' <=> RemoverHolds(d, i) /\ rm[d].r = q
      BY <2>6 DEF UnassignCleaned, Goto, RemoverState, RemovalOrder
    <3>2. UNCHANGED <<pqdata, current, up, frees, br, finished>>
      BY <2>6 DEF UnassignCleaned
    <3> HIDE DEF RemoverHolds
    <3>3. QED
      BY <3>1, <3>2
  <2>7. CASE DeleteReservation(c)
    <3>1. \A d \in Removers, i \in Instances, q \in Reservations :
          (RemoverHolds(d, i) /\ rm[d].r = q)' <=> RemoverHolds(d, i) /\ rm[d].r = q
      BY <2>7 DEF DeleteReservation, Goto, RemoverState
    <3>2. \A q \in Reservations, i \in Instances :
              HeldFor(q, i)' <=> HeldFor(q, i)
      BY <2>7 DEF DeleteReservation, RemoversKnow, Removing, RemovalOrder,
         DataAgree,
                  NoData
    <3>3. UNCHANGED <<up, frees, br, finished>>
      BY <2>7 DEF DeleteReservation
    <3> HIDE DEF RemoverHolds, HeldFor
    <3>4. QED
      BY <3>1, <3>2, <3>3
  <2>8. CASE Unmap(c)
    <3>1. \A d \in Removers, i \in Instances, q \in Reservations :
          (RemoverHolds(d, i) /\ rm[d].r = q)' <=> RemoverHolds(d, i) /\ rm[d].r = q
      BY <2>8 DEF Unmap, AfterDequeue, IdleRemover, RemoverState, RemoversKnow,
                  Removing
    <3>2. UNCHANGED <<pqdata, current, up, frees, br, finished>>
      BY <2>8 DEF Unmap
    <3> HIDE DEF RemoverHolds
    <3>3. QED
      BY <3>1, <3>2
  <2>9. CASE Dequeue(c)
    <3>1. \A d \in Removers, i \in Instances, q \in Reservations :
          (RemoverHolds(d, i) /\ rm[d].r = q)' <=> RemoverHolds(d, i) /\ rm[d].r = q
      BY <2>9 DEF Dequeue, AfterDequeue, IdleRemover, RemoverState,
         RemoversKnow,
                  Removing
    <3>2. UNCHANGED <<pqdata, current, up, frees, br, finished>>
      BY <2>9 DEF Dequeue
    <3> HIDE DEF RemoverHolds
    <3>3. QED
      BY <3>1, <3>2
  <2>10. CASE Purge(c)
    <3>1. \A d \in Removers, i \in Instances, q \in Reservations :
          (RemoverHolds(d, i) /\ rm[d].r = q)' <=> RemoverHolds(d, i) /\ rm[d].r = q
      BY <2>10 DEF Purge, Goto, RemoverState
    <3>2. \A q \in Reservations, i \in Instances :
              HeldFor(q, i)' <=> HeldFor(q, i)
      BY <2>10 DEF Purge, RemoversKnow, Removing, RemovalOrder
    <3>3. UNCHANGED <<up, frees, br, finished>>
      BY <2>10 DEF Purge
    <3> HIDE DEF RemoverHolds, HeldFor
    <3>4. QED
      BY <3>1, <3>2, <3>3
  <2>11. CASE EnqueueFree(c)
    <3> DEFINE s == [r |-> rm[c].r, i |-> rm[c].data.inst, pc |-> "lab"]
    <3>1. PICK r \in Reservations : r = rm[c].r
      BY <2>11 DEF EnqueueFree
    <3>2. s.r = r /\ s.i = rm[c].data.inst
      BY <3>1
    <3>3. /\ frees' = IF rm[c].won THEN frees \cup {s} ELSE frees
          /\ ~rm'[c].won /\ \A d \in Removers : d # c => rm'[d] = rm[d]
          /\ UNCHANGED <<pqdata, current, up, br, finished>>
      BY <2>11 DEF EnqueueFree, RemoversKnow, IdleRemover, RemoverState
    <3> HIDE DEF s
    <3>4. \A i \in Instances, q \in Reservations :
            (\E f \in frees : FreeHolds(f, i) /\ f.r = q)' <=>
              \/ \E f \in frees : FreeHolds(f, i) /\ f.r = q
              \/ RemoverHolds(c, i) /\ q = r
      BY <3>2, <3>3
    <3>5. \A d \in Removers, i \in Instances, q \in Reservations :
            (RemoverHolds(d, i) /\ rm[d].r = q)' <=> RemoverHolds(d, i) /\ rm[d].r = q /\ d # c
      BY <3>3
    <3>6. UNCHANGED <<pqdata, current, up, br, finished>>
      BY <3>3
    <3> HIDE DEF RemoverHolds, FreeHolds
    <3>7. QED
      BY <3>1, <3>4, <3>5, <3>6
  <2>12. CASE ClearFinishing(c)
    <3>1. \A d \in Removers, i \in Instances, q \in Reservations :
          (RemoverHolds(d, i) /\ rm[d].r = q)' <=> RemoverHolds(d, i) /\ rm[d].r = q
      BY <2>12 DEF ClearFinishing, IdleRemover, RemoverState, RemovalOrder
    <3>2. UNCHANGED <<pqdata, current, up, frees, br, finished>>
      BY <2>12 DEF ClearFinishing
    <3> HIDE DEF RemoverHolds
    <3>3. QED
      BY <3>1, <3>2
  <2>13. QED
    BY <1>6, <2>1, <2>2, <2>3, <2>4, <2>5, <2>6, <2>7, <2>8, <2>9, <2>10,
            <2>11, <2>12 DEF Remove
<1>7. ASSUME NEW t \in frees, Free(t)
      PROVE  Kept \/ Passed
  <2>1. CASE FreeInLab(t)
    <3> DEFINE s == [t EXCEPT !.pc = "dispose"]
    <3>1. frees' = (frees \ {t}) \cup {s} /\ s.i = t.i /\ s.r = t.r
      BY <2>1 DEF FreeInLab, FreeTask
    <3> HIDE DEF s
    <3>2. \A i \in Instances, r \in Reservations :
            (\E f \in frees :
                 FreeHolds(f, i) /\ f.r = r)' <=>
                   \E f \in frees : FreeHolds(f, i) /\ f.r = r
      BY <3>1
    <3>3. UNCHANGED <<pqdata, current, up, rm, br, finished>>
      BY <2>1 DEF FreeInLab
    <3> HIDE DEF FreeHolds
    <3>4. QED
      BY <3>2, <3>3
  <2>2. CASE ConfirmDisposal(t)
    <3>1. PICK r \in Reservations, i \in Instances : r = t.r /\ i = t.i
      BY DEF FreeTask
    <3>2. /\ frees' = frees \ {t} /\ finished' = finished \cup {r} /\ i \in slots'
          /\ UNCHANGED <<pqdata, current, up, rm, br>>
      BY <2>2, <3>1 DEF ConfirmDisposal
    <3>3. Belongs(i, r)
      BY <3>1
    <3>4. \A j \in Instances, q \in Reservations :
              j # i => (Belongs(j, q)' <=> Belongs(j, q))
      BY <3>1, <3>2
    <3> HIDE DEF Belongs
    <3>5. GivenBack(i, r)
      BY <3>2, <3>3 DEF GivenBack, BelongsOnce
    <3>6. QED
      BY <3>4, <3>5 DEF Passed
  <2>3. QED
    BY <1>7, <2>1, <2>2 DEF Free
<1>8. ASSUME NEW t \in frees, NEW b \in Breakers, LabFailsToFree(t, b)
      PROVE  Kept \/ Passed
  <2>1. PICK r \in Reservations, i \in Instances : r = t.r /\ i = t.i
    BY DEF FreeTask
  <2>2. /\ frees' = frees \ {t}
        /\ UNCHANGED <<pqdata, current, up, rm, finished>>
    BY <1>8 DEF LabFailsToFree
  <2>3. \A a \in Breakers, j \in Instances, q \in Reservations :
        (BreakerHolds(a, j) /\ br[a].r = q)' <=> BreakerHolds(a, j) /\ br[a].r = q
    BY <1>8 DEF LabFailsToFree, BreakerState
  <2>4. /\ \A q \in Reservations : ~HeldFor(q, i)
        /\ \A a \in Breakers : ~BreaksAt(a, i)
    BY <2>1 DEF InstanceOnce
  <2>5. /\ \A v \in Updaters : ~UpdaterHolds(v, i)
        /\ \A c \in Removers : ~RemoverHolds(c, i)
        /\ \A s \in frees : FreeHolds(s, i) => s = t
    BY <2>1 DEF SlotHeldOnce
  <2>6. \A a \in Breakers : ~BreakerHolds(a, i)
    BY <2>4 DEF BreaksAt
  <2> HIDE DEF BreakerHolds
  <2>7. Belongs(i, r)
    BY <2>1
  <2>8. \A q \in Reservations : ~Belongs(i, q)'
    BY <2>2, <2>3, <2>4, <2>5, <2>6
  <2>9. \A j \in Instances, q \in Reservations :
            j # i => (Belongs(j, q)' <=> Belongs(j, q))
    BY <2>1, <2>2, <2>3
  <2> HIDE DEF Belongs
  <2>10. GivenBack(i, r)
    BY <2>2, <2>7, <2>8 DEF GivenBack
  <2>11. QED
    BY <2>9, <2>10 DEF Passed
<1>9. ASSUME NEW b \in Breakers, Break(b)
      PROVE  Kept \/ Passed
  <2>1. CASE FindCurrent(b)
    <3>1. br[b].pc = "find" /\ br'[b].pc \in {"mark", "remove"}
          /\ \A a \in Breakers : a # b => br'[a] = br[a]
      BY <2>1 DEF FindCurrent, BreakerGoto, BreakerState
    <3>2. \A a \in Breakers, j \in Instances, q \in Reservations :
          (BreakerHolds(a, j) /\ br[a].r = q)' <=> BreakerHolds(a, j) /\ br[a].r = q
      BY <3>1
    <3>3. UNCHANGED <<pqdata, current, up, rm, frees, finished>>
      BY <2>1 DEF FindCurrent
    <3> HIDE DEF BreakerHolds
    <3>4. QED
      BY <3>2, <3>3
  <2>2. CASE RemoveCurrent(b)
    <3>1. PICK r \in Reservations, i \in Instances : r = br[b].r /\ i = br[b].i
      BY <2>2 DEF RemoveCurrent
    <3>2. r \in assigned[i] => HeldFor(r, i)
      BY <2>2, <3>1, AssignedIsHeld DEF RemoveCurrent, BreaksAt
    <3>3. \A a \in Breakers, j \in Instances, q \in Reservations :
            (BreakerHolds(a, j) /\ br[a].r = q)' <=>
              \/ BreakerHolds(a, j) /\ br[a].r = q
              \/ a = b /\ j = i /\ q = r /\ r \in assigned[i]
      BY <2>2, <3>1 DEF RemoveCurrent, IdleBreaker, BreakerState
    <3>4. UNCHANGED <<pqdata, current, up, rm, frees, finished>>
      BY <2>2 DEF RemoveCurrent
    <3>5. \A j \in Instances, q \in Reservations :
              HeldFor(q, j)' <=> HeldFor(q, j)
      BY <3>4
    <3> HIDE DEF BreakerHolds, HeldFor
    <3>6. QED
      BY <3>2, <3>3, <3>4, <3>5
  <2>3. CASE DowngradeCurrent(b)
    <3>1. PICK r \in Reservations, i \in Instances : r = br[b].r /\ i = br[b].i
      BY <2>3 DEF DowngradeCurrent
    <3>2. BreakerHolds(b, i) /\ HeldFor(r, i)
      BY <2>3, <3>1 DEF DowngradeCurrent, BreakersKnow
    <3>3. \A a \in Breakers, j \in Instances, q \in Reservations :
            (BreakerHolds(a, j) /\ br[a].r = q)' <=> BreakerHolds(a, j) /\ br[a].r = q
      BY <2>3 DEF DowngradeCurrent, BreakerGoto, BreakerState
    <3>4. UNCHANGED <<pqdata, up, rm, frees, finished>> /\ current' = current \ {r}
      BY <2>3, <3>1 DEF DowngradeCurrent
    <3>5. \A j \in Instances, q \in Reservations :
            HeldFor(q, j)' <=> HeldFor(q, j) /\ ~(q = r /\ j = i)
      BY <3>2, <3>4
    <3> HIDE DEF BreakerHolds, HeldFor
    <3>6. QED
      BY <3>1, <3>2, <3>3, <3>4, <3>5
  <2>4. CASE ReleaseBroken(b)
    <3>1. PICK r \in Reservations, i \in Instances : r = br[b].r /\ i = br[b].i
      BY <2>4 DEF ReleaseBroken
    <3>2. BreakerHolds(b, i)
      BY <2>4, <3>1 DEF ReleaseBroken
    <3>3. \A a \in Breakers, j \in Instances, q \in Reservations : j # i =>
            ((BreakerHolds(a, j) /\ br[a].r = q)' <=> BreakerHolds(a, j) /\ br[a].r = q)
      BY <2>4, <3>1 DEF ReleaseBroken, BreakerGoto, BreakerState
    <3>4. UNCHANGED <<pqdata, current, up, rm, frees, finished>> /\ i \in slots'
      BY <2>4, <3>1 DEF ReleaseBroken
    <3> HIDE DEF BreakerHolds
    <3>5. Belongs(i, r)
      BY <3>1, <3>2
    <3>6. \A j \in Instances, q \in Reservations :
              j # i => (Belongs(j, q)' <=> Belongs(j, q))
      BY <3>3, <3>4
    <3> HIDE DEF Belongs
    <3>7. GivenBack(i, r)
      BY <3>4, <3>5 DEF GivenBack, BelongsOnce
    <3>8. QED
      BY <3>6, <3>7 DEF Passed
  <2>5. CASE ReadBroken(b)
    <3>1. \A a \in Breakers, j \in Instances, q \in Reservations :
          (BreakerHolds(a, j) /\ br[a].r = q)' <=> BreakerHolds(a, j) /\ br[a].r = q
      BY <2>5 DEF ReadBroken, IdleBreaker, BreakerState
    <3>2. UNCHANGED <<pqdata, current, up, rm, frees, finished>>
      BY <2>5 DEF ReadBroken
    <3> HIDE DEF BreakerHolds
    <3>3. QED
      BY <3>1, <3>2
  <2>6. CASE WriteWaiting(b)
    <3>1. \A a \in Breakers, j \in Instances, q \in Reservations :
          (BreakerHolds(a, j) /\ br[a].r = q)' <=> BreakerHolds(a, j) /\ br[a].r = q
      BY <2>6 DEF WriteWaiting, BreakerGoto, BreakerState
    <3>2. \A q \in Reservations, i \in Instances :
              HeldFor(q, i)' <=> HeldFor(q, i)
      BY <2>6 DEF WriteWaiting, BreakersKnow
    <3>3. UNCHANGED <<up, rm, frees, finished>>
      BY <2>6 DEF WriteWaiting
    <3> HIDE DEF BreakerHolds, HeldFor
    <3>4. QED
      BY <3>1, <3>2, <3>3
  <2>7. CASE Requeue(b)
    <3>1. \A a \in Breakers, j \in Instances, q \in Reservations :
          (BreakerHolds(a, j) /\ br[a].r = q)' <=> BreakerHolds(a, j) /\ br[a].r = q
      BY <2>7 DEF Requeue, IdleBreaker, BreakerState
    <3>2. UNCHANGED <<pqdata, current, up, rm, frees, finished>>
      BY <2>7 DEF Requeue
    <3> HIDE DEF BreakerHolds
    <3>3. QED
      BY <3>1, <3>2
  <2>8. CASE MarkBroken(b)
    <3>1. \A a \in Breakers, j \in Instances, q \in Reservations :
          (BreakerHolds(a, j) /\ br[a].r = q)' <=> BreakerHolds(a, j) /\ br[a].r = q
      BY <2>8 DEF MarkBroken, IdleBreaker, BreakerState
    <3>2. UNCHANGED <<pqdata, current, up, rm, frees, finished>>
      BY <2>8 DEF MarkBroken
    <3> HIDE DEF BreakerHolds
    <3>3. QED
      BY <3>1, <3>2
  <2>9. QED
    BY <1>9, <2>1, <2>2, <2>3, <2>4, <2>5, <2>6, <2>7, <2>8 DEF Break
<1>10. ASSUME NEW b \in Breakers, NEW i \in Instances, BeginBreak(b, i)
      PROVE  Kept \/ Passed
  <2>1. \A a \in Breakers, j \in Instances, q \in Reservations :
        (BreakerHolds(a, j) /\ br[a].r = q)' <=> BreakerHolds(a, j) /\ br[a].r = q
    BY <1>10 DEF BeginBreak, BreakerState
  <2>2. UNCHANGED <<pqdata, current, up, rm, frees, finished>>
    BY <1>10 DEF BeginBreak
  <2> HIDE DEF BreakerHolds
  <2>3. QED
    BY <2>1, <2>2
<1>11. ASSUME NEW i \in Instances, MarkFixed(i)
      PROVE  Kept \/ Passed
  BY <1>11 DEF MarkFixed
<1>12. QED
  BY <1>1, <1>2, <1>3, <1>4, <1>5, <1>6, <1>7, <1>8, <1>9, <1>10, <1>11
     DEF Next, Begin

(* What InstanceAllocation sees of an instance.                            *)
HolderAgrees == \A i \in Instances :
  /\ \A r \in Reservations : Belongs(i, r) <=> Holder(i) = r
  /\ Holder(i) \in Reservations \cup {NoneMember}

(* With one owner at most, the holder that Holder chooses is it, ...       *)
LEMMA HolderIsOwner == BelongsOnce => HolderAgrees
<1> SUFFICES ASSUME BelongsOnce, NEW i \in Instances
             PROVE  /\ \A r \in Reservations : Belongs(i, r) <=> Holder(i) = r
                    /\ Holder(i) \in Reservations \cup {NoneMember}
  BY DEF HolderAgrees
<1>1. NoneMember \notin Reservations
  BY ConstantsAssumption DEF ConstantsAssumption, NoneMember, Reservations
<1>2. CASE \E r \in Reservations : Belongs(i, r)
  <2>1. PICK r \in Reservations : Belongs(i, r)
    BY <1>2
  <2>2. i \notin slots /\ \A q \in Reservations : Belongs(i, q) <=> q = r
    BY <2>1 DEF BelongsOnce
  <2>3. Holder(i) = r
    BY <2>1, <2>2 DEF Holder
  <2>4. QED
    BY <2>2, <2>3
<1>3. CASE ~\E r \in Reservations : Belongs(i, r)
  BY <1>1, <1>3 DEF Holder
<1>4. QED
  BY <1>2, <1>3

(* ... and a free slot has none.                                           *)
LEMMA FreeHasNoHolder ==
  ASSUME BelongsOnce, NEW i \in slots, i \in Instances
  PROVE  Holder(i) = NoneMember
BY DEF Holder

(* Keeping the instances is nothing to see, ...                            *)
LEMMA KeptIsUnseen ==
  ASSUME HolderAgrees, HolderAgrees', Kept
  PROVE  UNCHANGED Allocation!allocation
<1>1. ASSUME NEW i \in Instances
      PROVE  Holder(i)' = Holder(i)
  <2> USE DEF HolderAgrees
  <2>1. CASE Holder(i) \in Reservations
    BY <2>1 DEF Kept
  <2>2. CASE Holder(i)' \in Reservations
    BY <2>2 DEF Kept
  <2>3. QED
    BY <2>1, <2>2
<1>2. [i \in Instances |-> Holder(i)]' = [i \in Instances |-> Holder(i)]
  BY <1>1
<1>3. QED
  BY <1>2 DEF Kept, Allocation!allocation

(* ... passing one of them is one of the actions of InstanceAllocation.    *)
LEMMA PassedIsSeen ==
  ASSUME BelongsOnce, HolderAgrees, HolderAgrees', Passed
  PROVE  Allocation!Next
<1> DEFINE holder == [i \in Instances |-> Holder(i)]
<1>1. NoneMember \notin Reservations
  BY ConstantsAssumption DEF ConstantsAssumption, NoneMember, Reservations
<1>2. PICK i \in Instances, r \in Reservations :
        /\ Taken(i, r) \/ GivenBack(i, r)
        /\ \A j \in Instances, q \in Reservations :
             j # i => (Belongs(j, q)' <=> Belongs(j, q))
  BY DEF Passed
<1>3. ASSUME NEW j \in Instances, j # i
      PROVE  Holder(j)' = Holder(j)
  <2> USE DEF HolderAgrees
  <2>1. CASE Holder(j) \in Reservations
    BY <1>2, <1>3, <2>1
  <2>2. CASE Holder(j)' \in Reservations
    BY <1>2, <1>3, <2>2
  <2>3. QED
    BY <2>1, <2>2
<1>4. CASE Taken(i, r)
  <2>1. Holder(i) = NoneMember
    BY <1>4, FreeHasNoHolder DEF Taken
  <2>2. Holder(i)' = r
    BY <1>4 DEF Taken, HolderAgrees
  <2>3. holder' = [holder EXCEPT ![i] = r]
    BY <1>3, <2>2
  <2>4. \A j \in Instances : Holder(j) # r
    BY <1>4 DEF Taken, HolderAgrees
  <2>5. Allocation!Take(r, i)
    BY <1>4, <2>1, <2>3, <2>4
       DEF Allocation!Take, Allocation!Holding, Taken
  <2>6. QED
    BY <2>5 DEF Allocation!Next
<1>5. CASE GivenBack(i, r)
  <2>1. Holder(i) = r
    BY <1>5 DEF GivenBack, HolderAgrees
  <2>2. Holder(i)' = NoneMember
    BY <1>5 DEF GivenBack, HolderAgrees
  <2>3. holder' = [holder EXCEPT ![i] = NoneMember]
    BY <1>3, <2>2
  <2>4. Allocation!GiveUp(i) \/ Allocation!Finish(i)
    BY <1>1, <1>5, <2>1, <2>3
       DEF Allocation!GiveUp, Allocation!Finish, GivenBack
  <2>5. QED
    BY <2>4 DEF Allocation!Next
<1>6. QED
  BY <1>2, <1>4, <1>5

(* Every step of the scheduler is one or the other.                        *)
LEMMA StepIsAllocation ==
  ASSUME UsersStay, TypeOK, RemovalInvariant, StayInvariant,
         BelongsOnce, BelongsOnce', HolderAgrees, HolderAgrees', [Next]_vars
  PROVE  [Allocation!Next]_(Allocation!allocation)
<1>1. CASE Next
  <2>1. Kept \/ Passed
    BY <1>1, ConstantsAssumption, StepsPass DEF RemovalInvariant, StayInvariant
  <2>2. QED
    BY <2>1, KeptIsUnseen, PassedIsSeen
<1>2. CASE UNCHANGED vars
  <2>1. Kept
    BY <1>2 DEF vars, keys, lab, Kept, Belongs, HeldFor, Active, UpdaterHolds,
                RemoverHolds, FreeHolds, BreakerHolds
  <2>2. QED
    BY <2>1, KeptIsUnseen
<1>3. QED
  BY <1>1, <1>2

(* The scheduler implements InstanceAllocation, while sessions expire and  *)
(* calls to the laboratory fail: an instance passes from one student to    *)
(* another only through the slots, and a student whose usage was closed    *)
(* never gets one again.                                                   *)
THEOREM StayImplementsAllocation ==
  ASSUME UsersStay
  PROVE  Spec => ImplementsAllocation
<1>1. Init => Allocation!Init
  <2> SUFFICES ASSUME Init
               PROVE  Allocation!Init
    OBVIOUS
  <2>1. \A i \in Instances : Holder(i) = NoneMember
    BY DEF Init, Holder
  <2>2. finished = {}
    BY DEF Init
  <2>3. QED
    BY <2>1, <2>2 DEF Allocation!Init
<1>2. TypeOK /\ RemovalInvariant /\ StayInvariant /\ BelongsOnce /\ BelongsOnce'
        /\ HolderAgrees /\ HolderAgrees' /\ [Next]_vars
        => [Allocation!Next]_(Allocation!allocation)
  BY StepIsAllocation
<1>3. QED
  BY <1>1, <1>2, TypeCorrect, RemovalsAreSound, StayIsSound, BelongsIsOnce,
     HolderIsOwner, PTL
     DEF Spec, Allocation!Spec, ImplementsAllocation

=============================================================================
