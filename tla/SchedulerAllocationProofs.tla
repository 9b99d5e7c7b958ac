---------------------- MODULE SchedulerAllocationProofs ----------------------
(***************************************************************************)
(* For every number of servers, threads, instances and reservations: while *)
(* nothing fails and reservations are removed only by their users, who may *)
(* leave at any moment, no instance is given twice, nobody is forgotten in *)
(* the queue and nobody is told that he is in without a session. Each part *)
(* of the inductive invariant has a lemma, with one case per action.       *)
(***************************************************************************)
EXTENDS PriorityQueueSchedulerProofs

(* A step of a thread, the new reservations aside.                         *)
Work ==
  \/ \E u \in Updaters : Update(u)
  \/ \E t \in confirms : Confirm(t)
  \/ \E c \in Removers : Begin(c) \/ Remove(c)
  \/ \E t \in frees : Free(t)
  \/ \E i \in Instances : MarkFixed(i)

(* Whoever finishes a reservation does it alone.                           *)
LEMMA FinisherStaysOne ==
  ASSUME ConstantsAssumption, UsersLeave, TypeOK, RemovalOrder, OneFinisher,
         PollSeesNothing, Work
  PROVE  OneFinisher' /\ PollSeesNothing'
<1> USE DEF TypeOK, KeyTypes, LabTypes, UpdaterTypes, RemoverTypes, keys, lab,
            UsersLeave, RemovalOrder, OneFinisher, PollSeesNothing
<1>1. ASSUME NEW u \in Updaters, Update(u)
      PROVE  OneFinisher' /\ PollSeesNothing'
  <2>1. UNCHANGED <<stored, finishing, rm>>
    BY <1>1 DEF Update, PickFirst, NobodyWaiting, ListFreeInstances,
                TryInstance, NoInstanceLeft, CheckExists, SetCurrent,
                AcquireResource, Unconfirm, AssignInstance, ReadReservation,
                DowngradeUnsuitable, ReleaseAcquired, Unassign,
                SetWaitingConfirmation, DequeueAndConfirm
  <2>2. QED
    BY <2>1, SMTT(30)
<1>2. ASSUME NEW t \in confirms, Confirm(t)
      PROVE  OneFinisher' /\ PollSeesNothing'
  <2>1. UNCHANGED <<stored, finishing, rm>>
    BY <1>2 DEF Confirm, ReserveInLab, PutInitial, ReadToConfirm,
                WriteReserved, Step, End
  <2>2. QED
    BY <2>1
<1>3. ASSUME NEW c \in Removers, NEW r \in Reservations,
             \/ BeginFinish(c, r) \/ BeginExpire(c, r)
             \/ BeginDrop(c, r) \/ BeginPoll(c, r)
      PROVE  OneFinisher' /\ PollSeesNothing'
  <2>1. CASE BeginFinish(c, r)
    BY <2>1 DEF BeginFinish, IdleRemover, RemoverState
  <2>2. CASE BeginExpire(c, r)
    BY <2>2 DEF BeginExpire, IdleRemover, RemoverState
  <2>3. CASE BeginDrop(c, r)
    BY <2>3 DEF BeginDrop, IdleRemover, RemoverState
  <2>4. CASE BeginPoll(c, r)
    BY <2>4 DEF BeginPoll, IdleRemover, RemoverState
  <2>5. QED
    BY <1>3, <2>1, <2>2, <2>3, <2>4
<1>4. ASSUME NEW c \in Removers, Remove(c)
      PROVE  OneFinisher' /\ PollSeesNothing'
  <2>1. CASE FindAggregator(c)
    BY <2>1 DEF FindAggregator, Goto, RemoverState
  <2>2. CASE ReadActive(c)
    BY <2>2 DEF ReadActive, IdleRemover, RemoverState
  <2>3. CASE Touch(c)
    BY <2>3, SMTT(30) DEF Touch, IdleRemover, RemoverState
  <2>4. CASE ReadToClean(c)
    BY <2>4, SMTT(30) DEF ReadToClean, RemoverState
  <2>5. CASE DowngradeConfirmation(c)
    BY <2>5 DEF DowngradeConfirmation, RemoverState
  <2>6. CASE UnassignCleaned(c)
    BY <2>6 DEF UnassignCleaned, Goto, RemoverState
  <2>7. CASE DeleteReservation(c)
    BY <2>7 DEF DeleteReservation, Goto, RemoverState
  <2>8. CASE Unmap(c)
    BY <2>8 DEF Unmap, Goto, AfterDequeue, IdleRemover, RemoverState
  <2>9. CASE Dequeue(c)
    BY <2>9 DEF Dequeue, AfterDequeue, IdleRemover, RemoverState
  <2>10. CASE Purge(c)
    BY <2>10 DEF Purge, Goto, RemoverState
  <2>11. CASE EnqueueFree(c)
    BY <2>11 DEF EnqueueFree, IdleRemover, RemoverState
  <2>12. CASE ClearFinishing(c)
    BY <2>12 DEF ClearFinishing, IdleRemover, RemoverState
  <2>13. QED
    BY <1>4, <2>1, <2>2, <2>3, <2>4, <2>5, <2>6, <2>7, <2>8, <2>9, <2>10,
             <2>11, <2>12 DEF Remove
<1>5. ASSUME NEW t \in frees, Free(t)
      PROVE  OneFinisher' /\ PollSeesNothing'
  <2>1. UNCHANGED <<stored, finishing, rm>>
    BY <1>5 DEF Free, FreeInLab, ConfirmDisposal
  <2>2. QED
    BY <2>1
<1>6. ASSUME NEW i \in Instances, MarkFixed(i)
      PROVE  OneFinisher' /\ PollSeesNothing'
  BY <1>6 DEF MarkFixed, RemoverState
<1>7. QED
  BY <1>1, <1>2, <1>3, <1>4, <1>5, <1>6
     DEF Work, Begin

(* Spent once, spent for good: ids are drawn once.                         *)
LEMMA SpentForGood ==
  ASSUME ConstantsAssumption, UsersLeave, TypeOK, RemovalOrder, OneFinisher,
         PollSeesNothing, Work
  PROVE  \A q \in Reservations : Spent(q) => Spent(q)'
<1> USE DEF TypeOK, KeyTypes, LabTypes, UpdaterTypes, RemoverTypes, keys, lab,
            UsersLeave, RemovalOrder, OneFinisher, Spent
<1>1. ASSUME NEW u \in Updaters, Update(u)
      PROVE  \A q \in Reservations : Spent(q) => Spent(q)'
  <2>1. UNCHANGED <<stored, rm>>
    BY <1>1 DEF Update, PickFirst, NobodyWaiting, ListFreeInstances,
                TryInstance, NoInstanceLeft, CheckExists, SetCurrent,
                AcquireResource, Unconfirm, AssignInstance, ReadReservation,
                DowngradeUnsuitable, ReleaseAcquired, Unassign,
                SetWaitingConfirmation, DequeueAndConfirm
  <2>2. QED
    BY <2>1, SMTT(30)
<1>2. ASSUME NEW t \in confirms, Confirm(t)
      PROVE  \A q \in Reservations : Spent(q) => Spent(q)'
  <2>1. UNCHANGED <<stored, rm>>
    BY <1>2 DEF Confirm, ReserveInLab, PutInitial, ReadToConfirm,
                WriteReserved, Step, End
  <2>2. QED
    BY <2>1
<1>3. ASSUME NEW c \in Removers, NEW r \in Reservations,
             \/ BeginFinish(c, r) \/ BeginExpire(c, r)
             \/ BeginDrop(c, r) \/ BeginPoll(c, r)
      PROVE  \A q \in Reservations : Spent(q) => Spent(q)'
  <2>1. CASE BeginFinish(c, r)
    BY <2>1 DEF BeginFinish, IdleRemover, RemoverState
  <2>2. CASE BeginExpire(c, r)
    BY <2>2 DEF BeginExpire, IdleRemover, RemoverState
  <2>3. CASE BeginDrop(c, r)
    BY <2>3 DEF BeginDrop, IdleRemover, RemoverState
  <2>4. CASE BeginPoll(c, r)
    BY <2>4 DEF BeginPoll, IdleRemover, RemoverState
  <2>5. QED
    BY <1>3, <2>1, <2>2, <2>3, <2>4
<1>4. ASSUME NEW c \in Removers, Remove(c)
      PROVE  \A q \in Reservations : Spent(q) => Spent(q)'
  <2>1. CASE FindAggregator(c)
    BY <2>1 DEF FindAggregator, Goto, RemoverState
  <2>2. CASE ReadActive(c)
    BY <2>2 DEF ReadActive, IdleRemover, RemoverState
  <2>3. CASE Touch(c)
    BY <2>3 DEF Touch, IdleRemover, RemoverState
  <2>4. CASE ReadToClean(c)
    BY <2>4 DEF ReadToClean, RemoverState
  <2>5. CASE DowngradeConfirmation(c)
    BY <2>5 DEF DowngradeConfirmation, RemoverState
  <2>6. CASE UnassignCleaned(c)
    BY <2>6 DEF UnassignCleaned, Goto, RemoverState
  <2>7. CASE DeleteReservation(c)
    BY <2>7 DEF DeleteReservation, Goto, RemoverState
  <2>8. CASE Unmap(c)
    BY <2>8 DEF Unmap, Goto, AfterDequeue, IdleRemover, RemoverState
  <2>9. CASE Dequeue(c)
    BY <2>9 DEF Dequeue, AfterDequeue, IdleRemover, RemoverState
  <2>10. CASE Purge(c)
    BY <2>10 DEF Purge, Goto, RemoverState
  <2>11. CASE EnqueueFree(c)
    BY <2>11 DEF EnqueueFree, IdleRemover, RemoverState
  <2>12. CASE ClearFinishing(c)
    BY <2>12 DEF ClearFinishing, IdleRemover, RemoverState
  <2>13. QED
    BY <1>4, <2>1, <2>2, <2>3, <2>4, <2>5, <2>6, <2>7, <2>8, <2>9, <2>10,
             <2>11, <2>12 DEF Remove
<1>5. ASSUME NEW t \in frees, Free(t)
      PROVE  \A q \in Reservations : Spent(q) => Spent(q)'
  <2>1. UNCHANGED <<stored, rm>>
    BY <1>5 DEF Free, FreeInLab, ConfirmDisposal
  <2>2. QED
    BY <2>1
<1>6. ASSUME NEW i \in Instances, MarkFixed(i)
      PROVE  \A q \in Reservations : Spent(q) => Spent(q)'
  BY <1>6 DEF MarkFixed, RemoverState
<1>7. QED
  BY <1>1, <1>2, <1>3, <1>4, <1>5, <1>6
     DEF Work, Begin

(* Whose data are being deleted is spent.                                  *)
LEMMA DeletedIsSpent ==
  ASSUME UsersLeave, TypeOK, RemovalOrder, OneFinisher, PollSeesNothing,
         NEW c \in Removers,
         rm[c].pc \in {"delete", "unmap", "dequeue", "purge"}
  PROVE  Spent(rm[c].r)
BY DEF UsersLeave, TypeOK, RemoverTypes, RemoverState, RemovalOrder,
       OneFinisher, PollSeesNothing, Spent

(* CURRENT is created by one updater and passes with the instance to the   *)
(* data of the reservation: until somebody takes the instance away from    *)
(* it, there is nobody else who could promote it.                          *)
LEMMA CurrentStaysOnce ==
  ASSUME ConstantsAssumption, UsersLeave, TypeOK, RemovalOrder, OneFinisher,
         PollSeesNothing, \A q \in Reservations : Spent(q) => Spent(q)',
         CurrentOnce, Work
  PROVE  CurrentOnce'
<1> USE DEF TypeOK, KeyTypes, LabTypes, UpdaterTypes, RemoverTypes, keys, lab,
            UsersLeave, CurrentOnce, Confirming, Active
<1>1. ASSUME NEW u \in Updaters, Update(u)
      PROVE  CurrentOnce'
  <2>1. CASE PickFirst(u)
    BY <2>1 DEF PickFirst, Untried, RemoverState, UpdaterState
  <2>2. CASE NobodyWaiting(u)
    BY <2>2 DEF NobodyWaiting, IdleUpdater, RemoverState, UpdaterState
  <2>3. CASE ListFreeInstances(u)
    BY <2>3 DEF ListFreeInstances, IdleUpdater, RemoverState, UpdaterState
  <2>4. CASE TryInstance(u)
    BY <2>4 DEF TryInstance, RemoverState, UpdaterState
  <2>5. CASE NoInstanceLeft(u)
    BY <2>5 DEF NoInstanceLeft, NextRound, IdleUpdater, RemoverState,
                UpdaterState
  <2>6. CASE CheckExists(u)
    BY <2>6 DEF CheckExists, IdleUpdater, RemoverState, UpdaterState
  <2>7. CASE SetCurrent(u)
    BY <2>7 DEF SetCurrent, NextRound, IdleUpdater, RemoverState, UpdaterState
  <2>8. CASE AcquireResource(u)
    BY <2>8 DEF AcquireResource, RemoverState, UpdaterState
  <2>9. CASE Unconfirm(u)
    BY <2>9 DEF Unconfirm, RemoverState, UpdaterState
  <2>10. CASE AssignInstance(u)
    BY <2>10, SMTT(30) DEF AssignInstance, RemoverState, UpdaterState
  <2>11. CASE ReadReservation(u)
    <3>1. \A v \in Updaters : up'[v].r = up[v].r /\ (v # u => up'[v] = up[v])
      BY <2>11 DEF ReadReservation, UpdaterState
    <3>2. up[u].pc = "read" /\ up'[u].pc \in {"gone", "set", "unsuitable"}
      BY <2>11 DEF ReadReservation, UpdaterState
    <3>3. \A v \in Updaters, q \in Reservations :
            /\ Confirming(v, q)' => Confirming(v, q)
            /\ up'[v].pc = "dequeue" => up[v] = up'[v]
      BY <3>1, <3>2
    <3> HIDE DEF Confirming
    <3>4. QED
      BY <2>11, <3>1, <3>3 DEF ReadReservation
  <2>12. CASE DowngradeUnsuitable(u)
    BY <2>12 DEF DowngradeUnsuitable, RemoverState, UpdaterState
  <2>13. CASE ReleaseAcquired(u)
    BY <2>13 DEF ReleaseAcquired, RemoverState, UpdaterState
  <2>14. CASE Unassign(u)
    BY <2>14 DEF Unassign, NextRound, IdleUpdater, RemoverState, UpdaterState
  <2>15. CASE SetWaitingConfirmation(u)
    BY <2>15 DEF SetWaitingConfirmation, RemoverState, UpdaterState
  <2>16. CASE DequeueAndConfirm(u)
    BY <2>16 DEF DequeueAndConfirm, NextRound, IdleUpdater, RemoverState,
                 UpdaterState
  <2>17. QED
    BY <1>1, <2>1, <2>2, <2>3, <2>4, <2>5, <2>6, <2>7, <2>8, <2>9, <2>10,
             <2>11, <2>12, <2>13, <2>14, <2>15, <2>16 DEF Update
<1>2. ASSUME NEW t \in confirms, Confirm(t)
      PROVE  CurrentOnce'
  <2>1. CASE ReserveInLab(t)
    <3> DEFINE s == [t EXCEPT !.pc = "confirm"]
    <3>1. s.r = t.r /\ s.i = t.i /\ s.pc = "confirm"
      BY DEF ConfirmTask
    <3>2. confirms' \subseteq confirms \cup {s}
      BY <2>1 DEF ReserveInLab, Step
    <3> HIDE DEF s
    <3>3. QED
      BY <2>1, <3>1, <3>2 DEF ReserveInLab
  <2>2. CASE PutInitial(t)
    <3> DEFINE s == [t EXCEPT !.pc = "read"]
    <3>1. s.r = t.r /\ s.i = t.i /\ s.pc = "read"
      BY DEF ConfirmTask
    <3>2. confirms' \subseteq confirms \cup {s}
      BY <2>2 DEF PutInitial, Step, End
    <3> HIDE DEF s
    <3>3. QED
      BY <2>2, <3>1, <3>2 DEF PutInitial
  <2>3. CASE ReadToConfirm(t)
    <3> DEFINE s == [t EXCEPT !.pc = "write", !.data = pqdata[t.r]]
    <3>1. s.r = t.r /\ s.i = t.i /\ s.data = pqdata[t.r]
      BY DEF ConfirmTask
    <3>2. confirms' \subseteq confirms \cup {s}
      BY <2>3 DEF ReadToConfirm, End
    <3> HIDE DEF s
    <3>3. QED
      BY <2>3, <3>1, <3>2 DEF ReadToConfirm
  <2>4. CASE WriteReserved(t)
    BY <2>4 DEF WriteReserved, End, RemoverState, UpdaterState
  <2>5. QED
    BY <1>2, <2>1, <2>2, <2>3, <2>4 DEF Confirm
<1>3. ASSUME NEW c \in Removers, NEW r \in Reservations,
             \/ BeginFinish(c, r) \/ BeginExpire(c, r)
             \/ BeginDrop(c, r) \/ BeginPoll(c, r)
      PROVE  CurrentOnce'
  <2>1. CASE BeginFinish(c, r)
    BY <2>1 DEF BeginFinish, IdleRemover, RemoverState, UpdaterState
  <2>2. CASE BeginExpire(c, r)
    BY <2>2 DEF BeginExpire, IdleRemover, RemoverState, UpdaterState
  <2>3. CASE BeginDrop(c, r)
    BY <2>3 DEF BeginDrop, IdleRemover, RemoverState, UpdaterState
  <2>4. CASE BeginPoll(c, r)
    BY <2>4, SMTT(30) DEF BeginPoll, IdleRemover, RemoverState, UpdaterState
  <2>5. QED
    BY <1>3, <2>1, <2>2, <2>3, <2>4
<1>4. ASSUME NEW c \in Removers, Remove(c)
      PROVE  CurrentOnce'
  <2>1. CASE FindAggregator(c)
    BY <2>1 DEF FindAggregator, Goto, RemoverState, UpdaterState
  <2>2. CASE ReadActive(c)
    BY <2>2 DEF ReadActive, IdleRemover, RemoverState, UpdaterState, Data
  <2>3. CASE Touch(c)
    BY <2>3 DEF Touch, IdleRemover, RemoverState, UpdaterState
  <2>4. CASE ReadToClean(c)
    BY <2>4 DEF ReadToClean, RemoverState, UpdaterState
  <2>5. CASE DowngradeConfirmation(c)
    <3>1. Spent(rm[c].r)'
      BY <2>5 DEF DowngradeConfirmation, OneFinisher, Spent, RemoverState
    <3>2. QED
      BY <2>5, <3>1 DEF DowngradeConfirmation, RemoverState
  <2>6. CASE UnassignCleaned(c)
    BY <2>6 DEF UnassignCleaned, Goto, RemoverState, UpdaterState
  <2>7. CASE DeleteReservation(c)
    <3>1. Spent(rm[c].r)
      BY <2>7, DeletedIsSpent DEF DeleteReservation
    <3>2. QED
      BY <2>7, <3>1 DEF DeleteReservation, Goto, RemoverState
  <2>8. CASE Unmap(c)
    BY <2>8 DEF Unmap, Goto, AfterDequeue, IdleRemover, RemoverState,
                UpdaterState
  <2>9. CASE Dequeue(c)
    BY <2>9 DEF Dequeue, AfterDequeue, IdleRemover, RemoverState, UpdaterState
  <2>10. CASE Purge(c)
    <3>1. Spent(rm[c].r)
      BY <2>10, DeletedIsSpent DEF Purge
    <3>2. QED
      BY <2>10, <3>1 DEF Purge, Goto, RemoverState
  <2>11. CASE EnqueueFree(c)
    BY <2>11 DEF EnqueueFree, IdleRemover, RemoverState, UpdaterState
  <2>12. CASE ClearFinishing(c)
    BY <2>12 DEF ClearFinishing, IdleRemover, RemoverState, UpdaterState
  <2>13. QED
    BY <1>4, <2>1, <2>2, <2>3, <2>4, <2>5, <2>6, <2>7, <2>8, <2>9, <2>10,
             <2>11, <2>12 DEF Remove
<1>5. ASSUME NEW t \in frees, Free(t)
      PROVE  CurrentOnce'
  <2>1. UNCHANGED <<stored, current, pqdata, up, confirms, rm>>
    BY <1>5 DEF Free, FreeInLab, ConfirmDisposal
  <2>2. QED
    BY <2>1
<1>6. ASSUME NEW i \in Instances, MarkFixed(i)
      PROVE  CurrentOnce'
  BY <1>6, SMTT(30) DEF MarkFixed, UpdaterState, RemoverState
<1>7. QED
  BY <1>1, <1>2, <1>3, <1>4, <1>5, <1>6, SMTT(30)
     DEF Work, Begin

(* The slot of an instance has one holder: SREM hands it to one updater,   *)
(* the data of a reservation keep it, and HDEL hands it to one remover.    *)
LEMMA HolderStaysOne ==
  ASSUME ConstantsAssumption, UsersLeave, TypeOK, RemovalOrder, OneFinisher,
         PollSeesNothing, \A q \in Reservations : Spent(q) => Spent(q)',
         CurrentOnce, CurrentOnce', OneHolder, SlotHeldOnce, Work
  PROVE  OneHolder' /\ SlotHeldOnce'
<1> USE DEF TypeOK, KeyTypes, LabTypes, UpdaterTypes, RemoverTypes, keys, lab,
            UsersLeave, CurrentOnce, Confirming, Active, OneHolder,
            SlotHeldOnce, Claims, UpdaterHolds, RemoverHolds, FreeHolds
<1>1. ASSUME NEW u \in Updaters, Update(u)
      PROVE  OneHolder' /\ SlotHeldOnce'
  <2>1. CASE PickFirst(u)
    BY <2>1 DEF PickFirst, Untried, RemoverState, UpdaterState
  <2>2. CASE NobodyWaiting(u)
    BY <2>2 DEF NobodyWaiting, IdleUpdater, RemoverState, UpdaterState
  <2>3. CASE ListFreeInstances(u)
    BY <2>3, SMTT(30)
       DEF ListFreeInstances, IdleUpdater, RemoverState, UpdaterState
  <2>4. CASE TryInstance(u)
    BY <2>4 DEF TryInstance, RemoverState, UpdaterState
  <2>5. CASE NoInstanceLeft(u)
    BY <2>5 DEF NoInstanceLeft, NextRound, IdleUpdater, RemoverState,
                UpdaterState
  <2>6. CASE CheckExists(u)
    BY <2>6 DEF CheckExists, IdleUpdater, RemoverState, UpdaterState
  <2>7. CASE SetCurrent(u)
    BY <2>7 DEF SetCurrent, NextRound, IdleUpdater, RemoverState, UpdaterState
  <2>8. CASE AcquireResource(u)
    BY <2>8 DEF AcquireResource, RemoverState, UpdaterState
  <2>9. CASE Unconfirm(u)
    BY <2>9 DEF Unconfirm, RemoverState, UpdaterState
  <2>10. CASE AssignInstance(u)
    BY <2>10 DEF AssignInstance, RemoverState, UpdaterState
  <2>11. CASE ReadReservation(u)
    <3> HIDE DEF OneHolder, SlotHeldOnce, CurrentOnce, Claims, Confirming
    <3>1. \A v \in Updaters, i \in Instances : UpdaterHolds(v,
    i)' <=> UpdaterHolds(v, i)
      BY <2>11 DEF ReadReservation, UpdaterState
    <3> HIDE DEF UpdaterHolds
    <3>2. QED
      BY <2>11, <3>1 DEF ReadReservation, OneHolder, SlotHeldOnce, Claims
  <2>12. CASE DowngradeUnsuitable(u)
    BY <2>12 DEF DowngradeUnsuitable, RemoverState, UpdaterState
  <2>13. CASE ReleaseAcquired(u)
    BY <2>13 DEF ReleaseAcquired, RemoverState, UpdaterState
  <2>14. CASE Unassign(u)
    BY <2>14 DEF Unassign, NextRound, IdleUpdater, RemoverState, UpdaterState
  <2>15. CASE SetWaitingConfirmation(u)
    BY <2>15 DEF SetWaitingConfirmation, RemoverState, UpdaterState
  <2>16. CASE DequeueAndConfirm(u)
    BY <2>16 DEF DequeueAndConfirm, NextRound, IdleUpdater, RemoverState,
                 UpdaterState
  <2>17. QED
    BY <1>1, <2>1, <2>2, <2>3, <2>4, <2>5, <2>6, <2>7, <2>8, <2>9, <2>10,
             <2>11, <2>12, <2>13, <2>14, <2>15, <2>16 DEF Update
<1>2. ASSUME NEW t \in confirms, Confirm(t)
      PROVE  OneHolder' /\ SlotHeldOnce'
  <2>1. CASE ReserveInLab(t)
    BY <2>1 DEF ReserveInLab, Step, RemoverState, UpdaterState
  <2>2. CASE PutInitial(t)
    BY <2>2 DEF PutInitial, Step, End, RemoverState, UpdaterState
  <2>3. CASE ReadToConfirm(t)
    BY <2>3 DEF ReadToConfirm, End, RemoverState, UpdaterState
  <2>4. CASE WriteReserved(t)
    BY <2>4 DEF WriteReserved, End, RemoverState, UpdaterState
  <2>5. QED
    BY <1>2, <2>1, <2>2, <2>3, <2>4 DEF Confirm
<1>3. ASSUME NEW c \in Removers, NEW r \in Reservations,
             \/ BeginFinish(c, r) \/ BeginExpire(c, r)
             \/ BeginDrop(c, r) \/ BeginPoll(c, r)
      PROVE  OneHolder' /\ SlotHeldOnce'
  <2>1. CASE BeginFinish(c, r)
    BY <2>1 DEF BeginFinish, IdleRemover, RemoverState, UpdaterState
  <2>2. CASE BeginExpire(c, r)
    BY <2>2 DEF BeginExpire, IdleRemover, RemoverState, UpdaterState
  <2>3. CASE BeginDrop(c, r)
    BY <2>3 DEF BeginDrop, IdleRemover, RemoverState, UpdaterState
  <2>4. CASE BeginPoll(c, r)
    BY <2>4, SMTT(30) DEF BeginPoll, IdleRemover, RemoverState, UpdaterState
  <2>5. QED
    BY <1>3, <2>1, <2>2, <2>3, <2>4
<1>4. ASSUME NEW c \in Removers, Remove(c)
      PROVE  OneHolder' /\ SlotHeldOnce'
  <2>1. CASE FindAggregator(c)
    BY <2>1, SMTT(30) DEF FindAggregator, Goto, RemoverState, UpdaterState
  <2>2. CASE ReadActive(c)
    BY <2>2 DEF ReadActive, IdleRemover, RemoverState, UpdaterState
  <2>3. CASE Touch(c)
    BY <2>3, SMTT(30) DEF Touch, IdleRemover, RemoverState, UpdaterState
  <2>4. CASE ReadToClean(c)
    BY <2>4, SMTT(30) DEF ReadToClean, RemoverState, UpdaterState
  <2>5. CASE DowngradeConfirmation(c)
    <3> HIDE DEF OneHolder, SlotHeldOnce, Claims, RemoverHolds, UpdaterHolds,
                 CurrentOnce, Confirming
    <3>0. PICK r, inst : r = rm[c].r /\ inst = rm[c].data.inst
      OBVIOUS
    <3>1. /\ rm[c].pc = "downgrade" /\ rm[c].op = "finish" /\ ~rm[c].won
          /\ r \in stored /\ r \in Reservations
          /\ inst \in Instances \cup {NoInstance}
      BY <2>5, <3>0
         DEF DowngradeConfirmation, RemoverState, Data, RemovalOrder, OneFinisher
    <3>2. ~Spent(r)
      BY <3>0, <3>1 DEF Spent, OneFinisher
    <3>3. Claims(r, inst)
      BY <3>0, <3>1, <3>2 DEF CurrentOnce, Claims
    <3>4. UNCHANGED <<slots, frees, up, pqdata, stored>>
      BY <2>5 DEF DowngradeConfirmation
    <3>5. /\ \A q \in Reservations, i \in Instances : Claims(q, i)' => Claims(q, i)
          /\ \A u \in Updaters, i \in Instances : UpdaterHolds(u, i)' <=> UpdaterHolds(u, i)
      BY <3>4 DEF Claims, UpdaterHolds
    <3>6. CASE r \in current /\ inst # NoInstance
      <4>1. /\ rm'[c].pc = "unassign" /\ rm'[c].op = "finish" /\ rm'[c].r = r
            /\ rm'[c].won /\ rm'[c].data = rm[c].data
            /\ \A d \in Removers : d # c => rm'[d] = rm[d]
        BY <2>5, <3>0, <3>1, <3>6 DEF DowngradeConfirmation, RemoverState
      <4>2. Spent(r)'
        BY <4>1 DEF Spent
      <4>3. \A d \in Removers, i \in Instances :
              RemoverHolds(d, i)' <=> RemoverHolds(d, i) \/ (d = c /\ i = inst)
        BY <3>0, <3>1, <4>1 DEF RemoverHolds
      <4>4. \A q \in Reservations : ~Claims(q, inst)'
        <5>1. ~Claims(r, inst)'
          BY <4>2 DEF Claims
        <5>2. QED
          BY <3>1, <3>3, <3>5, <3>6, <5>1 DEF OneHolder
      <4>5. inst \in Instances
        BY <3>1, <3>6
      <4>6. /\ inst \notin slots /\ \A t \in frees : ~FreeHolds(t, inst)
            /\ \A u \in Updaters : ~UpdaterHolds(u, inst)
            /\ \A d \in Removers : ~RemoverHolds(d, inst)
        BY <3>1, <3>3, <4>5 DEF OneHolder
      <4>7. OneHolder'
        <5> HIDE DEF FreeHolds, TypeOK
        <5>1. \A t \in frees', i \in Instances : FreeHolds(t, i)' <=> FreeHolds(t, i)
          BY DEF FreeHolds
        <5>2. ASSUME NEW i \in Instances, NEW q \in Reservations, Claims(q, i)'
              PROVE  i # inst /\ Claims(q, i)
          BY <3>5, <4>4, <5>2
        <5>3. QED
          BY <3>4, <3>5, <4>3, <5>1, <5>2 DEF OneHolder
      <4>8. SlotHeldOnce'
        BY <3>4, <3>5, <4>3, <4>6 DEF SlotHeldOnce
      <4>9. QED
        BY <4>7, <4>8
    <3>7. CASE ~(r \in current /\ inst # NoInstance)
      <4>1. \A d \in Removers, i \in Instances :
              RemoverHolds(d, i)' <=> RemoverHolds(d, i)
        BY <2>5, <3>0, <3>1, <3>7 DEF DowngradeConfirmation, RemoverState, RemoverHolds
      <4>2. QED
        BY <3>4, <3>5, <4>1 DEF OneHolder, SlotHeldOnce
    <3>8. QED
      BY <3>6, <3>7
  <2>6. CASE UnassignCleaned(c)
    BY <2>6 DEF UnassignCleaned, Goto, RemoverState, UpdaterState
  <2>7. CASE DeleteReservation(c)
    <3> HIDE DEF OneHolder, SlotHeldOnce, CurrentOnce, Claims, Confirming
    <3>1. Spent(rm[c].r)
      BY <2>7, DeletedIsSpent DEF DeleteReservation
    <3>2. \A d \in Removers, i \in Instances : RemoverHolds(d,
    i)' <=> RemoverHolds(d, i)
      BY <2>7 DEF DeleteReservation, Goto, RemoverState
    <3> HIDE DEF RemoverHolds
    <3>3. QED
      BY <2>7, <3>1, <3>2 DEF DeleteReservation, OneHolder, SlotHeldOnce,
                              Claims
  <2>8. CASE Unmap(c)
    BY <2>8 DEF Unmap, Goto, AfterDequeue, IdleRemover, RemoverState,
                UpdaterState
  <2>9. CASE Dequeue(c)
    BY <2>9 DEF Dequeue, AfterDequeue, IdleRemover, RemoverState, UpdaterState
  <2>10. CASE Purge(c)
    BY <2>10 DEF Purge, Goto, RemoverState, UpdaterState
  <2>11. CASE EnqueueFree(c)
    BY <2>11 DEF EnqueueFree, IdleRemover, RemoverState, UpdaterState
  <2>12. CASE ClearFinishing(c)
    BY <2>12 DEF ClearFinishing, IdleRemover, RemoverState, UpdaterState
  <2>13. QED
    BY <1>4, <2>1, <2>2, <2>3, <2>4, <2>5, <2>6, <2>7, <2>8, <2>9, <2>10,
             <2>11, <2>12 DEF Remove
<1>5. ASSUME NEW t \in frees, Free(t)
      PROVE  OneHolder' /\ SlotHeldOnce'
  <2>1. CASE FreeInLab(t)
    <3> HIDE DEF OneHolder, SlotHeldOnce, CurrentOnce, Claims, Confirming
    <3> DEFINE s == [t EXCEPT !.pc = "dispose"]
    <3>1. s.r = t.r /\ s.i = t.i
      BY DEF FreeTask
    <3>2. frees' = (frees \ {t}) \cup {s}
      BY <2>1 DEF FreeInLab
    <3> HIDE DEF s
    <3> HIDE DEF UpdaterHolds, RemoverHolds
    <3>3. UNCHANGED <<slots, stored, pqdata, up, rm>>
      BY <2>1 DEF FreeInLab
    <3>4. OneHolder'
      BY <3>1, <3>2, <3>3 DEF OneHolder, Claims, Spent, UpdaterHolds,
                              RemoverHolds
    <3>5. SlotHeldOnce'
      BY <3>1, <3>2, <3>3 DEF SlotHeldOnce, UpdaterHolds, RemoverHolds
    <3>6. QED
      BY <3>4, <3>5
  <2>2. CASE ConfirmDisposal(t)
    BY <2>2 DEF ConfirmDisposal, RemoverState, UpdaterState
  <2>3. QED
    BY <1>5, <2>1, <2>2 DEF Free
<1>6. ASSUME NEW i \in Instances, MarkFixed(i)
      PROVE  OneHolder' /\ SlotHeldOnce'
  BY <1>6 DEF MarkFixed, UpdaterState, RemoverState
<1>7. QED
  BY <1>1, <1>2, <1>3, <1>4, <1>5, <1>6, SMTT(30)
     DEF Work, Begin

(* The laboratory and the initial store know a reservation before its data *)
(* say that it is reserved, and its session is closed only after that.     *)
LEMMA SessionStaysBefore ==
  ASSUME ConstantsAssumption, UsersLeave, TypeOK, RemovalOrder, OneFinisher,
         PollSeesNothing, \A q \in Reservations : Spent(q) => Spent(q)',
         ClosedIsPurged, CurrentOnce, CurrentOnce', SessionBeforeReserved, Work
  PROVE  SessionBeforeReserved'
<1> USE DEF TypeOK, KeyTypes, LabTypes, UpdaterTypes, RemoverTypes, keys, lab,
            UsersLeave, CurrentOnce, Active, SessionBeforeReserved
<1>1. ASSUME NEW u \in Updaters, Update(u)
      PROVE  SessionBeforeReserved'
  <2>1. CASE PickFirst(u) \/ NobodyWaiting(u) \/ ListFreeInstances(u)
             \/ TryInstance(u) \/ NoInstanceLeft(u) \/ CheckExists(u)
    BY <2>1 DEF PickFirst, NobodyWaiting, ListFreeInstances, TryInstance,
                NoInstanceLeft, CheckExists, Untried, IdleUpdater, NextRound,
                ConfirmTask, Data
  <2>2. CASE SetCurrent(u)
    BY <2>2 DEF SetCurrent, NextRound, IdleUpdater, ConfirmTask, Data
  <2>3. CASE AcquireResource(u)
    BY <2>3 DEF AcquireResource, ConfirmTask, Data
  <2>4. CASE Unconfirm(u)
    BY <2>4 DEF Unconfirm, ConfirmTask, Data
  <2>5. CASE AssignInstance(u)
    BY <2>5 DEF AssignInstance, ConfirmTask, Data
  <2>6. CASE ReadReservation(u)
    BY <2>6 DEF ReadReservation, ConfirmTask, Data
  <2>7. CASE DowngradeUnsuitable(u)
    BY <2>7 DEF DowngradeUnsuitable, ConfirmTask, Data
  <2>8. CASE ReleaseAcquired(u)
    BY <2>8 DEF ReleaseAcquired, ConfirmTask, Data
  <2>9. CASE Unassign(u)
    BY <2>9 DEF Unassign, NextRound, IdleUpdater, ConfirmTask, Data
  <2>10. CASE SetWaitingConfirmation(u)
    BY <2>10 DEF SetWaitingConfirmation, ConfirmTask, Data
  <2>11. CASE DequeueAndConfirm(u)
    BY <2>11 DEF DequeueAndConfirm, NextRound, IdleUpdater, ConfirmTask, Data
  <2>12. QED
    BY <1>1, <2>1, <2>2, <2>3, <2>4, <2>5, <2>6, <2>7, <2>8, <2>9, <2>10,
       <2>11, SMTT(30) DEF Update
<1>2. ASSUME NEW t \in confirms, Confirm(t)
      PROVE  SessionBeforeReserved'
  <2>1. CASE ReserveInLab(t)
    BY <2>1 DEF ReserveInLab, Step, ConfirmTask, Data
  <2>2. CASE PutInitial(t)
    BY <2>2 DEF PutInitial, Step, End, ConfirmTask, Data
  <2>3. CASE ReadToConfirm(t)
    <3> DEFINE s == [t EXCEPT !.pc = "write", !.data = pqdata[t.r]]
    <3>1. s.r = t.r /\ s.i = t.i
      BY DEF ConfirmTask
    <3>2. confirms' \subseteq confirms \cup {s}
      BY <2>3 DEF ReadToConfirm, End
    <3> HIDE DEF s
    <3>3. QED
      BY <2>3, <3>1, <3>2 DEF ReadToConfirm
  <2>4. CASE WriteReserved(t)
    BY <2>4 DEF WriteReserved, End, ConfirmTask, Data
  <2>5. QED
    BY <1>2, <2>1, <2>2, <2>3, <2>4 DEF Confirm
<1>3. ASSUME NEW c \in Removers, NEW r \in Reservations,
             \/ BeginFinish(c, r) \/ BeginExpire(c, r)
             \/ BeginDrop(c, r) \/ BeginPoll(c, r)
      PROVE  SessionBeforeReserved'
  <2>1. CASE BeginFinish(c, r)
    BY <2>1 DEF BeginFinish, IdleRemover, ConfirmTask, Data
  <2>2. CASE BeginExpire(c, r)
    BY <2>2 DEF BeginExpire, IdleRemover, ConfirmTask, Data
  <2>3. CASE BeginDrop(c, r)
    BY <2>3 DEF BeginDrop, IdleRemover, ConfirmTask, Data
  <2>4. CASE BeginPoll(c, r)
    BY <2>4 DEF BeginPoll, IdleRemover, ConfirmTask, Data
  <2>5. QED
    BY <1>3, <2>1, <2>2, <2>3, <2>4
<1>4. ASSUME NEW c \in Removers, Remove(c)
      PROVE  SessionBeforeReserved'
  <2>1. CASE FindAggregator(c)
    BY <2>1 DEF FindAggregator, Goto, ConfirmTask, Data
  <2>2. CASE ReadActive(c)
    BY <2>2 DEF ReadActive, IdleRemover, ConfirmTask, Data
  <2>3. CASE Touch(c)
    BY <2>3 DEF Touch, IdleRemover, ConfirmTask, Data
  <2>4. CASE ReadToClean(c)
    BY <2>4 DEF ReadToClean, ConfirmTask, Data
  <2>5. CASE DowngradeConfirmation(c)
    BY <2>5 DEF DowngradeConfirmation, ConfirmTask, Data
  <2>6. CASE UnassignCleaned(c)
    BY <2>6 DEF UnassignCleaned, Goto, ConfirmTask, Data
  <2>7. CASE DeleteReservation(c)
    <3>1. Spent(rm[c].r)
      BY <2>7, DeletedIsSpent DEF DeleteReservation
    <3>2. QED
      BY <2>7, <3>1 DEF DeleteReservation
  <2>8. CASE Unmap(c)
    BY <2>8 DEF Unmap, Goto, AfterDequeue, IdleRemover, ConfirmTask, Data
  <2>9. CASE Dequeue(c)
    BY <2>9 DEF Dequeue, AfterDequeue, IdleRemover, ConfirmTask, Data
  <2>10. CASE Purge(c)
    BY <2>10 DEF Purge, Goto, ConfirmTask, Data
  <2>11. CASE EnqueueFree(c)
    BY <2>11 DEF EnqueueFree, IdleRemover, ConfirmTask, Data
  <2>12. CASE ClearFinishing(c)
    BY <2>12 DEF ClearFinishing, IdleRemover, ConfirmTask, Data
  <2>13. QED
    BY <1>4, <2>1, <2>2, <2>3, <2>4, <2>5, <2>6, <2>7, <2>8, <2>9, <2>10,
             <2>11, <2>12 DEF Remove
<1>5. ASSUME NEW t \in frees, Free(t)
      PROVE  SessionBeforeReserved'
  <2>1. CASE FreeInLab(t)
    BY <2>1 DEF FreeInLab, ConfirmTask, Data, Spent, ClosedIsPurged,
                BeingPurged
  <2>2. CASE ConfirmDisposal(t)
    BY <2>2 DEF ConfirmDisposal, ConfirmTask, Data
  <2>3. QED
    BY <1>5, <2>1, <2>2 DEF Free
<1>6. ASSUME NEW i \in Instances, MarkFixed(i)
      PROVE  SessionBeforeReserved'
  BY <1>6 DEF MarkFixed, ConfirmTask, Data
<1>7. QED
  BY <1>1, <1>2, <1>3, <1>4, <1>5, <1>6
     DEF Work, Begin

(* The queue loses a reservation only once it has been promoted.           *)
LEMMA QueueStays ==
  ASSUME ConstantsAssumption, UsersLeave, TypeOK, OneFinisher, PollSeesNothing,
         RemovalOrder, \A q \in Reservations : Spent(q) => Spent(q)',
         CurrentOnce, InTheQueue, Work
  PROVE  InTheQueue'
<1> USE DEF TypeOK, KeyTypes, LabTypes, UpdaterTypes, RemoverTypes, keys, lab,
            UsersLeave, CurrentOnce, InTheQueue, Queued, Without, With, Active
<1>1. ASSUME NEW u \in Updaters, Update(u)
      PROVE  InTheQueue'
  <2>1. CASE PickFirst(u) \/ NobodyWaiting(u) \/ ListFreeInstances(u)
             \/ TryInstance(u) \/ NoInstanceLeft(u) \/ CheckExists(u)
    BY <2>1 DEF PickFirst, NobodyWaiting, ListFreeInstances, TryInstance,
                NoInstanceLeft, CheckExists, Untried, IdleUpdater, NextRound
  <2>2. CASE SetCurrent(u)
    BY <2>2 DEF SetCurrent, NextRound, IdleUpdater
  <2>3. CASE AcquireResource(u)
    BY <2>3 DEF AcquireResource
  <2>4. CASE Unconfirm(u)
    BY <2>4 DEF Unconfirm
  <2>5. CASE AssignInstance(u)
    BY <2>5 DEF AssignInstance
  <2>6. CASE ReadReservation(u)
    BY <2>6 DEF ReadReservation
  <2>7. CASE DowngradeUnsuitable(u)
    BY <2>7 DEF DowngradeUnsuitable
  <2>8. CASE ReleaseAcquired(u)
    BY <2>8 DEF ReleaseAcquired
  <2>9. CASE Unassign(u)
    BY <2>9 DEF Unassign, NextRound, IdleUpdater
  <2>10. CASE SetWaitingConfirmation(u)
    BY <2>10 DEF SetWaitingConfirmation
  <2>11. CASE DequeueAndConfirm(u)
    <3>1. NoneMember \notin Reservations
      BY ConstantsAssumption DEF NoneMember, Reservations
    <3>2. \A q \in Reservations \ {up[u].r} : q \in Queued => q \in Queued'
      BY <2>11, <3>1 DEF DequeueAndConfirm, MemberOf, Members
    <3>3. Spent(up[u].r) \/ Active(pqdata[up[u].r])
      BY <2>11 DEF DequeueAndConfirm
    <3>4. QED
      BY <2>11, <3>2, <3>3 DEF DequeueAndConfirm
  <2>12. QED
    BY <1>1, <2>1, <2>2, <2>3, <2>4, <2>5, <2>6, <2>7, <2>8, <2>9, <2>10,
       <2>11 DEF Update
<1>2. ASSUME NEW t \in confirms, Confirm(t)
      PROVE  InTheQueue'
  <2>1. CASE ReserveInLab(t)
    BY <2>1 DEF ReserveInLab, Step
  <2>2. CASE PutInitial(t)
    BY <2>2 DEF PutInitial, Step, End
  <2>3. CASE ReadToConfirm(t)
    BY <2>3 DEF ReadToConfirm, End
  <2>4. CASE WriteReserved(t)
    BY <2>4 DEF WriteReserved, End
  <2>5. QED
    BY <1>2, <2>1, <2>2, <2>3, <2>4 DEF Confirm
<1>3. ASSUME NEW c \in Removers, NEW r \in Reservations,
             \/ BeginFinish(c, r) \/ BeginExpire(c, r)
             \/ BeginDrop(c, r) \/ BeginPoll(c, r)
      PROVE  InTheQueue'
  <2>1. CASE BeginFinish(c, r)
    BY <2>1 DEF BeginFinish, IdleRemover
  <2>2. CASE BeginExpire(c, r)
    BY <2>2 DEF BeginExpire, IdleRemover
  <2>3. CASE BeginDrop(c, r)
    BY <2>3 DEF BeginDrop, IdleRemover
  <2>4. CASE BeginPoll(c, r)
    BY <2>4 DEF BeginPoll, IdleRemover
  <2>5. QED
    BY <1>3, <2>1, <2>2, <2>3, <2>4
<1>4. ASSUME NEW c \in Removers, Remove(c)
      PROVE  InTheQueue'
  <2>1. CASE FindAggregator(c)
    BY <2>1 DEF FindAggregator, Goto
  <2>2. CASE ReadActive(c)
    BY <2>2 DEF ReadActive, IdleRemover
  <2>3. CASE Touch(c)
    BY <2>3 DEF Touch, IdleRemover
  <2>4. CASE ReadToClean(c)
    BY <2>4 DEF ReadToClean
  <2>5. CASE DowngradeConfirmation(c)
    BY <2>5 DEF DowngradeConfirmation
  <2>6. CASE UnassignCleaned(c)
    BY <2>6 DEF UnassignCleaned, Goto
  <2>7. CASE DeleteReservation(c)
    <3>1. Spent(rm[c].r)
      BY <2>7, DeletedIsSpent DEF DeleteReservation
    <3>2. QED
      BY <2>7, <3>1 DEF DeleteReservation
  <2>8. CASE Unmap(c)
    <3>1. Spent(rm[c].r)
      BY <2>8, DeletedIsSpent DEF Unmap
    <3>2. NoneMember \notin Reservations
      BY ConstantsAssumption DEF NoneMember, Reservations
    <3>3. \A q \in Reservations : q \in Queued => q \in Queued'
      BY <2>8, <3>2 DEF Unmap, Members
    <3>4. QED
      BY <2>8, <3>3 DEF Unmap
  <2>9. CASE Dequeue(c)
    <3>1. Spent(rm[c].r)
      BY <2>9, DeletedIsSpent DEF Dequeue
    <3>2. \A q \in Reservations \ {rm[c].r} : q \in Queued => q \in Queued'
      BY <2>9 DEF Dequeue, Members
    <3>3. QED
      BY <2>9, <3>1, <3>2 DEF Dequeue
  <2>10. CASE Purge(c)
    BY <2>10 DEF Purge, Goto
  <2>11. CASE EnqueueFree(c)
    BY <2>11 DEF EnqueueFree, IdleRemover
  <2>12. CASE ClearFinishing(c)
    BY <2>12 DEF ClearFinishing, IdleRemover
  <2>13. QED
    BY <1>4, <2>1, <2>2, <2>3, <2>4, <2>5, <2>6, <2>7, <2>8, <2>9, <2>10,
             <2>11, <2>12 DEF Remove
<1>5. ASSUME NEW t \in frees, Free(t)
      PROVE  InTheQueue'
  <2>1. CASE FreeInLab(t)
    BY <2>1 DEF FreeInLab
  <2>2. CASE ConfirmDisposal(t)
    BY <2>2 DEF ConfirmDisposal
  <2>3. QED
    BY <1>5, <2>1, <2>2 DEF Free
<1>6. ASSUME NEW i \in Instances, MarkFixed(i)
      PROVE  InTheQueue'
  BY <1>6 DEF MarkFixed
<1>7. QED
  BY <1>1, <1>2, <1>3, <1>4, <1>5, <1>6
     DEF Work, Begin

(* A new reservation waits in the queue and nobody works for it yet.       *)
LEMMA ReserveKeepsAllocation ==
  ASSUME ConstantsAssumption, TypeOK, FreshIsNowhere, AllocationInvariant,
         NEW r \in Reservations, Reserve(r)
  PROVE  AllocationInvariant'
<1> USE DEF TypeOK, KeyTypes, LabTypes, UpdaterTypes, RemoverTypes, lab
<1>1. UNCHANGED <<current, finishing, slots, sessions, confirms, frees,
                initial, up, rm>>
  BY DEF Reserve
<1>2. /\ stored' = stored \cup {r} /\ r \notin stored
      /\ pqdata[r].active = "absent" /\ pqdata'[r].active = "waiting"
      /\ \A q \in Reservations \ {r} : pqdata'[q] = pqdata[q]
  BY DEF Reserve, FreshIsNowhere, NoData
<1>3. /\ \A c \in Removers : rm[c].pc # "idle" => rm[c].r # r
      /\ \A u \in Updaters :
           up[u].pc \notin {"pick", "list", "try", "exists"} => up[u].r # r
      /\ \A t \in confirms \cup frees : t.r # r
  BY DEF Reserve, FreshIsNowhere
<1>4. \A q \in Reservations \ {r} : Spent(q)' <=> Spent(q)
  BY <1>1, <1>2 DEF Spent
<1>5. OneFinisher' /\ PollSeesNothing'
  BY <1>1, <1>2, <1>3 DEF AllocationInvariant, OneFinisher, PollSeesNothing
<1>6. CurrentOnce'
  BY <1>1, <1>2, <1>3, <1>4 DEF AllocationInvariant, CurrentOnce, Confirming,
                                Active
<1>7. \A q \in Reservations, i \in Instances : Claims(q, i)' <=> Claims(q, i)
  BY <1>2, <1>4 DEF Claims, Active
<1>8. SlotHeldOnce'
  BY <1>1 DEF AllocationInvariant, SlotHeldOnce, UpdaterHolds, RemoverHolds,
              FreeHolds
<1>9. OneHolder'
  BY <1>1, <1>7 DEF AllocationInvariant, OneHolder, UpdaterHolds,
                    RemoverHolds, FreeHolds
<1>10. SessionBeforeReserved'
  BY <1>1, <1>2, <1>3, <1>4 DEF AllocationInvariant, SessionBeforeReserved
<1>11. InTheQueue'
  <2>1. /\ <<r, Priority[r]>> \in sorted' /\ <<r, Priority[r]>>[1] = r
        /\ \A e \in sorted : e \in sorted' \/ e[1] = r
    BY DEF Reserve, With, Without
  <2>2. \A q \in Members : q \in Queued' <=> \E e \in sorted' : e[1] = q
    BY DEF Queued
  <2>3. \A q \in Members : q \in Queued <=> \E e \in sorted : e[1] = q
    BY DEF Queued
  <2>4. r \in Queued' /\ \A q \in Reservations : q \in Queued => q \in Queued'
    BY <2>1, <2>2, <2>3 DEF Members
  <2>5. QED
    BY <1>2, <1>4, <2>4 DEF AllocationInvariant, InTheQueue, Active
<1>12. QED
  BY <1>5, <1>6, <1>8, <1>9, <1>10, <1>11 DEF AllocationInvariant

(* The invariant of the allocation, where only users remove reservations.  *)
LEMMA AllocationIsSound ==
  ASSUME UsersLeave
  PROVE  Spec => []AllocationInvariant
<1>1. Init => AllocationInvariant
  BY ConstantsAssumption
     DEF Init, AllocationInvariant, OneFinisher, PollSeesNothing, CurrentOnce,
         Confirming, OneHolder, Claims, SlotHeldOnce, UpdaterHolds,
         RemoverHolds, FreeHolds, SessionBeforeReserved, InTheQueue, Active,
         Spent, NoData, IdleUpdater, IdleRemover
<1>2. TypeOK /\ RemovalInvariant /\ AllocationInvariant /\ [Next]_vars
        => AllocationInvariant'
  <2> SUFFICES ASSUME TypeOK, RemovalInvariant, AllocationInvariant,
                      [Next]_vars
               PROVE  AllocationInvariant'
    OBVIOUS
  <2>1. FreshIsNowhere /\ RemovalOrder /\ ClosedIsPurged
    BY DEF RemovalInvariant
  <2>2. CASE \E r \in Reservations : Reserve(r)
    BY <2>1, <2>2, ConstantsAssumption, ReserveKeepsAllocation
  <2>3. CASE Work
    <3> USE <2>1, <2>3, ConstantsAssumption DEF AllocationInvariant
    <3>1. OneFinisher' /\ PollSeesNothing'
      BY FinisherStaysOne
    <3>2. \A q \in Reservations : Spent(q) => Spent(q)'
      BY SpentForGood
    <3>3. CurrentOnce'
      BY <3>2, CurrentStaysOnce
    <3>4. OneHolder' /\ SlotHeldOnce'
      BY <3>2, <3>3, HolderStaysOne
    <3>5. SessionBeforeReserved'
      BY <3>2, <3>3, SessionStaysBefore
    <3>6. InTheQueue'
      BY <3>2, QueueStays
    <3>7. QED
      BY <3>1, <3>3, <3>4, <3>5, <3>6
  <2>4. CASE UNCHANGED vars
    BY <2>4
       DEF vars, keys, lab, AllocationInvariant, OneFinisher, PollSeesNothing,
           CurrentOnce, Confirming, OneHolder, Claims, SlotHeldOnce,
           UpdaterHolds, RemoverHolds, FreeHolds, SessionBeforeReserved, InTheQueue, Queued,
           Active, Spent
  <2>5. Next => (\E r \in Reservations : Reserve(r)) \/ Work
    BY DEF Next, Work, UsersLeave
  <2>6. QED
    BY <2>2, <2>3, <2>4, <2>5
<1>3. QED
  BY <1>1, <1>2, TypeCorrect, RemovalsAreSound, PTL DEF Spec

-----------------------------------------------------------------------------
(* What the invariant says of a reservation that nobody is removing.       *)
LEMMA AliveIsNotSpent ==
  ASSUME UsersLeave, NEW r \in Reservations, Alive(r)
  PROVE  ~Spent(r)
BY DEF Alive, Spent

(* No instance is given to two students, whoever updates the queue and     *)
(* whoever leaves, in any status.                                          *)
THEOREM InstancesNotShared ==
  ASSUME UsersLeave
  PROVE  Spec => []NoSharedInstance
<1>1. AllocationInvariant => NoSharedInstance
  BY AliveIsNotSpent
     DEF AllocationInvariant, OneHolder, Claims, NoSharedInstance, Using
<1>2. QED
  BY <1>1, AllocationIsSound, PTL

(* A slot passes through the hands of one thread, which is the one that    *)
(* gives it back.                                                          *)
THEOREM SlotsHeldOnce ==
  ASSUME UsersLeave
  PROVE  Spec => []SlotHeldOnce
<1>1. AllocationInvariant => SlotHeldOnce
  BY DEF AllocationInvariant
<1>2. QED
  BY <1>1, AllocationIsSound, PTL

(* Whoever waits is in the queue or has been promoted, although an update  *)
(* takes him out of it while others come and go.                           *)
THEOREM NobodyForgotten ==
  ASSUME UsersLeave
  PROVE  Spec => []NotForgotten
<1>1. AllocationInvariant => NotForgotten
  BY AliveIsNotSpent DEF AllocationInvariant, InTheQueue, NotForgotten
<1>2. QED
  BY <1>1, AllocationIsSound, PTL

(* Whoever is told that he is in has a session in the laboratory and a     *)
(* usage in the initial store.                                             *)
THEOREM ReservedInLaboratory ==
  ASSUME UsersLeave
  PROVE  Spec => []ReservedHasSession
<1>1. AllocationInvariant => ReservedHasSession
  BY AliveIsNotSpent
     DEF AllocationInvariant, SessionBeforeReserved, ReservedHasSession, Using
<1>2. QED
  BY <1>1, AllocationIsSound, PTL

==============================================================================
