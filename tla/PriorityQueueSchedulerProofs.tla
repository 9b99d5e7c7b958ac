-------------------- MODULE PriorityQueueSchedulerProofs --------------------
(***************************************************************************)
(* Theorems about the priority-queue scheduler, for any number of          *)
(* reservations, instances and threads of each kind, and whatever fails or *)
(* expires: each variable keeps its type, and the usage of a reservation   *)
(* is closed only when the reservation is being removed.                   *)
(***************************************************************************)
EXTENDS SchedulerInvariants, TLAPS

(* The values that the threads start from and go back to.                  *)
LEMMA IdleTypes ==
  /\ Reservations \subseteq Members
  /\ NoneMember \in Members
  /\ NoData \in Data
  /\ IdleUpdater \in UpdaterState
  /\ IdleRemover \in RemoverState
  /\ IdleBreaker \in BreakerState
<1>1. Reservations \subseteq Members /\ NoneMember \in Members
  BY DEF Members
<1>2. NoData \in Data
  BY DEF NoData, Data
<1>3. IdleUpdater \in UpdaterState
  BY <1>1, <1>2 DEF IdleUpdater, UpdaterState, UpdaterPc
<1>4. IdleRemover \in RemoverState
  BY <1>1, <1>2 DEF IdleRemover, RemoverState, RemoverPc
<1>5. IdleBreaker \in BreakerState
  BY <1>1, <1>2 DEF IdleBreaker, BreakerState, BreakerPc
<1>6. QED
  BY <1>1, <1>2, <1>3, <1>4, <1>5

LEMMA InitTypes == ConstantsAssumption /\ Init => TypeOK
  BY IdleTypes, SMTT(30)
     DEF Init, TypeOK, KeyTypes, LabTypes, UpdaterTypes, RemoverTypes, BreakerTypes,
     IdleUpdater, IdleRemover, IdleBreaker

(* The updaters keep the types.                                            *)
LEMMA UpdateTypes ==
  ASSUME ConstantsAssumption, TypeOK, NEW u \in Updaters, Update(u)
  PROVE  TypeOK'
<1> USE IdleTypes DEF TypeOK, KeyTypes, LabTypes, UpdaterTypes, RemoverTypes,
                     BreakerTypes, keys, lab
<1>1. CASE PickFirst(u)
  BY <1>1 DEF PickFirst, UpdaterState, UpdaterPc, Untried
<1>2. CASE NobodyWaiting(u)
  BY <1>2 DEF NobodyWaiting, IdleUpdater
<1>3. CASE ListFreeInstances(u)
  BY <1>3, ZenonT(60)
     DEF ListFreeInstances, IdleUpdater, UpdaterState, UpdaterPc
<1>4. CASE TryInstance(u)
  <2>1. PICK i \in up[u].free :
          up' = [up EXCEPT ![u].free = @ \ {i},
                           ![u].i = i,
                           ![u].pc = IF i \in working THEN "exists" ELSE "try"]
    BY <1>4 DEF TryInstance
  <2>2. i \in Instances /\ up[u].pc = "try"
    BY <1>4 DEF TryInstance, UpdaterState
  <2> DEFINE s == [up[u] EXCEPT !.free = @ \ {i}, !.i = i,
                                !.pc = IF i \in working THEN "exists" ELSE "try"]
  <2>3. s \in UpdaterState
    BY <2>2, ZenonT(60) DEF UpdaterState, UpdaterPc
  <2>4. s.i \in Instances /\ s.pc \in {"exists", "try"}
    BY <2>2 DEF UpdaterState
  <2>5. up' = [up EXCEPT ![u] = s]
    BY <2>1
  <2>6. UpdaterTypes'
    <3> HIDE DEF s
    <3> QED BY <2>3, <2>4, <2>5
  <2>7. QED
    BY <1>4, <2>6 DEF TryInstance
<1>5. CASE NoInstanceLeft(u)
  BY <1>5 DEF NoInstanceLeft, NextRound, IdleUpdater, UpdaterState, UpdaterPc
<1>6. CASE CheckExists(u)
  BY <1>6, SMTT(30) DEF CheckExists, IdleUpdater, UpdaterState, UpdaterPc
<1>7. CASE SetCurrent(u)
  BY <1>7, SMTT(30)
     DEF SetCurrent, NextRound, IdleUpdater, UpdaterState, UpdaterPc
<1>8. CASE AcquireResource(u)
  BY <1>8, SMTT(30) DEF AcquireResource, UpdaterState, UpdaterPc
<1>9. CASE Unconfirm(u)
  BY <1>9, ZenonT(60) DEF Unconfirm, UpdaterState, UpdaterPc
<1>10. CASE AssignInstance(u)
  <2>1. up[u].i \in Instances /\ up[u].r \in Reservations
    BY <1>10 DEF AssignInstance
  <2>2. assigned' \in [Instances -> SUBSET Reservations]
    BY <1>10, <2>1 DEF AssignInstance
  <2>3. UpdaterTypes'
    BY <1>10, <2>1, ZenonT(60) DEF AssignInstance, UpdaterState, UpdaterPc
  <2>4. QED
    BY <1>10, <2>2, <2>3 DEF AssignInstance
<1>11. CASE ReadReservation(u)
  <2>1. up[u].i \in Instances /\ up[u].r \in Reservations
    BY <1>11 DEF ReadReservation
  <2>2. PICK d \in Data, pc \in {"gone", "set", "unsuitable"} :
          up' = [up EXCEPT ![u].data = d, ![u].pc = pc]
    <3>1. up[u].data \in Data /\ pqdata[up[u].r] \in Data
      BY <2>1 DEF UpdaterState
    <3>2. QED
      BY <1>11, <3>1 DEF ReadReservation
  <2> DEFINE s == [up[u] EXCEPT !.data = d, !.pc = pc]
  <2>3. s \in UpdaterState /\ s.i \in Instances /\ s.r \in Reservations
    BY <2>1 DEF UpdaterState, UpdaterPc
  <2>4. up' = [up EXCEPT ![u] = s]
    BY <2>2
  <2>5. UpdaterTypes'
    <3> HIDE DEF s
    <3> QED BY <2>3, <2>4
  <2>6. QED
    BY <1>11, <2>5 DEF ReadReservation
<1>12. CASE DowngradeUnsuitable(u)
  BY <1>12, ZenonT(60) DEF DowngradeUnsuitable, UpdaterState, UpdaterPc
<1>13. CASE ReleaseAcquired(u)
  <2>1. slots' \subseteq Instances
    BY <1>13 DEF ReleaseAcquired
  <2>2. UpdaterTypes'
    BY <1>13, ZenonT(60) DEF ReleaseAcquired, UpdaterState, UpdaterPc
  <2>3. QED
    BY <1>13, <2>1, <2>2 DEF ReleaseAcquired
<1>14. CASE Unassign(u)
  BY <1>14, ZenonT(60)
     DEF Unassign, NextRound, IdleUpdater, UpdaterState, UpdaterPc
<1>15. CASE SetWaitingConfirmation(u)
  <2>1. up[u].i \in Instances /\ up[u].r \in Reservations
    BY <1>15 DEF SetWaitingConfirmation
  <2>2. [up[u].data EXCEPT !.active = "confirming", !.inst = up[u].i] \in Data
    BY <2>1, ZenonT(60) DEF UpdaterState, Data
  <2>3. pqdata' \in [Reservations -> Data]
    BY <1>15, <2>1, <2>2 DEF SetWaitingConfirmation
  <2>4. UpdaterTypes'
    BY <1>15, <2>1, ZenonT(60)
       DEF SetWaitingConfirmation, UpdaterState, UpdaterPc
  <2>5. QED
    BY <1>15, <2>3, <2>4 DEF SetWaitingConfirmation
<1>16. CASE DequeueAndConfirm(u)
  <2>1. sorted' \subseteq Members \X Int
    BY <1>16 DEF DequeueAndConfirm, Without
  <2>2. confirms' \subseteq ConfirmTask
    BY <1>16 DEF DequeueAndConfirm, ConfirmTask, UpdaterState
  <2>3. UpdaterTypes'
    BY <1>16, SMTT(30)
       DEF DequeueAndConfirm, NextRound, IdleUpdater, UpdaterState,
                 UpdaterPc
  <2>4. QED
    BY <1>16, <2>1, <2>2, <2>3 DEF DequeueAndConfirm
<1>17. QED
  BY <1>1, <1>2, <1>3, <1>4, <1>5, <1>6, <1>7, <1>8, <1>9, <1>10, <1>11, <1>12,
     <1>13, <1>14, <1>15, <1>16 DEF Update

(* The threads that confirm a reservation keep the types.                  *)
LEMMA ConfirmTypes ==
  ASSUME ConstantsAssumption, TypeOK, NEW t \in confirms, Confirm(t)
  PROVE  TypeOK'
<1> USE IdleTypes DEF TypeOK, KeyTypes, LabTypes, UpdaterTypes, RemoverTypes,
                     BreakerTypes, keys, lab
<1>1. CASE ReserveInLab(t)
  BY <1>1 DEF ReserveInLab, Step, ConfirmTask
<1>2. CASE PutInitial(t)
  BY <1>2 DEF PutInitial, Step, End, ConfirmTask
<1>3. CASE ReadToConfirm(t)
  <2>1. t \in ConfirmTask /\ pqdata[t.r] \in Data
    BY DEF ConfirmTask
  <2>2. [t EXCEPT !.pc = "write", !.data = pqdata[t.r]] \in ConfirmTask
    BY <2>1 DEF ConfirmTask
  <2>3. confirms' \subseteq ConfirmTask
    BY <1>3, <2>2 DEF ReadToConfirm, End
  <2>4. QED
    BY <1>3, <2>3 DEF ReadToConfirm
<1>4. CASE WriteReserved(t)
  BY <1>4, ZenonT(60) DEF WriteReserved, End, ConfirmTask, Data
<1>5. QED
  BY <1>1, <1>2, <1>3, <1>4 DEF Confirm

(* The removers keep the types.                                            *)
LEMMA RemoveTypes ==
  ASSUME ConstantsAssumption, TypeOK, NEW c \in Removers, Remove(c)
  PROVE  TypeOK'
<1> USE IdleTypes DEF TypeOK, KeyTypes, LabTypes, UpdaterTypes, RemoverTypes,
                     BreakerTypes, keys, lab
<1>1. CASE FindAggregator(c)
  BY <1>1, SMTT(30) DEF FindAggregator, RemoverState, RemoverPc, Goto
<1>2. CASE ReadActive(c)
  BY <1>2 DEF ReadActive, RemoverState, RemoverPc, IdleRemover
<1>3. CASE Touch(c)
  BY <1>3, SMTT(30) DEF Touch, RemoverState, RemoverPc, IdleRemover
<1>4. CASE ReadToClean(c)
  BY <1>4, SMTT(30) DEF ReadToClean, RemoverState, RemoverPc
<1>5. CASE DowngradeConfirmation(c)
  BY <1>5 DEF DowngradeConfirmation, RemoverState, RemoverPc, Data
<1>6. CASE UnassignCleaned(c)
  BY <1>6, SMTT(30) DEF UnassignCleaned, RemoverState, RemoverPc, Goto
<1>7. CASE DeleteReservation(c)
  <2>1. /\ rm[c].r \in Reservations
        /\ [rm[c] EXCEPT !.pc = "unmap"] \in RemoverState
    BY <1>7 DEF DeleteReservation, RemoverState, RemoverPc
  <2>2. assigned' \in [Instances -> SUBSET Reservations]
    BY <1>7 DEF DeleteReservation
  <2>3. pqdata' \in [Reservations -> Data]
    BY <1>7, <2>1 DEF DeleteReservation
  <2>4. RemoverTypes'
    BY <1>7, <2>1 DEF DeleteReservation, RemoverState, RemoverPc, Goto
  <2>5. listed' \subseteq Reservations
    BY <1>7 DEF DeleteReservation
  <2>6. QED
    BY <1>7, <2>2, <2>3, <2>4, <2>5 DEF DeleteReservation
<1>8. CASE Unmap(c)
  <2>1. rm[c].r \in Reservations /\ AfterDequeue(c) \in RemoverState
    BY <1>8 DEF Unmap, AfterDequeue, RemoverState, RemoverPc
  <2>2. sorted' \subseteq Members \X Int
    BY <1>8 DEF Unmap, Without
  <2>3. RemoverTypes'
    BY <1>8, <2>1 DEF Unmap, AfterDequeue, IdleRemover, RemoverState, RemoverPc
  <2>4. QED
    BY <1>8, <2>2, <2>3 DEF Unmap
<1>9. CASE Dequeue(c)
  BY <1>9 DEF Dequeue, RemoverState, RemoverPc, AfterDequeue, IdleRemover,
              Without
<1>10. CASE Purge(c)
  BY <1>10 DEF Purge, RemoverState, RemoverPc, Goto
<1>11. CASE EnqueueFree(c)
  <2>1. rm[c] \in RemoverState /\ rm[c].r \in Reservations
    BY <1>11 DEF EnqueueFree
  <2>2. RemoverTypes'
    BY <1>11, <2>1, ZenonT(60)
       DEF EnqueueFree, RemoverState, RemoverPc, IdleRemover
  <2>3. slots' \subseteq Instances /\ finished' \subseteq Reservations
    BY <1>11, <2>1 DEF EnqueueFree
  <2>4. frees' \subseteq FreeTask
    BY <1>11, <2>1 DEF EnqueueFree, FreeTask
  <2>5. QED
    BY <1>11, <2>2, <2>3, <2>4 DEF EnqueueFree
<1>12. CASE ClearFinishing(c)
  BY <1>12 DEF ClearFinishing, RemoverState, RemoverPc, IdleRemover
<1>13. QED
  BY <1>1, <1>2, <1>3, <1>4, <1>5, <1>6, <1>7, <1>8, <1>9, <1>10, <1>11, <1>12 DEF Remove

(* The threads that free an experiment keep the types.                     *)
LEMMA FreeTypes ==
  ASSUME ConstantsAssumption, TypeOK, NEW t \in frees, Free(t)
  PROVE  TypeOK'
<1> USE IdleTypes DEF TypeOK, KeyTypes, LabTypes, UpdaterTypes, RemoverTypes,
                     BreakerTypes, keys, lab
<1>1. CASE FreeInLab(t)
  BY <1>1 DEF FreeInLab, FreeTask
<1>2. CASE ConfirmDisposal(t)
  BY <1>2 DEF ConfirmDisposal, FreeTask
<1>3. QED
  BY <1>1, <1>2 DEF Free

(* The breakers keep the types.                                            *)
LEMMA BreakTypes ==
  ASSUME ConstantsAssumption, TypeOK, NEW b \in Breakers, Break(b)
  PROVE  TypeOK'
<1> USE IdleTypes DEF TypeOK, KeyTypes, LabTypes, UpdaterTypes, RemoverTypes,
                     BreakerTypes, keys, lab
<1>1. CASE FindCurrent(b)
  <2>1. br[b].i \in Instances
    BY <1>1 DEF FindCurrent
  <2>2. CASE BreakerGoto(b, "mark")
    BY <1>1, <2>1, <2>2, ZenonT(60)
       DEF FindCurrent, BreakerGoto, BreakerState, BreakerPc
  <2>3. ASSUME NEW r \in assigned[br[b].i],
               br' = [br EXCEPT ![b].pc = "remove", ![b].r = r]
        PROVE  TypeOK'
    <3>1. r \in Reservations
      BY <2>1
    <3>2. BreakerTypes'
      BY <2>1, <2>3, <3>1, ZenonT(60) DEF BreakerState, BreakerPc
    <3>3. QED
      BY <1>1, <3>2 DEF FindCurrent
  <2>4. QED
    BY <1>1, <2>2, <2>3 DEF FindCurrent
<1>2. CASE RemoveCurrent(b)
  BY <1>2, ZenonT(60) DEF RemoveCurrent, BreakerState, BreakerPc, IdleBreaker
<1>3. CASE DowngradeCurrent(b)
  BY <1>3, ZenonT(60)
     DEF DowngradeCurrent, BreakerState, BreakerPc, BreakerGoto
<1>4. CASE ReleaseBroken(b)
  BY <1>4 DEF ReleaseBroken, BreakerState, BreakerPc, BreakerGoto
<1>5. CASE ReadBroken(b)
  BY <1>5, ZenonT(60) DEF ReadBroken, BreakerState, BreakerPc, IdleBreaker
<1>6. CASE WriteWaiting(b)
  <2>1. br[b] \in BreakerState /\ br[b].r \in Reservations
    BY <1>6 DEF WriteWaiting
  <2>2. [br[b].data EXCEPT !.active = "waiting", !.session = FALSE] \in Data
    BY <2>1 DEF BreakerState, Data
  <2>3. pqdata' \in [Reservations -> Data]
    BY <1>6, <2>1, <2>2 DEF WriteWaiting
  <2>4. BreakerTypes'
    BY <1>6 DEF WriteWaiting, BreakerGoto, BreakerState, BreakerPc
  <2>5. QED
    BY <1>6, <2>3, <2>4 DEF WriteWaiting
<1>7. CASE Requeue(b)
  <2>1. MemberOf(br[b].r) \in Members /\ Requeued \in Int
    BY <1>7 DEF Requeue, MemberOf, Requeued
  <2>2. sorted' \subseteq Members \X Int
    BY <1>7, <2>1 DEF Requeue, With, Without
  <2>3. BreakerTypes'
    BY <1>7 DEF Requeue, IdleBreaker, BreakerState, BreakerPc
  <2>4. QED
    BY <1>7, <2>2, <2>3 DEF Requeue
<1>8. CASE MarkBroken(b)
  BY <1>8 DEF MarkBroken, BreakerState, BreakerPc, IdleBreaker
<1>9. QED
  BY <1>1, <1>2, <1>3, <1>4, <1>5, <1>6, <1>7, <1>8 DEF Break

(* Every other step keeps them.                                            *)
LEMMA OtherTypes ==
  ASSUME ConstantsAssumption, TypeOK, Next
  PROVE  TypeOK'
<1> USE IdleTypes DEF TypeOK, KeyTypes, LabTypes, UpdaterTypes, RemoverTypes,
                     BreakerTypes, keys, lab
<1>1. ASSUME NEW r \in Reservations, Reserve(r)
      PROVE  TypeOK'
  <2>1. [NoData EXCEPT !.active = "waiting"] \in Data
    BY DEF Data
  <2>2. Priority[r] \in Int
    BY DEF ConstantsAssumption
  <2>3. QED
    BY <1>1, <2>1, <2>2 DEF Reserve, With, Without
<1>2. ASSUME NEW c \in Removers, Begin(c)
      PROVE  TypeOK'
  <2>1. PICK r \in Reservations :
          BeginFinish(c, r) \/ BeginExpire(c, r) \/ BeginDrop(c, r) \/ BeginPoll(c, r)
    BY <1>2 DEF Begin
  <2>2. CASE BeginFinish(c, r)
    <3>1. [IdleRemover EXCEPT !.pc = "known", !.op = "finish", !.r = r] \in RemoverState
      BY DEF IdleRemover, RemoverState, RemoverPc
    <3>2. RemoverTypes'
      BY <2>2, <3>1 DEF BeginFinish, IdleRemover
    <3>3. QED
      BY <2>2, <3>2 DEF BeginFinish
  <2>3. CASE BeginExpire(c, r)
    BY <2>3, ZenonT(60) DEF BeginExpire, IdleRemover, RemoverState, RemoverPc
  <2>4. CASE BeginDrop(c, r)
    BY <2>4, ZenonT(60) DEF BeginDrop, IdleRemover, RemoverState, RemoverPc
  <2>5. CASE BeginPoll(c, r)
    BY <2>5, ZenonT(60) DEF BeginPoll, IdleRemover, RemoverState, RemoverPc
  <2>6. QED
    BY <2>1, <2>2, <2>3, <2>4, <2>5
<1>3. ASSUME NEW t \in confirms, NEW b \in Breakers, LabFailsToReserve(t, b)
      PROVE  TypeOK'
  <2>1. t.r \in Reservations /\ t.i \in Instances
    BY DEF ConfirmTask
  <2>2. BreakerTypes'
    <3>1. br' = [br EXCEPT ![b].pc = "find", ![b].i = t.i]
      BY <1>3 DEF LabFailsToReserve
    <3>2. [br[b] EXCEPT !.pc = "find", !.i = t.i] \in BreakerState
      BY <2>1 DEF BreakerState, BreakerPc
    <3>3. br' = [br EXCEPT ![b] = [br[b] EXCEPT !.pc = "find", !.i = t.i]]
      BY <3>1
    <3>4. QED
      BY <2>1, <3>2, <3>3 DEF BreakerState
  <2>3. sessions' \in [Instances -> SUBSET Reservations]
    BY <1>3, <2>1 DEF LabFailsToReserve
  <2>4. QED
    BY <1>3, <2>2, <2>3 DEF LabFailsToReserve, End
<1>4. ASSUME NEW t \in frees, NEW b \in Breakers, LabFailsToFree(t, b)
      PROVE  TypeOK'
  <2>1. t.i \in Instances
    BY DEF FreeTask
  <2>2. BreakerTypes'
    <3>1. br' = [br EXCEPT ![b].pc = "find", ![b].i = t.i]
      BY <1>4 DEF LabFailsToFree
    <3>2. [br[b] EXCEPT !.pc = "find", !.i = t.i] \in BreakerState
      BY <2>1 DEF BreakerState, BreakerPc
    <3>3. br' = [br EXCEPT ![b] = [br[b] EXCEPT !.pc = "find", !.i = t.i]]
      BY <3>1
    <3>4. QED
      BY <2>1, <3>2, <3>3 DEF BreakerState
  <2>3. sessions' \in [Instances -> SUBSET Reservations]
    BY <1>4 DEF LabFailsToFree
  <2>4. QED
    BY <1>4, <2>2, <2>3 DEF LabFailsToFree
<1>5. ASSUME NEW b \in Breakers, NEW i \in Instances, BeginBreak(b, i)
      PROVE  TypeOK'
  BY <1>5, ZenonT(60) DEF BeginBreak, BreakerState, BreakerPc
<1>6. ASSUME NEW i \in Instances, MarkFixed(i)
      PROVE  TypeOK'
  BY <1>6 DEF MarkFixed
<1>7. QED
  BY <1>1, <1>2, <1>3, <1>4, <1>5, <1>6, UpdateTypes, ConfirmTypes,
     RemoveTypes, FreeTypes, BreakTypes DEF Next

(* Every key and every thread has the values its code expects, whatever    *)
(* the reservations, the instances, the threads and the failures are.      *)
THEOREM TypeCorrect == Spec => []TypeOK
<1>1. Init => TypeOK
  BY ConstantsAssumption, InitTypes
<1>2. TypeOK /\ [Next]_vars => TypeOK'
  <2>1. CASE Next
    BY <2>1, ConstantsAssumption, OtherTypes
  <2>2. CASE UNCHANGED vars
    BY <2>2 DEF vars, keys, lab, TypeOK, KeyTypes, LabTypes, UpdaterTypes,
                RemoverTypes, BreakerTypes
  <2>3. QED
    BY <2>1, <2>2
<1>3. QED
  BY <1>1, <1>2, PTL DEF Spec

-----------------------------------------------------------------------------
(* The usage is closed only of who is removed.  The inductive invariant    *)
(* has three parts, each of which is preserved by every step (one lemma    *)
(* per part, one case per action).                                         *)

(* An id that was not drawn is nowhere: every thread works for a           *)
(* reservation it has found in the keys, and only Reserve draws ids.       *)
LEMMA FreshStaysNowhere ==
  ASSUME ConstantsAssumption, TypeOK, FreshIsNowhere, Next
  PROVE  FreshIsNowhere'
<1> USE DEF TypeOK, KeyTypes, LabTypes, UpdaterTypes, RemoverTypes,
            BreakerTypes, keys, lab, FreshIsNowhere
<1>1. ASSUME NEW r \in Reservations, Reserve(r)
      PROVE  FreshIsNowhere'
  BY <1>1 DEF Reserve
<1>2. ASSUME NEW u \in Updaters, Update(u)
      PROVE  FreshIsNowhere'
  <2>1. CASE PickFirst(u)
    BY <2>1 DEF PickFirst, Untried
  <2>2. CASE NobodyWaiting(u)
    BY <2>2 DEF NobodyWaiting, IdleUpdater
  <2>3. CASE ListFreeInstances(u)
    BY <2>3 DEF ListFreeInstances, IdleUpdater
  <2>4. CASE TryInstance(u)
    BY <2>4 DEF TryInstance
  <2>5. CASE NoInstanceLeft(u)
    BY <2>5 DEF NoInstanceLeft, NextRound, IdleUpdater
  <2>6. CASE CheckExists(u)
    BY <2>6 DEF CheckExists, IdleUpdater
  <2>7. CASE SetCurrent(u)
    BY <2>7 DEF SetCurrent, NextRound, IdleUpdater
  <2>8. CASE AcquireResource(u)
    BY <2>8 DEF AcquireResource
  <2>9. CASE Unconfirm(u)
    BY <2>9 DEF Unconfirm
  <2>10. CASE AssignInstance(u)
    BY <2>10, SMTT(30) DEF AssignInstance
  <2>11. CASE ReadReservation(u)
    BY <2>11 DEF ReadReservation
  <2>12. CASE DowngradeUnsuitable(u)
    BY <2>12 DEF DowngradeUnsuitable
  <2>13. CASE ReleaseAcquired(u)
    BY <2>13 DEF ReleaseAcquired
  <2>14. CASE Unassign(u)
    BY <2>14 DEF Unassign, NextRound, IdleUpdater
  <2>15. CASE SetWaitingConfirmation(u)
    BY <2>15 DEF SetWaitingConfirmation
  <2>16. CASE DequeueAndConfirm(u)
    BY <2>16 DEF DequeueAndConfirm, NextRound, IdleUpdater
  <2>17. QED
    BY <1>2, <2>1, <2>2, <2>3, <2>4, <2>5, <2>6, <2>7, <2>8, <2>9, <2>10,
             <2>11, <2>12, <2>13, <2>14, <2>15, <2>16 DEF Update
<1>3. ASSUME NEW t \in confirms, Confirm(t)
      PROVE  FreshIsNowhere'
  <2>1. CASE ReserveInLab(t)
    BY <2>1 DEF ReserveInLab, Step, ConfirmTask
  <2>2. CASE PutInitial(t)
    BY <2>2 DEF PutInitial, Step, End, ConfirmTask
  <2>3. CASE ReadToConfirm(t)
    <3> DEFINE s == [t EXCEPT !.pc = "write", !.data = pqdata[t.r]]
    <3>1. s.r = t.r
      BY DEF ConfirmTask
    <3>2. confirms' \subseteq confirms \cup {s}
      BY <2>3 DEF ReadToConfirm, End
    <3> HIDE DEF s
    <3>3. QED
      BY <2>3, <3>1, <3>2 DEF ReadToConfirm
  <2>4. CASE WriteReserved(t)
    BY <2>4 DEF WriteReserved, End
  <2>5. QED
    BY <1>3, <2>1, <2>2, <2>3, <2>4 DEF Confirm
<1>4. ASSUME NEW t \in confirms, NEW b \in Breakers, LabFailsToReserve(t, b)
      PROVE  FreshIsNowhere'
  BY <1>4 DEF LabFailsToReserve, End
<1>5. ASSUME NEW c \in Removers, NEW r \in Reservations,
             BeginFinish(c, r) \/ BeginExpire(c, r) \/ BeginDrop(c, r) \/ BeginPoll(c, r)
      PROVE  FreshIsNowhere'
  <2>1. CASE BeginFinish(c, r)
    BY <2>1 DEF BeginFinish, IdleRemover
  <2>2. CASE BeginExpire(c, r)
    BY <2>2 DEF BeginExpire, IdleRemover
  <2>3. CASE BeginDrop(c, r)
    BY <2>3 DEF BeginDrop, IdleRemover
  <2>4. CASE BeginPoll(c, r)
    BY <2>4 DEF BeginPoll, IdleRemover
  <2>5. QED
    BY <1>5, <2>1, <2>2, <2>3, <2>4
<1>6. ASSUME NEW c \in Removers, Remove(c)
      PROVE  FreshIsNowhere'
  <2>1. CASE FindAggregator(c)
    BY <2>1 DEF FindAggregator, Goto
  <2>2. CASE ReadActive(c)
    BY <2>2 DEF ReadActive, IdleRemover
  <2>3. CASE Touch(c)
    BY <2>3 DEF Touch, IdleRemover
  <2>4. CASE ReadToClean(c)
    BY <2>4 DEF ReadToClean
  <2>5. CASE DowngradeConfirmation(c)
    BY <2>5 DEF DowngradeConfirmation
  <2>6. CASE UnassignCleaned(c)
    BY <2>6 DEF UnassignCleaned, Goto
  <2>7. CASE DeleteReservation(c)
    BY <2>7 DEF DeleteReservation, Goto
  <2>8. CASE Unmap(c)
    BY <2>8 DEF Unmap, Goto, AfterDequeue, IdleRemover
  <2>9. CASE Dequeue(c)
    BY <2>9 DEF Dequeue, AfterDequeue, IdleRemover
  <2>10. CASE Purge(c)
    BY <2>10 DEF Purge, Goto
  <2>11. CASE EnqueueFree(c)
    BY <2>11 DEF EnqueueFree, IdleRemover
  <2>12. CASE ClearFinishing(c)
    BY <2>12 DEF ClearFinishing, IdleRemover
  <2>13. QED
    BY <1>6, <2>1, <2>2, <2>3, <2>4, <2>5, <2>6, <2>7, <2>8, <2>9, <2>10,
             <2>11, <2>12 DEF Remove
<1>7. ASSUME NEW t \in frees, Free(t)
      PROVE  FreshIsNowhere'
  <2>1. CASE FreeInLab(t)
    BY <2>1 DEF FreeInLab, FreeTask
  <2>2. CASE ConfirmDisposal(t)
    BY <2>2 DEF ConfirmDisposal
  <2>3. QED
    BY <1>7, <2>1, <2>2 DEF Free
<1>8. ASSUME NEW t \in frees, NEW b \in Breakers, LabFailsToFree(t, b)
      PROVE  FreshIsNowhere'
  BY <1>8 DEF LabFailsToFree
<1>9. ASSUME NEW b \in Breakers, Break(b)
      PROVE  FreshIsNowhere'
  <2>1. CASE FindCurrent(b)
    <3>1. br[b].i \in Instances
      BY <2>1 DEF FindCurrent
    <3>2. CASE assigned[br[b].i] = {}
      <4>1. br' = [br EXCEPT ![b].pc = "mark"]
        BY <2>1, <3>2 DEF FindCurrent, BreakerGoto
      <4>2. \A a \in Breakers : br'[a] = br[a] \/ br'[a].pc = "mark"
        BY <4>1 DEF BreakerState
      <4>3. QED
        BY <2>1, <4>2 DEF FindCurrent
    <3>3. CASE assigned[br[b].i] # {}
      <4>1. PICK r \in assigned[br[b].i] :
              br' = [br EXCEPT ![b].pc = "remove", ![b].r = r]
        BY <2>1, <3>3 DEF FindCurrent
      <4>2. \A a \in Breakers : br'[a] = br[a] \/ br'[a].r = r
        BY <4>1 DEF BreakerState
      <4>3. QED
        BY <2>1, <3>1, <4>2 DEF FindCurrent
    <3>4. QED
      BY <3>2, <3>3
  <2>2. CASE RemoveCurrent(b)
    BY <2>2 DEF RemoveCurrent, IdleBreaker
  <2>3. CASE DowngradeCurrent(b)
    BY <2>3 DEF DowngradeCurrent, BreakerGoto
  <2>4. CASE ReleaseBroken(b)
    BY <2>4 DEF ReleaseBroken, BreakerGoto
  <2>5. CASE ReadBroken(b)
    BY <2>5 DEF ReadBroken, IdleBreaker
  <2>6. CASE WriteWaiting(b)
    BY <2>6 DEF WriteWaiting, BreakerGoto
  <2>7. CASE Requeue(b)
    BY <2>7 DEF Requeue, IdleBreaker
  <2>8. CASE MarkBroken(b)
    BY <2>8 DEF MarkBroken, IdleBreaker
  <2>9. QED
    BY <1>9, <2>1, <2>2, <2>3, <2>4, <2>5, <2>6, <2>7, <2>8 DEF Break
<1>10. ASSUME NEW b \in Breakers, NEW i \in Instances, BeginBreak(b, i)
      PROVE  FreshIsNowhere'
  BY <1>10 DEF BeginBreak
<1>11. ASSUME NEW i \in Instances, MarkFixed(i)
      PROVE  FreshIsNowhere'
  BY <1>11 DEF MarkFixed
<1>12. QED
  BY <1>1, <1>2, <1>3, <1>4, <1>5, <1>6, <1>7, <1>8, <1>9, <1>10, <1>11
     DEF Next, Begin

(* A removal goes through its steps in order: in particular the threads    *)
(* that expire or drop a reservation delete it before they free its        *)
(* experiment.                                                             *)
LEMMA RemovalsInOrder ==
  ASSUME ConstantsAssumption, TypeOK, FreshIsNowhere, RemovalOrder, Next
  PROVE  RemovalOrder'
<1> USE DEF TypeOK, KeyTypes, LabTypes, UpdaterTypes, RemoverTypes,
            BreakerTypes, keys, lab, RemovalOrder, FreshIsNowhere
<1>1. ASSUME NEW r \in Reservations, Reserve(r)
      PROVE  RemovalOrder'
  BY <1>1 DEF Reserve
<1>2. ASSUME NEW u \in Updaters, Update(u)
      PROVE  RemovalOrder'
  <2>1. UNCHANGED <<fresh, stored, rm>>
    BY <1>2 DEF Update, PickFirst, NobodyWaiting, ListFreeInstances,
                TryInstance, NoInstanceLeft, CheckExists, SetCurrent,
                AcquireResource, Unconfirm, AssignInstance, ReadReservation,
                DowngradeUnsuitable, ReleaseAcquired, Unassign,
                SetWaitingConfirmation, DequeueAndConfirm
  <2>2. QED
    BY <2>1, SMTT(30)
<1>3. ASSUME NEW t \in confirms, Confirm(t)
      PROVE  RemovalOrder'
  <2>1. UNCHANGED <<fresh, stored, rm>>
    BY <1>3 DEF Confirm, ReserveInLab, PutInitial, ReadToConfirm,
                WriteReserved, Step, End
  <2>2. QED
    BY <2>1
<1>4. ASSUME NEW t \in confirms, NEW b \in Breakers, LabFailsToReserve(t, b)
      PROVE  RemovalOrder'
  BY <1>4 DEF LabFailsToReserve, End
<1>5. ASSUME NEW c \in Removers, NEW r \in Reservations,
             BeginFinish(c, r) \/ BeginExpire(c, r) \/ BeginDrop(c, r) \/ BeginPoll(c, r)
      PROVE  RemovalOrder'
  <2>1. CASE BeginFinish(c, r)
    BY <2>1 DEF BeginFinish, IdleRemover
  <2>2. CASE BeginExpire(c, r)
    BY <2>2 DEF BeginExpire, IdleRemover
  <2>3. CASE BeginDrop(c, r)
    BY <2>3 DEF BeginDrop, IdleRemover
  <2>4. CASE BeginPoll(c, r)
    BY <2>4 DEF BeginPoll, IdleRemover
  <2>5. QED
    BY <1>5, <2>1, <2>2, <2>3, <2>4
<1>6. ASSUME NEW c \in Removers, Remove(c)
      PROVE  RemovalOrder'
  <2>1. CASE FindAggregator(c)
    BY <2>1 DEF FindAggregator, Goto
  <2>2. CASE ReadActive(c)
    BY <2>2 DEF ReadActive, IdleRemover
  <2>3. CASE Touch(c)
    BY <2>3 DEF Touch, IdleRemover
  <2>4. CASE ReadToClean(c)
    BY <2>4, SMTT(30) DEF ReadToClean
  <2>5. CASE DowngradeConfirmation(c)
    BY <2>5 DEF DowngradeConfirmation
  <2>6. CASE UnassignCleaned(c)
    BY <2>6 DEF UnassignCleaned, Goto
  <2>7. CASE DeleteReservation(c)
    BY <2>7 DEF DeleteReservation, Goto
  <2>8. CASE Unmap(c)
    BY <2>8 DEF Unmap, Goto, AfterDequeue, IdleRemover
  <2>9. CASE Dequeue(c)
    BY <2>9 DEF Dequeue, AfterDequeue, IdleRemover
  <2>10. CASE Purge(c)
    BY <2>10 DEF Purge, Goto
  <2>11. CASE EnqueueFree(c)
    BY <2>11 DEF EnqueueFree, IdleRemover
  <2>12. CASE ClearFinishing(c)
    BY <2>12 DEF ClearFinishing, IdleRemover
  <2>13. QED
    BY <1>6, <2>1, <2>2, <2>3, <2>4, <2>5, <2>6, <2>7, <2>8, <2>9, <2>10,
             <2>11, <2>12 DEF Remove
<1>7. ASSUME NEW t \in frees, Free(t)
      PROVE  RemovalOrder'
  <2>1. UNCHANGED <<fresh, stored, rm>>
    BY <1>7 DEF Free, FreeInLab, ConfirmDisposal
  <2>2. QED
    BY <2>1
<1>8. ASSUME NEW t \in frees, NEW b \in Breakers, LabFailsToFree(t, b)
      PROVE  RemovalOrder'
  BY <1>8 DEF LabFailsToFree
<1>9. ASSUME NEW b \in Breakers, Break(b)
      PROVE  RemovalOrder'
  <2>1. UNCHANGED <<fresh, stored, rm>>
    BY <1>9 DEF Break, FindCurrent, RemoveCurrent, DowngradeCurrent,
                ReleaseBroken, ReadBroken, WriteWaiting, Requeue, MarkBroken
  <2>2. QED
    BY <2>1
<1>10. ASSUME NEW b \in Breakers, NEW i \in Instances, BeginBreak(b, i)
      PROVE  RemovalOrder'
  BY <1>10 DEF BeginBreak
<1>11. ASSUME NEW i \in Instances, MarkFixed(i)
      PROVE  RemovalOrder'
  BY <1>11 DEF MarkFixed
<1>12. QED
  BY <1>1, <1>2, <1>3, <1>4, <1>5, <1>6, <1>7, <1>8, <1>9, <1>10, <1>11
     DEF Next, Begin

(* A usage is closed by the thread that frees the experiment, started by   *)
(* the remover that won the reservation, and nobody stores the reservation *)
(* again: its id is not drawn twice.                                       *)
LEMMA ClosedStaysPurged ==
  ASSUME ConstantsAssumption, TypeOK, FreshIsNowhere, RemovalOrder,
         ClosedIsPurged, Next
  PROVE  ClosedIsPurged'
<1> USE DEF TypeOK, KeyTypes, LabTypes, UpdaterTypes, RemoverTypes,
            BreakerTypes, keys, lab, RemovalOrder, FreshIsNowhere,
            ClosedIsPurged, BeingPurged
<1>1. ASSUME NEW r \in Reservations, Reserve(r)
      PROVE  ClosedIsPurged'
  BY <1>1 DEF Reserve
<1>2. ASSUME NEW u \in Updaters, Update(u)
      PROVE  ClosedIsPurged'
  <2>1. UNCHANGED <<stored, rm, frees, finished>>
    BY <1>2 DEF Update, PickFirst, NobodyWaiting, ListFreeInstances,
                TryInstance, NoInstanceLeft, CheckExists, SetCurrent,
                AcquireResource, Unconfirm, AssignInstance, ReadReservation,
                DowngradeUnsuitable, ReleaseAcquired, Unassign,
                SetWaitingConfirmation, DequeueAndConfirm
  <2>2. QED
    BY <2>1, SMTT(30)
<1>3. ASSUME NEW t \in confirms, Confirm(t)
      PROVE  ClosedIsPurged'
  <2>1. UNCHANGED <<stored, rm, frees, finished>>
    BY <1>3 DEF Confirm, ReserveInLab, PutInitial, ReadToConfirm,
                WriteReserved, Step, End
  <2>2. QED
    BY <2>1
<1>4. ASSUME NEW t \in confirms, NEW b \in Breakers, LabFailsToReserve(t, b)
      PROVE  ClosedIsPurged'
  BY <1>4 DEF LabFailsToReserve, End
<1>5. ASSUME NEW c \in Removers, NEW r \in Reservations,
             BeginFinish(c, r) \/ BeginExpire(c, r) \/ BeginDrop(c, r) \/ BeginPoll(c, r)
      PROVE  ClosedIsPurged'
  <2>1. CASE BeginFinish(c, r)
    BY <2>1 DEF BeginFinish, IdleRemover
  <2>2. CASE BeginExpire(c, r)
    BY <2>2 DEF BeginExpire, IdleRemover
  <2>3. CASE BeginDrop(c, r)
    BY <2>3 DEF BeginDrop, IdleRemover
  <2>4. CASE BeginPoll(c, r)
    BY <2>4 DEF BeginPoll, IdleRemover
  <2>5. QED
    BY <1>5, <2>1, <2>2, <2>3, <2>4
<1>6. ASSUME NEW c \in Removers, Remove(c)
      PROVE  ClosedIsPurged'
  <2>1. CASE FindAggregator(c)
    BY <2>1 DEF FindAggregator, Goto
  <2>2. CASE ReadActive(c)
    BY <2>2 DEF ReadActive, IdleRemover
  <2>3. CASE Touch(c)
    BY <2>3 DEF Touch, IdleRemover
  <2>4. CASE ReadToClean(c)
    BY <2>4 DEF ReadToClean
  <2>5. CASE DowngradeConfirmation(c)
    BY <2>5 DEF DowngradeConfirmation
  <2>6. CASE UnassignCleaned(c)
    BY <2>6 DEF UnassignCleaned, Goto
  <2>7. CASE DeleteReservation(c)
    BY <2>7 DEF DeleteReservation, Goto
  <2>8. CASE Unmap(c)
    BY <2>8 DEF Unmap, Goto, AfterDequeue, IdleRemover
  <2>9. CASE Dequeue(c)
    BY <2>9 DEF Dequeue, AfterDequeue, IdleRemover
  <2>10. CASE Purge(c)
    BY <2>10 DEF Purge, Goto
  <2>11. CASE EnqueueFree(c)
    BY <2>11 DEF EnqueueFree, IdleRemover, RemoverState
  <2>12. CASE ClearFinishing(c)
    BY <2>12 DEF ClearFinishing, IdleRemover
  <2>13. QED
    BY <1>6, <2>1, <2>2, <2>3, <2>4, <2>5, <2>6, <2>7, <2>8, <2>9, <2>10,
             <2>11, <2>12 DEF Remove
<1>7. ASSUME NEW t \in frees, Free(t)
      PROVE  ClosedIsPurged'
  <2>1. CASE FreeInLab(t)
    BY <2>1 DEF FreeInLab, FreeTask
  <2>2. CASE ConfirmDisposal(t)
    BY <2>2 DEF ConfirmDisposal
  <2>3. QED
    BY <1>7, <2>1, <2>2 DEF Free
<1>8. ASSUME NEW t \in frees, NEW b \in Breakers, LabFailsToFree(t, b)
      PROVE  ClosedIsPurged'
  BY <1>8 DEF LabFailsToFree
<1>9. ASSUME NEW b \in Breakers, Break(b)
      PROVE  ClosedIsPurged'
  <2>1. UNCHANGED <<stored, rm, frees, finished>>
    BY <1>9 DEF Break, FindCurrent, RemoveCurrent, DowngradeCurrent,
                ReleaseBroken, ReadBroken, WriteWaiting, Requeue, MarkBroken
  <2>2. QED
    BY <2>1
<1>10. ASSUME NEW b \in Breakers, NEW i \in Instances, BeginBreak(b, i)
      PROVE  ClosedIsPurged'
  BY <1>10 DEF BeginBreak
<1>11. ASSUME NEW i \in Instances, MarkFixed(i)
      PROVE  ClosedIsPurged'
  BY <1>11 DEF MarkFixed
<1>12. QED
  BY <1>1, <1>2, <1>3, <1>4, <1>5, <1>6, <1>7, <1>8, <1>9, <1>10, <1>11
     DEF Next, Begin


(* Together they are an invariant, whatever fails and whatever removes.    *)
LEMMA RemovalsAreSound == Spec => []RemovalInvariant
<1>1. Init => RemovalInvariant
  BY ConstantsAssumption
     DEF Init, RemovalInvariant, FreshIsNowhere, RemovalOrder, ClosedIsPurged,
         NoData, IdleUpdater, IdleRemover, IdleBreaker
<1>2. TypeOK /\ RemovalInvariant /\ [Next]_vars => RemovalInvariant'
  <2>1. CASE Next
    BY <2>1, ConstantsAssumption, FreshStaysNowhere, RemovalsInOrder,
       ClosedStaysPurged DEF RemovalInvariant
  <2>2. CASE UNCHANGED vars
    BY <2>2 DEF vars, keys, lab, RemovalInvariant, FreshIsNowhere,
                RemovalOrder, ClosedIsPurged, BeingPurged
  <2>3. QED
    BY <2>1, <2>2
<1>3. QED
  BY <1>1, <1>2, TypeCorrect, PTL DEF Spec

(* The usage of a reservation reaches the finished store only while the    *)
(* reservation is being removed or is gone, in every interleaving of the   *)
(* updaters, the confirmers, the removers and the breakers.                *)
THEOREM FinishedWhenOver == Spec => []FinishedIsOver
<1>1. RemovalInvariant => FinishedIsOver
  BY DEF RemovalInvariant, ClosedIsPurged, BeingPurged, FinishedIsOver, Alive
<1>2. QED
  BY <1>1, RemovalsAreSound, PTL

=============================================================================
