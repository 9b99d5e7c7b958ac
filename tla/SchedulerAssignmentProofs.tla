---------------------- MODULE SchedulerAssignmentProofs ----------------------
(***************************************************************************)
(* The aggregator implements SingleAssignment: each of its steps is one of *)
(* the steps that SingleAssignment allows to one reservation, or changes   *)
(* nothing that SingleAssignment sees.                                     *)
(***************************************************************************)
EXTENDS SchedulerAggregatorProofs

(* What is seen of a reservation.                                          *)
ViewSame(r) ==
  /\ CompetesIn(r)' = CompetesIn(r) /\ AssignedTo(r)' = AssignedTo(r)
  /\ IsUsed(r)' <=> IsUsed(r)
  /\ HasEnded(r)' <=> HasEnded(r)

(* Nothing is seen of a step.                                              *)
LEMMA NothingSeen ==
  ASSUME \A r \in Reservations : ViewSame(r)
  PROVE  UNCHANGED Assignment!vars
  BY DEF ViewSame, Assignment!vars

(* The reservation enters a queue.                                         *)
LEMMA EnterSeen ==
  ASSUME NEW y \in Reservations, \A r \in Reservations \ {y} : ViewSame(r), NEW s \in Schedulers,
         ~HasEnded(y), ~IsUsed(y), s \notin CompetesIn(y), ~HasEnded(y)', ~IsUsed(y)',
         CompetesIn(y)' = CompetesIn(y) \cup {s}, AssignedTo(y)' = AssignedTo(y)
  PROVE  Assignment!Next
<1>1. Assignment!Enter(y, s)
  BY DEF ViewSame, Assignment!Enter
<1>2. QED
  BY <1>1 DEF Assignment!Next

(* It is promoted in one of its queues.                                    *)
LEMMA PromoteSeen ==
  ASSUME NEW y \in Reservations, \A r \in Reservations \ {y} : ViewSame(r), NEW s \in Schedulers,
         s \in CompetesIn(y), AssignedTo(y) = NoScheduler, AssignedTo(y)' = s,
         CompetesIn(y)' = CompetesIn(y), IsUsed(y)' <=> IsUsed(y), HasEnded(y)' <=> HasEnded(y)
  PROVE  Assignment!Next
<1>1. Assignment!Promote(y, s)
  BY DEF ViewSame, Assignment!Promote
<1>2. QED
  BY <1>1 DEF Assignment!Next

(* It leaves another one.                                                  *)
LEMMA LeaveSeen ==
  ASSUME NEW y \in Reservations, \A r \in Reservations \ {y} : ViewSame(r), NEW s \in Schedulers,
         s \in CompetesIn(y), AssignedTo(y) \notin {s, NoScheduler}, AssignedTo(y)' = AssignedTo(y),
         CompetesIn(y)' = CompetesIn(y) \ {s}, IsUsed(y)' <=> IsUsed(y),
         HasEnded(y)' <=> HasEnded(y)
  PROVE  Assignment!Next
<1>1. Assignment!Leave(y, s)
  BY DEF ViewSame, Assignment!Leave
<1>2. QED
  BY <1>1 DEF Assignment!Next

(* It is confirmed where it was promoted.                                  *)
LEMMA ConfirmSeen ==
  ASSUME NEW y \in Reservations, \A r \in Reservations \ {y} : ViewSame(r),
         AssignedTo(y) # NoScheduler, CompetesIn(y) = {AssignedTo(y)}, ~IsUsed(y), IsUsed(y)',
         AssignedTo(y)' = AssignedTo(y), CompetesIn(y)' = CompetesIn(y),
         HasEnded(y)' <=> HasEnded(y)
  PROVE  Assignment!Next
<1>1. Assignment!Confirm(y)
  BY DEF ViewSame, Assignment!Confirm
<1>2. QED
  BY <1>1 DEF Assignment!Next

(* It is over.                                                             *)
LEMMA EndSeen ==
  ASSUME NEW y \in Reservations, \A r \in Reservations \ {y} : ViewSame(r),
         ~HasEnded(y), HasEnded(y)', ~IsUsed(y)', CompetesIn(y)' = {}, AssignedTo(y)' = NoScheduler
  PROVE  Assignment!Next
<1>1. Assignment!End(y)
  BY DEF ViewSame, Assignment!End
<1>2. QED
  BY <1>1 DEF Assignment!Next

-----------------------------------------------------------------------------
(* What SingleAssignment sees, from the data.                              *)

(* Of a reservation whose data there do not change.                        *)
LEMMA SameData ==
  ASSUME NEW r \in Reservations, r \in fresh <=> r \in fresh', assoc'[r] = assoc[r],
         \A s \in Schedulers : pqdata'[s][r] = pqdata[s][r], Alive(r)' <=> Alive(r)
  PROVE  ViewSame(r)
<1>1. PromotedIn(r)' = PromotedIn(r)
  BY DEF PromotedIn
<1>2. QED
  BY <1>1 DEF ViewSame, CompetesIn, AssignedTo, IsUsed, HasEnded

(* Of a reservation that is not alive.                                     *)
LEMMA SameDead ==
  ASSUME NEW r \in Reservations, r \in fresh <=> r \in fresh', ~Alive(r), ~Alive(r)'
  PROVE  ViewSame(r)
  BY DEF ViewSame, CompetesIn, AssignedTo, IsUsed, HasEnded

(* It is assigned to the only scheduler that promotes it.                  *)
LEMMA AssignedWherePromoted ==
  ASSUME NEW r \in Reservations, NEW s \in Schedulers, Alive(r), Active(pqdata[s][r]), Once(r)
  PROVE  AssignedTo(r) = s
<1>1. PromotedIn(r) = {s}
  BY DEF PromotedIn, Once
<1>2. QED
  BY <1>1 DEF AssignedTo

LEMMA AssignedWherePromotedNext ==
  ASSUME NEW r \in Reservations, NEW s \in Schedulers, Alive(r)', Active(pqdata[s][r])', Once(r)'
  PROVE  AssignedTo(r)' = s
<1>1. PromotedIn(r)' = {s}
  BY DEF PromotedIn, Once
<1>2. QED
  BY <1>1 DEF AssignedTo

(* Who is being made is alive, and not used yet.                           *)
LEMMA ReservedLater ==
  ASSUME IInv, NEW t \in Threads, NEW y \in Reservations, Reserving(t, y)
  PROVE  Alive(y) /\ y \in stored /\ Alone(t, y)
<1>1. Alone(t, y)
  BY DEF IInv, Good, ReservesAlone
<1>2. QED
  BY <1>1 DEF Alone, Alive, Removing, Reserving

-----------------------------------------------------------------------------
(* Steps of threads change what is removed only when a removal ends.       *)

Moves(t) ==
  /\ \A z \in Threads \ {t} : thr'[z] = thr[z]
  /\ \/ thr'[t].op = thr[t].op /\ thr'[t].r = thr[t].r
     \/ thr'[t].op = "none" /\ thr[t].op \notin {"finish", "expire"}

LEMMA BecomesMoves ==
  ASSUME NEW t \in Threads, NEW op, NEW pc, NEW r, NEW todo, NEW q, NEW s,
         Becomes(t, op, pc, r, todo, q, s),
         \/ op = thr[t].op /\ r = thr[t].r
         \/ op = "none" /\ thr[t].op \notin {"finish", "expire"}
  PROVE  Moves(t)
  BY DEF Becomes, Moves

LEMMA GotoMoves ==
  ASSUME ThreadTypes, NEW t \in Threads
  PROVE  /\ \A pc \in Pcs : Goto(t, pc) => Moves(t)
         /\ \A pc \in Pcs, todo \in SUBSET Schedulers : GotoWith(t, pc, todo) => Moves(t)
         /\ \A pc \in Pcs, q \in Schedulers : GotoNext(t, pc, q) => Moves(t)
         /\ \A pc \in Pcs, won \in BOOLEAN :
              GotoWon(t, pc, won) /\ thr[t].q \in Schedulers => Moves(t)
         /\ End(t) /\ thr[t].op \notin {"finish", "expire"} => Moves(t)
<1> USE DEF ThreadTypes
<1>1. ASSUME NEW pc \in Pcs, Goto(t, pc)
      PROVE  Moves(t)
  BY <1>1, GotoBecomes, BecomesMoves
<1>2. ASSUME NEW pc \in Pcs, NEW todo \in SUBSET Schedulers, GotoWith(t, pc, todo)
      PROVE  Moves(t)
  BY <1>2, GotoWithBecomes, BecomesMoves
<1>3. ASSUME NEW pc \in Pcs, NEW q \in Schedulers, GotoNext(t, pc, q)
      PROVE  Moves(t)
  BY <1>3, GotoNextBecomes, BecomesMoves
<1>4. ASSUME NEW pc \in Pcs, NEW won \in BOOLEAN, GotoWon(t, pc, won), thr[t].q \in Schedulers
      PROVE  Moves(t)
  BY <1>4, GotoWonBecomes, BecomesMoves
<1>5. ASSUME End(t), thr[t].op \notin {"finish", "expire"}
      PROVE  Moves(t)
  BY <1>5, EndBecomes, BecomesMoves
<1>6. QED
  BY <1>1, <1>2, <1>3, <1>4, <1>5

LEMMA MovesAlive ==
  ASSUME NEW t \in Threads, Moves(t), NEW r \in Reservations, r \in stored <=> r \in stored'
  PROVE  Alive(r)' <=> Alive(r)
  BY DEF Moves, Alive, Removing

LEMMA WorkMoves ==
  ASSUME IInv, NEW t \in Threads, Work(t), ~Purge(t)
  PROVE  Moves(t) /\ UNCHANGED <<fresh, stored>>
<1> USE DEF data
<1>1. ThreadTypes /\ DataTypes /\ WellFormed(thr[t].op, thr[t].pc, thr[t].r, thr[t].q, thr[t].s)
      /\ thr[t].todo \in SUBSET Schedulers
  BY Types DEF IInv, ThreadTypes, ThreadState
<1>2. thr[t].pc # "idle" => thr[t].r \in Reservations /\ assoc[thr[t].r] \in SUBSET Schedulers
  BY <1>1 DEF WellFormed, DataTypes
<1>3. CASE LabDone(t)
  BY <1>1, <1>3, GotoMoves DEF LabDone, WellFormed, Pcs
<1>4. CASE Lock(t)
  BY <1>1, <1>2, <1>4, GotoMoves DEF Lock, UseLock, Pcs
<1>5. CASE NextScheduler(t)
  BY <1>1, <1>5, GotoMoves DEF NextScheduler, Visit, Pcs
<1>6. CASE Look(t)
  <2>1. thr[t].q \in Schedulers
    BY <1>1, <1>6 DEF Look, WellFormed
  <2>2. CASE Goto(t, "next")
    BY <1>1, <1>6, <2>2, GotoMoves DEF Look, Pcs
  <2>3. CASE thr' = [thr EXCEPT ![t].pc = "assign", ![t].s = thr[t].q]
    BY <1>1, <1>6, <2>1, <2>3, FoundBecomes, BecomesMoves DEF Look, ThreadTypes
  <2>4. QED
    BY <1>6, <2>2, <2>3 DEF Look
<1>7. CASE Assign(t)
  <2>1. assoc[thr[t].r] \ {thr[t].s} \in SUBSET Schedulers
    BY <1>2, <1>7 DEF Assign
  <2>2. QED
    BY <1>1, <1>7, <2>1, GotoMoves DEF Assign, Pcs
<1>8. CASE Each(t)
  <2>1. CASE EachDone(t)
    BY <1>1, <1>8, <2>1, GotoMoves DEF Each, EachDone, Pcs
  <2>2. ASSUME NEW q \in thr[t].todo, FinishIn(t, q)
        PROVE  Moves(t)
    <3>1. thr[t].todo \ {q} \in SUBSET Schedulers
      BY <1>1
    <3>2. QED
      BY <1>1, <2>2, <3>1, GotoMoves DEF FinishIn, Pcs
  <2>3. QED
    BY <1>8, <2>1, <2>2 DEF Each
<1>9. CASE Clean(t)
  <2>1. PICK pc \in {"delete", "each"}, won \in BOOLEAN : GotoWon(t, pc, won)
    BY <1>9 DEF Clean
  <2>2. QED
    BY <1>1, <1>9, <2>1, GotoMoves DEF Clean, WellFormed, Pcs
<1>10. CASE Delete(t)
  <2>1. Goto(t, "purge") \/ GotoWon(t, "each", FALSE)
    BY <1>10 DEF Delete, AfterDelete
  <2>2. QED
    BY <1>1, <1>10, <2>1, GotoMoves DEF Delete, WellFormed, Pcs
<1>11. CASE Unlock(t)
  BY <1>1, <1>11, GotoMoves DEF Unlock, WellFormed, Pcs
<1>12. CASE ListToConfirm(t)
  BY <1>1, <1>2, <1>12, GotoMoves DEF ListToConfirm, Pcs
<1>13. CASE WriteReserved(t)
  <2>1. CASE End(t)
    BY <1>1, <1>13, <2>1, GotoMoves DEF WriteReserved, WellFormed
  <2>2. ASSUME NEW q \in thr[t].todo, GotoWith(t, "write", thr[t].todo \ {q})
        PROVE  Moves(t)
    <3>1. thr[t].todo \ {q} \in SUBSET Schedulers
      BY <1>1
    <3>2. QED
      BY <1>1, <2>2, <3>1, GotoMoves DEF Pcs
  <2>3. QED
    BY <1>13, <2>1, <2>2 DEF WriteReserved
<1>14. QED
  BY <1>3, <1>4, <1>5, <1>6, <1>7, <1>8, <1>9, <1>10, <1>11, <1>12, <1>13 DEF Work

-----------------------------------------------------------------------------
(* Steps of threads.                                                       *)

Simulated == Assignment!Next \/ UNCHANGED Assignment!vars

(* Most steps change nothing that is seen.                                 *)
LEMMA QuietWork ==
  ASSUME IInv, NEW t \in Threads, Work(t), ~Purge(t), UNCHANGED <<assoc, pqdata>>
  PROVE  Simulated
<1>1. Moves(t) /\ UNCHANGED <<fresh, stored>>
  BY WorkMoves
<1>2. ASSUME NEW r \in Reservations
      PROVE  ViewSame(r)
  BY <1>1, MovesAlive, SameData
<1>3. QED
  BY <1>2, NothingSeen DEF Simulated

(* What is not seen of the others, if their data stay.                     *)
LEMMA OthersUnseen ==
  ASSUME IInv, NEW t \in Threads, Work(t), ~Purge(t), NEW y \in Reservations,
         \A r \in Reservations \ {y} :
           assoc'[r] = assoc[r] /\ \A s \in Schedulers : pqdata'[s][r] = pqdata[s][r]
  PROVE  /\ \A r \in Reservations \ {y} : ViewSame(r)
         /\ Alive(y)' <=> Alive(y)
         /\ ~Alive(y) => ViewSame(y)
         /\ UNCHANGED <<fresh, stored>>
<1>1. Moves(t) /\ UNCHANGED <<fresh, stored>>
  BY WorkMoves
<1>2. \A r \in Reservations : Alive(r)' <=> Alive(r)
  BY <1>1, MovesAlive
<1>3. QED
  BY <1>1, <1>2, SameData, SameDead

(* A step that leaves the reservation alive, promoted where it was.        *)
LEMMA StillAssigned ==
  ASSUME NEW y \in Reservations, Alive(y), Alive(y)',
         \A s \in Schedulers : Active(pqdata[s][y])' <=> Active(pqdata[s][y])
  PROVE  /\ AssignedTo(y)' = AssignedTo(y)
         /\ CompetesIn(y) = assoc[y] /\ CompetesIn(y)' = assoc'[y]
         /\ ~HasEnded(y) /\ ~HasEnded(y)'
<1>1. PromotedIn(y)' = PromotedIn(y)
  BY DEF PromotedIn
<1>2. QED
  BY <1>1 DEF AssignedTo, CompetesIn, HasEnded

LEMMA JoinSeen ==
  ASSUME IInv, NEW t \in Threads, NEW y \in Reservations, thr[t].r = y, thr[t].op = "reserve",
         NextScheduler(t), NEW q \in thr[t].todo, Join(q, y)
  PROVE  Simulated
<1>1. Alive(y) /\ y \in stored /\ Alone(t, y) /\ thr[t].pc = "next" /\ DataTypes
      /\ q \in Schedulers
  BY ReservedLater, Types DEF Reserving, NextScheduler, IInv, ThreadTypes, ThreadState
<1>2. q \notin assoc[y] /\ \A s \in Schedulers : pqdata[s][y] # "reserved"
  BY <1>1 DEF Alone
<1>3. ~Active(pqdata[q][y])
  BY <1>1, <1>2 DEF IInv, Good, Consistent, PromotedIsCurrent
<1>4. /\ \A x \in Reservations : assoc'[x] = IF x = y THEN assoc[x] \cup {q} ELSE assoc[x]
      /\ \A s \in Schedulers, x \in Reservations :
           pqdata'[s][x] = IF s = q /\ x = y THEN "waiting" ELSE pqdata[s][x]
  BY <1>1 DEF Join, DataTypes
<1>5. Work(t) /\ ~Purge(t)
  BY <1>1 DEF Work, Purge
<1>6. (\A r \in Reservations \ {y} : ViewSame(r)) /\ Alive(y)'
  BY <1>1, <1>4, <1>5, OthersUnseen
<1>7. \A s \in Schedulers : Active(pqdata[s][y])' <=> Active(pqdata[s][y])
  BY <1>3, <1>4 DEF Active
<1>8. ~IsUsed(y) /\ ~IsUsed(y)'
  BY <1>2, <1>4 DEF IsUsed
<1>9. QED
  BY <1>1, <1>2, <1>4, <1>6, <1>7, <1>8, StillAssigned, EnterSeen DEF Simulated

LEMMA EachSeen ==
  ASSUME IInv, NEW t \in Threads, Each(t)
  PROVE  Simulated
<1>y. PICK y \in Reservations : y = thr[t].r
  BY WorkingThread DEF Each
<1>1. thr[t].pc = "each" /\ UNCHANGED pqdata /\ DataTypes /\ Work(t) /\ ~Purge(t)
  BY Types DEF Each, IInv, queues, Work, Purge
<1>2. CASE UNCHANGED assoc
  BY <1>1, <1>2, QuietWork
<1>3. ASSUME NEW q \in thr[t].todo, assoc' = [assoc EXCEPT ![y] = @ \ {q}]
      PROVE  Simulated
  <2>1. q \in Schedulers
    BY Types, <1>3 DEF IInv, ThreadTypes, ThreadState
  <2>2. \A x \in Reservations : assoc'[x] = IF x = y THEN assoc[x] \ {q} ELSE assoc[x]
    BY <1>1, <1>3 DEF DataTypes
  <2>3. /\ \A r \in Reservations \ {y} : ViewSame(r)
        /\ Alive(y)' <=> Alive(y)
        /\ ~Alive(y) => ViewSame(y)
    BY <1>1, <2>2, OthersUnseen
  <2>4. CASE ~Alive(y)
    BY <2>3, <2>4, NothingSeen DEF Simulated
  <2>5. CASE Alive(y)
    <3>1. Consistent(y)
      BY <2>5 DEF IInv, Good
    <3>2. PICK s \in Schedulers : s = thr[t].s /\ Active(pqdata[s][y]) /\ s # q
      BY <1>y, <1>1, <1>3, <3>1 DEF Consistent, Assigned, Assigning
    <3>3. AssignedTo(y) = s
      BY <2>5, <3>1, <3>2, AssignedWherePromoted DEF Consistent
    <3>4. /\ AssignedTo(y)' = AssignedTo(y) /\ ~HasEnded(y) /\ ~HasEnded(y)'
          /\ CompetesIn(y) = assoc[y] /\ CompetesIn(y)' = assoc'[y]
      BY <1>1, <2>3, <2>5, StillAssigned
    <3>5. IsUsed(y)' <=> IsUsed(y)
      BY <1>1, <2>3, <2>5 DEF IsUsed
    <3>6. CASE q \in assoc[y]
      <4>1. NoScheduler # s
        BY AggregatorAssumption DEF AggregatorAssumption
      <4>2. QED
        BY <2>1, <2>2, <2>3, <3>2, <3>3, <3>4, <3>5, <3>6, <4>1, LeaveSeen DEF Simulated
    <3>7. CASE q \notin assoc[y]
      <4>1. ViewSame(y)
        BY <2>2, <3>4, <3>5, <3>7 DEF ViewSame
      <4>2. QED
        BY <2>3, <4>1, NothingSeen DEF Simulated
    <3>8. QED
      BY <3>6, <3>7
  <2>6. QED
    BY <2>4, <2>5
<1>4. QED
  BY <1>y, <1>2, <1>3 DEF Each

LEMMA DeleteSeen ==
  ASSUME IInv, NEW t \in Threads, Delete(t)
  PROVE  Simulated
<1>y. PICK y \in Reservations, q \in Schedulers : y = thr[t].r /\ q = thr[t].q
  BY WorkingThread DEF Delete, ThreadTypes, WellFormed
<1>1. /\ thr[t].pc = "delete" /\ UNCHANGED assoc /\ DataTypes /\ Work(t) /\ ~Purge(t)
      /\ pqdata' = [pqdata EXCEPT ![q][y] = "absent"]
  BY <1>y, Types DEF Delete, IInv, shared, Work, Purge
<1>2. \A s \in Schedulers, x \in Reservations :
        pqdata'[s][x] = IF s = q /\ x = y THEN "absent" ELSE pqdata[s][x]
  BY <1>1 DEF DataTypes
<1>3. /\ \A r \in Reservations \ {y} : ViewSame(r)
      /\ Alive(y)' <=> Alive(y)
      /\ ~Alive(y) => ViewSame(y)
  BY <1>1, <1>2, OthersUnseen
<1>4. ASSUME Alive(y)
      PROVE  ViewSame(y)
  <2>1. Consistent(y)
    BY <1>4 DEF IInv, Good
  <2>2. ~Active(pqdata[q][y])
    BY <1>y, <1>1, <2>1 DEF Consistent, Assigned, Assigning, PromotedIsCurrent
  <2>3. \A s \in Schedulers : Active(pqdata[s][y])' <=> Active(pqdata[s][y])
    BY <1>2, <2>2 DEF Active
  <2>4. IsUsed(y)' <=> IsUsed(y)
    BY <1>2, <1>3, <1>4, <2>2 DEF IsUsed, Active
  <2>5. QED
    BY <1>1, <1>3, <1>4, <2>3, <2>4, StillAssigned DEF ViewSame
<1>5. QED
  BY <1>3, <1>4, NothingSeen DEF Simulated

LEMMA LookSeen ==
  ASSUME IInv, NEW t \in Threads, Look(t)
  PROVE  Simulated
<1>y. PICK y \in Reservations, q \in Schedulers : y = thr[t].r /\ q = thr[t].q
  BY WorkingThread DEF Look, ThreadTypes, WellFormed
<1>1. UNCHANGED assoc /\ DataTypes /\ Work(t) /\ ~Purge(t)
  BY Types DEF Look, IInv, shared, Work, Purge
<1>2. CASE UNCHANGED pqdata
  BY <1>1, <1>2, QuietWork
<1>3. CASE y \notin accessed
  <2>1. pqdata' = [pqdata EXCEPT ![q][y] = "absent"]
    BY <1>y, <1>3 DEF Look
  <2>2. \A s \in Schedulers, x \in Reservations :
          pqdata'[s][x] = IF s = q /\ x = y THEN "absent" ELSE pqdata[s][x]
    BY <1>1, <2>1 DEF DataTypes
  <2>3. ~Alive(y)
    BY <1>3 DEF IInv, Good, StoredIsAccessed, Alive
  <2>4. \A r \in Reservations : ViewSame(r)
    BY <1>1, <2>2, <2>3, OthersUnseen
  <2>5. QED
    BY <2>4, NothingSeen DEF Simulated
<1>4. QED
  BY <1>y, <1>2, <1>3 DEF Look

LEMMA WriteReservedSeen ==
  ASSUME IInv, NEW t \in Threads, WriteReserved(t)
  PROVE  Simulated
<1>y. PICK y \in Reservations : y = thr[t].r
  BY WorkingThread DEF WriteReserved
<1>1. /\ thr[t].pc = "write" /\ UNCHANGED assoc /\ Work(t) /\ ~Purge(t)
      /\ DataTypes /\ ThreadTypes /\ thr[t].op = "confirm"
  BY Types DEF WriteReserved, IInv, shared, Work, Purge, ThreadTypes, WellFormed
<1>2. CASE UNCHANGED pqdata
  BY <1>1, <1>2, QuietWork
<1>3. ASSUME NEW q \in thr[t].todo,
             pqdata' = [pqdata EXCEPT ![q][y] = IF @ = "absent" THEN @ ELSE "reserved"]
      PROVE  Simulated
  <2>1. q \in Schedulers
    BY <1>1, <1>3 DEF ThreadTypes, ThreadState
  <2>2. \A s \in Schedulers, x \in Reservations :
          pqdata'[s][x] = IF s = q /\ x = y
                          THEN IF pqdata[q][y] = "absent" THEN "absent" ELSE "reserved"
                          ELSE pqdata[s][x]
    <3>1. PICK v \in {"absent", "waiting", "confirming", "reserved"} :
            /\ v = IF pqdata[q][y] = "absent" THEN "absent" ELSE "reserved"
            /\ pqdata' = [pqdata EXCEPT ![q][y] = v]
      BY <1>1, <1>3, <2>1 DEF DataTypes
    <3>2. QED
      BY <1>1, <2>1, <3>1 DEF DataTypes
  <2>3. /\ \A r \in Reservations \ {y} : ViewSame(r)
        /\ Alive(y)' <=> Alive(y)
        /\ ~Alive(y) => ViewSame(y)
    BY <1>1, <2>2, OthersUnseen
  <2>4. CASE ~Alive(y)
    BY <2>3, <2>4, NothingSeen DEF Simulated
  <2>5. CASE Alive(y)
    <3>1. Consistent(y)
      BY <2>5 DEF IInv, Good
    <3>2. Active(pqdata[q][y]) /\ assoc[y] = {q}
      BY <1>y, <1>1, <1>3, <3>1 DEF Consistent, Assigned, Assigning, Confirming
    <3>3. AssignedTo(y) = q
      BY <2>1, <2>5, <3>1, <3>2, AssignedWherePromoted DEF Consistent
    <3>4. \A s \in Schedulers : Active(pqdata[s][y])' <=> Active(pqdata[s][y])
      BY <2>2, <3>2 DEF Active
    <3>5. /\ AssignedTo(y)' = AssignedTo(y) /\ ~HasEnded(y) /\ ~HasEnded(y)'
          /\ CompetesIn(y) = assoc[y] /\ CompetesIn(y)' = assoc'[y]
      BY <2>3, <2>5, <3>4, StillAssigned
    <3>6. IsUsed(y)'
      BY <2>1, <2>2, <2>3, <2>5, <3>2 DEF IsUsed, Active
    <3>7. CASE IsUsed(y)
      <4>1. ViewSame(y)
        BY <1>1, <3>5, <3>6, <3>7 DEF ViewSame
      <4>2. QED
        BY <2>3, <4>1, NothingSeen DEF Simulated
    <3>8. CASE ~IsUsed(y)
      <4>1. q # NoScheduler
        BY <2>1, AggregatorAssumption DEF AggregatorAssumption
      <4>2. QED
        BY <1>1, <2>3, <3>2, <3>3, <3>5, <3>6, <3>8, <4>1, ConfirmSeen DEF Simulated
    <3>9. QED
      BY <3>7, <3>8
  <2>6. QED
    BY <2>4, <2>5
<1>4. QED
  BY <1>y, <1>2, <1>3 DEF WriteReserved

LEMMA PurgeSeen ==
  ASSUME IInv, NEW t \in Threads, Purge(t)
  PROVE  Simulated
<1>y. PICK y \in Reservations : y = thr[t].r
  BY WorkingThread DEF Purge
<1>1. /\ thr[t].pc = "purge" /\ UNCHANGED <<fresh, pqdata>> /\ DataTypes /\ ThreadTypes
      /\ thr[t].op \in {"finish", "expire"} /\ stored' = stored \ {y} /\ End(t)
      /\ assoc' = [assoc EXCEPT ![y] = {}]
  BY <1>y, Types DEF Purge, IInv, queues, ThreadTypes, WellFormed
<1>2. ~Alive(y) /\ ~Alive(y)'
  BY <1>y, <1>1 DEF Alive, Removing
<1>3. Becomes(t, "none", "idle", NoReservation, {}, NoScheduler, NoScheduler)
  BY <1>1, EndBecomes DEF ThreadTypes
<1>4. ASSUME NEW r \in Reservations \ {y}
      PROVE  ViewSame(r)
  <2>1. \A z \in Threads : Removing(z, r)' <=> Removing(z, r)
    BY <1>y, <1>3, <1>4 DEF Removing, Becomes
  <2>2. Alive(r)' <=> Alive(r)
    BY <1>1, <1>4, <2>1 DEF Alive
  <2>3. QED
    BY <1>1, <1>4, <2>2, SameData DEF DataTypes
<1>5. ViewSame(y)
  BY <1>1, <1>2, SameDead
<1>6. QED
  BY <1>4, <1>5, NothingSeen DEF Simulated

LEMMA WorkSeen ==
  ASSUME IInv, NEW t \in Threads, Work(t)
  PROVE  Simulated
<1>1. CASE LabDone(t) \/ Lock(t) \/ Assign(t) \/ Clean(t) \/ Unlock(t) \/ ListToConfirm(t)
  <2>1. UNCHANGED <<assoc, pqdata>> /\ ~Purge(t)
    BY <1>1 DEF LabDone, Lock, Assign, Clean, Unlock, ListToConfirm, Purge, shared, queues
  <2>2. QED
    BY <2>1, QuietWork
<1>2. CASE NextScheduler(t)
  <2>1. CASE UNCHANGED <<assoc, queues>>
    <3>1. ~Purge(t)
      BY <1>2 DEF NextScheduler, Purge
    <3>2. QED
      BY <2>1, <3>1, QuietWork DEF queues
  <2>2. ASSUME NEW q \in thr[t].todo, thr[t].op = "reserve", Join(q, thr[t].r)
        PROVE  Simulated
    <3>1. thr[t].r \in Reservations
      BY <1>2, WorkingThread DEF NextScheduler
    <3>2. QED
      BY <1>2, <2>2, <3>1, JoinSeen
  <2>3. QED
    BY <1>2, <2>1, <2>2 DEF NextScheduler, Visit
<1>3. QED
  BY <1>1, <1>2, EachSeen, DeleteSeen, LookSeen, WriteReservedSeen, PurgeSeen DEF Work

-----------------------------------------------------------------------------
(* The other steps.                                                        *)

(* Who is removed stays the same, when no thread starts to remove or ends. *)
LEMMA QuietStep ==
  ASSUME UNCHANGED <<fresh, stored, assoc, pqdata>>,
         \A t \in Threads, r \in Reservations : Removing(t, r)' <=> Removing(t, r)
  PROVE  Simulated
<1>1. ASSUME NEW r \in Reservations
      PROVE  ViewSame(r)
  <2>1. Alive(r)' <=> Alive(r)
    BY DEF Alive
  <2>2. QED
    BY <2>1, SameData
<1>2. QED
  BY <1>1, NothingSeen DEF Simulated

LEMMA SetConfirmingSeen ==
  ASSUME IInv, IInv', NEW u \in Updaters, SetConfirming(u)
  PROVE  Simulated
<1> USE DEF data, shared
<1>y. PICK y \in Reservations, q \in Schedulers : y = up[u].r /\ q = Queue(u)
  BY Working DEF SetConfirming
<1>1. /\ up[u].pc = "set" /\ UNCHANGED <<data, shared, thr>> /\ DataTypes
      /\ pqdata' = [pqdata EXCEPT ![q][y] = "confirming"]
  BY <1>y, Types DEF SetConfirming, IInv
<1>2. \A s \in Schedulers, x \in Reservations :
        pqdata'[s][x] = IF s = q /\ x = y THEN "confirming" ELSE pqdata[s][x]
  BY <1>1 DEF DataTypes
<1>3. \A r \in Reservations : Alive(r)' <=> Alive(r)
  BY <1>1 DEF Alive, Removing
<1>4. \A r \in Reservations \ {y} : ViewSame(r)
  BY <1>1, <1>2, <1>3, SameData
<1>5. CASE ~Alive(y)
  <2>1. ViewSame(y)
    BY <1>1, <1>3, <1>5, SameDead
  <2>2. QED
    BY <1>4, <2>1, NothingSeen DEF Simulated
<1>6. CASE Alive(y)
  <2>1. ~Promoted(y) /\ q \in assoc[y]
    BY <1>y, <1>1, <1>6 DEF IInv, Good, Consistent, Owned, Owner
  <2>2. AssignedTo(y) = NoScheduler /\ ~IsUsed(y)
    BY <2>1 DEF AssignedTo, PromotedIn, Promoted, IsUsed, Active
  <2>3. Alive(y)' /\ Once(y)' /\ Active(pqdata[q][y])'
    BY <1>2, <1>3, <1>6 DEF IInv, Good, Consistent, Active
  <2>4. AssignedTo(y)' = q
    BY <2>3, AssignedWherePromotedNext
  <2>5. ~IsUsed(y)'
    BY <1>2, <2>1 DEF IsUsed, Promoted, Active
  <2>6. /\ CompetesIn(y) = assoc[y] /\ CompetesIn(y)' = assoc[y]
        /\ ~HasEnded(y) /\ ~HasEnded(y)'
    BY <1>1, <1>6, <2>3 DEF CompetesIn, HasEnded
  <2>7. QED
    BY <1>4, <2>1, <2>2, <2>4, <2>5, <2>6, PromoteSeen DEF Simulated
<1>7. QED
  BY <1>5, <1>6

LEMMA UpdateSeen ==
  ASSUME IInv, IInv', NEW u \in Updaters, Update(u)
  PROVE  Simulated
<1> USE DEF data, shared, queues
<1>1. CASE Pick(u) \/ EndRun(u) \/ CheckExists(u) \/ ConfirmCurrent(u) \/ Acquire(u) \/ Read(u)
  <2>1. UNCHANGED <<fresh, stored, assoc, pqdata, thr>>
    BY <1>1 DEF Pick, EndRun, CheckExists, ConfirmCurrent, Acquire, Read
  <2>2. QED
    BY <2>1, QuietStep DEF Removing
<1>2. CASE Dequeue(u)
  <2>1. PICK y \in Reservations : y = up[u].r
    BY <1>2, Working DEF Dequeue
  <2>2. PICK t \in Threads : t = <<y, u>>
    BY DEF Threads, Confirmers
  <2>3. /\ UNCHANGED <<fresh, stored, assoc, pqdata>> /\ thr[t].pc = "idle"
        /\ Start(t, "confirm", "lab", y, {}, NoScheduler, Queue(u))
    BY <1>2, <2>1, <2>2 DEF Dequeue
  <2>4. ThreadTypes /\ thr[t].op = "none" /\ Queue(u) \in Schedulers
    BY <2>3, Types DEF IInv, ThreadTypes, WellFormed, Queue, Updaters
  <2>5. Becomes(t, "confirm", "lab", y, {}, NoScheduler, Queue(u))
    BY <2>3, <2>4, StartBecomes DEF ThreadTypes, Pcs, Ops
  <2>6. \A z \in Threads, r \in Reservations : Removing(z, r)' <=> Removing(z, r)
    BY <2>4, <2>5 DEF Removing, Becomes
  <2>7. QED
    BY <2>3, <2>6, QuietStep
<1>3. QED
  BY <1>1, <1>2, SetConfirmingSeen DEF Update

LEMMA BeginReserveSeen ==
  ASSUME IInv, IInv', NEW w \in Workers, NEW y \in Reservations, BeginReserve(w, y)
  PROVE  Simulated
<1> USE DEF shared, queues
<1>1. /\ w \in Threads /\ thr[w].r = NoReservation /\ thr[w].op = "none" /\ ThreadTypes
      /\ y \in fresh /\ fresh' = fresh \ {y} /\ stored' = stored \cup {y}
      /\ UNCHANGED <<assoc, pqdata>>
  BY IdleThread DEF BeginReserve
<1>2. Becomes(w, "reserve", "lock", y, {}, NoScheduler, NoScheduler)
  BY <1>1, StartBecomes DEF BeginReserve, ThreadTypes, Pcs, Ops
<1>3. \A z \in Threads, r \in Reservations : Removing(z, r)' <=> Removing(z, r)
  BY <1>1, <1>2 DEF Removing, Becomes
<1>4. ASSUME NEW r \in Reservations \ {y}
      PROVE  ViewSame(r)
  <2>1. Alive(r)' <=> Alive(r)
    BY <1>1, <1>3, <1>4 DEF Alive
  <2>2. QED
    BY <1>1, <1>4, <2>1, SameData
<1>5. /\ y \notin stored /\ Nowhere(y) /\ \A t \in Threads : ~Removing(t, y)
  BY <1>1 DEF IInv, Good, FreshIsNowhere, Removing
<1>6. ~Alive(y) /\ Alive(y)'
  BY <1>1, <1>3, <1>5 DEF Alive
<1>7. /\ assoc'[y] = {} /\ PromotedIn(y)' = {} /\ ~IsUsed(y)'
  BY <1>1, <1>5 DEF Nowhere, PromotedIn, IsUsed, Active
<1>8. ViewSame(y)
  BY <1>1, <1>6, <1>7 DEF ViewSame, CompetesIn, AssignedTo, IsUsed, HasEnded
<1>9. QED
  BY <1>4, <1>8, NothingSeen DEF Simulated

LEMMA BeginSeen ==
  ASSUME IInv, IInv', NEW w \in Workers, Begin(w)
  PROVE  Simulated
<1> USE DEF data, shared, queues
<1>1. PICK y \in Reservations :
        \/ BeginReserve(w, y) \/ BeginStatus(w, y) \/ BeginFinish(w, y)
        \/ \E s \in Schedulers : BeginExpire(w, s, y)
  BY DEF Begin
<1>2. CASE BeginReserve(w, y)
  BY <1>2, BeginReserveSeen
<1>3. CASE ~BeginReserve(w, y)
  <2>1. /\ w \in Threads /\ thr[w].r = NoReservation /\ thr[w].op = "none" /\ ThreadTypes
        /\ DataTypes /\ UNCHANGED <<fresh, stored, assoc, pqdata>>
    BY <1>1, <1>3, IdleThread DEF BeginStatus, BeginFinish, BeginExpire
  <2>2. PICK op \in {"status", "finish", "expire"}, pc \in Pcs, todo \in SUBSET Schedulers,
             q \in Schedulers \cup {NoScheduler} :
          Start(w, op, pc, y, todo, q, NoScheduler)
    <3>1. assoc[y] \in SUBSET Schedulers
      BY <2>1 DEF DataTypes
    <3>2. CASE BeginStatus(w, y)
      BY <3>2 DEF BeginStatus, Pcs
    <3>3. CASE BeginFinish(w, y)
      BY <3>1, <3>3 DEF BeginFinish, Pcs
    <3>4. ASSUME NEW s \in Schedulers, BeginExpire(w, s, y)
          PROVE  Start(w, "expire", "clean", y, {}, s, NoScheduler)
      BY <3>4 DEF BeginExpire
    <3>5. QED
      BY <1>1, <1>3, <3>2, <3>3, <3>4 DEF Pcs
  <2>3. Becomes(w, op, pc, y, todo, q, NoScheduler)
    BY <2>1, <2>2, StartBecomes DEF ThreadTypes, Ops
  <2>4. CASE op = "status"
    <3>1. \A z \in Threads, r \in Reservations : Removing(z, r)' <=> Removing(z, r)
      BY <2>1, <2>3, <2>4 DEF Removing, Becomes
    <3>2. QED
      BY <2>1, <3>1, QuietStep
  <2>5. CASE op # "status"
    <3>1. ASSUME NEW r \in Reservations \ {y}
          PROVE  ViewSame(r)
      <4>1. \A z \in Threads : Removing(z, r)' <=> Removing(z, r)
        BY <2>1, <2>3, <3>1 DEF Removing, Becomes
      <4>2. Alive(r)' <=> Alive(r)
        BY <2>1, <4>1 DEF Alive
      <4>3. QED
        BY <2>1, <3>1, <4>2, SameData
    <3>2. ~Alive(y)'
      BY <2>1, <2>3, <2>5 DEF Alive, Removing, Becomes
    <3>3. CASE Alive(y)
      <4>1. y \notin fresh
        BY <3>3 DEF IInv, Good, FreshIsNowhere, Alive
      <4>2. QED
        BY <2>1, <3>1, <3>2, <3>3, <4>1, EndSeen
           DEF HasEnded, IsUsed, CompetesIn, AssignedTo, Simulated
    <3>4. CASE ~Alive(y)
      <4>1. ViewSame(y)
        BY <2>1, <3>2, <3>4, SameDead
      <4>2. QED
        BY <3>1, <4>1, NothingSeen DEF Simulated
    <3>5. QED
      BY <3>3, <3>4
  <2>6. QED
    BY <2>4, <2>5
<1>4. QED
  BY <1>2, <1>3

LEMMA StepSeen ==
  ASSUME IInv, IInv', [Next]_vars
  PROVE  [Assignment!Next]_(Assignment!vars)
<1> SUFFICES Simulated
  BY DEF Simulated
<1> USE DEF data, shared, queues
<1>1. ASSUME NEW f \in frees, Free(f)
      PROVE  Simulated
  BY <1>1, QuietStep DEF Free, Removing
<1>2. CASE UNCHANGED vars
  BY <1>2, QuietStep DEF vars, Removing
<1>3. QED
  BY <1>1, <1>2, UpdateSeen, BeginSeen, WorkSeen DEF Next

LEMMA InitSeen ==
  ASSUME Init
  PROVE  Assignment!Init
<1>1. \A r \in Reservations : ~Alive(r)
  BY DEF Init, Alive
<1>2. ASSUME NEW r \in Reservations
      PROVE  CompetesIn(r) = {} /\ AssignedTo(r) = NoScheduler /\ ~IsUsed(r) /\ ~HasEnded(r)
  BY <1>1, <1>2 DEF Init, CompetesIn, AssignedTo, IsUsed, HasEnded
<1>3. QED
  BY <1>2 DEF Assignment!Init

(* The aggregator keeps the promise of SingleAssignment: a reservation     *)
(* leaves a queue only after it was promoted in another one, never changes *)
(* to another scheduler, is used only once it has left all the others, and *)
(* does not come back once it is over.                                     *)
THEOREM AggregatorImplementsAssignment == Spec => ImplementsSingleAssignment
<1>1. Init => Assignment!Init
  BY InitSeen
<1>2. IInv /\ IInv' /\ [Next]_vars => [Assignment!Next]_(Assignment!vars)
  BY StepSeen
<1>3. QED
  BY <1>1, <1>2, AggregatorInvariant, PTL DEF Spec, Assignment!Spec, ImplementsSingleAssignment
=============================================================================
