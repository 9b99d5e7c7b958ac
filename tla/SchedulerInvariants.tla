------------------------ MODULE SchedulerInvariants -------------------------
(***************************************************************************)
(* Inductive invariants of the scheduler, the ones its proofs rest on.     *)
(***************************************************************************)
EXTENDS PriorityQueueScheduler

(* A reservation whose id was not drawn yet is nowhere.                    *)
FreshIsNowhere ==
  \A r \in fresh :
    /\ r \notin stored \cup finished
    /\ pqdata[r].active = "absent"
    /\ \A i \in Instances : r \notin assigned[i]
    /\ \A u \in Updaters :
         up[u].pc \notin {"pick", "list", "try", "exists"} => up[u].r # r
    /\ \A c \in Removers : rm[c].pc # "idle" => rm[c].r # r
    /\ \A b \in Breakers : br[b].pc \notin {"idle", "find", "mark"} => br[b].r # r
    /\ \A t \in confirms \cup frees : t.r # r

-----------------------------------------------------------------------------
(* The usage of a reservation is closed, or is about to be closed by the   *)
(* laboratory, once its data are deleted; or just before that, when it is  *)
(* the user who finishes it.                                               *)

BeingPurged(r) == \E c \in Removers :
  rm[c].op = "finish" /\ rm[c].pc = "purge" /\ rm[c].r = r

ClosedIsPurged ==
  /\ \A r \in finished : r \notin stored \/ BeingPurged(r)
  /\ \A t \in frees : t.r \notin stored \/ BeingPurged(t.r)

RemovalOrder == \A c \in Removers :
  /\ rm[c].op = "poll" => rm[c].pc \in {"idle", "touch", "delete", "unmap", "dequeue"}
  /\ rm[c].pc = "touch" => rm[c].op = "poll"
  /\ rm[c].op \in {"expire", "drop"} /\ rm[c].pc = "free" => rm[c].r \notin stored
  /\ rm[c].won =>
       /\ rm[c].pc \in {"unassign", "delete", "unmap", "dequeue", "purge", "free"}
       /\ rm[c].pc = "purge" => rm[c].op # "finish"

RemovalInvariant == FreshIsNowhere /\ RemovalOrder /\ ClosedIsPurged

-----------------------------------------------------------------------------
(* The rest is about a system where nothing fails and no session expires:  *)
(* reservations are removed only because their users finish them.          *)
UsersLeave == Breakers = {} /\ Removals \subseteq {"finish", "poll"}

(* Finishing a reservation goes through the set of those being finished,   *)
(* and whoever gets as far as looking at it deletes its data himself.      *)
OneFinisher ==
  /\ \A c \in Removers : rm[c].op \in {"finish", "poll"}
  /\ \A c \in Removers :
       rm[c].pc # "idle" /\ rm[c].op = "finish" =>
         /\ rm[c].r \in finishing
         /\ rm[c].pc \notin {"known", "clear"} => rm[c].r \in stored
         /\ rm[c].pc = "clear" => rm[c].r \notin stored
  /\ \A c, d \in Removers :
       /\ rm[c].pc # "idle" /\ rm[c].op = "finish"
       /\ rm[d].pc # "idle" /\ rm[d].op = "finish"
       /\ rm[c].r = rm[d].r
       => c = d

PollSeesNothing == \A c \in Removers :
  rm[c].op = "poll" /\ rm[c].pc \notin {"idle", "touch"} => rm[c].r \notin stored

(* A reservation is spent once it is too late for it to have an instance   *)
(* taken away.                                                             *)
Spent(r) ==
  \/ r \notin stored
  \/ \E c \in Removers :
       /\ rm[c].op = "finish" /\ rm[c].r = r
       /\ rm[c].pc \notin {"idle", "known", "active", "clean", "downgrade"}

(* The updater that created the CURRENT field of a reservation.            *)
Confirming(u, r) ==
  /\ up[u].pc \in {"acquire", "unconfirm", "assign", "read", "set", "unsuitable"}
  /\ up[u].r = r

(* Before that, CURRENT is one updater's or the reservation's, never both, *)
(* so that the instance in the data of the reservation does not change.    *)
CurrentOnce == \A r \in Reservations : ~Spent(r) =>
  /\ Active(pqdata[r]) => r \in current
  /\ \A u \in Updaters : Confirming(u, r) => r \in current /\ ~Active(pqdata[r])
  /\ \A u, v \in Updaters : Confirming(u, r) /\ Confirming(v, r) => u = v
  /\ \A u \in Updaters : up[u].pc = "dequeue" /\ up[u].r = r =>
       Active(pqdata[r]) /\ pqdata[r].inst = up[u].i
  /\ \A t \in confirms : t.r = r =>
       /\ Active(pqdata[r]) /\ pqdata[r].inst = t.i
       /\ t.pc = "write" => Active(t.data) /\ t.data.inst = t.i
  /\ \A c \in Removers : rm[c].r = r =>
       /\ rm[c].pc \in {"clean", "downgrade"} => Active(pqdata[r])
       /\ rm[c].pc = "downgrade" => pqdata[r].inst = rm[c].data.inst

Claims(r, i) == ~Spent(r) /\ Active(pqdata[r]) /\ pqdata[r].inst = i

(* An instance is a free slot, or one thread's, or one reservation's.      *)
OneHolder == \A i \in Instances :
  /\ \A q, r \in Reservations : Claims(q, i) /\ Claims(r, i) => q = r
  /\ \A r \in Reservations : Claims(r, i) =>
       /\ i \notin slots
       /\ \A u \in Updaters : ~UpdaterHolds(u, i)
       /\ \A c \in Removers : ~RemoverHolds(c, i)
       /\ \A t \in frees : ~FreeHolds(t, i)

(* What the session of a reservation that is in needs is there.            *)
SessionBeforeReserved == \A r \in Reservations : ~Spent(r) =>
  /\ \A t \in confirms : t.r = r =>
       /\ t.pc # "lab" => r \in sessions[t.i]
       /\ t.pc \in {"read", "write"} => r \in initial
  /\ pqdata[r].active = "reserved" => r \in sessions[pqdata[r].inst] /\ r \in initial

(* It leaves the queue only when it has an instance.                       *)
InTheQueue == \A r \in Reservations :
  ~Spent(r) => Active(pqdata[r]) \/ r \in Queued

AllocationInvariant ==
  /\ OneFinisher /\ PollSeesNothing /\ CurrentOnce
  /\ OneHolder /\ SlotHeldOnce /\ SessionBeforeReserved /\ InTheQueue

-----------------------------------------------------------------------------
(* The rest is about one server whose users stay until they are in, then   *)
(* leave or are found to be over; the laboratory may fail.                 *)
UsersStay ==
  /\ \A u, v \in Updaters : u = v
  /\ LeaveFrom \subseteq {"reserved"} /\ ~InitializationInAccounting
  /\ "drop" \notin Removals /\ "checker" \notin Failures

(* Works for a reservation, removes it, has failed in an instance.         *)
TakesCare(u, r) == up[u].pc # "pick" /\ up[u].r = r
Removing(c)     == rm[c].pc # "idle" /\ rm[c].op # "poll"
BreaksAt(b, i)  == br[b].pc \in {"find", "remove", "downgrade", "release"} /\ br[b].i = i

(* What the data of a reservation say of the other keys.                   *)
DataAgree == \A r \in Reservations :
  /\ r \notin stored => pqdata[r].active = "absent"
  /\ pqdata[r].active = "absent" => r \notin current
  /\ pqdata[r].active \in {"waiting", "confirming"} => r \in map
  /\ Active(pqdata[r]) => pqdata[r].inst \in Instances
  /\ pqdata[r].active = "reserved" => pqdata[r].session

(* Only those who wait are in the queue, and the one being promoted.       *)
QueueAgrees == \A r \in Reservations : r \in Queued =>
  /\ r \in stored
  /\ \/ \E u \in Updaters : up[u].pc = "dequeue" /\ up[u].r = r
     \/ /\ pqdata[r].active = "waiting"
        /\ r \in current => \E u \in Updaters : Confirming(u, r)

(* The updater works for somebody who waits, until he is promoted.         *)
UpdaterKnows == \A u \in Updaters :
  /\ up[u].pc \notin {"gone", "unassignGone"}
  /\ up[u].pc = "unassign" => up[u].i \in slots
  /\ \A r \in Reservations : TakesCare(u, r) =>
       /\ r \in Queued
       /\ up[u].pc # "dequeue" =>
            pqdata[r].active = "waiting" /\ (r \in current <=> Confirming(u, r))
       /\ up[u].pc = "dequeue" =>
            pqdata[r].active = "confirming" /\ HeldFor(r, up[u].i)

(* The thread that confirms a reservation is the only one to work for it.  *)
ConfirmersKnow == \A t \in confirms :
  /\ pqdata[t.r].active = "confirming" /\ HeldFor(t.r, t.i) /\ t.r \notin Queued
  /\ t.pc = "write" => t.data.inst = t.i
  /\ \A s \in confirms : s.r = t.r => s = t

(* A breaker takes the instance from a reservation that nobody confirms    *)
(* anymore, and nobody else looks at it until it is in the queue again.    *)
BreakersKnow == \A b \in Breakers :
  /\ br[b].pc \in {"downgrade", "release", "read", "write", "requeue"} =>
       LET r == br[b].r IN
       /\ r \notin Queued
       /\ pqdata[r].active = IF br[b].pc = "requeue" THEN "waiting" ELSE "confirming"
       /\ r \in current <=> br[b].pc = "downgrade"
       /\ br[b].pc = "downgrade" => HeldFor(r, br[b].i) /\ r \notin assigned[br[b].i]
       /\ \A a \in Breakers :
            br[a].pc \in {"downgrade", "release", "read", "write", "requeue"} =>
              (br[a].r = r => a = b)

(* In an instance that fails there is one breaker, and nobody confirms.    *)
OneBreaks == \A b \in Breakers, i \in Instances : BreaksAt(b, i) =>
  /\ \A t \in confirms : t.i # i
  /\ \A r \in Reservations : HeldFor(r, i) =>
       /\ pqdata[r].active = "confirming" /\ r \notin Queued
       /\ br[b].pc \in {"downgrade", "release"} => br[b].r = r
  /\ \A a \in Breakers : BreaksAt(a, i) => a = b

(* Whoever is removed was in; the first remover to downgrade him takes the *)
(* instance, as it is in the data it has read.                             *)
RemoversKnow == \A c \in Removers :
  /\ rm[c].op # "drop"
  /\ rm[c].op = "poll" /\ rm[c].pc \notin {"idle", "touch"} => rm[c].r \notin stored
  /\ rm[c].won => Removing(c) /\ rm[c].data.session
  /\ Removing(c) =>
       /\ pqdata[rm[c].r].active \in {"reserved", "absent"}
       /\ rm[c].pc \in {"unassign", "delete", "unmap", "dequeue", "purge", "free", "clear"}
            => rm[c].r \notin current
       /\ rm[c].pc \in {"unmap", "dequeue", "purge", "free", "clear"}
            => pqdata[rm[c].r].active = "absent"
       /\ rm[c].pc = "clear" => rm[c].r \notin stored
       /\ rm[c].pc = "downgrade" /\ rm[c].r \in current => rm[c].data = pqdata[rm[c].r]
       /\ rm[c].pc \in {"downgrade", "unassign"} => rm[c].data.session

(* An instance that is held for a reservation is nobody else's.            *)
InstanceOnce == \A i \in Instances :
  /\ \A q, r \in Reservations : HeldFor(q, i) /\ HeldFor(r, i) => q = r
  /\ (\E r \in Reservations : HeldFor(r, i)) \/ (\E b \in Breakers : BreaksAt(b, i)) =>
       /\ i \notin slots
       /\ \A u \in Updaters : ~UpdaterHolds(u, i)
       /\ \A c \in Removers : ~RemoverHolds(c, i)
       /\ \A t \in frees : ~FreeHolds(t, i)

(* Whom an instance is assigned to is whom it is held for, or who is about *)
(* to be, or was until now.                                                *)
AssignedAgree == \A i \in Instances : \A r \in assigned[i] :
  \/ HeldFor(r, i)
  \/ \E u \in Updaters :
       /\ up[u].pc \in {"read", "set", "unsuitable", "release", "unassign"}
       /\ up[u].r = r /\ up[u].i = i
  \/ \E c \in Removers : rm[c].pc = "unassign" /\ RemoverHolds(c, i) /\ rm[c].r = r

(* Nobody is left in between: whoever waits is in the queue, whoever has   *)
(* an instance holds it, and the others have a thread that works for them. *)
RemovedBy(c, r) == Removing(c) /\ rm[c].r = r
NobodyAdrift == \A r \in Reservations :
  /\ pqdata[r].active = "waiting" =>
       r \in Queued \/ \E b \in Breakers : br[b].pc = "requeue" /\ br[b].r = r
  /\ pqdata[r].active = "confirming" /\ r \notin current =>
       \E b \in Breakers : br[b].pc \in {"release", "read", "write"} /\ br[b].r = r
  /\ pqdata[r].active = "reserved" /\ r \notin current => \E c \in Removers : RemovedBy(c, r)
  /\ pqdata[r].active = "absent" /\ r \in stored => \E c \in Removers : RemovedBy(c, r)

(* The session is opened and the usage stored before the reservation is in. *)
SessionsReady ==
  /\ \A t \in confirms :
       /\ t.pc # "lab" => t.r \in sessions[t.i]
       /\ t.pc \in {"read", "write"} => t.r \in initial
  /\ \A r \in Reservations :
       /\ pqdata[r].active = "reserved" /\ \A c \in Removers : ~RemovedBy(c, r)
       => r \in sessions[pqdata[r].inst] /\ r \in initial

StayInvariant ==
  /\ DataAgree /\ QueueAgrees /\ UpdaterKnows /\ ConfirmersKnow
  /\ BreakersKnow /\ OneBreaks /\ RemoversKnow /\ InstanceOnce /\ AssignedAgree
  /\ SlotHeldOnce /\ NobodyAdrift /\ SessionsReady

(* When the laboratory never fails to reserve, whoever has a session in an *)
(* instance is the only one with any business there, until it is closed.   *)
SessionIsOwners == \A i \in Instances : \A r \in sessions[i] :
  /\ i \notin slots
  /\ \A q \in sessions[i] : q = r
  /\ \A q \in Reservations : HeldFor(q, i) => q = r
  /\ \A u \in Updaters : ~UpdaterHolds(u, i)
  /\ \A c \in Removers : RemoverHolds(c, i) => rm[c].r = r
  /\ \A t \in frees : FreeHolds(t, i) => t.r = r /\ t.pc = "lab"

NobodyBreaks ==
  /\ \A b \in Breakers : br[b].pc \in {"idle", "find", "remove", "mark"}
  /\ \A b \in Breakers, i \in Instances, r \in Reservations :
       BreaksAt(b, i) => ~HeldFor(r, i)

=============================================================================
