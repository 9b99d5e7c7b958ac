# A verification of the scheduling core of WebLab-Deusto

WebLab-Deusto lends remote laboratories: a student reserves an experiment, waits
in a queue, gets one of the instances of the experiment for some time, uses it
through a laboratory server, and leaves or is thrown out. Several core servers
(processes) run the same code against one Redis server. No lock protects the
queue: every thread of every process executes its own sequence of Redis
commands, and correctness hangs on the answers of single commands (how many
members `SREM` removed, how many fields `HDEL` deleted, whether `HSET` created
the field).

The project follows a reservation from the browser to the queue, in four models:

1. `PriorityQueueScheduler`: one queue and its instances, command by command.
2. `SchedulerAggregator`: a reservation that waits in several queues at once.
3. `ReservationSessions`: the session of a reservation in its core server, the
   list of users who are there, and the threads that finish those who are gone.
4. `LabPage`: the page of the laboratory in the browser, which reserves, asks,
   polls and finishes.

Each is checked by TLC on small instances; the main invariants are proved by
TLAPS for every instance, and of the first two that they implement their abstract
specifications. They meet at narrow
interfaces, which each one states as assumptions of its own: the page sees a
server that answers; the session sees a coordinator whose `finish_reservation`
works; the aggregator sees schedulers whose commands on their own data it takes
together; the queue sees users who do what they want at any moment.

Source paths below are relative to `src/server/src/`.

## Inventory

State, operations, what talks to what, what is hard, and what must hold.

| Part | State | Operations | Interacts with | Hard behaviour | Should hold |
|---|---|---|---|---|---|
| **Priority queue scheduler**, `weblab/core/coordinator/redis/priority_queue_scheduler.py` | per resource type: map reservation -> queue member, sorted set of members, JSON data per reservation, set of its reservations | `reserve_experiment`, `get_reservation_status`, `confirm_experiment`, `finish_reservation`, `_update_queues`, `_remove_expired_reservations`, `_clean_current_reservation`, `removing_current_resource_slot` | the two managers below through Redis keys, the confirmer by starting threads | every command interleaves with those of any other thread of any process; data are read, and written back several commands later | one reservation per instance; an instance always comes back; who waits is queued and is served |
| **Reservations manager**, `.../redis/reservations_manager.py` | data and status of each reservation, the set of those being finished, locks that expire | `create`, `update`, `confirm`, `downgrade_confirmation`, `initialize_deletion`, `clean_deletion`, `delete`, `lock_reservation`, `unlock_reservation` | all schedulers | `CURRENT` is a lock made of `HSET` and `HDEL`; an expired status key comes back by writing to it | one thread promotes, one thread takes away |
| **Resources manager**, `.../redis/resource_manager.py` | per instance: free slot, assigned reservations, working mark; which schedulers a reservation is in | `acquire_resource`, `release_resource`, `mark_resource_as_broken`, `mark_resource_as_fixed`, `check_working`, adding and removing resources | schedulers, confirmer, checker | releases from four different places | a slot is released once |
| **Coordinator**, `weblab/core/coordinator/coordinator.py`, `.../redis/coordinator.py` | the stores, the confirmer, the schedulers | reserving, confirming, finishing, disposal, marking as broken or fixed | everything in this table down to the checker | the order of the steps of finishing; retries | a closed usage belongs to a reservation that is over |
| **Reservation confirmer**, `.../confirmer.py` | its threads | `enqueue_confirmation`, `enqueue_free_experiment`, `enqueue_should_finish` | laboratory server (remote calls), coordinator | a call takes long or fails while users leave | its failure hurts nobody but its experiment |
| **Laboratory server**, `weblab/lab/server.py`, `assigned_experiments.py`, `experiment_handler.py` | sessions, experiments assigned, asynchronous requests | reserve, free, send command or file, check asynchronous results, check resources | experiment servers, confirmer, core server | a second reservation of a busy experiment; asynchronous threads of a session that ends | one session per experiment |
| **Transactions synchronizer**, `.../scheduler_transactions_synchronizer.py` | queue of requests, pending elements, time of the latest update | `request_and_wait`, its thread, `stop` | scheduler (`update`) | batching; stopping; updates left out because one was recent | an update follows every request |
| **Independent scheduler aggregator**, `.../redis/meta_scheduler.py` | schedulers a reservation competes in | status of all of them, choice of the best, `assign_single_scheduler` under a lock that expires | schedulers | two schedulers promote one reservation | promoted once, in one scheduler at the end, always in some queue until then |
| **Post-reservation data**, `.../redis/post_reservation.py` | initial and end data of past reservations | `create`, `finish`, `find`, `clean_expired` | retriever, coordinator | expiry between the steps | data of a finished usage can be found |
| **Stores and data retriever**, `.../store.py`, `weblab/core/data_retriever.py` | four queues | `iterate_*`: move entries to the database | coordinator, database | the end of a usage before its beginning | each usage is stored once |
| **Status order**, `.../status.py` | none | comparison of statuses | aggregator | which one is better | a total order |
| **Resources checker**, `.../checker.py`, `checker_threaded.py` | failures by laboratory | runs all checks, marks as broken or fixed | laboratory servers, coordinator | concurrent with everything | broken and fixed follow the checks |
| **Federated scheduler**, `.../clients/weblabdeusto.py` | pending remote results | forwards a reservation to another server and fetches its results | aggregator, remote servers | remote failures | results are fetched once |
| **iLab batch scheduler**, `.../clients/ilab_batch.py` | hardly any | SOAP calls | a remote broker | remote failures | - |
| **SQL coordinator**, `.../sql/*.py` | the same in tables | the same | database | isolation level | the same |
| **Sessions in memory**, `voodoo/sessions/memory.py` | sessions and their locks | create, get and modify under lock, delete | core and laboratory servers | deletion of a locked session | no session blocks for ever |
| **Alive users**, `weblab/core/alive_users.py` | list of sessions in one session | add, remove, check | sessions, reservation processor | a failure in the middle of the check | whoever is gone is finished |
| **Reservation processor**, `weblab/core/reservation_processor.py` | one reservation session | poll, finish, expiry, commands | coordinator, laboratory server | poll, command, logout and purge at once | one thread at a time; nobody is left behind |
| **Locks of voodoo**, `voodoo/lock.py`, `threaded.py`, `resources_manager.py` | readers, writer | readers-writer lock | several | upgrades, re-entrance | exclusion, no deadlock |
| **Core server, users, login**, `weblab/core/server.py`, ... | sessions | requests, permissions | database | - | - |
| **Database, web pages, administration**, `weblab/core/db.py`, ... | tables | queries | - | - | - |
| **Page of a laboratory**, `weblab/core/static/weblabjs/weblab.v1.js`, `.../webclient/apps/lab/*.js` | variables of the library in the frame, scope of the controller, requests and timers | reserve, check, poll, finish, ask for results, reload the frame, go to another server, unload | core server by asynchronous requests, user | answers of earlier reservations, closing at any moment, lost requests | whoever leaves frees the experiment; the end is noticed |
| **Clients, experiments, tools** | - | drivers, user interface, deployment | - | - | - |

The first five and the laboratory's sessions are `PriorityQueueScheduler`; the
aggregator, with the locks and the associations of the two managers, is
`SchedulerAggregator`; sessions, alive users, reservation processor and what the
core server does with them are `ReservationSessions`; the page is `LabPage`.
`PROJECT.json` lists each part with its status, and under `hazards` each hard
behaviour at its line.

## The modules

| Module | What it is |
|---|---|
| `PriorityQueueScheduler` | the scheduler, the two managers, the confirmer's threads, the coordinator's sequences and the laboratory's sessions |
| `InstanceAllocation` | the abstract promise of a queue: an instance is nobody's or one reservation's, and a reservation that is over never gets one again |
| `SchedulerRefinement` | the mapping from the first to the second |
| `SchedulerInvariants` | the inductive invariants |
| `MCScheduler` | constants and symmetry for TLC |
| `PriorityQueueSchedulerProofs`, `SchedulerAllocationProofs`, `SchedulerStayProofs` | the theorems of the scheduler: for whatever fails; for users who leave at any moment; for users who stay until they are in, with the refinement of `InstanceAllocation` |
| `SchedulerAggregator` | several schedulers, the lock of a reservation, the associations |
| `SingleAssignment` | the abstract promise of the aggregator: a reservation competes in several schedulers, is assigned to one, leaves the others, and only then is used |
| `SchedulerAggregatorProofs`, `SchedulerAssignmentProofs`, `SchedulerSettledProofs` | its theorems; that it implements `SingleAssignment`; what is left behind when reservations are over |
| `ReservationSessions`, `ReservationSessionsProofs` | sessions, locks, alive users, purging threads; their theorems |
| `LabPage`, `MCLabPage`, `LabPageProofs` | the page and its library; the sorts of page TLC checks; the theorems |

### How `PriorityQueueScheduler` follows the code

A *step* is one Redis command or one pipeline, with the local computation
around it. Threads are records with a program counter:

- `up`: a run of `_update_queues` per core server. `PickFirst` .. `Unassign` are
  the loop in the order of its commands: the first reservation not tried yet,
  the free instances, `check_working`, `confirm` (`EXISTS` then `HSET CURRENT`),
  `acquire_resource` (`SREM`), the association, the two reads, the checks of
  those reads, the write as active (`SetWaitingConfirmation`) and leaving the
  queue (`DequeueAndConfirm`), which starts a confirming thread.
- `confirms`: threads that reserve in the laboratory and then run
  `Coordinator.confirm_experiment` (`ReserveInLab`, `PutInitial`,
  `ReadToConfirm`, `WriteReserved`).
- `rm`: threads that remove a reservation. `op` says why: `finish`
  (`Coordinator.finish_reservation`), `expire` and `drop` (the two loops of
  `_remove_expired_reservations`), `poll` (a status request for a reservation
  that just disappeared). They share `_clean_current_reservation`,
  `_delete_reservation` and `enqueue_free_experiment`, in different orders.
- `frees`: threads that free the experiment in the laboratory and confirm the
  disposal, which releases the slot and closes the usage.
- `br`: threads in `mark_resource_as_broken`, called by the checker or by a
  confirmer whose laboratory failed.

Keys: `stored` is the data and status keys of a reservation, `listed` is
`WEBLAB_RESOURCE_PQUEUE_RESERVATIONS`, `current` the field `CURRENT` of a
status, `finishing` is `WEBLAB_RESERVATIONS_FINISHING`, `pqdata` the JSON of the
scheduler, `map` and `sorted` the queue, `slots`, `assigned` and `working` the
keys of the resource type. `sessions`, `initial` and `finished` stand for the
laboratory and the stores.

The abstractions, each of which a reader may want to question:

- A reservation is the number it draws from the counter of the queue: its place
  among those of its priority. `Reservations` is a bound on how many are made.
- Time is not counted: an expiry may happen whenever the state is one in which
  the code could find the time over, and a drop (no access for
  `EXPIRATION_TIME`) at any moment. `LATEST_ACCESS` is stored together with the
  status. The removals that a status request, a reservation or a confirmation
  runs on their way are removers of their own.
- Steps that are two commands in the code and one here, because what lies
  between them is not visible to another thread or reads a value that does not
  change: `HGET` of the queue member and the `ZREM` or `ZADD` with it
  (`DequeueAndConfirm`, `Unmap` with `HDEL`, `Requeue`), the two `GET`s of
  `ReadReservation`, the reads of `ReadToConfirm` (data, then `check_working`),
  and `ReservationsManager.delete` with `clean_associations_for_reservation`
  (`Purge`). The data and the status of a reservation are created together and
  deleted together.
- A status key created by writing to one that had expired is not kept: every
  request looks for the reservation first.
- The retries of one disposal are one step. `should_finish` and batch
  experiments end in `finish_reservation`, which users may call at any moment.
- The laboratory is the set of reservations with a session open on each
  instance. Its check for a busy experiment has no effect
  (`AssignedExperiments.reserve_experiment` ignores that
  `ExperimentHandler.reserve` returns `False`), so that the model has none.
- There is one scheduler of one resource type (several are
  `SchedulerAggregator`), no federation, and no change of the configuration
  while the system runs.

### How `SchedulerAggregator` follows the code

Each resource type has a queue (`place`, `drawn`), data (`pqdata`), one instance
(`slots`, `frees`) and an updater per core server (`up`), whose steps are those
of `PriorityQueueScheduler` with the commands on the scheduler's own data taken
together; what schedulers share (`stored`, `accessed`, `current`, `assoc`,
`locked`, `finishing`) is read and written by steps of its own. Threads `thr`
have an `op`:

- `reserve`: `reserve_experiment` of the aggregator: lock, then scheduler after
  scheduler the association, the place in the queue and the status that
  comes back; a scheduler that has promoted it at once ends the loop and is
  assigned.
- `status`: `get_reservation_status`: lock, the associations of that moment, the
  status in each, and the assignment if one of them has promoted it.
- `confirm`: the confirming thread of an updater: the laboratory, then
  `assign_single_scheduler` under the lock, then `confirm_experiment` of the
  aggregator in the schedulers that are left.
- `finish`: `finish_reservation` of coordinator and aggregator, without the lock.
- `expire`: `_remove_expired_reservations` of one scheduler, which ends with
  deleting the data that all of them share.

Assumptions: all reservations have the same priority; the initialization is not
part of the accounted time; the lock is lost only by the requests that `Slow`
names (making a reservation does not outlast its lock); an updater confirms a
reservation in one thread at a time; nothing fails (failures are
`PriorityQueueScheduler`'s). The order of the schedulers is any order, where the
code sorts the local ones first.

### How `ReservationSessions` follows the code

A session in memory is an object that is not copied. `store` says which object is
stored (`reserve_experiment` stores an empty one first), `lock` whether its lock
is taken, `polling`, `clock` and `unwatched` what the object contains, `alive`
the list of watched users, `finishedStore` the queue of reservations the
coordinator finished, `timer` the thread that checks every few seconds and `thr`
requests and purging threads. A request is `Lock`, `Act` (poll, status, finish,
command: the tests that lead its code on) and `Release`, with the steps of what it
does in between; `logout` works on the session without its lock. The check takes
what finished, holds the list while it looks at each user, takes off those it
found, and starts a purging thread.

Whoever does not hold the lock (the check, and `logout`) meets the others between
the test of `'session_polling' in session` and what follows it, so that these are
steps of their own:

- `is_expired()` by the check: `CheckOne` tests (reservation_processor.py:229) and
  `ReadOne` reads (236); a key that is gone by then is a `KeyError`, which ends the
  thread (`Die`), as a user without a session does.
- `poll()`: `ActPoll` and `ActStatus` test, `Read` reads (236, 208), `Write` writes
  (209): a `KeyError` ends the request, and a write puts the key back that a
  `logout` has removed. The two reads of a request that polls are one step: nothing
  but a `logout` comes in between, and it makes all of them fail alike. `Record`
  stores what the coordinator says to a status request, the first time with the
  expiration time (194-199), which is a write as well.
- `finish()`: `Finish` tests (146), `StopPolling` tests again (245), `Pop` removes
  the key (246; a `KeyError` if somebody was faster: then a `logout` leaves its user
  in the list) and `TellCoordinator` calls the coordinator.

Assumptions: `coordinator.finish_reservation` does not fail; a session is deleted
two hours after its last use, when nobody works on it; the expiration time may have
passed at any moment once a reservation was made; `ChecksWhileReserving` says
whether a check may fall within `reserve_experiment`, which only `dead_checker`
allows. Which request a client makes, except `logout`, is chosen when it has the
lock: none of them looks at anything before.

### How `LabPage` follows the code

JavaScript runs one callback at a time: a step is a callback with everything it
calls. `lib` are the variables of the library in the frame, `page` the scope of
the controller, `frame` whether the frame holds the library, `calls` requests
not served, or served and not heard, `timers` the timeouts; `srv` is the status
of each reservation at the server and `by` what ended it. A request is served in
a step of its own, and so an answer may be old when it is heard; with an
unreliable network it may be lost on either way. `finishExperiment` uses a
synchronous request, which is part of its step.

Assumptions: `Impatience` is empty in the run, so that users do not close the
window while the answer to a request that reserves or finishes is on its way, do
not close a federated page that waits, do not press Finish twice while it is
being served, and an experiment with a button of its own does not reserve twice.
The two seconds after `experimentLoaded` are longer than loading the frame.

Operators marked as *Variant*, in all modules, are faulty versions of the
operator that follows them; they are not part of `Next`. Operators that only move a
program counter (`Goto` and the like) stand for no line of the source.

## The runs

`CHECK_DEADLOCK FALSE` is given where the number of reservations is bounded:
the system stops when all of them are over.

| Run | Instance of it | Checked | What it shows |
|---|---|---|---|
| `two_servers` | 2 updaters, 1 instance, 2 reservations; users finish in any status and ask for the status, sessions are found over (also while initializing) and reservations dropped at any moment, one removal at a time | `NoSharedInstance`, `NotForgotten`, `SlotHeldOnce`, `FinishedIsOver`, `ReservedHasSession` | the race for `CURRENT` and for the slot gives an instance to one reservation and one pair of hands; removing one does no harm to the one who stays |
| `service` | 2 instances, the second of which hosts one kind of experiment only; 3 reservations, the last with the best priority; users finish once they are in; expiry, polls; fairness | `OneSession`, `NoSlotLost`, `WaitingIsServed`, `SlotsComeBack` | with users who stay until they are in, everybody is served and nothing is lost, also where an instance does not suit |
| `failing_laboratory` | the laboratory fails to reserve and to free, two threads mark as broken; finish and expiry | `NotForgotten`, `ImplementsAllocation` | failures put the user back in the queue; the promise of `InstanceAllocation` is kept |
| `failing_checks` | 1 instance, 1 reservation, 2 threads that mark as broken (the checker, or a confirmer whose laboratory failed), again and again | `TypeOK` | threads stay well formed, also two that break one instance at once |
| `two_queues` | a reservation in 2 schedulers, an updater for each, 2 requests or removals at a time; fairness | `TypeOK`, `OneScheduler`, `PromotedOnce`, `StillSomewhere`, `NothingLeftBehind`, `SlotAccounted`, `WaitingIsServed`, `ImplementsSingleAssignment` | promoted once, out of the other queue before it is used, in some queue until then; leaving a queue costs no instance; the promise of `SingleAssignment` is kept |
| `lab_page` | 2 reservations, the pages of `AllSetups` (local, federated, sent on to another server, with and without results; a network that loses requests, for a page of this server and for one that is sent on) | `TypeOK`, `NobodyHeldUp`, `OneReservationEach`, `RemoteIsKept`, `EndIsNoticed`, `PollingStops`, `ResultsArrive` | closing the page frees the experiment; old answers do no harm; an end is noticed whatever is lost |
| `sessions` | 1 reservation that may stop being watched, 2 requests at a time (a logout against another request), 1 purging thread; fairness | `TypeOK`, `Watched`, `OneAtATime`, `GoneIsFinishedWhileChecked`, `FinishedIsTold`, `RequestsEnd` | nobody is left behind, whichever of the threads ends in a `KeyError`; as long as the checks go on, whoever is gone is finished and what is over stops polling; no lock is kept |
| `leave_while_confirming` | *violated*: `OneSession` | | finding 1 |
| `leave_while_breaking` | *violated*: `NoSharedInstance` | | finding 2 |
| `fixed_resource` | *violated*: `FixedWorksAgain` | | finding 3 |
| `dead_checker` | *violated*: `GoneIsFinished` | | finding 4 |
| `blocked_queue` | *violated*: `NothingLeftBehind` | | finding 5 |

Bounds. The races of the queue are between two threads over one instance and one
or two reservations: two updaters (two servers), two breakers, an updater and a
remover; and one instance is what makes them collide. `service` has two
instances because an updater goes on with the next one. Two reservations are
needed for anything about sharing, and for a queue with somebody behind;
`service` and `leave_while_breaking` have three (the one who is behind two
others; the one who gets an instance released twice). The number of instances
marked as broken at once is the number of breakers. The races of the aggregator
are about one reservation: two schedulers, one updater each, and two more
threads (a confirming thread for each promotion, and two requests or removals)
are every pair of actors that share its keys; the instances start free or being
freed from an earlier use, which stands for the other reservations. The same
safety properties were also checked with two reservations and, except
`SlotAccounted` and `NothingLeftBehind`, with two core servers, with every reason
to leave and to remove and with `Slow = {"status", "confirm"}`. The page needs two
reservations because what goes wrong is an answer of the first heard by the
second. For the sessions, two requests, the check and a thread that purges are what
works on one session; the invariants were also checked with a second purging thread
and, with one request at a time, with two reservations.
The runs of the queue have one removing thread, which meets updaters and confirming
and freeing threads: what two removals do to each other rests on the theorems, which
have any number of them. `service` has one updater, and what several do to an
instance that does not suit is not in a run; `failing_laboratory` leaves out the
users who leave while they are being confirmed (finding 2).

The properties are checked where they hold, and the runs say under which
behaviour of users and devices. The findings are the other side: the same
properties under the behaviour that breaks them, each checked alone.
`NoSharedInstance` and `SlotHeldOnce` do not survive a user who leaves while his
instance is being marked as broken (finding 2), nor `OneSession` one who leaves
while the laboratory is reserving for him (finding 1), nor `ReservedHasSession` a
checker that marks instances as broken. Neither does
`SlotHeldOnce` hold with expiry and finishing at once when an updater stalls for
as long as a whole session takes: it then writes back data from before. And
the promise of `InstanceAllocation` is that of a queue with one updater, as in
`failing_laboratory`: with two (no failure, `Removals = {"finish"}`), one that
stalled before `HSET` creates the `CURRENT` that a finish has just deleted, and
takes an instance for a reservation that still has one.

### Fairness

Nothing is ever assumed of users: they may never leave, ask or poll.

- `PriorityQueueScheduler`: updates go on (the synchronizer's thread runs one for
  every request, and clients poll); every thread that was started goes on; a
  laboratory that is asked again and again answers some day (strong, because a
  failure may come instead); a session that stays over is noticed (strong,
  because it takes a free remover of the bounded number of them, where the code
  looks in every request); the resources checker marks as fixed what works.
- `SchedulerAggregator`: updates go on, the laboratory answers and frees. Threads
  go on, strongly: who waits for a lock of a reservation that others take again
  and again gets it at the latest after ten seconds, when `lock_reservation` goes
  on without.
- `ReservationSessions`: threads go on, strongly where they wait for the lock of
  a session or of the list, which is a lock of the operating system; the check is
  a loop of its own thread.
- `LabPage`: requests are answered or fail, answers are heard, timers fire, and
  the server stores the results of what is over.

## The proofs

### The queue

Checked by TLAPS for every number of reservations, instances and threads, every
priority and every set of experiments an instance hosts, from
`ConstantsAssumption` (types of the constants, and that the null instance is not an
instance). The first two hold whatever removes reservations and whatever fails; the
others name the assumption they need.

- `TypeCorrect == Spec => []TypeOK`. `TypeOK` is inductive as it stands, since it
  also says that a thread past its first commands knows its reservation and its
  instance. One lemma per kind of thread: updaters, confirming threads, removers,
  freeing threads, breakers.
- `FinishedWhenOver == Spec => []FinishedIsOver`. *The usage of a reservation is
  closed only while it is being removed or when it is gone.* It is not inductive:
  what is needed is that a freeing thread may only exist for a reservation that is
  gone or is about to be purged by its own finish (`ClosedIsPurged`), which rests on
  the different orders in which the removals delete and free (`RemovalOrder`: an
  expiry purges before it frees, a finish frees before it purges), and on
  `FreshIsNowhere`: no thread works for an id that was not drawn, so that a new
  reservation does not inherit a closed usage. The three (`RemovalInvariant`),
  with `TypeOK`, are inductive; each has a lemma with one step per action.
- `InstancesNotShared`, `SlotsHeldOnce`, `NobodyForgotten` and
  `ReservedInLaboratory`: under `UsersLeave`, the four properties
  `NoSharedInstance`, `SlotHeldOnce`, `NotForgotten` and `ReservedHasSession` are
  invariants of `Spec`, for any number of servers that update the queue and of
  threads that finish reservations, in any status, at any moment. `UsersLeave`
  says that no thread marks instances as broken and that reservations are removed
  by finishing them and by status requests that find them gone; without it the
  first two are false (finding 2, and the stalled updater above).

The argument of these four. A reservation is *spent* from the moment its only
finisher (`OneFinisher`: the set of those being finished is a lock) takes its
instance away or deletes its data; a status request only deletes what is gone
(`PollSeesNothing`). Spent is for good, and an updater that is still promoting a
spent reservation may write anything to its data, so that everything else is said
of the others. For them `CURRENT` has one owner, either one updater or the
reservation itself (`CurrentOnce`): therefore the instance in the data does not
change while the confirmation reads it and writes it back, and a claim on an
instance excludes any other claim, any thread that holds it and the free slot
(`OneHolder`, inductive together with `SlotHeldOnce`). `SessionBeforeReserved` adds
that the session in the laboratory is closed only for spent reservations, for which
it needs `ClosedIsPurged`; `InTheQueue` that the queue loses a reservation only once
it has been promoted, or for one that is spent. `AllocationInvariant` is their
conjunction. New reservations have a lemma of their own, as they make a number that
was not stored (spent, by the definition) one that is.

`SchedulerStayProofs` is about the other sort of system, in which sessions expire and
the laboratory fails. `UsersStay` is what its theorems assume: one server updates the
queue; users finish once they are told that they are in; the initialization is not
part of the accounted time; nobody is dropped for not having asked for long; and
the checker does not mark instances as broken, only confirming threads whose
laboratory failed do. There may be any number of reservations, instances, removers,
freeing threads and breakers, and any call to the laboratory may fail.

- `StayImplementsAllocation`: `Spec => ImplementsAllocation`.
- `StayNotShared`, `StayHeldOnce`, `StayRemembered`, `StayInLaboratory`:
  `NoSharedInstance`, `SlotHeldOnce`, `NotForgotten` and `ReservedHasSession`.
- `StayOneSession`: `OneSession`, unless the laboratory fails to reserve. A call that
  failed may have opened a session that nobody closes.
- `StayNoSlotLost`: `NoSlotLost`, unless the laboratory fails to free (finding 3).

The inductive invariant is `StayInvariant`. It says of each thread what it may still
believe: an updater that went past its reads, that the reservation waits and that
`CURRENT` is his (`UpdaterKnows`); a confirming thread, that the data name the
instance it reserves in (`ConfirmersKnow`); a remover, which step of the removal it
is at (`RemoversKnow`); a breaker, that the reservation it takes the instance from is
the one that failed there (`BreakersKnow`, `OneBreaks`: the confirming thread that
started it is over by then). With these, the data,
`CURRENT` and the queue agree (`DataAgree`, `QueueAgrees`), each instance is in one
place: free, in a thread's hands, or in the data of one reservation (`InstanceOnce`,
of which `SlotHeldOnce` is a part), the instance's own record of whom it was given to
is right (`AssignedAgree`), nobody who waits is outside of the queue (`NobodyAdrift`)
and who is in has his session (`SessionsReady`). Each part has a lemma with one step
per kind of thread, since most steps disturb one or two keys.

One server is needed because an updater that stalls before its `HSET` makes again the
`CURRENT` that a removal has deleted, and so is that users stay (findings 1 and 2, and
*a slot lost* below). For the refinement, `BelongsOnce` says that the instance an
abstract reservation has is the only one, and each step of the code keeps the
abstract state (`Kept`) or passes one instance (`Passed`): a free one is taken by a
reservation with nothing (`Taken`), or one is given back, maybe for good
(`GivenBack`).

### The sessions

`SessionsTypes`, `NobodyIsLeftBehind` and `SessionsAreLocked`: under
`~ChecksWhileReserving`, `TypeOK`, `Watched` and `OneAtATime` are invariants for
any number of reservations, requests and purging threads, from
`SessionsAssumption` (requests and purging threads are different threads; the null
value is no reservation). That the thread that checks has ended is no excuse here:
a reservation of which the coordinator was not told stays in the list.

The inductive invariant `IInv` is these three with `MadeInOrder` (a session exists for what was
made, and is full once `reserve_experiment` is done), `TimerKnows` (while it
checks, those it looks at and those it found are in the list, which it holds; what
it took from the queue of finished reservations is finished), `ThreadsKnow` (what a
thread at each step knows of its session), `Told` and `ForgetsLast`. `Told` is what
the races over `'session_polling'` leave of the order of `finish()`: who does not
poll is finished, or some thread is just about to tell the coordinator. It is
needed because a `finish()` that finds the key gone goes away, trusting that another
one is on its way; that one has passed `Pop`, after which nothing can fail.
`ForgetsLast` says that a `logout` takes the user off the list after it told the
coordinator. `Watched` needs all of them: every step that takes a user off the list
does so either with the intention to finish him still in a thread's hands, or after
he was finished. `OneAtATime` is inductive with the types and `ThreadsKnow`.

### The aggregator

From `AggregatorAssumption` (there is a scheduler; the null values are not
reservations or schedulers; requests and confirming threads are different
threads; making a reservation does not outlast its lock), for any number of
reservations, schedulers, servers and requests, every reason to leave and to
remove, and locks that expire under status requests and confirming threads:

- `AggregatorTypes`, `UsedInOneScheduler`, `PromotedOnlyOnce` and
  `NobodyDropsOut`: `TypeOK`, `OneScheduler`, `PromotedOnce` and `StillSomewhere`
  are invariants.
- `AggregatorImplementsAssignment`: `Spec => ImplementsSingleAssignment`.

The inductive invariant `IInv` is, besides the types and what a thread at each
step is for (`ThreadsInOrder`), a property `Good` of each reservation on its own:
a step works for one reservation and leaves all that belongs to the others as it
was (`SameKept`), so that every action has one lemma about the reservation it
works for. A reservation that was not made is nowhere (`FreshIsNowhere`); while it
is made, nobody else is past the lock for it (`ReservesAlone`), which is where the
assumption on the lock is needed: `reserve_experiment` writes the status of a
reservation and its place in a queue without looking whether they are there. Of
one that is alive (`Consistent`): one updater owns `CURRENT` until it is promoted
(`Owned`), a promotion keeps `CURRENT` and its association (`PromotedIsCurrent`)
and is the only one (`Once`); it is in the queues it is associated to and in
others only on the way out (`InQueues`); and a thread that assigns it knows the
scheduler that promoted it, never has that one to visit, and cleans only
schedulers that are dissociated already (`Assigned`). The last explains why a lock
that expires does no harm here: two threads that assign at once take the same
scheduler for the assigned one, because there is only one promotion. `Alive`
excludes the reservations that somebody is removing, of which nothing is said.

For the refinement, each action is matched with a step of `SingleAssignment`:
joining a queue with `Enter`, the promotion with `Promote` (`Owned` says that there
was none), dissociating with `Leave` (`Assigned` says that it is not the assigned
one), writing the confirmation with `Confirm` (`Confirming` says that the others are
left), the start of a removal with `End`; the rest is not seen.

`SchedulerSettledProofs` adds what remains once a reservation is over, and what
becomes of the instances. Its `UsersStay` assumes one server, users who finish only
once they are in, sessions that expire (nobody is dropped), and locks that last.

- `LeavesNothingBehind`: `NothingLeftBehind` is an invariant.
- `EverySlotAccounted`: `SlotAccounted` is an invariant.

Here the reservations that are being removed matter, of which `Good` says nothing.
`TidyInv`, on top of `IInv`, follows a reservation to its end. One thread at a time is
past its lock (`LockedOnce`); as long as it is alive, a scheduler that has data of it
is associated or is being cleaned (`Covered`), and once it is confirmed nobody cleans
any more (`OthersLeft`); therefore, when it ends, the only data left are those of the
one associated scheduler, and they stay until each remover has been there
(`Settled`). A thread that took `CURRENT` away has the instance to free
(`WonToFree`). `SlotAccounted` is proved in the stronger form `Accounted`: the
reservation that holds the instance has a `CURRENT` of its own (`Holds`): no thread
that took it away is about to delete its data there, and no updater has made it again.
The hypotheses are those under which the run `two_queues` checks the two properties.
TLC finds both violated when users also finish while they are `confirming`, or when
`Slow` is not empty; of one server the proof makes use, though TLC finds no
violation with two servers and one reservation.

### The page

From `PageAssumption` (the types of the constants), for any number of reservations
and any set of pages, those that are federated and forwarded again included:

- `PageTypes`, `LibraryUsedOnce` and `RemoteNotFinished`: unless a button of the
  experiment reserves while a reservation is being made (`"reserve_twice"`),
  `TypeOK`, `OneReservationEach` and `RemoteIsKept` are invariants. The user may
  do everything else too early, and requests and answers may be lost.
- `PlacesAreGivenBack`: if the user waits (`Impatience = {}`), `NobodyHeldUp` is an
  invariant. The run `lab_page` and the variants under "Findings" show that it
  needs this.

`PageInv` is the inductive invariant of the first three. At most one reservation is
being made, by an open page whose library has not started (`OneStart`,
`StartsFresh`); library, frame and page agree on what is active (`LibraryFits`); the
library asks only for what it was given (`CallsFit`); and a library whose
reservation was taken over no longer finishes on close, so that a poll never ended
it and a close only ended what had not been sent away (`SentAway`). Types are part
of it because they are not inductive alone: that a status exists for the reservation
asked for rests on who may ask.

`HeldInv` is the second, on top of `PageInv`. It says where the page keeps each
reservation that lives (`LiveShown`): in the request that made it, in a question
for its status, in a timer, or as the one shown. That it is not dropped there
rests on answers being right (`Truthful`: when an answer says that a reservation
is over it is; one that lives although the user ended it has a request on its way)
and on requests being for the reservation of the library (`CallsOfLibrary`), for
which statuses must not go back (`AllMade`). Steps of a library that has started
have one lemma (`EndHolds`), and so have the three ways to leave (`LeavingHolds`).

### What is only model-checked

Of the queue, several servers at once with sessions that expire or are dropped
(`two_servers`; the theorems have several servers whose users leave at any moment, or
one server with sessions that expire). Of the aggregator, the sessions and the
page every invariant of the runs is proved. And all of liveness (`WaitingIsServed`,
`SlotsComeBack`, `GoneIsFinishedWhileChecked`, `FinishedIsTold`, `RequestsEnd`,
`EndIsNoticed`, `PollingStops`, `ResultsArrive`), which is outside of the prover's
reach.

## Findings

1. **Two sessions in one experiment** (`leave_while_confirming`). A user leaves
   before his laboratory session is known; the slot is released at once, while the
   laboratory is still opening the session, which nobody closes.
2. **An instance given twice** (`leave_while_breaking`).
   `removing_current_resource_slot` and `_clean_current_reservation` release the
   same slot through different gates.
3. **Fixed, but never offered again** (`fixed_resource`). When freeing fails, the
   slot is not given back by anybody, and marking as fixed does not add it.
4. **The checker of users dies** (`dead_checker`). `reserve_experiment` puts a
   reservation in the list of watched users before its session exists; a check in
   between raises, and its thread ends. It also ends without a check in
   `reserve_experiment`: `is_expired()` runs without the lock of the session, and a
   `finish()` that removes `session_polling` between its test (229) and its read
   (236) raises `KeyError` in the check. Any logout, expired poll or failing command
   at that moment does it; with `ChecksWhileReserving = FALSE` and two reservations,
   `GoneIsFinished` is violated too: one user logs out while he is checked, and
   the other, who is gone, is never finished. `GoneIsFinishedWhileChecked` and
   `FinishedIsTold` say what holds until then; reservations that the check had
   already taken from the queue of finished ones are lost with it, so that a session
   whose poll undid a logout goes on polling.
5. **A ghost blocks a queue** (`blocked_queue`). One scheduler drops a reservation
   nobody has asked for in six hours, and with it the data that all schedulers
   share. No other scheduler finds it then; it stays in their queues, and when it
   comes first every update ends with `ExpiredSessionError`.

Other defects met while modelling, without a run of their own:

- *A slot lost.* A user leaves between the updater's read of his data (line 482 of
  the priority queue scheduler) and its write as active (529): `finish_reservation`
  sees a waiting reservation and takes nothing away, the updater writes back what
  was deleted, and nobody releases the instance. `service` with `"waiting"` in
  `LeaveFrom` violates `NoSlotLost`; one instance and two reservations suffice. With a
  second updater it also happens to a user who leaves once he is in: the updater
  that stalled before its `HSET` promotes him again while he is being removed.
- *In, with the session of another instance.* A confirming thread does not know for
  which instance the data it reads were written (lines 293-319). When the checker
  marks the first instance as broken after its laboratory was asked, and the user is
  promoted to a second one, the first thread makes him active there with the session
  of the first, which nobody closes. With two instances, one reservation, one
  breaker and `Failures = {"checker"}`, `ReservedHasSession` is violated.
- *Waiting for a confirmation that does not come.* The case of the TODO in
  `confirm_experiment` (308): an instance that is marked as broken between the
  check (459) and the assignment (479) is promoted to, and the confirmation
  returns early. With `Failures = {"reserve"}` and one breaker, under `FairSpec`, a
  reservation stays `confirming` for ever.
- *A status request that never returns.* With `"checker"` in the failures of
  `failing_laboratory`, `NotForgotten` is violated: a breaker puts a reservation
  back in the queue, and a stalled updater then takes it out. It is in the map and
  nowhere else, for which `get_reservation_status` (276) calls itself again.
- *A slot lost when a lock is lost.* With `Slow` not empty, two threads assign a
  reservation at once, and one takes `CURRENT` from the scheduler that the other
  has just promoted it in: `SlotAccounted` is violated.
- *A page that holds its place.* A federated page that waits does not set
  `mReservationStarted` (weblab.v1.js:1443), so that closing it does not finish
  the reservation: with `"close_federated"` in `Impatience`, `NobodyHeldUp` is
  violated.
- *A button that stays disabled*: a failure to reserve does not reset `reserving`
  (lab.controller.js:296-314). *A poll after the end*: the answer to a poll that
  was on its way sets the timer that the end has cleared (weblab.v1.js:370, 520);
  `PollingStops` shows that it happens once and not for ever.

## Not modelled

- *Transactions synchronizer*: `PriorityQueueScheduler` lets any number of updates
  run at any time, and needs only that they go on, which covers whatever the
  synchronizer leaves out or repeats.
- *Post-reservation data, stores, data retriever*: what is kept about usages that
  are over. `PriorityQueueScheduler` records what is put in the stores, and
  `LabPage` that results come some time after the end; how entries reach the
  database is not modelled.
- *Status order*: a comparison without state.
- *Resources checker*: its effect is an input of `PriorityQueueScheduler`.
- *Federated and iLab schedulers*: calls to other systems, with little state here;
  `LabPage` has the pages at both ends of a forwarded reservation.
- *SQL coordinator*: the same operations; its interleavings are those of an
  isolation level that the deployment chooses.
- *Locks and threads of voodoo*, and of the *laboratory server* the commands, files
  and asynchronous requests: forwarded to the experiments.
- *Permissions, login, database, web pages, administration, the old web client,
  drivers of devices, deployment tools*: storage and presentation, no protocol of
  their own.

Most of the lines of the repository's JavaScript are copies of libraries (jQuery,
jQuery UI, D3, each several times) and pages of single devices. They keep no state
of a reservation; what does is `weblab.v1.js` and the controller and the directive
of the laboratory's page.
