------------------------------- MODULE LabPage -------------------------------
(***************************************************************************)
(* The page of a laboratory in the browser: the controller of the page     *)
(* (webclient/apps/lab/lab.controller.js), the frame of the experiment     *)
(* (iframe/experiment-iframe.directive.js) and the library in that frame,  *)
(* weblabjs/weblab.v1.js, which reserves, polls and finishes.  The core    *)
(* server is what its answers are.                                         *)
(*                                                                         *)
(* JavaScript runs one callback at a time.  A step is one callback with    *)
(* all that it calls: a click, a timer, the answer of an asynchronous      *)
(* request.  The request sent by finishExperiment() is synchronous and is  *)
(* part of the step.  A request is served in a step of its own, so that    *)
(* an answer may be old when it is heard.                                  *)
(***************************************************************************)
EXTENDS Naturals, FiniteSets

CONSTANTS
  NumReservations,  \* bound on the reservations made
  Setups,           \* the pages a run has, see SetupType
  Impatience        \* what users do too early, a subset of Hurries

(* A page for a reservation of another server or for the reservations of   *)
(* this one; an experiment that asked for results (onProcessResults) or    *)
(* not; a reservation that this server forwards to another one; a network  *)
(* that loses nothing.                                                     *)
SetupType == [federated : BOOLEAN, expectsPost : BOOLEAN,
              remote : BOOLEAN, reliable : BOOLEAN]

Hurries == {"close_reserving", "close_federated", "finish_twice", "reserve_twice"}

ASSUME PageAssumption == /\ NumReservations \in Nat \ {0}
                         /\ Setups \subseteq SetupType
                         /\ Impatience \subseteq Hurries

Reservations == 1 .. NumReservations
NoReservation == 0

VARIABLES
  setup,      \* the page this is
  srv,        \* status of each reservation at the server
  by,         \* what ended each reservation
  lib,        \* the variables of the WeblabExp of the frame
  page,       \* the scope of the controller
  frame,      \* whether the frame holds the library, or is being left or loaded
  announced,  \* "experimentLoaded" was posted and its two seconds are running
  calls,      \* requests not served, or served and not heard
  timers      \* reservations whose status is asked for again later

vars == <<setup, srv, by, lib, page, frame, announced, calls, timers>>

Statuses == {"none", "waiting", "confirmed", "post", "done", "gone"}
Live(r) == srv[r] \in {"waiting", "confirmed"}

Kinds == {"reserve", "check", "poll", "finish", "post"}
Call(kind, r) == [kind |-> kind, res |-> r, ans |-> "sent", heard |-> TRUE]
InFlight(kinds) == \E c \in calls : c.heard /\ c.kind \in kinds
Timer(kind, r) == [kind |-> kind, res |-> r]

FreshLibrary ==
  [started |-> FALSE, ended |-> FALSE, active |-> FALSE, deactive |-> FALSE,
   polling |-> FALSE, timer |-> FALSE, finishOnClose |-> TRUE,
   reserved |-> FALSE, res |-> NoReservation, results |-> FALSE, threw |-> FALSE]

NewPage ==
  [open |-> TRUE, reserving |-> FALSE, active |-> FALSE, loading |-> TRUE,
   reloading |-> FALSE, loaded |-> FALSE, sentAway |-> NoReservation]

Init ==
  /\ setup \in Setups
  /\ srv \in [Reservations -> {"none", "waiting"}]
  /\ \A r \in Reservations : srv[r] = "waiting" <=> (setup.federated /\ r = 1)
  /\ by = [r \in Reservations |-> "nobody"]
  /\ lib = FreshLibrary
  /\ page = NewPage
  /\ frame = "loading"
  /\ announced = FALSE
  /\ calls = {}
  /\ timers = {}

-----------------------------------------------------------------------------
(* A federated page that has not started with its reservation.            *)
ComesFederated == setup.federated /\ ~page.loaded

(* The server.                                                             *)

Ended(status) == CASE status = "waiting" -> "gone"
                   [] status = "confirmed" -> "post"
                   [] OTHER -> status

EndAtServer(r, who) ==
  /\ srv' = [srv EXCEPT ![r] = Ended(@)]
  /\ by' = [by EXCEPT ![r] = IF Live(r) THEN who ELSE @]

(* The reservation moves on by itself: it gets an instance, its time is    *)
(* over, its results are stored (for longer than a page waits for them).   *)
Promote(r) == srv[r] = "waiting" /\ srv' = [srv EXCEPT ![r] = "confirmed"] /\ UNCHANGED by
TimeOver(r) == srv[r] = "confirmed" /\ EndAtServer(r, "time")
StoreResults(r) == srv[r] = "post" /\ srv' = [srv EXCEPT ![r] = "done"] /\ UNCHANGED by

Server ==
  /\ \E r \in Reservations :
       Promote(r) \/ TimeOver(r) \/ StoreResults(r)
  /\ UNCHANGED <<setup, lib, page, frame, announced, calls, timers>>

(* The answer to a request; nobody hears it if the frame it belongs to is  *)
(* gone.                                                                   *)
Reply(c, r, ans) ==
  calls' = (calls \ {c})
           \cup (IF c.heard THEN {[c EXCEPT !.res = r, !.ans = ans]} ELSE {})

ServeReserve(c) ==
  \/ Reply(c, NoReservation, "fail") /\ UNCHANGED <<srv, by>>
  \/ \E r \in Reservations :
       /\ srv[r] = "none"
       /\ \A q \in 1 .. (r - 1) : srv[q] # "none"
       /\ srv' = [srv EXCEPT ![r] = "waiting"]
       /\ Reply(c, r, "ok")
       /\ UNCHANGED by

ServeStatus(c) ==
  /\ Reply(c, c.res, IF srv[c.res] = "gone" THEN "fail" ELSE srv[c.res])
  /\ UNCHANGED <<srv, by>>

ServePoll(c) ==
  /\ Reply(c, c.res, IF Live(c.res) THEN "ok" ELSE "fail")
  /\ UNCHANGED <<srv, by>>

ServeFinish(c) ==
  /\ EndAtServer(c.res, "user")
  /\ \E ans \in {"ok", "fail"} :
       /\ srv[c.res] # "gone" => ans = "ok"
       /\ Reply(c, c.res, ans)

Serve(kind) ==
  /\ \E c \in calls :
       /\ c.kind = kind /\ c.ans = "sent"
       /\ CASE kind = "reserve" -> ServeReserve(c)
            [] kind \in {"check", "post"} -> ServeStatus(c)
            [] kind = "poll" -> ServePoll(c)
            [] kind = "finish" -> ServeFinish(c)
  /\ UNCHANGED <<setup, lib, page, frame, announced, timers>>

(* A request that does not reach the server, an answer that does not come  *)
(* back.                                                                   *)
Lose ==
  /\ ~setup.reliable
  /\ \E c \in calls : c.ans # "fail" /\ Reply(c, c.res, "fail")
  /\ UNCHANGED <<setup, srv, by, lib, page, frame, announced, timers>>

(* The synchronous finished_experiment request: the outcome ok is what the *)
(* library sees.                                                           *)
SyncFinish(r, who, ok) ==
  \E reached \in BOOLEAN :
    /\ ok => reached
    /\ setup.reliable => reached /\ (ok \/ srv[r] = "gone")
    /\ IF reached THEN EndAtServer(r, who) ELSE UNCHANGED <<srv, by>>

-----------------------------------------------------------------------------
(* The library.                                                            *)

(* Variant: the frame is not loaded again.                                 *)
PageHearsWithoutReload ==
  /\ page' = [page EXCEPT !.active = @ /\ (lib.deactive \/ ~lib'.deactive)]
  /\ UNCHANGED frame

(* When mOnExperimentDeactive is resolved, the controller hides the        *)
(* experiment and the directive sets the source of the frame again.        *)
PageHears ==
  IF ~lib.deactive /\ lib'.deactive
  THEN /\ page' = [page EXCEPT !.active = FALSE, !.reloading = ~setup.federated]
       /\ frame' = "leaving"
  ELSE UNCHANGED <<page, frame>>

(* The end of the interaction, whatever the reason: onFinish callbacks run *)
(* the first time, and the polling timer is cleared; mPolling is not.      *)
Finished(l) == [l EXCEPT !.ended = TRUE, !.active = FALSE, !.timer = FALSE]

(* What a successful finished_experiment request leads to: the results are *)
(* asked for, or the experiment is deactivated.                            *)
AfterFinish(l, ok) == [l EXCEPT !.deactive = @ \/ (ok /\ ~setup.expectsPost)]
AskResults(ok) == IF ok /\ setup.expectsPost THEN {Call("post", lib.res)} ELSE {}

(* finishExperiment(): the server is called even if this is not the first  *)
(* time.                                                                   *)
ForcedFinish(l, cs, who) ==
  \E ok \in BOOLEAN :
    /\ SyncFinish(l.res, who, ok)
    /\ lib' = AfterFinish(Finished(l), ok)
    /\ calls' = cs \cup AskResults(ok)

HearReserve(c) ==
  /\ IF c.ans = "ok"
     THEN /\ lib' = [lib EXCEPT !.reserved = TRUE, !.res = c.res]
          /\ calls' = (calls \ {c}) \cup {Call("check", c.res)}
     ELSE calls' = calls \ {c} /\ UNCHANGED lib
  /\ UNCHANGED <<srv, by, page, frame, timers>>

(* Variant: disableFinishOnClose() is left out.                            *)
StillFinishesOnClose == lib.finishOnClose

(* disableFinishOnClose(), before the page goes to another server.         *)
FinishesOnClose == lib.finishOnClose /\ ~setup.remote

(* The status of a reservation that is being made.  When it is confirmed,  *)
(* a remote reservation takes the page elsewhere; the page is told anyway  *)
(* and calls _reservationReady(), which throws the second time.  A failure *)
(* rejects the promise and the page shows a message.                       *)
HearConfirmed(c) ==
  /\ c.ans = "confirmed"
  /\ LET l == [lib EXCEPT !.finishOnClose = FinishesOnClose]
     IN IF lib.started
        THEN lib' = [l EXCEPT !.threw = TRUE] /\ calls' = calls \ {c}
        ELSE /\ lib' = [l EXCEPT !.started = TRUE, !.active = TRUE,
                                 !.polling = TRUE, !.res = c.res]
             /\ calls' = (calls \ {c}) \cup {Call("poll", c.res)}
  /\ page' = [page EXCEPT !.active = TRUE, !.reserving = FALSE,
                          !.sentAway = IF setup.remote THEN c.res ELSE @]
  /\ UNCHANGED timers

(* Variant: the wrong function is called later.                            *)
HearNotConfirmedWrongTimer(c) ==
  /\ c.ans # "confirmed"
  /\ calls' = calls \ {c}
  /\ timers' = timers \cup (IF c.ans = "waiting" THEN {Timer("reserve", c.res)} ELSE {})
  /\ UNCHANGED <<lib, page>>

HearNotConfirmed(c) ==
  /\ c.ans # "confirmed"
  /\ calls' = calls \ {c}
  /\ lib' = [lib EXCEPT !.results = @ \/ c.ans = "done"]
  /\ timers' = timers \cup (CASE c.ans = "waiting" -> {Timer("check", c.res)}
                              [] c.ans = "post" -> {Timer("post", c.res)}
                              [] OTHER -> {})
  /\ UNCHANGED page

HearCheck(c) ==
  /\ HearConfirmed(c) \/ HearNotConfirmed(c)
  /\ UNCHANGED <<srv, by, frame>>

(* A poll that succeeds is repeated later, if mPolling; one that fails is  *)
(* the sign that the experiment is over.                                   *)
HearGoodPoll(c) ==
  /\ c.ans = "ok"
  /\ lib' = [lib EXCEPT !.timer = @ \/ lib.polling]
  /\ calls' = calls \ {c}
  /\ UNCHANGED <<srv, by>>

(* Variant: a failure is not told to the experiment.                       *)
BadPollIgnored(c) ==
  /\ c.ans = "fail"
  /\ lib' = [lib EXCEPT !.polling = FALSE]
  /\ calls' = calls \ {c}
  /\ UNCHANGED <<srv, by>>

(* Variant: polling goes on after a failure.                               *)
BadPollRepeated(c) ==
  /\ c.ans = "fail"
  /\ lib' = [lib EXCEPT !.timer = TRUE, !.ended = TRUE]
  /\ calls' = calls \ {c}
  /\ UNCHANGED <<srv, by>>

HearBadPoll(c) ==
  /\ c.ans = "fail"
  /\ LET quiet == [lib EXCEPT !.polling = FALSE]
     IN IF lib.finishOnClose
        THEN ForcedFinish(quiet, calls \ {c}, "poll")
        ELSE lib' = quiet /\ calls' = calls \ {c} /\ UNCHANGED <<srv, by>>

HearPoll(c) ==
  /\ HearGoodPoll(c) \/ HearBadPoll(c)
  /\ PageHears
  /\ UNCHANGED timers

HearFinish(c) ==
  /\ lib' = AfterFinish(lib, c.ans = "ok")
  /\ calls' = (calls \ {c}) \cup AskResults(c.ans = "ok")
  /\ PageHears
  /\ UNCHANGED <<srv, by, timers>>

(* Variant: the results are asked for once.                                *)
HearPostOnce(c) ==
  /\ calls' = calls \ {c}
  /\ lib' = [lib EXCEPT !.results = @ \/ c.ans = "done"]
  /\ UNCHANGED <<srv, by, page, frame, timers>>

(* The results: asked for again while the experiment is not finished.      *)
HearPost(c) ==
  /\ calls' = calls \ {c}
  /\ lib' = [lib EXCEPT !.results = @ \/ c.ans = "done"]
  /\ timers' = timers \cup (IF c.ans \in {"confirmed", "post"}
                            THEN {Timer("post", c.res)} ELSE {})
  /\ UNCHANGED <<srv, by, page, frame>>

Hear(kind) ==
  /\ \E c \in calls :
       /\ c.kind = kind /\ c.ans # "sent"
       /\ CASE kind = "reserve" -> HearReserve(c)
            [] kind = "check" -> HearCheck(c)
            [] kind = "poll" -> HearPoll(c)
            [] kind = "finish" -> HearFinish(c)
            [] kind = "post" -> HearPost(c)
  /\ UNCHANGED <<setup, announced>>

PollAgain ==
  /\ lib.timer
  /\ lib' = [lib EXCEPT !.timer = FALSE, !.polling = TRUE]
  /\ calls' = calls \cup {Call("poll", lib.res)}
  /\ UNCHANGED <<setup, srv, by, page, frame, announced, timers>>

AskAgain(kind) ==
  /\ \E t \in timers : /\ t.kind = kind
                       /\ timers' = timers \ {t}
                       /\ calls' = calls \cup {Call(kind, t.res)}
  /\ UNCHANGED <<setup, srv, by, lib, page, frame, announced>>

-----------------------------------------------------------------------------
(* The page and its user.                                                  *)

(* The button of the page asks for a page that is idle and loaded.  The    *)
(* experiment may have a button of its own (startReservation()), which     *)
(* asks for nothing.  A page that is being left reserves no more.          *)
PageButton == ~page.reserving /\ ~page.loading /\ ~page.reloading
              /\ ~page.active
OwnButton == "reserve_twice" \in Impatience \/ (~page.reserving /\ ~page.active)

Reserve ==
  /\ page.open /\ page.sentAway = NoReservation
  /\ frame = "ready" /\ ~setup.federated
  /\ PageButton \/ OwnButton
  /\ srv[NumReservations] = "none" /\ Call("reserve", NoReservation) \notin calls
  /\ page' = [page EXCEPT !.reserving = TRUE]
  /\ calls' = calls \cup {Call("reserve", NoReservation)}
  /\ UNCHANGED <<setup, srv, by, lib, frame, announced, timers>>

(* The Finish button: cleanExperiment().  The first time the server is     *)
(* asked, later the experiment is only deactivated.                        *)
CleanExperiment ==
  /\ page.open /\ page.active /\ ~page.loading /\ ~page.reloading
  /\ frame = "ready"
  /\ "finish_twice" \in Impatience \/ ~InFlight({"finish"})
  /\ IF lib.ended
     THEN lib' = [Finished(lib) EXCEPT !.deactive = TRUE] /\ UNCHANGED calls
     ELSE lib' = Finished(lib) /\ calls' = calls \cup {Call("finish", lib.res)}
  /\ PageHears
  /\ UNCHANGED <<setup, srv, by, announced, timers>>

(* finishExperiment(), by the code of the experiment.                      *)
FinishExperiment ==
  /\ page.open /\ frame = "ready" /\ lib.started
  /\ ForcedFinish(lib, calls, "user")
  /\ PageHears
  /\ UNCHANGED <<setup, announced, timers>>

(* The frame holds a new library, which posts experimentLoaded.  So does   *)
(* the instance that reset() makes in the frame that is being left.        *)
FrameLoads ==
  /\ page.open /\ frame = "loading"
  /\ frame' = "ready" /\ announced' = TRUE
  /\ UNCHANGED <<setup, srv, by, lib, page, calls, timers>>

ResetAnnounces ==
  /\ page.open /\ frame = "leaving"
  /\ announced' = TRUE
  /\ UNCHANGED <<setup, srv, by, lib, page, frame, calls, timers>>

(* Two seconds later.  The first time, a federated page starts with the    *)
(* reservation it was given: it asks for its status only.                  *)
MarkAsLoaded ==
  /\ page.open /\ announced /\ frame # "leaving"
  /\ announced' = FALSE
  /\ LET start == ComesFederated
     IN /\ page' = [page EXCEPT !.loading = FALSE, !.reloading = FALSE,
                                !.loaded = TRUE, !.reserving = @ \/ start]
        /\ calls' = calls \cup (IF start THEN {Call("check", 1)} ELSE {})
  /\ UNCHANGED <<setup, srv, by, lib, frame, timers>>

(* Variant: mReservationStarted is not looked at.                          *)
FinishActiveOnUnload ==
  IF lib.finishOnClose /\ lib.active
  THEN \E ok \in BOOLEAN : SyncFinish(lib.res, "close", ok)
  ELSE UNCHANGED <<srv, by>>

(* beforeunload: the library finishes what it reserved or what is active.  *)
FinishOnUnload ==
  IF lib.finishOnClose /\ (lib.active \/ lib.reserved)
  THEN \E ok \in BOOLEAN : SyncFinish(lib.res, "close", ok)
  ELSE UNCHANGED <<srv, by>>

(* Requests of a document that is left may still be served: those that the *)
(* server does something for.                                              *)
Abandoned == {[c EXCEPT !.heard = FALSE] :
              c \in {d \in calls : d.ans = "sent" /\ d.kind \in {"reserve", "finish"}}}

(* Frame and library are made anew after each reservation.                 *)
Unload ==
  /\ page.open /\ frame = "leaving"
  /\ FinishOnUnload
  /\ lib' = FreshLibrary /\ frame' = "loading"
  /\ calls' = Abandoned /\ timers' = {}
  /\ UNCHANGED <<setup, page, announced>>

LeavePage ==
  /\ page.open
  /\ FinishOnUnload
  /\ page' = [page EXCEPT !.open = FALSE]
  /\ calls' = Abandoned /\ timers' = {}
  /\ lib' = [lib EXCEPT !.timer = FALSE]
  /\ UNCHANGED <<setup, frame, announced>>

(* The user closes the window.  Impatience: while the answer to a request  *)
(* that reserves or finishes is on its way; while a federated page waits.  *)
(* A federated page is not closed before it is loaded.                     *)
CloseWindow ==
  /\ InFlight({"reserve", "finish"}) => "close_reserving" \in Impatience
  /\ ~ComesFederated
  /\ setup.federated /\ page.reserving => "close_federated" \in Impatience
  /\ LeavePage

(* location.replace() takes effect.                                        *)
GoToRemote == page.sentAway # NoReservation /\ LeavePage

Next ==
  \/ Server \/ Lose \/ PollAgain
  \/ \E kind \in Kinds : Serve(kind) \/ Hear(kind)
  \/ \E kind \in {"check", "post"} : AskAgain(kind)
  \/ Reserve \/ CleanExperiment \/ FinishExperiment
  \/ FrameLoads \/ ResetAnnounces \/ MarkAsLoaded
  \/ Unload \/ CloseWindow \/ GoToRemote

Spec == Init /\ [][Next]_vars

(* Requests are answered, answers are heard and timers fire; the server    *)
(* stores the results of what is over.  Users need not do anything.        *)
Fairness ==
  /\ \A kind \in Kinds : WF_vars(Serve(kind)) /\ WF_vars(Hear(kind))
  /\ \A kind \in {"check", "post"} : WF_vars(AskAgain(kind))
  /\ WF_vars(PollAgain)
  /\ \A r \in Reservations :
       WF_vars(StoreResults(r) /\ UNCHANGED <<setup, lib, page, frame, announced, calls, timers>>)

FairSpec == Spec /\ Fairness

-----------------------------------------------------------------------------
(* Properties.                                                             *)

TypeOK ==
  /\ setup \in Setups
  /\ srv \in [Reservations -> Statuses]
  /\ by \in [Reservations -> {"nobody", "time", "user", "poll", "close"}]
  /\ lib \in [started : BOOLEAN, ended : BOOLEAN, active : BOOLEAN,
              deactive : BOOLEAN, polling : BOOLEAN, timer : BOOLEAN,
              finishOnClose : BOOLEAN, reserved : BOOLEAN,
              res : Reservations \cup {NoReservation}, results : BOOLEAN,
              threw : BOOLEAN]
  /\ page \in [open : BOOLEAN, reserving : BOOLEAN, active : BOOLEAN,
               loading : BOOLEAN, reloading : BOOLEAN, loaded : BOOLEAN,
               sentAway : Reservations \cup {NoReservation}]
  /\ frame \in {"loading", "ready", "leaving"}
  /\ announced \in BOOLEAN
  /\ calls \subseteq [kind : Kinds, res : Reservations \cup {NoReservation},
                      ans : {"sent", "ok", "fail"} \cup Statuses, heard : BOOLEAN]
  /\ timers \subseteq [kind : {"check", "post"}, res : Reservations]

(* "When closing the current window, send a finish() message to the server *)
(* (so somebody else can use the lab)", weblab.v1.js:113: a reservation    *)
(* that is waiting or confirmed belongs to a page that is open and shows   *)
(* it, unless another server took it over.                                 *)
NobodyHeldUp ==
  setup.reliable =>
    \A r \in Reservations :
      Live(r) => \/ page.open /\ (page.reserving \/ page.active \/ ComesFederated)
                 \/ page.sentAway = r

(* A library is used for one reservation: _reservationReady never throws.  *)
OneReservationEach == ~lib.threw

(* A reservation that went to another server is not finished here because  *)
(* of the page that was left or of a poll that failed in the meantime.     *)
RemoteIsKept ==
  \A r \in Reservations : page.sentAway = r => by[r] \notin {"poll", "close"}

(* An experiment whose reservation is over at the server is told           *)
(* (onFinish): _startPolling goes on until then, whatever is lost.         *)
EndIsNoticed ==
  (/\ page.open /\ lib.started /\ lib.finishOnClose
   /\ lib.res \in Reservations /\ ~Live(lib.res))
    ~> (lib.ended \/ ~lib.started \/ ~page.open)

(* Polling ends after the experiment: a poll that was on its way when the  *)
(* experiment finished starts the polling again, but not for ever.         *)
PollingStops ==
  setup.reliable => <>[](lib.ended => ~lib.timer /\ ~InFlight({"poll"}))

(* The results an experiment asked for arrive after its end, unless they   *)
(* are forgotten or nobody is there to see them.                           *)
ResultsArrive ==
  (setup.reliable /\ setup.expectsPost /\ lib.ended)
    ~> (\/ lib.results \/ ~lib.ended \/ ~page.open
        \/ srv[lib.res] = "gone")

=============================================================================
