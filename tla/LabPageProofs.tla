--------------------------- MODULE LabPageProofs ---------------------------
(***************************************************************************)
(* Theorems of LabPage: for any number of reservations and any sorts of    *)
(* page.  PageInv is the inductive invariant of a page whose user does not *)
(* reserve twice, whatever else he does too early and whatever the network *)
(* loses.  HeldInv strengthens it for a user who waits, and carries where  *)
(* the page keeps each reservation that lives.                             *)
(***************************************************************************)
EXTENDS LabPage, TLAPS

(* The parts of the type.                                                  *)
CallType == [kind : Kinds, res : Reservations \cup {NoReservation},
             ans : {"sent", "ok", "fail"} \cup Statuses, heard : BOOLEAN]

LibType == [started : BOOLEAN, ended : BOOLEAN, active : BOOLEAN,
            deactive : BOOLEAN, polling : BOOLEAN, timer : BOOLEAN,
            finishOnClose : BOOLEAN, reserved : BOOLEAN,
            res : Reservations \cup {NoReservation}, results : BOOLEAN,
            threw : BOOLEAN]

PageType == [open : BOOLEAN, reserving : BOOLEAN, active : BOOLEAN,
             loading : BOOLEAN, reloading : BOOLEAN, loaded : BOOLEAN,
             sentAway : Reservations \cup {NoReservation}]

ServerType ==
  /\ srv \in [Reservations -> Statuses]
  /\ by \in [Reservations -> {"nobody", "time", "user", "poll", "close"}]

(* What leads to the start of the library.                                 *)
StartCalls == {c \in calls : c.heard /\ c.kind \in {"reserve", "check"}}
StartTimers == {t \in timers : t.kind = "check"}

(* A reservation is being made: its request or a question for its status is *)
(* on its way, or the status will be asked for later.                      *)
Starting == StartCalls # {} \/ StartTimers # {}

(* One reservation is being made at a time.                                *)
OneStart ==
  /\ \A c, d \in StartCalls : c = d
  /\ \A s, t \in StartTimers : s = t
  /\ StartCalls = {} \/ StartTimers = {}

(* It is made by an open page with a library that has not started.         *)
StartsFresh ==
  /\ Starting => /\ page.open /\ page.reserving /\ page.sentAway = NoReservation
                 /\ ~ComesFederated /\ ~lib.started
  /\ ComesFederated => /\ page.open /\ page.sentAway = NoReservation
                       /\ ~lib.started /\ ~lib.reserved

(* Requests name reservations; only an open page hears; a library polls and *)
(* finishes after it has started.                                          *)
CallsFit ==
  /\ \A c \in calls :
       /\ c.kind # "reserve" \/ c.ans = "ok" => c.res \in Reservations
       /\ c.heard => page.open
       /\ c.heard \/ c.ans = "sent"
       /\ c.heard /\ c.kind \in {"poll", "finish"} => lib.started
  /\ timers # {} \/ lib.timer => page.open

(* How the variables of the library agree with those of the page.          *)
LibraryFits ==
  /\ lib.started \/ lib.reserved => lib.res \in Reservations
  /\ lib.active \/ lib.timer \/ lib.ended \/ lib.deactive => lib.started
  /\ lib.started => lib.active \/ lib.ended
  /\ lib.deactive <=> frame = "leaving"
  /\ page.active <=> lib.started /\ frame # "leaving"
  /\ lib.finishOnClose <=> ~(lib.started /\ setup.remote)

(* A library whose reservation went elsewhere does not finish on close, so  *)
(* that nothing ends by a poll, and by a close only if the page is gone and *)
(* was never sent away.                                                    *)
SentAway ==
  /\ page.sentAway # NoReservation => setup.remote /\ (lib.reserved => lib.started)
  /\ setup.remote =>
       /\ lib.started => page.sentAway = lib.res
       /\ \A r \in Reservations :
            /\ by[r] # "poll"
            /\ by[r] = "close" => ~page.open /\ page.sentAway # r

PageInv ==
  /\ TypeOK /\ OneStart /\ StartsFresh /\ CallsFit /\ LibraryFits /\ SentAway
  /\ ~lib.threw

-----------------------------------------------------------------------------
(* The first invariant.                                                    *)

LEMMA InitPage == Init => PageInv
  <1> SUFFICES ASSUME Init PROVE PageInv OBVIOUS
  <1> USE PageAssumption DEF Init, NoReservation, FreshLibrary, NewPage
  <1>1. TypeOK BY DEF TypeOK, Reservations, Statuses, SetupType
  <1>2. OneStart BY DEF OneStart, StartCalls, StartTimers
  <1>3. StartsFresh BY DEF StartsFresh, Starting, StartCalls, StartTimers, ComesFederated
  <1>4. CallsFit BY DEF CallsFit
  <1>5. LibraryFits BY DEF LibraryFits
  <1>6. SentAway BY DEF SentAway
  <1> QED BY <1>1, <1>2, <1>3, <1>4, <1>5, <1>6 DEF PageInv

LEMMA ServerKeeps == ASSUME PageInv, Server PROVE PageInv'
  <1> USE DEF PageInv, Server
  <1>1. TypeOK' BY DEF TypeOK, Promote, TimeOver, StoreResults, EndAtServer, Ended, Live, Statuses
  <1>2. OneStart' BY DEF OneStart, StartCalls, StartTimers
  <1>3. StartsFresh' BY DEF StartsFresh, Starting, StartCalls, StartTimers, ComesFederated
  <1>4. CallsFit' BY DEF CallsFit
  <1>5. LibraryFits' BY DEF LibraryFits
  <1>6. SentAway' BY DEF SentAway, Promote, TimeOver, StoreResults, EndAtServer, TypeOK
  <1>7. ~lib'.threw OBVIOUS
  <1> QED BY <1>1, <1>2, <1>3, <1>4, <1>5, <1>6, <1>7

LEMMA PollAgainKeeps == ASSUME PageInv, PollAgain PROVE PageInv'
  <1> USE DEF PageInv, PollAgain
  <1> DEFINE c == Call("poll", lib.res)
  <1>0. /\ c \in [kind : Kinds, res : Reservations \cup {NoReservation},
                      ans : {"sent", "ok", "fail"} \cup Statuses, heard : BOOLEAN]
        /\ c.kind = "poll" /\ c.res = lib.res /\ c.ans = "sent" /\ c.heard
        /\ lib.started /\ lib.res \in Reservations /\ page.open
    BY DEF Call, Kinds, LibraryFits, CallsFit
  <1>9. lib' \in [started : BOOLEAN, ended : BOOLEAN, active : BOOLEAN,
              deactive : BOOLEAN, polling : BOOLEAN, timer : BOOLEAN,
              finishOnClose : BOOLEAN, reserved : BOOLEAN,
              res : Reservations \cup {NoReservation}, results : BOOLEAN,
              threw : BOOLEAN]
        /\ lib'.started = lib.started /\ lib'.ended = lib.ended
        /\ lib'.active = lib.active /\ lib'.deactive = lib.deactive /\ lib'.timer = FALSE
        /\ lib'.finishOnClose = lib.finishOnClose /\ lib'.reserved = lib.reserved
        /\ lib'.res = lib.res /\ lib'.threw = lib.threw
    BY DEF TypeOK
  <1> HIDE DEF c
  <1>1. TypeOK' BY <1>0, <1>9 DEF TypeOK, c
  <1>2. StartCalls' = StartCalls /\ StartTimers' = StartTimers BY <1>0 DEF StartCalls, StartTimers, c
  <1>3. OneStart' BY <1>2 DEF OneStart
  <1>4. StartsFresh' BY <1>2, <1>9 DEF StartsFresh, Starting, ComesFederated
  <1>5. CallsFit' BY <1>0, <1>9 DEF CallsFit, c
  <1>6. LibraryFits' BY <1>9, <1>0 DEF LibraryFits
  <1>7. SentAway' BY <1>9 DEF SentAway
  <1> QED BY <1>1, <1>3, <1>4, <1>5, <1>6, <1>7, <1>9

-----------------------------------------------------------------------------
(* What ends at the server, and what an answer leaves as it was.           *)

LEMMA EndsOne ==
  ASSUME TypeOK, NEW r, NEW who \in {"time", "user", "poll", "close"},
         EndAtServer(r, who)
  PROVE  /\ ServerType'
         /\ \A q \in Reservations : by'[q] = by[q] \/ (q = r /\ by'[q] = who)
  BY DEF EndAtServer, TypeOK, ServerType, Ended, Live, Statuses

LEMMA SyncEndsOne ==
  ASSUME TypeOK, NEW r, NEW who \in {"time", "user", "poll", "close"},
         NEW ok, SyncFinish(r, who, ok)
  PROVE  /\ ServerType'
         /\ \A q \in Reservations : by'[q] = by[q] \/ (q = r /\ by'[q] = who)
  BY EndsOne DEF SyncFinish, TypeOK, ServerType

LEMMA UnloadEndsOne ==
  ASSUME TypeOK, FinishOnUnload
  PROVE  /\ ServerType'
         /\ \A q \in Reservations :
              \/ by'[q] = by[q]
              \/ /\ q = lib.res /\ by'[q] = "close"
                 /\ lib.finishOnClose /\ (lib.active \/ lib.reserved)
  BY SyncEndsOne DEF FinishOnUnload, TypeOK, ServerType

LEMMA ReplyKeeps ==
  ASSUME PageInv, NEW c \in calls, NEW r \in Reservations \cup {NoReservation},
         NEW ans \in {"ok", "fail"} \cup Statuses,
         Reply(c, r, ans),
         c.kind # "reserve" \/ ans = "ok" => r \in Reservations,
         ServerType', SentAway',
         UNCHANGED <<setup, lib, page, frame, announced, timers>>
  PROVE  PageInv'
  <1> USE DEF PageInv
  <1> DEFINE d == [c EXCEPT !.res = r, !.ans = ans]
  <1>1. c \in CallType BY DEF TypeOK, CallType
  <1>2. /\ d \in CallType /\ d.kind = c.kind /\ d.heard = c.heard
        /\ d.res = r /\ d.ans = ans
    BY <1>1 DEF CallType
  <1>3. calls' = (calls \ {c}) \cup (IF c.heard THEN {d} ELSE {}) BY DEF Reply
  <1> HIDE DEF d
  <1>4. TypeOK' BY <1>2, <1>3 DEF TypeOK, CallType, ServerType
  <1>5. OneStart' BY <1>2, <1>3 DEF OneStart, StartCalls, StartTimers
  <1>6. StartsFresh' BY <1>2, <1>3 DEF StartsFresh, Starting, StartCalls, StartTimers, ComesFederated
  <1>7. CallsFit' BY <1>2, <1>3 DEF CallsFit
  <1>8. LibraryFits' BY DEF LibraryFits
  <1> QED BY <1>4, <1>5, <1>6, <1>7, <1>8

LEMMA ServeKeeps ==
  ASSUME PageInv, NEW kind \in Kinds, Serve(kind)
  PROVE  PageInv'
  <1> USE DEF PageInv
  <1>0. PICK c \in calls : /\ c.kind = kind /\ c.ans = "sent"
                           /\ CASE kind = "reserve" -> ServeReserve(c)
                                [] kind \in {"check", "post"} -> ServeStatus(c)
                                [] kind = "poll" -> ServePoll(c)
                                [] kind = "finish" -> ServeFinish(c)
    BY DEF Serve
  <1>1. UNCHANGED <<setup, lib, page, frame, announced, timers>> BY DEF Serve
  <1>2. c \in CallType BY DEF TypeOK, CallType
  <1>3. kind # "reserve" => c.res \in Reservations BY <1>0 DEF CallsFit
  <1>4. UNCHANGED by => SentAway' BY <1>1 DEF SentAway
  <1>5. UNCHANGED <<srv, by>> => ServerType' BY DEF ServerType, TypeOK
  <1>6. CASE kind = "reserve"
    <2>0. ServeReserve(c) BY <1>0, <1>6
    <2>1. CASE Reply(c, NoReservation, "fail") /\ UNCHANGED <<srv, by>>
      BY <2>1, <1>0, <1>1, <1>4, <1>5, <1>6, ReplyKeeps
    <2>2. ASSUME NEW r \in Reservations, srv' = [srv EXCEPT ![r] = "waiting"],
                 Reply(c, r, "ok"), UNCHANGED by
          PROVE  PageInv'
      <3>1. ServerType' BY <2>2 DEF TypeOK, ServerType, Statuses
      <3> QED BY <2>2, <3>1, <1>0, <1>1, <1>4, ReplyKeeps
    <2> QED BY <2>0, <2>1, <2>2 DEF ServeReserve
  <1>7. CASE kind \in {"check", "post"}
    <2>1. srv[c.res] \in Statuses BY <1>3, <1>7 DEF TypeOK
    <2>2. ServeStatus(c) BY <1>0, <1>7
    <2>3. PICK ans \in {"ok", "fail"} \cup Statuses : Reply(c, c.res, ans)
      BY <2>1, <2>2 DEF ServeStatus
    <2>4. UNCHANGED <<srv, by>> BY <2>2 DEF ServeStatus
    <2> QED BY <2>3, <2>4, <1>1, <1>3, <1>4, <1>5, <1>7, ReplyKeeps
  <1>8. CASE kind = "poll"
    <2>1. ServePoll(c) BY <1>0, <1>8
    <2>2. PICK ans \in {"ok", "fail"} : Reply(c, c.res, ans) BY <2>1 DEF ServePoll
    <2>3. UNCHANGED <<srv, by>> BY <2>1 DEF ServePoll
    <2> QED BY <2>2, <2>3, <1>1, <1>3, <1>4, <1>5, <1>8, ReplyKeeps
  <1>9. CASE kind = "finish"
    <2>1. ServeFinish(c) BY <1>0, <1>9
    <2>2. PICK ans \in {"ok", "fail"} : Reply(c, c.res, ans) BY <2>1 DEF ServeFinish
    <2>3. EndAtServer(c.res, "user") BY <2>1 DEF ServeFinish
    <2>4. /\ ServerType'
          /\ \A q \in Reservations : by'[q] = by[q] \/ by'[q] = "user"
      BY <2>3, EndsOne
    <2>5. SentAway' BY <2>4, <1>1 DEF SentAway
    <2> QED BY <2>2, <2>4, <2>5, <1>1, <1>3, <1>9, ReplyKeeps
  <1> QED BY <1>6, <1>7, <1>8, <1>9 DEF Kinds

LEMMA LoseKeeps == ASSUME PageInv, Lose PROVE PageInv'
  <1> USE DEF PageInv
  <1>1. PICK c \in calls : c.ans # "fail" /\ Reply(c, c.res, "fail") BY DEF Lose
  <1>2. UNCHANGED <<setup, srv, by, lib, page, frame, announced, timers>> BY DEF Lose
  <1>3. c \in CallType BY DEF TypeOK, CallType
  <1>4. c.res \in Reservations \cup {NoReservation} BY <1>3 DEF CallType
  <1>5. c.kind # "reserve" => c.res \in Reservations BY DEF CallsFit
  <1>6. ServerType' BY <1>2 DEF TypeOK, ServerType
  <1>7. SentAway' BY <1>2 DEF SentAway
  <1> QED BY <1>1, <1>2, <1>4, <1>5, <1>6, <1>7, ReplyKeeps

LEMMA AskAgainKeeps ==
  ASSUME PageInv, NEW kind \in {"check", "post"}, AskAgain(kind)
  PROVE  PageInv'
  <1> USE DEF PageInv
  <1>1. PICK t \in timers : /\ t.kind = kind /\ timers' = timers \ {t}
                            /\ calls' = calls \cup {Call(kind, t.res)}
    BY DEF AskAgain
  <1>2. UNCHANGED <<setup, srv, by, lib, page, frame, announced>> BY DEF AskAgain
  <1> DEFINE c == Call(kind, t.res)
  <1>3. t.res \in Reservations BY DEF TypeOK
  <1>4. /\ c \in CallType /\ c.kind = kind /\ c.res = t.res /\ c.ans = "sent"
        /\ c.heard
    BY <1>3 DEF Call, CallType, Kinds
  <1>5. calls' = calls \cup {c} BY <1>1
  <1> HIDE DEF c
  <1>6. page.open BY DEF CallsFit
  <1>7. TypeOK' BY <1>1, <1>2, <1>4, <1>5 DEF TypeOK, CallType
  <1>8. OneStart' BY <1>1, <1>4, <1>5 DEF OneStart, StartCalls, StartTimers
  <1>9. Starting' => Starting
    BY <1>1, <1>4, <1>5 DEF Starting, StartCalls, StartTimers
  <1>10. StartsFresh' BY <1>2, <1>9 DEF StartsFresh, ComesFederated
  <1>11. CallsFit' BY <1>1, <1>2, <1>3, <1>4, <1>5, <1>6 DEF CallsFit
  <1>12. LibraryFits' BY <1>2 DEF LibraryFits
  <1>13. SentAway' BY <1>2 DEF SentAway
  <1> QED BY <1>2, <1>7, <1>8, <1>10, <1>11, <1>12, <1>13

LEMMA ReserveKeeps ==
  ASSUME PageInv, Reserve, "reserve_twice" \notin Impatience
  PROVE  PageInv'
  <1> USE DEF PageInv
  <1> DEFINE c == Call("reserve", NoReservation)
  <1>1. /\ c \in CallType /\ c.kind = "reserve" /\ c.res = NoReservation
        /\ c.ans = "sent" /\ c.heard
    BY DEF Call, CallType, Kinds
  <1>2. /\ calls' = calls \cup {c} /\ page' = [page EXCEPT !.reserving = TRUE]
        /\ page.open /\ page.sentAway = NoReservation /\ frame = "ready"
        /\ ~setup.federated /\ ~page.reserving /\ ~page.active
        /\ UNCHANGED <<setup, srv, by, lib, frame, announced, timers>>
    BY DEF Reserve, PageButton, OwnButton
  <1> HIDE DEF c
  <1>3. ~Starting BY <1>2 DEF StartsFresh
  <1>4. ~lib.started BY <1>2 DEF LibraryFits
  <1>5. TypeOK'
    <2>1. page' \in PageType BY <1>2 DEF TypeOK, PageType
    <2>2. calls' \subseteq CallType BY <1>1, <1>2 DEF TypeOK, CallType
    <2>3. UNCHANGED <<setup, srv, by, lib, frame, announced, timers>> BY <1>2
    <2> QED BY <2>1, <2>2, <2>3 DEF TypeOK, CallType, PageType
  <1>6. OneStart' BY <1>1, <1>2, <1>3 DEF OneStart, Starting, StartCalls, StartTimers
  <1>7. StartsFresh' BY <1>2, <1>4 DEF StartsFresh, ComesFederated, TypeOK
  <1>8. CallsFit' BY <1>1, <1>2 DEF CallsFit, TypeOK
  <1>9. LibraryFits' BY <1>2 DEF LibraryFits, TypeOK
  <1>10. SentAway' BY <1>2 DEF SentAway, TypeOK
  <1> QED BY <1>2, <1>5, <1>6, <1>7, <1>8, <1>9, <1>10

LEMMA HearReserveKeeps ==
  ASSUME PageInv, NEW c \in calls, c.kind = "reserve", c.ans # "sent",
         HearReserve(c), UNCHANGED <<setup, announced>>
  PROVE  PageInv'
  <1> USE DEF PageInv
  <1>1. /\ c \in StartCalls /\ ~lib.started /\ page.open
        /\ StartTimers = {} /\ StartCalls = {c}
    BY DEF CallsFit, StartCalls, OneStart, StartsFresh, Starting
  <1>2. UNCHANGED <<setup, srv, by, page, frame, announced, timers>>
    BY DEF HearReserve
  <1>3. CASE c.ans = "ok"
    <2> DEFINE d == Call("check", c.res)
    <2>1. c.res \in Reservations BY <1>3 DEF CallsFit
    <2>2. /\ d \in CallType /\ d.kind = "check" /\ d.res = c.res
          /\ d.ans = "sent" /\ d.heard
      BY <2>1 DEF Call, CallType, Kinds
    <2>3. /\ calls' = (calls \ {c}) \cup {d}
          /\ lib' = [lib EXCEPT !.reserved = TRUE, !.res = c.res]
      BY <1>3 DEF HearReserve
    <2> HIDE DEF d
    <2>4. TypeOK'
      <3>1. lib' \in LibType BY <2>1, <2>3 DEF TypeOK, LibType
      <3>2. calls' \subseteq CallType BY <2>2, <2>3 DEF TypeOK, CallType
      <3> QED BY <1>2, <3>1, <3>2 DEF TypeOK, CallType, LibType
    <2>5. OneStart' BY <1>1, <1>2, <2>2, <2>3 DEF OneStart, StartCalls, StartTimers
    <2>6. StartsFresh'
      BY <1>1, <1>2, <2>2, <2>3 DEF StartsFresh, Starting, ComesFederated, TypeOK
    <2>7. CallsFit' BY <1>1, <1>2, <2>1, <2>2, <2>3 DEF CallsFit, TypeOK
    <2>8. LibraryFits' BY <1>1, <1>2, <2>1, <2>3 DEF LibraryFits, TypeOK
    <2>9. SentAway' BY <1>1, <1>2, <2>3 DEF SentAway, StartsFresh, Starting, TypeOK
    <2> QED BY <2>3, <2>4, <2>5, <2>6, <2>7, <2>8, <2>9 DEF TypeOK
  <1>4. CASE c.ans # "ok"
    <2>1. calls' = calls \ {c} /\ UNCHANGED lib BY <1>4 DEF HearReserve
    <2>2. TypeOK' BY <1>2, <2>1 DEF TypeOK
    <2>3. OneStart' BY <1>2, <2>1 DEF OneStart, StartCalls, StartTimers
    <2>4. StartsFresh'
      BY <1>2, <2>1 DEF StartsFresh, Starting, StartCalls, StartTimers, ComesFederated
    <2>5. CallsFit' BY <1>2, <2>1 DEF CallsFit
    <2>6. LibraryFits' BY <1>2, <2>1 DEF LibraryFits
    <2>7. SentAway' BY <1>2, <2>1 DEF SentAway
    <2> QED BY <2>1, <2>2, <2>3, <2>4, <2>5, <2>6, <2>7
  <1> QED BY <1>3, <1>4

LEMMA HearConfirmedKeeps ==
  ASSUME PageInv, NEW c \in calls, c.kind = "check",
         HearConfirmed(c), UNCHANGED <<setup, srv, by, frame, announced>>
  PROVE  PageInv'
  <1> USE DEF PageInv
  <1> DEFINE d == Call("poll", c.res)
  <1>1. /\ c.heard /\ c.res \in Reservations /\ page.open
        /\ c \in StartCalls
        /\ ~lib.started /\ ~ComesFederated /\ StartTimers = {}
        /\ StartCalls = {c}
    BY DEF HearConfirmed, CallsFit, StartCalls, OneStart, StartsFresh, Starting
  <1>2. /\ d \in CallType /\ d.kind = "poll" /\ d.res = c.res
        /\ d.ans = "sent" /\ d.heard
    BY <1>1 DEF Call, CallType, Kinds
  <1>3. /\ lib' = [[lib EXCEPT !.finishOnClose = FinishesOnClose]
                     EXCEPT !.started = TRUE, !.active = TRUE,
                            !.polling = TRUE, !.res = c.res]
        /\ calls' = (calls \ {c}) \cup {d}
        /\ page' = [page EXCEPT !.active = TRUE, !.reserving = FALSE,
                          !.sentAway = IF setup.remote THEN c.res ELSE @]
        /\ UNCHANGED <<setup, srv, by, frame, announced, timers>>
    BY <1>1 DEF HearConfirmed
  <1>4. FinishesOnClose \in BOOLEAN /\ FinishesOnClose <=> ~setup.remote
    BY <1>1 DEF FinishesOnClose, TypeOK, LibraryFits
  <1>5. ~Starting' BY <1>1, <1>2, <1>3 DEF Starting, StartCalls, StartTimers
  <1> HIDE DEF d
  <1>6. TypeOK'
    <2> DEFINE l == [lib EXCEPT !.finishOnClose = FinishesOnClose]
    <2>0. l \in LibType
      BY PageAssumption DEF TypeOK, LibType, SetupType, FinishesOnClose
    <2>00. lib' = [l EXCEPT !.started = TRUE, !.active = TRUE,
                            !.polling = TRUE, !.res = c.res]
      BY <1>3
    <2> HIDE DEF l
    <2>1. lib' \in LibType BY <1>1, <2>0, <2>00 DEF LibType
    <2>2. page' \in PageType BY <1>1, <1>3 DEF TypeOK, PageType
    <2>3. calls' \subseteq CallType BY <1>2, <1>3 DEF TypeOK, CallType
    <2> QED BY <2>1, <2>2, <2>3, <1>3 DEF TypeOK, LibType, PageType, CallType
  <1>7. /\ lib'.started /\ lib'.active /\ lib'.res = c.res
        /\ lib'.finishOnClose = FinishesOnClose
        /\ lib'.reserved = lib.reserved /\ lib'.timer = lib.timer
        /\ lib'.ended = lib.ended /\ lib'.deactive = lib.deactive
        /\ lib'.threw = lib.threw
    BY <1>3 DEF TypeOK
  <1>8. /\ page'.active /\ page'.open = page.open /\ page'.loaded = page.loaded
        /\ page'.sentAway = IF setup.remote THEN c.res ELSE page.sentAway
    BY <1>3 DEF TypeOK
  <1>9. OneStart' BY <1>5 DEF OneStart, Starting
  <1>10. StartsFresh' BY <1>1, <1>3, <1>5, <1>8 DEF StartsFresh, ComesFederated
  <1>11. CallsFit' BY <1>1, <1>2, <1>3, <1>7, <1>8 DEF CallsFit
  <1>12. frame # "leaving" BY <1>1 DEF LibraryFits
  <1>13. LibraryFits' BY <1>1, <1>3, <1>4, <1>7, <1>8, <1>12 DEF LibraryFits
  <1>14. SentAway' BY <1>1, <1>3, <1>7, <1>8 DEF SentAway
  <1> QED BY <1>6, <1>7, <1>9, <1>10, <1>11, <1>13, <1>14

LEMMA HearNotConfirmedKeeps ==
  ASSUME PageInv, NEW c \in calls, c.kind = "check", c.ans # "sent",
         HearNotConfirmed(c), UNCHANGED <<setup, srv, by, frame, announced>>
  PROVE  PageInv'
  <1> USE DEF PageInv
  <1> DEFINE more == CASE c.ans = "waiting" -> {Timer("check", c.res)}
                       [] c.ans = "post" -> {Timer("post", c.res)}
                       [] OTHER -> {}
  <1>1. /\ c.heard /\ c.res \in Reservations /\ page.open
        /\ c \in StartCalls /\ StartTimers = {} /\ StartCalls = {c} /\ Starting
    BY DEF CallsFit, StartCalls, OneStart, Starting
  <1>2. /\ \A t \in more : t \in [kind : {"check", "post"}, res : Reservations]
        /\ \A s, t \in more : s = t
    BY <1>1 DEF Timer
  <1>3. /\ lib' = [lib EXCEPT !.results = @ \/ c.ans = "done"]
        /\ calls' = calls \ {c} /\ timers' = timers \cup more
        /\ UNCHANGED <<setup, srv, by, page, frame, announced>>
    BY DEF HearNotConfirmed
  <1> HIDE DEF more
  <1>4. TypeOK'
    <2>1. lib' \in LibType BY <1>3 DEF TypeOK, LibType
    <2>2. timers' \subseteq [kind : {"check", "post"}, res : Reservations]
      BY <1>2, <1>3 DEF TypeOK
    <2>3. calls' \subseteq calls BY <1>3
    <2>4. UNCHANGED <<setup, srv, by, page, frame, announced>> BY <1>3
    <2> QED BY <2>1, <2>2, <2>3, <2>4 DEF TypeOK, LibType
  <1>5. OneStart' BY <1>1, <1>2, <1>3 DEF OneStart, StartCalls, StartTimers
  <1>6. StartsFresh' BY <1>1, <1>3 DEF StartsFresh, ComesFederated, TypeOK
  <1>7. CallsFit' BY <1>1, <1>3 DEF CallsFit, TypeOK
  <1>8. LibraryFits' BY <1>3 DEF LibraryFits, TypeOK
  <1>9. SentAway' BY <1>3 DEF SentAway, TypeOK
  <1> QED BY <1>3, <1>4, <1>5, <1>6, <1>7, <1>8, <1>9 DEF TypeOK

LEMMA HearPostKeeps ==
  ASSUME PageInv, NEW c \in calls, c.kind = "post", c.ans # "sent",
         HearPost(c), UNCHANGED <<setup, announced>>
  PROVE  PageInv'
  <1> USE DEF PageInv
  <1> DEFINE more == IF c.ans \in {"confirmed", "post"}
                     THEN {Timer("post", c.res)} ELSE {}
  <1>1. c.heard /\ c.res \in Reservations /\ page.open BY DEF CallsFit
  <1>2. \A t \in more : /\ t \in [kind : {"check", "post"}, res : Reservations]
                        /\ t.kind # "check"
    BY <1>1 DEF Timer
  <1>3. /\ lib' = [lib EXCEPT !.results = @ \/ c.ans = "done"]
        /\ calls' = calls \ {c} /\ timers' = timers \cup more
        /\ UNCHANGED <<setup, srv, by, page, frame, announced>>
    BY DEF HearPost
  <1> HIDE DEF more
  <1>4. TypeOK'
    <2>1. lib' \in LibType BY <1>3 DEF TypeOK, LibType
    <2>2. timers' \subseteq [kind : {"check", "post"}, res : Reservations]
      BY <1>2, <1>3 DEF TypeOK
    <2>3. calls' \subseteq calls BY <1>3
    <2>4. UNCHANGED <<setup, srv, by, page, frame, announced>> BY <1>3
    <2> QED BY <2>1, <2>2, <2>3, <2>4 DEF TypeOK, LibType
  <1>5. StartCalls' = StartCalls /\ StartTimers' = StartTimers
    BY <1>2, <1>3 DEF StartCalls, StartTimers
  <1>6. OneStart' BY <1>5 DEF OneStart
  <1>7. StartsFresh' BY <1>3, <1>5 DEF StartsFresh, Starting, ComesFederated, TypeOK
  <1>8. CallsFit' BY <1>1, <1>3 DEF CallsFit, TypeOK
  <1>9. LibraryFits' BY <1>3 DEF LibraryFits, TypeOK
  <1>10. SentAway' BY <1>3 DEF SentAway, TypeOK
  <1> QED BY <1>3, <1>4, <1>6, <1>7, <1>8, <1>9, <1>10 DEF TypeOK

-----------------------------------------------------------------------------
(* Steps of a library that has started.                                    *)

(* Two states of a library that is used for the same reservation.          *)
SameUse(l, m) ==
  /\ m.started = l.started /\ m.res = l.res /\ m.reserved = l.reserved
  /\ m.finishOnClose = l.finishOnClose /\ m.threw = l.threw

(* A request made after the start.                                         *)
AboutTheEnd(c) ==
  /\ c \in CallType /\ c.kind \in {"poll", "finish", "post"}
  /\ c.heard /\ c.ans = "sent" /\ c.res = lib.res

LEMMA FinishedLibrary ==
  ASSUME NEW l \in LibType
  PROVE  /\ Finished(l) \in LibType
         /\ SameUse(l, Finished(l)) /\ Finished(l).ended
         /\ Finished(l).deactive = l.deactive
  BY DEF LibType, Finished, SameUse

LEMMA AfterFinishLibrary ==
  ASSUME NEW l \in LibType, NEW ok \in BOOLEAN
  PROVE  /\ AfterFinish(l, ok) \in LibType
         /\ SameUse(l, AfterFinish(l, ok))
         /\ AfterFinish(l, ok).ended = l.ended
         /\ AfterFinish(l, ok).active = l.active
         /\ AfterFinish(l, ok).deactive <=> l.deactive \/ (ok /\ ~setup.expectsPost)
  BY DEF LibType, AfterFinish, SameUse

LEMMA PageHearsFields ==
  ASSUME TypeOK, PageHears
  PROVE  /\ page' \in PageType
         /\ page'.open = page.open /\ page'.reserving = page.reserving
         /\ page'.loaded = page.loaded /\ page'.sentAway = page.sentAway
         /\ IF ~lib.deactive /\ lib'.deactive
            THEN ~page'.active /\ frame' = "leaving"
            ELSE page'.active = page.active /\ frame' = frame
  <1>1. page \in PageType /\ setup \in SetupType BY PageAssumption DEF TypeOK, PageType
  <1>2. CASE ~lib.deactive /\ lib'.deactive
    <2>1. /\ page' = [page EXCEPT !.active = FALSE, !.reloading = ~setup.federated]
          /\ frame' = "leaving"
      BY <1>2 DEF PageHears
    <2> QED BY <1>1, <1>2, <2>1 DEF PageType, SetupType
  <1>3. CASE ~(~lib.deactive /\ lib'.deactive)
    BY <1>1, <1>3 DEF PageHears
  <1> QED BY <1>2, <1>3

LEMMA EndKeeps ==
  ASSUME PageInv, lib.started, page.open,
         PageHears, UNCHANGED <<setup, announced, timers>>,
         lib' \in LibType, SameUse(lib, lib'),
         lib'.active \/ lib'.ended, lib.deactive => lib'.deactive,
         ServerType',
         \A r \in Reservations :
           by'[r] = by[r] \/ by'[r] = "user" \/ (by'[r] = "poll" /\ ~setup.remote),
         \A c \in calls' : c \in calls \/ AboutTheEnd(c)
  PROVE  PageInv'
  <1> USE DEF PageInv
  <1>1. PageHears BY DEF PageInv
  <1>2. /\ page' \in PageType
        /\ page'.open = page.open /\ page'.reserving = page.reserving
        /\ page'.loaded = page.loaded /\ page'.sentAway = page.sentAway
        /\ IF ~lib.deactive /\ lib'.deactive
           THEN ~page'.active /\ frame' = "leaving"
           ELSE page'.active = page.active /\ frame' = frame
    BY PageHearsFields
  <1>3. TypeOK' BY <1>2 DEF TypeOK, LibType, PageType, CallType, ServerType, AboutTheEnd
  <1>4. ~Starting /\ ~ComesFederated /\ lib.res \in Reservations
    BY DEF StartsFresh, LibraryFits
  <1>5. ~Starting' BY <1>4 DEF Starting, StartCalls, StartTimers, AboutTheEnd
  <1>6. OneStart' BY <1>5 DEF OneStart, Starting
  <1>7. StartsFresh' BY <1>2, <1>4, <1>5 DEF StartsFresh, ComesFederated
  <1>8. CallsFit' BY <1>2, <1>4 DEF CallsFit, SameUse, AboutTheEnd
  <1>9. LibraryFits' BY <1>2 DEF LibraryFits, SameUse, TypeOK, LibType, PageType
  <1>10. SentAway' BY <1>2 DEF SentAway, SameUse, ServerType
  <1> QED BY <1>3, <1>6, <1>7, <1>8, <1>9, <1>10 DEF SameUse

LEMMA AskedResults ==
  ASSUME NEW ok \in BOOLEAN, lib.res \in Reservations
  PROVE  \A c \in AskResults(ok) : AboutTheEnd(c)
  <1> DEFINE d == Call("post", lib.res)
  <1>1. AboutTheEnd(d) BY DEF AboutTheEnd, Call, CallType, Kinds
  <1>2. \A c \in AskResults(ok) : c = d BY DEF AskResults
  <1> QED BY <1>1, <1>2

LEMMA ForcedFinishKeeps ==
  ASSUME PageInv, lib.started, page.open, NEW l \in LibType, SameUse(lib, l),
         l.deactive = lib.deactive, NEW remaining \in SUBSET calls,
         NEW who \in {"user", "poll"}, who = "poll" => ~setup.remote,
         ForcedFinish(l, remaining, who),
         PageHears, UNCHANGED <<setup, announced, timers>>
  PROVE  PageInv'
  <1>1. PICK ok \in BOOLEAN : /\ SyncFinish(l.res, who, ok)
                              /\ lib' = AfterFinish(Finished(l), ok)
                              /\ calls' = remaining \cup AskResults(ok)
    BY DEF ForcedFinish
  <1>2. TypeOK /\ lib.res \in Reservations BY DEF PageInv, LibraryFits
  <1>3. /\ Finished(l) \in LibType
        /\ SameUse(l, Finished(l)) /\ Finished(l).ended
        /\ Finished(l).deactive = l.deactive
    BY FinishedLibrary
  <1>4. /\ lib' \in LibType /\ SameUse(Finished(l), lib') /\ lib'.ended
        /\ lib.deactive => lib'.deactive
    BY <1>1, <1>3, AfterFinishLibrary
  <1>5. SameUse(lib, lib') BY <1>3, <1>4 DEF SameUse
  <1>6. /\ ServerType'
        /\ \A q \in Reservations : by'[q] = by[q] \/ (q = l.res /\ by'[q] = who)
    BY <1>1, <1>2, SyncEndsOne
  <1>7. \A c \in AskResults(ok) : AboutTheEnd(c)
    BY <1>2, AskedResults
  <1> QED BY <1>1, <1>4, <1>5, <1>6, <1>7, EndKeeps

LEMMA HearPollKeeps ==
  ASSUME PageInv, NEW c \in calls, c.kind = "poll", c.ans # "sent",
         HearPoll(c), UNCHANGED <<setup, announced>>
  PROVE  PageInv'
  <1>1. /\ c.heard /\ page.open /\ lib.started /\ lib.res \in Reservations
        /\ TypeOK /\ lib \in LibType /\ (lib.active \/ lib.ended)
    BY DEF PageInv, CallsFit, TypeOK, LibType, LibraryFits
  <1>2. PageHears /\ UNCHANGED timers BY DEF HearPoll
  <1>3. UNCHANGED <<srv, by>> => ServerType' BY <1>1 DEF TypeOK, ServerType
  <1>4. CASE HearGoodPoll(c)
    <2>1. /\ lib' = [lib EXCEPT !.timer = @ \/ lib.polling]
          /\ calls' = calls \ {c} /\ UNCHANGED <<srv, by>>
      BY <1>4 DEF HearGoodPoll
    <2>2. /\ lib' \in LibType /\ SameUse(lib, lib') /\ (lib'.active \/ lib'.ended)
          /\ lib'.deactive = lib.deactive
      BY <1>1, <2>1 DEF LibType, SameUse
    <2> QED BY <1>1, <1>2, <1>3, <2>1, <2>2, EndKeeps
  <1>5. CASE HearBadPoll(c)
    <2> DEFINE quiet == [lib EXCEPT !.polling = FALSE]
    <2>1. /\ quiet \in LibType /\ SameUse(lib, quiet) /\ (quiet.active \/ quiet.ended)
          /\ quiet.deactive = lib.deactive
      BY <1>1 DEF LibType, SameUse
    <2>2. IF lib.finishOnClose
          THEN ForcedFinish(quiet, calls \ {c}, "poll")
          ELSE lib' = quiet /\ calls' = calls \ {c} /\ UNCHANGED <<srv, by>>
      BY <1>5 DEF HearBadPoll
    <2> HIDE DEF quiet
    <2>3. CASE lib.finishOnClose
      <3>1. ~setup.remote BY <1>1, <2>3 DEF PageInv, LibraryFits
      <3> QED BY <1>1, <1>2, <2>1, <2>2, <2>3, <3>1, ForcedFinishKeeps
    <2>4. CASE ~lib.finishOnClose
      <3>1. calls' = calls \ {c} BY <2>2, <2>4
      <3> QED BY <1>1, <1>2, <1>3, <2>1, <2>2, <2>4, <3>1, EndKeeps
    <2> QED BY <2>3, <2>4
  <1> QED BY <1>4, <1>5 DEF HearPoll

LEMMA HearFinishKeeps ==
  ASSUME PageInv, NEW c \in calls, c.kind = "finish", c.ans # "sent",
         HearFinish(c), UNCHANGED <<setup, announced>>
  PROVE  PageInv'
  <1>1. /\ c.heard /\ page.open /\ lib.started /\ lib.res \in Reservations
        /\ TypeOK /\ lib \in LibType /\ (lib.active \/ lib.ended)
    BY DEF PageInv, CallsFit, TypeOK, LibType, LibraryFits
  <1> DEFINE ok == c.ans = "ok"
  <1>2. /\ lib' = AfterFinish(lib, ok)
        /\ calls' = (calls \ {c}) \cup AskResults(ok)
        /\ PageHears /\ UNCHANGED <<srv, by, timers>>
    BY DEF HearFinish
  <1>3. ok \in BOOLEAN OBVIOUS
  <1> HIDE DEF ok
  <1>4. ServerType' BY <1>1, <1>2 DEF TypeOK, ServerType
  <1>5. /\ lib' \in LibType /\ SameUse(lib, lib') /\ (lib'.active \/ lib'.ended)
        /\ lib.deactive => lib'.deactive
    BY <1>1, <1>2, <1>3, AfterFinishLibrary
  <1>6. \A d \in AskResults(ok) : AboutTheEnd(d)
    BY <1>1, <1>3, AskedResults
  <1> QED BY <1>1, <1>2, <1>4, <1>5, <1>6, EndKeeps

LEMMA CleanKeeps == ASSUME PageInv, CleanExperiment PROVE PageInv'
  <1>1. /\ page.open /\ page.active /\ PageHears
        /\ UNCHANGED <<setup, srv, by, announced, timers>>
    BY DEF CleanExperiment
  <1>2. /\ lib.started /\ lib.res \in Reservations
        /\ TypeOK /\ lib \in LibType
    BY <1>1 DEF PageInv, TypeOK, LibType, LibraryFits
  <1>3. ServerType' BY <1>1, <1>2 DEF TypeOK, ServerType
  <1>4. /\ Finished(lib) \in LibType
        /\ SameUse(lib, Finished(lib)) /\ Finished(lib).ended
        /\ Finished(lib).deactive = lib.deactive
    BY <1>2, FinishedLibrary
  <1>5. CASE lib.ended
    <2>1. lib' = [Finished(lib) EXCEPT !.deactive = TRUE] /\ UNCHANGED calls
      BY <1>5 DEF CleanExperiment
    <2>2. /\ lib' \in LibType /\ SameUse(Finished(lib), lib') /\ lib'.ended /\ lib'.deactive
      BY <1>4, <2>1 DEF LibType, SameUse
    <2>3. SameUse(lib, lib') BY <1>4, <2>2 DEF SameUse
    <2> QED BY <1>1, <1>2, <1>3, <2>1, <2>2, <2>3, EndKeeps
  <1>6. CASE ~lib.ended
    <2> DEFINE d == Call("finish", lib.res)
    <2>1. lib' = Finished(lib) /\ calls' = calls \cup {d}
      BY <1>6 DEF CleanExperiment
    <2>2. AboutTheEnd(d) BY <1>2 DEF AboutTheEnd, Call, CallType, Kinds
    <2> HIDE DEF d
    <2> QED BY <1>1, <1>2, <1>3, <1>4, <2>1, <2>2, EndKeeps
  <1> QED BY <1>5, <1>6

LEMMA FinishExperimentKeeps == ASSUME PageInv, FinishExperiment PROVE PageInv'
  <1>1. lib \in LibType /\ SameUse(lib, lib) BY DEF PageInv, TypeOK, LibType, SameUse
  <1>3. /\ page.open /\ lib.started /\ ForcedFinish(lib, calls, "user")
        /\ PageHears /\ UNCHANGED <<setup, announced, timers>>
    BY DEF FinishExperiment
  <1> QED BY <1>1, <1>3, ForcedFinishKeeps

-----------------------------------------------------------------------------
(* Steps of the frame and the page.                                        *)

LEMMA FrameLoadsKeeps ==
  ASSUME PageInv, FrameLoads \/ ResetAnnounces
  PROVE  PageInv'
  <1> USE DEF PageInv
  <1>1. /\ UNCHANGED <<setup, srv, by, lib, page, calls, timers>>
        /\ frame' \in {"loading", "ready", "leaving"} /\ announced' \in BOOLEAN
        /\ frame' = "leaving" <=> frame = "leaving"
    BY DEF FrameLoads, ResetAnnounces
  <1>2. TypeOK' BY <1>1 DEF TypeOK
  <1>3. OneStart' BY <1>1 DEF OneStart, StartCalls, StartTimers
  <1>4. StartsFresh'
    BY <1>1 DEF StartsFresh, Starting, StartCalls, StartTimers, ComesFederated
  <1>5. CallsFit' BY <1>1 DEF CallsFit
  <1>6. LibraryFits' BY <1>1 DEF LibraryFits
  <1>7. SentAway' BY <1>1 DEF SentAway
  <1> QED BY <1>1, <1>2, <1>3, <1>4, <1>5, <1>6, <1>7

LEMMA MarkAsLoadedKeeps == ASSUME PageInv, MarkAsLoaded PROVE PageInv'
  <1> USE DEF PageInv
  <1> DEFINE d == Call("check", 1)
  <1>1. /\ page.open /\ announced' = FALSE
        /\ page' = [page EXCEPT !.loading = FALSE, !.reloading = FALSE,
                                !.loaded = TRUE, !.reserving = @ \/ ComesFederated]
        /\ calls' = calls \cup (IF ComesFederated THEN {d} ELSE {})
        /\ UNCHANGED <<setup, srv, by, lib, frame, timers>>
    BY DEF MarkAsLoaded
  <1>2. 1 \in Reservations BY PageAssumption DEF Reservations
  <1>3. /\ d \in CallType /\ d.kind = "check" /\ d.res = 1
        /\ d.ans = "sent" /\ d.heard
    BY <1>2 DEF Call, CallType, Kinds
  <1> HIDE DEF d
  <1>4. ComesFederated \in BOOLEAN /\ page \in PageType
    BY PageAssumption DEF ComesFederated, TypeOK, PageType, SetupType
  <1>5. /\ page' \in PageType /\ page'.open = page.open
        /\ page'.reserving = (page.reserving \/ ComesFederated)
        /\ page'.active = page.active /\ page'.loaded
        /\ page'.sentAway = page.sentAway
    <2>1. PICK start \in BOOLEAN : start = ComesFederated BY <1>4
    <2>2. page' = [page EXCEPT !.loading = FALSE, !.reloading = FALSE,
                               !.loaded = TRUE, !.reserving = @ \/ start]
      BY <1>1, <2>1
    <2> QED BY <1>4, <2>1, <2>2 DEF PageType
  <1>6. ~ComesFederated' BY <1>5 DEF ComesFederated
  <1>7. ComesFederated => ~Starting BY DEF StartsFresh
  <1>8. TypeOK'
    <2>1. calls' \subseteq CallType BY <1>1, <1>3 DEF TypeOK, CallType
    <2>2. announced' \in BOOLEAN /\ UNCHANGED <<setup, srv, by, lib, frame, timers>>
      BY <1>1
    <2> QED BY <1>5, <2>1, <2>2 DEF TypeOK, CallType, PageType
  <1>9. OneStart' BY <1>1, <1>3, <1>7 DEF OneStart, Starting, StartCalls, StartTimers
  <1>10. StartsFresh'
    BY <1>1, <1>3, <1>5, <1>6 DEF StartsFresh, Starting, StartCalls, StartTimers
  <1>11. CallsFit' BY <1>1, <1>2, <1>3, <1>5 DEF CallsFit
  <1>12. LibraryFits' BY <1>1, <1>5 DEF LibraryFits
  <1>13. SentAway' BY <1>1, <1>5 DEF SentAway
  <1> QED BY <1>1, <1>8, <1>9, <1>10, <1>11, <1>12, <1>13

LEMMA AbandonedCalls ==
  ASSUME TypeOK, CallsFit
  PROVE  \A c \in Abandoned :
           /\ c \in CallType /\ ~c.heard /\ c.ans = "sent"
           /\ c.kind \in {"reserve", "finish"}
           /\ \E d \in calls : /\ c.kind = d.kind /\ c.res = d.res
                               /\ d.ans = "sent"
  <1> SUFFICES ASSUME NEW d \in calls, d.ans = "sent", d.kind \in {"reserve", "finish"}
               PROVE  LET c == [d EXCEPT !.heard = FALSE]
                      IN /\ c \in CallType /\ ~c.heard /\ c.ans = "sent"
                         /\ c.kind = d.kind /\ c.res = d.res
    BY DEF Abandoned
  <1>1. d \in CallType BY DEF TypeOK, CallType
  <1> QED BY <1>1 DEF CallType

LEMMA UnloadKeeps == ASSUME PageInv, Unload PROVE PageInv'
  <1> USE DEF PageInv
  <1>1. /\ page.open /\ frame = "leaving" /\ FinishOnUnload
        /\ lib' = FreshLibrary /\ frame' = "loading"
        /\ calls' = Abandoned /\ timers' = {}
        /\ UNCHANGED <<setup, page, announced>>
    BY DEF Unload
  <1>2. /\ ServerType'
        /\ \A q \in Reservations :
              \/ by'[q] = by[q]
              \/ /\ q = lib.res /\ by'[q] = "close"
                 /\ lib.finishOnClose /\ (lib.active \/ lib.reserved)
    BY <1>1, UnloadEndsOne
  <1>3. \A c \in Abandoned :
           /\ c \in CallType /\ ~c.heard /\ c.ans = "sent"
           /\ c.kind \in {"reserve", "finish"}
           /\ \E d \in calls : /\ c.kind = d.kind /\ c.res = d.res
                               /\ d.ans = "sent"
    BY AbandonedCalls
  <1>4. lib.started BY <1>1 DEF LibraryFits
  <1>5. /\ lib' \in LibType /\ ~lib'.started /\ ~lib'.ended /\ ~lib'.active
        /\ ~lib'.deactive /\ ~lib'.timer /\ ~lib'.reserved /\ ~lib'.threw
        /\ lib'.finishOnClose
    BY <1>1 DEF FreshLibrary, LibType, NoReservation
  <1>6. ~Starting' BY <1>1, <1>3 DEF Starting, StartCalls, StartTimers
  <1>7. TypeOK' BY <1>1, <1>2, <1>3, <1>5 DEF TypeOK, LibType, CallType, ServerType
  <1>8. OneStart' BY <1>6 DEF OneStart, Starting
  <1>9. StartsFresh' BY <1>1, <1>4, <1>6 DEF StartsFresh, ComesFederated
  <1>10. CallsFit' BY <1>1, <1>3, <1>5 DEF CallsFit
  <1>11. LibraryFits' BY <1>1, <1>5 DEF LibraryFits
  <1>12. setup.remote => ~lib.finishOnClose BY <1>4 DEF LibraryFits
  <1>13. SentAway' BY <1>1, <1>2, <1>5, <1>12 DEF SentAway
  <1> QED BY <1>5, <1>7, <1>8, <1>9, <1>10, <1>11, <1>13

LEMMA LeavePageKeeps ==
  ASSUME PageInv, LeavePage, ~ComesFederated
  PROVE  PageInv'
  <1> USE DEF PageInv
  <1>1. /\ page.open /\ FinishOnUnload
        /\ page' = [page EXCEPT !.open = FALSE]
        /\ calls' = Abandoned /\ timers' = {}
        /\ lib' = [lib EXCEPT !.timer = FALSE]
        /\ UNCHANGED <<setup, frame, announced>>
    BY DEF LeavePage
  <1>2. /\ ServerType'
        /\ \A q \in Reservations :
              \/ by'[q] = by[q]
              \/ /\ q = lib.res /\ by'[q] = "close"
                 /\ lib.finishOnClose /\ (lib.active \/ lib.reserved)
    BY <1>1, UnloadEndsOne
  <1>3. \A c \in Abandoned :
           /\ c \in CallType /\ ~c.heard /\ c.ans = "sent"
           /\ c.kind \in {"reserve", "finish"}
           /\ \E d \in calls : /\ c.kind = d.kind /\ c.res = d.res
                               /\ d.ans = "sent"
    BY AbandonedCalls
  <1>4. /\ page' \in PageType /\ ~page'.open /\ page'.active = page.active
        /\ page'.loaded = page.loaded /\ page'.sentAway = page.sentAway
    BY <1>1 DEF TypeOK, PageType
  <1>5. /\ lib' \in LibType /\ SameUse(lib, lib') /\ ~lib'.timer
        /\ lib'.active = lib.active /\ lib'.ended = lib.ended
        /\ lib'.deactive = lib.deactive
    BY <1>1 DEF TypeOK, LibType, SameUse
  <1>6. ~Starting' BY <1>1, <1>3 DEF Starting, StartCalls, StartTimers
  <1>7. TypeOK'
    BY <1>1, <1>2, <1>3, <1>4, <1>5 DEF TypeOK, LibType, PageType, CallType, ServerType
  <1>8. OneStart' BY <1>6 DEF OneStart, Starting
  <1>9. StartsFresh' BY <1>1, <1>4, <1>6 DEF StartsFresh, ComesFederated
  <1>10. CallsFit' BY <1>1, <1>3, <1>5 DEF CallsFit
  <1>11. LibraryFits' BY <1>1, <1>4, <1>5 DEF LibraryFits, SameUse
  <1>12. setup.remote /\ lib.finishOnClose /\ (lib.active \/ lib.reserved)
         => page.sentAway = NoReservation
    BY DEF SentAway, LibraryFits
  <1>13. NoReservation \notin Reservations BY DEF NoReservation, Reservations
  <1>14. SentAway' BY <1>1, <1>2, <1>4, <1>5, <1>12, <1>13 DEF SentAway, SameUse
  <1> QED BY <1>5, <1>7, <1>8, <1>9, <1>10, <1>11, <1>14 DEF SameUse

LEMMA HearKeeps ==
  ASSUME PageInv, NEW kind \in Kinds, Hear(kind)
  PROVE  PageInv'
  <1>1. PICK c \in calls :
          /\ c.kind = kind /\ c.ans # "sent"
          /\ CASE kind = "reserve" -> HearReserve(c)
               [] kind = "check" -> HearCheck(c)
               [] kind = "poll" -> HearPoll(c)
               [] kind = "finish" -> HearFinish(c)
               [] kind = "post" -> HearPost(c)
    BY DEF Hear
  <1>2. UNCHANGED <<setup, announced>> BY DEF Hear
  <1>3. CASE kind = "reserve"
    <2>1. HearReserve(c) BY <1>1, <1>3
    <2> QED BY <1>1, <1>2, <1>3, <2>1, HearReserveKeeps
  <1>4. CASE kind = "check"
    <2>1. HearCheck(c) BY <1>1, <1>4
    <2>2. HearConfirmed(c) \/ HearNotConfirmed(c) BY <2>1 DEF HearCheck
    <2>3. UNCHANGED <<srv, by, frame>> BY <2>1 DEF HearCheck
    <2> QED
      BY <1>1, <1>2, <1>4, <2>2, <2>3, HearConfirmedKeeps, HearNotConfirmedKeeps
  <1>5. CASE kind = "poll"
    <2>1. HearPoll(c) BY <1>1, <1>5
    <2> QED BY <1>1, <1>2, <1>5, <2>1, HearPollKeeps
  <1>6. CASE kind = "finish"
    <2>1. HearFinish(c) BY <1>1, <1>6
    <2> QED BY <1>1, <1>2, <1>6, <2>1, HearFinishKeeps
  <1>7. CASE kind = "post"
    <2>1. HearPost(c) BY <1>1, <1>7
    <2> QED BY <1>1, <1>2, <1>7, <2>1, HearPostKeeps
  <1> QED BY <1>3, <1>4, <1>5, <1>6, <1>7 DEF Kinds

LEMMA StepKeeps ==
  ASSUME PageInv, [Next]_vars, "reserve_twice" \notin Impatience
  PROVE  PageInv'
  <1>1. CASE Server BY <1>1, ServerKeeps
  <1>2. CASE Lose BY <1>2, LoseKeeps
  <1>3. CASE PollAgain BY <1>3, PollAgainKeeps
  <1>4. CASE \E kind \in Kinds : Serve(kind) BY <1>4, ServeKeeps
  <1>5. CASE \E kind \in Kinds : Hear(kind) BY <1>5, HearKeeps
  <1>6. CASE \E kind \in {"check", "post"} : AskAgain(kind) BY <1>6, AskAgainKeeps
  <1>7. CASE Reserve BY <1>7, ReserveKeeps
  <1>8. CASE CleanExperiment BY <1>8, CleanKeeps
  <1>9. CASE FinishExperiment BY <1>9, FinishExperimentKeeps
  <1>10. CASE FrameLoads \/ ResetAnnounces BY <1>10, FrameLoadsKeeps
  <1>11. CASE MarkAsLoaded BY <1>11, MarkAsLoadedKeeps
  <1>12. CASE Unload BY <1>12, UnloadKeeps
  <1>13. CASE CloseWindow BY <1>13, LeavePageKeeps DEF CloseWindow
  <1>14. CASE GoToRemote
    <2>1. ~ComesFederated BY <1>14 DEF GoToRemote, PageInv, StartsFresh
    <2> QED BY <1>14, <2>1, LeavePageKeeps DEF GoToRemote
  <1>15. CASE UNCHANGED vars
    BY <1>15 DEF vars, PageInv, TypeOK, OneStart, StartsFresh, CallsFit, LibraryFits,
                 SentAway, Starting, StartCalls, StartTimers, ComesFederated
  <1> QED
    BY <1>1, <1>2, <1>3, <1>4, <1>5, <1>6, <1>7, <1>8, <1>9, <1>10, <1>11, <1>12,
       <1>13, <1>14, <1>15 DEF Next

-----------------------------------------------------------------------------
(* What holds of the variables of library, frame and page between any two
   callbacks (weblab.v1.js, lab.controller.js, experiment-iframe.directive.js),
   unless a button of the experiment reserves while a reservation is made.    *)
THEOREM PageInvariant ==
  ASSUME "reserve_twice" \notin Impatience
  PROVE  Spec => []PageInv
  BY InitPage, StepKeeps, PTL DEF Spec

(* The page never asks the server for a reservation it was not given: every
   status, identifier and request has its type (weblab.v1.js). *)
THEOREM PageTypes ==
  ASSUME "reserve_twice" \notin Impatience
  PROVE  Spec => []TypeOK
  <1>1. PageInv => TypeOK BY DEF PageInv
  <1> QED BY <1>1, PageInvariant, PTL

(* _reservationReady is called once for each library that is loaded, whatever
   is lost and however often the user finishes (weblab.v1.js:210).             *)
THEOREM LibraryUsedOnce ==
  ASSUME "reserve_twice" \notin Impatience
  PROVE  Spec => []OneReservationEach
  <1>1. PageInv => OneReservationEach BY DEF PageInv, OneReservationEach
  <1> QED BY <1>1, PageInvariant, PTL

(* A reservation that was forwarded is not finished by the page that left for
   the other server, even when its last poll fails (weblab.v1.js:731).    *)
THEOREM RemoteNotFinished ==
  ASSUME "reserve_twice" \notin Impatience
  PROVE  Spec => []RemoteIsKept
  <1>1. PageInv => RemoteIsKept
    <2> SUFFICES ASSUME PageInv, NEW r \in Reservations, page.sentAway = r
                 PROVE  by[r] \notin {"poll", "close"}
      BY DEF RemoteIsKept
    <2>1. page.sentAway # NoReservation BY DEF NoReservation, Reservations
    <2> QED BY <2>1 DEF PageInv, SentAway
  <1> QED BY <1>1, PageInvariant, PTL

-----------------------------------------------------------------------------
(* The second invariant.                                                   *)

(* A reservation that was made.                                            *)
Made(r) == r \in Reservations => srv[r] # "none"

(* What a page asks for has been made at the server.                       *)
AllMade ==
  /\ \A c \in calls :
       \/ c.kind \in {"check", "finish"}
       \/ c.kind = "reserve" /\ c.ans = "ok"
       => Made(c.res)
  /\ \A t \in StartTimers : Made(t.res)
  /\ lib.started => Made(lib.res)
  /\ ComesFederated => Made(1)

(* Nothing that reserves is abandoned, and requests are for the reservation *)
(* of the library, which finishes on close what it reserved.               *)
CallsOfLibrary ==
  /\ \A c \in calls : /\ c.heard \/ c.kind = "finish"
                      /\ c.heard /\ c.kind = "finish" => c.res = lib.res
  /\ ~setup.federated =>
       /\ \A c \in StartCalls : c.kind = "check" => lib.reserved /\ lib.res = c.res
       /\ \A t \in StartTimers : lib.reserved /\ lib.res = t.res

(* An answer that says that a reservation is over is right; one that the    *)
(* user ended and that lives has a request to finish it on its way.        *)
Truthful ==
  setup.reliable =>
    /\ \A c \in calls :
         /\ c.kind = "finish" /\ c.ans # "sent" => ~Live(c.res)
         /\ c.kind = "check" /\ c.ans \notin {"sent", "waiting", "confirmed"}
              => ~Live(c.res)
    /\ page.open /\ lib.ended /\ Live(lib.res) =>
         \E c \in calls : c.heard /\ c.kind = "finish" /\ c.ans = "sent"

(* Where a page keeps a reservation that lives.                            *)
Shown(r) ==
  \/ page.sentAway = r
  \/ ComesFederated /\ r = 1
  \/ page.open /\ page.active /\ lib.res = r
  \/ \E c \in StartCalls : c.res = r /\ (c.kind = "reserve" => c.ans = "ok")
  \/ \E t \in StartTimers : t.res = r

(* Every reservation that lives is kept by the page.                       *)
LiveShown == setup.reliable => \A r \in Reservations : Live(r) => Shown(r)

HeldInv == AllMade /\ CallsOfLibrary /\ Truthful /\ LiveShown

(* Nothing comes to life again.                                            *)
NoneRevives ==
  \A r \in Reservations : /\ srv[r] # "none" => srv'[r] # "none"
                          /\ Live(r)' => Live(r)

(* What is made stays made, and does not come to life again.               *)
MadeStays ==
  \A r \in Reservations :
    srv[r] # "none" => srv'[r] # "none" /\ (Live(r)' => Live(r))

(* The server is being asked to finish.                                    *)
FinishAsked == \E c \in calls : c.heard /\ c.kind = "finish" /\ c.ans = "sent"

(* A call that the second invariant says nothing about.                    *)
Minor(c) == c.heard /\ c.kind \in {"poll", "post"}

LEMMA InitHeld == Init => HeldInv
  <1> SUFFICES ASSUME Init PROVE HeldInv OBVIOUS
  <1> USE DEF Init
  <1>1. 1 \in Reservations /\ setup.federated \in BOOLEAN
    BY PageAssumption DEF Reservations, SetupType
  <1>2. AllMade
    BY <1>1 DEF AllMade, Made, StartTimers, ComesFederated, FreshLibrary
  <1>3. CallsOfLibrary BY DEF CallsOfLibrary, StartCalls, StartTimers
  <1>4. Truthful BY DEF Truthful, FreshLibrary
  <1>5. LiveShown BY <1>1 DEF LiveShown, Live, Shown, ComesFederated, NewPage
  <1> QED BY <1>2, <1>3, <1>4, <1>5 DEF HeldInv

LEMMA EndedIsOver ==
  ASSUME TypeOK, NEW r, NEW who, EndAtServer(r, who)
  PROVE  NoneRevives /\ (r \in Reservations => ~Live(r)')
  BY DEF NoneRevives, EndAtServer, TypeOK, Ended, Live, Statuses

LEMMA SyncEndedIsOver ==
  ASSUME TypeOK, NEW r, NEW who, NEW ok, SyncFinish(r, who, ok)
  PROVE  NoneRevives /\ (setup.reliable /\ r \in Reservations => ~Live(r)')
  <1>1. CASE EndAtServer(r, who) BY <1>1, EndedIsOver
  <1>2. CASE UNCHANGED <<srv, by>> /\ ~setup.reliable
    BY <1>2 DEF NoneRevives, Live
  <1> QED BY <1>1, <1>2 DEF SyncFinish

LEMMA ServerHolds ==
  ASSUME PageInv, HeldInv, Server
  PROVE  HeldInv'
  <1> USE DEF HeldInv, PageInv
  <1>1. UNCHANGED <<setup, lib, page, frame, announced, calls, timers>> BY DEF Server
  <1>2. PICK r \in Reservations : Promote(r) \/ TimeOver(r) \/ StoreResults(r)
    BY DEF Server
  <1>3. NoneRevives
    <2>1. CASE Promote(r) BY <2>1 DEF Promote, NoneRevives, Live, TypeOK
    <2>2. CASE TimeOver(r) BY <2>2, EndedIsOver DEF TimeOver
    <2>3. CASE StoreResults(r) BY <2>3 DEF StoreResults, NoneRevives, Live, TypeOK
    <2> QED BY <1>2, <2>1, <2>2, <2>3
  <1>4. AllMade'
    BY <1>1, <1>3 DEF AllMade, Made, NoneRevives, StartTimers, ComesFederated
  <1>5. CallsOfLibrary' BY <1>1 DEF CallsOfLibrary, StartCalls, StartTimers
  <1>6. Truthful'
    BY <1>1, <1>3 DEF Truthful, NoneRevives, CallsFit, LibraryFits
  <1>7. LiveShown'
    BY <1>1, <1>3 DEF LiveShown, Shown, NoneRevives, StartCalls, StartTimers, ComesFederated
  <1> QED BY <1>4, <1>5, <1>6, <1>7

LEMMA MinorHolds ==
  ASSUME PageInv, HeldInv, UNCHANGED <<setup, srv>>, NoneRevives,
         SameUse(lib, lib'), lib'.ended = lib.ended,
         page'.open = page.open, page'.active = page.active,
         page'.loaded = page.loaded, page'.sentAway = page.sentAway,
         \A c \in calls' \ calls : Minor(c),
         \A c \in calls \ calls' : Minor(c),
         UNCHANGED StartTimers
  PROVE  HeldInv'
  <1> USE DEF HeldInv, PageInv
  <1>1. UNCHANGED StartCalls BY DEF StartCalls, Minor
  <1>2. AllMade' BY DEF AllMade, Made, Minor, SameUse, ComesFederated
  <1>3. CallsOfLibrary' BY <1>1 DEF CallsOfLibrary, Minor, SameUse
  <1>4. \A r : Live(r)' <=> Live(r) BY DEF Live
  <1>5. Truthful' BY <1>4 DEF Truthful, Minor, SameUse
  <1>6. LiveShown' BY <1>1, <1>4 DEF LiveShown, Shown, SameUse, ComesFederated
  <1> QED BY <1>2, <1>3, <1>5, <1>6

LEMMA UnchangedRevivesNone ==
  ASSUME UNCHANGED srv
  PROVE  NoneRevives /\ (\A r : Live(r)' <=> Live(r)) /\ (\A r : Made(r)' <=> Made(r))
  BY DEF NoneRevives, Live, Made

LEMMA PollAgainHolds == ASSUME PageInv, HeldInv, PollAgain PROVE HeldInv'
  <1> DEFINE d == Call("poll", lib.res)
  <1>1. Minor(d) BY DEF Minor, Call
  <1>2. /\ lib' = [[lib EXCEPT !.timer = FALSE] EXCEPT !.polling = TRUE]
        /\ calls' = calls \cup {d}
        /\ UNCHANGED <<setup, srv, by, page, frame, announced, timers>>
    BY DEF PollAgain, PageInv, TypeOK
  <1> HIDE DEF d
  <1>3. SameUse(lib, lib') /\ lib'.ended = lib.ended
    BY <1>2 DEF SameUse, PageInv, TypeOK
  <1>4. UNCHANGED StartTimers BY <1>2 DEF StartTimers
  <1> QED BY <1>1, <1>2, <1>3, <1>4, MinorHolds, UnchangedRevivesNone

LEMMA HearPostHolds ==
  ASSUME PageInv, HeldInv, NEW c \in calls, c.kind = "post", c.ans # "sent",
         HearPost(c), UNCHANGED setup
  PROVE  HeldInv'
  <1>1. Minor(c) BY DEF Minor, PageInv, CallsFit
  <1> DEFINE more == IF c.ans \in {"confirmed", "post"}
                     THEN {Timer("post", c.res)} ELSE {}
  <1>2. \A t \in more : t.kind # "check" BY DEF Timer
  <1>3. /\ lib' = [lib EXCEPT !.results = @ \/ c.ans = "done"]
        /\ calls' = calls \ {c} /\ timers' = timers \cup more
        /\ UNCHANGED <<setup, srv, by, page, frame>>
    BY DEF HearPost
  <1> HIDE DEF more
  <1>4. SameUse(lib, lib') /\ lib'.ended = lib.ended
    BY <1>3 DEF SameUse, PageInv, TypeOK
  <1>5. UNCHANGED StartTimers BY <1>2, <1>3 DEF StartTimers
  <1> QED BY <1>1, <1>3, <1>4, <1>5, MinorHolds, UnchangedRevivesNone

LEMMA FrameLoadsHolds ==
  ASSUME PageInv, HeldInv, FrameLoads \/ ResetAnnounces
  PROVE  HeldInv'
  <1>1. UNCHANGED <<setup, srv, by, lib, page, calls, timers>>
    BY DEF FrameLoads, ResetAnnounces
  <1>2. SameUse(lib, lib') /\ UNCHANGED StartTimers BY <1>1 DEF SameUse, StartTimers
  <1> QED BY <1>1, <1>2, MinorHolds, UnchangedRevivesNone

LEMMA MarkAsLoadedHolds ==
  ASSUME PageInv, HeldInv, MarkAsLoaded
  PROVE  HeldInv'
  <1> DEFINE d == Call("check", 1)
  <1>1. /\ page.open
        /\ page' = [page EXCEPT !.loading = FALSE, !.reloading = FALSE,
                                !.loaded = TRUE, !.reserving = @ \/ ComesFederated]
        /\ calls' = calls \cup (IF ComesFederated THEN {d} ELSE {})
        /\ UNCHANGED <<setup, srv, by, lib, frame, timers>>
    BY DEF MarkAsLoaded
  <1>2. /\ d.kind = "check" /\ d.res = 1 /\ d.ans = "sent" /\ d.heard
    BY DEF Call
  <1> HIDE DEF d
  <1>3. /\ page'.open = page.open /\ page'.active = page.active /\ page'.loaded
        /\ page'.sentAway = page.sentAway
    BY <1>1 DEF PageInv, TypeOK
  <1>4. CASE ~ComesFederated
    <2>1. ~ComesFederated' BY <1>1, <1>3 DEF ComesFederated
    <2>2. UNCHANGED <<StartCalls, StartTimers>> /\ calls' = calls
      BY <1>1, <1>4 DEF StartCalls, StartTimers
    <2>3. AllMade' BY <1>1, <1>4, <2>1, <2>2 DEF AllMade, Made, HeldInv
    <2>4. CallsOfLibrary' BY <1>1, <2>2 DEF CallsOfLibrary, HeldInv
    <2>5. Truthful' BY <1>1, <1>3, <2>2, UnchangedRevivesNone DEF Truthful, HeldInv
    <2>6. LiveShown'
      BY <1>1, <1>3, <1>4, <2>2, UnchangedRevivesNone DEF LiveShown, Shown, HeldInv
    <2> QED BY <2>3, <2>4, <2>5, <2>6 DEF HeldInv
  <1>5. CASE ComesFederated
    <2>1. calls' = calls \cup {d} BY <1>1, <1>5
    <2>2. setup.federated /\ ~ComesFederated'
      BY <1>1, <1>3, <1>5 DEF ComesFederated
    <2>3. AllMade'
      BY <1>1, <1>2, <1>5, <2>1, <2>2 DEF AllMade, Made, HeldInv, StartTimers
    <2>4. CallsOfLibrary' BY <1>1, <1>2, <2>1, <2>2 DEF CallsOfLibrary, HeldInv
    <2>5. Truthful'
      BY <1>1, <1>2, <1>3, <2>1, UnchangedRevivesNone DEF Truthful, HeldInv
    <2>6. LiveShown'
      BY <1>1, <1>2, <1>3, <2>1, UnchangedRevivesNone
      DEF LiveShown, Shown, HeldInv, StartCalls, StartTimers
    <2> QED BY <2>3, <2>4, <2>5, <2>6 DEF HeldInv
  <1> QED BY <1>4, <1>5

LEMMA AskAgainHolds ==
  ASSUME PageInv, HeldInv, NEW kind \in {"check", "post"}, AskAgain(kind)
  PROVE  HeldInv'
  <1>1. PICK t \in timers : /\ t.kind = kind /\ timers' = timers \ {t}
                            /\ calls' = calls \cup {Call(kind, t.res)}
    BY DEF AskAgain
  <1>2. UNCHANGED <<setup, srv, by, lib, page, frame, announced>> BY DEF AskAgain
  <1> DEFINE d == Call(kind, t.res)
  <1>3. d.kind = kind /\ d.res = t.res /\ d.ans = "sent" /\ d.heard
    BY DEF Call
  <1>4. calls' = calls \cup {d} BY <1>1
  <1> HIDE DEF d
  <1>5. CASE kind = "post"
    <2>1. UNCHANGED StartTimers BY <1>1, <1>5 DEF StartTimers
    <2>2. Minor(d) /\ SameUse(lib, lib') BY <1>2, <1>3, <1>5 DEF Minor, SameUse
    <2> QED BY <1>2, <1>4, <2>1, <2>2, MinorHolds, UnchangedRevivesNone
  <1>6. CASE kind = "check"
    <2>1. /\ t \in StartTimers /\ StartTimers' = StartTimers \ {t}
          /\ StartCalls' = StartCalls \cup {d}
      BY <1>1, <1>3, <1>4, <1>6 DEF StartTimers, StartCalls
    <2>2. AllMade'
      BY <1>2, <1>3, <1>4, <2>1 DEF AllMade, Made, HeldInv, ComesFederated
    <2>3. CallsOfLibrary'
      BY <1>2, <1>3, <1>4, <1>6, <2>1 DEF CallsOfLibrary, HeldInv
    <2>4. Truthful'
      BY <1>2, <1>3, <1>4, <1>6, UnchangedRevivesNone DEF Truthful, HeldInv
    <2>5. \A r : Shown(r) => Shown(r)'
      BY <1>2, <1>3, <1>6, <2>1 DEF Shown, ComesFederated
    <2>6. LiveShown' BY <1>2, <2>5, UnchangedRevivesNone DEF LiveShown, HeldInv
    <2> QED BY <2>2, <2>3, <2>4, <2>6 DEF HeldInv
  <1> QED BY <1>5, <1>6

LEMMA ReserveHolds ==
  ASSUME PageInv, HeldInv, Reserve
  PROVE  HeldInv'
  <1> DEFINE d == Call("reserve", NoReservation)
  <1>1. d.kind = "reserve" /\ d.ans = "sent" /\ d.heard BY DEF Call
  <1>2. /\ calls' = calls \cup {d} /\ page' = [page EXCEPT !.reserving = TRUE]
        /\ UNCHANGED <<setup, srv, by, lib, frame, announced, timers>>
    BY DEF Reserve
  <1> HIDE DEF d
  <1>3. /\ page'.open = page.open /\ page'.active = page.active
        /\ page'.loaded = page.loaded /\ page'.sentAway = page.sentAway
    BY <1>2 DEF PageInv, TypeOK
  <1>4. /\ StartCalls' = StartCalls \cup {d} /\ StartTimers' = StartTimers
        /\ ComesFederated' = ComesFederated
    BY <1>1, <1>2, <1>3 DEF StartCalls, StartTimers, ComesFederated
  <1>5. AllMade' BY <1>1, <1>2, <1>4 DEF AllMade, Made, HeldInv
  <1>6. CallsOfLibrary' BY <1>1, <1>2, <1>4 DEF CallsOfLibrary, HeldInv
  <1>7. Truthful'
    BY <1>1, <1>2, <1>3, UnchangedRevivesNone DEF Truthful, HeldInv
  <1>8. \A r : Shown(r) => Shown(r)' BY <1>2, <1>3, <1>4 DEF Shown
  <1>9. LiveShown' BY <1>2, <1>8, UnchangedRevivesNone DEF LiveShown, HeldInv
  <1> QED BY <1>5, <1>6, <1>7, <1>9 DEF HeldInv

LEMMA ReplyHolds ==
  ASSUME PageInv, HeldInv, NEW c \in calls,
         NEW r \in Reservations \cup {NoReservation},
         NEW ans \in {"ok", "fail"} \cup Statuses,
         Reply(c, r, ans), MadeStays,
         c.kind # "reserve" => r = c.res,
         \A q \in Reservations :
           Live(q)' => Live(q) \/ (c.kind = "reserve" /\ ans = "ok" /\ q = r),
         c.kind = "reserve" /\ ans = "ok" => Made(r)',
         setup.reliable /\ c.kind = "finish" => ~Live(r)',
         setup.reliable /\ c.kind = "check" /\ ans \notin {"waiting", "confirmed"}
           => ~Live(r)',
         setup.reliable => c.ans = "sent",
         UNCHANGED <<setup, lib, page, frame, announced, timers>>
  PROVE  HeldInv'
  <1> DEFINE d == [c EXCEPT !.res = r, !.ans = ans]
  <1>1. c \in CallType BY DEF PageInv, TypeOK, CallType
  <1>2. /\ d.kind = c.kind /\ d.heard = c.heard /\ d.res = r /\ d.ans = ans
    BY <1>1 DEF CallType
  <1>3. calls' = (calls \ {c}) \cup (IF c.heard THEN {d} ELSE {}) BY DEF Reply
  <1> HIDE DEF d
  <1>4. /\ StartTimers' = StartTimers /\ (ComesFederated' <=> ComesFederated)
        /\ c.heard \/ c.kind = "finish"
    BY DEF StartTimers, ComesFederated, HeldInv, CallsOfLibrary
  <1>5. \A q : Made(q) => Made(q)' BY DEF Made, MadeStays
  <1>6. AllMade' BY <1>2, <1>3, <1>4, <1>5 DEF AllMade, HeldInv
  <1>7. CallsOfLibrary'
    BY <1>2, <1>3, <1>4 DEF CallsOfLibrary, HeldInv, StartCalls
  <1>8. Truthful'
    <2> SUFFICES ASSUME setup.reliable PROVE Truthful' BY DEF Truthful
    <2>1. \A e \in calls : e.kind \in {"check", "finish"} /\ ~Live(e.res) => ~Live(e.res)'
      BY DEF HeldInv, AllMade, Made, MadeStays, PageInv, CallsFit
    <2>2. \A e \in calls' :
            /\ e.kind = "finish" /\ e.ans # "sent" => ~Live(e.res)'
            /\ e.kind = "check" /\ e.ans \notin {"sent", "waiting", "confirmed"}
                 => ~Live(e.res)'
      BY <1>2, <1>3, <2>1 DEF HeldInv, Truthful
    <2>3. ASSUME page.open, lib.ended, Live(lib.res)'
          PROVE  \E e \in calls' : e.heard /\ e.kind = "finish" /\ e.ans = "sent"
      <3>1. Live(lib.res)
        BY <2>3 DEF HeldInv, AllMade, Made, MadeStays, PageInv, LibraryFits
      <3>2. PICK e \in calls : e.heard /\ e.kind = "finish" /\ e.ans = "sent"
        BY <3>1, <2>3 DEF HeldInv, Truthful
      <3>3. e # c BY <2>3, <3>2 DEF HeldInv, CallsOfLibrary
      <3> QED BY <1>3, <3>2, <3>3
    <2> QED BY <2>2, <2>3 DEF Truthful
  <1>9. LiveShown'
    <2>1. setup.reliable => \A q \in Reservations : Shown(q) => Shown(q)'
      BY <1>2, <1>3, <1>4 DEF Shown, StartCalls
    <2>2. c.kind = "reserve" /\ ans = "ok" => Shown(r)'
      BY <1>2, <1>3, <1>4 DEF Shown, StartCalls
    <2> QED BY <2>1, <2>2 DEF LiveShown, HeldInv
  <1> QED BY <1>6, <1>7, <1>8, <1>9 DEF HeldInv

LEMMA ServeHolds ==
  ASSUME PageInv, HeldInv, NEW kind \in Kinds, Serve(kind)
  PROVE  HeldInv'
  <1>0. PICK c \in calls : /\ c.kind = kind /\ c.ans = "sent"
                           /\ CASE kind = "reserve" -> ServeReserve(c)
                                [] kind \in {"check", "post"} -> ServeStatus(c)
                                [] kind = "poll" -> ServePoll(c)
                                [] kind = "finish" -> ServeFinish(c)
    BY DEF Serve
  <1>1. UNCHANGED <<setup, lib, page, frame, announced, timers>> BY DEF Serve
  <1>2. /\ c \in CallType
        /\ kind # "reserve" => c.res \in Reservations
    BY <1>0 DEF PageInv, TypeOK, CallType, CallsFit
  <1>3. UNCHANGED srv => MadeStays /\ \A q \in Reservations : Live(q)' <=> Live(q)
    BY DEF MadeStays, Live
  <1>4. CASE kind = "reserve"
    <2>0. ServeReserve(c) BY <1>0, <1>4
    <2>1. CASE Reply(c, NoReservation, "fail") /\ UNCHANGED <<srv, by>>
      BY <2>1, <1>0, <1>1, <1>3, <1>4, ReplyHolds
    <2>2. ASSUME NEW r \in Reservations, srv[r] = "none",
                 srv' = [srv EXCEPT ![r] = "waiting"], Reply(c, r, "ok")
          PROVE  HeldInv'
      <3>1. /\ MadeStays /\ Made(r)'
            /\ \A q \in Reservations : Live(q)' => Live(q) \/ q = r
        BY <2>2 DEF MadeStays, Made, Live, PageInv, TypeOK
      <3> QED BY <2>2, <3>1, <1>0, <1>1, <1>4, ReplyHolds
    <2> QED BY <2>0, <2>1, <2>2 DEF ServeReserve
  <1>5. CASE kind \in {"check", "post"}
    <2>1. srv[c.res] \in Statuses /\ c.res \in Reservations
      BY <1>2, <1>5 DEF PageInv, TypeOK
    <2>2. ServeStatus(c) BY <1>0, <1>5
    <2>3. PICK ans \in {"ok", "fail"} \cup Statuses :
            /\ Reply(c, c.res, ans)
            /\ ans = IF srv[c.res] = "gone" THEN "fail" ELSE srv[c.res]
      BY <2>1, <2>2 DEF ServeStatus
    <2>4. UNCHANGED srv BY <2>2 DEF ServeStatus
    <2>5. ans \notin {"waiting", "confirmed"} => ~Live(c.res)'
      BY <2>1, <2>3, <2>4 DEF Live
    <2> QED BY <2>1, <2>3, <2>4, <2>5, <1>0, <1>1, <1>3, <1>5, ReplyHolds
  <1>6. CASE kind = "poll"
    <2>1. ServePoll(c) BY <1>0, <1>6
    <2>2. PICK ans \in {"ok", "fail"} : Reply(c, c.res, ans) BY <2>1 DEF ServePoll
    <2>3. UNCHANGED srv BY <2>1 DEF ServePoll
    <2> QED BY <2>2, <2>3, <1>0, <1>1, <1>2, <1>3, <1>6, ReplyHolds
  <1>7. CASE kind = "finish"
    <2>1. ServeFinish(c) BY <1>0, <1>7
    <2>2. PICK ans \in {"ok", "fail"} : Reply(c, c.res, ans) BY <2>1 DEF ServeFinish
    <2>3. EndAtServer(c.res, "user") BY <2>1 DEF ServeFinish
    <2>4. NoneRevives /\ ~Live(c.res)' BY <2>3, <1>2, <1>7, EndedIsOver DEF PageInv
    <2>5. MadeStays /\ \A q \in Reservations : Live(q)' => Live(q)
      BY <2>4 DEF MadeStays, NoneRevives
    <2> QED BY <2>2, <2>4, <2>5, <1>0, <1>1, <1>2, <1>7, ReplyHolds
  <1> QED BY <1>4, <1>5, <1>6, <1>7 DEF Kinds

LEMMA LoseHolds == ASSUME PageInv, HeldInv, Lose PROVE HeldInv'
  <1>1. PICK c \in calls : c.ans # "fail" /\ Reply(c, c.res, "fail") BY DEF Lose
  <1>2. /\ ~setup.reliable
        /\ UNCHANGED <<setup, srv, by, lib, page, frame, announced, timers>>
    BY DEF Lose
  <1>3. c.res \in Reservations \cup {NoReservation} BY DEF PageInv, TypeOK
  <1>4. MadeStays /\ \A q \in Reservations : Live(q)' => Live(q)
    BY <1>2 DEF MadeStays, Live
  <1> QED BY <1>1, <1>2, <1>3, <1>4, ReplyHolds

LEMMA HearReserveHolds ==
  ASSUME PageInv, HeldInv, NEW c \in calls, c.kind = "reserve",
         HearReserve(c), c.ans # "sent", UNCHANGED <<setup, announced>>
  PROVE  HeldInv'
  <1>1. /\ c \in StartCalls /\ ~lib.started /\ page.open /\ ~ComesFederated
        /\ StartTimers = {} /\ StartCalls = {c}
        /\ ~page.active /\ ~lib.ended /\ page.sentAway = NoReservation
    BY DEF PageInv, CallsFit, StartCalls, OneStart, StartsFresh, Starting, LibraryFits
  <1>2. /\ UNCHANGED <<setup, srv, by, page, frame, announced, timers>>
        /\ StartTimers' = {} /\ ~ComesFederated'
    BY <1>1 DEF HearReserve, StartTimers, ComesFederated
  <1>3. \A d \in calls : d.kind = "finish" => ~d.heard
    BY <1>1 DEF PageInv, CallsFit
  <1>4. CASE c.ans = "ok"
    <2> DEFINE d == Call("check", c.res)
    <2>1. d.kind = "check" /\ d.res = c.res /\ d.ans = "sent" /\ d.heard BY DEF Call
    <2>2. /\ calls' = (calls \ {c}) \cup {d}
          /\ lib' = [lib EXCEPT !.reserved = TRUE, !.res = c.res]
      BY <1>4 DEF HearReserve
    <2> HIDE DEF d
    <2>3. /\ lib'.reserved /\ lib'.res = c.res /\ lib'.started = lib.started
          /\ lib'.ended = lib.ended
      BY <2>2 DEF PageInv, TypeOK
    <2>4. StartCalls' = {d}
      BY <1>1, <2>1, <2>2 DEF StartCalls
    <2>5. AllMade'
      BY <1>1, <1>2, <1>4, <2>1, <2>2, <2>3, UnchangedRevivesNone DEF AllMade, HeldInv
    <2>6. CallsOfLibrary'
      BY <1>2, <1>3, <2>1, <2>2, <2>3, <2>4 DEF CallsOfLibrary, HeldInv
    <2>7. Truthful'
      BY <1>1, <1>2, <2>1, <2>2, <2>3, UnchangedRevivesNone DEF Truthful, HeldInv
    <2>8. LiveShown'
      BY <1>1, <1>2, <1>4, <2>1, <2>4, UnchangedRevivesNone
      DEF LiveShown, Shown, HeldInv
    <2> QED BY <2>5, <2>6, <2>7, <2>8 DEF HeldInv
  <1>5. CASE c.ans # "ok"
    <2>1. calls' = calls \ {c} /\ UNCHANGED lib BY <1>5 DEF HearReserve
    <2>2. StartCalls' = {} BY <1>1, <2>1 DEF StartCalls
    <2>3. AllMade'
      BY <1>2, <2>1, UnchangedRevivesNone DEF AllMade, HeldInv
    <2>4. CallsOfLibrary' BY <1>2, <2>1, <2>2 DEF CallsOfLibrary, HeldInv
    <2>5. Truthful'
      BY <1>1, <1>2, <2>1, UnchangedRevivesNone DEF Truthful, HeldInv
    <2>6. LiveShown'
      BY <1>1, <1>2, <1>5, UnchangedRevivesNone DEF LiveShown, Shown, HeldInv
    <2> QED BY <2>3, <2>4, <2>5, <2>6 DEF HeldInv
  <1> QED BY <1>4, <1>5

LEMMA HearConfirmedHolds ==
  ASSUME PageInv, HeldInv, NEW c \in calls, c.kind = "check",
         HearConfirmed(c), UNCHANGED <<setup, srv, by, frame, announced>>
  PROVE  HeldInv'
  <1> DEFINE d == Call("poll", c.res)
  <1>1. /\ c \in StartCalls /\ ~lib.started /\ page.open /\ ~ComesFederated
        /\ StartTimers = {} /\ StartCalls = {c}
        /\ ~page.active /\ ~lib.ended /\ page.sentAway = NoReservation
    BY DEF HearConfirmed, PageInv, CallsFit, StartCalls, OneStart, StartsFresh, Starting,
           LibraryFits
  <1>2. /\ lib' = [[lib EXCEPT !.finishOnClose = FinishesOnClose]
                     EXCEPT !.started = TRUE, !.active = TRUE,
                            !.polling = TRUE, !.res = c.res]
        /\ calls' = (calls \ {c}) \cup {d}
        /\ page' = [page EXCEPT !.active = TRUE, !.reserving = FALSE,
                          !.sentAway = IF setup.remote THEN c.res ELSE @]
        /\ UNCHANGED <<setup, srv, by, frame, announced, timers>>
    BY <1>1 DEF HearConfirmed
  <1>3. d.kind = "poll" /\ d.res = c.res /\ d.ans = "sent" /\ d.heard BY DEF Call
  <1> HIDE DEF d
  <1>4. /\ lib'.started /\ lib'.res = c.res /\ lib'.reserved = lib.reserved
        /\ lib'.ended = lib.ended
        /\ page'.active /\ page'.open /\ page'.loaded = page.loaded
    BY <1>1, <1>2 DEF PageInv, TypeOK
  <1>5. StartCalls' = {} /\ StartTimers' = {} /\ ~ComesFederated'
    BY <1>1, <1>2, <1>3, <1>4 DEF StartCalls, StartTimers, ComesFederated
  <1>6. \A e \in calls : e.kind = "finish" => ~e.heard
    BY <1>1 DEF PageInv, CallsFit
  <1>7. AllMade'
    BY <1>2, <1>3, <1>4, <1>5, UnchangedRevivesNone DEF AllMade, HeldInv
  <1>8. CallsOfLibrary'
    BY <1>2, <1>3, <1>5, <1>6 DEF CallsOfLibrary, HeldInv
  <1>9. Truthful'
    BY <1>1, <1>2, <1>3, <1>4, UnchangedRevivesNone DEF Truthful, HeldInv
  <1>10. LiveShown'
    <2>1. \A r \in Reservations : Shown(r) => r = c.res
      BY <1>1 DEF Shown, NoReservation, Reservations
    <2> QED BY <1>2, <1>4, <2>1, UnchangedRevivesNone DEF LiveShown, Shown, HeldInv
  <1> QED BY <1>7, <1>8, <1>9, <1>10 DEF HeldInv

LEMMA HearNotConfirmedHolds ==
  ASSUME PageInv, HeldInv, NEW c \in calls, c.kind = "check", c.ans # "sent",
         HearNotConfirmed(c), UNCHANGED <<setup, srv, by, frame, announced>>
  PROVE  HeldInv'
  <1> DEFINE more == CASE c.ans = "waiting" -> {Timer("check", c.res)}
                       [] c.ans = "post" -> {Timer("post", c.res)}
                       [] OTHER -> {}
  <1>1. /\ c \in StartCalls /\ ~lib.started /\ page.open /\ ~ComesFederated
        /\ StartTimers = {} /\ StartCalls = {c}
        /\ ~page.active /\ ~lib.ended /\ page.sentAway = NoReservation
    BY DEF PageInv, CallsFit, StartCalls, OneStart, StartsFresh, Starting, LibraryFits
  <1>2. /\ \A t \in more : t.kind = "check" => c.ans = "waiting" /\ t.res = c.res
        /\ c.ans = "waiting" => \E t \in more : t.kind = "check" /\ t.res = c.res
    <2> DEFINE again == Timer("check", c.res)
               later == Timer("post", c.res)
    <2>1. again.kind = "check" /\ again.res = c.res /\ later.kind = "post" BY DEF Timer
    <2>2. c.ans = "waiting" => more = {again} OBVIOUS
    <2>3. c.ans = "post" => more = {later} OBVIOUS
    <2>4. c.ans \notin {"waiting", "post"} => more = {} OBVIOUS
    <2> QED BY <2>1, <2>2, <2>3, <2>4
  <1>3. /\ lib' = [lib EXCEPT !.results = @ \/ c.ans = "done"]
        /\ calls' = calls \ {c} /\ timers' = timers \cup more
        /\ c.ans # "confirmed"
        /\ UNCHANGED <<setup, srv, by, page, frame, announced>>
    BY DEF HearNotConfirmed
  <1> HIDE DEF more
  <1>4. SameUse(lib, lib') /\ lib'.ended = lib.ended
    BY <1>3 DEF SameUse, PageInv, TypeOK
  <1>5. /\ StartCalls' = {} /\ ~ComesFederated'
        /\ \A t \in StartTimers' : c.ans = "waiting" /\ t.res = c.res
        /\ c.ans = "waiting" => \E t \in StartTimers' : t.res = c.res
    BY <1>1, <1>2, <1>3 DEF StartCalls, StartTimers, ComesFederated
  <1>6. AllMade'
    BY <1>3, <1>4, <1>5, UnchangedRevivesNone DEF AllMade, HeldInv, SameUse
  <1>7. CallsOfLibrary'
    BY <1>1, <1>3, <1>4, <1>5 DEF CallsOfLibrary, HeldInv, SameUse
  <1>8. Truthful'
    BY <1>1, <1>3, <1>4, UnchangedRevivesNone DEF Truthful, HeldInv, SameUse
  <1>9. LiveShown'
    <2>1. \A r \in Reservations : Shown(r) => r = c.res
      BY <1>1 DEF Shown, NoReservation, Reservations
    <2>2. setup.reliable /\ Live(c.res) => c.ans = "waiting"
      BY <1>3 DEF HeldInv, Truthful
    <2> QED
      BY <1>3, <1>5, <2>1, <2>2, UnchangedRevivesNone DEF LiveShown, Shown, HeldInv
  <1> QED BY <1>6, <1>7, <1>8, <1>9 DEF HeldInv

LEMMA EndHolds ==
  ASSUME PageInv, HeldInv, lib.started, page.open,
         PageHears, UNCHANGED <<setup, timers>>,
         SameUse(lib, lib'), NoneRevives,
         \A c \in calls' : c \in calls \/ AboutTheEnd(c),
         setup.reliable /\ lib'.ended /\ Live(lib.res)' => FinishAsked',
         setup.reliable /\ ~lib.deactive /\ lib'.deactive => ~Live(lib.res)'
  PROVE  HeldInv'
  <1>1. /\ page'.open = page.open /\ page'.loaded = page.loaded
        /\ page'.sentAway = page.sentAway
        /\ (~lib.deactive /\ lib'.deactive) \/ page'.active = page.active
    BY PageHearsFields DEF PageInv
  <1>2. ~Starting /\ ~ComesFederated /\ lib.res \in Reservations
    BY DEF PageInv, StartsFresh, LibraryFits
  <1>3. StartCalls' = {} /\ StartTimers' = {} /\ ~ComesFederated'
    BY <1>1, <1>2 DEF Starting, StartCalls, StartTimers, AboutTheEnd, ComesFederated
  <1>4. \A r : Made(r) => Made(r)' BY DEF Made, NoneRevives
  <1>5. AllMade'
    BY <1>3, <1>4 DEF AllMade, HeldInv, AboutTheEnd, SameUse
  <1>6. CallsOfLibrary' BY <1>3 DEF CallsOfLibrary, HeldInv, AboutTheEnd, SameUse
  <1>7. Truthful'
    <2> SUFFICES ASSUME setup.reliable PROVE Truthful' BY DEF Truthful
    <2>1. \A c \in calls : c.kind # "reserve" /\ ~Live(c.res) => ~Live(c.res)'
      BY DEF NoneRevives, PageInv, CallsFit
    <2> QED BY <2>1, <1>1 DEF Truthful, HeldInv, AboutTheEnd, SameUse, FinishAsked
  <1>8. LiveShown'
    <2> SUFFICES ASSUME setup.reliable, NEW r \in Reservations, Live(r)'
                 PROVE  Shown(r)'
      BY DEF LiveShown
    <2>1. Shown(r) BY DEF HeldInv, LiveShown, NoneRevives
    <2>2. page.sentAway = r \/ (page.active /\ lib.res = r)
      BY <2>1, <1>2 DEF Shown, Starting
    <2> QED BY <2>2, <1>1 DEF Shown, SameUse
  <1> QED BY <1>5, <1>6, <1>7, <1>8 DEF HeldInv

LEMMA EndedIsAsked ==
  ASSUME PageInv, HeldInv, setup.reliable, page.open, lib.ended, Live(lib.res)
  PROVE  FinishAsked
  BY DEF HeldInv, Truthful, FinishAsked

LEMMA ForcedFinishHolds ==
  ASSUME PageInv, HeldInv, lib.started, page.open, NEW l \in LibType, SameUse(lib, l),
         l.deactive = lib.deactive, NEW remaining \in SUBSET calls,
         NEW who \in {"user", "poll"},
         ForcedFinish(l, remaining, who),
         PageHears, UNCHANGED <<setup, timers>>
  PROVE  HeldInv'
  <1>1. PICK ok \in BOOLEAN : /\ SyncFinish(l.res, who, ok)
                              /\ lib' = AfterFinish(Finished(l), ok)
                              /\ calls' = remaining \cup AskResults(ok)
    BY DEF ForcedFinish
  <1>2. TypeOK /\ lib.res \in Reservations BY DEF PageInv, LibraryFits
  <1>3. /\ Finished(l) \in LibType
        /\ SameUse(l, Finished(l))
    BY FinishedLibrary
  <1>4. SameUse(Finished(l), lib') BY <1>1, <1>3, AfterFinishLibrary
  <1>5. SameUse(lib, lib') BY <1>3, <1>4 DEF SameUse
  <1>6. NoneRevives /\ (setup.reliable => ~Live(l.res)')
    BY <1>1, <1>2, SyncEndedIsOver DEF SameUse
  <1>7. \A c \in AskResults(ok) : AboutTheEnd(c)
    BY <1>2, AskedResults
  <1> QED BY <1>1, <1>5, <1>6, <1>7, EndHolds DEF SameUse

LEMMA HearPollHolds ==
  ASSUME PageInv, HeldInv, NEW c \in calls, c.kind = "poll", c.ans # "sent",
         HearPoll(c), UNCHANGED <<setup, announced>>
  PROVE  HeldInv'
  <1>1. /\ c.heard /\ page.open /\ lib.started /\ lib \in LibType
    BY DEF PageInv, CallsFit, TypeOK, LibType
  <1>2. PageHears /\ UNCHANGED timers BY DEF HearPoll
  <1>3. ASSUME UNCHANGED srv, SameUse(lib, lib'), lib'.ended = lib.ended,
               lib'.deactive = lib.deactive, calls' = calls \ {c}
        PROVE  HeldInv'
    <2>1. NoneRevives /\ (Live(lib.res)' => Live(lib.res))
      BY <1>3, UnchangedRevivesNone DEF SameUse
    <2>2. FinishAsked => FinishAsked' BY <1>3 DEF FinishAsked
    <2> QED BY <1>1, <1>2, <1>3, <2>1, <2>2, EndHolds, EndedIsAsked
  <1>4. CASE HearGoodPoll(c)
    <2>1. /\ lib' = [lib EXCEPT !.timer = @ \/ lib.polling]
          /\ calls' = calls \ {c} /\ UNCHANGED <<srv, by>>
      BY <1>4 DEF HearGoodPoll
    <2>2. /\ SameUse(lib, lib') /\ lib'.deactive = lib.deactive /\ lib'.ended = lib.ended
      BY <1>1, <2>1 DEF LibType, SameUse
    <2> QED BY <1>3, <2>1, <2>2
  <1>5. CASE HearBadPoll(c)
    <2> DEFINE quiet == [lib EXCEPT !.polling = FALSE]
    <2>1. /\ quiet \in LibType /\ SameUse(lib, quiet)
          /\ quiet.deactive = lib.deactive /\ quiet.ended = lib.ended
      BY <1>1 DEF LibType, SameUse
    <2>2. IF lib.finishOnClose
          THEN ForcedFinish(quiet, calls \ {c}, "poll")
          ELSE lib' = quiet /\ calls' = calls \ {c} /\ UNCHANGED <<srv, by>>
      BY <1>5 DEF HearBadPoll
    <2> HIDE DEF quiet
    <2>3. CASE lib.finishOnClose
      BY <1>1, <1>2, <2>1, <2>2, <2>3, ForcedFinishHolds
    <2>4. CASE ~lib.finishOnClose BY <1>3, <2>1, <2>2, <2>4
    <2> QED BY <2>3, <2>4
  <1> QED BY <1>4, <1>5 DEF HearPoll

LEMMA HearFinishHolds ==
  ASSUME PageInv, HeldInv, NEW c \in calls, c.kind = "finish", c.ans # "sent",
         HearFinish(c), UNCHANGED <<setup, announced>>
  PROVE  HeldInv'
  <1>1. /\ c.heard /\ page.open /\ lib.started /\ lib.res \in Reservations
        /\ lib \in LibType
    BY DEF PageInv, CallsFit, TypeOK, LibType, LibraryFits
  <1> DEFINE ok == c.ans = "ok"
  <1>2. /\ lib' = AfterFinish(lib, ok)
        /\ calls' = (calls \ {c}) \cup AskResults(ok)
        /\ PageHears /\ UNCHANGED <<srv, by, timers>>
    BY DEF HearFinish
  <1>3. ok \in BOOLEAN OBVIOUS
  <1>4. setup.reliable => ~Live(lib.res)
    BY <1>1 DEF HeldInv, Truthful, CallsOfLibrary
  <1> HIDE DEF ok
  <1>5. SameUse(lib, lib') /\ (lib.deactive => lib'.deactive)
    BY <1>1, <1>2, <1>3, AfterFinishLibrary
  <1>6. \A d \in AskResults(ok) : AboutTheEnd(d)
    BY <1>1, <1>3, AskedResults
  <1>7. NoneRevives BY <1>2, UnchangedRevivesNone
  <1>8. setup.reliable => ~Live(lib.res)'
    BY <1>1, <1>4, <1>5, <1>7 DEF NoneRevives, SameUse
  <1> QED BY <1>1, <1>2, <1>5, <1>6, <1>7, <1>8, EndHolds

LEMMA CleanHolds ==
  ASSUME PageInv, HeldInv, CleanExperiment, Impatience = {}
  PROVE  HeldInv'
  <1>1. /\ page.open /\ page.active /\ PageHears /\ ~InFlight({"finish"})
        /\ UNCHANGED <<setup, srv, by, announced, timers>>
    BY DEF CleanExperiment
  <1>2. lib.started /\ lib.res \in Reservations /\ lib \in LibType
    BY <1>1 DEF PageInv, TypeOK, LibType, LibraryFits
  <1>3. NoneRevives BY <1>1, UnchangedRevivesNone
  <1>4. /\ Finished(lib) \in LibType
        /\ SameUse(lib, Finished(lib)) /\ Finished(lib).ended
        /\ Finished(lib).deactive = lib.deactive
    BY <1>2, FinishedLibrary
  <1>5. CASE lib.ended
    <2>1. lib' = [Finished(lib) EXCEPT !.deactive = TRUE] /\ UNCHANGED calls
      BY <1>5 DEF CleanExperiment
    <2>2. SameUse(Finished(lib), lib') BY <1>4, <2>1 DEF LibType, SameUse
    <2>3. SameUse(lib, lib') BY <1>4, <2>2 DEF SameUse
    <2>4. ~FinishAsked BY <1>1 DEF FinishAsked, InFlight
    <2>5. setup.reliable => ~Live(lib.res) BY <1>1, <1>5, <2>4, EndedIsAsked
    <2>6. setup.reliable => ~Live(lib.res)'
      BY <1>2, <1>3, <2>3, <2>5 DEF NoneRevives, SameUse
    <2> QED BY <1>1, <1>2, <1>3, <2>1, <2>3, <2>6, EndHolds
  <1>6. CASE ~lib.ended
    <2> DEFINE d == Call("finish", lib.res)
    <2>1. lib' = Finished(lib) /\ calls' = calls \cup {d}
      BY <1>6 DEF CleanExperiment
    <2>2. AboutTheEnd(d) /\ d.heard /\ d.kind = "finish" /\ d.ans = "sent"
      BY <1>2 DEF AboutTheEnd, Call, CallType, Kinds
    <2> HIDE DEF d
    <2>3. FinishAsked' BY <2>1, <2>2 DEF FinishAsked
    <2> QED BY <1>1, <1>2, <1>3, <1>4, <2>1, <2>2, <2>3, EndHolds
  <1> QED BY <1>5, <1>6

LEMMA FinishExperimentHolds ==
  ASSUME PageInv, HeldInv, FinishExperiment
  PROVE  HeldInv'
  <1>1. lib \in LibType /\ SameUse(lib, lib) BY DEF PageInv, TypeOK, LibType, SameUse
  <1>2. /\ page.open /\ lib.started /\ ForcedFinish(lib, calls, "user")
        /\ PageHears /\ UNCHANGED <<setup, announced, timers>>
    BY DEF FinishExperiment
  <1> QED BY <1>1, <1>2, ForcedFinishHolds

LEMMA UnloadEndsAll ==
  ASSUME PageInv, FinishOnUnload
  PROVE  /\ NoneRevives
         /\ setup.reliable /\ lib.finishOnClose /\ (lib.active \/ lib.reserved)
              => \A r \in Reservations : Live(r)' => r # lib.res
  <1>1. CASE lib.finishOnClose /\ (lib.active \/ lib.reserved)
    <2>1. PICK ok \in BOOLEAN : SyncFinish(lib.res, "close", ok)
      BY <1>1 DEF FinishOnUnload
    <2>2. TypeOK /\ lib.res \in Reservations BY <1>1 DEF PageInv, LibraryFits
    <2> QED BY <2>1, <2>2, SyncEndedIsOver
  <1>2. CASE ~(lib.finishOnClose /\ (lib.active \/ lib.reserved))
    BY <1>2, UnchangedRevivesNone DEF FinishOnUnload
  <1> QED BY <1>1, <1>2

(* What is left of the calls when a document is left, if nothing that      *)
(* reserves is among them.                                                 *)
LEMMA LeavingHolds ==
  ASSUME PageInv, HeldInv, NoneRevives, UNCHANGED setup,
         calls' = Abandoned, timers' = {}, ~ComesFederated',
         \A c \in StartCalls : c.kind # "reserve",
         lib'.started => lib.started /\ lib'.res = lib.res,
         page'.open => ~lib'.ended,
         setup.reliable => \A r \in Reservations : Live(r)' => page'.sentAway = r
  PROVE  HeldInv'
  <1>1. \A c \in Abandoned :
           /\ c \in CallType /\ ~c.heard /\ c.ans = "sent"
           /\ c.kind \in {"reserve", "finish"}
           /\ \E d \in calls : /\ c.kind = d.kind /\ c.res = d.res
                               /\ d.ans = "sent"
    BY AbandonedCalls DEF PageInv
  <1>2. \A c \in calls' : ~c.heard /\ c.ans = "sent" /\ c.kind = "finish" /\ Made(c.res)
    <2>1. \A d \in calls : d.kind # "reserve"
      BY DEF HeldInv, CallsOfLibrary, StartCalls
    <2> QED BY <1>1, <2>1 DEF HeldInv, AllMade
  <1>3. \A r : Made(r) => Made(r)' BY DEF Made, NoneRevives
  <1>4. StartCalls' = {} /\ StartTimers' = {} BY <1>2 DEF StartCalls, StartTimers
  <1>5. AllMade' BY <1>2, <1>3, <1>4 DEF AllMade, HeldInv
  <1>6. CallsOfLibrary' BY <1>2, <1>4 DEF CallsOfLibrary
  <1>7. Truthful' BY <1>2 DEF Truthful
  <1>8. LiveShown' BY DEF LiveShown, Shown
  <1> QED BY <1>5, <1>6, <1>7, <1>8 DEF HeldInv

LEMMA UnloadHolds == ASSUME PageInv, HeldInv, Unload PROVE HeldInv'
  <1>1. /\ page.open /\ frame = "leaving" /\ FinishOnUnload
        /\ lib' = FreshLibrary /\ calls' = Abandoned /\ timers' = {}
        /\ UNCHANGED <<setup, page, announced>>
    BY DEF Unload
  <1>2. lib.started /\ ~page.active /\ ~Starting /\ ~ComesFederated
    BY <1>1 DEF PageInv, LibraryFits, StartsFresh
  <1>3. ~lib'.started /\ ~lib'.ended BY <1>1 DEF FreshLibrary
  <1>4. NoneRevives BY <1>1, UnloadEndsAll
  <1>5. ~ComesFederated' BY <1>1, <1>2 DEF ComesFederated
  <1>6. setup.reliable => \A r \in Reservations : Live(r)' => page.sentAway = r
    BY <1>2, <1>4 DEF HeldInv, LiveShown, Shown, Starting, NoneRevives
  <1> QED BY <1>1, <1>2, <1>3, <1>4, <1>5, <1>6, LeavingHolds DEF Starting

LEMMA LeavePageFields ==
  ASSUME PageInv, LeavePage
  PROVE  /\ ~page'.open /\ page'.sentAway = page.sentAway /\ page'.loaded = page.loaded
         /\ lib'.started = lib.started /\ lib'.res = lib.res
         /\ calls' = Abandoned /\ timers' = {}
         /\ FinishOnUnload /\ page.open
         /\ UNCHANGED setup
  BY DEF LeavePage, PageInv, TypeOK

LEMMA CloseWindowHolds ==
  ASSUME PageInv, HeldInv, CloseWindow, Impatience = {}
  PROVE  HeldInv'
  <1>1. /\ ~InFlight({"reserve", "finish"}) /\ ~ComesFederated
        /\ ~(setup.federated /\ page.reserving) /\ LeavePage
    BY DEF CloseWindow
  <1>2. /\ ~page'.open /\ page'.sentAway = page.sentAway /\ page'.loaded = page.loaded
        /\ lib'.started = lib.started /\ lib'.res = lib.res
        /\ calls' = Abandoned /\ timers' = {}
        /\ FinishOnUnload /\ page.open
        /\ UNCHANGED setup
    BY <1>1, LeavePageFields
  <1>3. /\ NoneRevives
        /\ setup.reliable /\ lib.finishOnClose /\ (lib.active \/ lib.reserved)
              => \A r \in Reservations : Live(r)' => r # lib.res
    BY <1>2, UnloadEndsAll
  <1>4. /\ \A c \in StartCalls : c.kind = "check"
        /\ ~FinishAsked
    BY <1>1 DEF InFlight, StartCalls, FinishAsked
  <1>5. ~ComesFederated' BY <1>1, <1>2 DEF ComesFederated
  <1>6. ASSUME setup.reliable, NEW r \in Reservations, Live(r)', page.sentAway # r
        PROVE  FALSE
    <2>1. Live(r) /\ Shown(r) BY <1>3, <1>6 DEF NoneRevives, HeldInv, LiveShown
    <2>2. CASE page.active /\ lib.res = r
      <3>1. lib.started BY <2>2 DEF PageInv, LibraryFits
      <3>2. ~setup.remote BY <1>6, <2>2, <3>1 DEF PageInv, SentAway
      <3>3. lib.finishOnClose BY <3>2 DEF PageInv, LibraryFits
      <3>4. ~lib.ended BY <1>2, <1>4, <1>6, <2>1, <2>2, EndedIsAsked
      <3>5. lib.active BY <3>1, <3>4 DEF PageInv, LibraryFits
      <3> QED BY <1>2, <1>3, <1>6, <2>2, <3>3, <3>5
    <2>3. CASE Starting
      <3>1. /\ page.reserving /\ ~lib.started /\ page.sentAway = NoReservation
            /\ ~page.active /\ ~setup.federated
        BY <2>3, <1>1 DEF PageInv, StartsFresh, LibraryFits
      <3>2. lib.reserved /\ lib.res = r
        BY <1>1, <1>4, <1>6, <2>1, <3>1 DEF Shown, HeldInv, CallsOfLibrary
      <3>3. lib.finishOnClose BY <3>1 DEF PageInv, LibraryFits
      <3> QED BY <1>3, <1>6, <3>2, <3>3
    <2> QED BY <1>1, <1>6, <2>1, <2>2, <2>3 DEF Shown, Starting
  <1> QED BY <1>2, <1>3, <1>4, <1>5, <1>6, LeavingHolds

LEMMA GoToRemoteHolds == ASSUME PageInv, HeldInv, GoToRemote PROVE HeldInv'
  <1>1. page.sentAway # NoReservation /\ LeavePage BY DEF GoToRemote
  <1>2. /\ ~page'.open /\ page'.sentAway = page.sentAway /\ page'.loaded = page.loaded
        /\ lib'.started = lib.started /\ lib'.res = lib.res
        /\ calls' = Abandoned /\ timers' = {}
        /\ FinishOnUnload
        /\ UNCHANGED setup
    BY <1>1, LeavePageFields
  <1>3. NoneRevives BY <1>2, UnloadEndsAll
  <1>4. ~Starting /\ ~ComesFederated /\ setup.remote
    BY <1>1 DEF PageInv, StartsFresh, SentAway
  <1>5. page.active => page.sentAway = lib.res
    BY <1>4 DEF PageInv, LibraryFits, SentAway
  <1>6. ~ComesFederated' BY <1>2, <1>4 DEF ComesFederated
  <1>7. setup.reliable => \A r \in Reservations : Live(r)' => page.sentAway = r
    BY <1>3, <1>4, <1>5 DEF HeldInv, LiveShown, Shown, Starting, NoneRevives
  <1> QED BY <1>2, <1>3, <1>4, <1>6, <1>7, LeavingHolds DEF Starting

LEMMA HearHolds ==
  ASSUME PageInv, HeldInv, NEW kind \in Kinds, Hear(kind)
  PROVE  HeldInv'
  <1>1. PICK c \in calls :
          /\ c.kind = kind /\ c.ans # "sent"
          /\ CASE kind = "reserve" -> HearReserve(c)
               [] kind = "check" -> HearCheck(c)
               [] kind = "poll" -> HearPoll(c)
               [] kind = "finish" -> HearFinish(c)
               [] kind = "post" -> HearPost(c)
    BY DEF Hear
  <1>2. UNCHANGED <<setup, announced>> BY DEF Hear
  <1>3. CASE kind = "reserve"
    <2>1. HearReserve(c) BY <1>1, <1>3
    <2> QED BY <1>1, <1>2, <1>3, <2>1, HearReserveHolds
  <1>4. CASE kind = "check"
    <2>1. HearCheck(c) BY <1>1, <1>4
    <2>2. HearConfirmed(c) \/ HearNotConfirmed(c) BY <2>1 DEF HearCheck
    <2>3. UNCHANGED <<srv, by, frame>> BY <2>1 DEF HearCheck
    <2> QED
      BY <1>1, <1>2, <1>4, <2>2, <2>3, HearConfirmedHolds, HearNotConfirmedHolds
  <1>5. CASE kind = "poll"
    <2>1. HearPoll(c) BY <1>1, <1>5
    <2> QED BY <1>1, <1>2, <1>5, <2>1, HearPollHolds
  <1>6. CASE kind = "finish"
    <2>1. HearFinish(c) BY <1>1, <1>6
    <2> QED BY <1>1, <1>2, <1>6, <2>1, HearFinishHolds
  <1>7. CASE kind = "post"
    <2>1. HearPost(c) BY <1>1, <1>7
    <2> QED BY <1>1, <1>2, <1>7, <2>1, HearPostHolds
  <1> QED BY <1>3, <1>4, <1>5, <1>6, <1>7 DEF Kinds

LEMMA StepHolds ==
  ASSUME PageInv, HeldInv, [Next]_vars, Impatience = {}
  PROVE  HeldInv'
  <1>1. CASE Server BY <1>1, ServerHolds
  <1>2. CASE Lose BY <1>2, LoseHolds
  <1>3. CASE PollAgain BY <1>3, PollAgainHolds
  <1>4. CASE \E kind \in Kinds : Serve(kind) BY <1>4, ServeHolds
  <1>5. CASE \E kind \in Kinds : Hear(kind) BY <1>5, HearHolds
  <1>6. CASE \E kind \in {"check", "post"} : AskAgain(kind) BY <1>6, AskAgainHolds
  <1>7. CASE Reserve BY <1>7, ReserveHolds
  <1>8. CASE CleanExperiment BY <1>8, CleanHolds
  <1>9. CASE FinishExperiment BY <1>9, FinishExperimentHolds
  <1>10. CASE FrameLoads \/ ResetAnnounces BY <1>10, FrameLoadsHolds
  <1>11. CASE MarkAsLoaded BY <1>11, MarkAsLoadedHolds
  <1>12. CASE Unload BY <1>12, UnloadHolds
  <1>13. CASE CloseWindow BY <1>13, CloseWindowHolds
  <1>14. CASE GoToRemote BY <1>14, GoToRemoteHolds
  <1>15. CASE UNCHANGED vars
    <2>1. /\ UNCHANGED <<setup, srv, by, lib, page, frame, announced, calls, timers>>
          /\ SameUse(lib, lib') /\ UNCHANGED StartTimers
      BY <1>15 DEF vars, SameUse, StartTimers
    <2> QED BY <2>1, MinorHolds, UnchangedRevivesNone
  <1> QED
    BY <1>1, <1>2, <1>3, <1>4, <1>5, <1>6, <1>7, <1>8, <1>9, <1>10, <1>11, <1>12,
       <1>13, <1>14, <1>15 DEF Next

(* If nothing is lost and the user waits for answers, a reservation that is
   waiting or confirmed is shown by an open page or was taken over: closing the
   window gave back all others (weblab.v1.js:113).                          *)
THEOREM PlacesAreGivenBack ==
  ASSUME Impatience = {}
  PROVE  Spec => []NobodyHeldUp
  <1>1. "reserve_twice" \notin Impatience OBVIOUS
  <1>2. Init => PageInv /\ HeldInv BY InitPage, InitHeld
  <1>3. PageInv /\ HeldInv /\ [Next]_vars => (PageInv /\ HeldInv)'
    BY <1>1, StepKeeps, StepHolds
  <1>4. PageInv /\ HeldInv => NobodyHeldUp
    <2> SUFFICES ASSUME PageInv, HeldInv, setup.reliable, NEW r \in Reservations, Live(r)
                 PROVE  \/ page.open /\ (page.reserving \/ page.active \/ ComesFederated)
                        \/ page.sentAway = r
      BY DEF NobodyHeldUp
    <2>1. Shown(r) BY DEF HeldInv, LiveShown
    <2>2. Starting => page.open /\ page.reserving BY DEF PageInv, StartsFresh
    <2>3. ComesFederated => page.open BY DEF PageInv, StartsFresh
    <2> QED BY <2>1, <2>2, <2>3 DEF Shown, Starting
  <1> QED BY <1>2, <1>3, <1>4, PTL DEF Spec
=============================================================================
