------------------------------- MODULE WebPage -------------------------------
(***************************************************************************)
(* The page of the web client (App.vue): the user, the mode, the snapshot  *)
(* of the lab, the poll timer and the requests that are in flight.  Every  *)
(* handler runs up to its await, and goes on when the answer arrives; in   *)
(* between the lab, the session and the page change.  Answers arrive in    *)
(* any order.                                                              *)
(*                                                                         *)
(* There is one lab.  Its states are numbered, 0 standing for no lab and   *)
(* LastVersion for its end; a snapshot is the number it was taken at.  The *)
(* course catalogue and the text of the courses are left out.              *)
(***************************************************************************)
EXTENDS Integers

CONSTANTS
  LastVersion,      \* the state in which the lab has ended
  MaxInFlight,      \* requests in flight at a time
  MaxPageActs,      \* things the user does
  MaxPageFaults     \* lost requests and lost answers

ASSUME WebPageAssumption ==
  /\ LastVersion \in Nat \ {0} /\ MaxInFlight \in Nat \ {0}
  /\ MaxPageActs \in Nat /\ MaxPageFaults \in Nat

VARIABLES
  page,         \* the refs of App.vue: user, mode, hidden, timer, snapshot
  inFlight,     \* the requests
  cookie,       \* whether the browser has the cookie of a live session
  labVersion,   \* the lab
  logins,       \* how often the page has changed its user
  mixedUp,      \* whether an answer was used after such a change
  pageActs, pageFaults

pageVars == <<page, inFlight, cookie, labVersion, logins, mixedUp, pageActs, pageFaults>>

-----------------------------------------------------------------------------
Places == 1..MaxInFlight
NoRequest == [kind |-> "none", answer |-> "none", version |-> 0, login |-> 0]
Logins == {"login", "loginToLab"}
Restores == {"restore", "restoreToLab", "restoreQuietly", "restoreActive"}
Commands == {"create", "act", "logout"}
Requested == Logins \cup Restores \cup Commands \cup {"boot", "load", "batch"}
Guest == [user |-> FALSE, mode |-> "course", hidden |-> FALSE, timer |-> FALSE, snapshot |-> 0]
Free == {p \in Places : inFlight[p].kind = "none"}
FreePlace == CHOOSE p \in Places : p \in Free
Pending(kinds) == \E p \in Places : inFlight[p].kind \in kinds
Ended(v) == v = LastVersion
Running(v) == v # 0 /\ ~Ended(v)

\* The refs bootstrapping, authBusy and requestBusy: each is set until its
\* handlers have ended, the restoreLab they wait for included.
Bootstrapping == Pending({"boot", "restore"})
AuthBusy == Pending(Logins \cup {"restoreToLab", "restoreQuietly"})
RequestBusy == Pending(Commands \cup {"restoreActive"})

Sending(kind, n) == [kind |-> kind, answer |-> "none", version |-> 0, login |-> n]

\* onMounted: restoreSession asks who the user is.
WebPageInit ==
  /\ page = Guest
  /\ inFlight = [p \in Places |-> IF p = 1 THEN Sending("boot", 0) ELSE NoRequest]
  /\ cookie \in BOOLEAN
  /\ labVersion \in {0, 1}
  /\ logins = 0 /\ mixedUp = FALSE
  /\ pageActs = 0 /\ pageFaults = 0

\* Types; a timer runs only for a user who has a lab on show: clearPoll and the
\* conditions of schedulePoll, wherever the page loses one of these.
WebPageTypeOK ==
  /\ page \in [user : BOOLEAN, mode : {"course", "lab"}, hidden : BOOLEAN,
               timer : BOOLEAN, snapshot : 0..LastVersion]
  /\ inFlight \in [Places -> [kind : Requested \cup {"none"},
                             answer : {"none", "ok", "401", "active", "error"},
                             version : 0..LastVersion, login : 0..logins]]
  /\ {cookie, mixedUp} \subseteq BOOLEAN
  /\ labVersion \in 0..LastVersion
  /\ page.timer => page.user /\ page.mode = "lab" /\ ~page.hidden

-----------------------------------------------------------------------------
(***************************************************************************)
(* The handlers.                                                           *)
(***************************************************************************)
\* Mutant: a hidden page polls too.
ScheduledHidden(pg) ==
  [pg EXCEPT !.timer = pg.user /\ pg.mode = "lab" /\ pg.snapshot # 0]

\* schedulePoll: the timer is cleared, and set again if the lab is on show.
Scheduled(pg) ==
  [pg EXCEPT !.timer = pg.user /\ pg.mode = "lab" /\ ~pg.hidden /\ pg.snapshot # 0]

\* courseMode, with the watch on it.
WithMode(pg, m) == IF pg.mode = m THEN pg ELSE Scheduled([pg EXCEPT !.mode = m])

\* Mutant: the page keeps the snapshot.
EnterGuestModeKeeps(pg) == [pg EXCEPT !.user = FALSE, !.timer = FALSE, !.mode = "course"]

\* enterGuestMode.
EnterGuestMode(pg) == [Guest EXCEPT !.hidden = pg.hidden]

\* Mutant: the poll goes on only after a snapshot that could be loaded.
LoadedOnSuccess(pg, q) ==
  CASE q.answer = "ok" -> Scheduled([pg EXCEPT !.snapshot = q.version])
    [] q.answer = "401" -> EnterGuestMode(pg)
    [] OTHER -> pg

\* loadSnapshot, after getLab.
Loaded(pg, q) ==
  Scheduled(CASE q.answer = "ok" -> [pg EXCEPT !.snapshot = q.version]
              [] q.answer = "401" -> EnterGuestMode(pg)
              [] OTHER -> pg)

\* restoreLab, after getLab of the lab that is remembered, if there is one.  A
\* login from the experiment tab shows the tab even if the lab has ended.
Restored(pg, q) ==
  LET shown == [pg EXCEPT !.snapshot = q.version]
  IN  IF q.answer # "ok" THEN pg
      ELSE IF Running(q.version)
           THEN Scheduled(IF q.kind = "restoreQuietly" THEN shown ELSE [shown EXCEPT !.mode = "lab"])
      ELSE IF q.kind = "restoreToLab" THEN WithMode(shown, "lab")
      ELSE shown

\* handleCreate.
Created(pg, q) ==
  CASE q.answer = "ok" -> Scheduled([pg EXCEPT !.snapshot = q.version, !.mode = "lab"])
    [] q.answer = "401" -> EnterGuestMode(pg)
    [] OTHER -> pg

\* handleReset, handleTerminate and handleLabAction.
Acted(pg, q) ==
  CASE q.answer = "ok" -> Scheduled(pg)
    [] q.answer = "401" -> EnterGuestMode(pg)
    [] OTHER -> pg

\* handleTrafficBatch leaves the poll alone.
Batched(pg, q) == IF q.answer = "401" THEN EnterGuestMode(pg) ELSE pg

LoggedOut(pg, q) == IF q.answer \in {"ok", "401"} THEN EnterGuestMode(pg) ELSE pg
LoggedIn(pg, q) == IF q.answer = "ok" THEN [pg EXCEPT !.user = TRUE] ELSE pg
Booted(pg, q) == [pg EXCEPT !.user = (q.answer = "ok")]

After(pg, q) ==
  CASE q.kind = "load" -> Loaded(pg, q)
    [] q.kind \in Restores -> Restored(pg, q)
    [] q.kind = "create" -> Created(pg, q)
    [] q.kind = "act" -> Acted(pg, q)
    [] q.kind = "batch" -> Batched(pg, q)
    [] q.kind = "logout" -> LoggedOut(pg, q)
    [] q.kind \in Logins -> LoggedIn(pg, q)
    [] q.kind = "boot" -> Booted(pg, q)

\* The request a handler makes next.
Following(q) ==
  CASE q.kind = "boot" /\ q.answer = "ok" -> "restore"
    [] q.kind = "login" /\ q.answer = "ok" -> "restoreQuietly"
    [] q.kind = "loginToLab" /\ q.answer = "ok" -> "restoreToLab"
    [] q.kind = "create" /\ q.answer = "active" -> "restoreActive"
    [] OTHER -> "none"

-----------------------------------------------------------------------------
(***************************************************************************)
(* Requests and their answers.                                             *)
(***************************************************************************)
\* The platform handles a request.
Serve(p) ==
  LET q == inFlight[p]
      Answered(a, v) == inFlight' = [inFlight EXCEPT ![p].answer = a, ![p].version = v]
  IN  /\ q.kind # "none" /\ q.answer = "none"
      /\ \/ /\ q.kind \in Logins
            /\ Answered("ok", 0) /\ UNCHANGED <<cookie, labVersion>>
         \/ /\ q.kind \notin Logins /\ ~cookie
            /\ Answered("401", 0) /\ UNCHANGED <<cookie, labVersion>>
         \/ /\ q.kind = "logout" /\ cookie
            /\ Answered("ok", 0) /\ cookie' = FALSE /\ UNCHANGED labVersion
         \/ /\ q.kind \in {"boot", "act", "batch"} /\ cookie
            /\ Answered("ok", 0) /\ UNCHANGED <<cookie, labVersion>>
         \/ /\ q.kind \in Restores \cup {"load"} /\ cookie
            /\ Answered("ok", labVersion) /\ UNCHANGED <<cookie, labVersion>>
         \/ /\ q.kind = "create" /\ cookie
            /\ IF labVersion = 0 THEN Answered("ok", 1) /\ labVersion' = 1
               ELSE Answered("active", 0) /\ UNCHANGED labVersion
            /\ UNCHANGED cookie
      /\ UNCHANGED <<page, logins, mixedUp, pageActs, pageFaults>>

\* The request or its answer is lost, or the platform fails.
LoseRequest(p) ==
  /\ inFlight[p].kind # "none" /\ inFlight[p].answer # "error"
  /\ pageFaults < MaxPageFaults
  /\ pageFaults' = pageFaults + 1
  /\ inFlight' = [inFlight EXCEPT ![p].answer = "error", ![p].version = 0]
  /\ UNCHANGED <<page, cookie, labVersion, logins, mixedUp, pageActs>>

\* The handler goes on; the answer to a login brings the cookie.
ArriveAnswer(p) ==
  LET q == inFlight[p]
      next == Following(q)
      changed == q.kind \in Logins /\ q.answer = "ok"
  IN  /\ q.kind # "none" /\ q.answer # "none"
      /\ page' = After(page, q)
      /\ logins' = logins + (IF changed \/ (page.user /\ ~page'.user) THEN 1 ELSE 0)
      /\ mixedUp' = (mixedUp \/ q.login # logins)
      /\ cookie' = (cookie \/ changed)
      /\ inFlight' = [inFlight EXCEPT ![p] =
                        IF next = "none" THEN NoRequest ELSE Sending(next, logins')]
      /\ UNCHANGED <<labVersion, pageActs, pageFaults>>

\* The timer calls loadSnapshot.
TimerFires ==
  /\ page.timer /\ Free # {}
  /\ page' = [page EXCEPT !.timer = FALSE]
  /\ inFlight' = [inFlight EXCEPT ![FreePlace] = Sending("load", logins)]
  /\ UNCHANGED <<cookie, labVersion, logins, mixedUp, pageActs, pageFaults>>

-----------------------------------------------------------------------------
(***************************************************************************)
(* The user.                                                               *)
(***************************************************************************)
Does(pg, kind) ==
  /\ pageActs < MaxPageActs
  /\ pageActs' = pageActs + 1
  /\ page' = pg
  /\ kind = "none" \/ Free # {}
  /\ inFlight' = IF kind = "none" THEN inFlight
                 ELSE [inFlight EXCEPT ![FreePlace] = Sending(kind, logins)]
  /\ UNCHANGED <<cookie, labVersion, logins, mixedUp, pageFaults>>

Hide == ~page.hidden /\ Does([page EXCEPT !.hidden = TRUE, !.timer = FALSE], "none")

Show ==
  /\ page.hidden
  /\ Does([page EXCEPT !.hidden = FALSE],
          IF page.mode = "lab" /\ page.snapshot # 0 THEN "load" ELSE "none")

\* switchCourseMode; selecting a course or the introduction also leaves the lab,
\* and another course, if no lab is running, drops the snapshot.
SwitchMode ==
  /\ ~Bootstrapping /\ ~AuthBusy /\ page.user
  /\ \/ /\ page.mode = "course"
        /\ Does(WithMode(page, "lab"), IF page.snapshot # 0 THEN "load" ELSE "none")
     \/ page.mode = "lab" /\ Does(WithMode(page, "course"), "none")
     \/ ~Running(page.snapshot) /\ page.snapshot # 0
        /\ Does([page EXCEPT !.snapshot = 0, !.mode = "course", !.timer = FALSE], "none")

Refresh ==
  /\ ~AuthBusy /\ page.mode = "lab" /\ page.snapshot # 0
  /\ Does(page, "load")

\* The dialog covers the page until the login has ended; it does not wait for
\* the commands of the user before.
LogIn ==
  /\ ~Bootstrapping /\ ~AuthBusy /\ ~page.user
  /\ \E kind \in Logins : Does(page, kind)

\* The buttons that requestBusy disables.
Command ==
  /\ ~Bootstrapping /\ ~AuthBusy /\ ~RequestBusy
  /\ \/ page.user /\ Does(page, "logout")
     \/ page.mode = "lab" /\ Running(page.snapshot) /\ Does(page, "act")
     \/ page.mode = "lab" /\ page.snapshot = 0 /\ ~Ended(labVersion) /\ Does(page, "create")

\* Traffic is sent while other requests are under way.
SendBatch ==
  /\ ~AuthBusy /\ page.mode = "lab" /\ Running(page.snapshot)
  /\ Does(page, "batch")

\* The page is loaded anew; answers that are still to come are lost.
ReloadPage ==
  /\ pageActs < MaxPageActs
  /\ pageActs' = pageActs + 1
  /\ page' = Guest /\ mixedUp' = FALSE /\ logins' = 0
  /\ inFlight' = [p \in Places |-> IF p = 1 THEN Sending("boot", 0) ELSE NoRequest]
  /\ UNCHANGED <<cookie, labVersion, pageFaults>>

\* The lab changes; the session expires.
LabChanges ==
  /\ Running(labVersion) /\ labVersion' = labVersion + 1
  /\ UNCHANGED <<page, inFlight, cookie, logins, mixedUp, pageActs, pageFaults>>

SessionExpires ==
  /\ cookie /\ cookie' = FALSE
  /\ UNCHANGED <<page, inFlight, labVersion, logins, mixedUp, pageActs, pageFaults>>

WebPageNext ==
  \/ \E p \in Places : Serve(p) \/ LoseRequest(p) \/ ArriveAnswer(p)
  \/ TimerFires \/ Hide \/ Show \/ SwitchMode \/ Refresh
  \/ LogIn \/ Command \/ SendBatch \/ ReloadPage \/ LabChanges \/ SessionExpires

\* Requests are answered or fail, and timers fire.
WebPageFairness ==
  /\ \A p \in Places : WF_inFlight(Serve(p)) /\ WF_inFlight(ArriveAnswer(p))
  /\ WF_page(TimerFires)

WebPageSpec == WebPageInit /\ [][WebPageNext]_pageVars /\ WebPageFairness

-----------------------------------------------------------------------------
(***************************************************************************)
(* Properties.                                                             *)
(***************************************************************************)
\* The page of a guest has no snapshot, and whoever has a session is not taken
\* for a guest, unless a request failed or such an answer was used:
\* loadSnapshot and recoverAuthentication do not check whether the user has
\* changed since the request was sent.
GuestsHaveNoLab ==
  (~mixedUp /\ ~page.user)
    => /\ page.snapshot = 0
       /\ (pageFaults = 0 => ~cookie \/ Pending({"boot"}))

\* A page that shows the lab from some time on, to a user with a session, in the
\* end shows its last state: no order of polls, failures, hiding and showing,
\* logins and mode switches ends the polling of schedulePoll, and a snapshot that
\* was overwritten by an older one is loaded again.  The exception is an answer
\* that was asked for by the user before: restoreLab then turns the page of a
\* guest to the lab, and the next login finds it there, without a timer.
ShownLabCatchesUp ==
  <>[](/\ ~mixedUp /\ page.user /\ cookie
       /\ page.mode = "lab" /\ ~page.hidden /\ Running(page.snapshot))
    => <>[](page.snapshot = labVersion)
=============================================================================
