---------------------------- MODULE ClientProofs -----------------------------
(***************************************************************************)
(* Theorems about the adaptive balancer (Balancer) and the page of the web *)
(* client (WebPage).                                                       *)
(***************************************************************************)
EXTENDS Balancer, WebPage, TLAPS

-----------------------------------------------------------------------------
(***************************************************************************)
(* The balancer.                                                           *)
(***************************************************************************)
LEMMA EnqueueStep ==
  ASSUME NEW c, EnqueueAdjustment(c), PendingAdjustmentCurrent,
         UNCHANGED <<balancing, instances>>
  PROVE  PendingAdjustmentCurrent'
BY DEF EnqueueAdjustment, PendingAdjustmentCurrent

LEMMA DecideStep ==
  ASSUME NEW d, Decide(d), PendingAdjustmentCurrent, UNCHANGED <<balancing, instances>>
  PROVE  PendingAdjustmentCurrent'
<1>1. UNCHANGED <<queued>> \/ \E c : EnqueueAdjustment(c) BY DEF Decide
<1>2. CASE UNCHANGED <<queued>> BY <1>2 DEF PendingAdjustmentCurrent
<1>3. CASE \E c : EnqueueAdjustment(c) BY <1>3, EnqueueStep
<1> QED BY <1>1, <1>2, <1>3

\* EnqueueAdjustment compares the topology with the sample in the transaction
\* that queues, and a queued operation keeps the user's out: what the worker
\* applies was computed for the topology it finds, for any number of instances
\* and whatever changes, faults and restarts come in between.
THEOREM AdjustmentsAreCurrent == BalancerSpec => []PendingAdjustmentCurrent
<1>1. BalancerInit => PendingAdjustmentCurrent
  BY DEF BalancerInit, PendingAdjustmentCurrent, Nothing
<1>2. PendingAdjustmentCurrent /\ [BalancerNext]_balancerVars => PendingAdjustmentCurrent'
  <2> SUFFICES ASSUME PendingAdjustmentCurrent, [BalancerNext]_balancerVars
               PROVE  PendingAdjustmentCurrent'
    OBVIOUS
  <2>1. CASE UserRequest
    BY <2>1 DEF UserRequest, PendingAdjustmentCurrent, Nothing
  <2>2. CASE UserOperationEnds \/ AdjustmentEnds
    BY <2>2 DEF UserOperationEnds, AdjustmentEnds, PendingAdjustmentCurrent, Nothing
  <2>3. ASSUME NEW i, NEW c, NEW k, Observe(i, c, k) PROVE PendingAdjustmentCurrent'
    BY <2>3 DEF Observe, PendingAdjustmentCurrent
  <2>4. CASE ListAdaptiveLabs \/ SampleInterval \/ BalancerRestart \/ UNCHANGED balancerVars
    BY <2>4 DEF ListAdaptiveLabs, SampleInterval, BalancerRestart, balancerVars,
                PendingAdjustmentCurrent
  <2>5. CASE SampleLab
    <3>1. UNCHANGED <<balancing, instances>> BY <2>5 DEF SampleLab
    <3>2. UNCHANGED <<queued>> \/ \E d : Decide(d) BY <2>5 DEF SampleLab
    <3>3. CASE UNCHANGED <<queued>> BY <3>1, <3>3 DEF PendingAdjustmentCurrent
    <3>4. CASE \E d : Decide(d) BY <3>1, <3>4, DecideStep
    <3> QED BY <3>2, <3>3, <3>4
  <2> QED BY <2>1, <2>2, <2>3, <2>4, <2>5 DEF BalancerNext
<1> QED BY <1>1, <1>2, PTL DEF BalancerSpec


-----------------------------------------------------------------------------
(***************************************************************************)
(* The page.                                                               *)
(***************************************************************************)
PageRecords ==
  [user : BOOLEAN, mode : {"course", "lab"}, hidden : BOOLEAN, timer : BOOLEAN,
   snapshot : 0..LastVersion]
FlightRecords ==
  [kind : Requested \cup {"none"}, answer : {"none", "ok", "401", "active", "error"},
   version : 0..LastVersion, login : Nat]

\* What the handlers of a user send.
UserRequests == Restores \cup Commands \cup {"load", "batch"}

TimerRule(pg) == pg.timer => pg.user /\ pg.mode = "lab" /\ ~pg.hidden

PageWellFormed ==
  /\ page \in PageRecords /\ inFlight \in [Places -> FlightRecords]
  /\ cookie \in BOOLEAN /\ mixedUp \in BOOLEAN
  /\ labVersion \in 0..LastVersion /\ logins \in Nat /\ pageFaults \in Nat

\* While restoreSession waits, nothing else is under way.
BootAlone(p) ==
  inFlight[p].kind = "boot" =>
    /\ ~page.user /\ page.mode = "course" /\ page.snapshot = 0
    /\ inFlight[p].answer # "active"
    /\ \A o \in Places \ {p} : inFlight[o].kind = "none"

\* A request was sent before the last change of the user or by the user the
\* page has; the answer that ends a session finds the cookie gone.
AnswerFits(p) ==
  /\ inFlight[p].login <= logins
  /\ inFlight[p].answer = "error" => pageFaults > 0
  /\ ~mixedUp /\ inFlight[p].kind \in UserRequests /\ inFlight[p].login = logins => page.user
  /\ /\ inFlight[p].kind # "none" /\ inFlight[p].login = logins
     /\ inFlight[p].answer = "401" \/ (inFlight[p].kind = "logout" /\ inFlight[p].answer = "ok")
     => ~cookie

GuestsInCourse == ~mixedUp /\ ~page.user => page.mode = "course"

PageInv ==
  /\ PageWellFormed /\ TimerRule(page)
  /\ \A p \in Places : BootAlone(p) /\ AnswerFits(p)
  /\ GuestsInCourse /\ GuestsHaveNoLab

LEMMA ScheduledEffect ==
  ASSUME NEW pg \in PageRecords
  PROVE  /\ Scheduled(pg) \in PageRecords /\ TimerRule(Scheduled(pg))
         /\ Scheduled(pg).user = pg.user /\ Scheduled(pg).mode = pg.mode
         /\ Scheduled(pg).snapshot = pg.snapshot
<1> DEFINE on == pg.user /\ pg.mode = "lab" /\ ~pg.hidden /\ pg.snapshot # 0
<1>1. on \in BOOLEAN OBVIOUS
<1>2. Scheduled(pg) = [pg EXCEPT !.timer = on] BY DEF Scheduled
<1>3. on => pg.user /\ pg.mode = "lab" /\ ~pg.hidden OBVIOUS
<1> HIDE DEF on
<1>4. /\ Scheduled(pg) \in PageRecords /\ Scheduled(pg).timer = on
      /\ Scheduled(pg).user = pg.user /\ Scheduled(pg).mode = pg.mode
      /\ Scheduled(pg).hidden = pg.hidden /\ Scheduled(pg).snapshot = pg.snapshot
  BY <1>1, <1>2 DEF PageRecords
<1> QED BY <1>3, <1>4 DEF TimerRule

LEMMA GuestEffect ==
  ASSUME NEW pg \in PageRecords
  PROVE  /\ EnterGuestMode(pg) \in PageRecords
         /\ ~EnterGuestMode(pg).user /\ ~EnterGuestMode(pg).timer
         /\ EnterGuestMode(pg).mode = "course" /\ EnterGuestMode(pg).snapshot = 0
<1> DEFINE guest == Guest
<1>1. guest \in PageRecords /\ guest.mode = "course" /\ guest.snapshot = 0
  BY WebPageAssumption DEF Guest, PageRecords
<1>2. guest.user = FALSE /\ guest.timer = FALSE BY DEF Guest
<1> HIDE DEF guest
<1>3. EnterGuestMode(pg) = [guest EXCEPT !.hidden = pg.hidden] BY DEF EnterGuestMode, guest
<1>4. /\ EnterGuestMode(pg) \in PageRecords
      /\ EnterGuestMode(pg).mode = "course" /\ EnterGuestMode(pg).snapshot = 0
      /\ EnterGuestMode(pg).user = FALSE /\ EnterGuestMode(pg).timer = FALSE
  BY <1>1, <1>2, <1>3 DEF PageRecords
<1> QED BY <1>4

\* What a handler makes of the page: it turns it into a guest's because the
\* session has ended, or leaves the user alone, or changes only the user.
Effect(pg, q, new) ==
  \/ /\ (q.kind \in UserRequests /\ q.answer = "401") \/ (q.kind = "logout" /\ q.answer = "ok")
     /\ ~new.user /\ new.mode = "course" /\ new.snapshot = 0
  \/ q.kind \in UserRequests /\ new.user = pg.user
  \/ /\ q.kind \in Logins \cup {"boot"} /\ new.mode = pg.mode /\ new.snapshot = pg.snapshot
     /\ new.user = IF q.answer = "ok" THEN TRUE ELSE IF q.kind = "boot" THEN FALSE ELSE pg.user

LEMMA AfterEffect ==
  ASSUME NEW pg \in PageRecords, TimerRule(pg), NEW q \in FlightRecords, q.kind # "none",
         q.kind = "boot" => ~pg.user
  PROVE  After(pg, q) \in PageRecords /\ TimerRule(After(pg, q)) /\ Effect(pg, q, After(pg, q))
<1> DEFINE Fine(new) == new \in PageRecords /\ TimerRule(new) /\ Effect(pg, q, new)
<1> DEFINE Kept(new) == new \in PageRecords /\ new.user = pg.user
<1> DEFINE shown == [pg EXCEPT !.snapshot = q.version]
<1> SUFFICES Fine(After(pg, q)) OBVIOUS
<1>1. ASSUME (q.kind \in UserRequests /\ q.answer = "401") \/ (q.kind = "logout" /\ q.answer = "ok")
      PROVE  Fine(EnterGuestMode(pg)) /\ Fine(Scheduled(EnterGuestMode(pg)))
  <2> DEFINE g == EnterGuestMode(pg)
  <2>1. g \in PageRecords /\ ~g.user /\ ~g.timer /\ g.mode = "course" /\ g.snapshot = 0
    BY GuestEffect
  <2> HIDE DEF g
  <2>2. Scheduled(g) \in PageRecords /\ TimerRule(Scheduled(g)) /\ ~Scheduled(g).user
        /\ Scheduled(g).mode = "course" /\ Scheduled(g).snapshot = 0
    BY <2>1, ScheduledEffect
  <2>3. TimerRule(g) BY <2>1 DEF TimerRule
  <2> QED BY <1>1, <2>1, <2>2, <2>3 DEF Effect, g
<1>2. ASSUME NEW new, Kept(new), q.kind \in UserRequests PROVE Fine(Scheduled(new))
  BY <1>2, ScheduledEffect DEF Effect
<1>3. q.kind \in UserRequests => Fine(pg) /\ Fine(shown)
  <2>1. shown \in PageRecords /\ shown.user = pg.user /\ shown.timer = pg.timer
        /\ shown.mode = pg.mode /\ shown.hidden = pg.hidden
    BY DEF PageRecords, FlightRecords
  <2> HIDE DEF shown
  <2>2. TimerRule(shown) BY <2>1 DEF TimerRule
  <2> QED BY <2>1, <2>2 DEF Effect
<1>4. /\ Kept(pg) /\ Kept(shown) /\ Kept([shown EXCEPT !.mode = "lab"])
      /\ Kept([pg EXCEPT !.snapshot = q.version, !.mode = "lab"])
  BY DEF PageRecords, FlightRecords
<1> HIDE DEF Fine, Kept
<1>5. CASE q.kind = "load"
  <2>1. After(pg, q) = Loaded(pg, q) BY <1>5 DEF After, Restores, Logins
  <2> QED BY <1>1, <1>2, <1>4, <1>5, <2>1 DEF Loaded, UserRequests
<1>6. CASE q.kind \in Restores
  <2>1. After(pg, q) = Restored(pg, q) BY <1>6 DEF After, Restores, Logins
  <2>2. q.kind \in UserRequests BY <1>6 DEF UserRequests
  <2>3. Fine(WithMode(shown, "lab")) BY <1>2, <1>3, <1>4, <2>2 DEF WithMode
  <2>4. Fine(Scheduled(shown)) /\ Fine(Scheduled([shown EXCEPT !.mode = "lab"]))
    BY <1>2, <1>4, <2>2
  <2> HIDE DEF shown
  <2>5. Restored(pg, q) \in {pg, Scheduled(shown), Scheduled([shown EXCEPT !.mode = "lab"]),
                             WithMode(shown, "lab"), shown}
    BY DEF Restored, shown
  <2> QED BY <1>3, <2>1, <2>2, <2>3, <2>4, <2>5
<1>7. CASE q.kind = "create"
  <2>1. After(pg, q) = Created(pg, q) BY <1>7 DEF After, Restores, Logins
  <2> QED BY <1>1, <1>2, <1>3, <1>4, <1>7, <2>1 DEF Created, UserRequests, Commands
<1>8. CASE q.kind = "act"
  <2>1. After(pg, q) = Acted(pg, q) BY <1>8 DEF After, Restores, Logins
  <2> QED BY <1>1, <1>2, <1>3, <1>4, <1>8, <2>1 DEF Acted, UserRequests, Commands
<1>9. CASE q.kind = "batch"
  <2>1. After(pg, q) = Batched(pg, q) BY <1>9 DEF After, Restores, Logins
  <2> QED BY <1>1, <1>3, <1>9, <2>1 DEF Batched, UserRequests
<1>10. CASE q.kind = "logout"
  <2>1. After(pg, q) = LoggedOut(pg, q) BY <1>10 DEF After, Restores, Logins
  <2> QED BY <1>1, <1>3, <1>10, <2>1 DEF LoggedOut, UserRequests, Commands
<1>11. CASE q.kind \in Logins
  <2>1. After(pg, q) = LoggedIn(pg, q) BY <1>11 DEF After, Restores, Logins
  <2>2. CASE q.answer = "ok"
    <3> DEFINE new == [pg EXCEPT !.user = TRUE]
    <3>1. new \in PageRecords /\ new.user = TRUE /\ new.timer = pg.timer /\ new.mode = pg.mode
          /\ new.hidden = pg.hidden /\ new.snapshot = pg.snapshot
      BY DEF PageRecords
    <3>2. After(pg, q) = new BY <2>1, <2>2 DEF LoggedIn
    <3> HIDE DEF new
    <3>3. TimerRule(new) BY <3>1 DEF TimerRule
    <3>4. Effect(pg, q, new) BY <1>11, <2>2, <3>1 DEF Effect
    <3> QED BY <3>1, <3>2, <3>3, <3>4 DEF Fine
  <2>3. CASE q.answer # "ok"
    <3>1. After(pg, q) = pg BY <2>1, <2>3 DEF LoggedIn
    <3>2. Effect(pg, q, pg) BY <1>11, <2>3 DEF Effect, Logins
    <3> QED BY <3>1, <3>2 DEF Fine
  <2> QED BY <2>2, <2>3
<1>12. CASE q.kind = "boot"
  <2>1. After(pg, q) = Booted(pg, q) BY <1>12 DEF After, Restores, Logins
  <2> DEFINE ok == (q.answer = "ok")
  <2> DEFINE new == [pg EXCEPT !.user = ok]
  <2>2. ok \in BOOLEAN /\ After(pg, q) = new BY <2>1 DEF Booted
  <2>3. ok = IF q.answer = "ok" THEN TRUE ELSE FALSE OBVIOUS
  <2> HIDE DEF ok
  <2>4. new \in PageRecords /\ new.user = ok /\ new.timer = pg.timer /\ new.mode = pg.mode
        /\ new.snapshot = pg.snapshot
    BY <2>2 DEF PageRecords
  <2> HIDE DEF new
  <2>5. ~pg.timer BY <1>12 DEF TimerRule
  <2>6. TimerRule(new) BY <2>4, <2>5 DEF TimerRule
  <2>7. Effect(pg, q, new) BY <1>12, <2>3, <2>4 DEF Effect
  <2> QED BY <2>2, <2>4, <2>6, <2>7 DEF Fine
<1>13. q.kind \in Requested BY DEF FlightRecords
<1> QED BY <1>5, <1>6, <1>7, <1>8, <1>9, <1>10, <1>11, <1>12, <1>13 DEF Requested, Commands


\* A step that neither ends a request nor changes the user: the page may change
\* where the user does not matter, and one request of the user may be sent.
Goes(pg, kind) ==
  /\ pg \in PageRecords /\ TimerRule(pg) /\ pg.user = page.user
  /\ page.user \/ (pg.mode = page.mode /\ pg.snapshot = page.snapshot)
  /\ \/ kind = "none"
     \/ /\ kind \in Logins \cup UserRequests /\ Free # {}
        /\ ~Pending({"boot"}) /\ (kind \in Logins \/ page.user \/ mixedUp)

LEMMA SendStep ==
  ASSUME PageInv, NEW pg, NEW kind, Goes(pg, kind), page' = pg,
         inFlight' = IF kind = "none" THEN inFlight
                     ELSE [inFlight EXCEPT ![FreePlace] = Sending(kind, logins)],
         UNCHANGED <<cookie, labVersion, logins, mixedUp, pageFaults>>
  PROVE  PageInv'
<1>1. PageWellFormed BY DEF PageInv
<1>2. kind # "none" => FreePlace \in Places BY DEF Goes, Free, FreePlace
<1> DEFINE q == [kind |-> kind, answer |-> "none", version |-> 0, login |-> logins]
<1>3. Sending(kind, logins) = q BY DEF Sending
<1>4. kind # "none" => q \in FlightRecords
  BY <1>1, WebPageAssumption DEF Goes, FlightRecords, PageWellFormed, UserRequests, Requested
<1>5. q.kind = kind /\ q.answer = "none" /\ q.login = logins OBVIOUS
<1> HIDE DEF q
<1>6. PageWellFormed' BY <1>1, <1>2, <1>3, <1>4 DEF PageWellFormed, Goes
<1>7. \A p \in Places : \/ inFlight'[p] = inFlight[p]
                        \/ inFlight'[p] = q /\ kind # "none"
  BY <1>1, <1>3 DEF PageWellFormed
<1>8. ASSUME NEW p \in Places PROVE AnswerFits(p)'
  <2>1. AnswerFits(p) BY DEF PageInv
  <2>2. CASE inFlight'[p] = inFlight[p]
    BY <2>1, <2>2 DEF AnswerFits, Goes
  <2>3. CASE inFlight'[p] = q /\ kind # "none"
    <3>1. kind \in Logins \/ page.user \/ mixedUp BY <2>3 DEF Goes
    <3>2. kind \in Logins => kind \notin UserRequests
      BY DEF Logins, UserRequests, Restores, Commands
    <3>3. logins <= logins BY <1>1 DEF PageWellFormed
    <3> QED BY <1>5, <2>3, <3>1, <3>2, <3>3 DEF AnswerFits, Goes
  <2> QED BY <1>7, <2>2, <2>3
<1>9. ASSUME NEW p \in Places PROVE BootAlone(p)'
  <2> SUFFICES ASSUME inFlight'[p].kind = "boot" PROVE BootAlone(p)'
    BY DEF BootAlone
  <2>1. kind \in Logins \cup UserRequests => kind # "boot"
    BY DEF Logins, UserRequests, Restores, Commands
  <2>2. inFlight'[p] = inFlight[p] BY <1>5, <1>7, <2>1 DEF Goes
  <2>3. BootAlone(p) BY DEF PageInv
  <2>4. kind = "none" BY <2>2 DEF Goes, Pending
  <2> QED BY <2>2, <2>3, <2>4 DEF BootAlone, Goes
<1>10. GuestsInCourse' BY DEF PageInv, GuestsInCourse, Goes
<1>11. GuestsHaveNoLab'
  <2> SUFFICES ASSUME ~mixedUp, ~page'.user
               PROVE  page'.snapshot = 0 /\ (pageFaults = 0 => ~cookie \/ Pending({"boot"})')
    BY DEF GuestsHaveNoLab
  <2>1. ~page.user BY DEF Goes
  <2>2. page.snapshot = 0 /\ (pageFaults = 0 => ~cookie \/ Pending({"boot"}))
    BY <2>1 DEF PageInv, GuestsHaveNoLab
  <2>3. page'.snapshot = 0 BY <2>1, <2>2 DEF Goes
  <2>4. Pending({"boot"}) => Pending({"boot"})' BY DEF Goes, Pending
  <2> QED BY <2>2, <2>3, <2>4
<1>12. TimerRule(page)' BY DEF Goes, TimerRule
<1> QED BY <1>6, <1>8, <1>9, <1>10, <1>11, <1>12 DEF PageInv

LEMMA DoesStep ==
  ASSUME PageInv, NEW pg, NEW kind, Goes(pg, kind), Does(pg, kind)
  PROVE  PageInv'
BY SendStep DEF Does

\* Where the lab is on show nothing is restored from the session, and there is
\* a user, unless answers were mixed up.
LEMMA LabOnShow ==
  ASSUME PageInv, page.mode = "lab" \/ page.user
  PROVE  ~Pending({"boot"}) /\ (page.user \/ mixedUp)
<1>1. "lab" # "course" OBVIOUS
<1>2. \A p \in Places : inFlight[p].kind # "boot" BY <1>1 DEF PageInv, BootAlone
<1>3. page.user \/ mixedUp BY <1>1 DEF PageInv, GuestsInCourse
<1> QED BY <1>2, <1>3 DEF Pending


\* What the user and the timer do.
LEMMA UserStep ==
  ASSUME PageInv, TimerFires \/ Hide \/ Show \/ SwitchMode \/ Refresh \/ LogIn \/ Command \/ SendBatch
  PROVE  PageInv'
<1>1. page \in PageRecords /\ TimerRule(page) BY DEF PageInv, PageWellFormed
<1>2. /\ {"load", "batch"} \cup Commands \subseteq Logins \cup UserRequests
      /\ \A kind \in Logins \cup UserRequests : kind # "none"
  BY DEF Logins, UserRequests, Restores, Commands
<1>3. ASSUME NEW kind \in {"load", "batch"} \cup Commands, page.mode = "lab" \/ page.user, Free # {}
      PROVE  Goes(page, kind)
  BY <1>1, <1>2, <1>3, LabOnShow DEF Goes
<1>4. CASE TimerFires
  <2> DEFINE pg == [page EXCEPT !.timer = FALSE]
  <2>1. pg \in PageRecords /\ pg.user = page.user /\ pg.timer = FALSE BY <1>1 DEF PageRecords
  <2>2. page.user BY <1>1, <1>4 DEF TimerFires, TimerRule
  <2>3. ~Pending({"boot"}) BY <2>2, LabOnShow
  <2>4. page' = pg /\ Free # {} /\ inFlight' = [inFlight EXCEPT ![FreePlace] = Sending("load", logins)]
        /\ UNCHANGED <<cookie, labVersion, logins, mixedUp, pageFaults>>
    BY <1>4 DEF TimerFires
  <2> HIDE DEF pg
  <2>5. Goes(pg, "load") BY <1>2, <2>1, <2>2, <2>3, <2>4 DEF Goes, TimerRule
  <2>6. "load" # "none" OBVIOUS
  <2> QED BY <2>4, <2>5, <2>6, SendStep
<1>5. CASE Hide
  <2> DEFINE pg == [page EXCEPT !.hidden = TRUE, !.timer = FALSE]
  <2>1. pg \in PageRecords /\ pg.user = page.user /\ pg.timer = FALSE
        /\ pg.mode = page.mode /\ pg.snapshot = page.snapshot
    BY <1>1 DEF PageRecords
  <2>2. Does(pg, "none") BY <1>5 DEF Hide
  <2> HIDE DEF pg
  <2>3. Goes(pg, "none") BY <2>1 DEF Goes, TimerRule
  <2> QED BY <2>2, <2>3, DoesStep
<1>6. CASE Show
  <2> DEFINE pg == [page EXCEPT !.hidden = FALSE]
  <2> DEFINE kind == IF page.mode = "lab" /\ page.snapshot # 0 THEN "load" ELSE "none"
  <2>1. pg \in PageRecords /\ pg.user = page.user /\ pg.timer = page.timer
        /\ pg.mode = page.mode /\ pg.snapshot = page.snapshot /\ pg.hidden = FALSE
    BY <1>1 DEF PageRecords
  <2>2. Does(pg, kind) BY <1>6 DEF Show
  <2> HIDE DEF pg
  <2>3. TimerRule(pg) BY <1>1, <2>1 DEF TimerRule
  <2>4. kind = "none" \/ (kind = "load" /\ page.mode = "lab" /\ Free # {}) BY <2>2 DEF Does
  <2> HIDE DEF kind
  <2>5. Goes(pg, kind) BY <1>3, <2>1, <2>3, <2>4 DEF Goes
  <2> QED BY <2>2, <2>5, DoesStep
<1>7. CASE SwitchMode
  <2>1. page.user BY <1>7 DEF SwitchMode
  <2>2. ASSUME NEW pg \in PageRecords, pg.user = page.user, TimerRule(pg), NEW kind \in {"none", "load"},
               Does(pg, kind)
        PROVE  PageInv'
    <3>1. kind = "none" \/ Free # {} BY <2>2 DEF Does
    <3>2. Goes(pg, kind) BY <1>3, <2>1, <2>2, <3>1 DEF Goes
    <3> QED BY <2>2, <3>2, DoesStep
  <2>3. ASSUME NEW m \in {"course", "lab"}
        PROVE  WithMode(page, m) \in PageRecords /\ WithMode(page, m).user = page.user
               /\ TimerRule(WithMode(page, m))
    <3> DEFINE pg == [page EXCEPT !.mode = m]
    <3>1. pg \in PageRecords /\ pg.user = page.user BY <1>1 DEF PageRecords
    <3>2. WithMode(page, m) = IF page.mode = m THEN page ELSE Scheduled(pg) BY DEF WithMode
    <3> HIDE DEF pg
    <3> QED BY <1>1, <3>1, <3>2, ScheduledEffect
  <2>4. CASE Does(WithMode(page, "lab"), IF page.snapshot # 0 THEN "load" ELSE "none")
    BY <2>2, <2>3, <2>4
  <2>5. CASE Does(WithMode(page, "course"), "none") BY <2>2, <2>3, <2>5
  <2>6. CASE Does([page EXCEPT !.snapshot = 0, !.mode = "course", !.timer = FALSE], "none")
    <3> DEFINE left == [page EXCEPT !.snapshot = 0, !.mode = "course"]
    <3> DEFINE pg == [left EXCEPT !.timer = FALSE]
    <3>1. Does(pg, "none") BY <2>6
    <3>2. 0 \in 0..LastVersion BY WebPageAssumption
    <3>3. left \in PageRecords /\ left.user = page.user BY <1>1, <3>2 DEF PageRecords
    <3> HIDE DEF left
    <3>4. pg \in PageRecords /\ pg.user = page.user /\ pg.timer = FALSE BY <3>3 DEF PageRecords
    <3> HIDE DEF pg
    <3>5. TimerRule(pg) BY <3>4 DEF TimerRule
    <3> QED BY <2>2, <3>1, <3>4, <3>5
  <2> QED BY <1>7, <2>4, <2>5, <2>6 DEF SwitchMode
<1>8. ASSUME NEW kind \in {"load", "batch"} \cup Commands, page.mode = "lab" \/ page.user, Does(page, kind)
      PROVE  PageInv'
  <2>1. kind # "none" BY <1>2
  <2>2. Free # {} BY <1>8, <2>1 DEF Does
  <2> QED BY <1>3, <1>8, <2>2, DoesStep
<1>9. CASE Refresh \/ SendBatch BY <1>8, <1>9 DEF Refresh, SendBatch
<1>10. CASE Command BY <1>8, <1>10 DEF Command, Commands
<1>11. CASE LogIn
  <2>1. PICK kind \in Logins : Does(page, kind) BY <1>11 DEF LogIn
  <2>2. ~Pending({"boot"}) BY <1>11 DEF LogIn, Bootstrapping, Pending
  <2>3. Free # {} BY <1>2, <2>1 DEF Does
  <2>4. Goes(page, kind) BY <1>1, <2>1, <2>2, <2>3 DEF Goes
  <2> QED BY <2>1, <2>4, DoesStep
<1> QED BY <1>4, <1>5, <1>6, <1>7, <1>9, <1>10, <1>11


\* A request gets its answer or is lost.
LEMMA AnsweredStep ==
  ASSUME PageInv, NEW p \in Places, NEW a \in {"ok", "401", "active", "error"}, NEW v \in 0..LastVersion,
         inFlight' = [inFlight EXCEPT ![p].answer = a, ![p].version = v],
         cookie' \in BOOLEAN, cookie' => cookie, labVersion' \in 0..LastVersion,
         pageFaults' \in Nat, pageFaults' >= pageFaults, a = "error" => pageFaults' > 0,
         a = "active" => inFlight[p].kind # "boot",
         a = "401" \/ (a = "ok" /\ inFlight[p].kind = "logout") => ~cookie',
         UNCHANGED <<page, logins, mixedUp>>
  PROVE  PageInv'
<1>1. PageWellFormed /\ TimerRule(page) /\ AnswerFits(p) /\ BootAlone(p) BY DEF PageInv
<1>2. /\ inFlight' \in [Places -> FlightRecords] /\ inFlight'[p].kind = inFlight[p].kind
      /\ inFlight'[p].login = inFlight[p].login /\ inFlight'[p].answer = a
      /\ \A o \in Places \ {p} : inFlight'[o] = inFlight[o]
  <2> DEFINE q == [inFlight[p] EXCEPT !.answer = a]
  <2> DEFINE n == [q EXCEPT !.version = v]
  <2>1. inFlight[p] \in FlightRecords BY <1>1 DEF PageWellFormed
  <2>2. q \in FlightRecords /\ q.kind = inFlight[p].kind /\ q.login = inFlight[p].login /\ q.answer = a
    BY <2>1 DEF FlightRecords
  <2>3. inFlight' = [inFlight EXCEPT ![p] = n] BY <1>1 DEF PageWellFormed
  <2> HIDE DEF q
  <2>4. n \in FlightRecords /\ n.kind = q.kind /\ n.login = q.login /\ n.answer = q.answer
    BY <2>2 DEF FlightRecords
  <2> HIDE DEF n
  <2> QED BY <1>1, <2>2, <2>3, <2>4 DEF PageWellFormed
<1>3. PageWellFormed' BY <1>1, <1>2 DEF PageWellFormed
<1>4. ASSUME NEW o \in Places PROVE AnswerFits(o)'
  <2>1. AnswerFits(o) BY DEF PageInv
  <2>2. pageFaults > 0 => pageFaults' > 0 BY <1>1 DEF PageWellFormed
  <2>3. CASE o # p BY <1>2, <2>1, <2>2, <2>3 DEF AnswerFits
  <2>4. CASE o = p BY <1>2, <2>1, <2>4 DEF AnswerFits
  <2> QED BY <2>3, <2>4
<1>5. \A o \in Places : inFlight'[o].kind = inFlight[o].kind BY <1>2
<1>6. ASSUME NEW o \in Places PROVE BootAlone(o)'
  <2>1. BootAlone(o) BY DEF PageInv
  <2>2. inFlight[o].kind = "boot" => inFlight'[o].answer # "active"
    BY <1>2, <2>1 DEF BootAlone
  <2> QED BY <1>5, <2>1, <2>2 DEF BootAlone
<1>7. TimerRule(page)' BY <1>1
<1>8. GuestsInCourse' BY DEF PageInv, GuestsInCourse
<1>9. GuestsHaveNoLab'
  <2>1. Pending({"boot"}) => Pending({"boot"})' BY <1>5 DEF Pending
  <2>2. pageFaults' = 0 => pageFaults = 0 BY <1>1 DEF PageWellFormed
  <2> QED BY <2>1, <2>2 DEF PageInv, GuestsHaveNoLab
<1> QED BY <1>3, <1>4, <1>6, <1>7, <1>8, <1>9 DEF PageInv

LEMMA ServeStep ==
  ASSUME PageInv, NEW p \in Places, Serve(p) \/ LoseRequest(p)
  PROVE  PageInv'
<1>1. PageWellFormed BY DEF PageInv
<1>2. CASE Serve(p)
  <2>1. PICK a, v :
          /\ inFlight' = [inFlight EXCEPT ![p].answer = a, ![p].version = v]
          /\ a \in {"ok", "401", "active"} /\ v \in {0, 1, labVersion}
          /\ a = "active" => inFlight[p].kind = "create"
          /\ a = "401" => ~cookie /\ cookie' = cookie
          /\ inFlight[p].kind = "logout" /\ a = "ok" => cookie' = FALSE
          /\ cookie' \in {cookie, FALSE} /\ labVersion' \in {labVersion, 1}
          /\ UNCHANGED <<page, logins, mixedUp, pageFaults>>
    BY <1>2 DEF Serve, Logins, Restores
  <2>2. v \in 0..LastVersion /\ labVersion' \in 0..LastVersion /\ pageFaults' \in Nat /\ pageFaults' >= pageFaults
    BY <1>1, <2>1, WebPageAssumption DEF PageWellFormed
  <2>3. cookie' \in BOOLEAN /\ (cookie' => cookie)
    <3>1. cookie \in BOOLEAN BY <1>1 DEF PageWellFormed
    <3>2. cookie' = cookie \/ cookie' = FALSE BY <2>1
    <3>3. CASE cookie' = cookie BY <3>1, <3>3
    <3>4. CASE cookie' = FALSE BY <3>4
    <3> QED BY <3>2, <3>3, <3>4
  <2>4. a # "error" /\ (a = "active" => inFlight[p].kind # "boot") BY <2>1
  <2>5. a = "401" \/ (a = "ok" /\ inFlight[p].kind = "logout") => ~cookie' BY <2>1
  <2> QED BY <2>1, <2>2, <2>3, <2>4, <2>5, AnsweredStep
<1>3. CASE LoseRequest(p)
  <2>1. /\ inFlight' = [inFlight EXCEPT ![p].answer = "error", ![p].version = 0]
        /\ pageFaults' = pageFaults + 1 /\ UNCHANGED <<page, cookie, labVersion, logins, mixedUp>>
    BY <1>3 DEF LoseRequest
  <2>2. pageFaults' \in Nat /\ pageFaults' >= pageFaults /\ pageFaults' > 0 /\ labVersion' \in 0..LastVersion
        /\ 0 \in 0..LastVersion
    BY <1>1, <2>1, WebPageAssumption DEF PageWellFormed
  <2>3. cookie' \in BOOLEAN /\ (cookie' => cookie) BY <1>1, <2>1 DEF PageWellFormed
  <2> QED BY <2>1, <2>2, <2>3, AnsweredStep
<1> QED BY <1>2, <1>3


\* A handler goes on.  If it uses the answer of a user who is gone, mixedUp is
\* set; otherwise the user of the request is the user of the page.
LEMMA ArriveStep ==
  ASSUME PageInv, NEW p \in Places, ArriveAnswer(p)
  PROVE  PageInv'
<1> DEFINE q == inFlight[p]
           next == Following(q)
           newUser == q.kind \in Logins /\ q.answer = "ok"
           n == IF next = "none" THEN NoRequest ELSE Sending(next, logins')
<1>1. PageWellFormed /\ TimerRule(page) /\ AnswerFits(p) /\ BootAlone(p) BY DEF PageInv
<1>2. q \in FlightRecords /\ q.kind # "none" /\ q.answer # "none" /\ page \in PageRecords
  BY <1>1 DEF ArriveAnswer, PageWellFormed
<1>3. page' \in PageRecords /\ TimerRule(page)' /\ Effect(page, q, page')
  <2>1. q.kind = "boot" => ~page.user BY <1>1 DEF BootAlone
  <2>2. page' = After(page, q) BY DEF ArriveAnswer
  <2> HIDE DEF q
  <2>3. After(page, q) \in PageRecords /\ TimerRule(After(page, q)) /\ Effect(page, q, After(page, q))
    BY <1>1, <1>2, <2>1, AfterEffect
  <2>4. TimerRule(page)' BY <2>2, <2>3 DEF TimerRule
  <2> QED BY <2>2, <2>3, <2>4
<1>4. /\ logins' = logins + (IF newUser \/ (page.user /\ ~page'.user) THEN 1 ELSE 0)
      /\ inFlight' = [inFlight EXCEPT ![p] = n]
      /\ labVersion' = labVersion /\ pageFaults' = pageFaults
  BY DEF ArriveAnswer
<1>5. mixedUp' = (mixedUp \/ q.login # logins) /\ cookie' = (cookie \/ newUser) BY DEF ArriveAnswer
<1>6. mixedUp' \in BOOLEAN /\ cookie' \in BOOLEAN BY <1>5
<1>7. (~mixedUp' => ~mixedUp /\ q.login = logins) /\ (~newUser /\ cookie' => cookie) BY <1>5
<1>8. logins \in Nat /\ logins' \in Nat /\ logins' >= logins
      /\ (newUser \/ (page.user /\ ~page'.user) => logins' > logins)
  BY <1>1, <1>4 DEF PageWellFormed
<1>9. next \in {"none", "restore", "restoreQuietly", "restoreToLab", "restoreActive"}
      /\ (next = "restoreActive" => q.kind = "create" /\ q.answer = "active")
      /\ (next \notin {"none", "restoreActive"} => q.kind \in Logins \cup {"boot"} /\ q.answer = "ok")
  BY DEF Following, Logins
<1>10. n \in FlightRecords /\ n.answer = "none" /\ n.kind = next /\ (next = "none" \/ n.login = logins')
       /\ n.login <= logins'
  BY <1>8, <1>9, WebPageAssumption DEF FlightRecords, NoRequest, Sending, Requested, Restores
<1> HIDE DEF n
<1>11. inFlight'[p] = n /\ \A o \in Places \ {p} : inFlight'[o] = inFlight[o]
  BY <1>1, <1>4 DEF PageWellFormed
<1>12. PageWellFormed' BY <1>1, <1>3, <1>4, <1>6, <1>8, <1>10 DEF PageWellFormed
<1> HIDE DEF next
<1>13. ASSUME ~mixedUp', next # "none" PROVE page'.user
  <2>1. CASE next = "restoreActive"
    <3>1. q.kind = "create" /\ q.answer = "active" BY <1>9, <2>1
    <3>2. page.user BY <1>1, <1>7, <1>13, <3>1 DEF AnswerFits, UserRequests, Commands
    <3>3. "create" \notin Logins \cup {"boot"} BY DEF Logins
    <3> QED BY <1>3, <3>1, <3>2, <3>3 DEF Effect
  <2>2. CASE next # "restoreActive"
    <3>1. q.kind \in Logins \cup {"boot"} /\ q.answer = "ok" BY <1>9, <1>13, <2>2
    <3>2. q.kind \notin UserRequests /\ q.kind # "logout"
      BY <3>1 DEF Logins, UserRequests, Restores, Commands
    <3> QED BY <1>3, <3>1, <3>2 DEF Effect
  <2> QED BY <2>1, <2>2
<1>14. ASSUME NEW o \in Places PROVE AnswerFits(o)'
  <2>1. CASE o = p
    <3>1. "none" \notin UserRequests BY DEF UserRequests, Restores, Commands
    <3> QED BY <1>10, <1>11, <1>13, <2>1, <3>1 DEF AnswerFits
  <2>2. CASE o # p
    <3>1. AnswerFits(o) /\ inFlight'[o] = inFlight[o] /\ inFlight[o] \in FlightRecords
      BY <1>1, <1>11, <2>2 DEF PageInv, PageWellFormed
    <3>2. inFlight[o].login <= logins /\ inFlight[o].login \in Nat BY <3>1 DEF AnswerFits, FlightRecords
    <3>3. inFlight[o].login <= logins' /\ (inFlight[o].login = logins' => logins' = logins)
      BY <1>8, <3>2
    <3>4. CASE inFlight[o].login # logins' BY <1>4, <3>1, <3>3, <3>4 DEF AnswerFits
    <3>5. CASE inFlight[o].login = logins'
      <4>1. logins' = logins /\ ~newUser /\ (page.user => page'.user) BY <1>8, <3>3, <3>5
      <4>2. (~mixedUp' => ~mixedUp) /\ (cookie' => cookie) BY <1>7, <4>1
      <4> QED BY <1>4, <3>1, <4>1, <4>2 DEF AnswerFits
    <3> QED BY <3>4, <3>5
  <2> QED BY <2>1, <2>2
<1>15. ASSUME NEW o \in Places PROVE BootAlone(o)'
  <2>1. next # "boot" BY <1>9
  <2>2. CASE o = p BY <1>10, <1>11, <2>1, <2>2 DEF BootAlone
  <2>3. CASE o # p
    <3>1. BootAlone(o) BY DEF PageInv
    <3>2. inFlight[o].kind # "boot" BY <1>2, <2>3, <3>1 DEF BootAlone
    <3> QED BY <1>11, <2>3, <3>2 DEF BootAlone
  <2> QED BY <2>2, <2>3
<1>16. GuestsInCourse' /\ GuestsHaveNoLab'
  <2> SUFFICES ASSUME ~mixedUp', ~page'.user
               PROVE  page'.mode = "course" /\ page'.snapshot = 0 /\ (pageFaults = 0 => ~cookie')
    BY <1>4 DEF GuestsInCourse, GuestsHaveNoLab
  <2>1. ~mixedUp /\ q.login = logins BY <1>7
  <2>2. q.kind \in UserRequests => page.user BY <1>1, <2>1 DEF AnswerFits
  <2>3. CASE (q.kind \in UserRequests /\ q.answer = "401") \/ (q.kind = "logout" /\ q.answer = "ok")
    <3>1. ~cookie BY <1>1, <1>2, <2>1, <2>3 DEF AnswerFits
    <3>2. q.kind \in UserRequests /\ page.user /\ ~newUser
      BY <2>2, <2>3 DEF UserRequests, Commands, Logins, Restores
    <3>3. ~cookie' BY <1>7, <3>1, <3>2
    <3>4. page'.mode = "course" /\ page'.snapshot = 0
      BY <1>3, <3>2 DEF Effect, UserRequests, Restores, Commands, Logins
    <3> QED BY <3>3, <3>4
  <2>4. CASE /\ q.kind \in Logins \cup {"boot"} /\ page'.mode = page.mode /\ page'.snapshot = page.snapshot
             /\ page'.user = IF q.answer = "ok" THEN TRUE ELSE IF q.kind = "boot" THEN FALSE ELSE page.user
    <3>1. q.answer # "ok" /\ ~newUser /\ ~page.user
      BY <1>1, <2>4 DEF BootAlone
    <3>2. page.mode = "course" /\ page.snapshot = 0 /\ (pageFaults = 0 => ~cookie \/ Pending({"boot"}))
      BY <2>1, <3>1 DEF PageInv, GuestsInCourse, GuestsHaveNoLab
    <3>3. ASSUME pageFaults = 0 PROVE ~cookie
      <4>1. q.answer # "error" BY <1>1, <3>3 DEF AnswerFits
      <4>2. CASE q.answer = "401" BY <1>1, <1>2, <2>1, <4>2 DEF AnswerFits
      <4>3. CASE q.answer # "401" /\ q.kind = "boot"
        BY <1>1, <1>2, <3>1, <4>1, <4>3 DEF BootAlone, FlightRecords
      <4>4. CASE q.kind \in Logins
        <5>1. q.kind # "boot" BY <4>4 DEF Logins
        <5>2. \A o \in Places : inFlight[o].kind # "boot"
          BY <1>2, <5>1 DEF PageInv, BootAlone
        <5> QED BY <3>2, <3>3, <5>2 DEF Pending
      <4> QED BY <2>4, <4>2, <4>3, <4>4
    <3> QED BY <1>7, <2>4, <3>1, <3>2, <3>3
  <2> QED BY <1>3, <2>2, <2>3, <2>4 DEF Effect
<1> QED BY <1>3, <1>12, <1>14, <1>15, <1>16 DEF PageInv


\* A page that has been loaded waits for restoreSession.
LoadedPage ==
  /\ page = Guest /\ mixedUp = FALSE /\ logins = 0
  /\ inFlight = [p \in Places |-> IF p = 1 THEN Sending("boot", 0) ELSE NoRequest]
  /\ cookie \in BOOLEAN /\ labVersion \in 0..LastVersion /\ pageFaults \in Nat

LEMMA NewPage == LoadedPage => PageInv
<1> SUFFICES ASSUME LoadedPage PROVE PageInv
  OBVIOUS
<1> USE DEF LoadedPage
<1>1. page \in PageRecords /\ page.mode = "course" /\ page.snapshot = 0
  BY WebPageAssumption DEF Guest, PageRecords
<1>2. ~page.user /\ ~page.timer BY DEF Guest
<1>3. Sending("boot", 0) \in FlightRecords /\ NoRequest \in FlightRecords
  BY WebPageAssumption DEF Sending, NoRequest, FlightRecords, Requested
<1>4. \A p \in Places : inFlight[p] = IF p = 1 THEN Sending("boot", 0) ELSE NoRequest OBVIOUS
<1>5. Sending("boot", 0).kind = "boot" /\ Sending("boot", 0).answer = "none" /\ Sending("boot", 0).login = 0
      /\ NoRequest.kind = "none" /\ NoRequest.answer = "none" /\ NoRequest.login = 0
  BY DEF Sending, NoRequest
<1>6. 1 \in Places BY WebPageAssumption DEF Places
<1>7. "boot" \notin UserRequests /\ "none" \notin UserRequests BY DEF UserRequests, Restores, Commands
<1>8. PageWellFormed BY <1>1, <1>3 DEF PageWellFormed
<1>9. \A p \in Places : BootAlone(p) /\ AnswerFits(p)
  BY <1>1, <1>2, <1>4, <1>5, <1>7 DEF BootAlone, AnswerFits
<1>10. Pending({"boot"}) BY <1>4, <1>5, <1>6 DEF Pending
<1> QED BY <1>1, <1>2, <1>8, <1>9, <1>10 DEF PageInv, TimerRule, GuestsInCourse, GuestsHaveNoLab

LEMMA NextPage == LoadedPage' => PageInv'
BY NewPage, PTL

LEMMA PageInvInductive == PageInv /\ [WebPageNext]_pageVars => PageInv'
<1> SUFFICES ASSUME PageInv, [WebPageNext]_pageVars PROVE PageInv'
  OBVIOUS
<1>1. PageWellFormed BY DEF PageInv
<1>2. ASSUME NEW p \in Places, Serve(p) \/ LoseRequest(p) \/ ArriveAnswer(p) PROVE PageInv'
  BY <1>2, ServeStep, ArriveStep
<1>3. CASE TimerFires \/ Hide \/ Show \/ SwitchMode \/ Refresh \/ LogIn \/ Command \/ SendBatch
  BY <1>3, UserStep
<1>4. CASE ReloadPage
  <2>1. /\ page' = Guest /\ mixedUp' = FALSE /\ logins' = 0
        /\ inFlight' = [p \in Places |-> IF p = 1 THEN Sending("boot", 0) ELSE NoRequest]
        /\ cookie' = cookie /\ labVersion' = labVersion /\ pageFaults' = pageFaults
    BY <1>4 DEF ReloadPage
  <2> QED BY <1>1, <2>1, NextPage DEF LoadedPage, PageWellFormed
<1>5. CASE LabChanges
  <2>1. labVersion' \in 0..LastVersion
    BY <1>1, <1>5, WebPageAssumption DEF LabChanges, Running, Ended, PageWellFormed
  <2>2. UNCHANGED <<page, inFlight, cookie, logins, mixedUp, pageFaults>> BY <1>5 DEF LabChanges
  <2> QED BY <2>1, <2>2 DEF PageInv, PageWellFormed, TimerRule, BootAlone, AnswerFits, GuestsInCourse,
                            GuestsHaveNoLab, Pending
<1>6. CASE SessionExpires
  <2>1. UNCHANGED <<page, inFlight, labVersion, logins, mixedUp, pageFaults>> BY <1>6 DEF SessionExpires
  <2>2. cookie' = FALSE BY <1>6 DEF SessionExpires
  <2> QED BY <2>1, <2>2 DEF PageInv, PageWellFormed, TimerRule, BootAlone, AnswerFits, GuestsInCourse,
                            GuestsHaveNoLab, Pending
<1>7. CASE UNCHANGED pageVars
  BY <1>7 DEF pageVars, PageInv, PageWellFormed, TimerRule, BootAlone, AnswerFits, GuestsInCourse,
              GuestsHaveNoLab, Pending
<1> QED BY <1>2, <1>3, <1>4, <1>5, <1>6, <1>7 DEF WebPageNext

LEMMA PageInvariant == WebPageSpec => []PageInv
<1>1. WebPageInit => PageInv
  <2> SUFFICES ASSUME WebPageInit PROVE PageInv
    OBVIOUS
  <2>1. /\ page = Guest /\ mixedUp = FALSE /\ logins = 0
        /\ inFlight = [p \in Places |-> IF p = 1 THEN Sending("boot", 0) ELSE NoRequest]
        /\ cookie \in BOOLEAN /\ labVersion \in {0, 1} /\ pageFaults = 0
    BY DEF WebPageInit
  <2>2. labVersion \in 0..LastVersion /\ pageFaults \in Nat BY <2>1, WebPageAssumption
  <2> QED BY <2>1, <2>2, NewPage DEF LoadedPage
<1> QED BY <1>1, PageInvInductive, PTL DEF WebPageSpec


\* Types; the poll timer runs only for a user who has a lab on show
\* (schedulePoll, clearPoll), whatever order answers arrive in.
THEOREM PageWellTyped == WebPageSpec => []WebPageTypeOK
<1>1. PageInv => WebPageTypeOK
  <2> SUFFICES ASSUME PageInv PROVE WebPageTypeOK
    OBVIOUS
  <2>1. PageWellFormed /\ TimerRule(page) BY DEF PageInv
  <2>2. ASSUME NEW p \in Places
        PROVE  inFlight[p] \in [kind : Requested \cup {"none"},
                                answer : {"none", "ok", "401", "active", "error"},
                                version : 0..LastVersion, login : 0..logins]
    <3>1. inFlight[p] \in FlightRecords /\ inFlight[p].login <= logins /\ logins \in Nat
      BY <2>1 DEF PageWellFormed, PageInv, AnswerFits
    <3>2. inFlight[p].login \in 0..logins BY <3>1 DEF FlightRecords
    <3> QED BY <3>1, <3>2 DEF FlightRecords
  <2>3. inFlight \in [Places -> [kind : Requested \cup {"none"},
                                 answer : {"none", "ok", "401", "active", "error"},
                                 version : 0..LastVersion, login : 0..logins]]
    BY <2>1, <2>2 DEF PageWellFormed
  <2> QED BY <2>1, <2>3 DEF WebPageTypeOK, PageWellFormed, PageRecords, TimerRule
<1> QED BY <1>1, PageInvariant, PTL

\* enterGuestMode and the order of the handlers: for any number of requests in
\* flight, answered in any order, a page without a user shows no lab, and a
\* session is not forgotten, as long as no answer outlives its user.
THEOREM GuestsSeeNoLab == WebPageSpec => []GuestsHaveNoLab
<1>1. PageInv => GuestsHaveNoLab BY DEF PageInv
<1> QED BY <1>1, PageInvariant, PTL
=============================================================================
