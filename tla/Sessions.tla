------------------------------- MODULE Sessions -------------------------------
(***************************************************************************)
(* Sessions and the cookie of one browser.  The browser sends requests     *)
(* with the cookie it has at that time; the middleware looks the session   *)
(* up, records the visit and lets the handler run, each in a statement of  *)
(* its own; the answers, which may set or clear the cookie, arrive in any  *)
(* order.  The user's account may be disabled and enabled at any time      *)
(* (outside this code, in the column users.status).                        *)
(***************************************************************************)
EXTENDS Integers, Sequences

CONSTANTS
  VisitCount,       \* requests at a time
  SessionTTL,
  MaxSessionClock, MaxSessions, MaxVisits,
  MaxSessionFaults  \* bound: failing statements, and disablings of the account

ASSUME SessionsAssumption ==
  /\ VisitCount \in Nat /\ SessionTTL \in Nat \ {0}
  /\ {MaxSessionClock, MaxSessions, MaxVisits, MaxSessionFaults} \subseteq Nat

VARIABLES
  sessionClock,
  sessions,     \* the rows of auth_sessions
  visit,        \* requests under way
  jar,          \* the session of the browser's cookie, or 0
  given,        \* the session of the last cookie that was set
  active,       \* whether the user's account is active
  refused,      \* whether a request was refused because it was not
  overtaken,    \* whether an answer to an older cookie cleared a newer one
  collided,     \* whether two visits were recorded for the same time
  visitsMade, sessionFaults

sessionVars ==
  <<sessionClock, sessions, visit, jar, given, active, refused, overtaken, collided,
    visitsMade, sessionFaults>>

-----------------------------------------------------------------------------
Visits == 1..VisitCount
NoVisit == [kind |-> "none", pc |-> "none", session |-> 0, now |-> 0]
NewSession(now) == [revoked |-> FALSE, expiresAt |-> now + SessionTTL, lastSeenAt |-> now]

\* Mutant: a session is valid at its end.
ValidAtEnd(s, now) == ~sessions[s].revoked /\ sessions[s].expiresAt >= now

\* FindSession and TouchSession select the sessions that are neither revoked nor
\* over.
Valid(s, now) == ~sessions[s].revoked /\ sessions[s].expiresAt > now

SessionsInit ==
  /\ sessionClock = 0
  /\ sessions = <<>>
  /\ visit = [v \in Visits |-> NoVisit]
  /\ jar = 0 /\ given = 0
  /\ active = TRUE /\ refused = FALSE
  /\ overtaken = FALSE /\ collided = FALSE
  /\ visitsMade = 0 /\ sessionFaults = 0

\* Types; no visit is recorded at or after the end of a session.
SessionsTypeOK ==
  /\ sessionClock \in 0..MaxSessionClock
  /\ {jar, given} \subseteq 0..Len(sessions)
  /\ \A v \in Visits :
       /\ visit[v].kind \in {"none", "login", "view", "logout"}
       /\ visit[v].pc \in {"none", "found", "sent", "touched", "keep", "clear", "set"}
       /\ visit[v].session \in 0..Len(sessions)
  /\ \A s \in 1..Len(sessions) :
       /\ sessions[s].lastSeenAt <= sessionClock
       /\ sessions[s].lastSeenAt < sessions[s].expiresAt

-----------------------------------------------------------------------------
(***************************************************************************)
(* The middleware and the handlers.                                        *)
(***************************************************************************)
To(v, pc) == visit' = [visit EXCEPT ![v].pc = pc]
browserVars == <<jar, given, overtaken>>
accountVars == <<active, refused>>
counters == <<visitsMade, sessionFaults>>

\* The browser sends a request.
Visit(v) ==
  /\ visit[v].kind = "none" /\ \A w \in 1..(v - 1) : visit[w].kind # "none"
  /\ visitsMade < MaxVisits /\ visitsMade' = visitsMade + 1
  /\ \E kind \in {"login", "view", "logout"} :
       /\ kind # "login" => jar # 0
       /\ visit' = [visit EXCEPT ![v] =
                      [kind |-> kind, pc |-> "sent", now |-> 0,
                       session |-> IF kind = "login" THEN 0 ELSE jar]]
  /\ UNCHANGED <<sessionClock, sessions, browserVars, collided, sessionFaults, accountVars>>

\* Login stores a session, of an active user only, and the answer sets the cookie.
CreateSession(v) ==
  /\ visit[v].kind = "login" /\ visit[v].pc = "sent"
  /\ \/ /\ active /\ Len(sessions) < MaxSessions
        /\ sessions' = Append(sessions, NewSession(sessionClock))
        /\ visit' = [visit EXCEPT ![v].pc = "set", ![v].session = Len(sessions')]
     \/ ~active /\ To(v, "keep") /\ UNCHANGED sessions
  /\ UNCHANGED <<sessionClock, browserVars, collided, counters, accountVars>>

\* Mutant: any error of the store clears the cookie.
StoreFailsClearing(v) ==
  /\ visit[v].pc \in {"sent", "found", "touched"}
  /\ sessionFaults < MaxSessionFaults /\ sessionFaults' = sessionFaults + 1
  /\ To(v, "clear")
  /\ UNCHANGED <<sessionClock, sessions, browserVars, collided, visitsMade, accountVars>>

\* A statement fails: the request fails, and the cookie stays.
StoreFails(v) ==
  /\ visit[v].pc \in {"sent", "found", "touched"}
  /\ sessionFaults < MaxSessionFaults /\ sessionFaults' = sessionFaults + 1
  /\ To(v, "keep")
  /\ UNCHANGED <<sessionClock, sessions, browserVars, collided, visitsMade, accountVars>>

\* Authenticate reads the clock, and FindSession the row with its user's status.
\* The session of an inactive user counts as invalid.
FindSession(v) ==
  LET valid == Valid(visit[v].session, sessionClock)
  IN  /\ visit[v].kind # "login" /\ visit[v].pc = "sent"
      /\ visit' = [visit EXCEPT ![v].now = sessionClock,
                    ![v].pc = IF valid /\ active THEN "found" ELSE "clear"]
      /\ refused' = (refused \/ (valid /\ ~active))
      /\ UNCHANGED <<sessionClock, sessions, browserVars, collided, counters, active>>

\* The account is disabled or enabled.
SetUserStatus ==
  /\ \/ active /\ sessionFaults < MaxSessionFaults /\ sessionFaults' = sessionFaults + 1
     \/ ~active /\ UNCHANGED sessionFaults
  /\ active' = ~active
  /\ UNCHANGED <<sessionClock, sessions, visit, browserVars, collided, visitsMade, refused>>

\* The rows MySQL reports as affected are those it changes.
Touchable(s, now) == Valid(s, now) /\ sessions[s].lastSeenAt # now

\* TouchSession, with the time that was read before.  No row is affected if
\* the session has ended, or has that very time recorded already.
TouchSession(v) ==
  LET s == visit[v].session
      now == visit[v].now
  IN  /\ visit[v].pc = "found"
      /\ IF Touchable(s, now)
         THEN /\ sessions' = [sessions EXCEPT ![s].lastSeenAt = now]
              /\ To(v, "touched") /\ UNCHANGED collided
         ELSE /\ To(v, "clear") /\ UNCHANGED sessions
              /\ collided' = (collided \/ Valid(s, now))
      /\ UNCHANGED <<sessionClock, browserVars, counters, accountVars>>

\* The handler runs; logout revokes the session.
Handle(v) ==
  /\ visit[v].pc = "touched"
  /\ \/ /\ visit[v].kind = "view"
        /\ To(v, "keep") /\ UNCHANGED sessions
     \/ /\ visit[v].kind = "logout"
        /\ sessions' = [sessions EXCEPT ![visit[v].session].revoked = TRUE]
        /\ To(v, "clear")
  /\ UNCHANGED <<sessionClock, browserVars, collided, counters, accountVars>>

\* The answer arrives at the browser.
AnswerVisit(v) ==
  /\ visit[v].pc \in {"keep", "clear", "set"}
  /\ CASE visit[v].pc = "keep" -> UNCHANGED browserVars
       [] visit[v].pc = "clear" ->
            /\ jar' = 0 /\ UNCHANGED given
            /\ overtaken' = (overtaken \/ jar \notin {0, visit[v].session})
       [] visit[v].pc = "set" ->
            /\ jar' = visit[v].session /\ given' = jar' /\ UNCHANGED overtaken
  /\ visit' = [visit EXCEPT ![v] = NoVisit]
  /\ UNCHANGED <<sessionClock, sessions, collided, counters, accountVars>>

SessionTick ==
  /\ sessionClock < MaxSessionClock
  /\ sessionClock' = sessionClock + 1
  /\ UNCHANGED <<sessions, visit, browserVars, collided, counters, accountVars>>

SessionsNext ==
  \/ \E v \in Visits :
       \/ Visit(v) \/ CreateSession(v) \/ StoreFails(v) \/ FindSession(v)
       \/ TouchSession(v) \/ Handle(v) \/ AnswerVisit(v)
  \/ SessionTick \/ SetUserStatus

SessionsSpec == SessionsInit /\ [][SessionsNext]_sessionVars

-----------------------------------------------------------------------------
\* The browser keeps the cookie of its last login as long as the session lives,
\* and loses it only to a logout, which has revoked the session, or to its end.
\* Failures of the database log nobody out, and an account that is disabled and
\* enabled again between two requests is not logged out either.  There are three
\* exceptions: a request while the account is disabled; an answer to a request
\* with an older cookie, which clears whatever cookie there is; and of two visits
\* at the same microsecond TouchSession takes the second for invalid.
LiveSessionKept ==
  (~refused /\ ~overtaken /\ ~collided /\ given # 0 /\ Valid(given, sessionClock)) => jar = given
=============================================================================
