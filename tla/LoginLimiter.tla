----------------------------- MODULE LoginLimiter -----------------------------
(***************************************************************************)
(* The limiter of failed logins.  Login reads the clock and asks whether   *)
(* its key is blocked; it then looks the user up and compares the password *)
(* hash, which takes time, and records the result under the time it had    *)
(* read.  Several logins of one key may be at that point.                  *)
(***************************************************************************)
EXTENDS Integers, Sequences, FiniteSets

CONSTANTS
  LimitKeys,        \* user name and client
  LoginCount,       \* logins at a time
  LoginWindow, LoginMaxFailures, LoginBlockDuration, LoginMaxEntries,
  LoginDuration,    \* the time from Blocked to Failure that FailuresLimited allows for
  MaxLoginClock, MaxLogins

ASSUME LoginAssumption ==
  /\ LoginCount \in Nat
  /\ LoginMaxFailures \in Nat \ {0} /\ LoginMaxEntries \in Nat \ {0}
  /\ LoginWindow \in Nat \ {0} /\ LoginBlockDuration \in Nat \ {0}
  /\ LoginDuration \in Nat
  /\ MaxLoginClock \in Nat

VARIABLES
  loginClock,
  entries,      \* the map of the limiter
  login,        \* logins under way
  failed,       \* for each key, the times of its failures as they were recorded
  excused,      \* keys whose entry was given up to make room or after a success,
                \* or one of whose logins took too long
  loginsMade

loginVars == <<loginClock, entries, login, failed, excused, loginsMade>>

-----------------------------------------------------------------------------
LoginTimes == 0..MaxLoginClock
NoLogin == [key |-> 0, now |-> 0]
NewEntry(now) == [windowStartedAt |-> now, failures |-> 0, blockedUntil |-> 0, updatedAt |-> now]

LoginLimiterInit ==
  /\ loginClock = 0
  /\ entries = <<>>
  /\ login = [a \in 1..LoginCount |-> NoLogin]
  /\ failed = [k \in LimitKeys |-> <<>>]
  /\ excused = {}
  /\ loginsMade = 0

\* The map never outgrows its limit, whatever keys fail.
EntriesWithinLimit ==
  DOMAIN entries \subseteq LimitKeys /\ Cardinality(DOMAIN entries) <= LoginMaxEntries

\* Types, the limit of the map, and entries only of keys that have failed.
LoginLimiterTypeOK ==
  /\ loginClock \in LoginTimes
  /\ EntriesWithinLimit
  /\ \A k \in DOMAIN entries :
       /\ entries[k].failures \in 1..Len(failed[k])
       /\ {entries[k].windowStartedAt, entries[k].updatedAt} \subseteq 0..loginClock
       /\ entries[k].blockedUntil \in 0..(loginClock + LoginBlockDuration)

-----------------------------------------------------------------------------
(***************************************************************************)
(* The limiter.  A time of zero stands for no block.                       *)
(***************************************************************************)
Keep(map, keys) == [k \in keys |-> map[k]]

Pruned(map, now) ==
  Keep(map, {k \in DOMAIN map : \/ now - map[k].windowStartedAt < LoginWindow
                                \/ now < map[k].blockedUntil})

Blocked(key, now) ==
  LET map == Pruned(entries, now) IN key \in DOMAIN map /\ now < map[key].blockedUntil

\* Mutant: room is made only when the map is over its limit.
MadeRoomLate(map, victim) ==
  IF Cardinality(DOMAIN map) <= LoginMaxEntries THEN map ELSE Keep(map, DOMAIN map \ {victim})

\* makeRoom: the victim is an entry that was updated longest ago.
MadeRoom(map, victim) ==
  IF Cardinality(DOMAIN map) < LoginMaxEntries THEN map ELSE Keep(map, DOMAIN map \ {victim})

Victims(map) ==
  {k \in DOMAIN map : \A j \in DOMAIN map : map[k].updatedAt <= map[j].updatedAt}

\* Mutant: failures are counted, and never block.
CountedUnblocked(entry, now) ==
  [entry EXCEPT !.failures = @ + 1, !.updatedAt = now]

Counted(entry, now) ==
  LET fresh == IF now - entry.windowStartedAt >= LoginWindow
               THEN [entry EXCEPT !.windowStartedAt = now, !.failures = 0] ELSE entry
      n == fresh.failures + 1
  IN  [fresh EXCEPT !.failures = n, !.updatedAt = now,
                    !.blockedUntil = IF n >= LoginMaxFailures THEN now + LoginBlockDuration ELSE @]

Failure(key, now) ==
  LET map == Pruned(entries, now)
      overlong == IF loginClock - now > LoginDuration THEN {key} ELSE {}
  IN  \/ /\ key \in DOMAIN map
         /\ entries' = [map EXCEPT ![key] = Counted(@, now)]
         /\ excused' = excused \cup overlong
      \/ /\ key \notin DOMAIN map
         /\ \E victim \in Victims(map) \cup (IF map = <<>> THEN {key} ELSE {}) :
              LET room == MadeRoom(map, victim)
              IN  /\ entries' = [k \in DOMAIN room \cup {key} |->
                                   IF k = key THEN Counted(NewEntry(now), now) ELSE room[k]]
                  /\ excused' = excused \cup overlong \cup (DOMAIN map \ DOMAIN room)

-----------------------------------------------------------------------------
(***************************************************************************)
(* Login.                                                                  *)
(***************************************************************************)
\* The entries that Blocked drops change nothing: every call drops them first.
\* Logins under way are alike, so the first free place is taken.
StartLogin(a) ==
  /\ login[a] = NoLogin /\ \A b \in 1..(a - 1) : login[b] # NoLogin
  /\ loginsMade < MaxLogins
  /\ loginsMade' = loginsMade + 1
  /\ \E key \in LimitKeys :
       /\ entries' = Pruned(entries, loginClock)
       /\ login' = IF Blocked(key, loginClock) THEN login
                   ELSE [login EXCEPT ![a] = [key |-> key, now |-> loginClock]]
  /\ UNCHANGED <<loginClock, failed, excused>>

\* No such user, or another password.
FailLogin(a) ==
  LET l == login[a]
  IN  /\ l # NoLogin
      /\ Failure(l.key, l.now)
      /\ failed' = [failed EXCEPT ![l.key] = Append(@, l.now)]
      /\ login' = [login EXCEPT ![a] = NoLogin]
      /\ UNCHANGED <<loginClock, loginsMade>>

\* The session is stored, and Success deletes the entry.
SucceedLogin(a) ==
  /\ login[a] # NoLogin
  /\ entries' = Keep(entries, DOMAIN entries \ {login[a].key})
  /\ excused' = excused \cup {login[a].key}
  /\ login' = [login EXCEPT ![a] = NoLogin]
  /\ UNCHANGED <<loginClock, failed, loginsMade>>

\* The account is disabled, or the database fails: nothing is recorded.
AbandonLogin(a) ==
  /\ login[a] # NoLogin
  /\ login' = [login EXCEPT ![a] = NoLogin]
  /\ UNCHANGED <<loginClock, entries, failed, excused, loginsMade>>

LoginTick ==
  /\ loginClock < MaxLoginClock
  /\ loginClock' = loginClock + 1
  /\ UNCHANGED <<entries, login, failed, excused, loginsMade>>

LoginLimiterNext ==
  \/ \E a \in 1..LoginCount : StartLogin(a) \/ FailLogin(a) \/ SucceedLogin(a) \/ AbandonLogin(a)
  \/ LoginTick

LoginLimiterSpec == LoginLimiterInit /\ [][LoginLimiterNext]_loginVars

-----------------------------------------------------------------------------
FailuresBetween(k, from, to) ==
  Cardinality({i \in DOMAIN failed[k] : from <= failed[k][i] /\ failed[k][i] < to})

\* The rule of the documents: a key has at most LoginMaxFailures failures in any
\* span of LoginWindow.  Windows follow each other and do not slide, so the
\* end of one and the beginning of the next can hold more together.
FailuresPerWindow ==
  \A k \in LimitKeys \ excused, t \in LoginTimes :
    FailuresBetween(k, t, t + LoginWindow) <= LoginMaxFailures

LimitedSpan ==
  (IF LoginBlockDuration < LoginWindow THEN LoginBlockDuration ELSE LoginWindow) - LoginDuration

\* What the limiter does guarantee, and less than the documents promise:
\* whatever logins overlap, a key whose entry was never given up has fewer than
\* two limits of failures, besides one for every other login that had passed
\* Blocked at the same time.  A failure is entered under the time its login
\* began, which may begin a window in the past or shorten a block, so this is
\* for a span as long as the window or the block, whichever is the shorter,
\* less the time a login takes.
FailuresLimited ==
  \A k \in LimitKeys \ excused, t \in LoginTimes :
    FailuresBetween(k, t, t + LimitedSpan) <= 2 * LoginMaxFailures - 1 + (LoginCount - 1)
=============================================================================
