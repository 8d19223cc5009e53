----------------------------- MODULE LabStatus -----------------------------
(***************************************************************************)
(* The lifecycle states of a lab session and the deadline rule that moves  *)
(* a session between them: internal/lab/status.go and                      *)
(* internal/lifecycle/decision.go of platform-api.                         *)
(*                                                                         *)
(* Times are integers on one clock.  The termination reason that evaluate  *)
(* also returns (idle_timeout or maximum_duration) is left out: it is      *)
(* stored and displayed, and no code branches on it.                       *)
(***************************************************************************)
EXTENDS Integers

CONSTANTS
  IdleTimeout,   \* LAB_IDLE_TIMEOUT: allowed time without an effective action
  MaxDuration,   \* LAB_MAX_DURATION: allowed time since the lab started
  ExpiringLead   \* LAB_EXPIRING_LEAD: length of the reminder window

\* validateConfig, lifecycle/repository.go.
ASSUME DeadlineAssumption ==
  /\ IdleTimeout \in Nat /\ MaxDuration \in Nat /\ ExpiringLead \in Nat
  /\ 0 < ExpiringLead
  /\ ExpiringLead < IdleTimeout
  /\ ExpiringLead < MaxDuration

(***************************************************************************)
(* Statuses.  "None" stands for a session that has not been inserted.      *)
(***************************************************************************)
Status ==
  {"Preparing", "Running", "Expiring", "Failed", "Terminating", "Terminated"}

Active == {"Preparing", "Running", "Expiring", "Terminating"}

\* The statuses in which the lab serves its user.
Serving == {"Running", "Expiring"}

CanTransition(from, to) ==
  \/ from = "Preparing"   /\ to \in {"Running", "Failed", "Terminating"}
  \/ from = "Running"     /\ to \in {"Expiring", "Failed", "Terminating"}
  \/ from = "Expiring"    /\ to \in {"Running", "Failed", "Terminating"}
  \/ from = "Failed"      /\ to = "Terminating"
  \/ from = "Terminating" /\ to \in {"Failed", "Terminated"}

-----------------------------------------------------------------------------
(***************************************************************************)
(* The deadline rule.                                                      *)
(***************************************************************************)
Deadline(startedAt, lastEffectiveActionAt) ==
  LET idleDeadline    == lastEffectiveActionAt + IdleTimeout
      maximumDeadline == startedAt + MaxDuration
  IN  IF maximumDeadline < idleDeadline THEN maximumDeadline ELSE idleDeadline

Decisions == {"none", "expiring", "running", "terminating"}

\* Mutant: the reminder window is tested before the deadline.
EvaluateLeadFirst(now, status, startedAt, lastEffectiveActionAt) ==
  LET deadline == Deadline(startedAt, lastEffectiveActionAt)
  IN  IF now >= deadline - ExpiringLead /\ status = "Running" THEN "expiring"
      ELSE IF now >= deadline - ExpiringLead THEN "terminating"
      ELSE IF status = "Expiring" THEN "running"
      ELSE "none"

Evaluate(now, status, startedAt, lastEffectiveActionAt) ==
  LET deadline == Deadline(startedAt, lastEffectiveActionAt)
  IN  IF now >= deadline THEN "terminating"
      ELSE IF now >= deadline - ExpiringLead
           THEN IF status = "Running" THEN "expiring" ELSE "none"
      ELSE IF status = "Expiring" THEN "running"
      ELSE "none"
=============================================================================
