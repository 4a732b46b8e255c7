------------------------------ MODULE Recovery ------------------------------
(* The lockout of account recovery, for the presses of one device.  Failures *)
(* are counted before a press is judged and logged after.                    *)

EXTENDS Integers, FiniteSets

CONSTANTS Press,      \* the presses that can be under way at the same time
          RATE_LIMIT_MAX_FAILURES,
          MaxAttempts

ASSUME RecoveryAssumption ==
  /\ IsFiniteSet(Press) /\ Press # {}
  /\ RATE_LIMIT_MAX_FAILURES \in Nat \ {0} /\ MaxAttempts \in Nat

VARIABLES
  logged,      \* the rows of AccountRecoveryAttempt, by their id
  failures,    \* those of the last 24 hours with succeeded = 0
  lockouts,    \* those with failureReason 'locked'
  press        \* what each press is at, and its row

recoveryVars == <<logged, failures, lockouts, press>>

Released == [at |-> "released", id |-> 0]

RecoveryInit ==
  logged = 0 /\ failures = {} /\ lockouts = {} /\ press = [p \in Press |-> Released]

Reach(p, point) == press' = [press EXCEPT ![p].at = point]
Release(p) == press' = [press EXCEPT ![p] = Released]

\* logRecoveryAttempt, with succeeded = 0 in all its uses.
logRecoveryAttempt ==
  logged < MaxAttempts /\ logged' = logged + 1 /\ failures' = failures \cup {logged + 1}

\* Fault: one failure more.
LockedLate == Cardinality(failures) > RATE_LIMIT_MAX_FAILURES
Locked == Cardinality(failures) >= RATE_LIMIT_MAX_FAILURES

\* recoverAccount: failedAttemptsInLast24h decides whether the receipts are judged.
recoverAccount(p) ==
  /\ press[p] = Released
  /\ Reach(p, IF Locked THEN "locked" ELSE "matching")
  /\ UNCHANGED <<logged, failures, lockouts>>

logLockout(p) ==
  /\ press[p].at = "locked" /\ logRecoveryAttempt /\ lockouts' = lockouts \cup {logged + 1}
  /\ Release(p)

tryMatchFailed(p) ==
  /\ press[p].at = "matching" /\ logRecoveryAttempt /\ Release(p)
  /\ UNCHANGED lockouts

\* A match is logged as a failure until the accounts are merged.
tryMatchFound(p) ==
  /\ press[p].at = "matching" /\ logRecoveryAttempt
  /\ press' = [press EXCEPT ![p] = [at |-> "merging", id |-> logged + 1]]
  /\ UNCHANGED lockouts

finaliseRecoveryAttempt(p, succeeded) ==
  /\ press[p].at = "merging"
  /\ failures' = IF succeeded THEN failures \ {press[p].id} ELSE failures
  /\ Release(p)
  /\ UNCHANGED <<logged, lockouts>>

\* The oldest row is 24 hours old.  A press is lost.
RollOff ==
  /\ \E i \in failures : (\A j \in failures : i <= j) /\ failures' = failures \ {i}
  /\ UNCHANGED <<logged, lockouts, press>>

Lose(p) == press[p] # Released /\ Release(p) /\ UNCHANGED <<logged, failures, lockouts>>

RecoveryNext ==
  \/ \E p \in Press : \/ recoverAccount(p) \/ logLockout(p) \/ tryMatchFailed(p) \/ tryMatchFound(p)
                      \/ (\E succeeded \in BOOLEAN : finaliseRecoveryAttempt(p, succeeded))
                      \/ Lose(p)
  \/ RollOff

RecoverySpec == RecoveryInit /\ [][RecoveryNext]_recoveryVars

\* No 24 hours hold more failed attempts than the limit, but for presses that were
\* under way at the same time: each of them may have counted before the others
\* were logged (recoverAccount).
LockoutHolds ==
  Cardinality(failures \ lockouts) <= RATE_LIMIT_MAX_FAILURES + Cardinality(Press) - 1
=============================================================================
