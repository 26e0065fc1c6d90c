------------------------------ MODULE JobTable ------------------------------
(***************************************************************************)
(* One row of the jobs table and the guarded UPDATE statements that the    *)
(* worker, the scheduler and the API run on it.  PostgreSQL evaluates a    *)
(* WHERE clause and its SET list atomically, so a statement is a predicate *)
(* on the row (its WHERE) and the row it leaves behind (its SET).          *)
(***************************************************************************)
EXTENDS JobStates, RetryPolicy

CONSTANTS
    Null,           \* SQL NULL
    LeaseDuration   \* WORKER_LEASE_DURATION_MS, in clock ticks

ErrorCode ==
    {"HTTP_5XX", "HTTP_4XX", "TIMEOUT", "NETWORK_ERROR", "UNKNOWN_ERROR",
     "WORKER_CRASH"}

ASSUME NullAssumption == Null \notin Nat /\ Null \notin ErrorCode
ASSUME LeaseAssumption == LeaseDuration \in Nat \ {0}

Row ==
    [status        : JobStatus,
     attempts      : Nat,
     maxAttempts   : Nat \ {0},
     scheduledAt   : Nat,
     nextAttemptAt : Nat \cup {Null},
     leaseUntil    : Nat \cup {Null},
     leaseToken    : Nat \cup {Null},
     lastErrorCode : ErrorCode \cup {Null}]

(* POST /jobs: INSERT with the column defaults.                             *)
NewRow(maxAttempts, scheduledAt) ==
    [status |-> "PENDING", attempts |-> 0, maxAttempts |-> maxAttempts,
     scheduledAt |-> scheduledAt, nextAttemptAt |-> Null,
     leaseUntil |-> Null, leaseToken |-> Null, lastErrorCode |-> Null]

-----------------------------------------------------------------------------
(* Slips: what a plausible bug would make of a statement below.  No         *)
(* specification uses them; each shows that a property is not idle.         *)

(* The claim accepts anything that is not running or done.                  *)
SlipClaimable(row) == row.status \notin {"PROCESSING", "SUCCEEDED"}

(* The claim already charges the attempt.                                   *)
SlipClaimedRowCharges(row, token, now) ==
    [row EXCEPT !.status = "PROCESSING", !.attempts = @ + 1,
                !.leaseUntil = now + LeaseDuration, !.leaseToken = token]

(* The claim forgets lease_until.                                           *)
SlipClaimedRowNoExpiry(row, token, now) ==
    [row EXCEPT !.status = "PROCESSING", !.leaseToken = token]

(* The completion forgets to clear lease_until.                             *)
SlipCompletedRow(row, update) ==
    [row EXCEPT !.status = update.status, !.attempts = update.attempts,
                !.nextAttemptAt = update.nextAttemptAt,
                !.lastErrorCode = update.lastErrorCode, !.leaseToken = Null]

(* The recovery forgets to clear the fencing token.                         *)
SlipRecoveredRow(row, update) ==
    [row EXCEPT !.status = update.status, !.attempts = update.attempts,
                !.nextAttemptAt = update.nextAttemptAt,
                !.lastErrorCode = update.lastErrorCode, !.leaseUntil = Null]

SlipHasAttemptsLeft(attempt, maxAttempts) == attempt <= maxAttempts

(* The recovery takes every running job for stale.                          *)
SlipStaleCondition(row, now) ==
    row.status = "PROCESSING" /\ row.leaseUntil # Null

(* The scheduler enqueues without moving the row.                           *)
SlipQueuedRow(row) == [row EXCEPT !.nextAttemptAt = Null]

(* The re-trigger starts with a clean diagnosis.                            *)
SlipRetriggeredRow(row) ==
    [row EXCEPT !.status = "QUEUED", !.nextAttemptAt = Null,
                !.lastErrorCode = Null]

(* The compensation only spares the running job.                            *)
SlipCompensable(row) == row.status # "PROCESSING"

(* The compensation writes a status that the column does not have.          *)
SlipCompensatedRow(row) == [row EXCEPT !.status = "FAILED"]

-----------------------------------------------------------------------------
(* The worker's statements.                                                 *)

Claimable(row) == row.status \in CLAIMABLE_STATUSES

(* token is the fresh fencing token of this execution.                      *)
ClaimedRow(row, token, now) ==
    [row EXCEPT !.status = "PROCESSING",
                !.leaseUntil = now + LeaseDuration,
                !.leaseToken = token]

(* The fence of renewLease and completeProcessing.                          *)
OwnedBy(row, token) == row.status = "PROCESSING" /\ row.leaseToken = token

RenewedRow(row, until) == [row EXCEPT !.leaseUntil = until]

CompletedRow(row, update) ==
    [row EXCEPT !.status = update.status,
                !.attempts = update.attempts,
                !.nextAttemptAt = update.nextAttemptAt,
                !.lastErrorCode = update.lastErrorCode,
                !.leaseUntil = Null,
                !.leaseToken = Null]

(* What the worker records for a 2xx answer, and what the worker and the    *)
(* recovery record for an attempt that failed: one update per jitter.       *)
SuccessUpdate(attempt) ==
    [status |-> "SUCCEEDED", attempts |-> attempt, nextAttemptAt |-> Null,
     lastErrorCode |-> Null]

HasAttemptsLeft(attempt, maxAttempts) == attempt < maxAttempts

FailureUpdates(attempt, maxAttempts, retryable, code, now) ==
    IF retryable /\ HasAttemptsLeft(attempt, maxAttempts)
    THEN {[status |-> "RETRYING", attempts |-> attempt,
           nextAttemptAt |-> now + delay, lastErrorCode |-> code] :
             delay \in applyFullJitter(calculateExponentialDelayMs(attempt))}
    ELSE {[status |-> "DEAD", attempts |-> attempt, nextAttemptAt |-> Null,
           lastErrorCode |-> code]}

-----------------------------------------------------------------------------
(* The scheduler's statements.                                              *)

staleCondition(row, now) ==
    /\ row.status = "PROCESSING"
    /\ row.leaseUntil # Null
    /\ row.leaseUntil < now

(* A crash counts as an attempt.                                            *)
ChargedAttempts(attempts) == attempts + 1

(* The recovery's SET list names the same columns as completeProcessing's.  *)
RecoveredRow(row, update) == CompletedRow(row, update)

dueCondition(row, now) ==
    \/ row.status = "PENDING" /\ row.scheduledAt <= now
    \/ /\ row.status = "RETRYING"
       /\ row.nextAttemptAt # Null
       /\ row.nextAttemptAt <= now

(* ORDER BY coalesce(next_attempt_at, scheduled_at).                        *)
DueAt(row) ==
    IF row.nextAttemptAt # Null THEN row.nextAttemptAt ELSE row.scheduledAt

(* The scheduler leaves next_attempt_at as it was.                          *)
QueuedRow(row) == [row EXCEPT !.status = "QUEUED"]

-----------------------------------------------------------------------------
(* The API's statements.                                                    *)

(* The guard of retriggerDeadJob: WHERE status = 'DEAD'.                    *)
Retriggerable(row) == row.status = "DEAD"

RetriggeredRow(row) ==
    [row EXCEPT !.status = "QUEUED", !.nextAttemptAt = Null]

(* The guard of the compensation: WHERE status = 'QUEUED'.                  *)
Compensable(row) == row.status = "QUEUED"

CompensatedRow(row) == [row EXCEPT !.status = "DEAD"]
=============================================================================
