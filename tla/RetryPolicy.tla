---------------------------- MODULE RetryPolicy ----------------------------
(***************************************************************************)
(* Exponential backoff with full jitter (packages/db/src/retry-policy.ts). *)
(* A delay is a number of clock ticks; the random number of the jitter is  *)
(* the choice of a member of applyFullJitter.                              *)
(***************************************************************************)
EXTENDS Integers

CONSTANTS
    BaseDelay,      \* RETRY_BASE_DELAY_MS
    MaxDelay        \* RETRY_MAX_DELAY_MS

ASSUME DelayAssumption == BaseDelay \in Nat \ {0} /\ MaxDelay \in Nat \ {0}

calculateExponentialDelayMs(attempt) ==
    LET safeAttempt == IF attempt > 0 THEN attempt ELSE 1
        exponential == BaseDelay * 2 ^ (safeAttempt - 1)
    IN  IF exponential <= MaxDelay THEN exponential ELSE MaxDelay

(* floor(random * (d + 1)) for random in [0, 1).                            *)
applyFullJitter(exponentialDelay) == 0 .. exponentialDelay
=============================================================================
