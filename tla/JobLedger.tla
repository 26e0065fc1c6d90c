----------------------------- MODULE JobLedger -----------------------------
(***************************************************************************)
(* What the jobs table promises, whatever processes work on it: a job is   *)
(* run one run at a time, ends SUCCEEDED only by a run in progress and     *)
(* only if its endpoint has accepted the webhook, never leaves SUCCEEDED,  *)
(* and leaves DEAD only for another run that an operator asked for.        *)
(* Leases, tokens, clocks, retries and messages are out of sight here;     *)
(* JobLifecycle implements this module.                                    *)
(***************************************************************************)
EXTENDS Naturals

CONSTANT Jobs

VARIABLES
    phase,      \* phase[j]: where job j is
    run,        \* run[j]: how many runs of j have been started
    delivered   \* the jobs whose endpoint has accepted the webhook

ledgerVars == <<phase, run, delivered>>

Phase == {"waiting", "running", "succeeded", "dead"}

LedgerInit ==
    /\ phase = [j \in Jobs |-> "waiting"]
    /\ run = [j \in Jobs |-> 0]
    /\ delivered = {}

Move(j, from, to) ==
    /\ phase[j] = from
    /\ phase' = [phase EXCEPT ![j] = to]

Start(j) ==
    /\ Move(j, "waiting", "running")
    /\ run' = [run EXCEPT ![j] = run[j] + 1]
    /\ UNCHANGED delivered

(* A run reaches the endpoint.  It may be one that has been given up since. *)
Deliver(j) ==
    /\ run[j] > 0
    /\ delivered' = delivered \cup {j}
    /\ UNCHANGED <<phase, run>>

Succeed(j) ==
    /\ j \in delivered
    /\ Move(j, "running", "succeeded")
    /\ UNCHANGED <<run, delivered>>

Fail(j) ==
    /\ Move(j, "running", "waiting") \/ Move(j, "running", "dead")
    /\ UNCHANGED <<run, delivered>>

Retrigger(j) == Move(j, "dead", "waiting") /\ UNCHANGED <<run, delivered>>

Revoke(j) == Move(j, "waiting", "dead") /\ UNCHANGED <<run, delivered>>

LedgerNext ==
    \E j \in Jobs :
      Start(j) \/ Deliver(j) \/ Succeed(j) \/ Fail(j) \/ Retrigger(j) \/ Revoke(j)

LedgerSpec == LedgerInit /\ [][LedgerNext]_ledgerVars
=============================================================================
