----------------------------- MODULE JobStates -----------------------------
(***************************************************************************)
(* The status column of a job and the table of transitions the code        *)
(* declares (packages/db/src/state-machine.ts, schema/jobs.ts).            *)
(***************************************************************************)

JobStatus ==
    {"PENDING", "QUEUED", "PROCESSING", "SUCCEEDED", "RETRYING", "DEAD"}

transitions ==
    [PENDING    |-> {"QUEUED"},
     QUEUED     |-> {"PROCESSING"},
     PROCESSING |-> {"SUCCEEDED", "RETRYING", "DEAD"},
     RETRYING   |-> {"QUEUED", "DEAD"},
     SUCCEEDED  |-> {},
     DEAD       |-> {"QUEUED"}]

isValidTransition(from, to) == to \in transitions[from]

(* What a worker's claim accepts; it does not consult the table above.      *)
CLAIMABLE_STATUSES == {"PENDING", "QUEUED", "RETRYING"}

(* The move a claim makes: its UPDATE names no status but these.            *)
ClaimMove(from, to) == from \in CLAIMABLE_STATUSES /\ to = "PROCESSING"

(* The move that compensates for a failed enqueue: the guarded UPDATE of    *)
(* POST /jobs/:jobId/retry.                                                 *)
CompensationMove(from, to) == from = "QUEUED" /\ to = "DEAD"

(* What the statements together can do to a status: the table, and the two  *)
(* that do not consult it.                                                  *)
Movable(from, to) ==
    \/ isValidTransition(from, to)
    \/ ClaimMove(from, to)
    \/ CompensationMove(from, to)
=============================================================================
