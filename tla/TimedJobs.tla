----------------------------- MODULE TimedJobs -----------------------------
(***************************************************************************)
(* What the worker process and the scheduler process share: the rows, with *)
(* their leases in ticks of real time, and the messages that are waiting.  *)
(* A row is claimed at most once here, because the add for a retry finds   *)
(* the record of the first message and does nothing; so its status stands  *)
(* for its lease token too.  What happens to a row that is claimed again,  *)
(* after a re-trigger or a redelivery, is JobLifecycle.                    *)
(***************************************************************************)
EXTENDS JobStates, Integers, FiniteSets

CONSTANTS
    Jobs,
    LeaseDuration,  \* WORKER_LEASE_DURATION_MS
    MaxFaults       \* bound: statements that throw and processes that die

None == "none"  \* no job, no outcome

(* The table has finitely many rows.                                        *)
ASSUME JobsAssumption ==
    /\ None \notin Jobs /\ IsFiniteSet(Jobs)
    /\ LeaseDuration \in Nat /\ MaxFaults \in Nat

VARIABLES
    status,     \* of each row
    lease,      \* of a PROCESSING row: lease_until minus now; below 0 is over
    records,    \* the rows with a record in the queue, in whatever state
    messages,   \* those among them whose message is waiting
    abandoned,  \* history: rows that a throw or a death left where they are
    refused,    \* history: rows whose add found an old record
    moved,      \* history: the transitions out of PROCESSING, by row
    faults      \* history: how many throws and deaths there were

jobVars ==
    <<status, lease, records, messages, abandoned, refused, moved, faults>>

JobsInit ==
    /\ status = [j \in Jobs |-> "PENDING"]
    /\ lease = [j \in Jobs |-> 0]
    /\ records = {} /\ messages = {}
    /\ abandoned = {} /\ refused = {} /\ moved = {}
    /\ faults = 0

JobsTypeOK ==
    /\ status \in [Jobs -> JobStatus]
    /\ lease \in [Jobs -> -1 .. LeaseDuration]
    /\ records \subseteq Jobs /\ messages \subseteq records
    /\ abandoned \subseteq Jobs /\ refused \subseteq Jobs
    /\ moved \subseteq Jobs \X JobStatus
    /\ faults \in Nat

(* A statement throws, executed or not, or a process dies.                  *)
Fault ==
    /\ faults < MaxFaults
    /\ faults' = faults + 1

(* staleCondition.                                                          *)
Stale(j) == status[j] = "PROCESSING" /\ lease[j] < 0

(* A slip, see Processes: a renewal prolongs the lease that is there.       *)
SlipLend(j, age) ==
    /\ status' = [status EXCEPT ![j] = "PROCESSING"]
    /\ lease' = [lease EXCEPT ![j] = @ + LeaseDuration]

(* The row leaves PROCESSING, or enters it with a lease that was computed   *)
(* age ticks ago: lease_until is the sender's clock plus the duration.      *)
Rest(j, to) ==
    /\ status' = [status EXCEPT ![j] = to]
    /\ lease' = [lease EXCEPT ![j] = 0]
    /\ moved' = moved \cup {<<j, to>>}

Lend(j, age) ==
    /\ status' = [status EXCEPT ![j] = "PROCESSING"]
    /\ lease' = [lease EXCEPT ![j] = LeaseDuration - age]
=============================================================================
