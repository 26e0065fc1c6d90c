--------------------------- MODULE WorkerProcess ---------------------------
(***************************************************************************)
(* The worker as a process in real time (apps/worker/src/index.ts, the     *)
(* timers of processor.ts): one message at a time, a renewal timer that    *)
(* runs while a message is executed, the metrics it counts, and its        *)
(* shutdown on a signal.  Time is relative: WorkerAges increases the ages. *)
(***************************************************************************)
EXTENDS TimedJobs, Metrics

CONSTANTS
    RenewalInterval,    \* WORKER_LEASE_RENEWAL_INTERVAL_MS
    Lateness,           \* by how much the event loop may be late for a timer
    MaxLatency,         \* from sending a statement to its answer
    MaxSilence,         \* between two renewals that reach the database
    WebhookTimeout,     \* WEBHOOK_TIMEOUT_MS
    Endings,            \* bound: how a delivery ends, of Outcomes
    Buckets,            \* the bounds of the duration histogram
    MaxRunning          \* bound: an execution that takes longer counts as this

(* The configuration checks none of this.  The last conjunct is what a live *)
(* worker needs to keep its lease; the one before it allows renewals to     *)
(* fail as long as one gets through in every MaxSilence ticks.              *)
ASSUME TimingAssumption ==
    /\ RenewalInterval \in Nat \ {0}
    /\ Lateness \in Nat /\ MaxLatency \in Nat \ {0}
    /\ MaxSilence \in Nat /\ WebhookTimeout \in Nat \ {0}
    /\ Buckets \subseteq Nat /\ MaxRunning \in Nat
    /\ Endings \subseteq {"SUCCEEDED", "RETRYING", "DEAD"}
    /\ RenewalInterval + Lateness <= MaxSilence
    /\ MaxSilence + 2 * MaxLatency <= LeaseDuration

Outcomes == {"SUCCEEDED", "RETRYING", "DEAD"}
Off == -1       \* the timer is not running

VARIABLES
    worker,         \* the execution: where it is, of which row, since when
    timer,          \* ticks since the renewal timer was started or fired
    silence,        \* ticks since the timer was started or a renewal sent
    renewals,       \* the renewals sent and not executed, with their ages
    workerLife,     \* running, closing (after a signal), exited or dead
    workerMetrics,  \* jobs_..._total and job_processing_duration_seconds
    durations       \* history: what was observed, by row

workerVars ==
    <<worker, timer, silence, renewals, workerLife, workerMetrics, durations>>

(* age counts from the sending of the statement in progress, or from the    *)
(* start of the request; running is the duration of the execution.          *)
Idle == [pc |-> "idle", job |-> None, age |-> 0, running |-> 0, outcome |-> None]

WorkerInit ==
    /\ worker = Idle
    /\ timer = Off /\ silence = 0 /\ renewals = {}
    /\ workerLife = "running"
    /\ workerMetrics = [jobs |-> NewCounter(Outcomes),
                        duration |-> NewHistogram(Outcomes, Buckets)]
    /\ durations = {}

WorkerTypeOK ==
    /\ worker \in [pc : {"idle", "claiming", "claimed", "delivering",
                         "completing", "recorded", "fenced"},
                   job : Jobs \cup {None}, age : Nat, running : Nat,
                   outcome : Outcomes \cup {None}]
    /\ timer \in Nat \cup {Off} /\ silence \in Nat
    /\ renewals \subseteq [job : Jobs, age : Nat]
    /\ workerLife \in {"running", "closing", "exited", "dead"}

-----------------------------------------------------------------------------
(* Slips, see Processes.                                                    *)

(* The timer is cleared when a renewal throws.                              *)
SlipMissed == Off

(* The metrics are counted whether or not the row was updated.              *)
SlipCounted == worker.pc \in {"recorded", "fenced"}

(* worker.close(true): the message in progress is not waited for.           *)
SlipWorkerDrained == TRUE

-----------------------------------------------------------------------------
(* One execution.  Its first SELECT, before the claim, changes nothing.     *)

TakeMessage(j) ==
    /\ workerLife = "running" /\ worker.pc = "idle" /\ j \in messages
    /\ messages' = messages \ {j}
    /\ worker' = [Idle EXCEPT !.pc = "claiming", !.job = j]
    /\ UNCHANGED <<status, lease, records, abandoned, refused, moved, faults,
                   timer, silence, renewals, workerLife, workerMetrics,
                   durations>>

(* The database executes the claim.                                         *)
ExecuteClaim ==
    /\ worker.pc = "claiming" /\ status[worker.job] \in CLAIMABLE_STATUSES
    /\ Lend(worker.job, worker.age)
    /\ worker' = [worker EXCEPT !.pc = "claimed"]
    /\ UNCHANGED <<records, messages, abandoned, refused, moved, faults, timer,
                   silence, renewals, workerLife, workerMetrics, durations>>

(* Its answer arrives: startLeaseRenewal, and the request is sent.          *)
StartExecution ==
    /\ worker.pc = "claimed"
    /\ worker' = [worker EXCEPT !.pc = "delivering", !.age = 0]
    /\ timer' = 0 /\ silence' = 0
    /\ UNCHANGED <<jobVars, renewals, workerLife, workerMetrics, durations>>

(* The endpoint answers, or the request is aborted.                         *)
DeliverWebhook(outcome) ==
    /\ worker.pc = "delivering"
    /\ worker' = [worker EXCEPT !.pc = "completing", !.age = 0,
                                !.outcome = outcome]
    /\ UNCHANGED <<jobVars, timer, silence, renewals, workerLife,
                   workerMetrics, durations>>

(* The database executes completeProcessing; no row updated is "fenced".    *)
ExecuteCompletion ==
    LET j == worker.job
    IN  /\ worker.pc = "completing"
        /\ \/ /\ status[j] = "PROCESSING"
              /\ Rest(j, worker.outcome)
              /\ worker' = [worker EXCEPT !.pc = "recorded"]
           \/ /\ status[j] # "PROCESSING"
              /\ worker' = [worker EXCEPT !.pc = "fenced"]
              /\ UNCHANGED <<status, lease, moved>>
        /\ UNCHANGED <<records, messages, abandoned, refused, faults, timer,
                       silence, renewals, workerLife, workerMetrics, durations>>

Counted == worker.pc = "recorded"

(* The finally block: clearInterval.                                        *)
EndExecution ==
    /\ worker' = Idle
    /\ timer' = Off /\ silence' = 0

(* Its answer arrives: metrics follow the guarded transition.               *)
FinishExecution ==
    LET o == worker.outcome
    IN  /\ worker.pc \in {"recorded", "fenced"}
        /\ IF Counted
           THEN /\ workerMetrics' =
                     [jobs |-> Inc(workerMetrics.jobs, o),
                      duration |-> Observe(workerMetrics.duration, o,
                                           worker.running)]
                /\ durations' = durations \cup
                     {[job |-> worker.job, outcome |-> o, ticks |-> worker.running]}
           ELSE UNCHANGED <<workerMetrics, durations>>
        /\ EndExecution
        /\ UNCHANGED <<jobVars, renewals, workerLife>>

(* A statement throws.  The catch block takes a success that could not be   *)
(* recorded for a failure, and records it once more.                        *)
CatchSuccess ==
    /\ worker.pc \in {"completing", "recorded", "fenced"}
    /\ worker.outcome = "SUCCEEDED"
    /\ worker' = [worker EXCEPT !.pc = "completing", !.age = 0,
                                !.outcome = "DEAD"]
    /\ Fault
    /\ UNCHANGED <<status, lease, records, messages, abandoned, refused, moved,
                   timer, silence, renewals, workerLife, workerMetrics,
                   durations>>

(* The row that nobody attends to if the execution ends here: before its    *)
(* outcome is written.                                                      *)
LeftBehind ==
    IF worker.pc \in {"claiming", "claimed", "delivering", "completing"}
    THEN {worker.job} ELSE {}

ProcessorThrows ==
    /\ \/ worker.pc \in {"claiming", "claimed"}
       \/ /\ worker.pc \in {"completing", "recorded", "fenced"}
          /\ worker.outcome # "SUCCEEDED"
    /\ Fault
    /\ abandoned' = abandoned \cup LeftBehind
    /\ EndExecution
    /\ UNCHANGED <<status, lease, records, messages, refused, moved, renewals,
                   workerLife, workerMetrics, durations>>

-----------------------------------------------------------------------------
(* The renewal timer.                                                       *)

Fires == timer # Off /\ timer >= RenewalInterval

SendRenewal ==
    /\ Fires
    /\ timer' = 0 /\ silence' = 0
    /\ renewals' = renewals \cup {[job |-> worker.job, age |-> 0]}
    /\ UNCHANGED <<jobVars, worker, workerLife, workerMetrics, durations>>

Missed == 0

(* A renewal that throws is logged; the timer goes on.                      *)
LoseRenewal ==
    /\ Fires
    /\ silence + RenewalInterval + Lateness <= MaxSilence
    /\ timer' = Missed
    /\ UNCHANGED <<jobVars, worker, silence, renewals, workerLife,
                   workerMetrics, durations>>

(* The database executes a renewal, in whatever order; one that is fenced   *)
(* out stops the timer of its own execution.                                *)
RenewLease(r) ==
    /\ renewals' = renewals \ {r}
    /\ \/ /\ status[r.job] = "PROCESSING"
          /\ Lend(r.job, r.age)
          /\ UNCHANGED <<timer, silence>>
       \/ /\ status[r.job] # "PROCESSING"
          /\ IF r.job = worker.job THEN timer' = Off /\ silence' = 0
                                   ELSE UNCHANGED <<timer, silence>>
          /\ UNCHANGED <<status, lease>>
    /\ UNCHANGED <<records, messages, abandoned, refused, moved, faults, worker,
                   workerLife, workerMetrics, durations>>

-----------------------------------------------------------------------------
(* The process.                                                             *)

(* The first signal; shutdown() returns at once for another one.            *)
WorkerSignal ==
    /\ workerLife = "running"
    /\ workerLife' = "closing"
    /\ UNCHANGED <<jobVars, worker, timer, silence, renewals, workerMetrics,
                   durations>>

(* worker.close() resolves.                                                 *)
WorkerDrained == worker.pc = "idle"

(* Then connection.quit(), pool.end() and process.exit(0).                  *)
WorkerExit ==
    /\ workerLife = "closing" /\ WorkerDrained
    /\ workerLife' = "exited"
    /\ worker' = Idle /\ timer' = Off /\ silence' = 0
    /\ UNCHANGED <<jobVars, renewals, workerMetrics, durations>>

WorkerDies ==
    /\ workerLife \in {"running", "closing"}
    /\ workerLife' = "dead"
    /\ Fault
    /\ abandoned' = abandoned \cup LeftBehind
    /\ EndExecution
    /\ UNCHANGED <<status, lease, records, messages, refused, moved, renewals,
                   workerMetrics, durations>>

(* A tick, and how long it can be put off: answers and timers are due.      *)
Due ==
    \/ /\ worker.pc \in {"claiming", "claimed", "completing", "recorded",
                         "fenced"}
       /\ worker.age >= MaxLatency
    \/ worker.pc = "delivering" /\ worker.age >= WebhookTimeout
    \/ timer # Off /\ timer >= RenewalInterval + Lateness
    \/ \E r \in renewals : r.age >= MaxLatency

(* From the answer of the claim; a failure measures before it is recorded, a *)
(* success afterwards.                                                      *)
MeasuresRunning ==
    \/ worker.pc = "delivering"
    \/ worker.outcome = "SUCCEEDED"

WorkerAges ==
    /\ worker' = IF worker.pc = "idle" THEN worker
                 ELSE [worker EXCEPT
                         !.age = @ + 1,
                         !.running = IF MeasuresRunning /\ @ < MaxRunning
                                     THEN @ + 1 ELSE @]
    /\ timer' = IF timer = Off THEN Off ELSE timer + 1
    /\ silence' = IF timer = Off THEN silence ELSE silence + 1
    /\ renewals' = {[r EXCEPT !.age = @ + 1] : r \in renewals}

(* What the worker does by itself, without messages, signals or faults.     *)
WorkerWork ==
    \/ ExecuteClaim
    \/ StartExecution
    \/ \E outcome \in Endings : DeliverWebhook(outcome)
    \/ ExecuteCompletion
    \/ FinishExecution
    \/ SendRenewal
    \/ \E r \in renewals : RenewLease(r)
    \/ WorkerExit

WorkerNext ==
    \/ WorkerWork
    \/ \E j \in messages : TakeMessage(j)
    \/ CatchSuccess
    \/ ProcessorThrows
    \/ LoseRenewal
    \/ WorkerSignal
    \/ WorkerDies
=============================================================================
