---------------------------- MODULE JobLifecycle ----------------------------
(***************************************************************************)
(* Every process that writes to the jobs table, statement by statement:    *)
(* workers that claim, renew and complete jobs under a fenced lease,       *)
(* schedulers that recover expired leases and queue due jobs, and API      *)
(* requests that re-trigger dead jobs.  The rows are the shared state; a   *)
(* step of a process is one SQL statement or one remote call, so steps of  *)
(* different processes interleave at every await.                          *)
(*                                                                         *)
(* BullMQ is left abstract: a message for a job that has been queued may   *)
(* be handed to any idle worker at any time, any number of times.  Module  *)
(* ChronoQueue puts the real queue back.                                   *)
(***************************************************************************)
EXTENDS JobTable, FiniteSets

CONSTANTS
    Jobs,               \* rows that POST /jobs has inserted
    Workers,            \* job slots of the worker processes
    Schedulers,         \* scheduler processes
    Requests,           \* POST /jobs/:id/retry requests in progress
    MaxAttemptsChoices, \* values of max_attempts to start from
    ScheduleChoices,    \* values of scheduled_at to start from
    Answers,            \* what an endpoint may do, a subset of Answer
    BatchSize,          \* SCHEDULER_BATCH_SIZE
    MaxTime,            \* bound: the last clock value
    MaxExecutions,      \* bound: claims of one row
    MaxInFlight,        \* bound: renewals in flight at once
    Faulty,             \* what may fail, a subset of FaultKind
    MaxFaults           \* bound: how many times something fails

(* A 2xx status, a retryable and a final HTTP error, the abort of the 10s   *)
(* timer, a failed fetch.                                                   *)
Answer == {"OK", "HTTP_5XX", "HTTP_4XX", "TIMEOUT", "NETWORK_ERROR"}

(* A worker dies; a statement of a worker throws; a scheduler or an API     *)
(* request dies or a statement of theirs throws; a Redis command of theirs  *)
(* throws; BullMQ takes a slow worker for a dead one.                       *)
FaultKind == {"crash", "database", "scheduler", "request", "scheduler_redis",
              "request_redis", "stall"}

ASSUME ConstantsAssumption ==
    /\ Null \notin Jobs \cup Answer \cup {"DB_ERROR"}
    /\ MaxAttemptsChoices \subseteq Nat \ {0}
    /\ ScheduleChoices \subseteq Nat
    /\ Answers \subseteq Answer /\ Faulty \subseteq FaultKind
    /\ BatchSize \in Nat \ {0}
    /\ MaxTime \in Nat /\ MaxExecutions \in Nat
    /\ MaxInFlight \in Nat /\ MaxFaults \in Nat

VARIABLES
    now,        \* the clock
    rows,       \* the jobs table
    executions, \* executions[j]: how many times row j has been claimed
    acked,      \* the jobs whose endpoint has answered 2xx
    worker,     \* what each worker is doing
    renewals,   \* lease renewals sent and not yet executed
    scheduler,  \* what each scheduler is doing
    request,    \* what each re-trigger request is doing
    faults      \* how many faults have happened

vars == <<now, rows, executions, acked, worker, renewals, scheduler, request,
          faults>>

-----------------------------------------------------------------------------
(* Control states.                                                          *)

IdleWorker ==
    [pc |-> "idle", job |-> Null, token |-> Null, attempt |-> Null,
     maxAttempts |-> Null, outcome |-> Null, renewing |-> FALSE]

(* The outcome of an execution: the endpoint's answer, or "DB_ERROR" when   *)
(* recording a success threw.  "resolved" and "threw" are the processor's   *)
(* promise before BullMQ has moved the message accordingly.                 *)
WorkerState ==
    [pc          : {"idle", "claiming", "delivering", "recording", "resolved",
                    "threw"},
     job         : Jobs \cup {Null},
     token       : Nat \cup {Null},
     attempt     : Nat \cup {Null},
     maxAttempts : Nat \cup {Null},
     outcome     : Answer \cup {"DB_ERROR", Null},
     renewing    : BOOLEAN]

Renewal == [job : Jobs, token : Nat, until : Nat]

(* A row of recoverStaleJobs' SELECT, and a row of runSchedulerPoll's.      *)
StaleJob == [job : Jobs, attempts : Nat, maxAttempts : Nat \ {0}]
DueJob == [job : Jobs, status : {"PENDING", "RETRYING"}]

(* A scheduler that polls with nothing due is between two cycles.           *)
IdleScheduler == [pc |-> "polling", stale |-> {}, due |-> {}, job |-> Null]

SchedulerState ==
    [pc    : {"recovering", "polling", "enqueueing"},
     stale : SUBSET StaleJob,
     due   : SUBSET DueJob,
     job   : Jobs \cup {Null}]

IdleRequest == [pc |-> "idle", job |-> Null]

RequestState ==
    [pc : {"idle", "removing", "enqueueing", "compensating"}, job : Jobs \cup {Null}]

Init ==
    /\ now = 0
    /\ rows \in [Jobs -> {NewRow(m, t) : m \in MaxAttemptsChoices,
                                         t \in ScheduleChoices}]
    /\ executions = [j \in Jobs |-> 0]
    /\ acked = {}
    /\ worker = [w \in Workers |-> IdleWorker]
    /\ renewals = {}
    /\ scheduler = [s \in Schedulers |-> IdleScheduler]
    /\ request = [a \in Requests |-> IdleRequest]
    /\ faults = 0

Tick ==
    /\ now < MaxTime
    /\ now' = now + 1
    /\ UNCHANGED <<rows, executions, acked, worker, renewals, scheduler,
                   request, faults>>

Fault(kind) ==
    kind \in Faulty /\ faults < MaxFaults /\ faults' = faults + 1

(* Bound: a lease is granted only if the bounded clock can outlive it.      *)
LeaseFits == now + LeaseDuration < MaxTime

-----------------------------------------------------------------------------
(* The worker: processWebhookDeliveryJob.                                   *)

Settle(w, promise) ==
    worker' = [worker EXCEPT
                 ![w] = [IdleWorker EXCEPT !.pc = promise, !.job = worker[w].job]]

WorkerOnly == UNCHANGED <<now, scheduler, request>>

(* A message arrives and the row is read.  A message exists only for a job  *)
(* that was queued, and no row goes back to PENDING.                        *)
FetchMessage(w, j) ==
    /\ worker[w].pc = "idle"
    /\ rows[j].status # "PENDING"
    /\ worker' = [worker EXCEPT ![w].pc = "claiming", ![w].job = j]
    /\ UNCHANGED <<rows, executions, acked, renewals, faults>> /\ WorkerOnly

(* A slip, see JobTable: the token of a job never changes.                  *)
SlipFreshToken(j) == 1

(* The fresh UUID of the n-th claim of a row is n: every statement that     *)
(* uses a token also names the row.                                         *)
FreshToken(j) == executions[j] + 1

(* The UPDATE of claimJob finds the row claimable.                          *)
ExecuteClaim(w) ==
    LET j == worker[w].job
    IN  /\ worker[w].pc = "claiming"
        /\ Claimable(rows[j])
        /\ executions[j] < MaxExecutions /\ LeaseFits
        /\ rows' = [rows EXCEPT ![j] = ClaimedRow(rows[j], FreshToken(j), now)]
        /\ executions' = [executions EXCEPT ![j] = @ + 1]
        /\ UNCHANGED <<acked, renewals>> /\ WorkerOnly

(* claimJob succeeds.                                                       *)
ClaimJob(w) ==
    LET j == worker[w].job
    IN  /\ ExecuteClaim(w)
        /\ worker' = [worker EXCEPT
                        ![w] = [pc |-> "delivering", job |-> j,
                                token |-> FreshToken(j),
                                attempt |-> rows[j].attempts + 1,
                                maxAttempts |-> rows[j].maxAttempts,
                                outcome |-> Null, renewing |-> TRUE]]
        /\ UNCHANGED faults

(* claimJob takes effect and throws, and so does the processor: the row is  *)
(* PROCESSING under a token that no worker knows.                           *)
ClaimJobThrows(w) ==
    /\ ExecuteClaim(w)
    /\ Settle(w, "threw")
    /\ Fault("database")

(* claimJob finds the row owned or finished: the processor throws.          *)
ClaimConflict(w) ==
    /\ worker[w].pc = "claiming"
    /\ ~Claimable(rows[worker[w].job])
    /\ Settle(w, "threw")
    /\ UNCHANGED <<rows, executions, acked, renewals, faults>> /\ WorkerOnly

(* deliverWebhook returns or throws.                                        *)
DeliverWebhook(w, answer) ==
    /\ worker[w].pc = "delivering"
    /\ worker' = [worker EXCEPT ![w].pc = "recording", ![w].outcome = answer]
    /\ acked' = IF answer = "OK" THEN acked \cup {worker[w].job} ELSE acked
    /\ UNCHANGED <<rows, executions, renewals, faults>> /\ WorkerOnly

(* isRetryableHttpStatus and the constructor calls of deliverWebhook.       *)
Retryable(outcome) == outcome \in {"HTTP_5XX", "TIMEOUT", "NETWORK_ERROR"}

(* diagnoseFailure.                                                         *)
diagnoseFailure(outcome) ==
    IF outcome = "DB_ERROR" THEN "UNKNOWN_ERROR" ELSE outcome

(* The update that the outcome of w's execution calls for.                  *)
OutcomeUpdates(w) ==
    IF worker[w].outcome = "OK"
    THEN {SuccessUpdate(worker[w].attempt)}
    ELSE FailureUpdates(worker[w].attempt, worker[w].maxAttempts,
                        Retryable(worker[w].outcome),
                        diagnoseFailure(worker[w].outcome), now)

(* completeProcessing, its fenced write and, when the fence holds it back,  *)
(* the warning.  The finally block stops the renewal timer; a failed        *)
(* delivery is thrown on.                                                   *)
CompleteProcessing(w) ==
    LET j == worker[w].job
    IN  /\ worker[w].pc = "recording"
        /\ IF OwnedBy(rows[j], worker[w].token)
           THEN \E update \in OutcomeUpdates(w) :
                  rows' = [rows EXCEPT ![j] = CompletedRow(rows[j], update)]
           ELSE rows' = rows
        /\ Settle(w, IF worker[w].outcome = "OK" THEN "resolved" ELSE "threw")
        /\ UNCHANGED <<executions, acked, renewals, faults>> /\ WorkerOnly

(* completeProcessing(SUCCEEDED) throws, before or after the write took     *)
(* effect: the catch block treats it as a failed delivery.                  *)
RecordSuccessThrows(w) ==
    LET j == worker[w].job
    IN  /\ worker[w].pc = "recording" /\ worker[w].outcome = "OK"
        /\ \/ rows' = rows
           \/ /\ OwnedBy(rows[j], worker[w].token)
              /\ \E update \in OutcomeUpdates(w) :
                   rows' = [rows EXCEPT ![j] = CompletedRow(rows[j], update)]
        /\ worker' = [worker EXCEPT ![w].outcome = "DB_ERROR"]
        /\ Fault("database")
        /\ UNCHANGED <<executions, acked, renewals>> /\ WorkerOnly

(* A statement outside the inner try throws (the SELECT, the claim, the     *)
(* write of a failure) and took no effect: the execution ends and the row   *)
(* keeps what it has.  A write of a failure that took effect leaves what    *)
(* CompleteProcessing leaves.                                               *)
ProcessorThrows(w) ==
    /\ worker[w].pc \in {"claiming", "recording"}
    /\ worker[w].outcome # "OK"
    /\ Settle(w, "threw")
    /\ Fault("database")
    /\ UNCHANGED <<rows, executions, acked, renewals>> /\ WorkerOnly

(* BullMQ moves the message to completed or failed; the slot is free.       *)
FinishMessage(w) ==
    /\ worker[w].pc \in {"resolved", "threw"}
    /\ worker' = [worker EXCEPT ![w] = IdleWorker]
    /\ UNCHANGED <<rows, executions, acked, renewals, faults>> /\ WorkerOnly

(* The process dies and is started again.                                   *)
WorkerCrash(w) ==
    /\ worker[w].pc # "idle"
    /\ worker' = [worker EXCEPT ![w] = IdleWorker]
    /\ Fault("crash")
    /\ UNCHANGED <<rows, executions, acked, renewals>> /\ WorkerOnly

(* The interval of startLeaseRenewal fires and sends renewLease.            *)
SendRenewal(w) ==
    /\ worker[w].renewing
    /\ Cardinality(renewals) < MaxInFlight /\ LeaseFits
    /\ renewals' = renewals \cup {[job |-> worker[w].job,
                                   token |-> worker[w].token,
                                   until |-> now + LeaseDuration]}
    /\ UNCHANGED <<rows, executions, acked, worker, faults>> /\ WorkerOnly

(* A renewal reaches the database, whatever its sender does by now.  When   *)
(* the fence holds it back the sender clears its timer.                     *)
RenewLease(r) ==
    /\ renewals' = renewals \ {r}
    /\ IF OwnedBy(rows[r.job], r.token)
       THEN /\ rows' = [rows EXCEPT ![r.job] = RenewedRow(rows[r.job], r.until)]
            /\ UNCHANGED worker
       ELSE /\ worker' = [w \in Workers |->
                            IF /\ worker[w].job = r.job
                               /\ worker[w].token = r.token
                            THEN [worker[w] EXCEPT !.renewing = FALSE]
                            ELSE worker[w]]
            /\ UNCHANGED rows
    /\ UNCHANGED <<executions, acked, faults>> /\ WorkerOnly

(* A renewal is lost to a database error, which is only logged.             *)
LoseRenewal(r) ==
    /\ renewals' = renewals \ {r}
    /\ Fault("database")
    /\ UNCHANGED <<rows, executions, acked, worker>> /\ WorkerOnly

-----------------------------------------------------------------------------
(* The scheduler: runCycle, that is recoverStaleJobs then runSchedulerPoll. *)

SchedulerOnly ==
    UNCHANGED <<now, executions, acked, worker, renewals, request>>

(* recoverStaleJobs' SELECT.                                                *)
SelectStale(s) ==
    /\ scheduler[s].pc = "polling" /\ scheduler[s].due = {}
    /\ scheduler' =
         [scheduler EXCEPT
            ![s].pc = "recovering",
            ![s].stale = {[job |-> j, attempts |-> rows[j].attempts,
                           maxAttempts |-> rows[j].maxAttempts] :
                            j \in {i \in Jobs : staleCondition(rows[i], now)}}]
    /\ UNCHANGED <<rows, faults>> /\ SchedulerOnly

(* The SELECT throws: runCycle logs it and goes on to the poll.             *)
SelectStaleThrows(s) ==
    /\ scheduler[s].pc = "polling" /\ scheduler[s].due = {}
    /\ scheduler' = [scheduler EXCEPT ![s].pc = "recovering"]
    /\ Fault("scheduler")
    /\ UNCHANGED rows /\ SchedulerOnly

(* One job of the batch: the update is computed from the row as it was      *)
(* selected, and written if the row is stale now.                           *)
RecoverStaleJob(s, job) ==
    LET j == job.job
        attempts == ChargedAttempts(job.attempts)
    IN  /\ scheduler[s].pc = "recovering"
        /\ job \in scheduler[s].stale
        /\ \E update \in FailureUpdates(attempts, job.maxAttempts, TRUE,
                                        "WORKER_CRASH", now) :
             rows' = IF /\ isValidTransition("PROCESSING", update.status)
                        /\ staleCondition(rows[j], now)
                     THEN [rows EXCEPT ![j] = RecoveredRow(rows[j], update)]
                     ELSE rows
        /\ scheduler' = [scheduler EXCEPT ![s].stale = @ \ {job}]
        /\ UNCHANGED faults /\ SchedulerOnly

(* The UPDATE throws: the job is skipped in this cycle.  One that took      *)
(* effect leaves what RecoverStaleJob leaves.                               *)
RecoverStaleJobThrows(s, job) ==
    /\ scheduler[s].pc = "recovering"
    /\ job \in scheduler[s].stale
    /\ scheduler' = [scheduler EXCEPT ![s].stale = @ \ {job}]
    /\ Fault("scheduler")
    /\ UNCHANGED rows /\ SchedulerOnly

(* The SELECT of the poll: the BatchSize earliest due jobs.                 *)
DueBatch(batch) ==
    LET due == {j \in Jobs : dueCondition(rows[j], now)}
    IN  /\ batch \subseteq due
        /\ Cardinality(batch) <= BatchSize
        /\ batch # due => Cardinality(batch) = BatchSize
        /\ \A i \in batch, j \in due \ batch : DueAt(rows[i]) <= DueAt(rows[j])

SelectDue(s) ==
    /\ scheduler[s].pc = "recovering" /\ scheduler[s].stale = {}
    /\ \E batch \in SUBSET Jobs :
         /\ DueBatch(batch)
         /\ scheduler' =
              [scheduler EXCEPT
                 ![s].pc = "polling",
                 ![s].due = {[job |-> j, status |-> rows[j].status] :
                               j \in batch}]
    /\ UNCHANGED <<rows, faults>> /\ SchedulerOnly

(* One job of the batch: the guarded claim compares the status only.  A     *)
(* job that another process has moved on is skipped.                        *)
QueueDueJob(s, job) ==
    LET j == job.job
    IN  /\ scheduler[s].pc = "polling"
        /\ job \in scheduler[s].due
        /\ IF /\ isValidTransition(job.status, "QUEUED")
              /\ rows[j].status = job.status
           THEN /\ rows' = [rows EXCEPT ![j] = QueuedRow(rows[j])]
                /\ scheduler' = [scheduler EXCEPT ![s].pc = "enqueueing",
                                                  ![s].due = @ \ {job},
                                                  ![s].job = j]
           ELSE /\ scheduler' = [scheduler EXCEPT ![s].due = @ \ {job}]
                /\ UNCHANGED rows
        /\ UNCHANGED faults /\ SchedulerOnly

(* The guarded claim throws: the job is skipped in this poll.  One that     *)
(* took effect leaves what QueueDueJob leaves and an add that fails.        *)
QueueDueJobThrows(s, job) ==
    /\ scheduler[s].pc = "polling"
    /\ job \in scheduler[s].due
    /\ scheduler' = [scheduler EXCEPT ![s].due = @ \ {job}]
    /\ Fault("scheduler")
    /\ UNCHANGED rows /\ SchedulerOnly

(* enqueueWebhookDelivery returns or throws: the scheduler goes on with the *)
(* rest of its batch either way.                                            *)
Enqueue(s) ==
    /\ scheduler[s].pc = "enqueueing"
    /\ scheduler' = [scheduler EXCEPT ![s].pc = "polling", ![s].job = Null]
    /\ UNCHANGED faults \/ Fault("scheduler_redis")
    /\ UNCHANGED rows /\ SchedulerOnly

(* The process dies, or the SELECT of the poll throws, which ends the cycle.*)
SchedulerCrash(s) ==
    /\ scheduler[s] # IdleScheduler
    /\ scheduler' = [scheduler EXCEPT ![s] = IdleScheduler]
    /\ Fault("scheduler")
    /\ UNCHANGED rows /\ SchedulerOnly

-----------------------------------------------------------------------------
(* The API: POST /jobs/:id/retry.                                           *)

RequestOnly ==
    UNCHANGED <<now, executions, acked, worker, renewals, scheduler>>

(* retriggerDeadJob succeeds; a row that is not DEAD is a 409.              *)
RetriggerDeadJob(a, j) ==
    /\ request[a].pc = "idle"
    /\ isValidTransition("DEAD", "QUEUED")
    /\ Retriggerable(rows[j])
    /\ rows' = [rows EXCEPT ![j] = RetriggeredRow(rows[j])]
    /\ request' = [request EXCEPT ![a] = [pc |-> "removing", job |-> j]]
    /\ UNCHANGED faults /\ RequestOnly

(* enqueueRetriggeredJob: getJob and remove,                                *)
RemoveStaleRecord(a) ==
    /\ request[a].pc = "removing"
    /\ request' = [request EXCEPT ![a].pc = "enqueueing"]
    /\ UNCHANGED <<rows, faults>> /\ RequestOnly

(* then add: 200.                                                           *)
EnqueueRetriggered(a) ==
    /\ request[a].pc = "enqueueing"
    /\ request' = [request EXCEPT ![a] = IdleRequest]
    /\ UNCHANGED <<rows, faults>> /\ RequestOnly

(* Either call throws: the record is locked, or Redis fails and may or may  *)
(* not have done what it was asked.                                         *)
EnqueueRetriggeredThrows(a) ==
    /\ request[a].pc \in {"removing", "enqueueing"}
    /\ request' = [request EXCEPT ![a].pc = "compensating"]
    /\ UNCHANGED faults \/ Fault("request_redis")
    /\ UNCHANGED rows /\ RequestOnly

(* The compensating UPDATE, guarded by the status only: 500.                *)
Compensate(a) ==
    LET j == request[a].job
    IN  /\ request[a].pc = "compensating"
        /\ rows' = IF Compensable(rows[j])
                   THEN [rows EXCEPT ![j] = CompensatedRow(rows[j])]
                   ELSE rows
        /\ request' = [request EXCEPT ![a] = IdleRequest]
        /\ UNCHANGED faults /\ RequestOnly

(* The process dies, or the compensating UPDATE throws.                     *)
RequestCrash(a) ==
    /\ request[a].pc # "idle"
    /\ request' = [request EXCEPT ![a] = IdleRequest]
    /\ Fault("request")
    /\ UNCHANGED rows /\ RequestOnly

-----------------------------------------------------------------------------
WorkerNext(w) ==
    \/ \E j \in Jobs : FetchMessage(w, j)
    \/ ClaimJob(w)
    \/ ClaimJobThrows(w)
    \/ ClaimConflict(w)
    \/ \E answer \in Answers : DeliverWebhook(w, answer)
    \/ CompleteProcessing(w)
    \/ RecordSuccessThrows(w)
    \/ ProcessorThrows(w)
    \/ FinishMessage(w)
    \/ WorkerCrash(w)
    \/ SendRenewal(w)

RenewalNext(r) == RenewLease(r) \/ LoseRenewal(r)

SchedulerNext(s) ==
    \/ SelectStale(s)
    \/ SelectStaleThrows(s)
    \/ \E job \in scheduler[s].stale :
         RecoverStaleJob(s, job) \/ RecoverStaleJobThrows(s, job)
    \/ SelectDue(s)
    \/ \E job \in scheduler[s].due :
         QueueDueJob(s, job) \/ QueueDueJobThrows(s, job)
    \/ Enqueue(s)
    \/ SchedulerCrash(s)

RequestNext(a) ==
    \/ \E j \in Jobs : RetriggerDeadJob(a, j)
    \/ RemoveStaleRecord(a)
    \/ EnqueueRetriggered(a)
    \/ EnqueueRetriggeredThrows(a)
    \/ Compensate(a)
    \/ RequestCrash(a)

Next ==
    \/ Tick
    \/ \E w \in Workers : WorkerNext(w)
    \/ \E r \in renewals : RenewalNext(r)
    \/ \E s \in Schedulers : SchedulerNext(s)
    \/ \E a \in Requests : RequestNext(a)

Spec == Init /\ [][Next]_vars

(* Fairness for the statement that no lease is held for ever: time passes   *)
(* and a scheduler keeps cycling (loop in apps/scheduler/src/index.ts).     *)
(* Nothing is asked of the workers: they may all have died.                 *)
SchedulerWork(s) ==
    \/ SelectStale(s)
    \/ \E job \in scheduler[s].stale : RecoverStaleJob(s, job)
    \/ SelectDue(s)
    \/ \E job \in scheduler[s].due : QueueDueJob(s, job)
    \/ Enqueue(s)

RecoverySpec ==
    /\ Spec
    /\ WF_vars(Tick)
    /\ \A s \in Schedulers : WF_vars(SchedulerWork(s))

-----------------------------------------------------------------------------
(* Properties.                                                              *)

TypeOK ==
    /\ now \in 0 .. MaxTime
    /\ rows \in [Jobs -> Row]
    /\ executions \in [Jobs -> Nat]
    /\ acked \subseteq Jobs
    /\ worker \in [Workers -> WorkerState]
    /\ renewals \subseteq Renewal
    /\ scheduler \in [Schedulers -> SchedulerState]
    /\ request \in [Requests -> RequestState]
    /\ faults \in 0 .. MaxFaults

(* A row has a lease exactly while it is PROCESSING, with both its columns. *)
(* A PROCESSING row without lease_until would never be stale, so recovery   *)
(* (staleCondition) could never free it; a lease left on a row that is not  *)
(* PROCESSING would let an old token match again.                           *)
LeaseIffProcessing ==
    \A j \in Jobs :
      /\ rows[j].status = "PROCESSING" <=> rows[j].leaseToken # Null
      /\ rows[j].status = "PROCESSING" <=> rows[j].leaseUntil # Null

(* Worker w is executing job j under token t.                               *)
Executes(w, j, t) ==
    /\ worker[w].pc \in {"delivering", "recording"}
    /\ worker[w].job = j
    /\ worker[w].token = t

(* However many workers are executing the same job (a slow one whose lease  *)
(* was recovered, one that got a replayed message), at most one of them     *)
(* holds the token of the row: lease.ts, "the token ... identifies which    *)
(* execution attempt currently owns the row".                               *)
ExclusiveOwner ==
    \A j \in Jobs : \A v, w \in Workers :
      /\ Executes(v, j, rows[j].leaseToken)
      /\ Executes(w, j, rows[j].leaseToken)
      => v = w

(* What a worker read at its claim and uses after the delivery is still     *)
(* what its row says, as long as its token is the row's: recording the      *)
(* outcome charges exactly one attempt.                                     *)
OwnerIsCurrent ==
    \A j \in Jobs : \A w \in Workers :
      Executes(w, j, rows[j].leaseToken) =>
        /\ rows[j].status = "PROCESSING"
        /\ worker[w].attempt = rows[j].attempts + 1
        /\ worker[w].maxAttempts = rows[j].maxAttempts

(* No row is charged an attempt that did not run: whatever recovery,        *)
(* completion and re-trigger do to a row, its attempts never pass the       *)
(* number of times it was claimed, the one in progress not counted.         *)
NoPhantomAttempt ==
    \A j \in Jobs :
      IF rows[j].status = "PROCESSING"
      THEN rows[j].attempts < executions[j]
      ELSE rows[j].attempts <= executions[j]

(* A row that waits for a retry has attempts left and a time at which       *)
(* dueCondition will find it, whichever of worker and recovery put it there.*)
RetryingHasBudget ==
    \A j \in Jobs :
      rows[j].status = "RETRYING" =>
        /\ rows[j].attempts < rows[j].maxAttempts
        /\ rows[j].nextAttemptAt # Null

(* The diagnosis columns say why: a RETRYING or DEAD row has an error code, *)
(* a SUCCEEDED one has none (schema/jobs.ts, "Set by the worker/recovery    *)
(* whenever a job lands in RETRYING or DEAD, cleared on SUCCEEDED").  The   *)
(* compensation writes DEAD without a code and relies on the earlier one.   *)
DiagnosisKept ==
    \A j \in Jobs :
      /\ rows[j].status \in {"RETRYING", "DEAD"} => rows[j].lastErrorCode # Null
      /\ rows[j].status = "SUCCEEDED" => rows[j].lastErrorCode = Null

(* SUCCEEDED is final: no late completion, renewal, recovery, replayed      *)
(* message, re-trigger or compensation touches the row again.               *)
SucceededIsFinal ==
    [][\A j \in Jobs : rows[j].status = "SUCCEEDED" => rows'[j] = rows[j]]_vars

(* Whatever was read earlier and whoever writes, a status changes only by a *)
(* declared transition, by a claim or by the compensation of an enqueue     *)
(* that failed (state-machine.ts; lease.ts, claimJob; dlq.ts).  JobApi and  *)
(* Dashboard move their rows accordingly.                                   *)
StatusMovesAllowed ==
    [][\A j \in Jobs : \/ rows'[j].status = rows[j].status
                       \/ Movable(rows[j].status, rows'[j].status)]_vars

(* A lease that has not expired is ended by nobody but the worker that      *)
(* holds its token, when it records its outcome: recovery.ts re-checks the  *)
(* lease in its UPDATE for the workers that renewed or finished in between. *)
LiveLeaseRespected ==
    [][\A j \in Jobs :
         /\ rows[j].status = "PROCESSING" /\ rows[j].leaseUntil >= now
         /\ rows'[j].leaseToken # rows[j].leaseToken
         => \E w \in Workers :
              /\ worker[w].pc = "recording"
              /\ Executes(w, j, rows[j].leaseToken)
              /\ worker'[w] # worker[w]]_vars

(* No row stays PROCESSING for ever under one lease, even when every worker *)
(* has died: recovery finds it.                                             *)
LeaseEnds ==
    \A j \in Jobs : \A t \in 1 .. MaxExecutions :
      rows[j].leaseToken = t ~> rows[j].leaseToken # t

-----------------------------------------------------------------------------
(* The refinement of JobLedger.                                             *)

PhaseOf(row) ==
    CASE row.status \in {"PENDING", "QUEUED", "RETRYING"} -> "waiting"
      [] row.status = "PROCESSING" -> "running"
      [] row.status = "SUCCEEDED" -> "succeeded"
      [] row.status = "DEAD" -> "dead"

Ledger == INSTANCE JobLedger WITH
            phase <- [j \in Jobs |-> PhaseOf(rows[j])],
            run <- executions,
            delivered <- acked

(* The processes together keep the promise of JobLedger.                    *)
ImplementsLedger == Ledger!LedgerSpec
=============================================================================
