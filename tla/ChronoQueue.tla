----------------------------- MODULE ChronoQueue -----------------------------
(***************************************************************************)
(* The whole system: the processes of JobLifecycle and the BullMQ queue    *)
(* "webhook-delivery" between them.  The queue is a library, modelled from *)
(* how the code uses it: add with the row's id as jobId and no options (so *)
(* one attempt per message, and completed and failed records are kept),    *)
(* getJob and remove on a re-trigger, and a Worker with default options.   *)
(*                                                                         *)
(* Each action is an action of JobLifecycle together with what it does to  *)
(* the queue, so every behaviour here is one of JobLifecycle.              *)
(***************************************************************************)
EXTENDS JobLifecycle

VARIABLE bull   \* bull[j]: the BullMQ record whose id is row j's

qvars == <<vars, bull>>

(* lock is the worker slot that took the message; stalled tells whether the *)
(* record has been found stalled before (maxStalledCount is 1).             *)
Record ==
    [state : {"absent", "waiting", "active", "completed", "failed"},
     lock : Workers \cup {Null}, stalled : BOOLEAN]

Rec(state, lock, stalled) ==
    [state |-> state, lock |-> lock, stalled |-> stalled]

Absent == Rec("absent", Null, FALSE)

QInit == Init /\ bull = [j \in Jobs |-> Absent]

-----------------------------------------------------------------------------
(* The queue's operations.                                                  *)

Set(j, record) == bull' = [bull EXCEPT ![j] = record]

(* Slips, see JobTable: the message is added with a delay; the record of    *)
(* the earlier attempt is left in place.                                    *)
SlipAdd(j) ==
    IF bull[j].state = "absent" THEN Set(j, Rec("delayed", Null, FALSE))
                                ELSE UNCHANGED bull
SlipRemove(j) == bull[j].state # "active" /\ UNCHANGED bull

(* Queue.add: a record with the same id, in whatever state, makes it a      *)
(* silent no-op.                                                            *)
Add(j) ==
    IF bull[j].state = "absent" THEN Set(j, Rec("waiting", Null, FALSE))
                                ELSE UNCHANGED bull

(* The worker that took the message still has it.                           *)
Held(j) ==
    /\ bull[j].state = "active"
    /\ worker[bull[j].lock].job = j

(* Job.remove, which throws on a locked record; the lock of a dead worker   *)
(* lasts for a while.                                                       *)
Remove(j) ==
    /\ ~Held(j)
    /\ Set(j, Absent)

(* moveToCompleted and moveToFailed need the lock.                          *)
Finish(w, state) ==
    LET j == worker[w].job
    IN  IF bull[j].state = "active" /\ bull[j].lock = w
        THEN Set(j, Rec(state, Null, bull[j].stalled))
        ELSE UNCHANGED bull

-----------------------------------------------------------------------------
QFetchMessage(w, j) ==
    /\ bull[j].state = "waiting"
    /\ FetchMessage(w, j)
    /\ Set(j, Rec("active", w, bull[j].stalled))

QFinishMessage(w) ==
    /\ FinishMessage(w)
    /\ Finish(w, IF worker[w].pc = "resolved" THEN "completed" ELSE "failed")

(* The stalled checker: a message whose worker died, or was too slow to     *)
(* extend its lock, is handed out again once and then fails.                *)
Stall(j) ==
    /\ bull[j].state = "active"
    /\ Held(j) => "stall" \in Faulty
    /\ Set(j, IF bull[j].stalled THEN Rec("failed", Null, TRUE)
                                 ELSE Rec("waiting", Null, TRUE))
    /\ UNCHANGED vars

QEnqueue(s) ==
    LET j == scheduler[s].job
    IN  /\ Enqueue(s)
        /\ Add(j) \/ (faults' # faults /\ UNCHANGED bull)

QRemoveStaleRecord(a) ==
    /\ RemoveStaleRecord(a)
    /\ Remove(request[a].job)

QEnqueueRetriggered(a) ==
    /\ EnqueueRetriggered(a)
    /\ Add(request[a].job)

(* Redis fails (and the call may have taken effect) or the record is locked.*)
QEnqueueRetriggeredThrows(a) ==
    LET j == request[a].job
    IN  /\ EnqueueRetriggeredThrows(a)
        /\ \/ /\ faults' # faults
              /\ \/ UNCHANGED bull
                 \/ request[a].pc = "removing" /\ Remove(j)
                 \/ request[a].pc = "enqueueing" /\ Add(j)
           \/ /\ faults' = faults
              /\ request[a].pc = "removing" /\ bull[j].state = "active"
              /\ UNCHANGED bull

QWorkerNext(w) ==
    \/ \E j \in Jobs : QFetchMessage(w, j)
    \/ QFinishMessage(w)
    \/ /\ \/ ClaimJob(w)
          \/ ClaimJobThrows(w)
          \/ ClaimConflict(w)
          \/ \E answer \in Answers : DeliverWebhook(w, answer)
          \/ CompleteProcessing(w)
          \/ RecordSuccessThrows(w)
          \/ ProcessorThrows(w)
          \/ WorkerCrash(w)
          \/ SendRenewal(w)
       /\ UNCHANGED bull

QSchedulerNext(s) ==
    \/ QEnqueue(s)
    \/ /\ \/ SelectStale(s)
          \/ SelectStaleThrows(s)
          \/ \E job \in scheduler[s].stale :
               RecoverStaleJob(s, job) \/ RecoverStaleJobThrows(s, job)
          \/ SelectDue(s)
          \/ \E job \in scheduler[s].due :
               QueueDueJob(s, job) \/ QueueDueJobThrows(s, job)
          \/ SchedulerCrash(s)
       /\ UNCHANGED bull

QRequestNext(a) ==
    \/ QRemoveStaleRecord(a)
    \/ QEnqueueRetriggered(a)
    \/ QEnqueueRetriggeredThrows(a)
    \/ /\ \/ \E j \in Jobs : RetriggerDeadJob(a, j)
          \/ Compensate(a)
          \/ RequestCrash(a)
       /\ UNCHANGED bull

QNext ==
    \/ Tick /\ UNCHANGED bull
    \/ \E w \in Workers : QWorkerNext(w)
    \/ \E r \in renewals : RenewalNext(r) /\ UNCHANGED bull
    \/ \E s \in Schedulers : QSchedulerNext(s)
    \/ \E a \in Requests : QRequestNext(a)
    \/ \E j \in Jobs : Stall(j)

QSpec == QInit /\ [][QNext]_qvars

-----------------------------------------------------------------------------
QTypeOK == TypeOK /\ bull \in [Jobs -> Record]

(* Someone is between the UPDATE that made row j QUEUED and the end of its  *)
(* enqueue or compensation.                                                 *)
BeingEnqueued(j) ==
    \/ \E s \in Schedulers : scheduler[s].job = j
    \/ \E a \in Requests : request[a].job = j

(* A QUEUED row that nobody is enqueueing has a message that will drive it. *)
(* The comment on enqueueRetriggeredJob names the alternative: the job      *)
(* "would sit in QUEUED forever with no BullMQ message to drive it".        *)
QueuedIsDriven ==
    \A j \in Jobs :
      rows[j].status = "QUEUED" /\ ~BeingEnqueued(j) =>
        bull[j].state \in {"waiting", "active"}

(* BullMQ has a record only for a job that the scheduler has queued; no     *)
(* message, however late or repeated, can start a job before its time.      *)
MessageOnlyOnceQueued ==
    \A j \in Jobs : bull[j].state # "absent" => rows[j].status # "PENDING"

(* No job is executed more often than max_attempts allows, as long as no    *)
(* operator re-triggers it, however its workers crash (README.md: "This     *)
(* prevents infinite delivery attempts").                                   *)
ExecutionBudget ==
    \A j \in Jobs : executions[j] <= rows[j].maxAttempts

(* The compensation of one request never undoes the re-trigger that another *)
(* has just made (jobs-retry-compensation.test.ts: "the compensation can    *)
(* never kill a newer legitimate execution attempt").                       *)
CompensationKeepsNewer ==
    [][\A a, b \in Requests :
         /\ request[a].pc = "compensating" /\ request'[a].pc = "idle"
         /\ b # a /\ request[b].pc \in {"removing", "enqueueing"}
         /\ request[b].job = request[a].job
         => rows' = rows]_qvars

(* Every execution is charged: a row that is not PROCESSING has as many     *)
(* attempts as it had executions (recovery.ts: "a crash is treated as an    *)
(* incomplete attempt, not a free pass").                                   *)
EveryExecutionCharged ==
    \A j \in Jobs :
      rows[j].status # "PROCESSING" => rows[j].attempts = executions[j]

(* The execution that delivered the webhook does not end its job as DEAD,   *)
(* "permanently failed" (README.md).                                        *)
DeliveredNotDead ==
    [][\A j \in Jobs : \A w \in Workers :
         /\ Executes(w, j, rows[j].leaseToken)
         /\ worker[w].outcome \in {"OK", "DB_ERROR"}
         /\ worker'[w].pc # "recording"
         => rows'[j].status # "DEAD"]_qvars

-----------------------------------------------------------------------------
(* Liveness.  Time is let pass only while somebody waits for it, so that a  *)
(* bounded clock is enough; every process that is up keeps working, BullMQ  *)
(* hands out its messages and its stalled checker runs.  Faults are never   *)
(* required to happen.                                                      *)

TimeIsAwaited ==
    \E j \in Jobs :
      \/ rows[j].status = "PENDING" /\ rows[j].scheduledAt > now
      \/ rows[j].status = "RETRYING" /\ rows[j].nextAttemptAt > now
      \/ /\ rows[j].status = "PROCESSING"
         /\ rows[j].leaseUntil # Null
         /\ rows[j].leaseUntil >= now

PacedTick == TimeIsAwaited /\ Tick /\ UNCHANGED bull

QWorkerWork(w) ==
    \/ \E j \in Jobs : QFetchMessage(w, j)
    \/ QFinishMessage(w)
    \/ /\ \/ ClaimJob(w)
          \/ ClaimConflict(w)
          \/ \E answer \in Answers : DeliverWebhook(w, answer)
          \/ CompleteProcessing(w)
       /\ UNCHANGED bull

QSchedulerWork(s) ==
    QEnqueue(s) \/ (SchedulerWork(s) /\ UNCHANGED bull)

PacedSpec ==
    /\ QInit
    /\ [][QNext /\ (now' # now => TimeIsAwaited)]_qvars
    /\ WF_qvars(PacedTick)
    /\ \A w \in Workers : WF_qvars(QWorkerWork(w))
    /\ \A s \in Schedulers : WF_qvars(QSchedulerWork(s))
    /\ \A j \in Jobs : WF_qvars(~Held(j) /\ Stall(j))

(* Every job ends SUCCEEDED or DEAD.                                        *)
EveryJobEnds ==
    \A j \in Jobs : <>(rows[j].status \in {"SUCCEEDED", "DEAD"})
=============================================================================
