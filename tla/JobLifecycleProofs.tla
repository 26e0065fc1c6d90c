------------------------- MODULE JobLifecycleProofs -------------------------
(***************************************************************************)
(* The safety properties of JobLifecycle, proved for every set of jobs,    *)
(* workers, schedulers and requests, every timing constant and every       *)
(* bound.  The inductive invariant has four layers: TypeInv, FenceInv,     *)
(* ChargeInv and DiagnosisInv.                                             *)
(***************************************************************************)
EXTENDS JobLifecycleTypes

-----------------------------------------------------------------------------
(* What a step does to the table.  Every step writes one row at most, by    *)
(* one of the statements of JobTable, and only a claim starts an execution. *)

(* No execution begins, and those in progress keep what the claim read.     *)
KeepsExecutions ==
    /\ executions' = executions
    /\ \A w \in Workers :
         ExecutingPC(worker'[w]) =>
           /\ ExecutingPC(worker[w])
           /\ worker'[w].job = worker[w].job
           /\ worker'[w].token = worker[w].token
           /\ worker'[w].attempt = worker[w].attempt
           /\ worker'[w].maxAttempts = worker[w].maxAttempts

Writes(j, row) == rows' = [rows EXCEPT ![j] = row] /\ KeepsExecutions

WritesNothing == rows' = rows /\ KeepsExecutions

Completes(w) ==
    /\ worker[w].pc = "recording" /\ worker'[w] # worker[w]
    /\ OwnedBy(rows[worker[w].job], worker[w].token)
    /\ \E update \in OutcomeUpdates(w) :
         Writes(worker[w].job, CompletedRow(rows[worker[w].job], update))

Recovers(job) ==
    /\ staleCondition(rows[job.job], now)
    /\ \E update \in FailureUpdates(ChargedAttempts(job.attempts),
                                    job.maxAttempts, TRUE, "WORKER_CRASH", now) :
         Writes(job.job, CompletedRow(rows[job.job], update))

Renews(r) ==
    /\ OwnedBy(rows[r.job], r.token)
    /\ Writes(r.job, RenewedRow(rows[r.job], r.until))

ForScheduler(j) ==
    \E s \in Schedulers : scheduler'[s].pc = "enqueueing" /\ scheduler'[s].job = j

ForRequest(j) ==
    \E a \in Requests : request'[a].pc = "removing" /\ request'[a].job = j

Queues(j) ==
    /\ rows[j].status \in {"PENDING", "RETRYING"} /\ ForScheduler(j)
    /\ Writes(j, QueuedRow(rows[j]))

Retriggers(j) ==
    /\ rows[j].status = "DEAD" /\ ForRequest(j)
    /\ Writes(j, RetriggeredRow(rows[j]))

Compensates(a) ==
    /\ request[a].pc = "compensating"
    /\ rows[request[a].job].status = "QUEUED"
    /\ Writes(request[a].job, CompensatedRow(rows[request[a].job]))

(* A claim, whether or not its answer arrives.                              *)
Claims(w) == ClaimJob(w) \/ ClaimJobThrows(w)

Statement ==
    \/ WritesNothing
    \/ \E w \in Workers : Claims(w) \/ Completes(w)
    \/ \E r \in renewals : Renews(r)
    \/ \E s \in Schedulers : \E job \in scheduler[s].stale : Recovers(job)
    \/ \E j \in Jobs : Queues(j) \/ Retriggers(j)
    \/ \E a \in Requests : Compensates(a)

(* A process that only waits, or a worker that ends, keeps the executions.  *)
LEMMA SameWorkers ==
    ASSUME TypeInv, executions' = executions,
           \/ worker' = worker
           \/ \E w \in Workers, k \in WorkerState :
                /\ worker' = [worker EXCEPT ![w] = k]
                /\ ~ExecutingPC(k)
    PROVE  KeepsExecutions
  BY DEF KeepsExecutions, TypeInv, TypeOK

(* A settled worker executes nothing.                                       *)
LEMMA SettleKeeps ==
    ASSUME TypeInv, NEW w \in Workers, worker[w].pc # "idle",
           NEW promise \in {"resolved", "threw"}, Settle(w, promise),
           executions' = executions
    PROVE  KeepsExecutions /\ (worker[w].pc = "recording" => worker'[w] # worker[w])
<1>. DEFINE k == [IdleWorker EXCEPT !.pc = promise, !.job = worker[w].job]
<1>1. worker[w].job \in Jobs /\ worker' = [worker EXCEPT ![w] = k]
  BY DEF Settle, TypeInv, WorkerOK, ConsistentWorker
<1>2. k \in WorkerState
  BY <1>1, SettledWorkers
<1>3. k.pc = promise
  BY DEF IdleWorker
<1>4. ~ExecutingPC(k)
  BY <1>3 DEF ExecutingPC
<1>5. worker'[w] = k
  BY <1>1 DEF TypeInv, TypeOK
<1>. HIDE DEF k
<1>. QED
  BY <1>1, <1>2, <1>3, <1>4, <1>5, SameWorkers

(* A worker's step is a claim, a completion, or writes nothing.             *)
LEMMA WorkerStatement ==
    ASSUME TypeInv, NEW w \in Workers, WorkerNext(w)
    PROVE  WritesNothing \/ Claims(w) \/ Completes(w)
<1>0. /\ worker \in [Workers -> WorkerState] /\ worker[w] \in WorkerState
      /\ ConsistentWorker(worker[w]) /\ rows \in [Jobs -> Row]
  BY DEF TypeInv, TypeOK, WorkerOK
<1>1. CASE \E j \in Jobs : FetchMessage(w, j)
  <2>1. PICK j \in Jobs : FetchMessage(w, j)
    BY <1>1
  <2>. DEFINE k == [worker[w] EXCEPT !.pc = "claiming", !.job = j]
  <2>2. worker' = [worker EXCEPT ![w] = k]
    BY <1>0, <2>1 DEF FetchMessage
  <2>3. k \in WorkerState /\ ~ExecutingPC(k)
    BY <1>0 DEF WorkerState, ExecutingPC
  <2>. QED
    BY <2>1, <2>2, <2>3, SameWorkers DEF FetchMessage, WritesNothing
<1>2. CASE ClaimConflict(w)
  BY <1>2, SettleKeeps DEF ClaimConflict, WritesNothing
<1>3. CASE \E answer \in Answers : DeliverWebhook(w, answer)
  <2>1. PICK answer \in Answers : DeliverWebhook(w, answer)
    BY <1>3
  <2>2. worker' = [worker EXCEPT ![w] = [worker[w] EXCEPT !.pc = "recording",
                                                         !.outcome = answer]]
    BY <1>0, <2>1 DEF DeliverWebhook
  <2>. QED
    BY <1>0, <2>1, <2>2
    DEF DeliverWebhook, WritesNothing, KeepsExecutions, ExecutingPC, WorkerState
<1>4. CASE CompleteProcessing(w)
  <2>1. KeepsExecutions /\ worker'[w] # worker[w]
    BY <1>4, SettleKeeps DEF CompleteProcessing
  <2>2. CASE OwnedBy(rows[worker[w].job], worker[w].token)
    BY <1>4, <2>1, <2>2 DEF CompleteProcessing, Completes, Writes
  <2>3. CASE ~OwnedBy(rows[worker[w].job], worker[w].token)
    BY <1>4, <2>1, <2>3 DEF CompleteProcessing, WritesNothing
  <2>. QED
    BY <2>2, <2>3
<1>5. CASE RecordSuccessThrows(w)
  <2>1. worker' = [worker EXCEPT ![w] = [worker[w] EXCEPT !.outcome = "DB_ERROR"]]
    BY <1>0, <1>5 DEF RecordSuccessThrows
  <2>2. KeepsExecutions
    BY <1>0, <1>5, <2>1
    DEF RecordSuccessThrows, KeepsExecutions, ExecutingPC, WorkerState
  <2>3. worker'[w] # worker[w]
    <3>1. worker[w].outcome = "OK" /\ worker'[w].outcome = "DB_ERROR"
      BY <1>0, <1>5, <2>1 DEF RecordSuccessThrows, WorkerState
    <3>. QED
      BY <3>1
  <2>. QED
    BY <1>5, <2>2, <2>3 DEF RecordSuccessThrows, WritesNothing, Completes, Writes
<1>6. CASE ProcessorThrows(w)
  BY <1>6, SettleKeeps DEF ProcessorThrows, WritesNothing
<1>7. CASE FinishMessage(w) \/ WorkerCrash(w)
  <2>1. worker' = [worker EXCEPT ![w] = IdleWorker]
    BY <1>7 DEF FinishMessage, WorkerCrash
  <2>2. IdleWorker \in WorkerState /\ ~ExecutingPC(IdleWorker)
    BY SettledWorkers DEF IdleWorker, ExecutingPC
  <2>. QED
    BY <1>7, <2>1, <2>2, SameWorkers DEF FinishMessage, WorkerCrash, WritesNothing
<1>8. CASE SendRenewal(w)
  BY <1>8, SameWorkers DEF SendRenewal, WritesNothing
<1>. QED
  BY <1>1, <1>2, <1>3, <1>4, <1>5, <1>6, <1>7, <1>8 DEF WorkerNext, Claims

(* Every step runs one statement.                                           *)
LEMMA StepIsStatement ==
    ASSUME TypeInv, [Next]_vars
    PROVE  Statement
<1>1. CASE Tick \/ UNCHANGED vars
  BY <1>1, SameWorkers DEF Tick, vars, Statement, WritesNothing
<1>2. CASE \E w \in Workers : WorkerNext(w)
  BY <1>2, WorkerStatement DEF Statement
<1>3. ASSUME NEW r \in renewals, RenewalNext(r)
      PROVE  WritesNothing \/ Renews(r)
  <2>1. KeepsExecutions
    <3>1. executions' = executions
      BY <1>3 DEF RenewalNext, RenewLease, LoseRenewal
    <3>2. CASE worker' = worker
      BY <3>1, <3>2, SameWorkers
    <3>3. CASE worker' = [w \in Workers |->
                            IF worker[w].job = r.job /\ worker[w].token = r.token
                            THEN [worker[w] EXCEPT !.renewing = FALSE]
                            ELSE worker[w]]
      <4>1. ASSUME NEW w \in Workers
            PROVE  /\ worker'[w].pc = worker[w].pc
                   /\ worker'[w].job = worker[w].job
                   /\ worker'[w].token = worker[w].token
                   /\ worker'[w].attempt = worker[w].attempt
                   /\ worker'[w].maxAttempts = worker[w].maxAttempts
        <5>1. worker[w] \in WorkerState
          BY DEF TypeInv, TypeOK
        <5>2. \/ worker'[w] = worker[w]
              \/ worker'[w] = [worker[w] EXCEPT !.renewing = FALSE]
          BY <3>3
        <5>. QED
          BY <5>1, <5>2 DEF WorkerState
      <4>. QED
        BY <3>1, <4>1 DEF KeepsExecutions, ExecutingPC
    <3>. QED
      BY <1>3, <3>2, <3>3 DEF RenewalNext, RenewLease, LoseRenewal
  <2>. QED
    BY <1>3, <2>1
    DEF RenewalNext, RenewLease, LoseRenewal, WritesNothing, Renews, Writes
<1>4. ASSUME NEW s \in Schedulers, SchedulerNext(s)
      PROVE  \/ WritesNothing
             \/ \E job \in scheduler[s].stale : Recovers(job)
             \/ \E j \in Jobs : Queues(j)
  <2>1. KeepsExecutions
    BY <1>4, SameWorkers
    DEF SchedulerNext, SelectStale, SelectStaleThrows, RecoverStaleJob,
        RecoverStaleJobThrows, SelectDue, QueueDueJob, QueueDueJobThrows,
        Enqueue, SchedulerCrash, SchedulerOnly
  <2>2. CASE \E job \in scheduler[s].stale : RecoverStaleJob(s, job)
    BY <2>1, <2>2 DEF RecoverStaleJob, WritesNothing, Recovers, RecoveredRow, Writes
  <2>3. CASE \E job \in scheduler[s].due : QueueDueJob(s, job)
    <3>1. PICK job \in scheduler[s].due : QueueDueJob(s, job)
      BY <2>3
    <3>2. CASE isValidTransition(job.status, "QUEUED") /\ rows[job.job].status = job.status
      <4>1. job.job \in Jobs /\ job.status \in {"PENDING", "RETRYING"}
        BY DEF TypeInv, TypeOK, SchedulerState, DueJob
      <4>2. scheduler'[s].pc = "enqueueing" /\ scheduler'[s].job = job.job
        BY <3>1, <3>2 DEF QueueDueJob, TypeInv, TypeOK, SchedulerState
      <4>. QED
        BY <2>1, <3>1, <3>2, <4>1, <4>2 DEF QueueDueJob, Queues, ForScheduler, Writes
    <3>3. CASE ~(isValidTransition(job.status, "QUEUED") /\ rows[job.job].status = job.status)
      BY <2>1, <3>1, <3>3 DEF QueueDueJob, WritesNothing
    <3>. QED
      BY <3>2, <3>3
  <2>4. CASE \/ SelectStale(s) \/ SelectStaleThrows(s) \/ SelectDue(s)
             \/ Enqueue(s) \/ SchedulerCrash(s)
             \/ \E job \in scheduler[s].stale : RecoverStaleJobThrows(s, job)
             \/ \E job \in scheduler[s].due : QueueDueJobThrows(s, job)
    BY <2>1, <2>4
    DEF SelectStale, SelectStaleThrows, RecoverStaleJobThrows, SelectDue,
        QueueDueJobThrows, Enqueue, SchedulerCrash, WritesNothing
  <2>. QED
    BY <1>4, <2>2, <2>3, <2>4 DEF SchedulerNext
<1>5. ASSUME NEW a \in Requests, RequestNext(a)
      PROVE  \/ WritesNothing \/ Compensates(a)
             \/ \E j \in Jobs : Retriggers(j)
  <2>1. KeepsExecutions
    BY <1>5, SameWorkers
    DEF RequestNext, RetriggerDeadJob, RemoveStaleRecord, EnqueueRetriggered,
        EnqueueRetriggeredThrows, Compensate, RequestCrash, RequestOnly
  <2>2. ASSUME NEW j \in Jobs, RetriggerDeadJob(a, j)
        PROVE  request'[a].pc = "removing" /\ request'[a].job = j
    BY <2>2 DEF RetriggerDeadJob, TypeInv, TypeOK
  <2>. QED
    BY <1>5, <2>1, <2>2
    DEF RequestNext, RetriggerDeadJob, RemoveStaleRecord, EnqueueRetriggered,
        EnqueueRetriggeredThrows, Compensate, RequestCrash, WritesNothing,
        Compensates, Retriggers, ForRequest, Writes, Retriggerable, Compensable
<1>. QED
  BY <1>1, <1>2, <1>3, <1>4, <1>5 DEF Next, Statement
-----------------------------------------------------------------------------
(* The second layer: the fence.  The token of a running row is the newest   *)
(* one given out for it, executions of one row hold different tokens, and   *)
(* the execution that holds the row's token knows the row's counters.       *)

TokenIsNewest ==
    \A j \in Jobs : rows[j].status = "PROCESSING" => rows[j].leaseToken = executions[j]

TokensAreOld ==
    \A w \in Workers :
      ExecutingPC(worker[w]) => worker[w].token <= executions[worker[w].job]

TokensDiffer ==
    \A v, w \in Workers :
      /\ ExecutingPC(worker[v]) /\ ExecutingPC(worker[w])
      /\ worker[v].job = worker[w].job /\ worker[v].token = worker[w].token
      => v = w

FenceInv ==
    /\ LeaseIffProcessing /\ TokenIsNewest /\ TokensAreOld /\ TokensDiffer
    /\ OwnerIsCurrent

(* The fence before anything has happened.                                  *)
LEMMA FenceInit == Init => FenceInv
<1>. SUFFICES ASSUME Init PROVE FenceInv
  OBVIOUS
<1>1. \A w \in Workers : worker[w].pc = "idle"
  BY DEF Init, IdleWorker
<1>2. \A j \in Jobs : /\ rows[j].status = "PENDING"
                      /\ rows[j].leaseToken = Null
                      /\ rows[j].leaseUntil = Null
  BY DEF Init, NewRow
<1>. QED
  BY <1>1, <1>2
  DEF FenceInv, LeaseIffProcessing, TokenIsNewest, TokensAreOld, TokensDiffer,
      OwnerIsCurrent, Executes, ExecutingPC

(* A statement that gives the lease back, or leaves the lease's token and   *)
(* the counters alone, keeps the fence.                                     *)
LEMMA FenceWrite ==
    ASSUME TypeInv, FenceInv, NEW j \in Jobs, NEW row \in Row, Writes(j, row),
           \/ /\ row.status # "PROCESSING"
              /\ row.leaseToken = Null /\ row.leaseUntil = Null
           \/ /\ row.status = "PROCESSING" /\ rows[j].status = "PROCESSING"
              /\ row.leaseToken = rows[j].leaseToken /\ row.leaseUntil # Null
              /\ row.attempts = rows[j].attempts
              /\ row.maxAttempts = rows[j].maxAttempts
    PROVE  FenceInv'
<1>1. /\ rows \in [Jobs -> Row] /\ executions' = executions
      /\ rows'[j] = row
      /\ \A i \in Jobs \ {j} : rows'[i] = rows[i]
  BY DEF Writes, KeepsExecutions, TypeInv, TypeOK
<1>2. LeaseIffProcessing'
  BY <1>1 DEF FenceInv, LeaseIffProcessing
<1>3. TokenIsNewest'
  BY <1>1 DEF FenceInv, TokenIsNewest
<1>4. TokensAreOld' /\ TokensDiffer'
  BY <1>1 DEF FenceInv, TokensAreOld, TokensDiffer, Writes, KeepsExecutions
<1>5. OwnerIsCurrent'
  <2>. SUFFICES ASSUME NEW i \in Jobs, NEW w \in Workers,
                       Executes(w, i, rows[i].leaseToken)'
                PROVE  /\ rows'[i].status = "PROCESSING"
                       /\ worker'[w].attempt = rows'[i].attempts + 1
                       /\ worker'[w].maxAttempts = rows'[i].maxAttempts
    BY DEF OwnerIsCurrent
  <2>1. /\ ExecutingPC(worker[w]) /\ worker[w].job = i
        /\ worker[w].token = rows'[i].leaseToken
        /\ worker'[w].attempt = worker[w].attempt
        /\ worker'[w].maxAttempts = worker[w].maxAttempts
    BY DEF Executes, ExecutingPC, Writes, KeepsExecutions
  <2>2. worker[w].token # Null
    BY <2>1, NullAssumption DEF TypeInv, WorkerOK, ConsistentWorker
  <2>3. /\ rows'[i].leaseToken = rows[i].leaseToken
        /\ rows'[i].status = rows[i].status
        /\ rows'[i].attempts = rows[i].attempts
        /\ rows'[i].maxAttempts = rows[i].maxAttempts
    BY <1>1, <2>1, <2>2
  <2>4. Executes(w, i, rows[i].leaseToken)
    BY <2>1, <2>3 DEF Executes, ExecutingPC
  <2>. QED
    BY <2>1, <2>3, <2>4 DEF FenceInv, OwnerIsCurrent
<1>. QED
  BY <1>2, <1>3, <1>4, <1>5 DEF FenceInv

(* A claim gives out a token that no execution of the row has had.          *)
LEMMA FenceClaim ==
    ASSUME TypeInv, FenceInv, NEW w \in Workers, Claims(w)
    PROVE  FenceInv'
<1>. DEFINE j == worker[w].job
            token == executions[j] + 1
<1>0. ExecuteClaim(w)
  BY DEF Claims, ClaimJob, ClaimJobThrows
<1>1. /\ rows \in [Jobs -> Row] /\ executions \in [Jobs -> Nat]
      /\ j \in Jobs /\ rows[j] \in Row /\ executions[j] \in Nat /\ now \in Nat
      /\ worker \in [Workers -> WorkerState]
  BY <1>0 DEF ExecuteClaim, TypeInv, TypeOK, WorkerOK, ConsistentWorker
<1>2. /\ executions'[j] = token
      /\ \A i \in Jobs \ {j} : executions'[i] = executions[i]
      /\ \A i \in Jobs \ {j} : rows'[i] = rows[i]
  BY <1>0, <1>1 DEF ExecuteClaim
<1>3. rows'[j] = ClaimedRow(rows[j], token, now)
  BY <1>0, <1>1 DEF ExecuteClaim, FreshToken
<1>4. /\ rows'[j].status = "PROCESSING"
      /\ rows'[j].leaseToken = token
      /\ rows'[j].leaseUntil = now + LeaseDuration
      /\ rows'[j].attempts = rows[j].attempts
      /\ rows'[j].maxAttempts = rows[j].maxAttempts
  BY <1>1, <1>3 DEF ClaimedRow, Row
<1>5. token # Null /\ now + LeaseDuration # Null
  BY <1>1, LeaseAssumption, NullAssumption
<1>6. /\ ExecutingPC(worker'[w]) =>
           /\ worker'[w].job = j /\ worker'[w].token = token
           /\ worker'[w].attempt = rows[j].attempts + 1
           /\ worker'[w].maxAttempts = rows[j].maxAttempts
      /\ \A v \in Workers \ {w} : worker'[v] = worker[v]
  <2>1. CASE ClaimJob(w)
    BY <1>1, <2>1 DEF ClaimJob, FreshToken
  <2>2. CASE ClaimJobThrows(w)
    BY <1>1, <2>2 DEF ClaimJobThrows, Settle, IdleWorker, ExecutingPC
  <2>. QED
    BY <2>1, <2>2 DEF Claims
<1>7. \A v \in Workers : ExecutingPC(worker[v]) =>
        worker[v].job \in Jobs /\ worker[v].token \in Nat
  BY DEF TypeInv, WorkerOK, ConsistentWorker, ExecutingPC
<1>8. \A v \in Workers \ {w} :
        ExecutingPC(worker[v]) /\ worker[v].job = j => worker[v].token < token
  BY <1>1, <1>7 DEF FenceInv, TokensAreOld
<1>9. LeaseIffProcessing' /\ TokenIsNewest'
  BY <1>2, <1>4, <1>5 DEF FenceInv, LeaseIffProcessing, TokenIsNewest
<1>10. TokensAreOld'
  <2>. SUFFICES ASSUME NEW v \in Workers, ExecutingPC(worker'[v])
                PROVE  worker'[v].token <= executions'[worker'[v].job]
    BY DEF TokensAreOld
  <2>1. CASE v = w
    BY <1>1, <1>2, <1>6, <2>1
  <2>2. CASE v # w
    <3>1. worker'[v] = worker[v] /\ worker[v].job \in Jobs /\ worker[v].token \in Nat
      BY <1>6, <1>7, <2>2
    <3>2. worker[v].token <= executions[worker[v].job]
      BY <3>1 DEF FenceInv, TokensAreOld
    <3>. QED
      BY <1>1, <1>2, <3>1, <3>2
  <2>. QED
    BY <2>1, <2>2
<1>11. TokensDiffer'
  <2>. SUFFICES ASSUME NEW u \in Workers, NEW v \in Workers,
                       ExecutingPC(worker'[u]), ExecutingPC(worker'[v]),
                       worker'[u].job = worker'[v].job,
                       worker'[u].token = worker'[v].token
                PROVE  u = v
    BY DEF TokensDiffer
  <2>1. CASE u # w /\ v # w
    BY <1>6, <2>1 DEF FenceInv, TokensDiffer
  <2>2. CASE u = w /\ v # w
    BY <1>1, <1>6, <1>7, <1>8, <2>2
  <2>3. CASE u # w /\ v = w
    BY <1>1, <1>6, <1>7, <1>8, <2>3
  <2>. QED
    BY <2>1, <2>2, <2>3
<1>12. OwnerIsCurrent'
  <2>. SUFFICES ASSUME NEW i \in Jobs, NEW v \in Workers,
                       Executes(v, i, rows[i].leaseToken)'
                PROVE  /\ rows'[i].status = "PROCESSING"
                       /\ worker'[v].attempt = rows'[i].attempts + 1
                       /\ worker'[v].maxAttempts = rows'[i].maxAttempts
    BY DEF OwnerIsCurrent
  <2>1. ExecutingPC(worker'[v]) /\ worker'[v].job = i
        /\ worker'[v].token = rows'[i].leaseToken
    BY DEF Executes, ExecutingPC
  <2>2. CASE v = w
    BY <1>4, <1>6, <2>1, <2>2
  <2>3. CASE v # w
    <3>1. worker'[v] = worker[v]
      BY <1>6, <2>3
    <3>2. i # j
      BY <1>1, <1>4, <1>7, <1>8, <2>1, <2>3, <3>1
    <3>3. rows'[i] = rows[i]
      BY <1>2, <3>2
    <3>4. Executes(v, i, rows[i].leaseToken)
      BY <2>1, <3>1, <3>3 DEF Executes, ExecutingPC
    <3>. QED
      BY <3>1, <3>3, <3>4 DEF FenceInv, OwnerIsCurrent
  <2>. QED
    BY <2>2, <2>3
<1>. QED
  BY <1>9, <1>10, <1>11, <1>12 DEF FenceInv

(* What the statements write, column by column.                             *)
LEMMA WrittenColumns ==
    ASSUME NEW row \in Row
    PROVE  /\ \A update \in Update :
                LET r == CompletedRow(row, update)
                IN  /\ r \in Row
                    /\ r.status = update.status /\ r.attempts = update.attempts
                    /\ r.nextAttemptAt = update.nextAttemptAt
                    /\ r.lastErrorCode = update.lastErrorCode
                    /\ r.maxAttempts = row.maxAttempts
                    /\ r.leaseToken = Null /\ r.leaseUntil = Null
                    /\ r.status # "PROCESSING"
           /\ \A until \in Nat :
                LET r == RenewedRow(row, until)
                IN  /\ r \in Row
                    /\ r.status = row.status /\ r.attempts = row.attempts
                    /\ r.nextAttemptAt = row.nextAttemptAt
                    /\ r.lastErrorCode = row.lastErrorCode
                    /\ r.maxAttempts = row.maxAttempts
                    /\ r.leaseToken = row.leaseToken /\ r.leaseUntil = until
           /\ \A r \in {QueuedRow(row), RetriggeredRow(row), CompensatedRow(row)} :
                /\ r \in Row
                /\ r.attempts = row.attempts
                /\ r.lastErrorCode = row.lastErrorCode
                /\ r.maxAttempts = row.maxAttempts
                /\ r.leaseToken = row.leaseToken /\ r.leaseUntil = row.leaseUntil
           /\ QueuedRow(row).status = "QUEUED"
           /\ RetriggeredRow(row).status = "QUEUED"
           /\ CompensatedRow(row).status = "DEAD"
<1>1. \A update \in Update : CompletedRow(row, update) \in Row
  BY CompletedRowType
<1>2. \A until \in Nat : RenewedRow(row, until) \in Row
  BY RenewedRowType
<1>3. ASSUME NEW update \in Update
      PROVE  LET r == CompletedRow(row, update)
             IN  /\ r.status = update.status /\ r.attempts = update.attempts
                 /\ r.nextAttemptAt = update.nextAttemptAt
                 /\ r.lastErrorCode = update.lastErrorCode
                 /\ r.maxAttempts = row.maxAttempts
                 /\ r.leaseToken = Null /\ r.leaseUntil = Null
                 /\ r.status # "PROCESSING"
  BY DEF CompletedRow, Row, Update
<1>4. ASSUME NEW until \in Nat
      PROVE  LET r == RenewedRow(row, until)
             IN  /\ r.status = row.status /\ r.attempts = row.attempts
                 /\ r.nextAttemptAt = row.nextAttemptAt
                 /\ r.lastErrorCode = row.lastErrorCode
                 /\ r.maxAttempts = row.maxAttempts
                 /\ r.leaseToken = row.leaseToken /\ r.leaseUntil = until
  BY DEF RenewedRow, Row
<1>5. \A r \in {QueuedRow(row), RetriggeredRow(row), CompensatedRow(row)} :
        /\ r.attempts = row.attempts
        /\ r.lastErrorCode = row.lastErrorCode
        /\ r.maxAttempts = row.maxAttempts
        /\ r.leaseToken = row.leaseToken /\ r.leaseUntil = row.leaseUntil
  BY DEF QueuedRow, RetriggeredRow, CompensatedRow, Row
<1>6. /\ QueuedRow(row).status = "QUEUED"
      /\ RetriggeredRow(row).status = "QUEUED"
      /\ CompensatedRow(row).status = "DEAD"
  BY DEF QueuedRow, RetriggeredRow, CompensatedRow, Row
<1>. QED
  BY <1>1, <1>2, <1>3, <1>4, <1>5, <1>6, OtherRowTypes

(* The fence is kept by every step.                                         *)
LEMMA FenceStep == TypeInv /\ FenceInv /\ [Next]_vars => FenceInv'
<1>. SUFFICES ASSUME TypeInv, FenceInv, [Next]_vars PROVE FenceInv'
  OBVIOUS
<1>0. /\ \A j \in Jobs : rows[j] \in Row
      /\ \A w \in Workers : worker[w].pc # "idle" => worker[w].job \in Jobs
      /\ renewals \subseteq Renewal /\ now \in Nat
      /\ \A s \in Schedulers : scheduler[s].stale \subseteq StaleJob
      /\ \A a \in Requests : request[a].pc # "idle" => request[a].job \in Jobs
  BY DEF TypeInv, TypeOK, WorkerOK, ConsistentWorker, SchedulerState, RequestOK
<1>1. CASE WritesNothing
  BY <1>1
  DEF WritesNothing, KeepsExecutions, FenceInv, LeaseIffProcessing,
      TokenIsNewest, TokensAreOld, TokensDiffer, OwnerIsCurrent, Executes,
      ExecutingPC
<1>2. ASSUME NEW w \in Workers, Claims(w) PROVE FenceInv'
  BY <1>2, FenceClaim
<1>3. ASSUME NEW w \in Workers, Completes(w) PROVE FenceInv'
  <2>1. PICK update \in OutcomeUpdates(w) :
          Writes(worker[w].job, CompletedRow(rows[worker[w].job], update))
    BY <1>3 DEF Completes
  <2>2. worker[w].pc = "recording" /\ worker[w].job \in Jobs
    BY <1>0, <1>3 DEF Completes
  <2>3. update \in Update
    BY <2>2, OutcomeUpdateFacts
  <2>. QED
    BY <1>0, <2>1, <2>2, <2>3, FenceWrite, WrittenColumns
<1>4. ASSUME NEW s \in Schedulers, NEW job \in scheduler[s].stale, Recovers(job)
      PROVE  FenceInv'
  <2>1. job \in StaleJob /\ job.job \in Jobs
    BY <1>0 DEF StaleJob
  <2>2. PICK update \in FailureUpdates(ChargedAttempts(job.attempts),
                                       job.maxAttempts, TRUE, "WORKER_CRASH", now) :
          Writes(job.job, CompletedRow(rows[job.job], update))
    BY <1>4 DEF Recovers
  <2>3. update \in Update
    BY <2>1, RecoveryUpdateFacts
  <2>. QED
    BY <1>0, <2>1, <2>2, <2>3, FenceWrite, WrittenColumns
<1>5. ASSUME NEW r \in renewals, Renews(r) PROVE FenceInv'
  <2>1. r.job \in Jobs /\ r.until \in Nat /\ r.until # Null
    BY <1>0, NullAssumption DEF Renewal
  <2>. DEFINE row == RenewedRow(rows[r.job], r.until)
  <2>2. rows[r.job].status = "PROCESSING" /\ Writes(r.job, row)
    BY <1>5 DEF Renews, OwnedBy
  <2>3. /\ row \in Row
        /\ row.status = rows[r.job].status /\ row.attempts = rows[r.job].attempts
        /\ row.maxAttempts = rows[r.job].maxAttempts
        /\ row.leaseToken = rows[r.job].leaseToken /\ row.leaseUntil = r.until
    BY <1>0, <2>1, WrittenColumns
  <2>. HIDE DEF row
  <2>. QED
    BY <2>1, <2>2, <2>3, FenceWrite
<1>6. ASSUME NEW j \in Jobs, NEW row \in {QueuedRow(rows[j]), RetriggeredRow(rows[j]),
                                         CompensatedRow(rows[j])},
             rows[j].status # "PROCESSING", Writes(j, row)
      PROVE  FenceInv'
  <2>1. rows[j].leaseToken = Null /\ rows[j].leaseUntil = Null
    BY <1>6 DEF FenceInv, LeaseIffProcessing
  <2>2. row \in Row /\ row.status # "PROCESSING" /\ row.leaseToken = Null
        /\ row.leaseUntil = Null
    BY <1>0, <2>1, WrittenColumns
  <2>. QED
    BY <1>6, <2>2, FenceWrite
<1>7. ASSUME NEW j \in Jobs, Queues(j) \/ Retriggers(j) PROVE FenceInv'
  BY <1>6, <1>7 DEF Queues, Retriggers
<1>8. ASSUME NEW a \in Requests, Compensates(a) PROVE FenceInv'
  BY <1>0, <1>6, <1>8 DEF Compensates
<1>. QED
  BY <1>1, <1>2, <1>3, <1>4, <1>5, <1>7, <1>8, StepIsStatement DEF Statement
-----------------------------------------------------------------------------
(* What a step does to one row, column by column.                           *)

SameCounters(j) ==
    /\ rows'[j].attempts = rows[j].attempts
    /\ rows'[j].lastErrorCode = rows[j].lastErrorCode

RowKept(j) == rows'[j] = rows[j] /\ executions'[j] = executions[j]

RowClaimed(j) ==
    /\ rows[j].status \in CLAIMABLE_STATUSES
    /\ rows'[j].status = "PROCESSING"
    /\ executions'[j] = executions[j] + 1
    /\ SameCounters(j)

RowRenewed(j) ==
    /\ rows[j].status = "PROCESSING" /\ rows'[j].status = "PROCESSING"
    /\ rows'[j].leaseToken = rows[j].leaseToken
    /\ executions'[j] = executions[j]
    /\ SameCounters(j)

RowQueued(j) ==
    /\ \/ rows[j].status \in {"PENDING", "RETRYING"} /\ ForScheduler(j)
       \/ rows[j].status = "DEAD" /\ ForRequest(j)
    /\ rows'[j].status = "QUEUED"
    /\ executions'[j] = executions[j]
    /\ SameCounters(j)

RowRevoked(j) ==
    /\ rows[j].status = "QUEUED" /\ rows'[j].status = "DEAD"
    /\ \E a \in Requests : request[a].pc = "compensating" /\ request[a].job = j
    /\ executions'[j] = executions[j]
    /\ SameCounters(j)

(* The execution of the row ends: its attempts become attempts, and it is   *)
(* RETRYING only if that is below maxAttempts.                              *)
RowEnded(j, attempts, maxAttempts) ==
    /\ rows[j].status = "PROCESSING"
    /\ rows'[j].status \in {"SUCCEEDED", "RETRYING", "DEAD"}
    /\ executions'[j] = executions[j]
    /\ rows'[j].attempts = attempts
    /\ rows'[j].status = "SUCCEEDED" <=> rows'[j].lastErrorCode = Null
    /\ rows'[j].status = "RETRYING" =>
         attempts < maxAttempts /\ rows'[j].nextAttemptAt # Null

RowCompleted(j) ==
    \E w \in Workers :
      /\ worker[w].pc = "recording" /\ worker'[w] # worker[w]
      /\ Executes(w, j, rows[j].leaseToken)
      /\ rows'[j].status = "SUCCEEDED" => worker[w].outcome = "OK"
      /\ RowEnded(j, worker[w].attempt, worker[w].maxAttempts)

RowRecovered(j) ==
    \E s \in Schedulers : \E job \in scheduler[s].stale :
      /\ job.job = j
      /\ rows[j].leaseUntil < now
      /\ rows'[j].status # "SUCCEEDED"
      /\ RowEnded(j, job.attempts + 1, job.maxAttempts)

RowStep(j) ==
    /\ rows'[j].maxAttempts = rows[j].maxAttempts
    /\ \/ RowKept(j) \/ RowClaimed(j) \/ RowRenewed(j) \/ RowQueued(j)
       \/ RowRevoked(j) \/ RowCompleted(j) \/ RowRecovered(j)

(* The rows that a statement does not name are kept.                        *)
LEMMA OtherRowsKept ==
    ASSUME TypeInv, NEW j \in Jobs, NEW row, Writes(j, row),
           NEW i \in Jobs \ {j}
    PROVE  RowStep(i)
  BY DEF Writes, KeepsExecutions, TypeInv, TypeOK, RowStep, RowKept

(* The row that an ending statement names.                                  *)
LEMMA EndedRow ==
    ASSUME TypeInv, NEW j \in Jobs, rows[j].status = "PROCESSING",
           NEW update \in Update, NEW maxAttempts,
           Writes(j, CompletedRow(rows[j], update)),
           update.status = "SUCCEEDED" <=> update.lastErrorCode = Null,
           update.status = "RETRYING" =>
             update.attempts < maxAttempts /\ update.nextAttemptAt \in Nat
    PROVE  /\ rows'[j].maxAttempts = rows[j].maxAttempts
           /\ rows'[j].status = update.status
           /\ RowEnded(j, update.attempts, maxAttempts)
<1>1. rows \in [Jobs -> Row] /\ rows[j] \in Row
  BY DEF TypeInv, TypeOK
<1>2. rows'[j] = CompletedRow(rows[j], update) /\ executions' = executions
  BY <1>1 DEF Writes, KeepsExecutions
<1>3. /\ rows'[j].status = update.status /\ rows'[j].attempts = update.attempts
      /\ rows'[j].nextAttemptAt = update.nextAttemptAt
      /\ rows'[j].lastErrorCode = update.lastErrorCode
      /\ rows'[j].maxAttempts = rows[j].maxAttempts
  BY <1>1, <1>2, WrittenColumns
<1>4. update.status \in {"SUCCEEDED", "RETRYING", "DEAD"}
  BY DEF Update
<1>. QED
  BY <1>2, <1>3, <1>4, NullAssumption DEF RowEnded

(* Every step is one of these for every row.                                *)
LEMMA RowSteps ==
    ASSUME TypeInv, [Next]_vars, NEW i \in Jobs
    PROVE  RowStep(i)
<1>0. /\ rows \in [Jobs -> Row] /\ \A j \in Jobs : rows[j] \in Row
      /\ executions \in [Jobs -> Nat]
      /\ \A w \in Workers : worker[w].pc # "idle" => worker[w].job \in Jobs
      /\ renewals \subseteq Renewal /\ now \in Nat
      /\ \A s \in Schedulers : scheduler[s].stale \subseteq StaleJob
      /\ \A a \in Requests : request[a].pc # "idle" => request[a].job \in Jobs
  BY DEF TypeInv, TypeOK, WorkerOK, ConsistentWorker, SchedulerState, RequestOK
<1>1. CASE WritesNothing
  BY <1>1 DEF WritesNothing, KeepsExecutions, RowStep, RowKept
<1>2. ASSUME NEW w \in Workers, Claims(w) PROVE RowStep(i)
  <2>. DEFINE j == worker[w].job
  <2>1. /\ j \in Jobs /\ Claimable(rows[j])
        /\ rows' = [rows EXCEPT ![j] = ClaimedRow(rows[j], FreshToken(j), now)]
        /\ executions' = [executions EXCEPT ![j] = @ + 1]
    BY <1>0, <1>2 DEF Claims, ClaimJob, ClaimJobThrows, ExecuteClaim
  <2>2. CASE i = j
    <3>1. rows'[i] = ClaimedRow(rows[i], FreshToken(i), now)
      BY <1>0, <2>1, <2>2
    <3>. QED
      BY <1>0, <2>1, <2>2, <3>1
      DEF RowStep, RowClaimed, SameCounters, Claimable, ClaimedRow, Row
  <2>3. CASE i # j
    BY <1>0, <2>1, <2>3 DEF RowStep, RowKept
  <2>. QED
    BY <2>2, <2>3
<1>3. ASSUME NEW w \in Workers, Completes(w) PROVE RowStep(i)
  <2>. DEFINE j == worker[w].job
  <2>1. PICK update \in OutcomeUpdates(w) :
          Writes(j, CompletedRow(rows[j], update))
    BY <1>3 DEF Completes
  <2>2. /\ worker[w].pc = "recording" /\ worker'[w] # worker[w] /\ j \in Jobs
        /\ rows[j].status = "PROCESSING"
        /\ Executes(w, j, rows[j].leaseToken)
    BY <1>0, <1>3 DEF Completes, OwnedBy, Executes
  <2>3. /\ update \in Update
        /\ update.attempts = worker[w].attempt
        /\ update.status = "SUCCEEDED" <=> worker[w].outcome = "OK"
        /\ update.status = "SUCCEEDED" <=> update.lastErrorCode = Null
        /\ update.status = "RETRYING" =>
             /\ update.attempts < worker[w].maxAttempts
             /\ update.nextAttemptAt \in Nat
    BY <2>2, OutcomeUpdateFacts
  <2>4. /\ rows'[j].maxAttempts = rows[j].maxAttempts
        /\ rows'[j].status = update.status
        /\ RowEnded(j, worker[w].attempt, worker[w].maxAttempts)
    BY <2>1, <2>2, <2>3, EndedRow
  <2>5. RowStep(j)
    BY <2>2, <2>3, <2>4 DEF RowStep, RowCompleted
  <2>. QED
    BY <2>1, <2>2, <2>5, OtherRowsKept
<1>4. ASSUME NEW s \in Schedulers, NEW job \in scheduler[s].stale, Recovers(job)
      PROVE  RowStep(i)
  <2>. DEFINE j == job.job
  <2>1. job \in StaleJob /\ j \in Jobs
    BY <1>0 DEF StaleJob
  <2>2. PICK update \in FailureUpdates(ChargedAttempts(job.attempts),
                                       job.maxAttempts, TRUE, "WORKER_CRASH", now) :
          Writes(j, CompletedRow(rows[j], update))
    BY <1>4 DEF Recovers
  <2>3. rows[j].status = "PROCESSING" /\ rows[j].leaseUntil < now
    BY <1>4 DEF Recovers, staleCondition
  <2>4. /\ update \in Update
        /\ update.status \in {"RETRYING", "DEAD"}
        /\ update.attempts = job.attempts + 1
        /\ update.lastErrorCode # Null
        /\ update.status = "RETRYING" =>
             update.attempts < job.maxAttempts /\ update.nextAttemptAt \in Nat
    BY <2>1, RecoveryUpdateFacts
  <2>5. /\ rows'[j].maxAttempts = rows[j].maxAttempts
        /\ rows'[j].status = update.status
        /\ RowEnded(j, job.attempts + 1, job.maxAttempts)
    BY <2>1, <2>2, <2>3, <2>4, EndedRow
  <2>6. RowStep(j)
    BY <2>3, <2>4, <2>5 DEF RowStep, RowRecovered
  <2>. QED
    BY <2>1, <2>2, <2>6, OtherRowsKept
<1>5. ASSUME NEW r \in renewals, Renews(r) PROVE RowStep(i)
  <2>1. r.job \in Jobs /\ r.until \in Nat
    BY <1>0 DEF Renewal
  <2>. DEFINE row == RenewedRow(rows[r.job], r.until)
  <2>2. rows[r.job].status = "PROCESSING" /\ Writes(r.job, row)
    BY <1>5 DEF Renews, OwnedBy
  <2>3. /\ row.status = rows[r.job].status /\ row.attempts = rows[r.job].attempts
        /\ row.maxAttempts = rows[r.job].maxAttempts
        /\ row.lastErrorCode = rows[r.job].lastErrorCode
        /\ row.leaseToken = rows[r.job].leaseToken
    BY <1>0, <2>1, WrittenColumns
  <2>. HIDE DEF row
  <2>4. rows'[r.job] = row /\ executions' = executions
    BY <1>0, <2>1, <2>2 DEF Writes, KeepsExecutions
  <2>5. RowStep(r.job)
    BY <2>2, <2>3, <2>4 DEF RowStep, RowRenewed, SameCounters
  <2>. QED
    BY <2>1, <2>2, <2>5, OtherRowsKept
<1>6. ASSUME NEW j \in Jobs, Queues(j) PROVE RowStep(i)
  <2>1. /\ Writes(j, QueuedRow(rows[j]))
        /\ rows[j].status \in {"PENDING", "RETRYING"} /\ ForScheduler(j)
    BY <1>6 DEF Queues
  <2>2. rows'[j] = QueuedRow(rows[j]) /\ executions' = executions
    BY <1>0, <2>1 DEF Writes, KeepsExecutions
  <2>3. RowStep(j)
    BY <1>0, <2>1, <2>2, WrittenColumns DEF RowStep, RowQueued, SameCounters
  <2>. QED
    BY <2>1, <2>3, OtherRowsKept
<1>7. ASSUME NEW j \in Jobs, Retriggers(j) PROVE RowStep(i)
  <2>1. /\ Writes(j, RetriggeredRow(rows[j]))
        /\ rows[j].status = "DEAD" /\ ForRequest(j)
    BY <1>7 DEF Retriggers
  <2>2. rows'[j] = RetriggeredRow(rows[j]) /\ executions' = executions
    BY <1>0, <2>1 DEF Writes, KeepsExecutions
  <2>3. RowStep(j)
    BY <1>0, <2>1, <2>2, WrittenColumns DEF RowStep, RowQueued, SameCounters
  <2>. QED
    BY <2>1, <2>3, OtherRowsKept
<1>8. ASSUME NEW a \in Requests, Compensates(a) PROVE RowStep(i)
  <2>. DEFINE j == request[a].job
  <2>1. /\ Writes(j, CompensatedRow(rows[j])) /\ rows[j].status = "QUEUED"
        /\ request[a].pc = "compensating" /\ j \in Jobs
    BY <1>0, <1>8 DEF Compensates
  <2>2. rows'[j] = CompensatedRow(rows[j]) /\ executions' = executions
    BY <1>0, <2>1 DEF Writes, KeepsExecutions
  <2>3. /\ rows'[j].status = "DEAD" /\ SameCounters(j)
        /\ rows'[j].maxAttempts = rows[j].maxAttempts
    BY <1>0, <2>1, <2>2 DEF CompensatedRow, Row, SameCounters
  <2>4. RowStep(j)
    BY <2>1, <2>2, <2>3 DEF RowStep, RowRevoked
  <2>. QED
    BY <2>1, <2>4, OtherRowsKept
<1>. QED
  BY <1>1, <1>2, <1>3, <1>4, <1>5, <1>6, <1>7, <1>8, StepIsStatement DEF Statement
-----------------------------------------------------------------------------
(* The third layer: what is charged.  A recovery that has selected a row    *)
(* writes the counters of its snapshot, so the snapshots are part of it.    *)

SnapshotsSound ==
    \A s \in Schedulers : \A job \in scheduler[s].stale :
      /\ job.attempts < executions[job.job]
      /\ job.maxAttempts = rows[job.job].maxAttempts

ChargeInv == NoPhantomAttempt /\ RetryingHasBudget /\ SnapshotsSound

(* Nothing is charged before the first claim.                               *)
LEMMA ChargeInit == Init => ChargeInv
<1>. SUFFICES ASSUME Init PROVE ChargeInv
  OBVIOUS
<1>1. \A j \in Jobs : /\ rows[j].status = "PENDING" /\ rows[j].attempts = 0
                      /\ executions[j] = 0
  BY DEF Init, NewRow
<1>2. \A s \in Schedulers : scheduler[s].stale = {}
  BY DEF Init, IdleScheduler
<1>. QED
  BY <1>1, <1>2 DEF ChargeInv, NoPhantomAttempt, RetryingHasBudget, SnapshotsSound

(* Only a scheduler's own steps change what it is doing.                    *)
LEMMA SchedulersOwnSteps ==
    ASSUME [Next]_vars
    PROVE  scheduler' = scheduler \/ \E t \in Schedulers : SchedulerNext(t)
<1>1. ASSUME NEW w \in Workers, WorkerNext(w) PROVE scheduler' = scheduler
  BY <1>1
  DEF WorkerNext, FetchMessage, ExecuteClaim, ClaimJob, ClaimJobThrows, ClaimConflict, DeliverWebhook,
      CompleteProcessing, RecordSuccessThrows, ProcessorThrows,
      FinishMessage, WorkerCrash, SendRenewal, WorkerOnly
<1>2. ASSUME NEW r \in renewals, RenewalNext(r) PROVE scheduler' = scheduler
  BY <1>2 DEF RenewalNext, RenewLease, LoseRenewal, WorkerOnly
<1>3. ASSUME NEW a \in Requests, RequestNext(a) PROVE scheduler' = scheduler
  BY <1>3
  DEF RequestNext, RetriggerDeadJob, RemoveStaleRecord, EnqueueRetriggered,
      EnqueueRetriggeredThrows, Compensate, RequestCrash, RequestOnly
<1>. QED
  BY <1>1, <1>2, <1>3 DEF Next, Tick, vars

(* A row of a snapshot has been there before, or was stale in this step.    *)
LEMMA SnapshotOrigin ==
    ASSUME TypeInv, [Next]_vars, NEW s \in Schedulers,
           NEW job \in scheduler'[s].stale
    PROVE  \/ job \in scheduler[s].stale
           \/ /\ rows' = rows /\ executions' = executions
              /\ job.job \in Jobs /\ rows[job.job].status = "PROCESSING"
              /\ job.attempts = rows[job.job].attempts
              /\ job.maxAttempts = rows[job.job].maxAttempts
<1>0. scheduler \in [Schedulers -> SchedulerState] /\ scheduler[s] \in SchedulerState
  BY DEF TypeInv, TypeOK
<1>1. CASE scheduler' = scheduler
  BY <1>1
<1>2. ASSUME NEW t \in Schedulers, SchedulerNext(t)
      PROVE  \/ job \in scheduler[s].stale
             \/ /\ rows' = rows /\ executions' = executions
                /\ job.job \in Jobs /\ rows[job.job].status = "PROCESSING"
                /\ job.attempts = rows[job.job].attempts
                /\ job.maxAttempts = rows[job.job].maxAttempts
  <2>0. scheduler[t] \in SchedulerState
    BY <1>0
  <2>1. CASE SelectStale(t)
    <3>. DEFINE stale == {[job |-> j, attempts |-> rows[j].attempts,
                           maxAttempts |-> rows[j].maxAttempts] :
                            j \in {i \in Jobs : staleCondition(rows[i], now)}}
    <3>1. CASE s = t
      <4>1. scheduler'[s].stale = stale
        BY <1>0, <2>1, <3>1 DEF SelectStale, SchedulerState
      <4>2. PICK j \in Jobs :
              /\ staleCondition(rows[j], now)
              /\ job = [job |-> j, attempts |-> rows[j].attempts,
                        maxAttempts |-> rows[j].maxAttempts]
        BY <4>1
      <4>. QED
        BY <2>1, <4>2 DEF SelectStale, SchedulerOnly, staleCondition
    <3>2. CASE s # t
      <4>1. scheduler'[s] = scheduler[s]
        BY <1>0, <2>1, <3>2 DEF SelectStale
      <4>. QED
        BY <4>1
    <3>. QED
      BY <3>1, <3>2
  <2>2. CASE \E row \in scheduler[t].stale :
               RecoverStaleJob(t, row) \/ RecoverStaleJobThrows(t, row)
    <3>1. PICK row : scheduler' = [scheduler EXCEPT ![t].stale = @ \ {row}]
      BY <2>2 DEF RecoverStaleJob, RecoverStaleJobThrows
    <3>2. scheduler'[s].stale \subseteq scheduler[s].stale
      BY <1>0, <2>0, <3>1 DEF SchedulerState
    <3>. QED
      BY <3>2
  <2>3. CASE SelectStaleThrows(t) \/ SelectDue(t) \/ Enqueue(t)
    <3>1. scheduler'[s].stale = scheduler[s].stale
      BY <1>0, <2>0, <2>3 DEF SelectStaleThrows, SelectDue, Enqueue, SchedulerState
    <3>. QED
      BY <3>1
  <2>4. CASE \E row \in scheduler[t].due :
               QueueDueJob(t, row) \/ QueueDueJobThrows(t, row)
    <3>1. scheduler'[s].stale = scheduler[s].stale
      BY <1>0, <2>0, <2>4 DEF QueueDueJob, QueueDueJobThrows, SchedulerState
    <3>. QED
      BY <3>1
  <2>5. CASE SchedulerCrash(t)
    <3>1. scheduler'[s].stale \subseteq scheduler[s].stale
      BY <1>0, <2>0, <2>5 DEF SchedulerCrash, IdleScheduler, SchedulerState
    <3>. QED
      BY <3>1
  <2>. QED
    BY <1>2, <2>1, <2>2, <2>3, <2>4, <2>5 DEF SchedulerNext
<1>3. \/ scheduler' = scheduler
      \/ \E t \in Schedulers : SchedulerNext(t)
  BY SchedulersOwnSteps
<1>. QED
  BY <1>1, <1>2, <1>3

(* The third layer is kept by every step.                                   *)
LEMMA ChargeStep == TypeInv /\ FenceInv /\ ChargeInv /\ [Next]_vars => ChargeInv'
<1>. SUFFICES ASSUME TypeInv, FenceInv, ChargeInv, [Next]_vars PROVE ChargeInv'
  OBVIOUS
<1>0. /\ \A j \in Jobs : /\ rows[j] \in Row /\ executions[j] \in Nat
                         /\ rows[j].attempts \in Nat /\ rows[j].maxAttempts \in Nat
      /\ \A s \in Schedulers : scheduler[s].stale \subseteq StaleJob
      /\ \A job \in StaleJob : job.job \in Jobs /\ job.attempts \in Nat
  BY DEF TypeInv, TypeOK, Row, SchedulerState, StaleJob
<1>1. \A j \in Jobs : RowStep(j)
  BY RowSteps
<1>2. \A j \in Jobs : /\ rows'[j].maxAttempts = rows[j].maxAttempts
                      /\ executions'[j] = executions[j]
                           \/ executions'[j] = executions[j] + 1
  BY <1>1
  DEF RowStep, RowKept, RowClaimed, RowRenewed, RowQueued, RowRevoked,
      RowCompleted, RowRecovered, RowEnded
<1>3. SnapshotsSound'
  <2>. SUFFICES ASSUME NEW s \in Schedulers, NEW job \in scheduler'[s].stale
                PROVE  /\ job.attempts < executions'[job.job]
                       /\ job.maxAttempts = rows'[job.job].maxAttempts
    BY DEF SnapshotsSound
  <2>1. CASE job \in scheduler[s].stale
    <3>1. job.job \in Jobs /\ job.attempts \in Nat
      BY <1>0, <2>1
    <3>2. job.attempts < executions[job.job] /\ job.maxAttempts = rows[job.job].maxAttempts
      BY <2>1 DEF ChargeInv, SnapshotsSound
    <3>. QED
      BY <1>0, <1>2, <3>1, <3>2
  <2>2. CASE /\ rows' = rows /\ executions' = executions
             /\ job.job \in Jobs /\ rows[job.job].status = "PROCESSING"
             /\ job.attempts = rows[job.job].attempts
             /\ job.maxAttempts = rows[job.job].maxAttempts
    BY <2>2 DEF ChargeInv, NoPhantomAttempt
  <2>. QED
    BY <2>1, <2>2, SnapshotOrigin
<1>4. ASSUME NEW j \in Jobs
      PROVE  /\ IF rows'[j].status = "PROCESSING"
                THEN rows'[j].attempts < executions'[j]
                ELSE rows'[j].attempts <= executions'[j]
             /\ rows'[j].status = "RETRYING" =>
                  /\ rows'[j].attempts < rows'[j].maxAttempts
                  /\ rows'[j].nextAttemptAt # Null
  <2>0. /\ IF rows[j].status = "PROCESSING"
           THEN rows[j].attempts < executions[j]
           ELSE rows[j].attempts <= executions[j]
        /\ rows[j].status = "RETRYING" =>
             /\ rows[j].attempts < rows[j].maxAttempts
             /\ rows[j].nextAttemptAt # Null
    BY DEF ChargeInv, NoPhantomAttempt, RetryingHasBudget
  <2>1. CASE RowKept(j)
    BY <2>0, <2>1 DEF RowKept
  <2>2. CASE RowClaimed(j)
    BY <1>0, <2>0, <2>2 DEF RowClaimed, SameCounters, CLAIMABLE_STATUSES
  <2>3. CASE RowRenewed(j)
    BY <2>0, <2>3 DEF RowRenewed, SameCounters
  <2>4. CASE RowQueued(j)
    BY <2>0, <2>4 DEF RowQueued, SameCounters
  <2>5. CASE RowRevoked(j)
    BY <2>0, <2>5 DEF RowRevoked, SameCounters
  <2>6. CASE RowCompleted(j)
    <3>1. PICK w \in Workers :
            /\ Executes(w, j, rows[j].leaseToken)
            /\ RowEnded(j, worker[w].attempt, worker[w].maxAttempts)
      BY <2>6 DEF RowCompleted
    <3>2. /\ worker[w].attempt = rows[j].attempts + 1
          /\ worker[w].maxAttempts = rows[j].maxAttempts
      BY <3>1 DEF FenceInv, OwnerIsCurrent
    <3>. QED
      BY <1>0, <1>2, <2>0, <3>1, <3>2 DEF RowEnded
  <2>7. CASE RowRecovered(j)
    <3>0. PICK s \in Schedulers : \E job \in scheduler[s].stale :
            job.job = j /\ RowEnded(j, job.attempts + 1, job.maxAttempts)
      BY <2>7 DEF RowRecovered
    <3>1. PICK job \in scheduler[s].stale :
            job.job = j /\ RowEnded(j, job.attempts + 1, job.maxAttempts)
      BY <3>0
    <3>2. job.attempts \in Nat
      BY <1>0
    <3>3. job.attempts < executions[j] /\ job.maxAttempts = rows[j].maxAttempts
      BY <3>1 DEF ChargeInv, SnapshotsSound
    <3>. QED
      BY <1>0, <1>2, <3>1, <3>2, <3>3 DEF RowEnded
  <2>. QED
    BY <1>1, <2>1, <2>2, <2>3, <2>4, <2>5, <2>6, <2>7 DEF RowStep
<1>. QED
  BY <1>3, <1>4 DEF ChargeInv, NoPhantomAttempt, RetryingHasBudget

-----------------------------------------------------------------------------
(* The fourth layer: the diagnosis, and that a request that may yet write   *)
(* DEAD without a code finds a row that has one.                            *)

RequestedHasCode ==
    \A a \in Requests :
      request[a].pc # "idle" =>
        \/ rows[request[a].job].lastErrorCode # Null
        \/ rows[request[a].job].status = "SUCCEEDED"

DiagnosisInv == DiagnosisKept /\ RequestedHasCode

(* A row that POST /jobs inserts needs no diagnosis.                        *)
LEMMA DiagnosisInit == Init => DiagnosisInv
<1>. SUFFICES ASSUME Init PROVE DiagnosisInv
  OBVIOUS
<1>1. \A j \in Jobs : rows[j].status = "PENDING"
  BY DEF Init, NewRow
<1>2. \A a \in Requests : request[a].pc = "idle"
  BY DEF Init, IdleRequest
<1>. QED
  BY <1>1, <1>2 DEF DiagnosisInv, DiagnosisKept, RequestedHasCode

(* Only a request's own steps change what it is doing.                      *)
LEMMA RequestsOwnSteps ==
    ASSUME [Next]_vars
    PROVE  request' = request \/ \E b \in Requests : RequestNext(b)
<1>1. ASSUME NEW w \in Workers, WorkerNext(w) PROVE request' = request
  BY <1>1
  DEF WorkerNext, FetchMessage, ExecuteClaim, ClaimJob, ClaimJobThrows, ClaimConflict, DeliverWebhook,
      CompleteProcessing, RecordSuccessThrows, ProcessorThrows,
      FinishMessage, WorkerCrash, SendRenewal, WorkerOnly
<1>2. ASSUME NEW r \in renewals, RenewalNext(r) PROVE request' = request
  BY <1>2 DEF RenewalNext, RenewLease, LoseRenewal, WorkerOnly
<1>3. ASSUME NEW s \in Schedulers, SchedulerNext(s) PROVE request' = request
  BY <1>3
  DEF SchedulerNext, SelectStale, SelectStaleThrows, RecoverStaleJob,
      RecoverStaleJobThrows, SelectDue, QueueDueJob, QueueDueJobThrows,
      Enqueue, SchedulerCrash, SchedulerOnly
<1>. QED
  BY <1>1, <1>2, <1>3 DEF Next, Tick, vars

(* A request in progress was so before, or found its row DEAD just now.     *)
LEMMA RequestOrigin ==
    ASSUME TypeInv, [Next]_vars, NEW a \in Requests, request'[a].pc # "idle"
    PROVE  \/ request[a].pc # "idle" /\ request'[a].job = request[a].job
           \/ request'[a].job \in Jobs /\ rows[request'[a].job].status = "DEAD"
<1>0. request \in [Requests -> RequestState] /\ \A b \in Requests : request[b] \in RequestState
  BY DEF TypeInv, TypeOK
<1>1. CASE request' = request
  BY <1>1
<1>2. ASSUME NEW b \in Requests, RequestNext(b)
      PROVE  \/ request[a].pc # "idle" /\ request'[a].job = request[a].job
             \/ request'[a].job \in Jobs /\ rows[request'[a].job].status = "DEAD"
  <2>1. CASE a # b
    <3>1. request'[a] = request[a]
      BY <1>0, <1>2, <2>1
      DEF RequestNext, RetriggerDeadJob, RemoveStaleRecord, EnqueueRetriggered,
          EnqueueRetriggeredThrows, Compensate, RequestCrash
    <3>. QED
      BY <3>1
  <2>2. CASE a = b
    <3>1. CASE \E j \in Jobs : RetriggerDeadJob(b, j)
      BY <1>0, <2>2, <3>1 DEF RetriggerDeadJob, Retriggerable
    <3>2. CASE RemoveStaleRecord(b) \/ EnqueueRetriggeredThrows(b)
      BY <1>0, <2>2, <3>2 DEF RemoveStaleRecord, EnqueueRetriggeredThrows, RequestState
    <3>3. CASE EnqueueRetriggered(b) \/ Compensate(b) \/ RequestCrash(b)
      BY <1>0, <2>2, <3>3 DEF EnqueueRetriggered, Compensate, RequestCrash, IdleRequest
    <3>. QED
      BY <1>2, <3>1, <3>2, <3>3 DEF RequestNext
  <2>. QED
    BY <2>1, <2>2
<1>3. request' = request \/ \E b \in Requests : RequestNext(b)
  BY RequestsOwnSteps
<1>. QED
  BY <1>1, <1>2, <1>3

(* The fourth layer is kept by every step.                                  *)
LEMMA DiagnosisStep == TypeInv /\ DiagnosisInv /\ [Next]_vars => DiagnosisInv'
<1>. SUFFICES ASSUME TypeInv, DiagnosisInv, [Next]_vars PROVE DiagnosisInv'
  OBVIOUS
<1>1. \A a \in Requests : request[a].pc # "idle" => request[a].job \in Jobs
  BY DEF TypeInv, RequestOK
<1>2. ASSUME NEW j \in Jobs
      PROVE  /\ rows'[j].status \in {"RETRYING", "DEAD"} => rows'[j].lastErrorCode # Null
             /\ rows'[j].status = "SUCCEEDED" => rows'[j].lastErrorCode = Null
             /\ rows[j].lastErrorCode # Null \/ rows[j].status = "SUCCEEDED" =>
                  rows'[j].lastErrorCode # Null \/ rows'[j].status = "SUCCEEDED"
  <2>1. /\ rows[j].status \in {"RETRYING", "DEAD"} => rows[j].lastErrorCode # Null
        /\ rows[j].status = "SUCCEEDED" => rows[j].lastErrorCode = Null
    BY DEF DiagnosisInv, DiagnosisKept
  <2>2. CASE RowKept(j) \/ RowClaimed(j) \/ RowRenewed(j) \/ RowQueued(j)
    BY <2>1, <2>2
    DEF RowKept, RowClaimed, RowRenewed, RowQueued, SameCounters, CLAIMABLE_STATUSES
  <2>3. CASE RowRevoked(j)
    <3>1. rows[j].status = "QUEUED" /\ rows'[j].status = "DEAD" /\ SameCounters(j)
      BY <2>3 DEF RowRevoked
    <3>2. PICK a \in Requests : request[a].pc = "compensating" /\ request[a].job = j
      BY <2>3 DEF RowRevoked
    <3>3. rows[j].lastErrorCode # Null
      BY <3>1, <3>2 DEF DiagnosisInv, RequestedHasCode
    <3>. QED
      BY <3>1, <3>3 DEF SameCounters
  <2>4. CASE RowCompleted(j) \/ RowRecovered(j)
    <3>1. /\ rows'[j].status \in {"SUCCEEDED", "RETRYING", "DEAD"}
          /\ rows'[j].status = "SUCCEEDED" <=> rows'[j].lastErrorCode = Null
      BY <2>4 DEF RowCompleted, RowRecovered, RowEnded
    <3>. QED
      BY <3>1
  <2>. QED
    BY <2>2, <2>3, <2>4, RowSteps DEF RowStep
<1>3. RequestedHasCode'
  <2>. SUFFICES ASSUME NEW a \in Requests, request'[a].pc # "idle"
                PROVE  \/ rows'[request'[a].job].lastErrorCode # Null
                       \/ rows'[request'[a].job].status = "SUCCEEDED"
    BY DEF RequestedHasCode
  <2>1. /\ request'[a].job \in Jobs
        /\ \/ rows[request'[a].job].lastErrorCode # Null
           \/ rows[request'[a].job].status = "SUCCEEDED"
    BY <1>1, RequestOrigin DEF DiagnosisInv, RequestedHasCode, DiagnosisKept
  <2>. QED
    BY <1>2, <2>1
<1>. QED
  BY <1>2, <1>3 DEF DiagnosisInv, DiagnosisKept

-----------------------------------------------------------------------------
(* The inductive invariant and what follows from it.                        *)

IInv == TypeInv /\ FenceInv /\ ChargeInv /\ DiagnosisInv

(* The four layers together are inductive, so they hold for ever.           *)
LEMMA Inductive == Spec => []IInv
<1>1. Init => IInv
  BY TypeInit, FenceInit, ChargeInit, DiagnosisInit DEF IInv
<1>2. IInv /\ [Next]_vars => IInv'
  BY TypeStep, FenceStep, ChargeStep, DiagnosisStep DEF IInv
<1>. QED
  BY <1>1, <1>2, PTL DEF Spec

(* A row has both lease columns exactly while it is PROCESSING.             *)
THEOREM LeaseColumns == Spec => []LeaseIffProcessing
<1>1. IInv => LeaseIffProcessing
  BY DEF IInv, FenceInv
<1>. QED
  BY <1>1, Inductive, PTL

(* At most one worker holds the token of a row, however many execute it.    *)
THEOREM MutualExclusion == Spec => []ExclusiveOwner
<1>1. IInv => ExclusiveOwner
  BY DEF IInv, FenceInv, TokensDiffer, ExclusiveOwner, Executes, ExecutingPC
<1>. QED
  BY <1>1, Inductive, PTL

(* What the token's holder read at its claim is what its row says.          *)
THEOREM OwnerCurrent == Spec => []OwnerIsCurrent
<1>1. IInv => OwnerIsCurrent
  BY DEF IInv, FenceInv
<1>. QED
  BY <1>1, Inductive, PTL

(* No row is charged an attempt that did not run.                           *)
THEOREM AttemptsAreReal == Spec => []NoPhantomAttempt
<1>1. IInv => NoPhantomAttempt
  BY DEF IInv, ChargeInv
<1>. QED
  BY <1>1, Inductive, PTL

(* A row that waits for a retry has attempts left and a time to retry.      *)
THEOREM RetriesAreBounded == Spec => []RetryingHasBudget
<1>1. IInv => RetryingHasBudget
  BY DEF IInv, ChargeInv
<1>. QED
  BY <1>1, Inductive, PTL

(* A RETRYING or DEAD row has an error code, a SUCCEEDED one has none.      *)
THEOREM Diagnosed == Spec => []DiagnosisKept
<1>1. IInv => DiagnosisKept
  BY DEF IInv, DiagnosisInv
<1>. QED
  BY <1>1, Inductive, PTL

(* A SUCCEEDED row is never written again.                                  *)
THEOREM SuccessIsFinal == Spec => SucceededIsFinal
<1>1. TypeInv /\ [Next]_vars =>
        [\A j \in Jobs : rows[j].status = "SUCCEEDED" => rows'[j] = rows[j]]_vars
  <2>. SUFFICES ASSUME TypeInv, [Next]_vars, NEW j \in Jobs,
                       rows[j].status = "SUCCEEDED"
                PROVE  rows'[j] = rows[j]
    OBVIOUS
  <2>1. RowStep(j)
    BY RowSteps
  <2>. QED
    BY <2>1
    DEF RowStep, RowKept, RowClaimed, RowRenewed, RowQueued, RowRevoked,
        RowCompleted, RowRecovered, RowEnded, CLAIMABLE_STATUSES
<1>. QED
  BY <1>1, TypeInit, TypeStep, PTL DEF Spec, SucceededIsFinal

(* No statement moves a status where neither the declared table nor a claim *)
(* nor a compensation does, however old what its process has read.          *)
THEOREM StatusMoves == Spec => StatusMovesAllowed
<1>1. TypeInv /\ [Next]_vars =>
        [\A j \in Jobs : \/ rows'[j].status = rows[j].status
                         \/ Movable(rows[j].status, rows'[j].status)]_vars
  <2>. SUFFICES ASSUME TypeInv, [Next]_vars, NEW j \in Jobs
                PROVE  \/ rows'[j].status = rows[j].status
                       \/ Movable(rows[j].status, rows'[j].status)
    OBVIOUS
  <2>1. RowStep(j)
    BY RowSteps
  <2>. QED
    BY <2>1
    DEF RowStep, RowKept, RowClaimed, RowRenewed, RowQueued, RowRevoked,
        RowCompleted, RowRecovered, RowEnded, CLAIMABLE_STATUSES,
        Movable, ClaimMove, CompensationMove, isValidTransition, transitions
<1>. QED
  BY <1>1, TypeInit, TypeStep, PTL DEF Spec, StatusMovesAllowed

(* A live lease is ended only by the completion of its holder.              *)
THEOREM LiveLeases == Spec => LiveLeaseRespected
<1>. DEFINE Respected ==
       \A j \in Jobs :
         /\ rows[j].status = "PROCESSING" /\ rows[j].leaseUntil >= now
         /\ rows'[j].leaseToken # rows[j].leaseToken
         => \E w \in Workers :
              /\ worker[w].pc = "recording"
              /\ Executes(w, j, rows[j].leaseToken)
              /\ worker'[w] # worker[w]
<1>1. TypeInv /\ FenceInv /\ [Next]_vars => [Respected]_vars
  <2>. SUFFICES ASSUME TypeInv, FenceInv, [Next]_vars, NEW j \in Jobs,
                       rows[j].status = "PROCESSING", rows[j].leaseUntil >= now,
                       rows'[j].leaseToken # rows[j].leaseToken
                PROVE  \E w \in Workers :
                         /\ worker[w].pc = "recording"
                         /\ Executes(w, j, rows[j].leaseToken)
                         /\ worker'[w] # worker[w]
    OBVIOUS
  <2>1. RowStep(j)
    BY RowSteps
  <2>2. rows[j].leaseUntil \in Nat /\ now \in Nat
    BY DEF FenceInv, LeaseIffProcessing, TypeInv, TypeOK, Row
  <2>3. ~RowRecovered(j)
    BY <2>2 DEF RowRecovered
  <2>4. RowCompleted(j)
    BY <2>1, <2>3
    DEF RowStep, RowKept, RowClaimed, RowRenewed, RowQueued, RowRevoked,
        CLAIMABLE_STATUSES
  <2>. QED
    BY <2>4 DEF RowCompleted
<1>. QED
  BY <1>1, TypeInit, FenceInit, TypeStep, FenceStep, PTL
  DEF Spec, LiveLeaseRespected
=============================================================================
