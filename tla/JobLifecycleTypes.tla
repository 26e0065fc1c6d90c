------------------------- MODULE JobLifecycleTypes --------------------------
(***************************************************************************)
(* The types of JobLifecycle's variables, and what a process has filled in *)
(* in each of its control states: the first layer of the inductive         *)
(* invariant, on which JobLifecycleProofs builds.                          *)
(***************************************************************************)
EXTENDS JobLifecycle, JobTableLemmas

-----------------------------------------------------------------------------
(* The first layer.                                                         *)

ExecutingPC(k) == k.pc \in {"delivering", "recording"}

ConsistentWorker(k) ==
    /\ k.pc # "idle" => k.job \in Jobs
    /\ ExecutingPC(k) =>
         /\ k.token \in Nat \ {0}
         /\ k.attempt \in Nat
         /\ k.maxAttempts \in Nat \ {0}
    /\ k.pc = "recording" => k.outcome # Null
    /\ k.renewing => ExecutingPC(k)

WorkerOK == \A w \in Workers : ConsistentWorker(worker[w])

SchedulerOK ==
    \A s \in Schedulers :
      scheduler[s].pc = "enqueueing" => scheduler[s].job \in Jobs

RequestOK == \A a \in Requests : request[a].pc # "idle" => request[a].job \in Jobs

TypeInv == TypeOK /\ WorkerOK /\ SchedulerOK /\ RequestOK

(* A fault is counted up to its bound.                                      *)
LEMMA FaultType ==
    ASSUME faults \in 0 .. MaxFaults, NEW kind, Fault(kind)
    PROVE  faults' \in 0 .. MaxFaults
  BY ConstantsAssumption DEF Fault

(* Replacing one row by a row keeps the type of the table.                  *)
LEMMA RowsType ==
    ASSUME TypeOK, NEW j \in Jobs, NEW r \in Row,
           rows' = [rows EXCEPT ![j] = r]
    PROVE  rows' \in [Jobs -> Row]
  BY DEF TypeOK

(* The update a worker records is an update, and its status says whether    *)
(* the webhook was accepted.                                                *)
LEMMA OutcomeUpdateFacts ==
    ASSUME TypeInv, NEW w \in Workers, worker[w].pc = "recording",
           NEW update \in OutcomeUpdates(w)
    PROVE  /\ update \in Update
           /\ update.attempts = worker[w].attempt
           /\ update.status = "SUCCEEDED" <=> worker[w].outcome = "OK"
           /\ update.status = "SUCCEEDED" => update.lastErrorCode = Null
           /\ update.status # "SUCCEEDED" => update.lastErrorCode # Null
           /\ update.status = "RETRYING" =>
                /\ worker[w].attempt < worker[w].maxAttempts
                /\ update.nextAttemptAt \in Nat
<1>1. /\ worker[w].attempt \in Nat
      /\ worker[w].maxAttempts \in Nat
      /\ worker[w].outcome \in Answer \cup {"DB_ERROR"}
      /\ now \in Nat
  BY DEF TypeInv, TypeOK, WorkerOK, ConsistentWorker, ExecutingPC,
     WorkerState
<1>2. CASE worker[w].outcome = "OK"
  <2>1. update = SuccessUpdate(worker[w].attempt)
    BY <1>2 DEF OutcomeUpdates
  <2>. QED
    BY <1>1, <1>2, <2>1, SuccessUpdateType DEF SuccessUpdate
<1>3. CASE worker[w].outcome # "OK"
  <2>1. diagnoseFailure(worker[w].outcome) \in ErrorCode
    BY <1>1, <1>3 DEF diagnoseFailure, Answer, ErrorCode
  <2>2. update \in FailureUpdates(worker[w].attempt, worker[w].maxAttempts,
                                  Retryable(worker[w].outcome),
                                  diagnoseFailure(worker[w].outcome), now)
    BY <1>3 DEF OutcomeUpdates
  <2>3. /\ update \in Update
        /\ update.status \in {"RETRYING", "DEAD"}
        /\ update.attempts = worker[w].attempt
        /\ update.lastErrorCode = diagnoseFailure(worker[w].outcome)
        /\ update.status = "RETRYING" =>
             /\ worker[w].attempt < worker[w].maxAttempts
             /\ update.nextAttemptAt \in Nat
    BY <1>1, <2>1, <2>2, FailureUpdateFacts
  <2>. QED
    BY <1>3, <2>1, <2>3, NullAssumption
<1>. QED
  BY <1>2, <1>3

(* So is the update a recovery writes.                                      *)
LEMMA RecoveryUpdateFacts ==
    ASSUME TypeInv, NEW job \in StaleJob,
           NEW update \in FailureUpdates(ChargedAttempts(job.attempts),
                                         job.maxAttempts, TRUE,
                                         "WORKER_CRASH", now)
    PROVE  /\ update \in Update
           /\ update.status \in {"RETRYING", "DEAD"}
           /\ update.attempts = job.attempts + 1
           /\ update.lastErrorCode = "WORKER_CRASH"
           /\ update.lastErrorCode # Null
           /\ update.status = "RETRYING" =>
                /\ job.attempts + 1 < job.maxAttempts
                /\ update.nextAttemptAt \in Nat
<1>1. ChargedAttempts(job.attempts) = job.attempts + 1
  BY DEF ChargedAttempts
<1>2. /\ job.attempts + 1 \in Nat
      /\ job.maxAttempts \in Nat
      /\ now \in Nat
  BY DEF StaleJob, TypeInv, TypeOK
<1>3. "WORKER_CRASH" \in ErrorCode
  BY DEF ErrorCode
<1>. DEFINE retryable == TRUE
<1>4. update \in FailureUpdates(job.attempts + 1, job.maxAttempts, retryable,
                                "WORKER_CRASH", now)
  BY <1>1
<1>5. "WORKER_CRASH" # Null
  BY <1>3, NullAssumption
<1>. HIDE DEF retryable
<1>. QED
  BY <1>2, <1>3, <1>4, <1>5, FailureUpdateFacts

(* The initial states satisfy the first layer.                              *)
LEMMA TypeInit == Init => TypeInv
<1>. SUFFICES ASSUME Init PROVE TypeInv
  OBVIOUS
<1>1. rows \in [Jobs -> Row]
  BY ConstantsAssumption, NewRowType DEF Init
<1>2. worker \in [Workers -> WorkerState]
  BY DEF Init, IdleWorker, WorkerState
<1>3. scheduler \in [Schedulers -> SchedulerState]
  BY DEF Init, IdleScheduler, SchedulerState
<1>4. request \in [Requests -> RequestState]
  BY DEF Init, IdleRequest, RequestState
<1>5. TypeOK
  BY <1>1, <1>2, <1>3, <1>4, ConstantsAssumption DEF Init, TypeOK
<1>6. WorkerOK /\ SchedulerOK /\ RequestOK
  BY ConstantsAssumption
  DEF Init, WorkerOK, SchedulerOK, RequestOK, ConsistentWorker, ExecutingPC,
      IdleWorker, IdleScheduler, IdleRequest
<1>. QED
  BY <1>5, <1>6 DEF TypeInv

(* An outcome is a value.  (Null is no answer and no DB_ERROR.)             *)
LEMMA AnswerNotNull == Null \notin Answer \cup {"DB_ERROR"}
  BY ConstantsAssumption DEF Answer

(* A worker that moves to a well-typed, consistent state.                   *)
LEMMA WorkerMoves ==
    ASSUME TypeInv, NEW w \in Workers, NEW k \in WorkerState,
           ConsistentWorker(k), worker' = [worker EXCEPT ![w] = k]
    PROVE  worker' \in [Workers -> WorkerState] /\ WorkerOK'
<1>1. worker' \in [Workers -> WorkerState]
  BY DEF TypeInv, TypeOK
<1>2. \A v \in Workers : worker'[v] = worker[v] \/ worker'[v] = k
  BY DEF TypeInv, TypeOK
<1>3. \A v \in Workers : ConsistentWorker(worker'[v])
  BY <1>2 DEF TypeInv, WorkerOK
<1>. QED
  BY <1>1, <1>3 DEF WorkerOK

(* The idle worker, and one whose processor has just settled.               *)
LEMMA SettledWorkers ==
    /\ IdleWorker \in WorkerState /\ ConsistentWorker(IdleWorker)
    /\ \A j \in Jobs, promise \in {"resolved", "threw"} :
         LET k == [IdleWorker EXCEPT !.pc = promise, !.job = j]
         IN  k \in WorkerState /\ ConsistentWorker(k)
  BY DEF IdleWorker, WorkerState, ConsistentWorker, ExecutingPC

(* A processor that settles leaves a worker of the right type.              *)
LEMMA SettleType ==
    ASSUME TypeInv, NEW w \in Workers, worker[w].pc # "idle",
           NEW promise \in {"resolved", "threw"}, Settle(w, promise)
    PROVE  worker' \in [Workers -> WorkerState] /\ WorkerOK'
<1>1. worker[w].job \in Jobs
  BY DEF TypeInv, WorkerOK, ConsistentWorker
<1>. DEFINE k == [IdleWorker EXCEPT !.pc = promise, !.job = worker[w].job]
<1>2. k \in WorkerState /\ ConsistentWorker(k)
  BY <1>1, SettledWorkers
<1>3. worker' = [worker EXCEPT ![w] = k]
  BY DEF Settle
<1>. QED
  BY <1>2, <1>3, WorkerMoves

(* The first layer is kept by every step of a worker.                       *)
LEMMA TypeWorker ==
    ASSUME TypeInv, NEW w \in Workers, WorkerNext(w)
    PROVE  TypeInv'
<1>. DEFINE j == worker[w].job
<1>0. /\ TypeOK /\ WorkerOK
      /\ worker[w] \in WorkerState
      /\ ConsistentWorker(worker[w])
  BY DEF TypeInv, TypeOK, WorkerOK
<1>1. now' = now /\ scheduler' = scheduler /\ request' = request
  BY DEF WorkerNext, FetchMessage, ExecuteClaim, ClaimJob, ClaimJobThrows, ClaimConflict, DeliverWebhook,
         CompleteProcessing, RecordSuccessThrows, ProcessorThrows,
         FinishMessage, WorkerCrash, SendRenewal, WorkerOnly
<1>2. faults' \in 0 .. MaxFaults
  <2>1. \/ faults' = faults
        \/ Fault("database")
        \/ Fault("crash")
    BY DEF WorkerNext, FetchMessage, ExecuteClaim, ClaimJob, ClaimJobThrows, ClaimConflict, DeliverWebhook,
           CompleteProcessing, RecordSuccessThrows, ProcessorThrows,
           FinishMessage, WorkerCrash, SendRenewal
  <2>. QED
    BY <1>0, <2>1, FaultType DEF TypeOK
<1>3. /\ worker' \in [Workers -> WorkerState] /\ WorkerOK'
      /\ rows' \in [Jobs -> Row]
      /\ executions' \in [Jobs -> Nat]
      /\ acked' \subseteq Jobs
      /\ renewals' \subseteq Renewal
  <2>1. CASE \E i \in Jobs : FetchMessage(w, i)
    <3>1. PICK i \in Jobs : FetchMessage(w, i)
      BY <2>1
    <3>. DEFINE k == [worker[w] EXCEPT !.pc = "claiming", !.job = i]
    <3>2. worker' = [worker EXCEPT ![w] = k]
      BY <1>0, <3>1 DEF FetchMessage, TypeOK
    <3>3. k \in WorkerState /\ ConsistentWorker(k)
      BY <1>0, <3>1 DEF FetchMessage, WorkerState, ConsistentWorker, ExecutingPC
    <3>4. worker' \in [Workers -> WorkerState] /\ WorkerOK'
      BY <3>2, <3>3, WorkerMoves
    <3>. QED
      BY <1>0, <3>1, <3>4 DEF FetchMessage, TypeOK
  <2>2. CASE ClaimJob(w) \/ ClaimJobThrows(w)
    <3>0. ExecuteClaim(w)
      BY <2>2 DEF ClaimJob, ClaimJobThrows
    <3>1. j \in Jobs /\ worker[w].pc # "idle"
      BY <1>0, <3>0 DEF ExecuteClaim, ConsistentWorker
    <3>2. rows[j] \in Row /\ executions[j] + 1 \in Nat \ {0} /\ now \in Nat
      BY <1>0, <3>1 DEF TypeOK
    <3>. DEFINE token == executions[j] + 1
                k == [pc |-> "delivering", job |-> j, token |-> token,
                      attempt |-> rows[j].attempts + 1,
                      maxAttempts |-> rows[j].maxAttempts,
                      outcome |-> Null, renewing |-> TRUE]
    <3>3. /\ rows' = [rows EXCEPT ![j] = ClaimedRow(rows[j], token, now)]
          /\ executions' = [executions EXCEPT ![j] = @ + 1]
      BY <3>0 DEF ExecuteClaim, FreshToken
    <3>4. rows[j].attempts + 1 \in Nat /\ rows[j].maxAttempts \in Nat \ {0}
      BY <3>2 DEF Row
    <3>5. k \in WorkerState /\ ConsistentWorker(k)
      BY <3>1, <3>2, <3>4 DEF WorkerState, ConsistentWorker, ExecutingPC
    <3>6. worker' \in [Workers -> WorkerState] /\ WorkerOK'
      <4>1. CASE ClaimJob(w)
        BY <3>5, <4>1, WorkerMoves DEF ClaimJob, FreshToken
      <4>2. CASE ClaimJobThrows(w)
        BY <3>1, <4>2, SettleType DEF ClaimJobThrows
      <4>. QED
        BY <2>2, <4>1, <4>2
    <3>7. rows' \in [Jobs -> Row]
      BY <1>0, <3>1, <3>2, <3>3, RowsType, ClaimedRowType
    <3>8. executions' \in [Jobs -> Nat]
      BY <1>0, <3>1, <3>2, <3>3 DEF TypeOK
    <3>. QED
      BY <1>0, <3>0, <3>6, <3>7, <3>8 DEF ExecuteClaim, TypeOK
  <2>3. CASE ClaimConflict(w)
    <3>1. worker' \in [Workers -> WorkerState] /\ WorkerOK'
      BY <2>3, SettleType DEF ClaimConflict
    <3>. QED
      BY <1>0, <2>3, <3>1 DEF ClaimConflict, TypeOK
  <2>4. CASE \E answer \in Answers : DeliverWebhook(w, answer)
    <3>1. PICK answer \in Answers : DeliverWebhook(w, answer)
      BY <2>4
    <3>2. answer \in Answer /\ answer # Null
      BY ConstantsAssumption, AnswerNotNull
    <3>. DEFINE k == [worker[w] EXCEPT !.pc = "recording", !.outcome = answer]
    <3>3. worker' = [worker EXCEPT ![w] = k]
      BY <1>0, <3>1 DEF DeliverWebhook, TypeOK
    <3>4. k \in WorkerState /\ ConsistentWorker(k) /\ j \in Jobs
      BY <1>0, <3>1, <3>2
      DEF DeliverWebhook, WorkerState, ConsistentWorker, ExecutingPC
    <3>5. worker' \in [Workers -> WorkerState] /\ WorkerOK'
      BY <3>3, <3>4, WorkerMoves
    <3>. QED
      BY <1>0, <3>1, <3>4, <3>5 DEF DeliverWebhook, TypeOK
  <2>5. CASE CompleteProcessing(w)
    <3>1. /\ worker[w].pc = "recording" /\ j \in Jobs
          /\ rows[j] \in Row
      BY <1>0, <2>5 DEF CompleteProcessing, ConsistentWorker, TypeOK
    <3>2. worker' \in [Workers -> WorkerState] /\ WorkerOK'
      BY <2>5, <3>1, SettleType DEF CompleteProcessing
    <3>3. \/ rows' = rows
          \/ \E update \in OutcomeUpdates(w) :
               rows' = [rows EXCEPT ![j] = CompletedRow(rows[j], update)]
      BY <2>5 DEF CompleteProcessing
    <3>4. rows' \in [Jobs -> Row]
      BY <1>0, <3>1, <3>3, OutcomeUpdateFacts, CompletedRowType, RowsType
      DEF TypeOK
    <3>. QED
      BY <1>0, <2>5, <3>2, <3>4 DEF CompleteProcessing, TypeOK
  <2>6. CASE RecordSuccessThrows(w)
    <3>1. /\ worker[w].pc = "recording" /\ j \in Jobs
          /\ rows[j] \in Row
      BY <1>0, <2>6 DEF RecordSuccessThrows, ConsistentWorker, TypeOK
    <3>. DEFINE k == [worker[w] EXCEPT !.outcome = "DB_ERROR"]
    <3>2. worker' = [worker EXCEPT ![w] = k]
      BY <1>0, <2>6 DEF RecordSuccessThrows, TypeOK
    <3>3. k \in WorkerState /\ ConsistentWorker(k)
      BY <1>0, <3>1, AnswerNotNull DEF WorkerState, ConsistentWorker, ExecutingPC
    <3>4. worker' \in [Workers -> WorkerState] /\ WorkerOK'
      BY <3>2, <3>3, WorkerMoves
    <3>5. \/ rows' = rows
          \/ \E update \in OutcomeUpdates(w) :
               rows' = [rows EXCEPT ![j] = CompletedRow(rows[j], update)]
      BY <2>6 DEF RecordSuccessThrows
    <3>6. rows' \in [Jobs -> Row]
      BY <1>0, <3>1, <3>5, OutcomeUpdateFacts, CompletedRowType, RowsType
      DEF TypeOK
    <3>. QED
      BY <1>0, <2>6, <3>4, <3>6 DEF RecordSuccessThrows, TypeOK
  <2>7. CASE ProcessorThrows(w)
    <3>1. worker' \in [Workers -> WorkerState] /\ WorkerOK'
      BY <2>7, SettleType DEF ProcessorThrows
    <3>. QED
      BY <1>0, <2>7, <3>1 DEF ProcessorThrows, TypeOK
  <2>8. CASE FinishMessage(w) \/ WorkerCrash(w)
    <3>1. worker' = [worker EXCEPT ![w] = IdleWorker]
      BY <2>8 DEF FinishMessage, WorkerCrash
    <3>2. worker' \in [Workers -> WorkerState] /\ WorkerOK'
      BY <3>1, SettledWorkers, WorkerMoves
    <3>. QED
      BY <1>0, <2>8, <3>2 DEF FinishMessage, WorkerCrash, TypeOK
  <2>9. CASE SendRenewal(w)
    <3>. DEFINE r == [job |-> j, token |-> worker[w].token,
                      until |-> now + LeaseDuration]
    <3>1. worker[w].token \in Nat /\ j \in Jobs
      BY <1>0, <2>9 DEF SendRenewal, ConsistentWorker, ExecutingPC
    <3>2. now + LeaseDuration \in Nat
      BY <1>0, LeaseAssumption DEF TypeOK
    <3>3. r \in Renewal
      BY <3>1, <3>2 DEF Renewal
    <3>4. renewals' = renewals \cup {r}
      BY <2>9 DEF SendRenewal
    <3>5. renewals' \subseteq Renewal
      BY <1>0, <3>3, <3>4 DEF TypeOK
    <3>. QED
      BY <1>0, <2>9, <3>5 DEF SendRenewal, TypeOK, WorkerOK
  <2>. QED
    BY <2>1, <2>2, <2>3, <2>4, <2>5, <2>6, <2>7, <2>8, <2>9 DEF WorkerNext
<1>. QED
  BY <1>0, <1>1, <1>2, <1>3 DEF TypeInv, TypeOK, SchedulerOK, RequestOK
(* A scheduler that moves to a well-typed, consistent state.                *)
LEMMA SchedulerMoves ==
    ASSUME TypeInv, NEW s \in Schedulers, NEW k \in SchedulerState,
           k.pc = "enqueueing" => k.job \in Jobs,
           scheduler' = [scheduler EXCEPT ![s] = k]
    PROVE  scheduler' \in [Schedulers -> SchedulerState] /\ SchedulerOK'
<1>1. scheduler' \in [Schedulers -> SchedulerState]
  BY DEF TypeInv, TypeOK
<1>2. \A t \in Schedulers : scheduler'[t] = scheduler[t] \/ scheduler'[t] = k
  BY DEF TypeInv, TypeOK
<1>. QED
  BY <1>1, <1>2 DEF TypeInv, SchedulerOK

(* The first layer is kept by every step of a scheduler.                    *)
LEMMA TypeScheduler ==
    ASSUME TypeInv, NEW s \in Schedulers, SchedulerNext(s)
    PROVE  TypeInv'
<1>0. /\ TypeOK /\ SchedulerOK
      /\ scheduler[s] \in SchedulerState
  BY DEF TypeInv, TypeOK
<1>1. /\ now' = now /\ executions' = executions /\ acked' = acked
      /\ worker' = worker /\ renewals' = renewals /\ request' = request
  BY DEF SchedulerNext, SelectStale, SelectStaleThrows, RecoverStaleJob,
         RecoverStaleJobThrows, SelectDue, QueueDueJob, QueueDueJobThrows,
         Enqueue, SchedulerCrash, SchedulerOnly
<1>2. faults' \in 0 .. MaxFaults
  <2>1. \/ faults' = faults
        \/ Fault("scheduler")
        \/ Fault("scheduler_redis")
    BY DEF SchedulerNext, SelectStale, SelectStaleThrows, RecoverStaleJob,
           RecoverStaleJobThrows, SelectDue, QueueDueJob, QueueDueJobThrows,
           Enqueue, SchedulerCrash
  <2>. QED
    BY <1>0, <2>1, FaultType DEF TypeOK
<1>3. /\ rows' \in [Jobs -> Row]
      /\ scheduler' \in [Schedulers -> SchedulerState] /\ SchedulerOK'
  <2>1. CASE SelectStale(s)
    <3>. DEFINE stale == {[job |-> j, attempts |-> rows[j].attempts,
                           maxAttempts |-> rows[j].maxAttempts] :
                            j \in {i \in Jobs : staleCondition(rows[i], now)}}
                k == [scheduler[s] EXCEPT !.pc = "recovering", !.stale = stale]
    <3>1. scheduler' = [scheduler EXCEPT ![s] = k]
      BY <1>0, <2>1 DEF SelectStale, TypeOK
    <3>2. stale \subseteq StaleJob
      BY <1>0 DEF TypeOK, Row, StaleJob
    <3>3. k \in SchedulerState /\ k.pc # "enqueueing"
      <4>. HIDE DEF stale
      <4>. QED
        BY <1>0, <3>2 DEF SchedulerState
    <3>4. scheduler' \in [Schedulers -> SchedulerState] /\ SchedulerOK'
      <4>. HIDE DEF k
      <4>. QED
        BY <3>1, <3>3, SchedulerMoves
    <3>. QED
      BY <1>0, <2>1, <3>4 DEF SelectStale, TypeOK
  <2>2. CASE SelectStaleThrows(s)
    <3>. DEFINE k == [scheduler[s] EXCEPT !.pc = "recovering"]
    <3>1. scheduler' = [scheduler EXCEPT ![s] = k]
      BY <1>0, <2>2 DEF SelectStaleThrows, TypeOK
    <3>2. k \in SchedulerState /\ k.pc # "enqueueing"
      BY <1>0 DEF SchedulerState
    <3>. QED
      BY <1>0, <2>2, <3>1, <3>2, SchedulerMoves DEF SelectStaleThrows, TypeOK
  <2>3. CASE \E job \in scheduler[s].stale :
               RecoverStaleJob(s, job) \/ RecoverStaleJobThrows(s, job)
    <3>1. PICK job \in scheduler[s].stale :
                 RecoverStaleJob(s, job) \/ RecoverStaleJobThrows(s, job)
      BY <2>3
    <3>2. job \in StaleJob /\ job.job \in Jobs
      BY <1>0, <3>1 DEF SchedulerState, StaleJob
    <3>. DEFINE k == [scheduler[s] EXCEPT !.stale = @ \ {job}]
    <3>3. scheduler' = [scheduler EXCEPT ![s] = k]
      BY <1>0, <3>1 DEF RecoverStaleJob, RecoverStaleJobThrows, TypeOK
    <3>4. k \in SchedulerState /\ k.pc = "recovering"
      BY <1>0, <3>1 DEF SchedulerState, RecoverStaleJob, RecoverStaleJobThrows
    <3>5. scheduler' \in [Schedulers -> SchedulerState] /\ SchedulerOK'
      BY <3>3, <3>4, SchedulerMoves
    <3>6. \/ rows' = rows
          \/ \E update \in FailureUpdates(ChargedAttempts(job.attempts),
                                          job.maxAttempts, TRUE,
                                          "WORKER_CRASH", now) :
               rows' = [rows EXCEPT
                          ![job.job] = RecoveredRow(rows[job.job], update)]
      BY <3>1 DEF RecoverStaleJob, RecoverStaleJobThrows
    <3>7. rows' \in [Jobs -> Row]
      <4>1. CASE rows' = rows
        BY <1>0, <4>1 DEF TypeOK
      <4>2. CASE \E update \in FailureUpdates(ChargedAttempts(job.attempts),
                                              job.maxAttempts, TRUE,
                                              "WORKER_CRASH", now) :
                   rows' = [rows EXCEPT
                              ![job.job] = RecoveredRow(rows[job.job], update)]
        <5>1. PICK update \in FailureUpdates(ChargedAttempts(job.attempts),
                                             job.maxAttempts, TRUE,
                                             "WORKER_CRASH", now) :
                   rows' = [rows EXCEPT
                              ![job.job] = RecoveredRow(rows[job.job], update)]
          BY <4>2
        <5>2. update \in Update
          BY <3>2, RecoveryUpdateFacts
        <5>3. RecoveredRow(rows[job.job], update) \in Row
          BY <1>0, <3>2, <5>2, CompletedRowType DEF RecoveredRow, TypeOK
        <5>. QED
          BY <1>0, <3>2, <5>1, <5>3, RowsType
      <4>. QED
        BY <3>6, <4>1, <4>2
    <3>. QED
      BY <3>5, <3>7
  <2>4. CASE SelectDue(s)
    <3>1. PICK batch \in SUBSET Jobs :
            /\ DueBatch(batch)
            /\ scheduler' =
                 [scheduler EXCEPT
                    ![s].pc = "polling",
                    ![s].due = {[job |-> j, status |-> rows[j].status] :
                                  j \in batch}]
      BY <2>4 DEF SelectDue
    <3>. DEFINE due == {[job |-> j, status |-> rows[j].status] : j \in batch}
                k == [scheduler[s] EXCEPT !.pc = "polling", !.due = due]
    <3>2. scheduler' = [scheduler EXCEPT ![s] = k]
      BY <1>0, <3>1 DEF TypeOK
    <3>3. due \subseteq DueJob
      BY <3>1 DEF DueBatch, dueCondition, DueJob
    <3>4. k \in SchedulerState /\ k.pc # "enqueueing"
      <4>. HIDE DEF due
      <4>. QED
        BY <1>0, <3>3 DEF SchedulerState
    <3>5. scheduler' \in [Schedulers -> SchedulerState] /\ SchedulerOK'
      <4>. HIDE DEF k
      <4>. QED
        BY <3>2, <3>4, SchedulerMoves
    <3>. QED
      BY <1>0, <2>4, <3>5 DEF SelectDue, TypeOK
  <2>5. CASE \E job \in scheduler[s].due :
               QueueDueJob(s, job) \/ QueueDueJobThrows(s, job)
    <3>1. PICK job \in scheduler[s].due :
                 QueueDueJob(s, job) \/ QueueDueJobThrows(s, job)
      BY <2>5
    <3>2. job.job \in Jobs /\ rows[job.job] \in Row
      BY <1>0, <3>1 DEF SchedulerState, DueJob, TypeOK
    <3>. DEFINE k == [scheduler[s] EXCEPT !.pc = "enqueueing",
                                          !.due = @ \ {job}, !.job = job.job]
                l == [scheduler[s] EXCEPT !.due = @ \ {job}]
    <3>3. CASE scheduler' = [scheduler EXCEPT ![s] = l] /\ rows' = rows
      <4>1. l \in SchedulerState /\ l.pc = "polling"
        BY <1>0, <3>1 DEF SchedulerState, QueueDueJob, QueueDueJobThrows
      <4>. QED
        BY <1>0, <3>3, <4>1, SchedulerMoves DEF TypeOK
    <3>4. CASE /\ scheduler' = [scheduler EXCEPT ![s] = k]
               /\ rows' = [rows EXCEPT ![job.job] = QueuedRow(rows[job.job])]
      <4>1. k \in SchedulerState /\ k.job \in Jobs
        BY <1>0, <3>2 DEF SchedulerState
      <4>2. rows' \in [Jobs -> Row]
        BY <1>0, <3>2, <3>4, OtherRowTypes, RowsType
      <4>. QED
        BY <3>4, <4>1, <4>2, SchedulerMoves
    <3>. QED
      BY <1>0, <3>1, <3>3, <3>4 DEF QueueDueJob, QueueDueJobThrows, TypeOK
  <2>6. CASE Enqueue(s)
    <3>. DEFINE k == [scheduler[s] EXCEPT !.pc = "polling", !.job = Null]
    <3>1. scheduler' = [scheduler EXCEPT ![s] = k]
      BY <1>0, <2>6 DEF Enqueue, TypeOK
    <3>2. k \in SchedulerState /\ k.pc # "enqueueing"
      BY <1>0 DEF SchedulerState
    <3>. QED
      BY <1>0, <2>6, <3>1, <3>2, SchedulerMoves DEF Enqueue, TypeOK
  <2>7. CASE SchedulerCrash(s)
    <3>1. IdleScheduler \in SchedulerState /\ IdleScheduler.pc # "enqueueing"
      BY DEF IdleScheduler, SchedulerState
    <3>. QED
      BY <1>0, <2>7, <3>1, SchedulerMoves DEF SchedulerCrash, TypeOK
  <2>. QED
    BY <2>1, <2>2, <2>3, <2>4, <2>5, <2>6, <2>7 DEF SchedulerNext
<1>. QED
  BY <1>0, <1>1, <1>2, <1>3
  DEF TypeInv, TypeOK, WorkerOK, RequestOK

(* The first layer is kept by every step of a request.                      *)
LEMMA TypeRequest ==
    ASSUME TypeInv, NEW a \in Requests, RequestNext(a)
    PROVE  TypeInv'
<1>. DEFINE j == request[a].job
<1>0. /\ TypeOK /\ RequestOK
      /\ request[a] \in RequestState
      /\ request[a].pc # "idle" => j \in Jobs /\ rows[j] \in Row
  BY DEF TypeInv, TypeOK, RequestOK
<1>1. /\ now' = now /\ executions' = executions /\ acked' = acked
      /\ worker' = worker /\ renewals' = renewals /\ scheduler' = scheduler
  BY DEF RequestNext, RetriggerDeadJob, RemoveStaleRecord, EnqueueRetriggered,
         EnqueueRetriggeredThrows, Compensate, RequestCrash, RequestOnly
<1>2. faults' \in 0 .. MaxFaults
  <2>1. \/ faults' = faults
        \/ Fault("request")
        \/ Fault("request_redis")
    BY DEF RequestNext, RetriggerDeadJob, RemoveStaleRecord, EnqueueRetriggered,
           EnqueueRetriggeredThrows, Compensate, RequestCrash
  <2>. QED
    BY <1>0, <2>1, FaultType DEF TypeOK
<1>3. rows' \in [Jobs -> Row]
  <2>1. CASE \E i \in Jobs : RetriggerDeadJob(a, i)
    BY <1>0, <2>1, OtherRowTypes, RowsType DEF RetriggerDeadJob, TypeOK
  <2>2. CASE Compensate(a)
    BY <1>0, <2>2, OtherRowTypes, RowsType DEF Compensate, TypeOK
  <2>3. CASE \/ RemoveStaleRecord(a) \/ EnqueueRetriggered(a)
             \/ EnqueueRetriggeredThrows(a) \/ RequestCrash(a)
    BY <1>0, <2>3 DEF RemoveStaleRecord, EnqueueRetriggered,
         EnqueueRetriggeredThrows, RequestCrash, TypeOK
  <2>. QED
    BY <2>1, <2>2, <2>3 DEF RequestNext
<1>4. request' \in [Requests -> RequestState] /\ RequestOK'
  <2>1. \E k \in RequestState :
          /\ k.pc # "idle" => k.job \in Jobs
          /\ request' = [request EXCEPT ![a] = k]
    <3>1. CASE \E i \in Jobs : RetriggerDeadJob(a, i)
      <4>1. PICK i \in Jobs : RetriggerDeadJob(a, i)
        BY <3>1
      <4>2. [pc |-> "removing", job |-> i] \in RequestState
        BY DEF RequestState
      <4>. WITNESS [pc |-> "removing", job |-> i] \in RequestState
      <4>. QED
        BY <4>1 DEF RetriggerDeadJob
    <3>2. CASE EnqueueRetriggered(a) \/ Compensate(a) \/ RequestCrash(a)
      <4>2. IdleRequest \in RequestState
        BY DEF IdleRequest, RequestState
      <4>. WITNESS IdleRequest \in RequestState
      <4>. QED
        BY <3>2 DEF EnqueueRetriggered, Compensate, RequestCrash, IdleRequest
    <3>3. CASE RemoveStaleRecord(a)
      <4>1. request' = [request EXCEPT ![a] = [request[a] EXCEPT !.pc = "enqueueing"]]
        BY <1>0, <3>3 DEF RemoveStaleRecord, TypeOK
      <4>2. [request[a] EXCEPT !.pc = "enqueueing"] \in RequestState
        BY <1>0 DEF RequestState
      <4>. WITNESS [request[a] EXCEPT !.pc = "enqueueing"] \in RequestState
      <4>. QED
        BY <1>0, <3>3, <4>1 DEF RemoveStaleRecord, RequestState
    <3>4. CASE EnqueueRetriggeredThrows(a)
      <4>1. request' = [request EXCEPT ![a] = [request[a] EXCEPT !.pc = "compensating"]]
        BY <1>0, <3>4 DEF EnqueueRetriggeredThrows, TypeOK
      <4>2. [request[a] EXCEPT !.pc = "compensating"] \in RequestState
        BY <1>0 DEF RequestState
      <4>. WITNESS [request[a] EXCEPT !.pc = "compensating"] \in RequestState
      <4>. QED
        BY <1>0, <3>4, <4>1 DEF EnqueueRetriggeredThrows, RequestState
    <3>. QED
      BY <3>1, <3>2, <3>3, <3>4 DEF RequestNext
  <2>2. PICK k \in RequestState :
          /\ k.pc # "idle" => k.job \in Jobs
          /\ request' = [request EXCEPT ![a] = k]
    BY <2>1
  <2>3. request' \in [Requests -> RequestState]
    BY <1>0, <2>2 DEF TypeOK
  <2>4. \A b \in Requests : request'[b] = request[b] \/ request'[b] = k
    BY <1>0, <2>2 DEF TypeOK
  <2>. QED
    BY <1>0, <2>2, <2>3, <2>4 DEF RequestOK
<1>. QED
  BY <1>0, <1>1, <1>2, <1>3, <1>4
  DEF TypeInv, TypeOK, WorkerOK, SchedulerOK

(* The first layer is kept when a renewal arrives or is lost.               *)
LEMMA TypeRenewal ==
    ASSUME TypeInv, NEW r \in renewals, RenewalNext(r)
    PROVE  TypeInv'
<1>0. /\ TypeOK /\ WorkerOK /\ r \in Renewal
      /\ r.job \in Jobs /\ rows[r.job] \in Row /\ r.until \in Nat
  BY DEF TypeInv, TypeOK, Renewal
<1>1. /\ now' = now /\ executions' = executions /\ acked' = acked
      /\ scheduler' = scheduler /\ request' = request
      /\ renewals' \subseteq Renewal
  BY <1>0 DEF RenewalNext, RenewLease, LoseRenewal, WorkerOnly, TypeOK
<1>2. faults' \in 0 .. MaxFaults
  BY <1>0, FaultType DEF RenewalNext, RenewLease, LoseRenewal, TypeOK
<1>3. rows' \in [Jobs -> Row]
  BY <1>0, RenewedRowType, RowsType DEF RenewalNext, RenewLease, LoseRenewal, TypeOK
<1>4. worker' \in [Workers -> WorkerState] /\ WorkerOK'
  <2>1. CASE worker' = worker
    BY <1>0, <2>1 DEF TypeOK, WorkerOK
  <2>2. CASE worker' = [w \in Workers |->
                          IF worker[w].job = r.job /\ worker[w].token = r.token
                          THEN [worker[w] EXCEPT !.renewing = FALSE]
                          ELSE worker[w]]
    <3>1. ASSUME NEW w \in Workers
          PROVE  worker'[w] \in WorkerState /\ ConsistentWorker(worker'[w])
      <4>1. worker[w] \in WorkerState /\ ConsistentWorker(worker[w])
        BY <1>0 DEF TypeOK, WorkerOK
      <4>2. \/ worker'[w] = worker[w]
            \/ worker'[w] = [worker[w] EXCEPT !.renewing = FALSE]
        BY <2>2
      <4>. QED
        BY <4>1, <4>2 DEF WorkerState, ConsistentWorker, ExecutingPC
    <3>. QED
      BY <2>2, <3>1 DEF WorkerOK
  <2>. QED
    BY <2>1, <2>2 DEF RenewalNext, RenewLease, LoseRenewal
<1>. QED
  BY <1>0, <1>1, <1>2, <1>3, <1>4
  DEF TypeInv, TypeOK, SchedulerOK, RequestOK

(* The first layer is inductive.                                            *)
LEMMA TypeStep == TypeInv /\ [Next]_vars => TypeInv'
<1>. SUFFICES ASSUME TypeInv, [Next]_vars PROVE TypeInv'
  OBVIOUS
<1>1. CASE Tick
  BY <1>1, ConstantsAssumption
  DEF Tick, TypeInv, TypeOK, WorkerOK, SchedulerOK, RequestOK
<1>2. CASE \E w \in Workers : WorkerNext(w)
  BY <1>2, TypeWorker
<1>3. CASE \E r \in renewals : RenewalNext(r)
  BY <1>3, TypeRenewal
<1>4. CASE \E s \in Schedulers : SchedulerNext(s)
  BY <1>4, TypeScheduler
<1>5. CASE \E a \in Requests : RequestNext(a)
  BY <1>5, TypeRequest
<1>6. CASE UNCHANGED vars
  BY <1>6 DEF vars, TypeInv, TypeOK, WorkerOK, SchedulerOK, RequestOK
<1>. QED
  BY <1>1, <1>2, <1>3, <1>4, <1>5, <1>6 DEF Next

(* Every variable keeps its type.                                           *)
THEOREM TypeCorrect == Spec => []TypeOK
<1>1. TypeInv => TypeOK
  BY DEF TypeInv
<1>. QED
  BY <1>1, TypeInit, TypeStep, PTL DEF Spec
=============================================================================
