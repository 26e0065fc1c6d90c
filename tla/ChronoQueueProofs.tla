------------------------- MODULE ChronoQueueProofs -------------------------
(***************************************************************************)
(* The system with the real queue behaves as JobLifecycle says, so what is *)
(* proved there holds here.  Of the queue itself: it holds no message for  *)
(* a row that has not been queued, hands out a message twice at most, and  *)
(* keeps one for every QUEUED row under the faults that FewFaults names.   *)
(***************************************************************************)
EXTENDS ChronoQueue, JobLedgerProofs, FiniteSetTheorems

(* Every step of the system is a step of the processes, or of the queue     *)
(* alone.                                                                   *)
LEMMA QStepIsStep == [QNext]_qvars => [Next]_vars
<1>. SUFFICES ASSUME [QNext]_qvars PROVE [Next]_vars
  OBVIOUS
<1>1. ASSUME NEW w \in Workers, QWorkerNext(w) PROVE WorkerNext(w)
  BY <1>1 DEF QWorkerNext, WorkerNext, QFetchMessage, QFinishMessage
<1>2. ASSUME NEW s \in Schedulers, QSchedulerNext(s) PROVE SchedulerNext(s)
  BY <1>2 DEF QSchedulerNext, SchedulerNext, QEnqueue
<1>3. ASSUME NEW a \in Requests, QRequestNext(a) PROVE RequestNext(a)
  BY <1>3
  DEF QRequestNext, RequestNext, QRemoveStaleRecord, QEnqueueRetriggered,
      QEnqueueRetriggeredThrows
<1>4. ASSUME NEW j \in Jobs, Stall(j) PROVE UNCHANGED vars
  BY <1>4 DEF Stall
<1>5. UNCHANGED qvars => UNCHANGED vars
  BY DEF qvars
<1>. QED
  BY <1>1, <1>2, <1>3, <1>4, <1>5 DEF QNext, Next

(* The system with its queue is one of the behaviours of JobLifecycle.      *)
THEOREM QueueRefines == QSpec => Spec
<1>1. QInit => Init
  BY DEF QInit
<1>. QED
  BY <1>1, QStepIsStep, PTL DEF QSpec, Spec

(* So the fence holds in the system, whatever BullMQ redelivers.            *)
THEOREM SystemMutualExclusion == QSpec => []ExclusiveOwner
  BY QueueRefines, MutualExclusion, PTL

(* Nor does the queue bring about any other state or step of a row: what    *)
(* JobLifecycle promises of the columns holds in the system.                *)
THEOREM SystemKeepsRows ==
    QSpec => /\ [](LeaseIffProcessing /\ OwnerIsCurrent /\ NoPhantomAttempt)
             /\ [](RetryingHasBudget /\ DiagnosisKept)
             /\ SucceededIsFinal /\ StatusMovesAllowed /\ LiveLeaseRespected
<1>1. Spec => [](LeaseIffProcessing /\ OwnerIsCurrent /\ NoPhantomAttempt)
  BY LeaseColumns, OwnerCurrent, AttemptsAreReal, PTL
<1>2. Spec => [](RetryingHasBudget /\ DiagnosisKept)
  BY RetriesAreBounded, Diagnosed, PTL
<1>. QED
  BY <1>1, <1>2, QueueRefines, SuccessIsFinal, StatusMoves, LiveLeases, PTL

(* And the system implements the ledger.                                    *)
THEOREM SystemRefinesLedger == QSpec => ImplementsLedger
  BY QueueRefines, Refinement, PTL

-----------------------------------------------------------------------------
(* The messages.                                                            *)

Busy(j) ==
    \/ \E s \in Schedulers : scheduler[s].pc = "enqueueing" /\ scheduler[s].job = j
    \/ \E a \in Requests : request[a].pc # "idle" /\ request[a].job = j

OnlyQueued == \A j \in Jobs : Busy(j) => rows[j].status # "PENDING"

QueueInv ==
    /\ TypeInv
    /\ bull \in [Jobs -> Record]
    /\ OnlyQueued
    /\ MessageOnlyOnceQueued

(* No row goes back to PENDING.                                             *)
LEMMA NeverPendingAgain ==
    ASSUME TypeInv, [Next]_vars, NEW j \in Jobs, rows[j].status # "PENDING"
    PROVE  rows'[j].status # "PENDING"
  BY RowSteps
  DEF RowStep, RowKept, RowClaimed, RowRenewed, RowQueued, RowRevoked,
      RowCompleted, RowRecovered, RowEnded

(* A scheduler that enqueues a row has done so before, or has just made the *)
(* row QUEUED.                                                              *)
LEMMA EnqueueOrigin ==
    ASSUME TypeInv, [Next]_vars, NEW s \in Schedulers,
           scheduler'[s].pc = "enqueueing"
    PROVE  \/ scheduler[s].pc = "enqueueing" /\ scheduler'[s].job = scheduler[s].job
           \/ /\ scheduler'[s].job \in Jobs
              /\ rows'[scheduler'[s].job].status = "QUEUED"
<1>0. /\ scheduler \in [Schedulers -> SchedulerState]
      /\ \A t \in Schedulers : scheduler[t] \in SchedulerState
      /\ rows \in [Jobs -> Row]
  BY DEF TypeInv, TypeOK
<1>. DEFINE Origin ==
       \/ scheduler[s].pc = "enqueueing" /\ scheduler'[s].job = scheduler[s].job
       \/ /\ scheduler'[s].job \in Jobs
          /\ rows'[scheduler'[s].job].status = "QUEUED"
<1>1. CASE scheduler' = scheduler
  BY <1>1
<1>2. ASSUME NEW t \in Schedulers, SchedulerNext(t) PROVE Origin
  <2>1. CASE s # t
    <3>1. scheduler'[s] = scheduler[s]
      BY <1>0, <1>2, <2>1
      DEF SchedulerNext, SelectStale, SelectStaleThrows, RecoverStaleJob,
          RecoverStaleJobThrows, SelectDue, QueueDueJob, QueueDueJobThrows,
          Enqueue, SchedulerCrash
    <3>. QED
      BY <3>1
  <2>2. CASE s = t
    <3>1. CASE \E job \in scheduler[t].due : QueueDueJob(t, job)
      <4>1. PICK job \in scheduler[t].due : QueueDueJob(t, job)
        BY <3>1
      <4>2. job.job \in Jobs /\ rows[job.job] \in Row
        BY <1>0 DEF SchedulerState, DueJob
      <4>3. CASE isValidTransition(job.status, "QUEUED") /\ rows[job.job].status = job.status
        <5>1. /\ scheduler'[t].job = job.job
              /\ rows' = [rows EXCEPT ![job.job] = QueuedRow(rows[job.job])]
          BY <1>0, <4>1, <4>3 DEF QueueDueJob, SchedulerState
        <5>2. rows'[job.job].status = "QUEUED"
          BY <1>0, <4>2, <5>1 DEF QueuedRow, Row
        <5>. QED
          BY <2>2, <4>2, <5>1, <5>2
      <4>4. CASE ~(isValidTransition(job.status, "QUEUED") /\ rows[job.job].status = job.status)
        <5>1. scheduler'[t].pc = scheduler[t].pc /\ scheduler'[t].job = scheduler[t].job
          BY <1>0, <4>1, <4>4 DEF QueueDueJob, SchedulerState
        <5>. QED
          BY <2>2, <5>1
      <4>. QED
        BY <4>3, <4>4
    <3>2. CASE \E job \in scheduler[t].due : QueueDueJobThrows(t, job)
      <4>1. scheduler'[t].pc = scheduler[t].pc /\ scheduler'[t].job = scheduler[t].job
        BY <1>0, <3>2 DEF QueueDueJobThrows, SchedulerState
      <4>. QED
        BY <2>2, <4>1
    <3>3. CASE SelectStale(t) \/ SelectStaleThrows(t)
      <4>1. scheduler'[t].pc = "recovering"
        BY <1>0, <3>3 DEF SelectStale, SelectStaleThrows, SchedulerState
      <4>. QED
        BY <2>2, <4>1
    <3>4. CASE SelectDue(t) \/ Enqueue(t) \/ SchedulerCrash(t)
      <4>1. scheduler'[t].pc = "polling"
        <5>1. CASE SelectDue(t)
          <6>1. PICK due :
                  scheduler' = [scheduler EXCEPT ![t].pc = "polling", ![t].due = due]
            BY <5>1 DEF SelectDue
          <6>. QED
            BY <1>0, <6>1 DEF SchedulerState
        <5>2. CASE Enqueue(t)
          BY <1>0, <5>2 DEF Enqueue, SchedulerState
        <5>3. CASE SchedulerCrash(t)
          BY <1>0, <5>3 DEF SchedulerCrash, IdleScheduler
        <5>. QED
          BY <3>4, <5>1, <5>2, <5>3
      <4>. QED
        BY <2>2, <4>1
    <3>5. CASE \E job \in scheduler[t].stale :
                 RecoverStaleJob(t, job) \/ RecoverStaleJobThrows(t, job)
      <4>1. PICK job :
              /\ scheduler[t].pc = "recovering"
              /\ scheduler' = [scheduler EXCEPT ![t].stale = @ \ {job}]
        BY <3>5 DEF RecoverStaleJob, RecoverStaleJobThrows
      <4>2. scheduler'[t].pc = "recovering"
        BY <1>0, <4>1 DEF SchedulerState
      <4>. QED
        BY <2>2, <4>2
    <3>. QED
      BY <1>2, <3>1, <3>2, <3>3, <3>4, <3>5 DEF SchedulerNext
  <2>. QED
    BY <2>1, <2>2
<1>3. scheduler' = scheduler \/ \E t \in Schedulers : SchedulerNext(t)
  BY SchedulersOwnSteps
<1>. QED
  BY <1>1, <1>2, <1>3
(* A queue operation replaces one record, by a well-typed one, and makes    *)
(* one where there was none only for a row that somebody enqueues.          *)
LEMMA QueueSteps ==
    ASSUME TypeInv, bull \in [Jobs -> Record], [QNext]_qvars
    PROVE  \/ bull' = bull
           \/ \E j \in Jobs, record \in Record :
                /\ bull' = [bull EXCEPT ![j] = record]
                /\ \/ bull[j].state # "absent"
                   \/ record.state = "absent"
                   \/ Busy(j)
<1>0. /\ \A w \in Workers : worker[w].pc # "idle" => worker[w].job \in Jobs
      /\ \A s \in Schedulers : scheduler[s].pc = "enqueueing" => scheduler[s].job \in Jobs
      /\ \A a \in Requests : request[a].pc # "idle" => request[a].job \in Jobs
      /\ \A j \in Jobs : bull[j] \in Record
  BY DEF TypeInv, WorkerOK, ConsistentWorker, SchedulerOK, RequestOK
<1>. DEFINE Operation(j) ==
       \E record \in Record :
         /\ bull' = [bull EXCEPT ![j] = record]
         /\ bull[j].state # "absent" \/ record.state = "absent" \/ Busy(j)
<1>1. ASSUME NEW j \in Jobs, Busy(j), Add(j) PROVE bull' = bull \/ Operation(j)
  <2>1. Rec("waiting", Null, FALSE) \in Record
    BY DEF Rec, Record
  <2>. QED
    BY <1>1, <2>1 DEF Add, Set
<1>2. ASSUME NEW j \in Jobs, Remove(j) PROVE Operation(j)
  <2>1. Absent \in Record /\ Absent.state = "absent"
    BY DEF Absent, Rec, Record
  <2>. QED
    BY <1>2, <2>1 DEF Remove, Set
<1>3. ASSUME NEW w \in Workers, QWorkerNext(w)
      PROVE  bull' = bull \/ \E j \in Jobs : Operation(j)
  <2>1. CASE \E j \in Jobs : QFetchMessage(w, j)
    <3>1. PICK j \in Jobs : QFetchMessage(w, j)
      BY <2>1
    <3>2. Rec("active", w, bull[j].stalled) \in Record
      BY <1>0 DEF Rec, Record
    <3>. QED
      BY <3>1, <3>2 DEF QFetchMessage, Set
  <2>2. CASE QFinishMessage(w)
    <3>. DEFINE j == worker[w].job
                state == IF worker[w].pc = "resolved" THEN "completed" ELSE "failed"
    <3>1. j \in Jobs
      BY <1>0, <2>2 DEF QFinishMessage, FinishMessage
    <3>2. Rec(state, Null, bull[j].stalled) \in Record
      BY <1>0, <3>1 DEF Rec, Record
    <3>. QED
      BY <2>2, <3>1, <3>2 DEF QFinishMessage, Finish, Set
  <2>. QED
    BY <1>3, <2>1, <2>2 DEF QWorkerNext
<1>4. ASSUME NEW s \in Schedulers, QSchedulerNext(s)
      PROVE  bull' = bull \/ \E j \in Jobs : Operation(j)
  <2>1. CASE QEnqueue(s)
    BY <1>0, <1>1, <2>1 DEF QEnqueue, Enqueue, Busy
  <2>. QED
    BY <1>4, <2>1 DEF QSchedulerNext
<1>5. ASSUME NEW a \in Requests, QRequestNext(a)
      PROVE  bull' = bull \/ \E j \in Jobs : Operation(j)
  <2>1. CASE request[a].pc = "idle"
    BY <1>5, <2>1
    DEF QRequestNext, QRemoveStaleRecord, QEnqueueRetriggered,
        QEnqueueRetriggeredThrows, RemoveStaleRecord, EnqueueRetriggered,
        EnqueueRetriggeredThrows
  <2>2. CASE request[a].pc # "idle"
    <3>1. request[a].job \in Jobs /\ Busy(request[a].job)
      BY <1>0, <2>2 DEF Busy
    <3>2. bull' = bull \/ Add(request[a].job) \/ Remove(request[a].job)
      BY <1>5
      DEF QRequestNext, QRemoveStaleRecord, QEnqueueRetriggered,
          QEnqueueRetriggeredThrows
    <3>. QED
      BY <1>1, <1>2, <3>1, <3>2
  <2>. QED
    BY <2>1, <2>2
<1>6. ASSUME NEW j \in Jobs, Stall(j) PROVE Operation(j)
  <2>1. Rec("failed", Null, TRUE) \in Record /\ Rec("waiting", Null, TRUE) \in Record
    BY DEF Rec, Record
  <2>. QED
    BY <1>6, <2>1 DEF Stall, Set
<1>. QED
  BY <1>3, <1>4, <1>5, <1>6 DEF QNext, qvars

(* The queue's part of the invariant is kept by every step.                 *)
LEMMA QueueStep == QueueInv /\ [QNext]_qvars => QueueInv'
<1>. SUFFICES ASSUME QueueInv, [QNext]_qvars PROVE QueueInv'
  OBVIOUS
<1>0. TypeInv /\ [Next]_vars /\ bull \in [Jobs -> Record]
  BY QStepIsStep DEF QueueInv
<1>1. TypeInv'
  BY <1>0, TypeStep
<1>2. OnlyQueued'
  <2>. SUFFICES ASSUME NEW j \in Jobs, Busy(j)' PROVE rows'[j].status # "PENDING"
    BY DEF OnlyQueued
  <2>1. Busy(j) \/ rows[j].status = "DEAD" \/ rows'[j].status = "QUEUED"
    BY <1>0, EnqueueOrigin, RequestOrigin DEF Busy
  <2>2. rows[j].status # "PENDING" \/ rows'[j].status = "QUEUED"
    BY <2>1 DEF QueueInv, OnlyQueued
  <2>. QED
    BY <1>0, <2>2, NeverPendingAgain
<1>3. (bull \in [Jobs -> Record])'
  BY <1>0, QueueSteps
<1>4. MessageOnlyOnceQueued'
  <2>. SUFFICES ASSUME NEW j \in Jobs, bull'[j].state # "absent"
                PROVE  rows'[j].status # "PENDING"
    BY DEF MessageOnlyOnceQueued
  <2>1. bull[j].state # "absent" \/ Busy(j)
    BY <1>0, QueueSteps
  <2>2. rows[j].status # "PENDING"
    BY <2>1 DEF QueueInv, OnlyQueued, MessageOnlyOnceQueued
  <2>. QED
    BY <1>0, <2>2, NeverPendingAgain
<1>. QED
  BY <1>1, <1>2, <1>3, <1>4 DEF QueueInv

(* The queue is empty before anything has been queued.                      *)
LEMMA QueueInit == QInit => QueueInv
<1>. SUFFICES ASSUME QInit PROVE QueueInv
  OBVIOUS
<1>1. Init /\ bull = [j \in Jobs |-> Absent]
  BY DEF QInit
<1>2. Absent \in Record /\ Absent.state = "absent"
  BY DEF Absent, Rec, Record
<1>3. OnlyQueued
  BY <1>1 DEF OnlyQueued, Busy, Init, IdleScheduler, IdleRequest
<1>4. MessageOnlyOnceQueued
  BY <1>1, <1>2 DEF MessageOnlyOnceQueued
<1>. QED
  BY <1>1, <1>2, <1>3, <1>4, TypeInit DEF QueueInv

(* Types and MessageOnlyOnceQueued are inductive together.                  *)
LEMMA QueueInductive == QSpec => []QueueInv
  BY QueueInit, QueueStep, PTL DEF QSpec

(* Every variable of the system keeps its type.                             *)
THEOREM SystemTypes == QSpec => []QTypeOK
<1>1. QueueInv => QTypeOK
  BY DEF QueueInv, TypeInv, QTypeOK
<1>. QED
  BY <1>1, QueueInductive, PTL

(* BullMQ never has a record, of whatever state, for a row that the         *)
(* scheduler has not queued.                                                *)
THEOREM NoEarlyMessage == QSpec => []MessageOnlyOnceQueued
<1>1. QueueInv => MessageOnlyOnceQueued
  BY DEF QueueInv
<1>. QED
  BY <1>1, QueueInductive, PTL

-----------------------------------------------------------------------------
(* The budget.  Without re-triggers no record is ever removed, so BullMQ    *)
(* hands out the message of a row twice at most; and a row with a single    *)
(* attempt is not queued again.                                             *)

Claimers(j) == {w \in Workers : worker[w].pc = "claiming" /\ worker[w].job = j}

(* How many times BullMQ may still hand out the message of a record.        *)
Deliveries(record) ==
    CASE record.state = "absent" -> 2
      [] record.state = "waiting" -> IF record.stalled THEN 1 ELSE 2
      [] record.state = "active" -> IF record.stalled THEN 0 ELSE 1
      [] record.state \in {"completed", "failed"} -> 0

TwoDeliveries ==
    \A j \in Jobs :
      /\ IsFiniteSet(Claimers(j))
      /\ executions[j] + Cardinality(Claimers(j)) + Deliveries(bull[j]) <= 2

(* A row with a single attempt is claimed once.                             *)
ClaimedOnce ==
    \A j \in Jobs : rows[j].maxAttempts = 1 =>
      /\ rows[j].status # "RETRYING"
      /\ rows[j].status \in {"PENDING", "QUEUED"} => executions[j] = 0
      /\ executions[j] <= 1

(* What a step does to the message of a row and to those who got it.        *)
NothingGained(j) ==
    /\ executions'[j] = executions[j]
    /\ Claimers(j)' \subseteq Claimers(j)
    /\ Deliveries(bull'[j]) <= Deliveries(bull[j])

HandedOut(j) ==
    /\ executions'[j] = executions[j]
    /\ \E w \in Workers : Claimers(j)' = Claimers(j) \cup {w}
    /\ Deliveries(bull'[j]) = Deliveries(bull[j]) - 1

Claimed(j) ==
    /\ executions'[j] = executions[j] + 1
    /\ \E w \in Claimers(j) : Claimers(j)' = Claimers(j) \ {w}
    /\ bull'[j] = bull[j]

(* The deliveries that are left, state by state.                            *)
LEMMA DeliveriesLeft ==
    /\ \A record \in Record :
         /\ Deliveries(record) \in 0 .. 2
         /\ record.state = "waiting" => Deliveries(record) = IF record.stalled THEN 1 ELSE 2
         /\ record.state = "active" => Deliveries(record) = IF record.stalled THEN 0 ELSE 1
         /\ record.state = "absent" => Deliveries(record) = 2
    /\ \A w : \A stalled \in BOOLEAN :
         /\ Deliveries(Rec("waiting", w, stalled)) = IF stalled THEN 1 ELSE 2
         /\ Deliveries(Rec("active", w, stalled)) = IF stalled THEN 0 ELSE 1
         /\ Deliveries(Rec("completed", w, stalled)) = 0
         /\ Deliveries(Rec("failed", w, stalled)) = 0
  BY DEF Deliveries, Record, Rec

(* Every step hands out the message of a row, turns one that was handed out *)
(* into an execution, or gives nobody more than before.                     *)
LEMMA MessageSteps ==
    ASSUME TypeInv, bull \in [Jobs -> Record], Requests = {}, [QNext]_qvars,
           NEW j \in Jobs
    PROVE  NothingGained(j) \/ HandedOut(j) \/ Claimed(j)
<1>0. /\ worker \in [Workers -> WorkerState] /\ \A w \in Workers : worker[w] \in WorkerState
      /\ executions \in [Jobs -> Nat]
      /\ bull[j] \in Record
      /\ \A w \in Workers : worker[w].pc # "idle" => worker[w].job \in Jobs
      /\ \A s \in Schedulers : scheduler[s].pc = "enqueueing" => scheduler[s].job \in Jobs
  BY DEF TypeInv, TypeOK, WorkerOK, ConsistentWorker, SchedulerOK
<1>1. CASE /\ UNCHANGED <<worker, executions>>
           /\ Deliveries(bull'[j]) <= Deliveries(bull[j])
  BY <1>1 DEF NothingGained, Claimers
<1>2. Deliveries(bull[j]) \in 0 .. 2
  BY <1>0, DeliveriesLeft
<1>3. CASE UNCHANGED <<worker, executions, bull>>
  BY <1>1, <1>2, <1>3
<1>4. ASSUME NEW w \in Workers, NEW i \in Jobs, QFetchMessage(w, i)
      PROVE  NothingGained(j) \/ HandedOut(j)
  <2>1. /\ worker[w].pc = "idle" /\ executions' = executions
        /\ worker' = [worker EXCEPT ![w] = [worker[w] EXCEPT !.pc = "claiming", !.job = i]]
        /\ bull[i].state = "waiting"
        /\ bull' = [bull EXCEPT ![i] = Rec("active", w, bull[i].stalled)]
    BY <1>0, <1>4 DEF QFetchMessage, FetchMessage, Set
  <2>2. /\ worker'[w].pc = "claiming" /\ worker'[w].job = i
        /\ \A v \in Workers \ {w} : worker'[v] = worker[v]
    BY <1>0, <2>1 DEF WorkerState
  <2>3. CASE i = j
    <3>1. Claimers(j)' = Claimers(j) \cup {w}
      BY <2>2, <2>3 DEF Claimers
    <3>2. bull'[j] = Rec("active", w, bull[j].stalled)
      BY <2>1, <2>3
    <3>3. Deliveries(bull'[j]) = Deliveries(bull[j]) - 1
      BY <1>0, <2>1, <2>3, <3>2, DeliveriesLeft DEF Record
    <3>. QED
      BY <2>1, <3>1, <3>3 DEF HandedOut
  <2>4. CASE i # j
    <3>1. Claimers(j)' = Claimers(j)
      BY <2>1, <2>2, <2>4 DEF Claimers
    <3>2. bull'[j] = bull[j]
      BY <2>1, <2>4
    <3>. QED
      BY <1>2, <2>1, <3>1, <3>2 DEF NothingGained
  <2>. QED
    BY <2>3, <2>4
<1>5. ASSUME NEW w \in Workers, QFinishMessage(w)
      PROVE  NothingGained(j)
  <2>1. /\ worker[w].pc # "idle" /\ worker' = [worker EXCEPT ![w] = IdleWorker]
        /\ executions' = executions
    BY <1>5 DEF QFinishMessage, FinishMessage
  <2>2. Claimers(j)' \subseteq Claimers(j)
    BY <1>0, <2>1 DEF Claimers, IdleWorker
  <2>3. Deliveries(bull'[j]) <= Deliveries(bull[j])
    <3>1. PICK state \in {"completed", "failed"} : Finish(w, state)
      BY <1>5 DEF QFinishMessage
    <3>2. bull'[j] = bull[j] \/ bull'[j] = Rec(state, Null, bull[j].stalled)
      BY <1>0, <2>1, <3>1 DEF Finish, Set
    <3>. QED
      <4>1. CASE bull'[j] = bull[j]
        BY <1>2, <4>1
      <4>2. CASE bull'[j] = Rec(state, Null, bull[j].stalled)
        <5>1. Deliveries(bull'[j]) = 0
          BY <1>0, <4>2, DeliveriesLeft DEF Record
        <5>. QED
          BY <1>2, <5>1
      <4>. QED
        BY <3>2, <4>1, <4>2
  <2>. QED
    BY <2>1, <2>2, <2>3 DEF NothingGained
<1>6. ASSUME NEW w \in Workers, Claims(w), UNCHANGED bull
      PROVE  NothingGained(j) \/ Claimed(j)
  <2>. DEFINE i == worker[w].job
  <2>1. /\ worker[w].pc = "claiming" /\ i \in Jobs
        /\ executions' = [executions EXCEPT ![i] = @ + 1]
        /\ worker'[w].pc \in {"delivering", "threw"}
        /\ \A v \in Workers \ {w} : worker'[v] = worker[v]
    <3>1. CASE ClaimJob(w)
      BY <1>0, <3>1 DEF ClaimJob, ExecuteClaim
    <3>2. CASE ClaimJobThrows(w)
      BY <1>0, <3>2 DEF ClaimJobThrows, ExecuteClaim, Settle, IdleWorker
    <3>. QED
      BY <1>6, <3>1, <3>2 DEF Claims
  <2>2. CASE i = j
    <3>1. w \in Claimers(j) /\ Claimers(j)' = Claimers(j) \ {w}
      BY <2>1, <2>2 DEF Claimers
    <3>. QED
      BY <1>0, <1>6, <2>1, <2>2, <3>1 DEF Claimed
  <2>3. CASE i # j
    <3>1. Claimers(j)' = Claimers(j)
      BY <2>1, <2>3 DEF Claimers
    <3>. QED
      BY <1>0, <1>2, <1>6, <2>1, <2>3, <3>1 DEF NothingGained
  <2>. QED
    BY <2>2, <2>3
<1>7. ASSUME NEW w \in Workers, UNCHANGED bull,
             \/ ClaimConflict(w) \/ CompleteProcessing(w) \/ RecordSuccessThrows(w)
             \/ \E answer \in Answers : DeliverWebhook(w, answer)
             \/ ProcessorThrows(w) \/ WorkerCrash(w) \/ SendRenewal(w)
      PROVE  NothingGained(j)
  <2>1. /\ executions' = executions
        /\ \A v \in Workers \ {w} : worker'[v] = worker[v]
    BY <1>0, <1>7
    DEF ClaimConflict, CompleteProcessing, RecordSuccessThrows, DeliverWebhook,
        ProcessorThrows, WorkerCrash, SendRenewal, Settle
  <2>2. worker'[w] = worker[w] \/ worker'[w].pc # "claiming"
    <3>1. CASE \E answer \in Answers : DeliverWebhook(w, answer)
      <4>1. PICK answer \in Answers : DeliverWebhook(w, answer)
        BY <3>1
      <4>2. worker'[w] = [worker[w] EXCEPT !.pc = "recording", !.outcome = answer]
        BY <1>0, <4>1 DEF DeliverWebhook
      <4>. QED
        BY <1>0, <4>2 DEF WorkerState
    <3>2. CASE RecordSuccessThrows(w)
      BY <1>0, <3>2 DEF RecordSuccessThrows, WorkerState
    <3>3. CASE ClaimConflict(w) \/ CompleteProcessing(w) \/ ProcessorThrows(w)
      BY <1>0, <3>3
      DEF ClaimConflict, CompleteProcessing, ProcessorThrows, Settle, IdleWorker
    <3>4. CASE WorkerCrash(w) \/ SendRenewal(w)
      BY <1>0, <3>4 DEF WorkerCrash, SendRenewal, IdleWorker
    <3>. QED
      BY <1>7, <3>1, <3>2, <3>3, <3>4
  <2>3. Claimers(j)' \subseteq Claimers(j)
    BY <2>1, <2>2 DEF Claimers
  <2>. QED
    BY <1>2, <1>7, <2>1, <2>3 DEF NothingGained
<1>8. ASSUME NEW r \in renewals, RenewalNext(r), UNCHANGED bull
      PROVE  NothingGained(j)
  <2>1. /\ executions' = executions
        /\ \A v \in Workers : \/ worker'[v] = worker[v]
                              \/ worker'[v] = [worker[v] EXCEPT !.renewing = FALSE]
    BY <1>8 DEF RenewalNext, RenewLease, LoseRenewal
  <2>2. \A v \in Workers : worker'[v].pc = worker[v].pc /\ worker'[v].job = worker[v].job
    BY <1>0, <2>1 DEF WorkerState
  <2>. QED
    BY <1>2, <1>8, <2>1, <2>2 DEF NothingGained, Claimers
<1>9. ASSUME NEW s \in Schedulers, QSchedulerNext(s)
      PROVE  NothingGained(j)
  <2>1. UNCHANGED <<worker, executions>>
    BY <1>9
    DEF QSchedulerNext, QEnqueue, SelectStale, SelectStaleThrows, RecoverStaleJob,
        RecoverStaleJobThrows, SelectDue, QueueDueJob, QueueDueJobThrows,
        Enqueue, SchedulerCrash, SchedulerOnly
  <2>2. CASE QEnqueue(s)
    <3>1. bull'[j] = bull[j] \/ (bull[j].state = "absent" /\ bull'[j] = Rec("waiting", Null, FALSE))
      BY <1>0, <2>2 DEF QEnqueue, Enqueue, Add, Set
    <3>2. Deliveries(Rec("waiting", Null, FALSE)) = 2
      BY DeliveriesLeft
    <3>3. bull[j].state = "absent" => Deliveries(bull[j]) = 2
      BY <1>0, DeliveriesLeft
    <3>4. Deliveries(bull'[j]) <= Deliveries(bull[j])
      <4>1. CASE bull'[j] = bull[j]
        BY <1>2, <4>1
      <4>2. CASE bull[j].state = "absent" /\ bull'[j] = Rec("waiting", Null, FALSE)
        <5>1. Deliveries(bull[j]) = 2
          BY <3>3, <4>2
        <5>2. Deliveries(bull'[j]) = 2
          BY <3>2, <4>2
        <5>. QED
          BY <5>1, <5>2
      <4>. QED
        BY <3>1, <4>1, <4>2
    <3>. QED
      BY <2>1, <3>4 DEF NothingGained, Claimers
  <2>3. CASE ~QEnqueue(s)
    BY <1>2, <1>9, <2>1, <2>3 DEF QSchedulerNext, NothingGained, Claimers
  <2>. QED
    BY <2>2, <2>3
<1>10. ASSUME NEW i \in Jobs, Stall(i)
       PROVE  NothingGained(j)
  <2>1. /\ UNCHANGED <<worker, executions>> /\ bull[i].state = "active"
        /\ bull' = [bull EXCEPT ![i] = IF bull[i].stalled THEN Rec("failed", Null, TRUE)
                                                         ELSE Rec("waiting", Null, TRUE)]
    BY <1>10 DEF Stall, Set, vars
  <2>2. Deliveries(bull'[j]) <= Deliveries(bull[j])
    <3>1. CASE i = j
      <4>1. Deliveries(bull[j]) = IF bull[j].stalled THEN 0 ELSE 1
        BY <1>0, <2>1, <3>1, DeliveriesLeft
      <4>2. Deliveries(bull'[j]) = IF bull[j].stalled THEN 0 ELSE 1
        BY <1>0, <2>1, <3>1, DeliveriesLeft
      <4>. QED
        BY <4>1, <4>2
    <3>2. CASE i # j
      <4>1. bull'[j] = bull[j]
        BY <2>1, <3>2
      <4>. QED
        BY <1>2, <4>1
    <3>. QED
      BY <3>1, <3>2
  <2>. QED
    BY <2>1, <2>2 DEF NothingGained, Claimers
<1>11. CASE Tick /\ UNCHANGED bull
  BY <1>3, <1>11 DEF Tick
<1>12. CASE UNCHANGED qvars
  BY <1>3, <1>12 DEF qvars, vars
<1>. QED
  BY <1>4, <1>5, <1>6, <1>7, <1>8, <1>9, <1>10, <1>11, <1>12 DEF QNext, QWorkerNext, Claims

-----------------------------------------------------------------------------
BudgetInv == IInv /\ bull \in [Jobs -> Record] /\ TwoDeliveries /\ ClaimedOnce

(* Before anything has happened.                                            *)
LEMMA BudgetInit == QInit => TwoDeliveries /\ ClaimedOnce
<1>. SUFFICES ASSUME QInit, NEW j \in Jobs
              PROVE  /\ IsFiniteSet(Claimers(j))
                     /\ executions[j] + Cardinality(Claimers(j)) + Deliveries(bull[j]) <= 2
                     /\ rows[j].status = "PENDING" /\ executions[j] = 0
  BY DEF TwoDeliveries, ClaimedOnce
<1>1. /\ bull[j] = Rec("absent", Null, FALSE) /\ executions[j] = 0
      /\ rows[j].status = "PENDING"
      /\ \A w \in Workers : worker[w].pc = "idle"
  BY DEF QInit, Init, Absent, NewRow, IdleWorker
<1>2. Deliveries(bull[j]) = 2
  BY <1>1 DEF Deliveries, Rec
<1>3. Claimers(j) = {}
  BY <1>1 DEF Claimers
<1>4. IsFiniteSet(Claimers(j)) /\ Cardinality(Claimers(j)) = 0
  BY <1>3, FS_EmptySet
<1>5. executions[j] + Cardinality(Claimers(j)) + Deliveries(bull[j]) <= 2
  <2>. DEFINE n == Cardinality(Claimers(j))
              D == Deliveries(bull[j])
  <2>1. n = 0 /\ D = 2
    BY <1>2, <1>4
  <2>. HIDE DEF n, D
  <2>2. executions[j] + n + D <= 2
    BY <1>1, <2>1
  <2>. QED
    BY <2>2 DEF n, D
<1>. QED
  BY <1>1, <1>4, <1>5

(* The message of a row is handed out twice at most.                        *)
LEMMA DeliveriesStep ==
    ASSUME TypeInv, bull \in [Jobs -> Record], Requests = {}, TwoDeliveries,
           (bull \in [Jobs -> Record])', [QNext]_qvars, TypeInv'
    PROVE  TwoDeliveries'
<1>. SUFFICES ASSUME NEW j \in Jobs
              PROVE  /\ IsFiniteSet(Claimers(j)')
                     /\ executions'[j] + Cardinality(Claimers(j)') + Deliveries(bull'[j]) <= 2
  BY DEF TwoDeliveries
<1>. DEFINE D == Deliveries(bull[j])
            D1 == Deliveries(bull'[j])
            n == Cardinality(Claimers(j))
            n1 == Cardinality(Claimers(j)')
<1>1. D \in 0 .. 2 /\ D1 \in 0 .. 2
  BY DeliveriesLeft
<1>2. executions[j] \in Nat /\ executions'[j] \in Nat
  BY DEF TypeInv, TypeOK
<1>3. IsFiniteSet(Claimers(j)) /\ executions[j] + n + D <= 2
  BY DEF TwoDeliveries
<1>4. n \in Nat
  BY <1>3, FS_CardinalityType
<1>5. CASE NothingGained(j)
  <2>1. IsFiniteSet(Claimers(j)') /\ n1 \in Nat /\ n1 <= n
    BY <1>3, <1>5, FS_Subset, FS_CardinalityType DEF NothingGained
  <2>2. executions'[j] = executions[j] /\ D1 <= D
    BY <1>5 DEF NothingGained
  <2>. HIDE DEF D, D1, n, n1
  <2>3. executions'[j] + n1 + D1 <= 2
    BY <1>1, <1>2, <1>3, <1>4, <2>1, <2>2
  <2>. QED
    BY <2>1, <2>3 DEF D1, n1
<1>6. CASE HandedOut(j)
  <2>1. PICK w \in Workers : Claimers(j)' = Claimers(j) \cup {w}
    BY <1>6 DEF HandedOut
  <2>2. IsFiniteSet(Claimers(j)') /\ n1 \in Nat /\ (n1 = n \/ n1 = n + 1)
    BY <1>3, <2>1, FS_AddElement, FS_CardinalityType
  <2>3. executions'[j] = executions[j] /\ D1 = D - 1
    BY <1>6 DEF HandedOut
  <2>. HIDE DEF D, D1, n, n1
  <2>4. executions'[j] + n1 + D1 <= 2
    BY <1>1, <1>2, <1>3, <1>4, <2>2, <2>3
  <2>. QED
    BY <2>2, <2>4 DEF D1, n1
<1>7. CASE Claimed(j)
  <2>1. PICK w \in Claimers(j) : Claimers(j)' = Claimers(j) \ {w}
    BY <1>7 DEF Claimed
  <2>2. IsFiniteSet(Claimers(j)') /\ n1 \in Nat /\ n1 = n - 1
    BY <1>3, <2>1, FS_RemoveElement, FS_CardinalityType
  <2>3. executions'[j] = executions[j] + 1 /\ D1 = D
    BY <1>7 DEF Claimed
  <2>. HIDE DEF D, D1, n, n1
  <2>4. executions'[j] + n1 + D1 <= 2
    BY <1>1, <1>2, <1>3, <1>4, <2>2, <2>3
  <2>. QED
    BY <2>2, <2>4 DEF D1, n1
<1>. QED
  BY <1>5, <1>6, <1>7, MessageSteps

(* A row with a single attempt does not wait for a retry.                   *)
LEMMA NeverRetrying ==
    ASSUME IInv, [Next]_vars, NEW j \in Jobs,
           rows[j].maxAttempts = 1, rows[j].status # "RETRYING"
    PROVE  rows'[j].maxAttempts = 1 /\ rows'[j].status # "RETRYING"
<1>0. TypeInv /\ FenceInv /\ ChargeInv
  BY DEF IInv
<1>1. RowStep(j)
  BY <1>0, RowSteps
<1>2. CASE RowCompleted(j)
  <2>1. PICK w \in Workers :
          /\ Executes(w, j, rows[j].leaseToken)
          /\ RowEnded(j, worker[w].attempt, worker[w].maxAttempts)
    BY <1>2 DEF RowCompleted
  <2>2. /\ worker[w].attempt = rows[j].attempts + 1 /\ worker[w].maxAttempts = 1
        /\ rows[j].attempts \in Nat
    BY <1>0, <2>1 DEF FenceInv, OwnerIsCurrent, TypeInv, TypeOK, Row
  <2>. QED
    BY <1>1, <2>1, <2>2 DEF RowEnded, RowStep
<1>3. CASE RowRecovered(j)
  <2>1. PICK s \in Schedulers : \E job \in scheduler[s].stale :
          job.job = j /\ RowEnded(j, job.attempts + 1, job.maxAttempts)
    BY <1>3 DEF RowRecovered
  <2>2. PICK job \in scheduler[s].stale :
          job.job = j /\ RowEnded(j, job.attempts + 1, job.maxAttempts)
    BY <2>1
  <2>3. job.attempts \in Nat
    BY <1>0 DEF TypeInv, TypeOK, SchedulerState, StaleJob
  <2>4. job.maxAttempts = 1
    BY <1>0, <2>2 DEF ChargeInv, SnapshotsSound
  <2>. QED
    BY <1>1, <2>2, <2>3, <2>4 DEF RowEnded, RowStep
<1>4. CASE \/ RowKept(j) \/ RowClaimed(j) \/ RowRenewed(j) \/ RowQueued(j)
           \/ RowRevoked(j)
  BY <1>1, <1>4
  DEF RowStep, RowKept, RowClaimed, RowRenewed, RowQueued, RowRevoked
<1>. QED
  BY <1>1, <1>2, <1>3, <1>4 DEF RowStep

(* A row with a single attempt is claimed once.                             *)
LEMMA ClaimedOnceStep ==
    ASSUME IInv, Requests = {}, ClaimedOnce, [Next]_vars
    PROVE  ClaimedOnce'
<1>0. TypeInv /\ FenceInv /\ ChargeInv
  BY DEF IInv
<1>. SUFFICES ASSUME NEW j \in Jobs, rows'[j].maxAttempts = 1
              PROVE  /\ rows'[j].status # "RETRYING"
                     /\ rows'[j].status \in {"PENDING", "QUEUED"} => executions'[j] = 0
                     /\ executions'[j] <= 1
  BY DEF ClaimedOnce
<1>1. RowStep(j)
  BY <1>0, RowSteps
<1>2. /\ rows[j].maxAttempts = 1 /\ rows[j].status # "RETRYING"
      /\ rows[j].status \in {"PENDING", "QUEUED"} => executions[j] = 0
      /\ executions[j] <= 1
  BY <1>1 DEF RowStep, ClaimedOnce
<1>3. rows'[j].status # "RETRYING"
  BY <1>2, NeverRetrying
<1>4. CASE RowKept(j) \/ RowRenewed(j)
  BY <1>2, <1>4 DEF RowKept, RowRenewed
<1>5. CASE RowClaimed(j)
  <2>1. executions[j] = 0
    BY <1>2, <1>5 DEF RowClaimed, CLAIMABLE_STATUSES
  <2>. QED
    BY <1>5, <2>1 DEF RowClaimed
<1>6. CASE RowQueued(j)
  BY <1>2, <1>6 DEF RowQueued, ForRequest
<1>7. CASE RowRevoked(j)
  BY <1>7 DEF RowRevoked
<1>8. CASE RowCompleted(j) \/ RowRecovered(j)
  <2>1. /\ rows[j].status = "PROCESSING" /\ executions'[j] = executions[j]
        /\ rows'[j].status \in {"SUCCEEDED", "RETRYING", "DEAD"}
    BY <1>8 DEF RowCompleted, RowRecovered, RowEnded
  <2>. QED
    BY <1>2, <1>3, <2>1
<1>. QED
  BY <1>1, <1>4, <1>5, <1>6, <1>7, <1>8 DEF RowStep

(* Without re-triggers no job is executed more often than max_attempts      *)
(* allows: whatever workers, schedulers, the database and Redis do.         *)
THEOREM Budget == Requests = {} => (QSpec => []ExecutionBudget)
<1>. SUFFICES ASSUME Requests = {} PROVE QSpec => []ExecutionBudget
  OBVIOUS
<1>1. QInit => BudgetInv
  <2>1. QInit => Init /\ QueueInv
    BY QueueInit DEF QInit
  <2>. QED
    BY <2>1, BudgetInit, TypeInit, FenceInit, ChargeInit, DiagnosisInit
    DEF BudgetInv, IInv, QueueInv
<1>2. BudgetInv /\ [QNext]_qvars => BudgetInv'
  <2>. SUFFICES ASSUME BudgetInv, [QNext]_qvars PROVE BudgetInv'
    OBVIOUS
  <2>1. IInv /\ IInv' /\ TypeInv /\ TypeInv'
    BY QStepIsStep, TypeStep, FenceStep, ChargeStep, DiagnosisStep DEF BudgetInv, IInv
  <2>2. (bull \in [Jobs -> Record])'
    BY <2>1, QueueSteps DEF BudgetInv
  <2>3. TwoDeliveries'
    BY <2>1, <2>2, DeliveriesStep DEF BudgetInv
  <2>4. ClaimedOnce'
    BY <2>1, QStepIsStep, ClaimedOnceStep DEF BudgetInv
  <2>. QED
    BY <2>1, <2>2, <2>3, <2>4 DEF BudgetInv
<1>3. BudgetInv => ExecutionBudget
  <2>. SUFFICES ASSUME BudgetInv, NEW j \in Jobs
                PROVE  executions[j] <= rows[j].maxAttempts
    BY DEF ExecutionBudget
  <2>1. executions[j] \in Nat /\ rows[j].maxAttempts \in Nat \ {0}
    BY DEF BudgetInv, IInv, TypeInv, TypeOK, Row
  <2>2. rows[j].maxAttempts = 1 => executions[j] <= 1
    BY DEF BudgetInv, ClaimedOnce
  <2>3. executions[j] <= 2
    <3>. DEFINE D == Deliveries(bull[j])
                n == Cardinality(Claimers(j))
    <3>1. D \in 0 .. 2 /\ n \in Nat /\ executions[j] + n + D <= 2
      BY DeliveriesLeft, FS_CardinalityType DEF BudgetInv, TwoDeliveries
    <3>. HIDE DEF D, n
    <3>. QED
      BY <2>1, <3>1
  <2>. QED
    BY <2>1, <2>2, <2>3
<1>. QED
  BY <1>1, <1>2, <1>3, PTL DEF QSpec

-----------------------------------------------------------------------------
(* Who drives a QUEUED row.  Rows have one attempt, and either Redis may    *)
(* fail the re-triggers or a worker may die once.                           *)

FewFaults ==
    /\ MaxAttemptsChoices \subseteq {1}
    /\ Faulty \subseteq {"crash", "request_redis"}
    /\ "crash" \in Faulty => MaxFaults <= 1

(* A request will remove the record of the row, or give the row up.         *)
WillRestart(j) ==
    \E a \in Requests :
      request[a].pc \in {"removing", "compensating"} /\ request[a].job = j

WillAdd(j) ==
    \/ \E s \in Schedulers : scheduler[s].pc = "enqueueing" /\ scheduler[s].job = j
    \/ \E a \in Requests : request[a].pc = "enqueueing" /\ request[a].job = j

(* The message waits, or the worker that has it is about to claim the row,  *)
(* or that worker is gone and the stalled checker will find the message.    *)
Message(j) ==
    \/ bull[j].state = "waiting"
    \/ /\ bull[j].state = "active"
       /\ worker[bull[j].lock].job = j => worker[bull[j].lock].pc = "claiming"

Driven(j) ==
    \/ WillRestart(j)
    \/ WillAdd(j) /\ bull[j].state = "absent"
    \/ Message(j)

(* An active message is with the worker that has its lock, or that worker   *)
(* died, which has not happened to this message before.                     *)
LockOK(j) ==
    /\ bull[j].state = "active" =>
         /\ bull[j].lock \in Workers
         /\ \/ worker[bull[j].lock].job = j /\ worker[bull[j].lock].pc # "idle"
            \/ worker[bull[j].lock].job # j /\ ~bull[j].stalled /\ faults >= 1
    /\ bull[j].stalled => faults >= 1

OneAttempt(j) == rows[j].maxAttempts = 1 /\ rows[j].status # "RETRYING"

DrivenInv ==
    /\ IInv /\ QueueInv
    /\ \A j \in Jobs :
         /\ OneAttempt(j) /\ LockOK(j)
         /\ rows[j].status = "QUEUED" => Driven(j)

(* What a step of worker w does to the message of a row.                    *)
Takes(w, j) ==
    /\ worker[w].pc = "idle" /\ bull[j].state = "waiting"
    /\ bull'[j] = Rec("active", w, bull[j].stalled)
    /\ worker'[w].pc = "claiming" /\ worker'[w].job = j
    /\ faults' = faults

Settles(w, j) ==
    /\ bull[j].state = "active" /\ bull[j].lock = w
    /\ worker[w].job = j /\ worker[w].pc # "claiming"
    /\ \E state \in {"completed", "failed"} : bull'[j] = Rec(state, Null, bull[j].stalled)
    /\ faults' = faults

Dies(w, j) ==
    /\ bull'[j] = bull[j] /\ worker'[w].job # j
    /\ "crash" \in Faulty /\ faults < MaxFaults /\ faults' = faults + 1

GoesOn(w, j) ==
    /\ bull'[j] = bull[j] /\ faults' = faults
    /\ worker'[w].job = j =>
         /\ worker[w].job = j /\ worker[w].pc # "idle" /\ worker'[w].pc # "idle"
         /\ worker[w].pc = "claiming" /\ rows'[j].status = "QUEUED" /\ rows[j].status = "QUEUED"
              => worker'[w].pc = "claiming"
    /\ worker'[w].job # j =>
         \/ worker[w].job # j \/ worker[w].pc = "idle"
         \/ bull[j].state # "active" \/ bull[j].lock # w

(* Every step of a worker is one of these four for every row.               *)
LEMMA MessageMoves ==
    ASSUME TypeInv, bull \in [Jobs -> Record], FewFaults, NEW w \in Workers,
           QWorkerNext(w), NEW j \in Jobs
    PROVE  /\ UNCHANGED <<scheduler, request>>
           /\ \A v \in Workers \ {w} : worker'[v] = worker[v]
           /\ Takes(w, j) \/ Settles(w, j) \/ Dies(w, j) \/ GoesOn(w, j)
<1>0. /\ worker \in [Workers -> WorkerState] /\ worker[w] \in WorkerState
      /\ rows \in [Jobs -> Row] /\ ConsistentWorker(worker[w])
      /\ worker[w].pc # "idle" => worker[w].job \in Jobs
      /\ bull[j] \in Record /\ Null \notin Jobs
  BY ConstantsAssumption DEF TypeInv, TypeOK, WorkerOK, ConsistentWorker
<1>. DEFINE Move == Takes(w, j) \/ Settles(w, j) \/ Dies(w, j) \/ GoesOn(w, j)
<1>1. UNCHANGED <<scheduler, request>>
  BY QStepIsStep
  DEF QWorkerNext, QFetchMessage, QFinishMessage, FetchMessage, ExecuteClaim,
      ClaimJob, ClaimJobThrows, ClaimConflict, DeliverWebhook, CompleteProcessing, RecordSuccessThrows,
      ProcessorThrows, FinishMessage, WorkerCrash, SendRenewal, WorkerOnly
<1>2. \A v \in Workers \ {w} : worker'[v] = worker[v]
  BY <1>0
  DEF QWorkerNext, QFetchMessage, QFinishMessage, FetchMessage, ExecuteClaim,
      ClaimJob, ClaimJobThrows, ClaimConflict, DeliverWebhook, CompleteProcessing, RecordSuccessThrows,
      ProcessorThrows, FinishMessage, WorkerCrash, SendRenewal, Settle
<1>3. ASSUME NEW i \in Jobs, QFetchMessage(w, i)
      PROVE  Move
  <2>1. /\ worker[w].pc = "idle" /\ bull[i].state = "waiting" /\ faults' = faults
        /\ worker' = [worker EXCEPT ![w] = [worker[w] EXCEPT !.pc = "claiming", !.job = i]]
        /\ bull' = [bull EXCEPT ![i] = Rec("active", w, bull[i].stalled)]
    BY <1>0, <1>3 DEF QFetchMessage, FetchMessage, Set
  <2>2. worker'[w].pc = "claiming" /\ worker'[w].job = i
    BY <1>0, <2>1 DEF WorkerState
  <2>3. CASE i = j
    BY <2>1, <2>2, <2>3 DEF Takes
  <2>4. CASE i # j
    BY <2>1, <2>2, <2>4 DEF GoesOn
  <2>. QED
    BY <2>3, <2>4
<1>4. ASSUME QFinishMessage(w) PROVE Move
  <2>1. /\ worker[w].pc \in {"resolved", "threw"} /\ worker'[w].job = Null /\ faults' = faults
    BY <1>0, <1>4 DEF QFinishMessage, FinishMessage, IdleWorker
  <2>2. PICK state \in {"completed", "failed"} : Finish(w, state)
    BY <1>4 DEF QFinishMessage
  <2>3. CASE worker[w].job = j /\ bull[j].state = "active" /\ bull[j].lock = w
    <3>1. bull'[j] = Rec(state, Null, bull[j].stalled)
      BY <2>2, <2>3 DEF Finish, Set
    <3>. QED
      BY <2>1, <2>3, <3>1 DEF Settles
  <2>4. CASE ~(worker[w].job = j /\ bull[j].state = "active" /\ bull[j].lock = w)
    <3>1. bull'[j] = bull[j]
      BY <2>2, <2>4 DEF Finish, Set
    <3>. QED
      BY <1>0, <2>1, <2>4, <3>1 DEF GoesOn
  <2>. QED
    BY <2>3, <2>4
<1>5. ASSUME ClaimJob(w), UNCHANGED bull PROVE Move
  <2>1. /\ worker[w].pc = "claiming" /\ faults' = faults
        /\ worker'[w].pc = "delivering" /\ worker'[w].job = worker[w].job
        /\ rows' = [rows EXCEPT ![worker[w].job] =
                      ClaimedRow(rows[worker[w].job], FreshToken(worker[w].job), now)]
    BY <1>0, <1>5 DEF ClaimJob, ExecuteClaim
  <2>2. worker[w].job = j => rows'[j].status = "PROCESSING"
    BY <1>0, <2>1 DEF ClaimedRow, Row
  <2>. QED
    BY <1>5, <2>1, <2>2 DEF GoesOn
<1>6. ASSUME ClaimConflict(w), UNCHANGED bull PROVE Move
  <2>1. /\ worker[w].pc = "claiming" /\ faults' = faults /\ rows' = rows
        /\ ~Claimable(rows[worker[w].job])
        /\ worker'[w].pc = "threw" /\ worker'[w].job = worker[w].job
    BY <1>0, <1>6 DEF ClaimConflict, Settle, IdleWorker
  <2>2. worker[w].job = j => rows[j].status # "QUEUED"
    BY <2>1 DEF Claimable, CLAIMABLE_STATUSES
  <2>. QED
    BY <1>6, <2>1, <2>2 DEF GoesOn
<1>7. ASSUME UNCHANGED bull,
             \/ \E answer \in Answers : DeliverWebhook(w, answer)
             \/ CompleteProcessing(w)
      PROVE  Move
  <2>1. /\ worker[w].pc \in {"delivering", "recording"} /\ faults' = faults
        /\ worker'[w].pc \in {"recording", "resolved", "threw"}
        /\ worker'[w].job = worker[w].job
    <3>1. CASE \E answer \in Answers : DeliverWebhook(w, answer)
      <4>1. PICK answer \in Answers : DeliverWebhook(w, answer)
        BY <3>1
      <4>2. worker'[w] = [worker[w] EXCEPT !.pc = "recording", !.outcome = answer]
        BY <1>0, <4>1 DEF DeliverWebhook
      <4>. QED
        BY <1>0, <4>1, <4>2 DEF WorkerState, DeliverWebhook
    <3>2. CASE CompleteProcessing(w)
      BY <1>0, <3>2 DEF CompleteProcessing, Settle, IdleWorker
    <3>. QED
      BY <1>7, <3>1, <3>2
  <2>. QED
    BY <1>7, <2>1 DEF GoesOn
<1>8. ASSUME UNCHANGED bull,
             ClaimJobThrows(w) \/ RecordSuccessThrows(w) \/ ProcessorThrows(w)
      PROVE  Move
  BY <1>8 DEF ClaimJobThrows, RecordSuccessThrows, ProcessorThrows, Fault, FewFaults
<1>9. ASSUME WorkerCrash(w), UNCHANGED bull PROVE Move
  BY <1>0, <1>9 DEF WorkerCrash, Fault, IdleWorker, Dies
<1>10. ASSUME SendRenewal(w), UNCHANGED bull PROVE Move
  <2>1. worker[w].pc # "idle" /\ worker' = worker /\ faults' = faults
    BY <1>0, <1>10 DEF SendRenewal, ConsistentWorker, ExecutingPC
  <2>. QED
    BY <1>10, <2>1 DEF GoesOn
<1>. QED
  BY <1>1, <1>2, <1>3, <1>4, <1>5, <1>6, <1>7, <1>8, <1>9, <1>10, SMTT(40) DEF QWorkerNext

(* The workers are where they were.                                         *)
Elsewhere ==
    /\ \A v \in Workers : worker'[v].pc = worker[v].pc /\ worker'[v].job = worker[v].job
    /\ faults' = faults \/ faults' = faults + 1

(* A step of anybody else leaves every worker in its place.                 *)
LEMMA OthersMove ==
    ASSUME TypeInv, [QNext]_qvars, ~\E w \in Workers : QWorkerNext(w)
    PROVE  Elsewhere
<1>0. \A v \in Workers : worker[v] \in WorkerState
  BY DEF TypeInv, TypeOK
<1>1. ASSUME NEW r \in renewals, RenewalNext(r) PROVE Elsewhere
  <2>1. /\ faults' = faults \/ faults' = faults + 1
        /\ \A v \in Workers : \/ worker'[v] = worker[v]
                              \/ worker'[v] = [worker[v] EXCEPT !.renewing = FALSE]
    BY <1>1 DEF RenewalNext, RenewLease, LoseRenewal, Fault
  <2>. QED
    BY <1>0, <2>1 DEF WorkerState, Elsewhere
<1>2. ASSUME NEW s \in Schedulers, QSchedulerNext(s) PROVE Elsewhere
  BY <1>2
  DEF QSchedulerNext, QEnqueue, SelectStale, SelectStaleThrows, RecoverStaleJob,
      RecoverStaleJobThrows, SelectDue, QueueDueJob, QueueDueJobThrows,
      Enqueue, SchedulerCrash, SchedulerOnly, Fault, Elsewhere
<1>3. ASSUME NEW a \in Requests, QRequestNext(a) PROVE Elsewhere
  BY <1>3
  DEF QRequestNext, QRemoveStaleRecord, QEnqueueRetriggered,
      QEnqueueRetriggeredThrows, RetriggerDeadJob, RemoveStaleRecord,
      EnqueueRetriggered, EnqueueRetriggeredThrows, Compensate, RequestCrash,
      RequestOnly, Fault, Elsewhere
<1>4. CASE Tick \/ UNCHANGED qvars \/ \E j \in Jobs : Stall(j)
  BY <1>4 DEF Tick, qvars, vars, Stall, Elsewhere
<1>. QED
  BY <1>1, <1>2, <1>3, <1>4 DEF QNext

(* What schedulers, requests and the stalled checker do to the message.     *)
Adds(j) == bull[j].state = "absent" /\ bull'[j] = Rec("waiting", Null, FALSE)

StallsOnce(j) ==
    /\ bull[j].state = "active"
    /\ Held(j) => "stall" \in Faulty
    /\ bull'[j] = IF bull[j].stalled THEN Rec("failed", Null, TRUE)
                                     ELSE Rec("waiting", Null, TRUE)

(* The queue's part of a step that no worker takes.                         *)
LEMMA OthersQueue ==
    ASSUME TypeInv, bull \in [Jobs -> Record], [QNext]_qvars, NEW j \in Jobs,
           ~\E w \in Workers : QWorkerNext(w)
    PROVE  bull'[j] = bull[j] \/ Adds(j) \/ bull'[j] = Absent \/ StallsOnce(j)
<1>0. bull[j] \in Record
  OBVIOUS
<1>. DEFINE Effect == bull'[j] = bull[j] \/ Adds(j) \/ bull'[j] = Absent \/ StallsOnce(j)
<1>1. ASSUME NEW i \in Jobs, Add(i) PROVE Effect
  BY <1>0, <1>1 DEF Add, Set, Adds
<1>2. ASSUME NEW i \in Jobs, Remove(i) PROVE Effect
  BY <1>0, <1>2 DEF Remove, Set
<1>3. ASSUME NEW s \in Schedulers, QSchedulerNext(s) PROVE Effect
  <2>1. CASE QEnqueue(s)
    <3>1. scheduler[s].job \in Jobs
      BY <2>1 DEF QEnqueue, Enqueue, TypeInv, SchedulerOK
    <3>. QED
      BY <1>1, <2>1, <3>1 DEF QEnqueue
  <2>. QED
    BY <1>3, <2>1 DEF QSchedulerNext
<1>4. ASSUME NEW a \in Requests, QRequestNext(a) PROVE Effect
  <2>1. bull' = bull \/ Add(request[a].job) \/ Remove(request[a].job)
    BY <1>4
    DEF QRequestNext, QRemoveStaleRecord, QEnqueueRetriggered,
        QEnqueueRetriggeredThrows
  <2>2. bull' = bull \/ request[a].pc # "idle"
    BY <1>4
    DEF QRequestNext, QRemoveStaleRecord, QEnqueueRetriggered,
        QEnqueueRetriggeredThrows, RemoveStaleRecord, EnqueueRetriggered,
        EnqueueRetriggeredThrows
  <2>3. bull' = bull \/ request[a].job \in Jobs
    BY <2>2 DEF TypeInv, RequestOK
  <2>. QED
    BY <1>1, <1>2, <2>1, <2>3
<1>5. ASSUME NEW i \in Jobs, Stall(i) PROVE Effect
  BY <1>0, <1>5 DEF Stall, Set, StallsOnce
<1>6. bull' = bull => Effect
  OBVIOUS
<1>. QED
  BY <1>3, <1>4, <1>5, <1>6 DEF QNext, qvars

(* A message that is active without its worker has been so once at most.    *)
LEMMA LockStep ==
    ASSUME TypeInv, bull \in [Jobs -> Record], FewFaults, [QNext]_qvars,
           NEW j \in Jobs, LockOK(j)
    PROVE  LockOK(j)'
<1>0. /\ faults \in Nat /\ MaxFaults \in Nat /\ bull[j] \in Record
      /\ "crash" \in Faulty => MaxFaults <= 1
      /\ "stall" \notin Faulty
  BY ConstantsAssumption DEF TypeInv, TypeOK, FewFaults
<1>1. ASSUME NEW w \in Workers, QWorkerNext(w) PROVE LockOK(j)'
  <2>0. \A v \in Workers \ {w} : worker'[v] = worker[v]
    BY <1>1, MessageMoves
  <2>1. CASE Takes(w, j)
    BY <1>0, <2>1 DEF Takes, LockOK, Rec, Record
  <2>2. CASE Settles(w, j)
    BY <1>0, <2>2 DEF Settles, LockOK, Rec, Record
  <2>3. CASE Dies(w, j)
    <3>1. faults' = 1 /\ ~bull[j].stalled
      BY <1>0, <2>3 DEF Dies, LockOK
    <3>. QED
      BY <1>0, <2>0, <2>3, <3>1 DEF Dies, LockOK
  <2>4. CASE GoesOn(w, j)
    <3>1. faults' = faults /\ bull'[j] = bull[j]
      BY <2>4 DEF GoesOn
    <3>2. CASE bull[j].state = "active" /\ bull[j].lock = w
      BY <2>4, <3>1, <3>2 DEF GoesOn, LockOK
    <3>3. CASE ~(bull[j].state = "active" /\ bull[j].lock = w)
      BY <2>0, <3>1, <3>3 DEF LockOK
    <3>. QED
      BY <3>2, <3>3
  <2>. QED
    BY <1>1, <2>1, <2>2, <2>3, <2>4, MessageMoves
<1>2. CASE ~\E w \in Workers : QWorkerNext(w)
  <2>1. Elsewhere
    BY <1>2, OthersMove
  <2>2. faults' >= faults /\ faults' \in Nat
    BY <1>0, <2>1 DEF Elsewhere
  <2>3. CASE bull'[j] = bull[j]
    BY <1>0, <2>1, <2>2, <2>3 DEF Elsewhere, LockOK
  <2>4. CASE Adds(j) \/ bull'[j] = Absent
    <3>1. bull'[j].state # "active" /\ ~bull'[j].stalled
      BY <2>4 DEF Adds, Absent, Rec
    <3>. QED
      BY <3>1 DEF LockOK
  <2>5. CASE StallsOnce(j)
    <3>1. bull'[j].state # "active" /\ faults >= 1
      BY <1>0, <2>5 DEF StallsOnce, Held, LockOK, Rec
    <3>. QED
      BY <1>0, <2>2, <3>1 DEF LockOK
  <2>. QED
    BY <1>2, <2>3, <2>4, <2>5, OthersQueue
<1>. QED
  BY <1>1, <1>2

(* The processes that wait, and their messages, when somebody else moves.   *)
LEMMA StillDriven ==
    ASSUME NEW j \in Jobs, Driven(j), LockOK(j), Elsewhere,
           bull'[j] = bull[j] \/ StallsOnce(j), FewFaults,
           UNCHANGED <<scheduler, request>>
    PROVE  Driven(j)'
<1>1. WillRestart(j)' = WillRestart(j) /\ WillAdd(j)' = WillAdd(j)
  BY DEF WillRestart, WillAdd
<1>2. CASE bull'[j] = bull[j]
  <2>1. Message(j) => Message(j)'
    BY <1>2 DEF Message, LockOK, Elsewhere
  <2>. QED
    BY <1>1, <1>2, <2>1 DEF Driven
<1>3. CASE StallsOnce(j)
  <2>1. bull[j].state = "active" /\ ~bull[j].stalled
    BY <1>3 DEF StallsOnce, Held, LockOK, FewFaults
  <2>2. bull'[j].state = "waiting"
    BY <1>3, <2>1 DEF StallsOnce, Rec
  <2>. QED
    BY <2>2 DEF Driven, Message
<1>. QED
  BY <1>2, <1>3

(* A row that stays QUEUED keeps its message when a worker moves: the       *)
(* holder of the message leaves it only by claiming the row or by dying.    *)
LEMMA DrivenByWorkers ==
    ASSUME TypeInv, bull \in [Jobs -> Record], FewFaults,
           NEW w \in Workers, QWorkerNext(w), NEW j \in Jobs, LockOK(j), Driven(j),
           rows[j].status = "QUEUED", rows'[j].status = "QUEUED"
    PROVE  Driven(j)'
<1>1. /\ UNCHANGED <<scheduler, request>>
      /\ \A v \in Workers \ {w} : worker'[v] = worker[v]
      /\ Takes(w, j) \/ Settles(w, j) \/ Dies(w, j) \/ GoesOn(w, j)
  BY MessageMoves
<1>2. WillRestart(j)' = WillRestart(j) /\ WillAdd(j)' = WillAdd(j)
  BY <1>1 DEF WillRestart, WillAdd
<1>3. CASE Takes(w, j)
  <2>1. Message(j)'
    BY <1>3 DEF Takes, Message, Rec
  <2>. QED
    BY <2>1 DEF Driven
<1>4. CASE Settles(w, j)
  <2>1. WillRestart(j)
    BY <1>4 DEF Settles, Driven, Message
  <2>. QED
    BY <1>2, <2>1 DEF Driven
<1>5. CASE Dies(w, j) \/ GoesOn(w, j)
  <2>1. bull'[j] = bull[j]
    BY <1>5 DEF Dies, GoesOn
  <2>2. ASSUME Message(j) PROVE Message(j)'
    <3>1. CASE bull[j].state = "waiting"
      BY <2>1, <3>1 DEF Message
    <3>2. CASE bull[j].state = "active"
      <4>1. CASE bull[j].lock = w
        <5>1. worker'[w].job = j => worker[w].job = j /\ worker'[w].pc = "claiming"
          BY <1>5, <2>2, <3>2, <4>1 DEF Dies, GoesOn, Message
        <5>. QED
          BY <2>1, <3>2, <4>1, <5>1 DEF Message
      <4>2. CASE bull[j].lock # w
        BY <1>1, <2>1, <2>2, <3>2, <4>2 DEF Message, LockOK
      <4>. QED
        BY <4>1, <4>2
    <3>. QED
      BY <2>2, <3>1, <3>2 DEF Message
  <2>. QED
    BY <1>2, <2>1, <2>2 DEF Driven
<1>. QED
  BY <1>1, <1>3, <1>4, <1>5

(* The same for a scheduler, whose add succeeds,                            *)
LEMMA DrivenBySchedulers ==
    ASSUME TypeInv, bull \in [Jobs -> Record], FewFaults,
           NEW s \in Schedulers, QSchedulerNext(s), Elsewhere,
           NEW j \in Jobs, LockOK(j), Driven(j)
    PROVE  Driven(j)'
<1>0. /\ scheduler \in [Schedulers -> SchedulerState]
      /\ \A t \in Schedulers : scheduler[t] \in SchedulerState
      /\ bull[j] \in Record
  BY DEF TypeInv, TypeOK
<1>1. request' = request
  BY DEF QSchedulerNext, QEnqueue, SelectStale, SelectStaleThrows,
         RecoverStaleJob, RecoverStaleJobThrows, SelectDue, QueueDueJob,
         QueueDueJobThrows, Enqueue, SchedulerCrash, SchedulerOnly
<1>2. WillRestart(j)' = WillRestart(j)
  BY <1>1 DEF WillRestart
<1>3. \A t \in Schedulers \ {s} : scheduler'[t] = scheduler[t]
  BY <1>0
  DEF QSchedulerNext, QEnqueue, SelectStale, SelectStaleThrows,
      RecoverStaleJob, RecoverStaleJobThrows, SelectDue, QueueDueJob,
      QueueDueJobThrows, Enqueue, SchedulerCrash
<1>4. CASE QEnqueue(s)
  <2>1. Add(scheduler[s].job) /\ scheduler[s].pc = "enqueueing"
    BY <1>4 DEF QEnqueue, Enqueue, Fault, FewFaults
  <2>2. scheduler[s].job \in Jobs
    BY <2>1 DEF TypeInv, SchedulerOK
  <2>3. CASE bull[j].state = "absent" /\ scheduler[s].job = j
    <3>1. bull'[j].state = "waiting"
      BY <1>0, <2>1, <2>3 DEF Add, Set, Rec
    <3>. QED
      BY <3>1 DEF Driven, Message
  <2>4. CASE bull[j].state # "absent" \/ scheduler[s].job # j
    <3>1. bull'[j] = bull[j]
      BY <1>0, <2>1, <2>2, <2>4 DEF Add, Set
    <3>2. Message(j) => Message(j)'
      BY <3>1 DEF Message, LockOK, Elsewhere
    <3>3. bull[j].state = "absent" /\ WillAdd(j) => WillAdd(j)'
      BY <1>1, <1>3, <2>4 DEF WillAdd
    <3>. QED
      BY <1>2, <3>1, <3>2, <3>3 DEF Driven
  <2>. QED
    BY <2>3, <2>4
<1>5. CASE ~QEnqueue(s)
  <2>1. bull' = bull
    BY <1>5 DEF QSchedulerNext
  <2>2. scheduler[s].pc # "enqueueing"
    BY <1>5
    DEF QSchedulerNext, SelectStale, SelectStaleThrows, RecoverStaleJob,
        RecoverStaleJobThrows, SelectDue, QueueDueJob, QueueDueJobThrows,
        SchedulerCrash, Fault, FewFaults
  <2>3. Message(j) => Message(j)'
    BY <2>1 DEF Message, LockOK, Elsewhere
  <2>4. WillAdd(j) => WillAdd(j)'
    BY <1>1, <1>3, <2>2 DEF WillAdd
  <2>. QED
    BY <1>2, <2>1, <2>3, <2>4 DEF Driven
<1>. QED
  BY <1>4, <1>5

(* and for a request: one that removes the message adds a new one or gives  *)
(* the row up.                                                              *)
LEMMA DrivenByRequests ==
    ASSUME TypeInv, bull \in [Jobs -> Record], FewFaults,
           NEW a \in Requests, QRequestNext(a), Elsewhere,
           NEW j \in Jobs, LockOK(j), Driven(j),
           rows[j].status = "QUEUED", rows'[j].status = "QUEUED"
    PROVE  Driven(j)'
<1>0. /\ request \in [Requests -> RequestState]
      /\ \A b \in Requests : request[b] \in RequestState
      /\ bull[j] \in Record /\ rows \in [Jobs -> Row]
      /\ request[a].pc # "idle" => request[a].job \in Jobs
  BY DEF TypeInv, TypeOK, RequestOK
<1>1. scheduler' = scheduler
  BY DEF QRequestNext, QRemoveStaleRecord, QEnqueueRetriggered,
         QEnqueueRetriggeredThrows, RetriggerDeadJob, RemoveStaleRecord,
         EnqueueRetriggered, EnqueueRetriggeredThrows, Compensate,
         RequestCrash, RequestOnly
<1>2. \A b \in Requests \ {a} : request'[b] = request[b]
  BY <1>0
  DEF QRequestNext, QRemoveStaleRecord, QEnqueueRetriggered,
      QEnqueueRetriggeredThrows, RetriggerDeadJob, RemoveStaleRecord,
      EnqueueRetriggered, EnqueueRetriggeredThrows, Compensate, RequestCrash
<1>3. bull'[j] = bull[j] /\ Message(j) => Message(j)'
  BY DEF Message, LockOK, Elsewhere
<1>4. ASSUME request[a].job # j \/ request[a].pc = "idle", bull'[j] = bull[j]
      PROVE  Driven(j)'
  <2>1. WillRestart(j) => WillRestart(j)'
    BY <1>2, <1>4 DEF WillRestart
  <2>2. WillAdd(j) => WillAdd(j)'
    BY <1>1, <1>2, <1>4 DEF WillAdd
  <2>. QED
    BY <1>3, <1>4, <2>1, <2>2 DEF Driven
<1>5. CASE QRemoveStaleRecord(a)
  <2>1. /\ request[a].pc = "removing" /\ Remove(request[a].job)
        /\ request'[a].pc = "enqueueing" /\ request'[a].job = request[a].job
    BY <1>0, <1>5 DEF QRemoveStaleRecord, RemoveStaleRecord, RequestState
  <2>2. CASE request[a].job = j
    <3>1. bull'[j].state = "absent"
      BY <2>1, <2>2 DEF Remove, Set, Absent, Rec
    <3>. QED
      BY <2>1, <2>2, <3>1 DEF Driven, WillAdd
  <2>3. CASE request[a].job # j
    <3>1. bull'[j] = bull[j]
      BY <1>0, <2>1, <2>3 DEF Remove, Set
    <3>. QED
      BY <1>4, <2>3, <3>1
  <2>. QED
    BY <2>2, <2>3
<1>6. CASE QEnqueueRetriggered(a)
  <2>1. request[a].pc = "enqueueing" /\ Add(request[a].job)
    BY <1>6 DEF QEnqueueRetriggered, EnqueueRetriggered
  <2>2. CASE request[a].job = j /\ bull[j].state = "absent"
    <3>1. bull'[j].state = "waiting"
      BY <2>1, <2>2 DEF Add, Set, Rec
    <3>. QED
      BY <3>1 DEF Driven, Message
  <2>3. CASE request[a].job = j /\ bull[j].state # "absent"
    <3>1. bull'[j] = bull[j]
      BY <2>1, <2>3 DEF Add
    <3>2. WillRestart(j) => WillRestart(j)'
      BY <1>2, <2>1 DEF WillRestart
    <3>. QED
      BY <1>3, <2>3, <3>1, <3>2 DEF Driven
  <2>4. CASE request[a].job # j
    <3>1. bull'[j] = bull[j]
      BY <1>0, <2>1, <2>4 DEF Add, Set
    <3>. QED
      BY <1>4, <2>4, <3>1
  <2>. QED
    BY <2>2, <2>3, <2>4
<1>7. CASE QEnqueueRetriggeredThrows(a)
  <2>1. /\ request[a].pc \in {"removing", "enqueueing"}
        /\ request'[a].pc = "compensating" /\ request'[a].job = request[a].job
    BY <1>0, <1>7 DEF QEnqueueRetriggeredThrows, EnqueueRetriggeredThrows, RequestState
  <2>2. CASE request[a].job = j
    BY <2>1, <2>2 DEF Driven, WillRestart
  <2>3. CASE request[a].job # j
    <3>1. bull' = bull \/ Add(request[a].job) \/ Remove(request[a].job)
      BY <1>7 DEF QEnqueueRetriggeredThrows
    <3>2. bull'[j] = bull[j]
      BY <1>0, <2>1, <2>3, <3>1 DEF Add, Remove, Set
    <3>. QED
      BY <1>4, <2>3, <3>2
  <2>. QED
    BY <2>2, <2>3
<1>8. ASSUME UNCHANGED bull, \E i \in Jobs : RetriggerDeadJob(a, i)
      PROVE  Driven(j)'
  <2>1. request[a].pc = "idle"
    BY <1>8 DEF RetriggerDeadJob
  <2>. QED
    BY <1>4, <1>8, <2>1
<1>9. ASSUME UNCHANGED bull, Compensate(a) PROVE Driven(j)'
  <2>1. request[a].job # j
    <3>. SUFFICES ASSUME request[a].job = j PROVE FALSE
      OBVIOUS
    <3>1. rows' = [rows EXCEPT ![j] = CompensatedRow(rows[j])]
      BY <1>9 DEF Compensate, Compensable
    <3>2. rows'[j].status = "DEAD"
      BY <1>0, <3>1 DEF CompensatedRow, Row
    <3>. QED
      BY <3>2
  <2>. QED
    BY <1>4, <1>9, <2>1
<1>10. ASSUME UNCHANGED bull, RequestCrash(a) PROVE Driven(j)'
  BY <1>10 DEF RequestCrash, Fault, FewFaults
<1>. QED
  BY <1>5, <1>6, <1>7, <1>8, <1>9, <1>10 DEF QRequestNext

(* A row that is made QUEUED by this step is in the hands of who made it so.*)
LEMMA DrivenFromTheStart ==
    ASSUME QueueInv, [QNext]_qvars, NEW j \in Jobs,
           RowQueued(j), rows[j].status # "RETRYING"
    PROVE  Driven(j)'
<1>1. CASE rows[j].status = "PENDING" /\ ForScheduler(j)
  <2>1. bull[j].state = "absent" /\ ~Busy(j)
    BY <1>1 DEF QueueInv, OnlyQueued, MessageOnlyOnceQueued
  <2>2. bull'[j].state = "absent"
    BY <2>1, QueueSteps DEF QueueInv
  <2>. QED
    BY <1>1, <2>2 DEF Driven, WillAdd, ForScheduler
<1>2. CASE rows[j].status = "DEAD" /\ ForRequest(j)
  BY <1>2 DEF Driven, WillRestart, ForRequest
<1>. QED
  BY <1>1, <1>2 DEF RowQueued

(* The invariant is kept by every step.                                     *)
LEMMA DrivenStep ==
    ASSUME FewFaults, DrivenInv, [QNext]_qvars
    PROVE  DrivenInv'
<1>0. /\ IInv /\ TypeInv /\ QueueInv /\ bull \in [Jobs -> Record]
      /\ [Next]_vars
  BY QStepIsStep DEF DrivenInv, IInv, QueueInv
<1>1. IInv' /\ QueueInv'
  BY <1>0, TypeStep, FenceStep, ChargeStep, DiagnosisStep, QueueStep DEF IInv
<1>. SUFFICES ASSUME NEW j \in Jobs
              PROVE  /\ OneAttempt(j)' /\ LockOK(j)'
                     /\ rows'[j].status = "QUEUED" => Driven(j)'
  BY <1>1 DEF DrivenInv
<1>2. /\ OneAttempt(j) /\ LockOK(j)
      /\ rows[j].status = "QUEUED" => Driven(j)
  BY DEF DrivenInv
<1>3. OneAttempt(j)'
  BY <1>0, <1>2, NeverRetrying DEF OneAttempt
<1>4. LockOK(j)'
  BY <1>0, <1>2, LockStep
<1>5. ASSUME rows'[j].status = "QUEUED", rows[j].status = "QUEUED"
      PROVE  Driven(j)'
  <2>1. CASE \E w \in Workers : QWorkerNext(w)
    BY <1>0, <1>2, <1>5, <2>1, DrivenByWorkers
  <2>2. CASE ~\E w \in Workers : QWorkerNext(w)
    <3>1. Elsewhere
      BY <1>0, <2>2, OthersMove
    <3>2. CASE \E s \in Schedulers : QSchedulerNext(s)
      BY <1>0, <1>2, <1>5, <3>1, <3>2, DrivenBySchedulers
    <3>3. CASE \E a \in Requests : QRequestNext(a)
      BY <1>0, <1>2, <1>5, <3>1, <3>3, DrivenByRequests
    <3>4. CASE \/ Tick /\ UNCHANGED bull
               \/ \E r \in renewals : RenewalNext(r) /\ UNCHANGED bull
               \/ \E i \in Jobs : Stall(i)
               \/ UNCHANGED qvars
      <4>1. UNCHANGED <<scheduler, request>>
        BY <3>4
        DEF Tick, RenewalNext, RenewLease, LoseRenewal, WorkerOnly, Stall,
            qvars, vars
      <4>2. bull'[j] = bull[j] \/ StallsOnce(j)
        BY <1>0, <3>4 DEF Stall, Set, StallsOnce, qvars
      <4>. QED
        BY <1>2, <1>5, <3>1, <4>1, <4>2, StillDriven
    <3>. QED
      BY <2>2, <3>2, <3>3, <3>4 DEF QNext
  <2>. QED
    BY <2>1, <2>2
<1>6. ASSUME rows'[j].status = "QUEUED", rows[j].status # "QUEUED"
      PROVE  Driven(j)'
  <2>1. RowStep(j)
    BY <1>0, RowSteps
  <2>2. RowQueued(j)
    BY <1>6, <2>1
    DEF RowStep, RowKept, RowClaimed, RowRenewed, RowRevoked, RowCompleted,
        RowRecovered, RowEnded
  <2>. QED
    BY <1>0, <1>2, <2>2, DrivenFromTheStart DEF OneAttempt
<1>. QED
  BY <1>3, <1>4, <1>5, <1>6

(* No re-trigger is lost, and no first delivery: a QUEUED row that nobody   *)
(* is enqueueing has a message that will drive it, whatever interleaving of *)
(* re-triggers, compensations, redeliveries and one worker crash there is.  *)
THEOREM QueuedRowsAreDriven == FewFaults => (QSpec => []QueuedIsDriven)
<1>. SUFFICES ASSUME FewFaults PROVE QSpec => []QueuedIsDriven
  OBVIOUS
<1>1. QInit => DrivenInv
  <2>. SUFFICES ASSUME QInit PROVE DrivenInv
    OBVIOUS
  <2>1. IInv /\ QueueInv
    BY QueueInit, TypeInit, FenceInit, ChargeInit, DiagnosisInit DEF QInit, IInv
  <2>2. ASSUME NEW j \in Jobs
        PROVE  OneAttempt(j) /\ LockOK(j) /\ rows[j].status # "QUEUED"
    <3>1. rows[j].status = "PENDING" /\ rows[j].maxAttempts \in MaxAttemptsChoices
      BY DEF QInit, Init, NewRow
    <3>2. bull[j].state = "absent" /\ ~bull[j].stalled
      BY DEF QInit, Absent, Rec
    <3>. QED
      BY <3>1, <3>2 DEF OneAttempt, LockOK, FewFaults
  <2>. QED
    BY <2>1, <2>2 DEF DrivenInv
<1>2. DrivenInv => QueuedIsDriven
  <2>. SUFFICES ASSUME DrivenInv, NEW j \in Jobs,
                       rows[j].status = "QUEUED", ~BeingEnqueued(j)
                PROVE  bull[j].state \in {"waiting", "active"}
    BY DEF QueuedIsDriven
  <2>. QED
    BY DEF DrivenInv, Driven, WillRestart, WillAdd, Message, BeingEnqueued
<1>. QED
  BY <1>1, <1>2, DrivenStep, PTL DEF QSpec
=============================================================================
