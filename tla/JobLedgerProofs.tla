-------------------------- MODULE JobLedgerProofs ---------------------------
(***************************************************************************)
(* JobLifecycle implements JobLedger.                                      *)
(***************************************************************************)
EXTENDS JobLifecycleProofs

(* A success is recorded only for a webhook that was accepted.              *)
DeliveredFirst ==
    \A w \in Workers :
      worker[w].pc = "recording" /\ worker[w].outcome = "OK" => worker[w].job \in acked

RefineInv == TypeInv /\ FenceInv /\ DeliveredFirst

phase == [j \in Jobs |-> PhaseOf(rows[j])]

(* What a step does to the deliveries.                                      *)
Delivers(w) ==
    /\ ExecutingPC(worker[w])
    /\ acked' = acked \cup {worker[w].job}
    /\ rows' = rows /\ executions' = executions

(* Only a 2xx answer is added to acked, and only an execution that got one  *)
(* records a success.                                                       *)
LEMMA DeliverySteps ==
    ASSUME TypeInv, [Next]_vars
    PROVE  /\ acked' = acked \/ \E w \in Workers : Delivers(w)
           /\ \A w \in Workers :
                worker'[w].pc = "recording" /\ worker'[w].outcome = "OK" =>
                  \/ /\ worker[w].pc = "recording" /\ worker[w].outcome = "OK"
                     /\ worker'[w].job = worker[w].job
                  \/ worker'[w].job \in acked'
<1>. DEFINE Same(w) ==
       /\ worker'[w].pc = "recording" /\ worker'[w].outcome = "OK"
       => \/ /\ worker[w].pc = "recording" /\ worker[w].outcome = "OK"
             /\ worker'[w].job = worker[w].job
          \/ worker'[w].job \in acked'
<1>0. worker \in [Workers -> WorkerState] /\ \A w \in Workers : worker[w] \in WorkerState
  BY DEF TypeInv, TypeOK
<1>1. CASE worker' = worker /\ acked' = acked
  BY <1>1
<1>2. ASSUME NEW w \in Workers, WorkerNext(w)
      PROVE  /\ acked' = acked \/ Delivers(w)
             /\ \A v \in Workers : Same(v)
  <2>1. acked' = acked \/ Delivers(w)
    BY <1>2
    DEF WorkerNext, FetchMessage, ExecuteClaim, ClaimJob, ClaimJobThrows, ClaimConflict, DeliverWebhook,
        CompleteProcessing, RecordSuccessThrows, ProcessorThrows, FinishMessage,
        WorkerCrash, SendRenewal, Delivers, ExecutingPC
  <2>2. \A v \in Workers \ {w} : worker'[v] = worker[v]
    BY <1>0, <1>2
    DEF WorkerNext, FetchMessage, ExecuteClaim, ClaimJob, ClaimJobThrows, ClaimConflict, DeliverWebhook,
        CompleteProcessing, RecordSuccessThrows, ProcessorThrows, FinishMessage,
        WorkerCrash, SendRenewal, Settle
  <2>3. Same(w)
    <3>1. CASE \E j \in Jobs : FetchMessage(w, j)
      <4>1. worker'[w].pc = "claiming"
        BY <1>0, <3>1 DEF FetchMessage, WorkerState
      <4>. QED
        BY <4>1
    <3>2. CASE Claims(w)
      <4>1. worker'[w].pc \in {"delivering", "threw"}
        <5>1. CASE ClaimJob(w)
          BY <1>0, <5>1 DEF ClaimJob
        <5>2. CASE ClaimJobThrows(w)
          BY <1>0, <5>2 DEF ClaimJobThrows, Settle, IdleWorker
        <5>. QED
          BY <3>2, <5>1, <5>2 DEF Claims
      <4>. QED
        BY <4>1
    <3>3. CASE ClaimConflict(w) \/ CompleteProcessing(w) \/ ProcessorThrows(w)
      <4>1. worker'[w].pc \in {"resolved", "threw"}
        BY <1>0, <3>3
        DEF ClaimConflict, CompleteProcessing, ProcessorThrows, Settle, IdleWorker
      <4>. QED
        BY <4>1
    <3>4. CASE \E answer \in Answers : DeliverWebhook(w, answer)
      <4>1. PICK answer \in Answers : DeliverWebhook(w, answer)
        BY <3>4
      <4>2. worker'[w] = [worker[w] EXCEPT !.pc = "recording", !.outcome = answer]
        BY <1>0, <4>1 DEF DeliverWebhook
      <4>3. worker'[w].outcome = answer /\ worker'[w].job = worker[w].job
        BY <1>0, <4>2 DEF WorkerState
      <4>. QED
        BY <4>1, <4>3 DEF DeliverWebhook
    <3>5. CASE RecordSuccessThrows(w)
      <4>1. worker'[w].outcome = "DB_ERROR"
        BY <1>0, <3>5 DEF RecordSuccessThrows, WorkerState
      <4>. QED
        BY <4>1
    <3>6. CASE FinishMessage(w) \/ WorkerCrash(w)
      <4>1. worker'[w].pc = "idle"
        BY <1>0, <3>6 DEF FinishMessage, WorkerCrash, IdleWorker
      <4>. QED
        BY <4>1
    <3>7. CASE SendRenewal(w)
      BY <3>7 DEF SendRenewal
    <3>. QED
      BY <1>2, <3>1, <3>2, <3>3, <3>4, <3>5, <3>6, <3>7 DEF WorkerNext, Claims
  <2>4. \A v \in Workers \ {w} : Same(v)
    BY <2>2
  <2>. QED
    BY <2>1, <2>3, <2>4
<1>3. ASSUME NEW r \in renewals, RenewalNext(r)
      PROVE  acked' = acked /\ \A v \in Workers : Same(v)
  <2>1. acked' = acked
    BY <1>3 DEF RenewalNext, RenewLease, LoseRenewal
  <2>2. ASSUME NEW v \in Workers
        PROVE  /\ worker'[v].pc = worker[v].pc /\ worker'[v].job = worker[v].job
               /\ worker'[v].outcome = worker[v].outcome
    <3>1. \/ worker'[v] = worker[v]
          \/ worker'[v] = [worker[v] EXCEPT !.renewing = FALSE]
      BY <1>3 DEF RenewalNext, RenewLease, LoseRenewal
    <3>. QED
      BY <1>0, <3>1 DEF WorkerState
  <2>. QED
    BY <2>1, <2>2
<1>4. ASSUME NEW s \in Schedulers, SchedulerNext(s)
      PROVE  worker' = worker /\ acked' = acked
  BY <1>4
  DEF SchedulerNext, SelectStale, SelectStaleThrows, RecoverStaleJob,
      RecoverStaleJobThrows, SelectDue, QueueDueJob, QueueDueJobThrows,
      Enqueue, SchedulerCrash, SchedulerOnly
<1>5. ASSUME NEW a \in Requests, RequestNext(a)
      PROVE  worker' = worker /\ acked' = acked
  BY <1>5
  DEF RequestNext, RetriggerDeadJob, RemoveStaleRecord, EnqueueRetriggered,
      EnqueueRetriggeredThrows, Compensate, RequestCrash, RequestOnly
<1>6. CASE Tick \/ UNCHANGED vars
  BY <1>1, <1>6 DEF Tick, vars
<1>. QED
  BY <1>1, <1>2, <1>3, <1>4, <1>5, <1>6 DEF Next

(* Every step keeps DeliveredFirst.                                         *)
LEMMA DeliveredStep == TypeInv /\ DeliveredFirst /\ [Next]_vars => DeliveredFirst'
  BY DeliverySteps DEF DeliveredFirst, Delivers

(* The initial states are initial in the ledger.                            *)
LEMMA LedgerInitial == Init => Ledger!LedgerInit
<1>. SUFFICES ASSUME Init PROVE Ledger!LedgerInit
  OBVIOUS
<1>1. \A j \in Jobs : PhaseOf(rows[j]) = "waiting"
  BY DEF Init, NewRow, PhaseOf
<1>. QED
  BY <1>1 DEF Init, Ledger!LedgerInit

(* A step that writes one row moves one job in the ledger.                  *)
LEMMA OneMove ==
    ASSUME TypeInv, NEW j \in Jobs, NEW row, rows' = [rows EXCEPT ![j] = row]
    PROVE  phase' = [phase EXCEPT ![j] = PhaseOf(rows'[j])]
<1>1. rows \in [Jobs -> Row]
  BY DEF TypeInv, TypeOK
<1>2. \A i \in Jobs \ {j} : rows'[i] = rows[i]
  BY <1>1
<1>3. phase' = [i \in Jobs |-> PhaseOf(rows'[i])]
  BY DEF phase, PhaseOf
<1>4. phase = [i \in Jobs |-> PhaseOf(rows[i])]
  BY DEF phase
<1>. DEFINE v == PhaseOf(rows'[j])
            old(i) == PhaseOf(rows[i])
            new(i) == PhaseOf(rows'[i])
<1>5. \A i \in Jobs : new(i) = IF i = j THEN v ELSE old(i)
  BY <1>2
<1>6. phase' = [i \in Jobs |-> new(i)] /\ phase = [i \in Jobs |-> old(i)]
  BY <1>3, <1>4
<1>. HIDE DEF v, old, new
<1>7. phase' = [phase EXCEPT ![j] = v]
  BY <1>5, <1>6
<1>. QED
  BY <1>7 DEF v

(* Every step is a step of the ledger or leaves it alone.                   *)
LEMMA LedgerStep ==
    RefineInv /\ [Next]_vars => [Ledger!LedgerNext]_<<phase, executions, acked>>
<1>. SUFFICES ASSUME RefineInv, [Next]_vars
              PROVE  [Ledger!LedgerNext]_<<phase, executions, acked>>
  OBVIOUS
<1>0. /\ TypeInv /\ FenceInv /\ rows \in [Jobs -> Row]
      /\ executions \in [Jobs -> Nat]
      /\ \A w \in Workers : worker[w].pc # "idle" => worker[w].job \in Jobs
  BY DEF RefineInv, TypeInv, TypeOK, WorkerOK, ConsistentWorker
<1>1. \A j \in Jobs : RowStep(j)
  BY <1>0, RowSteps
<1>2. CASE acked' # acked
  <2>1. PICK w \in Workers : Delivers(w)
    BY <1>0, <1>2, DeliverySteps
  <2>. DEFINE j == worker[w].job
  <2>2. /\ j \in Jobs /\ executions[j] \in Nat
        /\ worker[w].token \in Nat \ {0} /\ worker[w].token <= executions[j]
    BY <1>0, <2>1
    DEF Delivers, TypeInv, WorkerOK, ConsistentWorker, ExecutingPC, FenceInv, TokensAreOld
  <2>3. executions[j] > 0
    BY <2>2
  <2>4. phase' = phase
    BY <2>1 DEF Delivers, phase, PhaseOf
  <2>5. Ledger!Deliver(j)
    BY <2>1, <2>3, <2>4 DEF Delivers, Ledger!Deliver, phase
  <2>. QED
    BY <2>2, <2>5 DEF Ledger!LedgerNext
<1>3. ASSUME acked' = acked, NEW j \in Jobs, NEW row, Writes(j, row)
      PROVE  [Ledger!LedgerNext]_<<phase, executions, acked>>
  <2>1. /\ rows' = [rows EXCEPT ![j] = row] /\ executions' = executions
        /\ phase' = [phase EXCEPT ![j] = PhaseOf(rows'[j])]
        /\ phase \in [Jobs -> {PhaseOf(rows[i]) : i \in Jobs}]
        /\ phase[j] = PhaseOf(rows[j])
    BY <1>0, <1>3, OneMove DEF Writes, KeepsExecutions, phase
  <2>2. CASE PhaseOf(rows'[j]) = PhaseOf(rows[j])
    <3>1. phase' = phase
      BY <2>1, <2>2
    <3>. QED
      BY <1>3, <2>1, <3>1
  <2>3. CASE phase[j] = "running" /\ PhaseOf(rows'[j]) \in {"waiting", "dead"}
    <3>1. Ledger!Fail(j)
      BY <1>3, <2>1, <2>3 DEF Ledger!Fail, Ledger!Move, phase
    <3>. QED
      BY <3>1 DEF Ledger!LedgerNext
  <2>4. CASE j \in acked /\ phase[j] = "running" /\ PhaseOf(rows'[j]) = "succeeded"
    <3>1. Ledger!Succeed(j)
      BY <1>3, <2>1, <2>4 DEF Ledger!Succeed, Ledger!Move, phase
    <3>. QED
      BY <3>1 DEF Ledger!LedgerNext
  <2>5. CASE phase[j] = "dead" /\ PhaseOf(rows'[j]) = "waiting"
    <3>1. Ledger!Retrigger(j)
      BY <1>3, <2>1, <2>5 DEF Ledger!Retrigger, Ledger!Move, phase
    <3>. QED
      BY <3>1 DEF Ledger!LedgerNext
  <2>6. CASE phase[j] = "waiting" /\ PhaseOf(rows'[j]) = "dead"
    <3>1. Ledger!Revoke(j)
      BY <1>3, <2>1, <2>6 DEF Ledger!Revoke, Ledger!Move, phase
    <3>. QED
      BY <3>1 DEF Ledger!LedgerNext
  <2>7. ~RowClaimed(j)
    BY <1>0, <2>1 DEF RowClaimed
  <2>8. CASE RowKept(j) \/ RowRenewed(j)
    BY <2>2, <2>8 DEF RowKept, RowRenewed, PhaseOf
  <2>9. CASE RowQueued(j)
    BY <2>1, <2>2, <2>5, <2>9 DEF RowQueued, PhaseOf
  <2>10. CASE RowRevoked(j)
    BY <2>1, <2>6, <2>10 DEF RowRevoked, PhaseOf
  <2>11. CASE RowCompleted(j)
    <3>1. PICK w \in Workers :
            /\ worker[w].pc = "recording" /\ worker[w].job = j
            /\ rows'[j].status = "SUCCEEDED" => worker[w].outcome = "OK"
            /\ rows[j].status = "PROCESSING"
            /\ rows'[j].status \in {"SUCCEEDED", "RETRYING", "DEAD"}
      BY <2>11 DEF RowCompleted, RowEnded, Executes
    <3>2. rows'[j].status = "SUCCEEDED" => j \in acked
      BY <3>1 DEF RefineInv, DeliveredFirst
    <3>. QED
      BY <2>1, <2>3, <2>4, <3>1, <3>2 DEF PhaseOf
  <2>12. CASE RowRecovered(j)
    <3>1. /\ rows[j].status = "PROCESSING"
          /\ rows'[j].status \in {"RETRYING", "DEAD"}
      BY <2>12 DEF RowRecovered, RowEnded
    <3>. QED
      BY <2>1, <2>3, <3>1 DEF PhaseOf
  <2>. QED
    BY <1>1, <2>7, <2>8, <2>9, <2>10, <2>11, <2>12 DEF RowStep
<1>4. ASSUME acked' = acked, NEW w \in Workers, Claims(w)
      PROVE  [Ledger!LedgerNext]_<<phase, executions, acked>>
  <2>. DEFINE j == worker[w].job
  <2>1. /\ j \in Jobs
        /\ rows' = [rows EXCEPT ![j] = ClaimedRow(rows[j], FreshToken(j), now)]
        /\ executions' = [executions EXCEPT ![j] = executions[j] + 1]
        /\ rows[j].status \in CLAIMABLE_STATUSES
    BY <1>0, <1>4 DEF Claims, ClaimJob, ClaimJobThrows, ExecuteClaim, Claimable
  <2>2. rows'[j].status = "PROCESSING"
    BY <1>0, <2>1 DEF ClaimedRow, TypeInv, TypeOK, Row
  <2>3. phase' = [phase EXCEPT ![j] = PhaseOf(rows'[j])] /\ phase[j] = PhaseOf(rows[j])
    BY <1>0, <2>1, OneMove DEF phase
  <2>4. phase[j] = "waiting" /\ PhaseOf(rows'[j]) = "running"
    BY <2>1, <2>2, <2>3 DEF PhaseOf, CLAIMABLE_STATUSES
  <2>5. Ledger!Start(j)
    BY <1>4, <2>1, <2>3, <2>4 DEF Ledger!Start, Ledger!Move, phase
  <2>. QED
    BY <2>1, <2>5 DEF Ledger!LedgerNext
<1>5. CASE acked' = acked /\ WritesNothing
  <2>1. phase' = phase
    BY <1>5 DEF WritesNothing, phase, PhaseOf
  <2>. QED
    BY <1>5, <2>1 DEF WritesNothing, KeepsExecutions
<1>6. \/ WritesNothing \/ \E w \in Workers : Claims(w)
      \/ \E j \in Jobs : \E row : Writes(j, row)
  <2>1. ASSUME NEW w \in Workers, Completes(w) PROVE \E j \in Jobs : \E row : Writes(j, row)
    BY <1>0, <2>1 DEF Completes
  <2>2. ASSUME NEW s \in Schedulers, NEW job \in scheduler[s].stale, Recovers(job)
        PROVE  \E j \in Jobs : \E row : Writes(j, row)
    BY <1>0, <2>2 DEF Recovers, TypeInv, TypeOK, SchedulerState, StaleJob
  <2>3. ASSUME NEW r \in renewals, Renews(r) PROVE \E j \in Jobs : \E row : Writes(j, row)
    BY <1>0, <2>3 DEF Renews, TypeInv, TypeOK, Renewal
  <2>4. ASSUME NEW a \in Requests, Compensates(a) PROVE \E j \in Jobs : \E row : Writes(j, row)
    BY <1>0, <2>4 DEF Compensates, TypeInv, RequestOK
  <2>. QED
    BY <1>0, <2>1, <2>2, <2>3, <2>4, StepIsStatement DEF Statement, Queues, Retriggers
<1>. QED
  BY <1>2, <1>3, <1>4, <1>5, <1>6

(* The processes of JobLifecycle keep the promise of JobLedger: one run at  *)
(* a time, success only by a run in progress and after the endpoint has     *)
(* accepted, and no step out of "succeeded".                                *)
THEOREM Refinement == Spec => ImplementsLedger
<1>1. Init => RefineInv
  <2>1. Init => DeliveredFirst
    BY DEF Init, DeliveredFirst, IdleWorker
  <2>. QED
    BY <2>1, TypeInit, FenceInit DEF RefineInv
<1>2. RefineInv /\ [Next]_vars => RefineInv'
  BY TypeStep, FenceStep, DeliveredStep DEF RefineInv
<1>3. RefineInv /\ [Next]_vars => [Ledger!LedgerNext]_Ledger!ledgerVars
  BY LedgerStep DEF Ledger!ledgerVars, phase
<1>. QED
  BY <1>1, <1>2, <1>3, LedgerInitial, PTL DEF Spec, ImplementsLedger, Ledger!LedgerSpec
=============================================================================
