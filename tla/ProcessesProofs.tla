-------------------------- MODULE ProcessesProofs --------------------------
(***************************************************************************)
(* The safety of the worker process and the scheduler process, for every   *)
(* set of rows and every timing that satisfies TimingAssumption.  A live   *)
(* worker keeps its lease because at any time either the last renewal to   *)
(* reach the database is recent, or a later one is on its way (Covered);   *)
(* the other parts of the invariant say which clocks are bounded by what,  *)
(* and where each row is.  The metrics follow the transitions because each *)
(* row leaves PROCESSING once and is booked in one place at most (the end).*)
(***************************************************************************)
EXTENDS Processes, FiniteSetTheorems, TLAPS

Waits == {"claiming", "claimed", "completing", "recorded", "fenced"}
Executes == {"claimed", "delivering", "completing", "recorded", "fenced"}

(* Tick is put off until what is due has happened, so that no clock passes  *)
(* its bound; silence cannot pass MaxSilence before the timer fires again.  *)
Clocks ==
    /\ worker.pc \in Waits => worker.age <= MaxLatency
    /\ \A r \in renewals : r.age <= MaxLatency
    /\ timer # Off =>
         /\ timer <= RenewalInterval + Lateness
         /\ silence + RenewalInterval + Lateness - timer <= MaxSilence
         /\ worker.pc \in Executes \ {"claimed"}

(* Where a row is, as seen from the processes and from the statements and   *)
(* messages on their way.  A row whose message was taken keeps its record,  *)
(* so that it never gets another message.                                   *)
Places ==
    /\ worker.pc = "idle" <=> worker.job = None
    /\ loop.pc = "enqueueing" <=> loop.job # None
    /\ loop.pc = "enqueueing" =>
         /\ status[loop.job] = "QUEUED"
         /\ loop.job \notin messages
         /\ worker.pc = "claiming" => loop.job # worker.job
    /\ \A j \in messages : status[j] = "QUEUED" /\ j # worker.job
    /\ worker.pc = "claiming" => status[worker.job] = "QUEUED"
    /\ worker.pc # "idle" => worker.job \in records
    /\ \A r \in renewals :
         /\ r.job \in records \ messages
         /\ worker.pc = "claiming" => r.job # worker.job
    /\ \A j \in Jobs \ records : status[j] \in {"PENDING", "QUEUED"}

(* What the worker may rely on, statement by statement.                     *)
Phases ==
    LET j == worker.job
    IN  /\ worker.pc = "claimed" =>
             /\ status[j] = "PROCESSING" /\ lease[j] >= LeaseDuration - worker.age
             /\ \A r \in renewals : r.job # j
        /\ worker.pc = "delivering" => status[j] = "PROCESSING" /\ timer # Off
        /\ worker.pc = "completing" =>
             /\ worker.outcome \in Outcomes
             /\ \/ status[j] = "PROCESSING" /\ timer # Off
                \/ status[j] = "SUCCEEDED"
        /\ worker.pc = "recorded" =>
             /\ worker.outcome \in Outcomes
             /\ status[j] # "PROCESSING"
             /\ worker.outcome = "SUCCEEDED" => status[j] = "SUCCEEDED"
        /\ worker.pc = "fenced" => status[j] = "SUCCEEDED"

(* The lease of the row in execution: as long as the last renewal left it,  *)
(* or a later renewal is about to prolong it.                               *)
Covered ==
    LET j == worker.job
    IN  worker.pc \in {"delivering", "completing"} /\ status[j] = "PROCESSING" =>
          \/ lease[j] >= LeaseDuration - MaxLatency - silence
          \/ \E r \in renewals :
               /\ r.job = j
               /\ lease[j] >= LeaseDuration - MaxLatency - MaxSilence - r.age

(* No row is left behind but those that a throw or a death abandoned, and   *)
(* those whose add found an old record.                                     *)
Attended ==
    /\ \A j \in Jobs : status[j] = "PROCESSING" =>
         \/ j \in abandoned
         \/ j = worker.job /\ worker.pc \in {"claimed", "delivering", "completing"}
    /\ \A j \in Jobs : status[j] = "QUEUED" =>
         \/ j \in messages \cup abandoned \cup refused
         \/ j = worker.job /\ worker.pc = "claiming"
         \/ j = loop.job
    /\ workerLife = "exited" => worker.pc = "idle"
    /\ schedulerLife = "exited" => loop.pc = "stopped"

PInv == PTypeOK /\ Clocks /\ Places /\ Phases /\ Covered /\ Attended

(* Each step of the worker. *)
LEMMA WorkerSteps ==
    ASSUME PInv, WorkerNext, UNCHANGED schedulerVars
    PROVE  PInv'
<1>. USE DEF PInv, jobVars, workerVars, schedulerVars
<1>1. CASE ExecuteClaim
  <2>1. PTypeOK'
    BY <1>1, JobsAssumption, TimingAssumption DEF ExecuteClaim, Lend,
      JobsTypeOK, WorkerTypeOK, SchedulerTypeOK, Clocks, Waits, Places,
      PTypeOK, JobStatus
  <2>2. Clocks'
    BY <1>1 DEF ExecuteClaim, Lend, Clocks, Waits, Executes
  <2>3. Places'
    BY <1>1 DEF ExecuteClaim, Lend, Places
  <2>4. Phases'
    BY <1>1, JobsAssumption DEF ExecuteClaim, Lend, JobsTypeOK, WorkerTypeOK,
      Places, Phases, PTypeOK
  <2>5. Covered'
    BY <1>1 DEF ExecuteClaim, Lend, Covered
  <2>6. Attended'
    BY <1>1 DEF ExecuteClaim, Lend, JobsTypeOK, WorkerTypeOK, Places,
      Attended, PTypeOK
  <2>. QED
    BY <2>1, <2>2, <2>3, <2>4, <2>5, <2>6
<1>2. CASE StartExecution
  <2>1. PTypeOK'
    BY <1>2 DEF StartExecution, JobsTypeOK, WorkerTypeOK, SchedulerTypeOK,
      PTypeOK
  <2>2. Clocks'
    BY <1>2, TimingAssumption DEF StartExecution, Clocks, Executes
  <2>3. Places'
    BY <1>2 DEF StartExecution, Places
  <2>4. Phases'
    BY <1>2 DEF StartExecution, Phases, Off
  <2>5. Covered'
    BY <1>2, JobsAssumption, TimingAssumption DEF StartExecution, JobsTypeOK,
      WorkerTypeOK, Clocks, Waits, Places, Phases, Covered, PTypeOK
  <2>6. Attended'
    BY <1>2 DEF StartExecution, Attended
  <2>. QED
    BY <2>1, <2>2, <2>3, <2>4, <2>5, <2>6
<1>3. CASE \E outcome \in Endings : DeliverWebhook(outcome)
  <2>1. PTypeOK'
    <3>1. PICK outcome \in Endings : DeliverWebhook(outcome)
      BY <1>3
    <3>2. outcome \in Outcomes
      BY TimingAssumption DEF Outcomes
    <3>3. worker' = [pc |-> "completing", job |-> worker.job, age |-> 0,
                     running |-> worker.running, outcome |-> outcome]
      BY <3>1 DEF DeliverWebhook, PTypeOK, WorkerTypeOK
    <3>. QED
      BY <3>1, <3>2, <3>3
      DEF DeliverWebhook, PTypeOK, JobsTypeOK, WorkerTypeOK, SchedulerTypeOK
  <2>2. Clocks'
    BY <1>3, TimingAssumption DEF DeliverWebhook, Clocks, Executes
  <2>3. Places'
    BY <1>3 DEF DeliverWebhook, Places
  <2>4. Phases'
    BY <1>3, TimingAssumption DEF DeliverWebhook, Phases, Outcomes
  <2>5. Covered'
    BY <1>3 DEF DeliverWebhook, Covered
  <2>6. Attended'
    BY <1>3 DEF DeliverWebhook, Attended
  <2>. QED
    BY <2>1, <2>2, <2>3, <2>4, <2>5, <2>6
<1>4. CASE ExecuteCompletion
  <2>1. PTypeOK'
    <3>1. worker.job \in Jobs /\ worker.outcome \in JobStatus
      BY <1>4 DEF ExecuteCompletion, PTypeOK, WorkerTypeOK, Places, Phases, Outcomes,
        JobStatus
    <3>2. moved' \subseteq Jobs \X JobStatus
      BY <1>4, <3>1 DEF ExecuteCompletion, Rest, PTypeOK, JobsTypeOK
    <3>. QED
      BY <1>4, <3>1, <3>2, JobsAssumption DEF ExecuteCompletion, Rest, JobsTypeOK,
        WorkerTypeOK, SchedulerTypeOK, PTypeOK
  <2>2. Clocks'
    BY <1>4 DEF ExecuteCompletion, Rest, WorkerTypeOK, Clocks, Waits,
      Executes, PTypeOK
  <2>3. Places'
    BY <1>4 DEF ExecuteCompletion, Rest, JobsTypeOK, WorkerTypeOK,
      SchedulerTypeOK, Places, Phases, Outcomes, PTypeOK
  <2>4. Phases'
    BY <1>4 DEF ExecuteCompletion, Rest, JobsTypeOK, WorkerTypeOK, Places,
      Phases, Outcomes, PTypeOK
  <2>5. Covered'
    BY <1>4 DEF ExecuteCompletion, Rest, WorkerTypeOK, Covered, PTypeOK
  <2>6. Attended'
    BY <1>4 DEF ExecuteCompletion, Rest, JobsTypeOK, Phases, Outcomes,
      Attended, PTypeOK
  <2>. QED
    BY <2>1, <2>2, <2>3, <2>4, <2>5, <2>6
<1>5. CASE FinishExecution
  <2>1. PTypeOK'
    BY <1>5 DEF FinishExecution, EndExecution, JobsTypeOK, WorkerTypeOK,
      SchedulerTypeOK, PTypeOK, Idle
  <2>2. Clocks'
    BY <1>5, TimingAssumption DEF FinishExecution, EndExecution, Clocks, Idle
  <2>3. Places'
    BY <1>5, JobsAssumption DEF FinishExecution, EndExecution, JobsTypeOK,
      Places, PTypeOK, Idle
  <2>4. Phases'
    BY <1>5 DEF FinishExecution, EndExecution, Phases, Idle
  <2>5. Covered'
    BY <1>5 DEF FinishExecution, EndExecution, Covered, Idle
  <2>6. Attended'
    BY <1>5 DEF FinishExecution, EndExecution, Phases, Outcomes, Attended
  <2>. QED
    BY <2>1, <2>2, <2>3, <2>4, <2>5, <2>6
<1>6. CASE SendRenewal
  <2>1. PTypeOK'
    BY <1>6 DEF SendRenewal, Fires, JobsTypeOK, WorkerTypeOK,
      SchedulerTypeOK, Clocks, Executes, Places, PTypeOK
  <2>2. Clocks'
    BY <1>6, TimingAssumption DEF SendRenewal, Fires, Clocks
  <2>3. Places'
    BY <1>6 DEF SendRenewal, Fires, Clocks, Executes, Places, Phases,
      Outcomes
  <2>4. Phases'
    BY <1>6 DEF SendRenewal, Fires, Clocks, Phases, Off
  <2>5. Covered'
    <3>1. silence <= MaxSilence
      BY <1>6, TimingAssumption DEF SendRenewal, Fires, PTypeOK, WorkerTypeOK, Clocks, Off
    <3>2. [job |-> worker.job, age |-> 0] \in renewals' /\ renewals \subseteq renewals'
      BY <1>6 DEF SendRenewal
    <3>3. CASE lease[worker.job] >= LeaseDuration - MaxLatency - silence
      <4>. DEFINE r == [job |-> worker.job, age |-> 0]
      <4>1. ASSUME worker.job \in Jobs
            PROVE  lease[worker.job] >= LeaseDuration - MaxLatency - MaxSilence - r.age
        BY <3>1, <3>3, <4>1, JobsAssumption, TimingAssumption
        DEF PTypeOK, JobsTypeOK, WorkerTypeOK
      <4>. QED
        BY <1>6, <3>2, <4>1 DEF SendRenewal, PTypeOK, WorkerTypeOK, Places, Covered
    <3>4. CASE ~(lease[worker.job] >= LeaseDuration - MaxLatency - silence)
      BY <1>6, <3>2, <3>4 DEF SendRenewal, Covered
    <3>. QED
      BY <3>3, <3>4
  <2>6. Attended'
    BY <1>6 DEF SendRenewal, Fires, Attended
  <2>. QED
    BY <2>1, <2>2, <2>3, <2>4, <2>5, <2>6
<1>7. CASE \E r \in renewals : RenewLease(r)
  <2>1. PTypeOK'
    BY <1>7, JobsAssumption, TimingAssumption DEF RenewLease, Lend,
      JobsTypeOK, WorkerTypeOK, SchedulerTypeOK, Clocks, PTypeOK
  <2>2. Clocks'
    BY <1>7 DEF RenewLease, Lend, Clocks
  <2>3. Places'
    BY <1>7 DEF RenewLease, Lend, JobsTypeOK, Places, PTypeOK
  <2>4. Phases'
    BY <1>7 DEF RenewLease, Lend, JobsTypeOK, WorkerTypeOK, Places, Phases,
      PTypeOK
  <2>5. Covered'
    BY <1>7, JobsAssumption, TimingAssumption DEF RenewLease, Lend,
      JobsTypeOK, WorkerTypeOK, Clocks, Places, Covered, PTypeOK
  <2>6. Attended'
    BY <1>7 DEF RenewLease, Lend, JobsTypeOK, Attended, PTypeOK
  <2>. QED
    BY <2>1, <2>2, <2>3, <2>4, <2>5, <2>6
<1>8. CASE WorkerExit
  <2>1. PTypeOK'
    BY <1>8 DEF WorkerExit, WorkerDrained, JobsTypeOK, WorkerTypeOK,
      SchedulerTypeOK, PTypeOK, Idle
  <2>2. Clocks'
    BY <1>8, TimingAssumption DEF WorkerExit, WorkerDrained, Clocks, Idle
  <2>3. Places'
    BY <1>8 DEF WorkerExit, WorkerDrained, Places, Idle
  <2>4. Phases'
    BY <1>8 DEF WorkerExit, WorkerDrained, Phases, Idle
  <2>5. Covered'
    BY <1>8 DEF WorkerExit, WorkerDrained, Covered, Idle
  <2>6. Attended'
    BY <1>8 DEF WorkerExit, WorkerDrained, Places, Attended, Idle
  <2>. QED
    BY <2>1, <2>2, <2>3, <2>4, <2>5, <2>6
<1>9. CASE \E j \in messages : TakeMessage(j)
  <2>1. PTypeOK'
    <3>1. PICK j \in messages : TakeMessage(j)
      BY <1>9
    <3>2. worker' = [pc |-> "claiming", job |-> j, age |-> 0, running |-> 0,
                     outcome |-> None]
      BY <3>1 DEF TakeMessage, Idle
    <3>. QED
      BY <3>1, <3>2 DEF TakeMessage, PTypeOK, JobsTypeOK, WorkerTypeOK, SchedulerTypeOK
  <2>2. Clocks'
    BY <1>9, TimingAssumption DEF TakeMessage, Clocks, Executes, Idle
  <2>3. Places'
    <3>1. PICK j \in messages : TakeMessage(j)
      BY <1>9
    <3>2. /\ worker'.pc = "claiming" /\ worker'.job = j
          /\ messages' = messages \ {j} /\ j \in records /\ j \in Jobs
          /\ UNCHANGED <<status, records, renewals, loop>>
      BY <3>1 DEF TakeMessage, Idle, PTypeOK, JobsTypeOK
    <3>. QED
      BY <3>2, JobsAssumption DEF Places
  <2>4. Phases'
    BY <1>9 DEF TakeMessage, Phases
  <2>5. Covered'
    BY <1>9 DEF TakeMessage, Covered
  <2>6. Attended'
    BY <1>9, JobsAssumption DEF TakeMessage, Places, Attended
  <2>. QED
    BY <2>1, <2>2, <2>3, <2>4, <2>5, <2>6
<1>10. CASE CatchSuccess
  <2>1. PTypeOK'
    <3>1. worker' = [pc |-> "completing", job |-> worker.job, age |-> 0,
                     running |-> worker.running, outcome |-> "DEAD"]
      BY <1>10 DEF CatchSuccess, PTypeOK, WorkerTypeOK
    <3>. QED
      BY <1>10, <3>1
      DEF CatchSuccess, Fault, PTypeOK, JobsTypeOK, WorkerTypeOK, SchedulerTypeOK, Outcomes
  <2>2. Clocks'
    BY <1>10, TimingAssumption DEF CatchSuccess, Fault, Clocks, Executes
  <2>3. Places'
    BY <1>10 DEF CatchSuccess, Fault, Places
  <2>4. Phases'
    BY <1>10 DEF CatchSuccess, Fault, Phases, Outcomes
  <2>5. Covered'
    BY <1>10 DEF CatchSuccess, Fault, Phases, Covered
  <2>6. Attended'
    BY <1>10 DEF CatchSuccess, Fault, Attended
  <2>. QED
    BY <2>1, <2>2, <2>3, <2>4, <2>5, <2>6
<1>11. CASE ProcessorThrows
  <2>1. PTypeOK'
    BY <1>11 DEF ProcessorThrows, LeftBehind, Fault, EndExecution, JobsTypeOK,
      WorkerTypeOK, SchedulerTypeOK, Places, PTypeOK, Idle
  <2>2. Clocks'
    BY <1>11, TimingAssumption DEF ProcessorThrows, LeftBehind, Fault, EndExecution,
      Clocks, Idle
  <2>3. Places'
    BY <1>11, JobsAssumption DEF ProcessorThrows, LeftBehind, Fault, EndExecution,
      JobsTypeOK, Places, PTypeOK, Idle
  <2>4. Phases'
    BY <1>11 DEF ProcessorThrows, LeftBehind, Fault, EndExecution, Phases, Idle
  <2>5. Covered'
    BY <1>11 DEF ProcessorThrows, LeftBehind, Fault, EndExecution, Covered, Idle
  <2>6. Attended'
    BY <1>11 DEF ProcessorThrows, LeftBehind, Fault, EndExecution, Attended
  <2>. QED
    BY <2>1, <2>2, <2>3, <2>4, <2>5, <2>6
<1>12. CASE LoseRenewal
  <2>1. PTypeOK'
    BY <1>12 DEF LoseRenewal, Fires, Missed, JobsTypeOK, WorkerTypeOK,
      SchedulerTypeOK, PTypeOK
  <2>2. Clocks'
    BY <1>12, TimingAssumption DEF LoseRenewal, Fires, Missed, Clocks
  <2>3. Places'
    BY <1>12 DEF LoseRenewal, Fires, Missed, Places
  <2>4. Phases'
    BY <1>12 DEF LoseRenewal, Fires, Missed, Phases, Off
  <2>5. Covered'
    BY <1>12 DEF LoseRenewal, Fires, Missed, Covered
  <2>6. Attended'
    BY <1>12 DEF LoseRenewal, Fires, Missed, Attended
  <2>. QED
    BY <2>1, <2>2, <2>3, <2>4, <2>5, <2>6
<1>13. CASE WorkerSignal
  <2>1. PTypeOK'
    BY <1>13 DEF WorkerSignal, JobsTypeOK, WorkerTypeOK, SchedulerTypeOK,
      PTypeOK
  <2>2. Clocks'
    BY <1>13 DEF WorkerSignal, Clocks
  <2>3. Places'
    BY <1>13 DEF WorkerSignal, Places
  <2>4. Phases'
    BY <1>13 DEF WorkerSignal, Phases
  <2>5. Covered'
    BY <1>13 DEF WorkerSignal, Covered
  <2>6. Attended'
    BY <1>13 DEF WorkerSignal, Attended
  <2>. QED
    BY <2>1, <2>2, <2>3, <2>4, <2>5, <2>6
<1>14. CASE WorkerDies
  <2>1. PTypeOK'
    BY <1>14 DEF WorkerDies, LeftBehind, Fault, EndExecution, JobsTypeOK,
      WorkerTypeOK, SchedulerTypeOK, Places, PTypeOK, Idle
  <2>2. Clocks'
    BY <1>14, TimingAssumption DEF WorkerDies, LeftBehind, Fault, EndExecution, Clocks,
      Idle
  <2>3. Places'
    BY <1>14, JobsAssumption DEF WorkerDies, LeftBehind, Fault, EndExecution, JobsTypeOK,
      Places, PTypeOK, Idle
  <2>4. Phases'
    BY <1>14 DEF WorkerDies, LeftBehind, Fault, EndExecution, Phases, Idle
  <2>5. Covered'
    BY <1>14 DEF WorkerDies, LeftBehind, Fault, EndExecution, Covered, Idle
  <2>6. Attended'
    BY <1>14, JobsAssumption DEF WorkerDies, LeftBehind, Fault, EndExecution, Attended
  <2>. QED
    BY <2>1, <2>2, <2>3, <2>4, <2>5, <2>6
<1>. QED
  BY <1>1, <1>2, <1>3, <1>4, <1>5, <1>6, <1>7, <1>8, <1>9, <1>10, <1>11,
    <1>12, <1>13, <1>14 DEF WorkerNext, WorkerWork

(* Each step of the scheduler. *)
LEMMA SchedulerSteps ==
    ASSUME PInv, SchedulerNext, UNCHANGED workerVars
    PROVE  PInv'
<1>. USE DEF PInv, jobVars, workerVars, schedulerVars
<1>1. CASE SelectStale
  <2>1. PTypeOK'
    BY <1>1 DEF SelectStale, JobsTypeOK, WorkerTypeOK, SchedulerTypeOK,
      PTypeOK, At
  <2>2. Clocks'
    BY <1>1 DEF SelectStale, Clocks
  <2>3. Places'
    BY <1>1 DEF SelectStale, Places, At
  <2>4. Phases'
    BY <1>1 DEF SelectStale, Phases
  <2>5. Covered'
    BY <1>1 DEF SelectStale, Covered
  <2>6. Attended'
    BY <1>1, JobsAssumption DEF SelectStale, Places, Attended
  <2>. QED
    BY <2>1, <2>2, <2>3, <2>4, <2>5, <2>6
<1>2. CASE \E j \in Jobs, to \in {"RETRYING", "DEAD"} : RecoverStaleJob(j, to)
  <2>1. PTypeOK'
    BY <1>2, JobsAssumption DEF RecoverStaleJob, ExecuteRecovery, Rest, Stale, JobsTypeOK,
      WorkerTypeOK, SchedulerTypeOK, PTypeOK, At, JobStatus
  <2>2. Clocks'
    BY <1>2 DEF RecoverStaleJob, ExecuteRecovery, Rest, Stale, Clocks
  <2>3. Places'
    BY <1>2 DEF RecoverStaleJob, ExecuteRecovery, Rest, Stale, JobsTypeOK, WorkerTypeOK,
      Places, PTypeOK, At
  <2>4. Phases'
    BY <1>2, JobsAssumption, TimingAssumption DEF RecoverStaleJob, ExecuteRecovery, Rest,
      Stale, JobsTypeOK, WorkerTypeOK, Clocks, Waits, Places, Phases,
      Outcomes, Covered, PTypeOK
  <2>5. Covered'
    BY <1>2 DEF RecoverStaleJob, ExecuteRecovery, Rest, Stale, JobsTypeOK, WorkerTypeOK,
      Places, Covered, PTypeOK
  <2>6. Attended'
    BY <1>2, JobsAssumption DEF RecoverStaleJob, ExecuteRecovery, Rest, Stale, JobsTypeOK,
      Places, Attended, PTypeOK
  <2>. QED
    BY <2>1, <2>2, <2>3, <2>4, <2>5, <2>6
<1>3. CASE EndRecovery
  <2>1. PTypeOK'
    BY <1>3 DEF EndRecovery, JobsTypeOK, WorkerTypeOK, SchedulerTypeOK,
      PTypeOK, At
  <2>2. Clocks'
    BY <1>3 DEF EndRecovery, Clocks
  <2>3. Places'
    BY <1>3 DEF EndRecovery, Places, At
  <2>4. Phases'
    BY <1>3 DEF EndRecovery, Phases
  <2>5. Covered'
    BY <1>3 DEF EndRecovery, Covered
  <2>6. Attended'
    BY <1>3 DEF EndRecovery, Attended, At
  <2>. QED
    BY <2>1, <2>2, <2>3, <2>4, <2>5, <2>6
<1>4. CASE SelectDue
  <2>1. PTypeOK'
    BY <1>4 DEF SelectDue, MayBeDue, JobsTypeOK, WorkerTypeOK, SchedulerTypeOK,
      PTypeOK, At
  <2>2. Clocks'
    BY <1>4 DEF SelectDue, MayBeDue, Clocks
  <2>3. Places'
    BY <1>4 DEF SelectDue, MayBeDue, Places, At
  <2>4. Phases'
    BY <1>4 DEF SelectDue, MayBeDue, Phases
  <2>5. Covered'
    BY <1>4 DEF SelectDue, MayBeDue, Covered
  <2>6. Attended'
    BY <1>4, JobsAssumption DEF SelectDue, MayBeDue, Places, Attended
  <2>. QED
    BY <2>1, <2>2, <2>3, <2>4, <2>5, <2>6
<1>5. CASE \E j \in Jobs : QueueDueJob(j)
  <2>1. PTypeOK'
    BY <1>5 DEF QueueDueJob, ExecuteQueueing, MayBeDue, JobsTypeOK, WorkerTypeOK, SchedulerTypeOK,
      PTypeOK, JobStatus
  <2>2. Clocks'
    BY <1>5 DEF QueueDueJob, ExecuteQueueing, MayBeDue, Clocks
  <2>3. Places'
    BY <1>5, JobsAssumption DEF QueueDueJob, ExecuteQueueing, MayBeDue, JobsTypeOK, WorkerTypeOK,
      Places, Phases, Outcomes, PTypeOK
  <2>4. Phases'
    BY <1>5 DEF QueueDueJob, ExecuteQueueing, MayBeDue, Phases, Outcomes
  <2>5. Covered'
    BY <1>5 DEF QueueDueJob, ExecuteQueueing, MayBeDue, Covered
  <2>6. Attended'
    BY <1>5, JobsAssumption DEF QueueDueJob, ExecuteQueueing, MayBeDue, Places, Attended
  <2>. QED
    BY <2>1, <2>2, <2>3, <2>4, <2>5, <2>6
<1>6. CASE Enqueue
  <2>1. PTypeOK'
    BY <1>6 DEF Enqueue, JobsTypeOK, WorkerTypeOK, SchedulerTypeOK, Places,
      PTypeOK, At
  <2>2. Clocks'
    BY <1>6 DEF Enqueue, Clocks
  <2>3. Places'
    BY <1>6 DEF Enqueue, Places, At
  <2>4. Phases'
    BY <1>6 DEF Enqueue, Phases
  <2>5. Covered'
    BY <1>6 DEF Enqueue, Covered
  <2>6. Attended'
    BY <1>6 DEF Enqueue, Attended
  <2>. QED
    BY <2>1, <2>2, <2>3, <2>4, <2>5, <2>6
<1>7. CASE EndCycle
  <2>1. PTypeOK'
    BY <1>7 DEF EndCycle, UnlessStopped, JobsTypeOK, WorkerTypeOK,
      SchedulerTypeOK, PTypeOK, At
  <2>2. Clocks'
    BY <1>7 DEF EndCycle, UnlessStopped, Clocks
  <2>3. Places'
    BY <1>7 DEF EndCycle, UnlessStopped, Places, At
  <2>4. Phases'
    BY <1>7 DEF EndCycle, UnlessStopped, Phases
  <2>5. Covered'
    BY <1>7 DEF EndCycle, UnlessStopped, Covered
  <2>6. Attended'
    BY <1>7 DEF EndCycle, UnlessStopped, Attended, At
  <2>. QED
    BY <2>1, <2>2, <2>3, <2>4, <2>5, <2>6
<1>8. CASE WakeUp
  <2>1. PTypeOK'
    BY <1>8 DEF WakeUp, UnlessStopped, JobsTypeOK, WorkerTypeOK,
      SchedulerTypeOK, PTypeOK, At
  <2>2. Clocks'
    BY <1>8 DEF WakeUp, UnlessStopped, Clocks
  <2>3. Places'
    BY <1>8 DEF WakeUp, UnlessStopped, Places, At
  <2>4. Phases'
    BY <1>8 DEF WakeUp, UnlessStopped, Phases
  <2>5. Covered'
    BY <1>8 DEF WakeUp, UnlessStopped, Covered
  <2>6. Attended'
    BY <1>8, JobsAssumption DEF WakeUp, UnlessStopped, Places, Attended
  <2>. QED
    BY <2>1, <2>2, <2>3, <2>4, <2>5, <2>6
<1>9. CASE SchedulerExit
  <2>1. PTypeOK'
    BY <1>9 DEF SchedulerExit, SchedulerDrained, JobsTypeOK, WorkerTypeOK,
      SchedulerTypeOK, PTypeOK, At
  <2>2. Clocks'
    BY <1>9 DEF SchedulerExit, SchedulerDrained, Clocks
  <2>3. Places'
    BY <1>9 DEF SchedulerExit, SchedulerDrained, Places, At
  <2>4. Phases'
    BY <1>9 DEF SchedulerExit, SchedulerDrained, Phases
  <2>5. Covered'
    BY <1>9 DEF SchedulerExit, SchedulerDrained, Covered
  <2>6. Attended'
    BY <1>9 DEF SchedulerExit, SchedulerDrained, Places, Attended, At
  <2>. QED
    BY <2>1, <2>2, <2>3, <2>4, <2>5, <2>6
<1>10. CASE RecoveryThrows
  <2>1. CASE UNCHANGED <<status, lease, moved, abandoned>>
    <3>1. PTypeOK'
      BY <1>10, <2>1 DEF RecoveryThrows, Fault, JobsTypeOK, WorkerTypeOK,
        SchedulerTypeOK, PTypeOK, At
    <3>2. Clocks' /\ Phases' /\ Covered'
      BY <1>10, <2>1 DEF RecoveryThrows, Clocks, Phases, Covered
    <3>3. Places'
      BY <1>10, <2>1 DEF RecoveryThrows, Places, At
    <3>4. Attended'
      BY <1>10, <2>1, JobsAssumption DEF RecoveryThrows, Places, Attended
    <3>. QED
      BY <3>1, <3>2, <3>3, <3>4
  <2>2. ASSUME NEW j \in loop.batch, NEW to \in {"RETRYING", "DEAD"},
               ExecuteRecovery(j, to), loop.pc = "recovering",
               loop' = At("recovering", loop.batch \ {j})
        PROVE  PInv'
    <3>. USE <2>2 DEF ExecuteRecovery
    <3>1. j \in Jobs
      BY DEF PTypeOK, SchedulerTypeOK
    <3>2. PTypeOK'
      BY <1>10, <3>1, JobsAssumption DEF RecoveryThrows, Fault, Rest, Stale, JobsTypeOK,
        WorkerTypeOK, SchedulerTypeOK, PTypeOK, At, JobStatus
    <3>3. Clocks'
      BY <1>10 DEF RecoveryThrows, Clocks
    <3>4. Places'
      BY <1>10, <3>1 DEF RecoveryThrows, Rest, Stale, JobsTypeOK, WorkerTypeOK, Places,
        PTypeOK, At
    <3>5. Phases'
      BY <1>10, <3>1, JobsAssumption, TimingAssumption DEF RecoveryThrows, Rest, Stale,
        JobsTypeOK, WorkerTypeOK, Clocks, Waits, Places, Phases, Outcomes, Covered,
        PTypeOK
    <3>6. Covered'
      BY <1>10, <3>1 DEF RecoveryThrows, Rest, Stale, JobsTypeOK, WorkerTypeOK,
        Places, Covered, PTypeOK
    <3>7. Attended'
      BY <1>10, <3>1, JobsAssumption DEF RecoveryThrows, Rest, Stale, JobsTypeOK,
        Places, Attended, PTypeOK
    <3>. QED
      BY <3>2, <3>3, <3>4, <3>5, <3>6, <3>7
  <2>. QED
    BY <1>10, <2>1, <2>2 DEF RecoveryThrows
<1>11. CASE PollThrows
  <2>1. CASE UNCHANGED status /\ abandoned \subseteq abandoned'
    <3>1. PTypeOK'
      BY <1>11, <2>1 DEF PollThrows, ExecuteQueueing, Fault, JobsTypeOK, WorkerTypeOK,
        SchedulerTypeOK, Places, PTypeOK, At
    <3>2. Clocks' /\ Phases' /\ Covered'
      BY <1>11, <2>1 DEF PollThrows, Clocks, Phases, Covered
    <3>3. Places'
      BY <1>11, <2>1 DEF PollThrows, Places, At
    <3>4. Attended'
      BY <1>11, <2>1, JobsAssumption DEF PollThrows, Places, Attended
    <3>. QED
      BY <3>1, <3>2, <3>3, <3>4
  <2>2. ASSUME NEW j \in loop.batch, ExecuteQueueing(j),
               abandoned' = abandoned \cup {j},
               loop' = At("queueing", loop.batch \ {j})
        PROVE  PInv'
    <3>. USE <2>2 DEF ExecuteQueueing, MayBeDue
    <3>1. j \in Jobs
      BY DEF PTypeOK, SchedulerTypeOK
    <3>2. PTypeOK'
      BY <1>11, <3>1 DEF PollThrows, Fault, JobsTypeOK, WorkerTypeOK, SchedulerTypeOK,
        PTypeOK, At, JobStatus
    <3>3. Clocks'
      BY <1>11 DEF PollThrows, Clocks
    <3>4. Places'
      BY <1>11, <3>1, JobsAssumption DEF PollThrows, JobsTypeOK, WorkerTypeOK, Places,
        PTypeOK, At
    <3>5. Phases'
      BY <1>11, <3>1 DEF PollThrows, JobsTypeOK, Phases, Outcomes, PTypeOK
    <3>6. Covered'
      BY <1>11, <3>1 DEF PollThrows, JobsTypeOK, Covered, PTypeOK
    <3>7. Attended'
      BY <1>11, <3>1, JobsAssumption DEF PollThrows, JobsTypeOK, Places, Attended,
        PTypeOK
    <3>. QED
      BY <3>2, <3>3, <3>4, <3>5, <3>6, <3>7
  <2>. QED
    BY <1>11, <2>1, <2>2 DEF PollThrows
<1>12. CASE SchedulerSignal
  <2>1. PTypeOK'
    BY <1>12 DEF SchedulerSignal, JobsTypeOK, WorkerTypeOK, SchedulerTypeOK,
      PTypeOK
  <2>2. Clocks'
    BY <1>12 DEF SchedulerSignal, Clocks
  <2>3. Places'
    BY <1>12 DEF SchedulerSignal, Places
  <2>4. Phases'
    BY <1>12 DEF SchedulerSignal, Phases
  <2>5. Covered'
    BY <1>12 DEF SchedulerSignal, Covered
  <2>6. Attended'
    BY <1>12 DEF SchedulerSignal, Attended
  <2>. QED
    BY <2>1, <2>2, <2>3, <2>4, <2>5, <2>6
<1>13. CASE SchedulerDies
  <2>1. PTypeOK'
    BY <1>13 DEF SchedulerDies, Fault, JobsTypeOK, WorkerTypeOK,
      SchedulerTypeOK, PTypeOK, At
  <2>2. Clocks'
    BY <1>13 DEF SchedulerDies, Fault, Clocks
  <2>3. Places'
    BY <1>13 DEF SchedulerDies, Fault, Places, At
  <2>4. Phases'
    BY <1>13 DEF SchedulerDies, Fault, Phases
  <2>5. Covered'
    BY <1>13 DEF SchedulerDies, Fault, Covered
  <2>6. Attended'
    BY <1>13, JobsAssumption DEF SchedulerDies, Fault, Attended
  <2>. QED
    BY <2>1, <2>2, <2>3, <2>4, <2>5, <2>6
<1>. QED
  BY <1>1, <1>2, <1>3, <1>4, <1>5, <1>6, <1>7, <1>8, <1>9, <1>10, <1>11,
    <1>12, <1>13 DEF SchedulerNext, SchedulerWork

(* A tick.  No lease loses more than one tick, and each renewal is one tick *)
(* older.                                                                   *)
LEMMA TickSteps ==
    ASSUME PInv, Tick
    PROVE  PInv'
<1>. USE DEF PInv, Tick, schedulerVars
<1>1. \A r \in renewals : [r EXCEPT !.age = @ + 1] = [job |-> r.job, age |-> r.age + 1]
  BY DEF PTypeOK, WorkerTypeOK
<1>2. renewals' = {[job |-> r.job, age |-> r.age + 1] : r \in renewals}
  BY <1>1 DEF WorkerAges
<1>3. \A j \in Jobs :
        /\ lease[j] \in Int /\ lease'[j] \in Int
        /\ lease'[j] >= lease[j] - 1
  BY JobsAssumption DEF PTypeOK, JobsTypeOK, Expires
<1>4. /\ worker'.pc = worker.pc /\ worker'.job = worker.job
      /\ worker'.outcome = worker.outcome
      /\ worker.pc # "idle" => worker'.age = worker.age + 1
  BY DEF PTypeOK, WorkerTypeOK, WorkerAges
<1>5. PTypeOK'
  <2>1. lease' \in [Jobs -> -1 .. LeaseDuration]
    BY JobsAssumption DEF PTypeOK, JobsTypeOK, Expires
  <2>2. renewals' \subseteq [job : Jobs, age : Nat]
    BY <1>2 DEF PTypeOK, WorkerTypeOK
  <2>3. worker' \in [pc : {"idle", "claiming", "claimed", "delivering",
                           "completing", "recorded", "fenced"},
                     job : Jobs \cup {None}, age : Nat, running : Nat,
                     outcome : Outcomes \cup {None}]
    <3>1. CASE worker.pc = "idle"
      BY <3>1 DEF PTypeOK, WorkerTypeOK, WorkerAges
    <3>2. CASE worker.pc # "idle"
      <4>. DEFINE n == IF MeasuresRunning /\ worker.running < MaxRunning
                       THEN worker.running + 1 ELSE worker.running
      <4>1. n \in Nat
        BY DEF PTypeOK, WorkerTypeOK
      <4>2. worker' = [pc |-> worker.pc, job |-> worker.job, age |-> worker.age + 1,
                       running |-> n, outcome |-> worker.outcome]
        BY <3>2 DEF PTypeOK, WorkerTypeOK, WorkerAges
      <4>. HIDE DEF n
      <4>. QED
        BY <4>1, <4>2 DEF PTypeOK, WorkerTypeOK
    <3>. QED
      BY <3>1, <3>2
  <2>. QED
    BY <2>1, <2>2, <2>3
    DEF PTypeOK, JobsTypeOK, WorkerTypeOK, SchedulerTypeOK, WorkerAges, Off
<1>6. Clocks'
  BY JobsAssumption, TimingAssumption
  DEF PTypeOK, WorkerTypeOK, Clocks, Waits, Executes, Due, WorkerAges, Off
<1>7. Places'
  BY DEF PTypeOK, WorkerTypeOK, Places, WorkerAges
<1>8. Phases'
  <2>1. CASE worker.pc = "claimed"
    <3>1. lease[worker.job] >= LeaseDuration - worker.age /\ worker.job \in Jobs
      BY <2>1, JobsAssumption DEF PTypeOK, WorkerTypeOK, Phases, Places
    <3>2. lease'[worker.job] >= LeaseDuration - worker'.age
      BY <1>3, <1>4, <2>1, <3>1, JobsAssumption DEF PTypeOK, WorkerTypeOK
    <3>. QED
      BY <1>2, <1>4, <2>1, <3>2 DEF Phases
  <2>2. CASE worker.pc # "claimed"
    BY <1>4, <2>2 DEF PTypeOK, WorkerTypeOK, Phases, WorkerAges, Off
  <2>. QED
    BY <2>1, <2>2
<1>9. Covered'
  <2>. SUFFICES ASSUME worker.pc \in {"delivering", "completing"},
                       status[worker.job] = "PROCESSING"
                PROVE  Covered'
    BY <1>4 DEF Covered
  <2>1. worker.job \in Jobs
    BY DEF PTypeOK, WorkerTypeOK, Places
  <2>2. timer # Off
    BY DEF Phases
  <2>3. silence' = silence + 1 /\ silence \in Nat
    BY <2>2 DEF PTypeOK, WorkerTypeOK, WorkerAges
  <2>4. CASE lease[worker.job] >= LeaseDuration - MaxLatency - silence
    <3>1. lease'[worker.job] >= LeaseDuration - MaxLatency - silence'
      BY <1>3, <2>1, <2>3, <2>4, JobsAssumption, TimingAssumption
    <3>. QED
      BY <1>4, <3>1 DEF Covered
  <2>5. ASSUME NEW r \in renewals, r.job = worker.job,
               lease[worker.job] >= LeaseDuration - MaxLatency - MaxSilence - r.age
        PROVE  Covered'
    <3>. DEFINE later == [job |-> r.job, age |-> r.age + 1]
    <3>1. r.age \in Nat
      BY DEF PTypeOK, WorkerTypeOK
    <3>2. lease'[worker.job] >= LeaseDuration - MaxLatency - MaxSilence - later.age
      BY <1>3, <2>1, <2>5, <3>1, JobsAssumption, TimingAssumption
    <3>3. later \in renewals'
      BY <1>2
    <3>. QED
      BY <1>4, <2>5, <3>2, <3>3 DEF Covered
  <2>. QED
    BY <2>4, <2>5 DEF Covered
<1>10. Attended'
  BY DEF PTypeOK, JobsTypeOK, WorkerTypeOK, Attended, WorkerAges
<1>. QED
  BY <1>5, <1>6, <1>7, <1>8, <1>9, <1>10

(* The invariant holds at the start and is preserved.                       *)
LEMMA PInvInit == PInit => PInv
  BY JobsAssumption, TimingAssumption
  DEF PInit, JobsInit, WorkerInit, SchedulerInit, PInv, PTypeOK, JobsTypeOK,
      WorkerTypeOK, SchedulerTypeOK, Clocks, Waits, Executes, Places, Phases,
      Covered, Attended, JobStatus, Idle, At, Off

(* The invariant is kept by every step,                                     *)
LEMMA PInvStep == PInv /\ [PNext]_pvars => PInv'
<1>. SUFFICES ASSUME PInv, [PNext]_pvars
              PROVE  PInv'
  OBVIOUS
<1>1. CASE UNCHANGED pvars
  BY <1>1
  DEF pvars, jobVars, workerVars, schedulerVars, PInv, PTypeOK, JobsTypeOK,
      WorkerTypeOK, SchedulerTypeOK, Clocks, Places, Phases, Covered, Attended
<1>. QED
  BY <1>1, TickSteps, WorkerSteps, SchedulerSteps DEF PNext

(* so it holds for ever.                                                    *)
LEMMA PInvHolds == PSpec => []PInv
  BY PInvInit, PInvStep, PTL DEF PSpec

(* Every variable has its type, in every state of every behaviour.          *)
THEOREM ProcessTypes == PSpec => []PTypeOK
<1>. QED
  BY PInvHolds, PTL DEF PInv

(* The recovery never takes a row from a worker that lives, whatever the    *)
(* lateness of timers and statements within TimingAssumption.               *)
THEOREM LiveWorkerKeepsItsLease == PSpec => []LiveWorkerKeepsLease
<1>1. PInv => LiveWorkerKeepsLease
  <2>. SUFFICES ASSUME PInv, worker.pc \in {"claimed", "delivering", "completing"},
                       status[worker.job] = "PROCESSING"
                PROVE  lease[worker.job] >= 0
    BY DEF PInv, LiveWorkerKeepsLease, Stale, Phases, PTypeOK, JobsTypeOK,
           WorkerTypeOK, Places
  <2>1. /\ worker.job \in Jobs /\ worker.age \in Nat
        /\ silence \in Nat /\ timer \in Nat \cup {Off}
        /\ \A r \in renewals : r.age \in Nat
    BY DEF PInv, PTypeOK, WorkerTypeOK, Places
  <2>2. lease[worker.job] \in Int
    BY <2>1, JobsAssumption DEF PInv, PTypeOK, JobsTypeOK
  <2>3. CASE worker.pc = "claimed"
    BY <2>1, <2>2, <2>3, JobsAssumption, TimingAssumption
    DEF PInv, Phases, Clocks, Waits
  <2>4. CASE worker.pc # "claimed"
    <3>1. silence <= MaxSilence
      BY <2>1, <2>4, TimingAssumption DEF PInv, Phases, Clocks, Off
    <3>. QED
      BY <2>1, <2>2, <2>4, <3>1, JobsAssumption, TimingAssumption
      DEF PInv, Covered, Clocks
  <2>. QED
    BY <2>3, <2>4
<1>. QED
  BY <1>1, PInvHolds, PTL

(* An orderly end of the worker leaves no row PROCESSING.                   *)
THEOREM WorkerExitSettlesRows == PSpec => []WorkerExitSettles
<1>1. PInv => WorkerExitSettles
  BY JobsAssumption DEF PInv, Attended, Places, WorkerExitSettles
<1>. QED
  BY <1>1, PInvHolds, PTL

(* An add finds an old record only if its row was retried: a PENDING row    *)
(* has no record yet.                                                       *)
Retried(j) == <<j, "RETRYING">> \in moved

Retries ==
    /\ \A j \in Jobs : status[j] = "RETRYING" => Retried(j)
    /\ \A j \in records : status[j] # "PENDING"
    /\ loop.job \in records => Retried(loop.job)
    /\ \A j \in refused : Retried(j)

LEMMA RetriesStay ==
    ASSUME PInv, Retries, [PNext]_pvars
    PROVE  Retries'
<1>. USE DEF PInv, PTypeOK, JobsTypeOK, WorkerTypeOK, SchedulerTypeOK, Places,
       Retries, Retried
<1>1. CASE UNCHANGED pvars
  BY <1>1 DEF pvars, jobVars, workerVars, schedulerVars
<1>2. CASE Tick
  BY <1>2 DEF Tick, schedulerVars
<1>3. CASE WorkerNext /\ UNCHANGED schedulerVars
  <2>1. CASE ExecuteClaim \/ \E r \in renewals : RenewLease(r)
    BY <1>3, <2>1 DEF ExecuteClaim, RenewLease, Lend, schedulerVars
  <2>2. CASE ExecuteCompletion
    BY <1>3, <2>2 DEF ExecuteCompletion, Rest, Phases, Outcomes, schedulerVars
  <2>3. CASE ~ExecuteClaim /\ ~ExecuteCompletion /\ ~\E r \in renewals : RenewLease(r)
    <3>1. UNCHANGED <<status, records, refused, moved, loop>>
      BY <1>3, <2>3
      DEF WorkerNext, WorkerWork, TakeMessage, StartExecution, DeliverWebhook,
          SendRenewal, CatchSuccess, LoseRenewal, WorkerSignal, FinishExecution,
          WorkerExit, ProcessorThrows, WorkerDies, jobVars, schedulerVars
    <3>. QED
      BY <3>1
  <2>. QED
    BY <2>1, <2>2, <2>3
<1>4. CASE SchedulerNext /\ UNCHANGED workerVars
  <2>1. ASSUME NEW j \in Jobs, NEW to \in {"RETRYING", "DEAD"}, ExecuteRecovery(j, to),
               UNCHANGED <<records, refused>>, loop'.job = None
        PROVE  Retries'
    BY <2>1, JobsAssumption DEF ExecuteRecovery, Rest
  <2>2. CASE \E j \in Jobs, to \in {"RETRYING", "DEAD"} : RecoverStaleJob(j, to)
    <3>1. PICK j \in Jobs, to \in {"RETRYING", "DEAD"} : RecoverStaleJob(j, to)
      BY <2>2
    <3>2. UNCHANGED <<records, refused>> /\ loop'.job = None
      BY <3>1 DEF RecoverStaleJob, At
    <3>3. CASE ExecuteRecovery(j, to)
      BY <2>1, <3>2, <3>3
    <3>4. CASE UNCHANGED <<status, moved>>
      BY <3>2, <3>4, JobsAssumption
    <3>. QED
      BY <3>1, <3>3, <3>4 DEF RecoverStaleJob
  <2>3. CASE RecoveryThrows
    <3>1. UNCHANGED <<records, refused>> /\ loop'.job = None
      BY <2>3 DEF RecoveryThrows, At
    <3>2. CASE UNCHANGED <<status, moved>>
      BY <3>1, <3>2, JobsAssumption
    <3>3. CASE \E j \in loop.batch, to \in {"RETRYING", "DEAD"} : ExecuteRecovery(j, to)
      BY <2>1, <3>1, <3>3
    <3>. QED
      BY <2>3, <3>2, <3>3 DEF RecoveryThrows
  <2>4. CASE \E j \in Jobs : QueueDueJob(j)
    BY <2>4 DEF QueueDueJob, ExecuteQueueing, MayBeDue
  <2>5. CASE PollThrows
    <3>1. UNCHANGED <<records, refused, moved>> /\ loop'.job = None
      BY <2>5 DEF PollThrows, At
    <3>2. CASE UNCHANGED status
      BY <3>1, <3>2, JobsAssumption
    <3>3. CASE \E j \in loop.batch : ExecuteQueueing(j)
      BY <3>1, <3>3, JobsAssumption DEF ExecuteQueueing, MayBeDue
    <3>. QED
      BY <2>5, <3>2, <3>3 DEF PollThrows
  <2>6. CASE Enqueue
    <3>1. UNCHANGED <<status, moved>> /\ loop'.job = None /\ status[loop.job] = "QUEUED"
      BY <2>6 DEF Enqueue, At
    <3>. QED
      BY <2>6, <3>1, JobsAssumption DEF Enqueue
  <2>7. CASE \/ SelectStale \/ EndRecovery \/ SelectDue \/ EndCycle \/ WakeUp
             \/ SchedulerExit \/ SchedulerSignal \/ SchedulerDies
    <3>1. /\ UNCHANGED <<status, records, refused, moved>>
          /\ loop'.job \in {None, loop.job}
      BY <2>7 DEF SelectStale, EndRecovery, SelectDue, EndCycle, WakeUp, At,
        SchedulerExit, SchedulerSignal, SchedulerDies, jobVars
    <3>. QED
      BY <3>1, JobsAssumption
  <2>. QED
    BY <1>4, <2>2, <2>3, <2>4, <2>5, <2>6, <2>7 DEF SchedulerNext, SchedulerWork
<1>. QED
  BY <1>1, <1>2, <1>3, <1>4 DEF PNext

(* An orderly end of the scheduler leaves no row between the UPDATE to      *)
(* QUEUED and the add, and only the add of a retry has done nothing.        *)
THEOREM SchedulerExitEnqueuesRows == PSpec => []SchedulerExitEnqueues
<1>1. PInit => Retries
  BY JobsAssumption DEF PInit, JobsInit, SchedulerInit, At, Retries
<1>2. PInv /\ Retries /\ [PNext]_pvars => Retries'
  BY RetriesStay
<1>3. PInv /\ Retries => SchedulerExitEnqueues
  BY JobsAssumption
  DEF PInv, Attended, Places, Retries, Retried, SchedulerExitEnqueues
<1>. QED
  BY <1>1, <1>2, <1>3, PInvHolds, PTL DEF PSpec

-----------------------------------------------------------------------------
(* The metrics.  A row makes one transition out of PROCESSING, so a counter *)
(* may run ahead of the transitions only within the step that counts.       *)
MetricsTypeOK ==
    /\ workerMetrics \in
         [jobs : [Outcomes -> Nat],
          duration : [Outcomes -> [buckets : [Buckets -> Nat], sum : Nat,
                                   total : Nat]]]
    /\ schedulerMetrics \in [{"RETRYING", "DEAD"} -> Nat]
    /\ durations \subseteq [job : Jobs, outcome : Outcomes, ticks : Nat]
    /\ IsFiniteSet(durations)

(* Where a row is that has left PROCESSING: it keeps its outcome, but for a *)
(* retry, which is QUEUED again and not claimed again.                      *)
Moves ==
    \A j \in Jobs, s \in JobStatus : <<j, s>> \in moved =>
      /\ s \in Outcomes /\ j \in records \ messages
      /\ status[j] = s \/ (s = "RETRYING" /\ status[j] = "QUEUED")
      /\ worker.pc = "claiming" => j # worker.job

RowsIn(s) == {j \in Jobs : <<j, s>> \in moved}

(* What the two registries count as s, and what the worker counts next.     *)
Recovered(s) == IF s = "SUCCEEDED" THEN 0 ELSE schedulerMetrics[s]
Recorded(s) == IF worker.pc = "recorded" /\ worker.outcome = s THEN 1 ELSE 0
Booked(s) == workerMetrics.jobs[s] + Recovered(s) + Recorded(s)

(* No outcome is booked twice.                                              *)
NoOverbooking == \A s \in Outcomes : Booked(s) <= Cardinality(RowsIn(s))

(* A row whose execution was observed is not in execution again.            *)
Observations ==
    \A d \in durations : d.job \in records \ messages /\ d.job # worker.job

MInv ==
    /\ PInv /\ MetricsTypeOK /\ Moves
    /\ NoOverbooking /\ Observations /\ HistogramIsCumulative

(* A step that moves a row out of PROCESSING.                               *)
LEMMA RowMoves ==
    ASSUME PInv, PInv', Moves,
           NEW j \in Jobs, status[j] = "PROCESSING",
           NEW to \in Outcomes, Rest(j, to),
           UNCHANGED <<records, messages>>,
           worker'.pc = "claiming" => worker.pc = "claiming" /\ worker'.job = worker.job
    PROVE  /\ Moves'
           /\ <<j, to>> \notin moved /\ <<j, to>> \in moved'
           /\ moved \subseteq moved'
<1>. USE DEF PInv, PTypeOK, JobsTypeOK, Places
<1>1. /\ moved' = moved \cup {<<j, to>>} /\ status'[j] = to
      /\ \A i \in Jobs \ {j} : status'[i] = status[i]
  BY DEF Rest
<1>2. to \in JobStatus /\ \A s \in JobStatus : <<j, s>> \notin moved
  BY DEF Moves, Outcomes, JobStatus
<1>3. j \in records \ messages
  OBVIOUS
<1>4. worker'.pc = "claiming" => j # worker'.job
  OBVIOUS
<1>5. Moves'
  <2>. SUFFICES ASSUME NEW i \in Jobs, NEW s \in JobStatus, <<i, s>> \in moved'
                PROVE  /\ s \in Outcomes /\ i \in (records \ messages)'
                       /\ status'[i] = s \/ (s = "RETRYING" /\ status'[i] = "QUEUED")
                       /\ worker'.pc = "claiming" => i # worker'.job
    BY DEF Moves
  <2>1. CASE i = j
    BY <1>1, <1>2, <1>3, <1>4, <2>1
  <2>2. CASE i # j
    BY <1>1, <2>2 DEF Moves
  <2>. QED
    BY <2>1, <2>2
<1>. QED
  BY <1>1, <1>2, <1>5

(* What a step does to moved: nothing is taken from it, and what is added   *)
(* is the row that the worker completes or the recovery takes.              *)
LEMMA MovesStay ==
    ASSUME PInv, PInv', Moves, PNext
    PROVE  Moves' /\ moved \subseteq moved'
<1>. USE DEF PInv, PTypeOK, JobsTypeOK, WorkerTypeOK, SchedulerTypeOK, Places
<1>1. CASE Tick
  BY <1>1 DEF Tick, WorkerAges, Moves
<1>2. CASE WorkerNext /\ UNCHANGED schedulerVars
  <2>1. CASE ExecuteClaim \/ \E r \in renewals : RenewLease(r)
    BY <1>2, <2>1 DEF ExecuteClaim, RenewLease, Lend, Moves, Outcomes
  <2>2. CASE ExecuteCompletion /\ status[worker.job] = "PROCESSING"
    <3>1. /\ worker.job \in Jobs /\ worker.outcome \in Outcomes
          /\ Rest(worker.job, worker.outcome) /\ worker'.pc = "recorded"
          /\ UNCHANGED <<records, messages>>
      BY <2>2 DEF ExecuteCompletion, Phases
    <3>. QED
      BY <2>2, <3>1, RowMoves
  <2>3. CASE ExecuteCompletion /\ status[worker.job] # "PROCESSING"
    BY <2>3 DEF ExecuteCompletion, Moves
  <2>4. CASE \E j \in messages : TakeMessage(j)
    BY <1>2, <2>4 DEF TakeMessage, Idle, Moves
  <2>5. CASE \/ StartExecution \/ \E outcome \in Endings : DeliverWebhook(outcome)
             \/ SendRenewal \/ CatchSuccess \/ LoseRenewal \/ WorkerSignal
    <3>1. /\ UNCHANGED <<status, records, messages, moved>> /\ worker'.job = worker.job
          /\ worker'.pc = "claiming" => worker.pc = "claiming"
      BY <2>5 DEF StartExecution, DeliverWebhook, SendRenewal, CatchSuccess,
        LoseRenewal, WorkerSignal, jobVars
    <3>. QED
      BY <3>1 DEF Moves
  <2>6. CASE FinishExecution \/ WorkerExit \/ ProcessorThrows \/ WorkerDies
    <3>1. UNCHANGED <<status, records, messages, moved>> /\ worker'.pc = "idle"
      BY <2>6 DEF FinishExecution, WorkerExit, ProcessorThrows, WorkerDies,
        EndExecution, Idle, jobVars
    <3>. QED
      BY <3>1 DEF Moves
  <2>. QED
    BY <1>2, <2>1, <2>2, <2>3, <2>4, <2>5, <2>6 DEF WorkerNext, WorkerWork
<1>3. CASE SchedulerNext /\ UNCHANGED workerVars
  <2>1. ASSUME NEW j \in Jobs, NEW to \in {"RETRYING", "DEAD"}, ExecuteRecovery(j, to),
               UNCHANGED <<records, messages>>
        PROVE  Moves' /\ moved \subseteq moved'
    <3>1. /\ status[j] = "PROCESSING" /\ to \in Outcomes /\ Rest(j, to)
          /\ worker' = worker
      BY <1>3, <2>1 DEF ExecuteRecovery, Stale, Outcomes, workerVars
    <3>. QED
      BY <2>1, <3>1, RowMoves
  <2>2. CASE \E j \in Jobs, to \in {"RETRYING", "DEAD"} : RecoverStaleJob(j, to)
    BY <1>3, <2>1, <2>2 DEF RecoverStaleJob, workerVars, Moves
  <2>3. CASE RecoveryThrows
    <3>1. UNCHANGED <<records, messages, worker>>
      BY <1>3, <2>3 DEF RecoveryThrows, workerVars
    <3>2. CASE UNCHANGED <<status, moved>>
      BY <3>1, <3>2 DEF Moves
    <3>3. CASE \E j \in loop.batch, to \in {"RETRYING", "DEAD"} : ExecuteRecovery(j, to)
      BY <2>1, <3>1, <3>3
    <3>. QED
      BY <2>3, <3>2, <3>3 DEF RecoveryThrows
  <2>4. CASE \E j \in Jobs : QueueDueJob(j)
    BY <1>3, <2>4 DEF QueueDueJob, ExecuteQueueing, MayBeDue, workerVars, Moves, Outcomes
  <2>5. CASE PollThrows
    <3>1. UNCHANGED <<records, messages, moved, worker>>
      BY <1>3, <2>5 DEF PollThrows, workerVars
    <3>2. CASE UNCHANGED status
      BY <3>1, <3>2 DEF Moves
    <3>3. CASE \E j \in loop.batch : ExecuteQueueing(j)
      BY <3>1, <3>3 DEF ExecuteQueueing, MayBeDue, Moves, Outcomes
    <3>. QED
      BY <2>5, <3>2, <3>3 DEF PollThrows
  <2>6. CASE Enqueue
    BY <1>3, <2>6 DEF Enqueue, workerVars, Moves
  <2>7. CASE \/ SelectStale \/ EndRecovery \/ SelectDue \/ EndCycle \/ WakeUp
             \/ SchedulerExit \/ SchedulerSignal \/ SchedulerDies
    BY <1>3, <2>7 DEF SelectStale, EndRecovery, SelectDue, EndCycle, WakeUp,
      SchedulerExit, SchedulerSignal, SchedulerDies, jobVars, workerVars, Moves
  <2>. QED
    BY <1>3, <2>2, <2>3, <2>4, <2>5, <2>6, <2>7 DEF SchedulerNext, SchedulerWork
<1>. QED
  BY <1>1, <1>2, <1>3 DEF PNext

(* What that means for their number: it never falls, and one more makes it  *)
(* one more.                                                                *)
LEMMA RowsCount ==
    ASSUME PInv, PInv', NEW s \in Outcomes,
           moved \subseteq moved'
    PROVE  /\ IsFiniteSet(RowsIn(s)) /\ Cardinality(RowsIn(s)) \in Nat
           /\ Cardinality(RowsIn(s)') \in Nat
           /\ Cardinality(RowsIn(s)) <= Cardinality(RowsIn(s)')
           /\ \A j \in Jobs : <<j, s>> \notin moved /\ <<j, s>> \in moved' =>
                Cardinality(RowsIn(s)) + 1 <= Cardinality(RowsIn(s)')
<1>. DEFINE before == RowsIn(s)
            after == RowsIn(s)'
<1>1. before \subseteq Jobs /\ after \subseteq Jobs /\ before \subseteq after
  BY DEF RowsIn
<1>2. IsFiniteSet(before) /\ IsFiniteSet(after)
  BY <1>1, FS_Subset, JobsAssumption
<1>3. /\ Cardinality(before) \in Nat /\ Cardinality(after) \in Nat
      /\ Cardinality(before) <= Cardinality(after)
  BY <1>1, <1>2, FS_Subset, FS_CardinalityType
<1>4. ASSUME NEW j \in Jobs, <<j, s>> \notin moved, <<j, s>> \in moved'
      PROVE  Cardinality(before) + 1 <= Cardinality(after)
  <2>1. j \notin before /\ before \cup {j} \subseteq after
    BY <1>1, <1>4 DEF RowsIn
  <2>2. Cardinality(before \cup {j}) = Cardinality(before) + 1
    BY <1>2, <2>1, FS_AddElement
  <2>3. Cardinality(before \cup {j}) <= Cardinality(after)
    BY <1>2, <2>1, FS_Subset
  <2>. QED
    BY <2>2, <2>3
<1>. QED
  BY <1>2, <1>3, <1>4

(* Most steps count nothing.  Of these, only the completion of a row makes  *)
(* the worker about to count, and the worker only takes rows that have a    *)
(* message.                                                                 *)
LEMMA WhoCounts ==
    ASSUME PInv, PInv', Moves, PNext
    PROVE  \/ FinishExecution /\ UNCHANGED schedulerVars
           \/ /\ \E j \in Jobs, to \in {"RETRYING", "DEAD"} : RecoverStaleJob(j, to)
              /\ UNCHANGED workerVars
           \/ /\ UNCHANGED <<workerMetrics, schedulerMetrics, durations>>
              /\ \A s \in Outcomes :
                   worker'.pc = "recorded" /\ worker'.outcome = s =>
                     \/ worker.pc = "recorded" /\ worker.outcome = s
                     \/ /\ worker.job \in Jobs
                        /\ <<worker.job, s>> \notin moved
                        /\ <<worker.job, s>> \in moved'
              /\ \A j \in Jobs :
                   worker'.job = j => worker.job = j \/ j \in messages
              /\ records \subseteq records' /\ records \cap messages' \subseteq messages
<1>. USE DEF PInv, PTypeOK, JobsTypeOK, WorkerTypeOK, Places, Outcomes
<1>1. CASE Tick
  BY <1>1 DEF Tick, WorkerAges, schedulerVars
<1>2. CASE WorkerNext /\ UNCHANGED schedulerVars
  <2>1. CASE ExecuteCompletion
    <3>1. CASE status[worker.job] = "PROCESSING"
      <4>1. /\ worker.job \in Jobs /\ worker.outcome \in Outcomes
            /\ Rest(worker.job, worker.outcome) /\ worker'.pc = "recorded"
            /\ worker'.outcome = worker.outcome /\ worker'.job = worker.job
            /\ UNCHANGED <<records, messages, workerMetrics, durations>>
        BY <2>1, <3>1 DEF ExecuteCompletion, Phases
      <4>2. /\ <<worker.job, worker.outcome>> \notin moved
            /\ <<worker.job, worker.outcome>> \in moved'
        BY <3>1, <4>1, RowMoves
      <4>. QED
        BY <1>2, <4>1, <4>2 DEF schedulerVars
    <3>2. CASE status[worker.job] # "PROCESSING"
      BY <1>2, <2>1, <3>2 DEF ExecuteCompletion, schedulerVars
    <3>. QED
      BY <3>1, <3>2
  <2>2. CASE \E j \in messages : TakeMessage(j)
    BY <1>2, <2>2 DEF TakeMessage, Idle, schedulerVars
  <2>3. CASE \/ ExecuteClaim \/ StartExecution \/ SendRenewal
             \/ \E outcome \in Endings : DeliverWebhook(outcome)
             \/ \E r \in renewals : RenewLease(r)
             \/ CatchSuccess \/ LoseRenewal \/ WorkerSignal
    BY <1>2, <2>3 DEF ExecuteClaim, StartExecution, SendRenewal, DeliverWebhook,
      RenewLease, CatchSuccess, LoseRenewal, WorkerSignal, jobVars, schedulerVars
  <2>4. CASE WorkerExit \/ ProcessorThrows \/ WorkerDies
    BY <1>2, <2>4, JobsAssumption
    DEF WorkerExit, ProcessorThrows, WorkerDies, EndExecution, Idle, jobVars,
        schedulerVars
  <2>. QED
    BY <1>2, <2>1, <2>2, <2>3, <2>4 DEF WorkerNext, WorkerWork
<1>3. CASE SchedulerNext /\ UNCHANGED workerVars
  <2>1. CASE \E j \in Jobs, to \in {"RETRYING", "DEAD"} : RecoverStaleJob(j, to)
    BY <1>3, <2>1
  <2>2. CASE Enqueue
    BY <1>3, <2>2 DEF Enqueue, workerVars
  <2>3. CASE \/ SelectStale \/ EndRecovery \/ SelectDue \/ EndCycle \/ WakeUp
             \/ SchedulerExit \/ SchedulerSignal \/ SchedulerDies \/ RecoveryThrows
             \/ PollThrows \/ \E j \in Jobs : QueueDueJob(j)
    <3>1. UNCHANGED <<records, messages, worker, workerMetrics, durations,
                      schedulerMetrics>>
      BY <1>3, <2>3 DEF SelectStale, EndRecovery, SelectDue, EndCycle, WakeUp,
        SchedulerExit, SchedulerSignal, SchedulerDies, RecoveryThrows, PollThrows,
        QueueDueJob, jobVars, workerVars
    <3>. QED
      BY <3>1
  <2>. QED
    BY <1>3, <2>1, <2>2, <2>3 DEF SchedulerNext, SchedulerWork
<1>. QED
  BY <1>1, <1>2, <1>3 DEF PNext

(* A step that counts nothing.                                              *)
LEMMA QuietSteps ==
    ASSUME MInv, PInv', PNext,
           UNCHANGED <<workerMetrics, schedulerMetrics, durations>>,
           \A s \in Outcomes :
             worker'.pc = "recorded" /\ worker'.outcome = s =>
               \/ worker.pc = "recorded" /\ worker.outcome = s
               \/ /\ worker.job \in Jobs
                  /\ <<worker.job, s>> \notin moved
                  /\ <<worker.job, s>> \in moved',
           \A j \in Jobs :
             worker'.job = j => worker.job = j \/ j \in messages,
           records \subseteq records', records \cap messages' \subseteq messages
    PROVE  MInv'
<1>1. Moves' /\ moved \subseteq moved'
  BY MovesStay DEF MInv
<1>2. MetricsTypeOK'
  BY DEF MInv, MetricsTypeOK
<1>3. NoOverbooking'
  <2>. SUFFICES ASSUME NEW s \in Outcomes
                PROVE  Booked(s)' <= Cardinality(RowsIn(s)')
    BY DEF NoOverbooking
  <2>. DEFINE n == workerMetrics.jobs[s] + Recovered(s)
  <2>1. n \in Nat
    BY DEF MInv, MetricsTypeOK, Recovered, Outcomes
  <2>2. Booked(s) = n + Recorded(s) /\ Booked(s)' = n + Recorded(s)'
    BY DEF Booked, Recovered
  <2>3. n + Recorded(s) <= Cardinality(RowsIn(s))
    BY <2>2 DEF MInv, NoOverbooking
  <2>4. /\ Cardinality(RowsIn(s)) \in Nat /\ Cardinality(RowsIn(s)') \in Nat
        /\ Cardinality(RowsIn(s)) <= Cardinality(RowsIn(s)')
        /\ \A j \in Jobs : <<j, s>> \notin moved /\ <<j, s>> \in moved' =>
             Cardinality(RowsIn(s)) + 1 <= Cardinality(RowsIn(s)')
    BY <1>1, RowsCount DEF MInv
  <2>5. \/ Recorded(s)' <= Recorded(s)
        \/ /\ Recorded(s) = 0 /\ Recorded(s)' = 1
           /\ Cardinality(RowsIn(s)) + 1 <= Cardinality(RowsIn(s)')
    <3>1. CASE worker'.pc = "recorded" /\ worker'.outcome = s
      <4>1. CASE worker.pc = "recorded" /\ worker.outcome = s
        BY <3>1, <4>1 DEF Recorded
      <4>2. CASE ~(worker.pc = "recorded" /\ worker.outcome = s)
        BY <2>4, <3>1, <4>2 DEF Recorded
      <4>. QED
        BY <4>1, <4>2
    <3>2. CASE ~(worker'.pc = "recorded" /\ worker'.outcome = s)
      BY <3>2 DEF Recorded
    <3>. QED
      BY <3>1, <3>2
  <2>6. Recorded(s) \in 0 .. 1 /\ Recorded(s)' \in 0 .. 1
    BY DEF Recorded
  <2>. HIDE DEF n
  <2>. QED
    BY <2>1, <2>2, <2>3, <2>4, <2>5, <2>6
<1>4. Observations'
  BY DEF MInv, MetricsTypeOK, Observations
<1>5. HistogramIsCumulative'
  BY DEF MInv, HistogramIsCumulative
<1>. QED
  BY <1>1, <1>2, <1>3, <1>4, <1>5 DEF MInv

(* A recovery counts the row that it takes, and no other.                   *)
LEMMA RecoveryCounts ==
    ASSUME MInv, PInv', PNext, UNCHANGED workerVars,
           NEW j \in Jobs, NEW to \in {"RETRYING", "DEAD"}, RecoverStaleJob(j, to)
    PROVE  MInv'
<1>1. CASE ~Stale(j)
  <2>1. UNCHANGED <<worker, workerMetrics, schedulerMetrics, durations, records,
                    messages>>
    BY <1>1 DEF RecoverStaleJob, workerVars
  <2>. QED
    BY <2>1, QuietSteps
<1>2. CASE Stale(j)
  <2>. USE DEF MInv
  <2>1. /\ status[j] = "PROCESSING" /\ Rest(j, to) /\ to \in Outcomes
        /\ schedulerMetrics' = Inc(schedulerMetrics, to)
        /\ UNCHANGED <<worker, workerMetrics, durations, records, messages>>
    BY <1>2 DEF RecoverStaleJob, ExecuteRecovery, Stale, workerVars, Outcomes
  <2>2. /\ Moves' /\ moved \subseteq moved'
        /\ <<j, to>> \notin moved /\ <<j, to>> \in moved'
    BY <2>1, RowMoves
  <2>3. MetricsTypeOK'
    BY <2>1 DEF MetricsTypeOK, Inc
  <2>4. NoOverbooking'
    <3>. SUFFICES ASSUME NEW s \in Outcomes
                  PROVE  Booked(s)' <= Cardinality(RowsIn(s)')
      BY DEF NoOverbooking
    <3>1. Booked(s) \in Nat /\ Booked(s) <= Cardinality(RowsIn(s))
      BY DEF Booked, Recovered, Recorded, MetricsTypeOK, NoOverbooking, Outcomes
    <3>2. /\ Cardinality(RowsIn(s)) \in Nat /\ Cardinality(RowsIn(s)') \in Nat
          /\ Cardinality(RowsIn(s)) <= Cardinality(RowsIn(s)')
          /\ s = to => Cardinality(RowsIn(s)) + 1 <= Cardinality(RowsIn(s)')
      BY <2>1, <2>2, RowsCount
    <3>3. Booked(s)' = IF s = to THEN Booked(s) + 1 ELSE Booked(s)
      BY <2>1 DEF Booked, Recovered, Recorded, MetricsTypeOK, Inc, Outcomes
    <3>. QED
      BY <3>1, <3>2, <3>3
  <2>5. Observations'
    BY <2>1 DEF MetricsTypeOK, Observations
  <2>6. HistogramIsCumulative'
    BY <2>1 DEF HistogramIsCumulative
  <2>. QED
    BY <2>2, <2>3, <2>4, <2>5, <2>6
<1>. QED
  BY <1>1, <1>2

(* The worker counts and observes the execution that it ends, if the row    *)
(* was updated.                                                             *)
LEMMA ExecutionCounts ==
    ASSUME MInv, PInv', PNext, FinishExecution, UNCHANGED schedulerVars
    PROVE  MInv'
<1>. DEFINE o == worker.outcome
            j == worker.job
            new == [job |-> j, outcome |-> o, ticks |-> worker.running]
<1>1. CASE ~Counted
  BY <1>1, QuietSteps, JobsAssumption
  DEF FinishExecution, EndExecution, Idle, jobVars, schedulerVars
<1>2. CASE Counted
  <2>. USE DEF MInv
  <2>1. /\ worker.pc = "recorded" /\ o \in Outcomes /\ j \in Jobs
        /\ worker.running \in Nat /\ j \in records \ messages
    BY <1>2 DEF Counted, PInv, PTypeOK, WorkerTypeOK, Phases, Places, Outcomes
  <2>2. /\ workerMetrics' = [jobs |-> Inc(workerMetrics.jobs, o),
                             duration |-> Observe(workerMetrics.duration, o,
                                                  worker.running)]
        /\ durations' = durations \cup {new}
        /\ worker'.pc = "idle" /\ worker'.job = None
        /\ UNCHANGED <<status, records, messages, moved, schedulerMetrics>>
    BY <1>2 DEF FinishExecution, EndExecution, Idle, jobVars, schedulerVars
  <2>3. new \notin durations /\ new \in [job : Jobs, outcome : Outcomes, ticks : Nat]
    BY <2>1 DEF Observations
  <2>. HIDE DEF new
  <2>4. MetricsTypeOK'
    <3>1. IsFiniteSet(durations')
      BY <2>2, FS_AddElement DEF MetricsTypeOK
    <3>2. Inc(workerMetrics.jobs, o) \in [Outcomes -> Nat]
      BY <2>1 DEF MetricsTypeOK, Inc
    <3>3. Observe(workerMetrics.duration, o, worker.running)
            \in [Outcomes -> [buckets : [Buckets -> Nat], sum : Nat, total : Nat]]
      BY <2>1 DEF MetricsTypeOK, Observe, Observed
    <3>. QED
      BY <2>2, <2>3, <3>1, <3>2, <3>3 DEF MetricsTypeOK
  <2>5. NoOverbooking'
    <3>. SUFFICES ASSUME NEW s \in Outcomes
                  PROVE  Booked(s)' <= Cardinality(RowsIn(s)')
      BY DEF NoOverbooking
    <3>1. RowsIn(s)' = RowsIn(s) /\ Recovered(s)' = Recovered(s)
      BY <2>2 DEF RowsIn, Recovered
    <3>2. workerMetrics'.jobs[s] + Recorded(s)' = workerMetrics.jobs[s] + Recorded(s)
      BY <2>1, <2>2 DEF Recorded, Inc, MetricsTypeOK
    <3>3. /\ workerMetrics.jobs[s] \in Nat /\ workerMetrics'.jobs[s] \in Nat
          /\ Recovered(s) \in Nat /\ Recorded(s) \in Nat /\ Recorded(s)' \in Nat
      BY <2>4 DEF MetricsTypeOK, Recovered, Recorded, Outcomes
    <3>4. Booked(s)' = Booked(s)
      BY <3>1, <3>2, <3>3 DEF Booked
    <3>. QED
      BY <3>1, <3>4 DEF NoOverbooking
  <2>6. Observations'
    BY <2>1, <2>2, JobsAssumption DEF Observations, MetricsTypeOK, new
  <2>7. HistogramIsCumulative'
    <3>. SUFFICES ASSUME NEW p \in Outcomes
                  PROVE  (LET seen == {d \in durations : d.outcome = p}
                              series == workerMetrics.duration[p]
                          IN  /\ \A bound \in Buckets :
                                   series.buckets[bound] =
                                     Cardinality({d \in seen : d.ticks <= bound})
                              /\ series.total = Cardinality(seen)
                              /\ series.total = workerMetrics.jobs[p])'
      BY DEF HistogramIsCumulative
    <3>. DEFINE seen == {d \in durations : d.outcome = p}
                upTo(bound) == {d \in seen : d.ticks <= bound}
                series == workerMetrics.duration[p]
    <3>1. /\ \A bound \in Buckets : series.buckets[bound] = Cardinality(upTo(bound))
          /\ series.total = Cardinality(seen)
          /\ series.total = workerMetrics.jobs[p]
      BY DEF HistogramIsCumulative
    <3>2. CASE p # o
      <4>1. seen' = seen
        BY <2>2, <3>2 DEF new
      <4>2. series' = series /\ workerMetrics'.jobs[p] = workerMetrics.jobs[p]
        BY <2>1, <2>2, <3>2 DEF Inc, Observe, MetricsTypeOK
      <4>. QED
        BY <3>1, <4>1, <4>2
    <3>3. CASE p = o
      <4>1. seen' = seen \cup {new} /\ new \notin seen /\ IsFiniteSet(seen)
        BY <2>2, <2>3, <3>3, FS_Subset DEF new, MetricsTypeOK
      <4>2. /\ series'.total = series.total + 1
            /\ workerMetrics'.jobs[p] = workerMetrics.jobs[p] + 1
            /\ \A bound \in Buckets :
                 series'.buckets[bound] =
                   IF worker.running <= bound THEN series.buckets[bound] + 1
                                              ELSE series.buckets[bound]
        BY <2>1, <2>2, <3>3 DEF Inc, Observe, Observed, MetricsTypeOK
      <4>3. Cardinality(seen') = Cardinality(seen) + 1
        BY <4>1, FS_AddElement
      <4>4. ASSUME NEW bound \in Buckets
            PROVE  series'.buckets[bound] = Cardinality(upTo(bound)')
        <5>1. IsFiniteSet(upTo(bound)) /\ new \notin upTo(bound)
          BY <4>1, FS_Subset
        <5>2. upTo(bound)' = IF worker.running <= bound THEN upTo(bound) \cup {new}
                                                        ELSE upTo(bound)
          BY <4>1 DEF new
        <5>3. Cardinality(upTo(bound)') =
                IF worker.running <= bound THEN Cardinality(upTo(bound)) + 1
                                           ELSE Cardinality(upTo(bound))
          BY <5>1, <5>2, FS_AddElement
        <5>. QED
          BY <3>1, <4>2, <5>3
      <4>. QED
        BY <3>1, <4>2, <4>3, <4>4
    <3>. QED
      BY <3>2, <3>3
  <2>8. Moves'
    BY <2>2 DEF Moves
  <2>. QED
    BY <2>4, <2>5, <2>6, <2>7, <2>8
<1>. QED
  BY <1>1, <1>2

(* The invariant of the metrics holds for ever.                             *)
LEMMA MInvHolds == PSpec => []MInv
<1>1. PInit => MInv
  <2>. SUFFICES ASSUME PInit, PInv
                PROVE  MInv
    BY PInvInit
  <2>1. MetricsTypeOK
    BY FS_EmptySet
    DEF PInit, WorkerInit, SchedulerInit, MetricsTypeOK, NewCounter, NewHistogram,
        NewSeries
  <2>2. NoOverbooking
    <3>1. \A s \in Outcomes : Cardinality(RowsIn(s)) \in Nat
      BY FS_Subset, FS_CardinalityType, JobsAssumption DEF RowsIn
    <3>. QED
      BY <3>1
      DEF PInit, WorkerInit, SchedulerInit, NoOverbooking, Booked, Recovered,
          Recorded, NewCounter, Idle, Outcomes
  <2>3. Observations
    BY DEF PInit, WorkerInit, Observations
  <2>4. HistogramIsCumulative
    BY FS_EmptySet
    DEF PInit, WorkerInit, HistogramIsCumulative, NewCounter, NewHistogram, NewSeries
  <2>5. Moves
    BY DEF PInit, JobsInit, Moves
  <2>. QED
    BY <2>1, <2>2, <2>3, <2>4, <2>5 DEF MInv
<1>2. MInv /\ [PNext]_pvars => MInv'
  <2>. SUFFICES ASSUME MInv, [PNext]_pvars, PInv'
                PROVE  MInv'
    BY PInvStep DEF MInv
  <2>1. CASE PNext
    BY <2>1, WhoCounts, QuietSteps, RecoveryCounts, ExecutionCounts DEF MInv
  <2>2. CASE UNCHANGED pvars
    <3>1. UNCHANGED <<status, records, messages, moved, worker, workerMetrics, durations,
                      schedulerMetrics>>
      BY <2>2 DEF pvars, jobVars, workerVars, schedulerVars
    <3>2. MetricsTypeOK' /\ Observations' /\ HistogramIsCumulative'
      BY <3>1 DEF MInv, MetricsTypeOK, Observations, HistogramIsCumulative
    <3>3. Moves' /\ NoOverbooking'
      BY <3>1 DEF MInv, Moves, NoOverbooking, Booked, Recovered, Recorded, RowsIn
    <3>. QED
      BY <3>2, <3>3 DEF MInv
  <2>. QED
    BY <2>1, <2>2
<1>. QED
  BY <1>1, <1>2, PTL DEF PSpec

(* Neither registry counts a transition that did not happen, and no         *)
(* transition is counted by both.                                           *)
THEOREM MetricsFollow == PSpec => []MetricsFollowTransitions
<1>1. MInv => MetricsFollowTransitions
  <2>. SUFFICES ASSUME MInv
                PROVE  MetricsFollowTransitions
    OBVIOUS
  <2>1. \A s \in Outcomes : Cardinality(RowsIn(s)) \in Nat
    BY FS_Subset, FS_CardinalityType, JobsAssumption DEF RowsIn
  <2>2. \A s \in Outcomes :
          workerMetrics.jobs[s] + Recovered(s) <= Cardinality(RowsIn(s))
    BY <2>1
    DEF MInv, MetricsTypeOK, NoOverbooking, Booked, Recovered, Recorded, Outcomes
  <2>. QED
    BY <2>1, <2>2 DEF MInv, MetricsTypeOK, MetricsFollowTransitions, RowsIn, Recovered, Outcomes
<1>. QED
  BY <1>1, MInvHolds, PTL

(* The buckets, the total and the counters tell the same executions.        *)
THEOREM HistogramCumulates == PSpec => []HistogramIsCumulative
<1>1. MInv => HistogramIsCumulative
  BY DEF MInv
<1>. QED
  BY <1>1, MInvHolds, PTL
=============================================================================
