-------------------------- MODULE SchedulerProcess --------------------------
(***************************************************************************)
(* The scheduler as a process (apps/scheduler/src/index.ts): the loop over *)
(* runCycle, the statements of a cycle, its metrics, and its shutdown on a *)
(* signal.  When a row is due is left open; JobLifecycle has the times.    *)
(***************************************************************************)
EXTENDS TimedJobs, Metrics

VARIABLES
    loop,               \* where the loop is, the batch it works off, the row
                        \* that it enqueues
    schedulerLife,      \* running, closing (after a signal), exited or dead
    schedulerMetrics    \* jobs_..._total{source="recovery"}

schedulerVars == <<loop, schedulerLife, schedulerMetrics>>

At(pc, batch) == [pc |-> pc, batch |-> batch, job |-> None]

SchedulerInit ==
    /\ loop = At("recovery", {})
    /\ schedulerLife = "running"
    /\ schedulerMetrics = NewCounter({"RETRYING", "DEAD"})

SchedulerTypeOK ==
    /\ loop \in [pc : {"recovery", "recovering", "poll", "queueing",
                       "enqueueing", "sleeping", "stopped"},
                 batch : SUBSET Jobs, job : Jobs \cup {None}]
    /\ schedulerLife \in {"running", "closing", "exited", "dead"}

-----------------------------------------------------------------------------
(* Slips, see Processes.                                                    *)

(* Neither of the two promises is awaited.                                  *)
SlipSchedulerDrained == TRUE

(* The loop does not look at shuttingDown.                                  *)
SlipUnlessStopped(pc) == pc

-----------------------------------------------------------------------------
(* recoverStaleJobs.                                                        *)

SelectStale ==
    /\ loop.pc = "recovery"
    /\ loop' = At("recovering", {j \in Jobs : Stale(j)})
    /\ UNCHANGED <<jobVars, schedulerLife, schedulerMetrics>>

(* The guarded UPDATE finds the row stale; which status it sets is up to    *)
(* the row's attempts.                                                      *)
ExecuteRecovery(j, to) ==
    /\ Stale(j)
    /\ Rest(j, to)
    /\ abandoned' = abandoned \ {j}

(* It is counted if it updated the row.                                     *)
RecoverStaleJob(j, to) ==
    /\ loop.pc = "recovering" /\ j \in loop.batch
    /\ IF Stale(j) THEN /\ ExecuteRecovery(j, to)
                        /\ schedulerMetrics' = Inc(schedulerMetrics, to)
                   ELSE UNCHANGED <<status, lease, moved, abandoned,
                                    schedulerMetrics>>
    /\ loop' = At("recovering", loop.batch \ {j})
    /\ UNCHANGED <<records, messages, refused, faults, schedulerLife>>

(* A statement throws, of one row or the SELECT: the batch, or the cycle,   *)
(* goes on.  The UPDATE may have been executed, and is not counted then.    *)
RecoveryThrows ==
    /\ \/ /\ loop.pc = "recovery"
          /\ loop' = At("poll", {})
          /\ UNCHANGED <<status, lease, moved, abandoned>>
       \/ \E j \in loop.batch :
            /\ loop.pc = "recovering"
            /\ loop' = At("recovering", loop.batch \ {j})
            /\ \/ UNCHANGED <<status, lease, moved, abandoned>>
               \/ \E to \in {"RETRYING", "DEAD"} : ExecuteRecovery(j, to)
    /\ Fault
    /\ UNCHANGED <<records, messages, refused, schedulerLife, schedulerMetrics>>

EndRecovery ==
    /\ loop = At("recovering", {})
    /\ loop' = At("poll", {})
    /\ UNCHANGED <<jobVars, schedulerLife, schedulerMetrics>>

-----------------------------------------------------------------------------
(* runSchedulerPoll.                                                        *)

(* The two branches of dueCondition, for rows whose time has come.          *)
MayBeDue(j) == status[j] \in {"PENDING", "RETRYING"}

(* Which times have come, and which rows the LIMIT takes, is any choice.    *)
SelectDue ==
    /\ loop.pc = "poll"
    /\ \E batch \in SUBSET {j \in Jobs : MayBeDue(j)} :
         loop' = At("queueing", batch)
    /\ UNCHANGED <<jobVars, schedulerLife, schedulerMetrics>>

(* The guarded UPDATE, executed.  Nothing but this one scheduler moves a    *)
(* row that is due, so that its guard holds for every row of the batch.     *)
ExecuteQueueing(j) ==
    /\ loop.pc = "queueing" /\ j \in loop.batch
    /\ MayBeDue(j)
    /\ status' = [status EXCEPT ![j] = "QUEUED"]

QueueDueJob(j) ==
    /\ ExecuteQueueing(j)
    /\ loop' = [pc |-> "enqueueing", batch |-> loop.batch \ {j}, job |-> j]
    /\ abandoned' = abandoned \ {j}
    /\ UNCHANGED <<lease, records, messages, refused, moved, faults,
                   schedulerLife, schedulerMetrics>>

(* The add, under the row's id: if the queue has a record with that id, of  *)
(* whatever state, it does nothing.                                         *)
Enqueue ==
    /\ loop.pc = "enqueueing"
    /\ IF loop.job \in records
       THEN /\ refused' = refused \cup {loop.job}
            /\ UNCHANGED <<records, messages>>
       ELSE /\ records' = records \cup {loop.job}
            /\ messages' = messages \cup {loop.job}
            /\ UNCHANGED refused
    /\ loop' = At("queueing", loop.batch)
    /\ UNCHANGED <<status, lease, abandoned, moved, faults, schedulerLife,
                   schedulerMetrics>>

(* The SELECT, the UPDATE or the add throws.  The UPDATE may have been      *)
(* executed, and its row is not enqueued then; an add that was executed     *)
(* leaves what Enqueue leaves.                                              *)
PollThrows ==
    /\ \/ /\ loop.pc = "poll"
          /\ loop' = At("queueing", {})
          /\ UNCHANGED <<status, abandoned>>
       \/ \E j \in loop.batch :
            /\ loop.pc = "queueing"
            /\ loop' = At("queueing", loop.batch \ {j})
            /\ \/ UNCHANGED <<status, abandoned>>
               \/ ExecuteQueueing(j) /\ abandoned' = abandoned \cup {j}
       \/ /\ loop.pc = "enqueueing"
          /\ loop' = At("queueing", loop.batch)
          /\ abandoned' = abandoned \cup {loop.job}
          /\ UNCHANGED status
    /\ Fault
    /\ UNCHANGED <<lease, records, messages, refused, moved, schedulerLife,
                   schedulerMetrics>>

-----------------------------------------------------------------------------
(* The loop and the process.                                                *)

UnlessStopped(pc) == IF schedulerLife = "running" THEN pc ELSE "stopped"

(* The cycle is over, and the loop looks at shuttingDown before the sleep   *)
(* and after it.                                                            *)
EndCycle ==
    /\ loop = At("queueing", {})
    /\ loop' = At(UnlessStopped("sleeping"), {})
    /\ UNCHANGED <<jobVars, schedulerLife, schedulerMetrics>>

WakeUp ==
    /\ loop.pc = "sleeping"
    /\ loop' = At(UnlessStopped("recovery"), {})
    /\ UNCHANGED <<jobVars, schedulerLife, schedulerMetrics>>

SchedulerSignal ==
    /\ schedulerLife = "running"
    /\ schedulerLife' = "closing"
    /\ UNCHANGED <<jobVars, loop, schedulerMetrics>>

(* currentPollPromise and loopPromise have resolved, the first of which is  *)
(* awaited by the loop too.                                                 *)
SchedulerDrained == loop.pc = "stopped"

(* Then webhookQueue.close(), connection.quit(), pool.end(), exit.          *)
SchedulerExit ==
    /\ schedulerLife = "closing" /\ SchedulerDrained
    /\ schedulerLife' = "exited"
    /\ loop' = At("stopped", {})
    /\ UNCHANGED <<jobVars, schedulerMetrics>>

SchedulerDies ==
    /\ schedulerLife \in {"running", "closing"}
    /\ schedulerLife' = "dead"
    /\ Fault
    /\ loop' = At("stopped", {})
    /\ abandoned' = abandoned \cup ({loop.job} \ {None})
    /\ UNCHANGED <<status, lease, records, messages, refused, moved,
                   schedulerMetrics>>

SchedulerWork ==
    \/ SelectStale
    \/ \E j \in Jobs, to \in {"RETRYING", "DEAD"} : RecoverStaleJob(j, to)
    \/ EndRecovery
    \/ SelectDue
    \/ \E j \in Jobs : QueueDueJob(j)
    \/ Enqueue
    \/ EndCycle
    \/ WakeUp
    \/ SchedulerExit

SchedulerNext ==
    \/ SchedulerWork
    \/ RecoveryThrows
    \/ PollThrows
    \/ SchedulerSignal
    \/ SchedulerDies
=============================================================================
