----------------------------- MODULE Processes -----------------------------
(***************************************************************************)
(* The worker process and the scheduler process on the same rows, in real  *)
(* time: is a worker that lives left alone by the recovery, what does an   *)
(* orderly shutdown leave behind, and do the metrics say what happened?    *)
(***************************************************************************)
EXTENDS WorkerProcess, SchedulerProcess

pvars == <<jobVars, workerVars, schedulerVars>>

PInit == JobsInit /\ WorkerInit /\ SchedulerInit

(* A lease that is over stays over.                                         *)
Expires(j) == IF status[j] = "PROCESSING" /\ lease[j] >= 0 THEN lease[j] - 1
                                                          ELSE lease[j]

Tick ==
    /\ ~Due
    /\ WorkerAges
    /\ lease' = [j \in Jobs |-> Expires(j)]
    /\ UNCHANGED <<status, records, messages, abandoned, refused, moved, faults,
                   workerLife, workerMetrics, durations, schedulerVars>>

PNext ==
    \/ Tick
    \/ WorkerNext /\ UNCHANGED schedulerVars
    \/ SchedulerNext /\ UNCHANGED workerVars

PSpec == PInit /\ [][PNext]_pvars

(* Time goes on; statements are answered, requests end or are aborted; the  *)
(* scheduler's loop runs.  Messages, signals and faults may or may not come.*)
PFairSpec ==
    /\ PSpec
    /\ WF_pvars(Tick)
    /\ WF_pvars(WorkerWork /\ UNCHANGED schedulerVars)
    /\ WF_pvars(SchedulerWork /\ UNCHANGED workerVars)

-----------------------------------------------------------------------------
PTypeOK == JobsTypeOK /\ WorkerTypeOK /\ SchedulerTypeOK

(* From the claim to the statement that records its outcome, a worker's row *)
(* is PROCESSING with a lease that is not over, so no recovery ever takes a *)
(* row from a worker that lives: a renewal interval, late timers, slow      *)
(* statements, renewals that fail or overtake each other and a shutdown are *)
(* all covered by the lease if TimingAssumption holds.                      *)
LiveWorkerKeepsLease ==
    LET j == worker.job
    IN  worker.pc \in {"claimed", "delivering", "completing"} =>
          \/ status[j] = "PROCESSING" /\ ~Stale(j)
          \/ worker.pc = "completing" /\ status[j] = "SUCCEEDED"

(* A worker that has exited in order has finished what it took: a row is    *)
(* PROCESSING only if it was left there by a statement that threw.          *)
WorkerExitSettles ==
    workerLife = "exited" =>
      \A j \in Jobs : status[j] = "PROCESSING" => j \in abandoned

(* A scheduler that has exited in order was not stopped between the UPDATE  *)
(* of a row to QUEUED and its add: such a row has a waiting message, or the *)
(* worker is about to claim it, unless something threw or a process died.   *)
(* The exception is a retry: its add is made and does nothing, because the  *)
(* record of the first message is kept (webhook-producer.ts:13-18).         *)
SchedulerExitEnqueues ==
    schedulerLife = "exited" =>
      \A j \in Jobs : status[j] = "QUEUED" =>
        \/ j \in messages \cup abandoned
        \/ worker.pc = "claiming" /\ worker.job = j
        \/ j \in refused /\ <<j, "RETRYING">> \in moved

(* A transition is counted at most once, by the process that made it, and   *)
(* never one that was attempted only: together the counters of the two      *)
(* registries never pass the transitions to that status that were made.     *)
MetricsFollowTransitions ==
    LET rows(s) == Cardinality({j \in Jobs : <<j, s>> \in moved})
    IN  /\ workerMetrics.jobs["SUCCEEDED"] <= rows("SUCCEEDED")
        /\ \A s \in {"RETRYING", "DEAD"} :
             workerMetrics.jobs[s] + schedulerMetrics[s] <= rows(s)

(* What the histogram exposes is what its definition promises, each bucket  *)
(* the observations up to its bound and the total all of them, and there is *)
(* one observation for each transition that was counted.                    *)
HistogramIsCumulative ==
    \A o \in Outcomes :
      LET seen == {d \in durations : d.outcome = o}
          series == workerMetrics.duration[o]
      IN  /\ \A bound \in Buckets :
               series.buckets[bound] = Cardinality({d \in seen : d.ticks <= bound})
          /\ series.total = Cardinality(seen)
          /\ series.total = workerMetrics.jobs[o]

(* A process that gets a signal ends: closing, which a process enters once  *)
(* and leaves only for its end, lasts for ever for neither of the two.      *)
SignalEndsProcess ==
    []<>(workerLife # "closing" /\ schedulerLife # "closing")
=============================================================================
