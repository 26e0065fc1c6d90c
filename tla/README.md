# ChronoQueue: specifications, model checking and proofs

ChronoQueue runs webhooks as background jobs. PostgreSQL is the source of truth
(one row per job), BullMQ on Redis hands out messages that name a row, a
scheduler moves due rows into the queue and recovers rows whose worker has died,
workers deliver the webhooks under a fenced lease, an HTTP API creates, lists and
re-triggers jobs, and a dashboard is the operator's view of that API. This
directory holds TLA+ models of those programs, the TLC runs that check them on
small instances, and TLAPS proofs of what matters most for every size.

Contents: 1 inventory, 2 modules, 3 runs, 4 fairness, 5 bounds, 6 proofs,
7 disagreements found, 8 what is not covered, 9 what could be added, 10 how to run it.

## 1. Inventory

| Component | State | Operations | Talks to |
| --- | --- | --- | --- |
| Jobs table (`packages/db`) | one row per job: status, attempts, max_attempts, scheduled_at, next_attempt_at, lease_until, lease_token, last_error_code | guarded UPDATEs, each atomic | everybody |
| Worker (`apps/worker`: `lease.ts`, `processor.ts`, `webhook-delivery.ts`) | per message: token, attempt number and budget read at the claim, the outcome, a renewal timer | read row, claim, deliver, complete, renew | table, endpoint, BullMQ |
| Scheduler (`apps/scheduler`: `recovery.ts`, `scheduler.ts`, `index.ts`) | the batches it has selected | recover stale rows, queue due rows, enqueue | table, BullMQ |
| API re-trigger (`routes/jobs.ts`, `dlq.ts`, `queue/webhook-producer.ts`) | one request: which call it is at | DEAD to QUEUED, remove old record, add, compensate | table, BullMQ |
| API creation and listings (`routes/jobs.ts`, `dlq.ts`, `dashboard.ts`) | one request: which statement it is at | INSERT or SELECT by key; COUNT and SELECT | table |
| BullMQ (library) | a record per row id: waiting, active with a lock, completed, failed | add, take, finish, remove, stalled checker | worker, scheduler, API |
| Dashboard (`apps/dashboard`) | the mounted page: query, rows or job shown, loading, error, the retry in flight | load, change filter, turn page, retry, switch page | API |
| Worker and scheduler as processes (both `index.ts`, `worker.ts`, the timers of `processor.ts`) | where the loop or the message in progress is, the renewal timer, whether a signal has come | take a message, renew, sleep, drain, exit | table, BullMQ, metrics |
| Metrics (`packages/observability`) | counters and histograms of one process | inc, observe | worker, scheduler |
| Retry policy, state machine (`packages/db`) | none | backoff, jitter, transition table | worker, scheduler, API |
| HTTP plumbing, configuration, testkit | none | | |

Nothing here holds a lock across two statements, so what is hard is the
interleaving at every `await`:

* an execution that is replaced while it runs (slow worker, expired lease,
  recovered and claimed again) and then completes or renews;
* renewals, which are sent by a timer and not awaited, and the lease they must
  reach in time;
* a signal that arrives anywhere in a cycle or an execution;
* a recovery or a poll that acts on rows it selected some time ago;
* the two writes, to PostgreSQL and to Redis, that no transaction joins;
* a message handed out twice, or a record that is still there when the next
  message with its id is added;
* a statement that throws although it took effect; a process that dies anywhere;
* listings read by two statements, and answers that overtake each other in the
  browser.

What makes each component correct: the table never shows a lease without an owner
or an owner without a lease; a worker writes only while it owns the row, and what
it writes is current; attempts count what was run; RETRYING rows can be retried;
SUCCEEDED is final; live leases are respected and dead ones end; every QUEUED row
has a message; every job ends; a worker that lives keeps its lease; a process that
is told to stop leaves nothing half done, and stops; the metrics count what
happened; a key names one job; the dashboard shows what was asked for.
`PROJECT.json` lists the hazards with the line where each bites.

## 2. Modules

```
JobStates ----- RetryPolicy          JobLedger (abstract)
     \            /                      ^ implemented by
      JobTable -----------> JobLifecycle-+----> ChronoQueue
                              |                    |
                        MCJobLifecycle        MCChronoQueue

JobStates ---> TimedJobs --+--> WorkerProcess -----+
               Metrics ----+--> SchedulerProcess --+--> Processes ---> MCProcesses

JobStates ---> JobApi ---> Dashboard ---> MCDashboard
                 |
              MCJobApi

JobTableLemmas -> JobLifecycleTypes -> JobLifecycleProofs -> JobLedgerProofs -> ChronoQueueProofs
Processes -> ProcessesProofs     JobApi -> JobApiProofs -> DashboardProofs <- Dashboard
```

* **JobStates**: the status enum, the transition table, the statuses that a
  worker's claim accepts (which are not the table's), and `Movable`: what the
  statements together can do to a status, the table's transitions, `ClaimMove` and
  `CompensationMove`.
* **RetryPolicy**: `calculateExponentialDelayMs` and `applyFullJitter`. A delay is
  in clock ticks, the random number is a choice in `0 .. delay`.
* **JobTable**: a row, and each UPDATE of the code as a guard on the row (its
  WHERE) and the row it leaves (its SET). Text columns and the payload are left
  out. Operators named `Slip...` are what a plausible bug would make of the
  definition they are named after. No specification uses them; putting one in the
  place of its original must break the property it is paired with in
  `PROJECT.json`.
* **JobLifecycle**: every process that writes a row. A step is one SQL statement
  or one remote call. `worker[w]` is a BullMQ job slot inside
  `processWebhookDeliveryJob` (`claiming`, `delivering`, `recording`, then
  `resolved` or `threw` until BullMQ has settled the message); `renewals` holds the
  renewals that were sent and have not been executed; `scheduler[s]` holds the
  batches of a `runCycle`, so its statements can use snapshots that are old;
  `request[a]` is a `POST /jobs/:id/retry`. The token of the n-th claim of a row is
  n, which stands for a fresh UUID because every statement that names a token also
  names the row. Messages are abstract: any row that was ever queued may be handed
  to any idle worker at any time, again and again, so what holds here holds for
  every queue. A statement that throws is an action of its own, also when it took
  effect first (`ClaimJobThrows`, `RecordSuccessThrows`, `EnqueueRetriggeredThrows`). The batch of a
  poll is worked off in any order, which includes the code's.
* **ChronoQueue**: the same processes with BullMQ's records between them. Each
  action is an action of JobLifecycle conjoined with what it does to the record:
  `Add` with an id that has a record is a no-op, `Remove` throws on a locked
  record, completed and failed records stay (no `removeOn...` option is set),
  `Stall` hands a message out again once and then fails it. BullMQ is external:
  these operators are taken from how the code calls it and from the comment above
  `enqueueRetriggeredJob`.
* **JobLedger**: the promise without the machinery: a job waits, runs, succeeds or
  is dead; success needs an accepted delivery and a run in progress, nothing leaves
  success, death is left only by a re-trigger. JobLifecycle implements it with
  `phase` read off the status, `run` the number of claims and `delivered` the jobs
  whose endpoint answered 2xx.
* **JobApi**: the table as clients see it. `POST /jobs` is an INSERT that the
  unique constraint may refuse, then a SELECT by key, then an answer that may be
  lost (the client then posts again). A listing is a COUNT and a SELECT with LIMIT
  and OFFSET; a page is the set of the ids on it, their order on the page is left out.
  Rows move as JobLifecycle lets them (`Movable`, justified by `StatusMovesAllowed`).
  `updated_at` is set by every UPDATE of a status, so a row that moves goes to the front
  of the order.
* **Dashboard**: the Overview, the Jobs page (filter, pagination), a page for each
  job (retry) and the Dead Queue (pagination, retry), one mounted at a time. A load
  is a promise with the `cancelled` flag of its effect; the cleanup sets it. A
  listing is a COUNT and then a SELECT; the Overview sends both at once; a job's page
  is one SELECT that may answer 404. `data.query` and `data.came` are history: which
  query the data answers, and the answer as it came. `departed` records which
  statuses rows have left. The page sizes of the three listings are one constant:
  no property compares two of them. `totalPages` stays as it came when a retry takes
  a row off the list, as in the code. Of a post only the INSERT matters here.
* **TimedJobs, WorkerProcess, SchedulerProcess, Processes**: the same two programs
  seen from the other side, as processes in real time. JobLifecycle lets a renewal
  come at any time or never; here a timer sends it, and the question is whether it
  comes in time. Time is relative: every statement, request, timer and lease has its
  age or what is left of it, `Tick` moves all of them, and is put off while something
  is due (`Due`): an answer after `MaxLatency`, an aborted request after
  `WebhookTimeout`, a timer that is `Lateness` late. A statement is sent, executed
  and answered in three steps, and a lease is computed at the first and written at
  the second (`Lend`). `LoseRenewal` is a renewal that throws, allowed as long as one
  gets through in every `MaxSilence` ticks. The scheduler is the loop of `index.ts`
  with the two places where it looks at `shuttingDown`; its poll selects PENDING and
  RETRYING rows, any of them, because when a row is due is JobLifecycle's subject. An
  UPDATE that throws may have been executed. `records` are the rows that have a record
  in the queue, which is never removed here, `messages` those that still wait: the add
  for a row with a record does nothing, so that a retry is queued and stays QUEUED (the
  first disagreement of section 7), and each row is executed once. Three variables are
  history: `abandoned`, the rows that a throw or a death left where they were, which only
  recovery or an operator can help; `refused`, the rows whose add did nothing; `moved`,
  the transitions out of PROCESSING. Executions that replace each other are
  JobLifecycle's subject, and its fence is proved there.
* **Metrics**: `Counter.inc` and `Histogram.observe`, used by both processes at the
  places where the code uses them.

Statements that change nothing and answer an error (a 404, a 409, a refused body)
are not actions: they leave the state alone.

## 3. Runs

| Run | Question | Result |
| --- | --- | --- |
| `lifecycle_safety` | two workers, a scheduler, a re-trigger request, messages repeated at will, and one crash or failing statement of any process: types, lease columns, exclusive ownership, current ownership, attempts, retry budget, diagnosis, finality of SUCCEEDED, the moves of a status, live leases, refinement of JobLedger | holds, 1.6 M states |
| `lifecycle_recovery` | does every lease end if only the clock and a scheduler keep going? (`LeaseEnds`) | holds, 290 k states |
| `queue_faults` | the real queue with all seven kinds of fault: types, no message for a PENDING row | holds, 300 k states |
| `queue_retrigger` | a job with one attempt, two re-trigger requests, and either a worker that crashes or a request whose call to Redis throws: a QUEUED row has a message (`QueuedIsDriven`) | holds, 84 k states |
| `queue_liveness` | two jobs with one attempt, batches of one, a worker that may crash: every job ends, and none is executed more often than allowed | holds, 49 k states |
| `submissions` | three posts in progress on three keys, answers lost and posted again: every client is told of the one job of its key (`OneJobPerKey`) | holds, 300 k states |
| `dashboard` | an operator on the four pages with two loads in flight, rows inserted, dying and re-queued: what is shown was selected, the spinner ends, no false empty page, a retry changes only what was re-queued | holds, 5.3 M states |
| `processes` | a worker and a scheduler with late timers, slow statements, lost and overtaking renewals, one throw or death, and signals: a live worker keeps its lease, a shutdown is orderly and ends, the metrics count what happened | holds, 1.35 M states |
| `find_...` | one disagreement each, see section 7 | violated |

The invariants and what they are about:

* `LeaseIffProcessing`: both lease columns are set exactly while a row is
  PROCESSING. Without `lease_until` a row could never be recovered; a token left
  on a row at rest could match again.
* `ExclusiveOwner`, `OwnerIsCurrent`: of all the workers executing a row at most
  one has its token, and the attempt number and budget that one read at its claim
  are the row's. So completing under the token charges one attempt.
* `NoPhantomAttempt`: the attempts of a row never pass the number of its claims,
  although recovery writes a number computed from an old SELECT.
* `RetryingHasBudget`, `DiagnosisKept`: a RETRYING row has attempts left and a time;
  RETRYING and DEAD rows have an error code and SUCCEEDED rows none. The
  compensation of a failed re-trigger writes DEAD without a code and relies on the
  one that is there.
* `SucceededIsFinal`, `LiveLeaseRespected`: no late statement touches a SUCCEEDED
  row; a lease that has not expired is ended only by the completion of its holder.
* `StatusMovesAllowed`: whatever was read before, a status changes only by a declared
  transition, by a claim, or by the compensation of an enqueue. The last two do not
  consult the transition table.
* `QueuedIsDriven`: a QUEUED row that nobody is enqueueing has a waiting or active
  message. It holds for jobs that are never retried automatically and processes
  that do not fail between their two writes; the code documents the second
  exception (`routes/jobs.ts`, "dual-write gap") and section 7 is about the first.
  Section 6 says which faults it survives, and that each of the others breaks it.
* `ExecutionBudget`: crashes do not buy a job more executions than max_attempts.
  The run has one attempt per job: with more, retries are not driven at all.
* `OneJobPerKey`: whatever a client was answered for a key stays the one job of
  that key.
* `ShownAnswersQuery`, `SpinnerIsServed`: overtaken answers are never shown, and a
  page that is loading has a request behind it.
* `NoFalseEmpty`: a page that pagination offered is empty only if a row has left
  the listed status. It rests on COUNT running before SELECT and on the filter
  going back to page 1.
* `RetryShowsOnlyRequeued`: 409, 500 or a lost answer leave a row on the list, and a
  job's page as it is.
* `LiveWorkerKeepsLease`: from its claim to the statement that records its outcome, a
  worker's row is PROCESSING under a lease that is not over, so recovery never takes
  a row from a worker that lives. It needs `TimingAssumption`; the configuration
  checks no relation between the three settings. It holds through a shutdown, since
  the timer runs until the message in progress is settled.
* `WorkerExitSettles`, `SchedulerExitEnqueues`: a process that has exited in order was
  not cut in two: no row is left PROCESSING, or between the UPDATE to QUEUED and its
  add, but by a statement that threw or a process that died. A QUEUED row then has a
  message, or its add was made and did nothing, and that only for a row that was
  RETRYING: an orderly exit neither causes the first disagreement of section 7 nor
  prevents it. `SignalEndsProcess`: and the process does exit. It says that neither
  process is closing for ever, which is the same, since only its end takes a process
  out of closing.
* `MetricsFollowTransitions`: the counters of the two registries together never pass
  the transitions to that status that were made (`moved`): a fenced completion and a recovery that lost its race are
  not counted, nor is one transition counted twice.
* `HistogramIsCumulative`: each bucket has the observations up to its bound, and there
  is one observation per transition that was counted, whatever threw in between.

Every property of a passing run is paired in `PROJECT.json` with a slip under
which TLC finds it violated.

## 4. Fairness

Safety runs assume none. `RecoverySpec` asks for weak fairness of the clock and of
a scheduler's work (`loop` in `apps/scheduler/src/index.ts` repeats `runCycle` and
catches what it throws) and for nothing from the workers, because a lease must end
when all of them are dead. `PacedSpec` adds weak fairness of each worker's own
steps, of BullMQ handing out waiting messages, and of its stalled checker for
messages whose worker is gone. It lets time pass only while somebody waits for it
(a row to come due, a lease to expire), so that a bounded clock cannot run out
before the work is done; whoever waits for nothing is not affected by the time.
`PFairSpec` asks for weak fairness of the clock and of
each process's own work: answers arrive, requests end or are aborted, the loop goes
on. `Tick` cannot run ahead of them, because it waits for what is due. The work of a
worker that gets a signal is the execution it has; of the scheduler, the rest of its
cycle and its sleep. Messages and signals need not come. Faults and renewals are never
fair: a run in which they never happen is allowed,
and so is one in which they happen at the worst moment.

## 5. Bounds

* `MaxTime`: the last clock value. `LeaseFits` grants a lease only if the clock can
  outlive it, so each lease can still expire. With a lease of one tick, 4 ticks
  are enough for claim, expiry, recovery, retry and a second expiry; staleness,
  due times and leases only compare times.
* `MaxExecutions`: claims of one row. Three tell apart the row's owner, the one it
  replaced and a snapshot older than both.
* `MaxInFlight`: renewals in flight; one renewal may outlive its execution and meet
  any later statement. The proofs have no such bound.
* `MaxFaults`: one fault, of any enabled kind at any step. The proofs have no bound.
* One row in most runs: statements name one row, so rows meet only in the
  scheduler's batch, which `queue_liveness` covers with two rows and a batch of
  one. One scheduler in the runs: a second one's interleavings with a recovery are
  covered by the proofs, which hold for any set of schedulers.
* `MaxLoads`: listings in flight; two are needed to overtake. `PageSize` is 1, so
  that three rows make three pages. `MoveTargets` and `MaxMoves` limit where and how
  often rows move by themselves; QUEUED, PROCESSING and DEAD are the ones the Dead
  Queue page can tell apart. One row is DEAD from the start (`Backlog`).
* The `processes` run: a lease of 5 ticks, a renewal every tick, a timer one tick late,
  statements that take a tick, one renewal through in 3 ticks. `TimingAssumption`
  (`MaxSilence + 2 * MaxLatency <= LeaseDuration`) then holds with equality, so the
  lease is as short as it may be. A request takes 3 ticks at most, so renewals are due
  while it lasts, are lost and overtake each other. Two rows let the scheduler's
  batch have a second row when the signal comes, and a message wait while another is
  in progress. Executions end SUCCEEDED or RETRYING (`Endings`); DEAD is written
  after a success could not be recorded, and by recovery. `MaxRunning` caps the
  measured duration above the largest bucket bound. One throw or death.
* `JobPages`: two ids, one of a row from the start and one that answers 404 until
  the row is inserted.
* Runs with symmetry check safety only.

## 6. Proofs

All proofs are for any values of the constants, from the named assumptions on them.
TLC evaluates these in every run. For JobLifecycle and ChronoQueue they are
`DelayAssumption`, `NullAssumption`, `LeaseAssumption` and `ConstantsAssumption`:
delays and leases are positive, bounds are natural numbers, Null is none of the other
values. JobApi and Dashboard have `ApiAssumption` and `DashboardAssumption`, of the
same kind. The processes have `JobsAssumption` (there are finitely many jobs, so that
they can be counted) and `TimingAssumption`, and the last conjunct of that one is the point of its theorem: with `MaxSilence + 2 * MaxLatency <=
LeaseDuration` a live worker keeps its lease whatever the settings are. Twice the
latency, because a renewal that gets through may be fast and the next one slow: the
lease it replaces was computed when it was sent, up to `MaxLatency` before it was
executed.

The invariants of JobLifecycle are not inductive one by one. `IInv` has four layers,
and each is proved from the ones before it:

1. `TypeInv`: types, and what a process has filled in in each control state: an
   executing worker has a token, an attempt and a budget; one that records has an
   outcome; a renewing one is executing.
2. `FenceInv`: lease columns iff PROCESSING; the token on a row is the newest one
   granted; every executing worker's token is one that was granted; the
   executions of one row have different tokens; and `OwnerIsCurrent`. Tokens that
   differ are why exclusive ownership survives: a claim grants a token that is
   newer than all, and every other statement leaves or clears it.
3. `ChargeInv`: `NoPhantomAttempt`, `RetryingHasBudget`, and `SnapshotsSound`: a
   recovery's snapshot has fewer attempts than its row has claims, and the row's
   max_attempts. Snapshots age, but claims only grow and max_attempts never
   changes, so an old snapshot undercounts and never overcounts.
4. `DiagnosisInv`: `DiagnosisKept`, and that a row with a re-trigger request
   pending has an error code or has SUCCEEDED meanwhile.

A step is first classified once: `StepIsStatement` says that every step runs one of
seven statements on one row or writes nothing, and `RowSteps` says what that does
to each row column by column. The layers then go by those cases and not by the
forty actions.

| Theorem | Statement |
| --- | --- |
| `TypeCorrect` | `Spec => []TypeOK` |
| `LeaseColumns`, `MutualExclusion`, `OwnerCurrent` | `LeaseIffProcessing`, `ExclusiveOwner`, `OwnerIsCurrent` |
| `AttemptsAreReal`, `RetriesAreBounded`, `Diagnosed` | `NoPhantomAttempt`, `RetryingHasBudget`, `DiagnosisKept` |
| `SuccessIsFinal`, `StatusMoves`, `LiveLeases` | `SucceededIsFinal`, `StatusMovesAllowed`, `LiveLeaseRespected` |
| `Refinement` | `Spec => ImplementsLedger`; needs that a worker recording a success was answered 2xx (`DeliveredFirst`) |
| `QueueRefines` | `QSpec => Spec`: the system with its queue is one of JobLifecycle's behaviours |
| `SystemMutualExclusion`, `SystemKeepsRows`, `SystemRefinesLedger` | the fence, the other promises about rows, and the ledger in the system with its queue |
| `SystemTypes`, `NoEarlyMessage` | `QTypeOK`, `MessageOnlyOnceQueued` |
| `Budget` | `Requests = {} => (QSpec => []ExecutionBudget)` |
| `QueuedRowsAreDriven` | `FewFaults => (QSpec => []QueuedIsDriven)` |
| `ProcessTypes` | `PSpec => []PTypeOK` |
| `LiveWorkerKeepsItsLease` | `LiveWorkerKeepsLease`, for every interval, lateness, latency and lease that `TimingAssumption` allows |
| `WorkerExitSettlesRows`, `SchedulerExitEnqueuesRows` | `WorkerExitSettles`, `SchedulerExitEnqueues` |
| `MetricsFollow`, `HistogramCumulates` | `MetricsFollowTransitions`, `HistogramIsCumulative` |
| `IdempotentCreation` | `ApiSpec => []OneJobPerKey` |
| `PageShowsSelection`, `SpinnerHasRequest`, `DashboardTypes` | `ShownAnswersQuery`, `SpinnerIsServed`, `DTypeOK` |
| `NothingVanishes`, `EmptyMeansEmpty` | `RetryShowsOnlyRequeued`, `NoFalseEmpty` |

The two theorems about the queue have a hypothesis on the constants, and an invariant
on top of `IInv`:

* `BudgetInv`: for each row, its claims, the workers that have its message and have not
  claimed yet, and the deliveries that BullMQ may still make of it are two together at
  most; a row with a single attempt is never RETRYING, and is claimed once. The second
  part settles `max_attempts` of one, the first all others: a record is added once,
  since `Add` is a no-op while there is one, and handed out once more after a stall.
  Only a re-trigger removes a record and buys further executions, which is why
  `Requests = {}`. All faults are allowed, in any number.
* `DrivenInv`: a QUEUED row is `Driven`: a request is about to remove its record or to
  give it up, *or* a process is about to add a message and no record is in the way,
  *or* the message waits, or is with a worker that has yet to claim the row, or with one
  that has died. The middle case is the point: `Add` does nothing over an old record, so
  "someone will add" is not enough. `LockOK` ties a record's lock to a worker, and a
  message that has stalled before, or has lost its worker, to a crash that has
  happened: with one crash no message stalls twice. `FewFaults` asks for single
  attempts, and allows failing Redis calls of requests in any number, or one fault that
  may be a crash of a worker. TLC finds `QueuedIsDriven` violated as soon as any of it is given up:
  with a second attempt (section 7), a second crash (the stalled checker fails the
  message), or one failing statement of a worker (its SELECT or claim), a death of a scheduler or a
  request, a failing Redis call of a scheduler, or a stall of a live worker.

`PInv`, the invariant of the processes, has five parts:

* `Clocks`: no age passes its bound, and `silence` leaves room for one more interval;
* `Places`: where a row is, as seen from each process, message and renewal (a message
  is for a QUEUED row that nobody else handles; a renewal for one that was claimed);
* `Phases`: what the worker may rely on in each control state;
* `Covered`: the lease in execution is as long as the last renewal left it, *or* a
  later renewal is in flight and what is left of the lease outlasts it. The second
  half is what makes the invariant inductive. At the moment a renewal is sent
  `silence` goes back to 0 although nothing has reached the database yet, so the first
  half alone is lost; and an overtaken renewal that is executed late puts an older
  lease back, which the first half still bounds by its own latency;
* `Attended`: every PROCESSING row has a worker, every QUEUED row a message, a worker
  or a scheduler, or else was abandoned or refused.

`Retries` says of the refused rows that they had been RETRYING: a PENDING row has no
record, so an add that finds one is a retry's.

`MInv` adds the metrics. `Moves` says that a row that has left PROCESSING keeps its
outcome, but for a retry, which may be QUEUED again and is not claimed again because it
has a record and no message. So it is enough that, per outcome, what the two registries
have counted and what the worker is about to count (`Booked`) is at most the number of
rows that have moved there (`RowsIn`): a completion that took effect books one row and
adds one. For the histogram, the row of an observation has a record and no message and
is not in execution any more, so no execution is observed again.

`ApiInv` says that ids and keys each name one row, and that whatever a request is about
to answer is in the table; `DashInv` that at most one load is not cancelled, that it
is the one for the current selection, and that it is there exactly while the spinner
is. The table is kept in the order of `updated_at`, so a row that moves changes its
place: `JobApiProofs` first shows that this permutes the rows.

`PageInv` relates what a load has got, and what the page shows, to the table as it has
become since. A listing (`Count`) shrinks only by a row that leaves its status (`Left`),
and both are monotone (`TableGrows`); so a total that was read is never larger than the
count of today unless a row has left (`GotOK`), and a page that was offered still
starts before the end of the listing unless a row has left (`Reachable`). That such a
page then has rows is `EmptyPage`, from the ranks of the matching rows: every number up
to the count is the rank of one (`EveryRank`). `Shown` says of each row that came and is
not shown that it has left DEAD, and `RetryInv` that an answer of 200 or a compensation
comes after the UPDATE. COUNT before SELECT matters in `GotOK`: an empty page with the
total of a later COUNT would need no row to leave.

Only model-checked: the liveness properties `LeaseEnds`, `EveryJobEnds` and
`SignalEndsProcess`, since fairness and ENABLED are out of the prover's reach. All
invariants and action properties of the passing runs are theorems. Nothing is proved by
induction over data, and no module declares a recursive operator.

## 7. Where the code and what is said of it disagree

1. `find_retry_not_driven`: **automatic retries never run.** The scheduler adds the
   message of a RETRYING row under the row's id, the record of the failed attempt
   is still there, and `Queue.add` is then a silent no-op. The row stays QUEUED. No
   fault is needed. The API's producer removes the old record for this very reason;
   the scheduler's does not.
2. `find_compensation`: the compensation of a failed re-trigger is guarded by the
   status only, and can return another operator's re-trigger to DEAD.
3. `find_lost_attempt`: a recovery with an old snapshot writes an attempts value
   that does not count the last execution.
4. `find_delivered_dead`: a database error while a success is recorded makes the
   worker record DEAD for a webhook that was delivered.

Seen while modelling and not given a run: a job that died with attempts left and is
re-triggered goes back to RETRYING, where the comment of `retriggerDeadJob` promises
one execution and DEAD; the duration of a successful delivery is observed before its
outcome is recorded, so if recording throws the same delivery is counted once more as a
failure (`processor.ts`, `webhook_duration`); an error while a job is claimed fails its
message and leaves the row QUEUED without one, or, if the claim took effect, PROCESSING
until a recovery; a message that is handed out again
takes a row from RETRYING to PROCESSING, which the transition table does not list; a
poll's old snapshot can queue a retry before its `next_attempt_at`, because the
guarded UPDATE compares the status only; the Dead Queue page shows "Dead queue is
empty" and no pagination once the last row of a page has been retried, whatever
other pages there are, and only a reload leads out (`NoFalseEmpty` only says that this
takes a row that has left DEAD); the toolbar of the Jobs page shows the total of the
earlier filter while the next listing is loading, and after it has failed.

## 8. Not covered

* The gauges and the text format of `metrics.ts`; the counters of enqueue failures, claim
  conflicts, webhook requests and webhook failures, which promise no relation to the
  table; logs and the safe form of errors.
* The validation of requests, health and readiness probes. The API server has no
  orderly shutdown; a request that is cut off is JobLifecycle's `RequestCrash`.
* The notices and layout of the dashboard's pages, columns other than id, key and
  status, the counts by status of the Overview (`byStatus` of `GET /jobs/stats`) and the
  total in the toolbar of the Jobs page, which `ShownAnswersQuery` does not cover. How
  old a shown status is: nothing in the code bounds it.
* What drives a row that is QUEUED without a message, after a fault between the two
  writes or a claim that threw: the code has nothing that does, and documents the gap;
  `QueuedIsDriven` leaves those faults out.
* Clock skew between processes: `lease_until` is written and compared with the
  processes' own clocks; the models have one clock. A skew that is bounded counts like
  latency in `TimingAssumption`.
* A retry that is queued before its `next_attempt_at` (section 7): nothing in the code
  or its documents forbids it.
* The load generator, the seed and the test servers: what they drive is modelled with
  every schedule they could produce. Reading the environment.

## 9. What could be added

1. A bound on clock skew in TimedJobs, with its term in `TimingAssumption`.
2. Early retries as a property of the poll, if the code should come to promise one.
3. `ExecutionBudget` with re-triggers: a budget per re-trigger, counted from the UPDATE
   that made the row QUEUED again.
4. Once a retry removes the old record, `QueuedIsDriven` for more than one attempt:
   `DrivenInv` then loses `OneAttempt`, and the scheduler's `WillAdd` needs the removal
   before it.

## 10. Running it

`tlc -config LifecycleSafety.cfg MCJobLifecycle.tla` checks a run; the module of each
cfg is in `PROJECT.json`. `tlapm JobLifecycleProofs.tla` checks a proof module. The
longest runs take about two minutes on two cores.
