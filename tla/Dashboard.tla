----------------------------- MODULE Dashboard -----------------------------
(***************************************************************************)
(* The operator's dashboard over the API of JobApi: the Overview, the Jobs *)
(* page with its status filter, a page for each job and the Dead Queue,    *)
(* the last two with a retry button (apps/dashboard/src/pages).  One page  *)
(* is mounted at a time.  Its loads and its retry are promises that        *)
(* resolve whenever the API lets them, while the operator clicks on and    *)
(* the rows move.                                                          *)
(***************************************************************************)
EXTENDS JobApi

CONSTANTS
    Filters,    \* what the status filter offers, a subset of Filter
    JobPages,   \* bound: the ids whose page is opened
    MaxLoads    \* bound: loads in flight at once

Filter == {"ALL"} \cup JobStatus

ASSUME DashboardAssumption ==
    /\ Filters \subseteq Filter
    /\ JobPages \subseteq Nat \ {0}
    /\ MaxLoads \in Nat
    /\ Null \notin {"ok", "compensating", "error"} \cup JobStatus

VARIABLES
    view,       \* the state of the mounted page
    loads       \* the loads in flight

dvars == <<apiVars, view, loads>>

Lists == {"overview", "jobs", "dead"}

(* The recent jobs of the Overview are the first page of GET /jobs.         *)
Query == [route : Lists, filter : Filter, page : Nat \ {0}]
           \cup [route : {"job"}, id : JobPages]

FirstQuery(route) ==
    [route |-> route, filter |-> IF route = "dead" THEN "DEAD" ELSE "ALL",
     page |-> 1]

(* The links and what can be typed into the address bar.                    *)
Links ==
    {FirstQuery(route) : route \in Lists}
      \cup {[route |-> "job", id |-> id] : id \in JobPages}

(* A load belongs to the effect that started it; cancelled is set by the    *)
(* effect's cleanup.  What it asks for depends on the page.                 *)
Load(query) ==
    [query |-> query, cancelled |-> FALSE,
     got |-> IF query.route = "job" THEN [status |-> Null]
                                    ELSE [total |-> Null, rows |-> Null]]

(* data is what setData got, with the query it answers and, as history, the *)
(* answer as it came.  retrying is retryingId and answer what became of     *)
(* that request.                                                            *)
Mounted(query) ==
    [query |-> query, data |-> Null, loading |-> TRUE,
     error |-> FALSE, retrying |-> Null, answer |-> Null]

DInit ==
    /\ ApiInit
    /\ \E query \in Links : view = Mounted(query) /\ loads = {Load(query)}

(* What the page shows: a list of rows, or an EmptyState in its place; or  *)
(* a job, or that there is none.  The toolbar over the jobs ("42 jobs") is  *)
(* left out: it shows the total of the last answer while the next one is    *)
(* loading and after an error, that of an earlier filter included.          *)
Settled == ~view.loading /\ ~view.error /\ view.data # Null
OnList == view.query.route \in {"jobs", "dead"}
Listed == Settled /\ OnList /\ view.data.shows.rows # {}

-----------------------------------------------------------------------------
(* Slips, see JobApi.                                                       *)

(* The effect's cleanup is missing.                                         *)
SlipCurrent(load) == TRUE

(* changeStatus forgets to go back to the first page.                       *)
SlipStatusQuery(filter) == [view.query EXCEPT !.filter = filter]

(* The spinner is only cleared by a load that succeeds.                     *)
SlipFailed(v) == [v EXCEPT !.error = TRUE]

(* Prev is offered on the first page too.                                   *)
SlipOffered == {view.data.query.page - 1, view.data.query.page + 1}

(* The row is taken off the list whatever the answer is.                    *)
SlipRetryKeeps(id) == id # view.retrying

-----------------------------------------------------------------------------
(* Loads: useEffect's load().                                               *)

Advance(load, later) == loads' = (loads \ {load}) \cup {later}

(* The COUNT of the listing; the total of the Overview is GET /jobs/stats', *)
(* of which the counts by status are left out.                              *)
CountRows(load) ==
    /\ load.query.route \in Lists /\ load.got.total = Null
    /\ Advance(load, [load EXCEPT
                        !.got.total = Cardinality(Matching(load.query.filter))])
    /\ UNCHANGED <<apiVars, view>>

(* And then its SELECT; the Overview does not wait for the total.           *)
SelectRows(load) ==
    /\ load.query.route \in Lists /\ load.got.rows = Null
    /\ load.got.total # Null \/ load.query.route = "overview"
    /\ Advance(load, [load EXCEPT !.got.rows = SelectPage(load.query.filter,
                                                          load.query.page)])
    /\ UNCHANGED <<apiVars, view>>

(* GET /jobs/:id: 404 if there is no such row.                              *)
SelectJob(load) ==
    LET id == load.query.id
    IN  /\ load.query.route = "job" /\ load.got.status = Null
        /\ Advance(load, [load EXCEPT
                            !.got.status = IF id \in 1 .. Len(table)
                                           THEN table[RowOf(id)].status
                                           ELSE "not found"])
        /\ UNCHANGED <<apiVars, view>>

Current(load) == ~load.cancelled

(* The promise resolves: setData, setLoading(false).                        *)
LoadResolves(load) ==
    /\ \A field \in DOMAIN load.got : load.got[field] # Null
    /\ loads' = loads \ {load}
    /\ view' = IF Current(load)
               THEN [view EXCEPT
                       !.loading = FALSE,
                       !.data = [query |-> load.query, shows |-> load.got,
                                 came |-> load.got]]
               ELSE view
    /\ UNCHANGED apiVars

Failed(v) == [v EXCEPT !.error = TRUE, !.loading = FALSE]

(* The API answers with an error, or cannot be reached.                     *)
LoadRejects(load) ==
    /\ loads' = loads \ {load}
    /\ view' = IF Current(load) THEN Failed(view) ELSE view
    /\ UNCHANGED apiVars

(* The effect runs again, or a page is mounted: the earlier effect is       *)
(* cleaned up.                                                              *)
Effect(query) ==
    /\ Cardinality(loads) < MaxLoads
    /\ loads' = {[load EXCEPT !.cancelled = TRUE] : load \in loads}
                  \cup {Load(query)}
    /\ UNCHANGED apiVars

Reload(query) ==
    /\ query # view.query
    /\ view' = [view EXCEPT !.query = query, !.loading = TRUE, !.error = FALSE]
    /\ Effect(query)

-----------------------------------------------------------------------------
(* The operator.                                                            *)

StatusQuery(filter) == [view.query EXCEPT !.filter = filter, !.page = 1]

(* The filter is there whatever the page shows.                             *)
ChangeStatus(filter) ==
    /\ view.query.route = "jobs"
    /\ filter # view.query.filter
    /\ Reload(StatusQuery(filter))

(* totalPages is as it came: a retry that takes a row off the list does not *)
(* recompute it.                                                            *)
LastPage == TotalPages(view.data.came.total)

(* The pages that Pagination's two buttons lead to.                         *)
Offered ==
    {page \in {view.data.query.page - 1, view.data.query.page + 1} :
       1 <= page /\ page <= LastPage}

OnPage(page) ==
    /\ Listed /\ LastPage > 1
    /\ page \in Offered
    /\ Reload([view.query EXCEPT !.page = page])

(* A link to another page, or to another job: JobDetail's key is its id.    *)
(* Nothing that a retry left behind answers can reach the new page; what it *)
(* still does to the row is one of the Moves.                               *)
Remounts(query) ==
    IF query.route = "job" THEN query # view.query
                           ELSE query.route # view.query.route

Navigate(query) ==
    /\ Remounts(query)
    /\ view' = Mounted(query)
    /\ Effect(query)

(* The rows with a retry button.                                            *)
Retriable ==
    IF view.query.route = "job"
    THEN {id \in {view.query.id} : Settled /\ view.data.shows.status = "DEAD"}
    ELSE {id \in 1 .. Len(table) : /\ view.query.route = "dead" /\ Listed
                                   /\ id \in view.data.shows.rows}

OnRetry(id) ==
    /\ id \in Retriable
    /\ view.retrying = Null
    /\ view' = [view EXCEPT !.retrying = id]
    /\ UNCHANGED <<apiVars, loads>>

-----------------------------------------------------------------------------
(* The retry: POST /jobs/:id/retry and its answer.                          *)

Answers(answer) ==
    /\ view' = [view EXCEPT !.answer = answer]
    /\ UNCHANGED <<post, told, loads>>

(* The guarded UPDATE; the enqueue after it answers 200 or throws.          *)
Retrigger ==
    /\ view.retrying # Null /\ view.answer = Null
    /\ table[RowOf(view.retrying)].status = "DEAD"
    /\ Touch(view.retrying, "QUEUED")
    /\ \E answer \in {"ok", "compensating"} : Answers(answer)

(* 500: the compensating UPDATE, if the row is still QUEUED.                *)
Compensate ==
    /\ view.answer = "compensating"
    /\ IF table[RowOf(view.retrying)].status = "QUEUED"
       THEN Touch(view.retrying, "DEAD")
       ELSE UNCHANGED <<table, departed>>
    /\ Answers("error")

(* 409 because the row is not DEAD, or the API cannot be reached, which     *)
(* says nothing of what it has done.                                        *)
RetryFails ==
    /\ view.retrying # Null /\ view.answer # "error"
    /\ Answers("error")
    /\ UNCHANGED <<table, departed>>

RetryKeeps(id) == view.answer = "ok" => id # view.retrying

(* onRetry goes on: 200 takes the row off the list that is shown by now.    *)
RetryAnswered ==
    LET total == view.data.shows.total
        rest == [rows |-> {id \in view.data.shows.rows : RetryKeeps(id)},
                 total |-> IF view.answer = "ok" /\ total > 0 THEN total - 1
                                                              ELSE total]
    IN  /\ view.query.route = "dead" /\ view.answer \in {"ok", "error"}
        /\ view' = [view EXCEPT !.data.shows = rest,
                                !.retrying = Null, !.answer = Null]
        /\ UNCHANGED <<apiVars, loads>>

(* On a job's page 200 shows the status in the answer, of the UPDATE.       *)
JobRetryAnswered ==
    LET shows == IF view.answer = "ok" THEN [status |-> "QUEUED"]
                                       ELSE view.data.shows
    IN  /\ view.query.route = "job" /\ view.answer \in {"ok", "error"}
        /\ view' = [view EXCEPT !.data.shows = shows,
                                !.retrying = Null, !.answer = Null]
        /\ UNCHANGED <<apiVars, loads>>

-----------------------------------------------------------------------------
(* What changes the table.  The rest of a POST /jobs does not, see JobApi.  *)
TableNext ==
    \/ \E c \in Posts, key \in Keys : InsertJob(c, key)
    \/ \E id \in 1 .. Len(table), to \in MoveTargets : Move(id, to)

DNext ==
    \/ TableNext /\ UNCHANGED <<view, loads>>
    \/ \E load \in loads :
         \/ CountRows(load)
         \/ SelectRows(load)
         \/ SelectJob(load)
         \/ LoadResolves(load)
         \/ LoadRejects(load)
    \/ \E filter \in Filters : ChangeStatus(filter)
    \/ Listed /\ \E page \in Offered : OnPage(page)
    \/ \E query \in Links : Navigate(query)
    \/ \E id \in Retriable : OnRetry(id)
    \/ Retrigger
    \/ Compensate
    \/ RetryFails
    \/ RetryAnswered
    \/ JobRetryAnswered

DSpec == DInit /\ [][DNext]_dvars

-----------------------------------------------------------------------------
DTypeOK ==
    /\ view.query \in Query
    /\ view.data # Null => view.data.query \in Query
    /\ view.loading \in BOOLEAN /\ view.error \in BOOLEAN
    /\ \A load \in loads : load.query \in Query

(* What the page shows answers what the operator selected, however the      *)
(* answers of the earlier selections overtook each other.                   *)
ShownAnswersQuery == Settled => view.data.query = view.query

(* The spinner has exactly one request behind it that will end it, and it   *)
(* is the one for the current selection.                                    *)
SpinnerIsServed ==
    {load.query : load \in {l \in loads : ~l.cancelled}}
      = IF view.loading THEN {view.query} ELSE {}

(* An empty list is shown only if nothing matched, or if a row has left the *)
(* listed status: new rows, new deaths and the two statements of a listing  *)
(* never empty a page that Pagination offered.  GET /jobs without a filter  *)
(* therefore never shows one, because no row is ever deleted.               *)
NoFalseEmpty ==
    Settled /\ OnList /\ view.data.shows.rows = {} =>
      \/ view.query.page = 1 /\ view.data.shows.total = 0
      \/ \E id \in 1 .. Len(table) : <<id, view.query.filter>> \in departed

(* A row disappears from the list, or a job's page shows another status,    *)
(* without a reload only if the row was re-queued: an answer of 409 or 500, *)
(* or none, leaves everything where it is.                                  *)
RetryShowsOnlyRequeued ==
    Settled =>
      LET came == view.data.came
          shows == view.data.shows
          changed == IF view.query.route = "job"
                     THEN {id \in {view.query.id} : came.status # shows.status}
                     ELSE came.rows \ shows.rows
      IN  \A id \in changed : <<id, "DEAD">> \in departed
=============================================================================
