-------------------------- MODULE DashboardProofs --------------------------
(***************************************************************************)
(* What the pages show and the spinner behind it, for every number of      *)
(* loads in flight: a load that is not cancelled is the only one, answers  *)
(* the current selection, and is there exactly while the spinner is        *)
(* (DashInv).  And what a page shows against the table as it has become    *)
(* since, for every number of rows and moves: a listing shrinks only by a  *)
(* row that leaves its status (PageInv).                                   *)
(***************************************************************************)
EXTENDS Dashboard, JobApiProofs

(* The fields of the page and of the loads.                                 *)
Shapes ==
    /\ view = [query |-> view.query, data |-> view.data,
               loading |-> view.loading, error |-> view.error,
               retrying |-> view.retrying, answer |-> view.answer]
    /\ \A load \in loads :
         /\ load = [query |-> load.query, cancelled |-> load.cancelled,
                    got |-> load.got]
         /\ load.cancelled \in BOOLEAN

(* There is an answer in data: behind every page that is not loading or in  *)
(* error, where it answers the selection, and behind every retry.           *)
HasData ==
    /\ view.data = [query |-> view.data.query, shows |-> view.data.shows,
                    came |-> view.data.came]
    /\ view.data.query \in Query

Answered == ~view.loading /\ ~view.error => HasData /\ view.data.query = view.query

Retries == view.retrying # Null \/ view.answer # Null => HasData

(* SpinnerIsServed, load by load: cancelled loads do not matter, and a load *)
(* that is not cancelled is alone.                                          *)
Served ==
    /\ view.loading => \E load \in loads : ~load.cancelled
    /\ \A load \in loads : ~load.cancelled =>
         /\ view.loading /\ load.query = view.query
         /\ \A other \in loads : ~other.cancelled => other = load

DashInv == Shapes /\ Answered /\ Retries /\ Served /\ DTypeOK

(* Load by load, or as the set of the queries that are waited for.          *)
LEMMA ServedSpinner ==
    ASSUME Served, view.loading \in BOOLEAN
    PROVE  SpinnerIsServed
<1>1. CASE view.loading
  BY <1>1 DEF Served, SpinnerIsServed
<1>2. CASE ~view.loading
  BY <1>2 DEF Served, SpinnerIsServed
<1>. QED
  BY <1>1, <1>2

(* A statement of a load: the page stays as it is.                          *)
LEMMA AdvanceKeeps ==
    ASSUME DashInv, NEW load \in loads, NEW got,
           Advance(load, [query |-> load.query, cancelled |-> load.cancelled,
                          got |-> got]),
           UNCHANGED view
    PROVE  DashInv'
<1>. DEFINE later == [query |-> load.query, cancelled |-> load.cancelled, got |-> got]
<1>1. /\ loads' = (loads \ {load}) \cup {later}
      /\ later.query = load.query /\ later.cancelled = load.cancelled
  BY DEF Advance
<1>2. Shapes' /\ Answered' /\ Retries' /\ DTypeOK'
  BY <1>1
  DEF DashInv, Shapes, Answered, Retries, HasData, DTypeOK
<1>3. Served'
  BY <1>1 DEF DashInv, Served
<1>. QED
  BY <1>2, <1>3 DEF DashInv

(* The end of a load: a current one is the one that the spinner waits for.  *)
LEMMA LoadEnds ==
    ASSUME DashInv, NEW load \in loads,
           LoadResolves(load) \/ LoadRejects(load)
    PROVE  DashInv'
<1>1. loads' = loads \ {load}
  BY DEF LoadResolves, LoadRejects
<1>2. CASE load.cancelled
  <2>1. view' = view
    BY <1>2 DEF LoadResolves, LoadRejects, Current
  <2>. QED
    BY <1>1, <1>2, <2>1
    DEF DashInv, Shapes, Answered, Retries, HasData, Served, DTypeOK
<1>3. CASE ~load.cancelled
  <2>1. \A other \in loads' : other.cancelled
    BY <1>1, <1>3 DEF DashInv, Served, Shapes
  <2>2. load.query = view.query
    BY <1>3 DEF DashInv, Served
  <2>3. CASE LoadResolves(load)
    <3>1. view' = [query |-> view.query,
                   data |-> [query |-> load.query, shows |-> load.got,
                             came |-> load.got],
                   loading |-> FALSE, error |-> view.error,
                   retrying |-> view.retrying, answer |-> view.answer]
      BY <1>3, <2>3 DEF LoadResolves, Current, DashInv, Shapes
    <3>. QED
      BY <1>1, <2>1, <2>2, <3>1
      DEF DashInv, Shapes, Answered, Retries, HasData, Served, DTypeOK
  <2>4. CASE LoadRejects(load)
    <3>1. view' = [query |-> view.query, data |-> view.data,
                   loading |-> FALSE, error |-> TRUE,
                   retrying |-> view.retrying, answer |-> view.answer]
      BY <1>3, <2>4 DEF LoadRejects, Failed, Current, DashInv, Shapes
    <3>. QED
      BY <1>1, <2>1, <3>1
      DEF DashInv, Shapes, Answered, Retries, HasData, Served, DTypeOK
  <2>. QED
    BY <2>3, <2>4
<1>. QED
  BY <1>2, <1>3 DEF DashInv, Shapes

(* A new selection: the earlier loads are cancelled.                        *)
LEMMA EffectServes ==
    ASSUME DashInv, NEW query \in Query, Effect(query),
           view'.query = query, view'.loading = TRUE
    PROVE  /\ Served'
           /\ \A load \in loads' :
                /\ load = [query |-> load.query, cancelled |-> load.cancelled,
                           got |-> load.got]
                /\ load.cancelled \in BOOLEAN /\ load.query \in Query
<1>1. ASSUME NEW load \in loads, NEW later, later = [load EXCEPT !.cancelled = TRUE]
      PROVE  later = [query |-> load.query, cancelled |-> TRUE, got |-> load.got]
  <2>1. load = [query |-> load.query, cancelled |-> load.cancelled, got |-> load.got]
    BY DEF DashInv, Shapes
  <2>. QED
    BY <1>1, <2>1
<1>2. loads' = {[query |-> load.query, cancelled |-> TRUE, got |-> load.got] :
                  load \in loads} \cup {Load(query)}
  BY <1>1 DEF Effect
<1>3. Load(query) = [query |-> query, cancelled |-> FALSE, got |-> Load(query).got]
  BY DEF Load
<1>4. \A load \in loads' :
        \/ load.cancelled = TRUE
        \/ load = Load(query)
  BY <1>2
<1>5. Served'
  BY <1>2, <1>3, <1>4 DEF Served
<1>6. ASSUME NEW load \in loads'
      PROVE  /\ load = [query |-> load.query, cancelled |-> load.cancelled,
                        got |-> load.got]
             /\ load.cancelled \in BOOLEAN /\ load.query \in Query
  <2>1. CASE load = Load(query)
    <3>1. load.query = query /\ load.cancelled = FALSE /\ load.got = Load(query).got
      BY <1>3, <2>1
    <3>. QED
      BY <1>3, <2>1, <3>1
  <2>2. CASE load # Load(query)
    <3>1. PICK earlier \in loads :
            load = [query |-> earlier.query, cancelled |-> TRUE, got |-> earlier.got]
      BY <1>2, <2>2
    <3>2. earlier.query \in Query
      BY DEF DashInv, DTypeOK
    <3>. QED
      BY <3>1, <3>2
  <2>. QED
    BY <2>1, <2>2
<1>. QED
  BY <1>5, <1>6

(* The filter, a page button or a link.                                     *)
LEMMA SelectionKeeps ==
    ASSUME DashInv,
           \/ \E filter \in Filters : ChangeStatus(filter)
           \/ \E page \in Offered : OnPage(page)
           \/ \E query \in Links : Navigate(query)
    PROVE  DashInv'
<1>1. ASSUME NEW query \in Query, Reload(query)
      PROVE  DashInv'
  <2>1. view' = [query |-> query, data |-> view.data,
                 loading |-> TRUE, error |-> FALSE,
                 retrying |-> view.retrying, answer |-> view.answer]
    BY <1>1 DEF Reload, DashInv, Shapes
  <2>2. Effect(query)
    BY <1>1 DEF Reload
  <2>. QED
    BY <2>1, <2>2, EffectServes
    DEF DashInv, Shapes, Answered, Retries, HasData, DTypeOK
<1>2. ASSUME NEW query \in Query, Navigate(query)
      PROVE  DashInv'
  <2>1. view' = [query |-> query, data |-> Null, loading |-> TRUE,
                 error |-> FALSE, retrying |-> Null, answer |-> Null]
    BY <1>2 DEF Navigate, Mounted
  <2>2. Effect(query)
    BY <1>2 DEF Navigate
  <2>. QED
    BY <2>1, <2>2, EffectServes
    DEF DashInv, Shapes, Answered, Retries, HasData, DTypeOK
<1>3. ASSUME NEW filter \in Filters, ChangeStatus(filter)
      PROVE  DashInv'
  <2>1. StatusQuery(filter) \in Query
    <3>1. view.query \in [route : Lists, filter : Filter, page : Nat \ {0}]
      BY <1>3 DEF ChangeStatus, DashInv, DTypeOK, Query
    <3>2. filter \in Filter
      BY DashboardAssumption
    <3>3. ASSUME NEW query, query = StatusQuery(filter)
          PROVE  query = [route |-> view.query.route, filter |-> filter, page |-> 1]
      BY <3>1, <3>3 DEF StatusQuery
    <3>. QED
      BY <3>1, <3>2, <3>3 DEF Query
  <2>. QED
    BY <1>1, <1>3, <2>1 DEF ChangeStatus
<1>4. ASSUME NEW page \in Offered, OnPage(page)
      PROVE  DashInv'
  <2>1. view.data.query = view.query /\ view.query.route \in {"jobs", "dead"}
    BY <1>4 DEF OnPage, Listed, Settled, OnList, DashInv, Answered
  <2>2. view.query \in [route : Lists, filter : Filter, page : Nat \ {0}]
    BY <2>1 DEF DashInv, DTypeOK, Query
  <2>3. page \in Nat \ {0}
    BY <2>1, <2>2 DEF Offered
  <2>4. [view.query EXCEPT !.page = page] \in Query
    BY <2>2, <2>3 DEF Query
  <2>. QED
    BY <1>1, <1>4, <2>4 DEF OnPage
<1>5. Links \subseteq Query
  BY DEF Links, FirstQuery, Query, Lists, Filter, JobStatus
<1>. QED
  BY <1>2, <1>3, <1>4, <1>5

(* The retry: the query and the spinner stay as they are.                   *)
LEMMA RetryKeepsView ==
    ASSUME DashInv,
           \/ \E id \in Retriable : OnRetry(id)
           \/ Retrigger \/ Compensate \/ RetryFails
           \/ RetryAnswered \/ JobRetryAnswered
    PROVE  DashInv'
<1>. DEFINE Kept ==
       /\ loads' = loads
       /\ view' = [query |-> view.query, data |-> view'.data,
                   loading |-> view.loading, error |-> view.error,
                   retrying |-> view'.retrying, answer |-> view'.answer]
       /\ view'.data = [query |-> view.data.query, shows |-> view'.data.shows,
                        came |-> view'.data.came]
       /\ HasData
<1>. SUFFICES Kept
  BY DEF DashInv, Shapes, Answered, Retries, HasData, Served, DTypeOK
<1>0. view = [query |-> view.query, data |-> view.data,
              loading |-> view.loading, error |-> view.error,
              retrying |-> view.retrying, answer |-> view.answer]
  BY DEF DashInv, Shapes
<1>1. ASSUME NEW id \in Retriable, OnRetry(id)
      PROVE  Kept
  <2>1. HasData
    BY <1>1 DEF Retriable, Listed, Settled, DashInv, Answered
  <2>2. loads' = loads /\ view' = [view EXCEPT !.retrying = id]
    BY <1>1 DEF OnRetry
  <2>. QED
    BY <1>0, <2>1, <2>2 DEF HasData
<1>2. CASE Retrigger \/ Compensate \/ RetryFails
  <2>1. HasData
    BY <1>2, DashboardAssumption
    DEF Retrigger, Compensate, RetryFails, DashInv, Retries
  <2>2. PICK answer : view' = [view EXCEPT !.answer = answer] /\ loads' = loads
    BY <1>2 DEF Retrigger, Compensate, RetryFails, Answers
  <2>. QED
    BY <1>0, <2>1, <2>2 DEF HasData
<1>3. CASE RetryAnswered \/ JobRetryAnswered
  <2>1. HasData
    BY <1>3, DashboardAssumption DEF RetryAnswered, JobRetryAnswered, DashInv, Retries
  <2>2. PICK shows : /\ view' = [view EXCEPT !.data.shows = shows,
                                            !.retrying = Null, !.answer = Null]
                    /\ loads' = loads
    <3>1. CASE RetryAnswered
      BY <3>1 DEF RetryAnswered
    <3>2. CASE JobRetryAnswered
      BY <3>2 DEF JobRetryAnswered
    <3>. QED
      BY <1>3, <3>1, <3>2
  <2>3. [view.data EXCEPT !.shows = shows] =
          [query |-> view.data.query, shows |-> shows, came |-> view.data.came]
    BY <2>1 DEF HasData
  <2>. QED
    BY <1>0, <2>1, <2>2, <2>3
<1>. QED
  BY <1>1, <1>2, <1>3

(* Every page starts with the load that its spinner waits for.               *)
LEMMA DashInvInit == DInit => DashInv
<1>. SUFFICES ASSUME NEW query \in Links, view = Mounted(query),
                     loads = {Load(query)}
              PROVE  DashInv
  BY DEF DInit
<1>1. query \in Query
  BY DEF Links, FirstQuery, Query, Lists, Filter, JobStatus
<1>. QED
  BY <1>1
  DEF Mounted, Load, DashInv, Shapes, Answered, Retries, Served, DTypeOK

(* The clicks, the loads, the retries and the moves of the rows.            *)
LEMMA DashInvStep == DashInv /\ [DNext]_dvars => DashInv'
<1>. SUFFICES ASSUME DashInv, [DNext]_dvars
              PROVE  DashInv'
  OBVIOUS
<1>1. CASE UNCHANGED <<view, loads>>
  BY <1>1
  DEF DashInv, Shapes, Answered, Retries, HasData, Served, DTypeOK
<1>2. ASSUME NEW load \in loads, CountRows(load) \/ SelectRows(load) \/ SelectJob(load)
      PROVE  DashInv'
  <2>1. load = [query |-> load.query, cancelled |-> load.cancelled, got |-> load.got]
    BY DEF DashInv, Shapes
  <2>2. PICK got : Advance(load, [load EXCEPT !.got = got])
    BY <1>2 DEF CountRows, SelectRows, SelectJob
  <2>3. [load EXCEPT !.got = got] =
          [query |-> load.query, cancelled |-> load.cancelled, got |-> got]
    BY <2>1
  <2>. QED
    BY <1>2, <2>2, <2>3, AdvanceKeeps DEF CountRows, SelectRows, SelectJob
<1>. QED
  BY <1>1, <1>2, LoadEnds, SelectionKeeps, RetryKeepsView DEF DNext, dvars

(* The invariant of the spinner and of what is shown.                       *)
LEMMA DashInvHolds == DSpec => []DashInv
<1>. QED
  BY DashInvInit, DashInvStep, PTL DEF DSpec

(* Whatever the operator selects and however the answers overtake each      *)
(* other, the page shows what was selected (the effects' cancelled flags).  *)
THEOREM PageShowsSelection == DSpec => []ShownAnswersQuery
<1>1. DashInv => ShownAnswersQuery
  BY DEF DashInv, Answered, ShownAnswersQuery, Settled
<1>. QED
  BY <1>1, DashInvHolds, PTL

(* No page hangs on its spinner for want of a request, and none is left     *)
(* without one that still answers.                                          *)
THEOREM SpinnerHasRequest == DSpec => []SpinnerIsServed
<1>1. DashInv => SpinnerIsServed
  BY ServedSpinner DEF DashInv, DTypeOK
<1>. QED
  BY <1>1, DashInvHolds, PTL

(* Only selections that a page can have are ever asked for or shown.        *)
THEOREM DashboardTypes == DSpec => []DTypeOK
<1>. QED
  BY DashInvHolds, PTL DEF DashInv

-----------------------------------------------------------------------------
(* How many rows a listing has, and the statuses that some row has left.    *)
Count == [filter \in Filter |-> Cardinality(Matching(filter))]
Left == {status \in JobStatus :
           \E id \in 1 .. Len(table) : <<id, status>> \in departed}

(* What a load has got by now, of the table as it has become since.         *)
GotOK(query, got) ==
    /\ query.route \in Lists =>
         /\ got = [total |-> got.total, rows |-> got.rows]
         /\ got.total # Null =>
              /\ got.total \in Nat
              /\ got.total <= Count[query.filter] \/ query.filter \in Left
         /\ got.rows # Null /\ query.route # "overview" =>
              /\ got.total # Null
              /\ got.rows = {} => \/ query.filter \in Left
                                  \/ query.page = 1 /\ got.total = 0
    /\ query.route = "job" =>
         /\ got = [status |-> got.status]
         /\ got.status = "DEAD" => query.id \in 1 .. Len(table)

(* A page is asked for only if it had rows, and it still has unless a row   *)
(* has left the status.                                                     *)
Reachable(query) ==
    query.route \in {"jobs", "dead"} =>
      \/ query.page = 1
      \/ query.filter \in Left
      \/ Offset(query.page) < Count[query.filter]

(* What the page shows, against what came and against the table.            *)
Shown(query, came, shows) ==
    /\ query.route \in Lists =>
         /\ came.total # Null /\ came.rows # Null
         /\ \A id \in came.rows \ shows.rows : <<id, "DEAD">> \in departed
         /\ query.route # "dead" => shows = came
         /\ came.total = 0 => shows.total = 0
    /\ query.route = "job" =>
         /\ came.status # shows.status => <<query.id, "DEAD">> \in departed
         /\ shows.status = "DEAD" => query.id \in 1 .. Len(table)

(* Rows are only added, and leave a listing only by leaving its status.     *)
TableGrows ==
    /\ Len(table) \in Nat /\ Len(table') \in Nat /\ Len(table) <= Len(table')
    /\ departed \subseteq departed' /\ Left \subseteq Left'
    /\ \A filter \in Filter :
         /\ Count[filter] \in Nat /\ Count'[filter] \in Nat
         /\ Count[filter] <= Count'[filter] \/ filter \in Left'

(* What a load has got stays true.                                          *)
LEMMA GotLasts ==
    ASSUME TableGrows, NEW query \in Query, NEW got, GotOK(query, got)
    PROVE  GotOK(query, got)'
<1>1. query.route \in Lists => query.filter \in Filter
  BY DEF Query, Lists
<1>2. 1 .. Len(table) \subseteq 1 .. Len(table')
  BY DEF TableGrows
<1>3. ASSUME query.route \in Lists, got.total \in Nat,
             got.total <= Count[query.filter] \/ query.filter \in Left
      PROVE  got.total <= Count'[query.filter] \/ query.filter \in Left'
  BY <1>1, <1>3 DEF TableGrows
<1>4. Left \subseteq Left'
  BY DEF TableGrows
<1>. QED
  BY <1>2, <1>3, <1>4 DEF GotOK

(* A page that had rows still has, or a row has left.                       *)
LEMMA ReachableLasts ==
    ASSUME TableGrows, NEW query \in Query, Reachable(query)
    PROVE  Reachable(query)'
<1>1. query.route \in Lists => query.filter \in Filter /\ query.page \in Nat \ {0}
  BY DEF Query, Lists
<1>3. CASE query.route \in {"jobs", "dead"}
  <2>1. query.filter \in Filter
    BY <1>1, <1>3 DEF Lists
  <2>2. Offset(query.page) \in Nat
    BY <1>1, <1>3, OffsetNat DEF Lists
  <2>. QED
    BY <2>1, <2>2 DEF Reachable, TableGrows
<1>. QED
  BY <1>3 DEF Reachable

(* What is shown is no less justified later.                                *)
LEMMA ShownLasts ==
    ASSUME TableGrows, NEW query \in Query, NEW came, NEW shows,
           Shown(query, came, shows)
    PROVE  Shown(query, came, shows)'
<1>2. 1 .. Len(table) \subseteq 1 .. Len(table') /\ departed \subseteq departed'
  BY DEF TableGrows
<1>. QED
  BY <1>2 DEF Shown

(* What the retry has done by now.                                          *)
RetryInv ==
    /\ view.answer # Null => view.retrying # Null
    /\ view.retrying # Null => view.retrying \in 1 .. Len(table)
    /\ view.answer \in {"ok", "compensating"} => <<view.retrying, "DEAD">> \in departed
    /\ view.retrying # Null /\ view.query.route = "job" => view.retrying = view.query.id

LoadsOK == \A load \in loads : Reachable(load.query) /\ GotOK(load.query, load.got)

DataOK ==
    ~view.loading /\ ~view.error =>
      /\ GotOK(view.query, view.data.came)
      /\ Shown(view.query, view.data.came, view.data.shows)

PagesOK ==
    /\ view.query.route = "dead" => view.query.filter = "DEAD"
    /\ LoadsOK /\ DataOK /\ RetryInv

PageInv ==
    /\ DashInv /\ ApiInv
    /\ departed \subseteq (1 .. Len(table)) \X JobStatus
    /\ PagesOK

(* The table before a step and after it.                                    *)
LEMMA CountsAreNat ==
    ASSUME ApiTypes, ApiTypes'
    PROVE  \A filter \in Filter :
             /\ Count[filter] = Cardinality(Matching(filter))
             /\ Count'[filter] = Cardinality(Matching(filter)')
             /\ Count[filter] \in Nat /\ Count'[filter] \in Nat
<1>1. table \in Seq(Row) /\ table' \in Seq(Row)
  BY DEF ApiTypes
<1>. SUFFICES ASSUME NEW filter \in Filter
              PROVE  /\ Cardinality(Matching(filter)) \in Nat
                     /\ Cardinality(Matching(filter)') \in Nat
  BY DEF Count
<1>. QED
  BY <1>1, MatchingFinite DEF Matching

(* A step that leaves the table alone.                                      *)
LEMMA SameTableGrows ==
    ASSUME ApiInv, UNCHANGED <<table, departed, post, told>>
    PROVE  TableGrows /\ ApiInv'
<1>1. ApiInv'
  BY DEF ApiInv, ApiTypes, Has
<1>2. Left' = Left /\ Count' = Count
  BY DEF Left, Count, Matching
<1>3. \A filter \in Filter : Count[filter] \in Nat
  BY <1>1, CountsAreNat DEF ApiInv
<1>4. Len(table) \in Nat
  BY TableShape DEF ApiInv
<1>. QED
  BY <1>1, <1>2, <1>3, <1>4 DEF TableGrows

(* A status is only ever left.                                              *)
LEMMA TouchGrows ==
    ASSUME ApiInv, departed \subseteq (1 .. Len(table)) \X JobStatus,
           NEW id \in 1 .. Len(table), NEW status \in JobStatus,
           Touch(id, status), UNCHANGED <<post, told>>
    PROVE  /\ TableGrows /\ ApiInv'
           /\ departed' \subseteq (1 .. Len(table')) \X JobStatus
           /\ <<id, table[RowOf(id)].status>> \in departed'
<1>. DEFINE from == table[RowOf(id)].status
<1>1. /\ Len(table) \in Nat /\ Len(table') = Len(table)
      /\ from \in JobStatus
  <2>1. Len(table) \in Nat /\ \A i \in 1 .. Len(table) : table[i].status \in JobStatus
    BY TableShape DEF ApiInv
  <2>2. RowOf(id) \in 1 .. Len(table) /\ Len(table') = Len(table)
    BY TouchPositions
  <2>. QED
    BY <2>1, <2>2
<1>2. departed' = departed \cup {<<id, from>>}
  BY DEF Touch
<1>3. ApiInv'
  BY TouchKeepsApi
<1>4. \A filter \in Filter :
        filter # from => Cardinality(Matching(filter)) <= Cardinality(Matching(filter)')
  BY TouchMatching
<1>. HIDE DEF from
<1>5. Left \subseteq Left' /\ from \in Left'
  BY <1>1, <1>2 DEF Left
<1>6. ASSUME NEW filter \in Filter
      PROVE  /\ Count[filter] \in Nat /\ Count'[filter] \in Nat
             /\ Count[filter] <= Count'[filter] \/ filter \in Left'
  <2>1. /\ Count[filter] = Cardinality(Matching(filter))
        /\ Count'[filter] = Cardinality(Matching(filter)')
        /\ Count[filter] \in Nat /\ Count'[filter] \in Nat
    BY <1>3, CountsAreNat DEF ApiInv
  <2>. QED
    BY <1>4, <1>5, <2>1
<1>7. TableGrows
  BY <1>1, <1>2, <1>5, <1>6 DEF TableGrows
<1>8. departed' \subseteq (1 .. Len(table')) \X JobStatus
  BY <1>1, <1>2
<1>9. <<id, from>> \in departed'
  BY <1>2
<1>. QED
  BY <1>3, <1>7, <1>8, <1>9 DEF from

(* A new row comes in front of the others.                                  *)
LEMMA InsertGrows ==
    ASSUME ApiInv, departed \subseteq (1 .. Len(table)) \X JobStatus,
           NEW c \in Posts, NEW key \in Keys, InsertJob(c, key)
    PROVE  /\ TableGrows /\ ApiInv'
           /\ departed' \subseteq (1 .. Len(table')) \X JobStatus
<1>1. Len(table) \in Nat /\ Len(table') = Len(table) + 1 /\ departed' = departed
  <2>1. departed' = departed
    BY DEF InsertJob
  <2>2. Len(table) \in Nat /\ Len(table') = Len(table) + 1
    BY InsertAddsRow
  <2>. QED
    BY <2>1, <2>2
<1>2. ApiInv'
  BY ApiInvStep DEF ApiNext
<1>3. Left \subseteq Left'
  BY <1>1 DEF Left
<1>4. ASSUME NEW filter \in Filter
      PROVE  /\ Count[filter] \in Nat /\ Count'[filter] \in Nat
             /\ Count[filter] <= Count'[filter]
  <2>1. Cardinality(Matching(filter)) <= Cardinality(Matching(filter)')
    BY InsertMatching
  <2>. QED
    BY <1>2, <2>1, CountsAreNat DEF ApiInv
<1>5. TableGrows
  BY <1>1, <1>3, <1>4 DEF TableGrows
<1>. QED
  BY <1>1, <1>2, <1>5

(* What was right of a load and of the page stays right.                    *)
LEMMA LoadsLast ==
    ASSUME PageInv, TableGrows
    PROVE  \A load \in loads : Reachable(load.query)' /\ GotOK(load.query, load.got)'
<1>1. \A load \in loads : load.query \in Query
  BY DEF PageInv, DashInv, DTypeOK
<1>. QED
  BY <1>1, ReachableLasts, GotLasts DEF PageInv, PagesOK, LoadsOK

(* And so of the page, as long as no answer changes what it shows.          *)
LEMMA DataLasts ==
    ASSUME PageInv, TableGrows,
           view'.query = view.query, view'.data = view.data,
           view'.loading = view.loading, view'.error = view.error
    PROVE  DataOK'
<1>. SUFFICES ASSUME ~view.loading, ~view.error
              PROVE  /\ GotOK(view.query, view.data.came)'
                     /\ Shown(view.query, view.data.came, view.data.shows)'
  BY DEF DataOK
<1>1. ASSUME NEW query \in Query, NEW came, NEW shows,
             GotOK(query, came), Shown(query, came, shows)
      PROVE  GotOK(query, came)' /\ Shown(query, came, shows)'
  BY <1>1, GotLasts, ShownLasts
<1>2. /\ view.query \in Query
      /\ GotOK(view.query, view.data.came)
      /\ Shown(view.query, view.data.came, view.data.shows)
  BY DEF PageInv, PagesOK, DataOK, DashInv, DTypeOK
<1>3. PICK query, came, shows :
        query = view.query /\ came = view.data.came /\ shows = view.data.shows
  OBVIOUS
<1>4. GotOK(query, came)' /\ Shown(query, came, shows)'
  BY <1>1, <1>2, <1>3
<1>. QED
  BY <1>3, <1>4 DEF GotOK, Shown

(* The other clients and processes.                                         *)
LEMMA TableMovesKeep ==
    ASSUME PageInv, TableGrows, UNCHANGED <<view, loads>>
    PROVE  PagesOK'
<1>1. LoadsOK'
  BY LoadsLast DEF LoadsOK
<1>2. DataOK'
  BY DataLasts
<1>3. RetryInv'
  BY DEF PageInv, PagesOK, RetryInv, TableGrows
<1>. QED
  BY <1>1, <1>2, <1>3 DEF PageInv, PagesOK

(* A statement of a load, if what it got is right.                          *)
LEMMA AdvanceKeepsPages ==
    ASSUME PageInv, TableGrows, NEW load \in loads, NEW got,
           GotOK(load.query, got), UNCHANGED view,
           Advance(load, [query |-> load.query, cancelled |-> load.cancelled,
                          got |-> got])
    PROVE  PagesOK'
<1>. DEFINE later == [query |-> load.query, cancelled |-> load.cancelled, got |-> got]
<1>1. \A other \in loads' : other \in loads \/ other = later
  BY DEF Advance
<1>2. Reachable(load.query)' /\ GotOK(load.query, got)'
  <2>1. load.query \in Query
    BY DEF PageInv, DashInv, DTypeOK
  <2>. QED
    BY <2>1, LoadsLast, GotLasts
<1>3. LoadsOK'
  <2>. SUFFICES ASSUME NEW other \in loads'
                PROVE  Reachable(other.query)' /\ GotOK(other.query, other.got)'
    BY DEF LoadsOK
  <2>1. CASE other \in loads
    BY <2>1, LoadsLast
  <2>2. CASE other = later
    <3>1. other.query = load.query /\ other.got = got
      BY <2>2
    <3>. QED
      BY <1>2, <3>1
  <2>. QED
    BY <1>1, <2>1, <2>2
<1>4. DataOK'
  BY DataLasts
<1>5. RetryInv'
  BY DEF PageInv, PagesOK, RetryInv, TableGrows
<1>. QED
  BY <1>3, <1>4, <1>5 DEF PageInv, PagesOK

(* The COUNT is of the rows of now, and so is the SELECT: it returns        *)
(* nothing only past the end, where no page was asked for.                  *)
LEMMA StatementsKeepPages ==
    ASSUME PageInv, TableGrows, NEW load \in loads,
           CountRows(load) \/ SelectRows(load) \/ SelectJob(load)
    PROVE  PagesOK'
<1>. DEFINE query == load.query
            Got(got) == /\ view' = view
                        /\ Advance(load, [query |-> load.query,
                                          cancelled |-> load.cancelled,
                                          got |-> got])
<1>1. /\ load = [query |-> query, cancelled |-> load.cancelled, got |-> load.got]
      /\ query \in Query /\ Reachable(query) /\ GotOK(query, load.got)
  BY DEF PageInv, PagesOK, LoadsOK, DashInv, Shapes, DTypeOK
<1>2. query.route \in Lists =>
        /\ query.filter \in Filter /\ query.page \in Nat \ {0}
        /\ Count[query.filter] = Cardinality(Matching(query.filter))
        /\ Count[query.filter] \in Nat
  BY <1>1 DEF Query, Lists, Count, TableGrows
<1>3. CASE CountRows(load)
  <2>. DEFINE total == Cardinality(Matching(query.filter))
              got == [total |-> total, rows |-> load.got.rows]
  <2>1. query.route \in Lists /\ load.got.total = Null
    BY <1>3 DEF CountRows
  <2>2. load.got = [total |-> load.got.total, rows |-> load.got.rows]
    BY <1>1, <2>1 DEF GotOK
  <2>3. Got(got)
    <3>1. [load EXCEPT !.got.total = total] =
            [query |-> query, cancelled |-> load.cancelled, got |-> got]
      BY <1>1, <2>2
    <3>. QED
      BY <1>3, <3>1 DEF CountRows
  <2>4. GotOK(query, got)
    <3>. HIDE DEF total, query
    <3>1. total \in Nat /\ total <= Count[query.filter]
      BY <1>2, <2>1 DEF total
    <3>2. got.total = total /\ got.rows = load.got.rows
      OBVIOUS
    <3>3. query.route # "overview" => load.got.rows = Null
      BY <1>1, <2>1 DEF GotOK
    <3>4. query.route # "job"
      BY <2>1 DEF Lists
    <3>. QED
      BY <3>1, <3>2, <3>3, <3>4 DEF GotOK
  <2>. QED
    BY <2>3, <2>4, AdvanceKeepsPages
<1>4. CASE SelectRows(load)
  <2>. DEFINE rows == SelectPage(query.filter, query.page)
              got == [total |-> load.got.total, rows |-> rows]
  <2>1. /\ query.route \in Lists
        /\ load.got.total # Null \/ query.route = "overview"
    BY <1>4 DEF SelectRows
  <2>2. load.got = [total |-> load.got.total, rows |-> load.got.rows]
    BY <1>1, <2>1 DEF GotOK
  <2>3. Got(got)
    <3>1. [load EXCEPT !.got.rows = rows] =
            [query |-> query, cancelled |-> load.cancelled, got |-> got]
      BY <1>1, <2>2
    <3>. QED
      BY <1>4, <3>1 DEF SelectRows
  <2>4. rows = {} => Count[query.filter] <= Offset(query.page)
    BY <1>2, <2>1, EmptyPage DEF PageInv
  <2>5. GotOK(query, got)
    <3>. HIDE DEF rows, query
    <3>1. got.total = load.got.total /\ got.rows = rows
      OBVIOUS
    <3>2. query.route # "job"
      BY <2>1 DEF Lists
    <3>3. load.got.total # Null =>
            /\ load.got.total \in Nat
            /\ \/ load.got.total <= Count[query.filter]
               \/ query.filter \in Left
      BY <1>1, <2>1 DEF GotOK
    <3>4. query.page = 1 => Offset(query.page) = 0
      BY <1>2, <2>1, ApiAssumption DEF Offset
    <3>5. ASSUME rows = {}, query.route # "overview", query.filter \notin Left
          PROVE  query.page = 1 /\ load.got.total = 0
      <4>1. Offset(query.page) \in Nat
        BY <1>2, <2>1, OffsetNat
      <4>2. query.page = 1
        BY <1>1, <1>2, <2>1, <2>4, <3>5, <4>1 DEF Reachable, Lists
      <4>. QED
        BY <1>2, <2>1, <2>4, <3>3, <3>4, <3>5, <4>2
    <3>. QED
      BY <2>1, <3>1, <3>2, <3>3, <3>5 DEF GotOK
  <2>. QED
    BY <2>3, <2>5, AdvanceKeepsPages
<1>5. CASE SelectJob(load)
  <2>1. query.route = "job"
    BY <1>5 DEF SelectJob
  <2>2. PICK status :
          /\ status = IF query.id \in 1 .. Len(table)
                      THEN table[RowOf(query.id)].status ELSE "not found"
          /\ view' = view
          /\ Advance(load, [load EXCEPT !.got.status = status])
    BY <1>5 DEF SelectJob
  <2>. DEFINE got == [status |-> status]
  <2>3. Got(got)
    <3>1. load.got = [status |-> load.got.status]
      BY <1>1, <2>1 DEF GotOK
    <3>2. [load EXCEPT !.got.status = status] =
            [query |-> query, cancelled |-> load.cancelled, got |-> got]
      BY <1>1, <3>1
    <3>. QED
      BY <2>2, <3>2
  <2>4. GotOK(query, got)
    <3>1. status = "DEAD" => query.id \in 1 .. Len(table)
      BY <2>2
    <3>2. got.status = status
      OBVIOUS
    <3>. QED
      BY <2>1, <3>1, <3>2 DEF GotOK, Lists
  <2>. QED
    BY <2>3, <2>4, AdvanceKeepsPages
<1>. QED
  BY <1>3, <1>4, <1>5

(* The end of a load; the table is as it was.                               *)
LEMMA EndsKeepPages ==
    ASSUME PageInv, TableGrows, NEW load \in loads,
           LoadResolves(load) \/ LoadRejects(load)
    PROVE  PagesOK'
<1>1. loads' = loads \ {load}
  BY DEF LoadResolves, LoadRejects
<1>2. LoadsOK'
  BY <1>1, LoadsLast DEF LoadsOK
<1>3. CASE load.cancelled
  <2>1. view' = view
    BY <1>3 DEF LoadResolves, LoadRejects, Current
  <2>2. DataOK' /\ RetryInv'
    BY <2>1, DataLasts DEF PageInv, PagesOK, RetryInv, TableGrows
  <2>. QED
    BY <1>2, <2>1, <2>2 DEF PageInv, PagesOK
<1>4. CASE ~load.cancelled /\ LoadResolves(load)
  <2>. DEFINE query == view.query
              got == load.got
  <2>1. /\ load.query = query /\ query \in Query
        /\ view = [query |-> query, data |-> view.data,
                   loading |-> view.loading, error |-> view.error,
                   retrying |-> view.retrying, answer |-> view.answer]
    BY <1>4 DEF PageInv, DashInv, Served, Shapes, DTypeOK
  <2>2. view' = [query |-> query,
                 data |-> [query |-> query, shows |-> got, came |-> got],
                 loading |-> FALSE, error |-> view.error,
                 retrying |-> view.retrying, answer |-> view.answer]
    BY <1>4, <2>1 DEF LoadResolves, Current
  <2>3. GotOK(query, got)'
    BY <2>1, <2>2, LoadsLast DEF GotOK
  <2>4. GotOK(query, got)
    BY <2>1 DEF PageInv, PagesOK, LoadsOK
  <2>5. \A field \in DOMAIN got : got[field] # Null
    BY <1>4 DEF LoadResolves
  <2>6. query.route \in Lists => got.total # Null /\ got.rows # Null
    <3>1. query.route \in Lists => got = [total |-> got.total, rows |-> got.rows]
      BY <2>4 DEF GotOK
    <3>2. query.route \in Lists => DOMAIN got = {"total", "rows"}
      BY <3>1
    <3>. QED
      BY <2>5, <3>2
  <2>7. DataOK'
    <3>1. view'.query = query /\ view'.data.came = got /\ view'.data.shows = got
      BY <2>2
    <3>2. view'.query.route \in Lists => got.total # Null /\ got.rows # Null
      BY <2>6, <3>1
    <3>. QED
      BY <2>3, <3>1, <3>2 DEF DataOK, Shown, GotOK, Lists
  <2>8. RetryInv'
    BY <2>1, <2>2 DEF PageInv, PagesOK, RetryInv, TableGrows
  <2>. QED
    BY <1>2, <2>1, <2>2, <2>7, <2>8 DEF PageInv, PagesOK
<1>5. CASE ~load.cancelled /\ LoadRejects(load)
  <2>1. view' = [query |-> view.query, data |-> view.data,
                 loading |-> FALSE, error |-> TRUE,
                 retrying |-> view.retrying, answer |-> view.answer]
    BY <1>5 DEF LoadRejects, Failed, Current, PageInv, DashInv, Shapes
  <2>2. DataOK' /\ RetryInv'
    BY <2>1 DEF DataOK, PageInv, PagesOK, RetryInv, TableGrows
  <2>. QED
    BY <1>2, <2>1, <2>2 DEF PageInv, PagesOK
<1>. QED
  BY <1>3, <1>4, <1>5 DEF PageInv, DashInv, Shapes

(* A new selection that a page can be asked for.                            *)
LEMMA EffectKeepsPages ==
    ASSUME PageInv, TableGrows, NEW query \in Query, Effect(query),
           Reachable(query)
    PROVE  LoadsOK'
<1>1. ASSUME NEW load \in loads'
      PROVE  \/ load = Load(query)
             \/ \E earlier \in loads : load.query = earlier.query /\ load.got = earlier.got
  <2>1. CASE load = Load(query)
    BY <2>1
  <2>2. CASE load # Load(query)
    <3>1. PICK earlier \in loads : load = [earlier EXCEPT !.cancelled = TRUE]
      BY <2>2 DEF Effect
    <3>2. earlier = [query |-> earlier.query, cancelled |-> earlier.cancelled,
                     got |-> earlier.got]
      BY DEF PageInv, DashInv, Shapes
    <3>. QED
      BY <3>1, <3>2
  <2>. QED
    BY <2>1, <2>2
<1>2. Reachable(query)'
  BY ReachableLasts
<1>3. GotOK(query, Load(query).got)'
  <2>1. CASE query.route = "job"
    <3>1. Load(query).got = [status |-> Null]
      BY <2>1 DEF Load
    <3>2. Null # "DEAD"
      BY DashboardAssumption DEF JobStatus
    <3>. QED
      BY <2>1, <3>1, <3>2 DEF GotOK, Lists
  <2>2. CASE query.route # "job"
    BY <2>2 DEF GotOK, Load
  <2>. QED
    BY <2>1, <2>2
<1>4. Load(query).query = query
  BY DEF Load
<1>. QED
  BY <1>1, <1>2, <1>3, <1>4, LoadsLast DEF LoadsOK

(* The filter, a page button or a link asks only for pages that have rows.  *)
LEMMA SelectionKeepsPages ==
    ASSUME PageInv, TableGrows,
           \/ \E filter \in Filters : ChangeStatus(filter)
           \/ \E page \in Offered : OnPage(page)
           \/ \E query \in Links : Navigate(query)
    PROVE  PagesOK'
<1>0. /\ view = [query |-> view.query, data |-> view.data,
                 loading |-> view.loading, error |-> view.error,
                 retrying |-> view.retrying, answer |-> view.answer]
      /\ view.query \in Query
      /\ view.query.route = "dead" => view.query.filter = "DEAD"
      /\ view.query.route \in {"jobs", "dead"} =>
           /\ view.query = [route |-> view.query.route,
                            filter |-> view.query.filter,
                            page |-> view.query.page]
           /\ view.query.filter \in Filter
  BY DEF PageInv, PagesOK, DashInv, Shapes, DTypeOK, Query
<1>1. ASSUME NEW query \in Query, Reload(query), Reachable(query),
             query.route \in {"jobs", "dead"},
             query.route = "dead" => query.filter = "DEAD"
      PROVE  PagesOK'
  <2>1. view' = [query |-> query, data |-> view.data,
                 loading |-> TRUE, error |-> FALSE,
                 retrying |-> view.retrying, answer |-> view.answer]
    BY <1>0, <1>1 DEF Reload
  <2>2. LoadsOK'
    BY <1>1, EffectKeepsPages DEF Reload
  <2>3. DataOK' /\ RetryInv'
    BY <1>1, <2>1 DEF DataOK, PageInv, PagesOK, RetryInv, TableGrows
  <2>. QED
    BY <1>1, <2>1, <2>2, <2>3 DEF PagesOK
<1>2. ASSUME NEW query \in Query, Navigate(query), Reachable(query),
             query.route = "dead" => query.filter = "DEAD"
      PROVE  PagesOK'
  <2>1. view' = [query |-> query, data |-> Null, loading |-> TRUE,
                 error |-> FALSE, retrying |-> Null, answer |-> Null]
    BY <1>2 DEF Navigate, Mounted
  <2>2. LoadsOK'
    BY <1>2, EffectKeepsPages DEF Navigate
  <2>3. DataOK' /\ RetryInv'
    BY <2>1, DashboardAssumption DEF DataOK, RetryInv
  <2>. QED
    BY <1>2, <2>1, <2>2, <2>3 DEF PagesOK
<1>3. ASSUME NEW filter \in Filters, ChangeStatus(filter)
      PROVE  PagesOK'
  <2>1. StatusQuery(filter) = [route |-> "jobs", filter |-> filter, page |-> 1]
    <3>1. /\ view.query.route = "jobs"
          /\ view.query \in [route : Lists, filter : Filter, page : Nat \ {0}]
      BY <1>0, <1>3 DEF ChangeStatus, Query
    <3>2. ASSUME NEW query, query = StatusQuery(filter)
          PROVE  query = [route |-> "jobs", filter |-> filter, page |-> 1]
      BY <3>1, <3>2 DEF StatusQuery
    <3>. QED
      BY <3>2
  <2>2. StatusQuery(filter) \in Query
    BY <2>1, DashboardAssumption DEF Query, Lists
  <2>3. PICK query \in Query : query = StatusQuery(filter)
    BY <2>2
  <2>4. query.route = "jobs" /\ query.page = 1
    BY <2>1, <2>3
  <2>5. Reachable(query) /\ Reload(query)
    BY <1>3, <2>3, <2>4 DEF Reachable, ChangeStatus
  <2>. QED
    BY <1>1, <2>4, <2>5
<1>4. ASSUME NEW page \in Offered, OnPage(page)
      PROVE  PagesOK'
  <2>1. /\ ~view.loading /\ ~view.error /\ view.query.route \in {"jobs", "dead"}
        /\ view.data.query = view.query
    BY <1>4 DEF OnPage, Listed, Settled, OnList, PageInv, DashInv, Answered
  <2>. DEFINE total == view.data.came.total
  <2>2. /\ total \in Nat
        /\ total <= Count[view.query.filter] \/ view.query.filter \in Left
    BY <2>1 DEF PageInv, PagesOK, DataOK, GotOK, Shown, Lists
  <2>3. view.query.page \in Nat \ {0}
    BY <1>0, <2>1 DEF Query
  <2>4. page \in Nat \ {0} /\ page <= TotalPages(total)
    BY <1>4, <2>1, <2>3 DEF Offered, LastPage
  <2>. HIDE DEF total
  <2>5. Offset(page) < total
    BY <2>2, <2>4, PageInTotal
  <2>6. [view.query EXCEPT !.page = page] =
          [route |-> view.query.route, filter |-> view.query.filter, page |-> page]
    BY <1>0, <2>1
  <2>7. PICK query \in Query : /\ query = [view.query EXCEPT !.page = page]
                               /\ query.route = view.query.route
                               /\ query.filter = view.query.filter
                               /\ query.page = page
    BY <1>0, <2>1, <2>4, <2>6 DEF Query, Lists
  <2>8. Reachable(query)
    <3>1. Offset(page) \in Nat /\ Count[view.query.filter] \in Nat
      BY <1>0, <2>1, <2>4, OffsetNat DEF TableGrows
    <3>. QED
      BY <2>2, <2>5, <2>7, <3>1 DEF Reachable
  <2>. QED
    BY <1>0, <1>1, <1>4, <2>1, <2>7, <2>8 DEF OnPage
<1>5. ASSUME NEW query \in Links, Navigate(query)
      PROVE  PagesOK'
  <2>1. query \in Query
    BY DEF Links, FirstQuery, Query, Lists, Filter, JobStatus
  <2>2. Reachable(query) /\ (query.route = "dead" => query.filter = "DEAD")
    BY DEF Links, FirstQuery, Reachable
  <2>. QED
    BY <1>2, <1>5, <2>1, <2>2
<1>. QED
  BY <1>3, <1>4, <1>5

(* The click on a retry button: the row is there and was DEAD.              *)
LEMMA RetryStarts ==
    ASSUME PageInv, TableGrows, NEW id \in Retriable, OnRetry(id)
    PROVE  PagesOK'
<1>1. /\ view' = [query |-> view.query, data |-> view.data,
                  loading |-> view.loading, error |-> view.error,
                  retrying |-> id, answer |-> view.answer]
      /\ loads' = loads
  BY DEF OnRetry, PageInv, DashInv, Shapes
<1>2. LoadsOK' /\ DataOK'
  BY <1>1, LoadsLast, DataLasts DEF LoadsOK
<1>3. /\ id \in 1 .. Len(table)
      /\ view.query.route = "job" => id = view.query.id
  BY DEF Retriable, Settled, PageInv, PagesOK, DataOK, Shown, Lists
<1>4. view.answer = Null
  BY DEF OnRetry, PageInv, PagesOK, RetryInv
<1>5. RetryInv'
  BY <1>1, <1>3, <1>4, DashboardAssumption DEF RetryInv, TableGrows
<1>. QED
  BY <1>1, <1>2, <1>5 DEF PageInv, PagesOK

(* What becomes of the request: it succeeds only if the row left DEAD.      *)
LEMMA RequestKeepsPages ==
    ASSUME PageInv, TableGrows, view.retrying # Null,
           NEW answer, Answers(answer),
           answer \in {"ok", "compensating"} => <<view.retrying, "DEAD">> \in departed'
    PROVE  PagesOK'
<1>1. /\ view' = [query |-> view.query, data |-> view.data,
                  loading |-> view.loading, error |-> view.error,
                  retrying |-> view.retrying, answer |-> answer]
      /\ loads' = loads
  BY DEF Answers, PageInv, DashInv, Shapes
<1>2. LoadsOK' /\ DataOK'
  BY <1>1, LoadsLast, DataLasts DEF LoadsOK
<1>3. RetryInv'
  BY <1>1 DEF PageInv, PagesOK, RetryInv, TableGrows
<1>. QED
  BY <1>1, <1>2, <1>3 DEF PageInv, PagesOK

(* The answer takes off the list, or changes on the job's page, only a row  *)
(* that has left DEAD.                                                      *)
LEMMA AnswerKeepsPages ==
    ASSUME PageInv, TableGrows, UNCHANGED apiVars,
           RetryAnswered \/ JobRetryAnswered
    PROVE  PagesOK'
<1>. DEFINE came == view.data.came
            shows == view.data.shows
<1>1. PICK rest :
        /\ view' = [view EXCEPT !.data.shows = rest, !.retrying = Null, !.answer = Null]
        /\ loads' = loads
        /\ RetryAnswered =>
             rest = [rows |-> {id \in shows.rows : RetryKeeps(id)},
                     total |-> IF view.answer = "ok" /\ shows.total > 0
                               THEN shows.total - 1 ELSE shows.total]
        /\ JobRetryAnswered =>
             rest = IF view.answer = "ok" THEN [status |-> "QUEUED"] ELSE shows
  <2>1. CASE RetryAnswered
    <3>1. view.query.route = "dead"
      BY <2>1 DEF RetryAnswered
    <3>2. ~JobRetryAnswered
      BY <3>1 DEF JobRetryAnswered
    <3>. QED
      BY <2>1, <3>2 DEF RetryAnswered
  <2>2. CASE JobRetryAnswered
    <3>1. view.query.route = "job"
      BY <2>2 DEF JobRetryAnswered
    <3>2. ~RetryAnswered
      BY <3>1 DEF RetryAnswered
    <3>. QED
      BY <2>2, <3>2 DEF JobRetryAnswered
  <2>. QED
    BY <2>1, <2>2
<1>2. /\ view = [query |-> view.query, data |-> view.data,
                 loading |-> view.loading, error |-> view.error,
                 retrying |-> view.retrying, answer |-> view.answer]
      /\ view.data = [query |-> view.data.query, shows |-> shows, came |-> came]
  <2>1. HasData
    BY DashboardAssumption
    DEF RetryAnswered, JobRetryAnswered, PageInv, DashInv, Retries
  <2>. QED
    BY <2>1 DEF HasData, PageInv, DashInv, Shapes
<1>3. view' = [query |-> view.query,
               data |-> [query |-> view.data.query, shows |-> rest, came |-> came],
               loading |-> view.loading, error |-> view.error,
               retrying |-> Null, answer |-> Null]
  <2>1. [view.data EXCEPT !.shows = rest] =
          [query |-> view.data.query, shows |-> rest, came |-> came]
    BY <1>2
  <2>. QED
    BY <1>1, <1>2, <2>1
<1>4. LoadsOK'
  BY <1>1, LoadsLast DEF LoadsOK
<1>5. RetryInv'
  BY <1>3, DashboardAssumption DEF RetryInv
<1>6. view.answer = "ok" => <<view.retrying, "DEAD">> \in departed
  BY DEF PageInv, PagesOK, RetryInv
<1>7. DataOK'
  <2>. SUFFICES ASSUME ~view.loading, ~view.error
                PROVE  DataOK'
    BY <1>3 DEF DataOK
  <2>1. GotOK(view.query, came) /\ Shown(view.query, came, shows)
    BY DEF PageInv, PagesOK, DataOK
  <2>2. Shown(view.query, came, rest)
    <3>. HIDE DEF came, shows
    <3>1. CASE RetryAnswered
      <4>1. view.query.route = "dead"
        BY <3>1 DEF RetryAnswered
      <4>2. /\ rest.rows = {id \in shows.rows : RetryKeeps(id)}
            /\ rest.total = IF view.answer = "ok" /\ shows.total > 0
                            THEN shows.total - 1 ELSE shows.total
        BY <1>1, <3>1
      <4>3. shows.total = 0 => rest.total = 0
        BY <4>2
      <4>4. \A id \in came.rows \ rest.rows : <<id, "DEAD">> \in departed
        <5>. TAKE id \in came.rows \ rest.rows
        <5>1. CASE id \in shows.rows
          BY <1>6, <4>2, <5>1 DEF RetryKeeps
        <5>2. CASE id \notin shows.rows
          BY <2>1, <4>1, <5>2 DEF Shown, Lists
        <5>. QED
          BY <5>1, <5>2
      <4>. QED
        BY <2>1, <4>1, <4>3, <4>4 DEF Shown, Lists
    <3>2. CASE JobRetryAnswered
      <4>1. view.query.route = "job"
        BY <3>2 DEF JobRetryAnswered
      <4>2. CASE view.answer = "ok"
        <5>1. rest.status = "QUEUED"
          BY <1>1, <3>2, <4>2
        <5>2. <<view.query.id, "DEAD">> \in departed
          BY <1>6, <4>1, <4>2, DashboardAssumption DEF PageInv, PagesOK, RetryInv
        <5>. QED
          BY <4>1, <5>1, <5>2 DEF Shown, Lists
      <4>3. CASE view.answer # "ok"
        BY <1>1, <2>1, <3>2, <4>3
      <4>. QED
        BY <4>2, <4>3
    <3>. QED
      BY <3>1, <3>2
  <2>3. ASSUME NEW query \in Query, NEW old, NEW new,
               GotOK(query, old), Shown(query, old, new)
        PROVE  GotOK(query, old)' /\ Shown(query, old, new)'
    BY <2>3, GotLasts, ShownLasts
  <2>4. PICK query, old, new : /\ query \in Query /\ query = view.query
                               /\ old = came /\ new = rest
    BY DEF PageInv, DashInv, DTypeOK
  <2>5. GotOK(query, old)' /\ Shown(query, old, new)'
    BY <2>1, <2>2, <2>3, <2>4
  <2>6. view'.query = query /\ view'.data.came = old /\ view'.data.shows = new
    BY <1>3, <2>4
  <2>. QED
    BY <2>5, <2>6 DEF DataOK, GotOK, Shown
<1>. QED
  BY <1>3, <1>4, <1>5, <1>7 DEF PageInv, PagesOK

(* Nothing has left a status, and nothing is shown yet.                     *)
LEMMA PageInvInit == DInit => PageInv
<1>. SUFFICES ASSUME ApiInit,
                     NEW query \in Links, view = Mounted(query), loads = {Load(query)}
              PROVE  PageInv
  BY DashInvInit DEF DInit
<1>1. DashInv /\ ApiInv
  BY DashInvInit, ApiInvInit DEF DInit
<1>2. departed = {}
  BY DEF ApiInit
<1>3. /\ Reachable(query) /\ (query.route = "dead" => query.filter = "DEAD")
      /\ query \in Query
  BY DEF Links, FirstQuery, Reachable, Query, Lists, Filter, JobStatus
<1>4. GotOK(query, Load(query).got)
  <2>1. CASE query.route = "job"
    <3>1. Load(query).got = [status |-> Null] /\ Null # "DEAD"
      BY <2>1, DashboardAssumption DEF Load, JobStatus
    <3>. QED
      BY <2>1, <3>1 DEF GotOK, Lists
  <2>2. CASE query.route # "job"
    BY <2>2 DEF GotOK, Load
  <2>. QED
    BY <2>1, <2>2
<1>5. LoadsOK
  BY <1>3, <1>4 DEF LoadsOK, Load
<1>6. DataOK /\ RetryInv
  BY DashboardAssumption DEF Mounted, DataOK, RetryInv
<1>7. view.query = query
  BY DEF Mounted
<1>. QED
  BY <1>1, <1>2, <1>3, <1>5, <1>6, <1>7 DEF PageInv, PagesOK

(* Every step: what it does to the table first, then to the pages.          *)
LEMMA PageInvStep == PageInv /\ [DNext]_dvars => PageInv'
<1>. SUFFICES ASSUME PageInv, [DNext]_dvars
              PROVE  PageInv'
  OBVIOUS
<1>. DEFINE DepartedIDs == departed' \subseteq (1 .. Len(table')) \X JobStatus
<1>0. DashInv' /\ ApiInv
  BY DashInvStep DEF PageInv
<1>1. departed \subseteq (1 .. Len(table)) \X JobStatus
  BY DEF PageInv
<1>2. ASSUME UNCHANGED apiVars
      PROVE  TableGrows /\ ApiInv' /\ DepartedIDs
  BY <1>0, <1>1, <1>2, SameTableGrows DEF apiVars
<1>3. CASE UNCHANGED dvars
  <2>1. UNCHANGED apiVars /\ UNCHANGED <<view, loads>>
    BY <1>3 DEF dvars
  <2>. QED
    BY <1>0, <1>2, <2>1, TableMovesKeep DEF PageInv
<1>4. CASE TableNext /\ UNCHANGED <<view, loads>>
  <2>1. TableGrows /\ ApiInv' /\ DepartedIDs
    <3>1. ASSUME NEW c \in Posts, NEW key \in Keys, InsertJob(c, key)
          PROVE  TableGrows /\ ApiInv' /\ DepartedIDs
      BY <1>0, <1>1, <3>1, InsertGrows
    <3>2. ASSUME NEW id \in 1 .. Len(table), NEW to \in MoveTargets, Move(id, to)
          PROVE  TableGrows /\ ApiInv' /\ DepartedIDs
      BY <1>0, <1>1, <3>2, TouchGrows, ApiAssumption DEF Move
    <3>. QED
      BY <1>4, <3>1, <3>2 DEF TableNext
  <2>. QED
    BY <1>0, <1>4, <2>1, TableMovesKeep DEF PageInv
<1>5. ASSUME NEW load \in loads,
             \/ CountRows(load) \/ SelectRows(load) \/ SelectJob(load)
             \/ LoadResolves(load) \/ LoadRejects(load)
      PROVE  PageInv'
  <2>1. UNCHANGED apiVars
    BY <1>5 DEF CountRows, SelectRows, SelectJob, LoadResolves, LoadRejects
  <2>2. PagesOK'
    BY <1>2, <1>5, <2>1, StatementsKeepPages, EndsKeepPages
  <2>. QED
    BY <1>0, <1>2, <2>1, <2>2 DEF PageInv
<1>6. CASE \/ \E filter \in Filters : ChangeStatus(filter)
           \/ \E page \in Offered : OnPage(page)
           \/ \E query \in Links : Navigate(query)
  <2>1. UNCHANGED apiVars
    BY <1>6 DEF ChangeStatus, OnPage, Navigate, Reload, Effect
  <2>2. PagesOK'
    BY <1>2, <1>6, <2>1, SelectionKeepsPages
  <2>. QED
    BY <1>0, <1>2, <2>1, <2>2 DEF PageInv
<1>7. CASE \E id \in Retriable : OnRetry(id)
  <2>1. UNCHANGED apiVars
    BY <1>7 DEF OnRetry
  <2>2. PagesOK'
    BY <1>2, <1>7, <2>1, RetryStarts
  <2>. QED
    BY <1>0, <1>2, <2>1, <2>2 DEF PageInv
<1>8. /\ view.retrying # Null => view.retrying \in 1 .. Len(table)
      /\ view.answer # Null => view.retrying # Null
  BY DEF PageInv, PagesOK, RetryInv
<1>9. CASE Retrigger
  <2>1. /\ view.retrying # Null /\ view.retrying \in 1 .. Len(table)
        /\ table[RowOf(view.retrying)].status = "DEAD"
        /\ Touch(view.retrying, "QUEUED")
    BY <1>8, <1>9 DEF Retrigger
  <2>2. PICK answer : Answers(answer)
    BY <1>9 DEF Retrigger
  <2>3. TableGrows /\ ApiInv' /\ DepartedIDs /\ <<view.retrying, "DEAD">> \in departed'
    <3>1. UNCHANGED <<post, told>> /\ "QUEUED" \in JobStatus
      BY <2>2 DEF Answers, JobStatus
    <3>2. PICK id \in 1 .. Len(table) : id = view.retrying
      BY <2>1
    <3>. QED
      BY <1>0, <1>1, <2>1, <3>1, <3>2, TouchGrows
  <2>4. PagesOK'
    BY <2>1, <2>2, <2>3, RequestKeepsPages
  <2>. QED
    BY <1>0, <2>3, <2>4 DEF PageInv
<1>10. CASE Compensate
  <2>1. view.retrying # Null /\ view.retrying \in 1 .. Len(table) /\ Answers("error")
    BY <1>8, <1>10, DashboardAssumption DEF Compensate
  <2>2. UNCHANGED <<post, told>>
    BY <2>1 DEF Answers
  <2>3. TableGrows /\ ApiInv' /\ DepartedIDs
    <3>1. CASE table[RowOf(view.retrying)].status = "QUEUED"
      <4>1. Touch(view.retrying, "DEAD") /\ "DEAD" \in JobStatus
        BY <1>10, <3>1 DEF Compensate, JobStatus
      <4>2. PICK id \in 1 .. Len(table) : id = view.retrying
        BY <2>1
      <4>. QED
        BY <1>0, <1>1, <2>2, <4>1, <4>2, TouchGrows
    <3>2. CASE table[RowOf(view.retrying)].status # "QUEUED"
      <4>1. UNCHANGED apiVars
        BY <1>10, <2>2, <3>2 DEF Compensate, apiVars
      <4>. QED
        BY <1>2, <4>1
    <3>. QED
      BY <3>1, <3>2
  <2>4. PagesOK'
    BY <2>1, <2>3, RequestKeepsPages
  <2>. QED
    BY <1>0, <2>3, <2>4 DEF PageInv
<1>11. CASE RetryFails
  <2>1. view.retrying # Null /\ Answers("error") /\ UNCHANGED apiVars
    BY <1>11 DEF RetryFails, Answers, apiVars
  <2>2. PagesOK'
    BY <1>2, <2>1, RequestKeepsPages
  <2>. QED
    BY <1>0, <1>2, <2>1, <2>2 DEF PageInv
<1>12. CASE RetryAnswered \/ JobRetryAnswered
  <2>1. UNCHANGED apiVars
    BY <1>12 DEF RetryAnswered, JobRetryAnswered
  <2>2. PagesOK'
    BY <1>2, <1>12, <2>1, AnswerKeepsPages
  <2>. QED
    BY <1>0, <1>2, <2>1, <2>2 DEF PageInv
<1>. QED
  BY <1>3, <1>4, <1>5, <1>6, <1>7, <1>9, <1>10, <1>11, <1>12 DEF DNext

(* The invariant of what the pages show against the table.                  *)
LEMMA PageInvHolds == DSpec => []PageInv
<1>. QED
  BY PageInvInit, PageInvStep, PTL DEF DSpec

(* Whenever the answers come and whatever the rows do meanwhile, the list   *)
(* loses a row, and a job's page shows another status, only if the row has  *)
(* left DEAD (onRetry of DeadQueue.tsx and JobDetail.tsx).                  *)
THEOREM NothingVanishes == DSpec => []RetryShowsOnlyRequeued
<1>1. PageInv => RetryShowsOnlyRequeued
  <2>. SUFFICES ASSUME PageInv, Settled
                PROVE  RetryShowsOnlyRequeued
    BY DEF RetryShowsOnlyRequeued
  <2>1. view.query \in Query /\ Shown(view.query, view.data.came, view.data.shows)
    BY DEF PageInv, PagesOK, DataOK, DashInv, DTypeOK, Settled
  <2>2. CASE view.query.route = "job"
    BY <2>1, <2>2 DEF Shown, RetryShowsOnlyRequeued
  <2>3. CASE view.query.route # "job"
    <3>1. view.query.route \in Lists
      BY <2>1, <2>3 DEF Query
    <3>. QED
      BY <2>1, <2>3, <3>1 DEF Shown, RetryShowsOnlyRequeued
  <2>. QED
    BY <2>2, <2>3
<1>. QED
  BY <1>1, PageInvHolds, PTL

(* For every page size and every number of rows, an empty page is one that  *)
(* had nothing to show, or a row has left the listed status since its pages *)
(* were counted (the COUNT and the SELECT of the listings, totalPages and   *)
(* the buttons of Pagination).                                              *)
THEOREM EmptyMeansEmpty == DSpec => []NoFalseEmpty
<1>1. PageInv => NoFalseEmpty
  <2>. SUFFICES ASSUME PageInv, Settled, OnList, view.data.shows.rows = {},
                       view.query.filter \notin Left
                PROVE  view.query.page = 1 /\ view.data.shows.total = 0
    BY DEF NoFalseEmpty, Left
  <2>. DEFINE came == view.data.came
              shows == view.data.shows
  <2>1. /\ view.query.route \in {"jobs", "dead"}
        /\ view.query.route = "dead" => view.query.filter = "DEAD"
        /\ GotOK(view.query, came) /\ Shown(view.query, came, shows)
    BY DEF PageInv, PagesOK, DataOK, Settled, OnList
  <2>2. came.rows = {}
    <3>1. CASE view.query.route = "dead"
      <4>1. \A id \in came.rows : <<id, "DEAD">> \in departed
        BY <2>1, <3>1 DEF Shown, Lists
      <4>2. \A id \in came.rows : "DEAD" \in Left
        <5>1. \A pair \in departed : pair[1] \in 1 .. Len(table)
          BY DEF PageInv
        <5>. QED
          BY <4>1, <5>1 DEF Left, JobStatus
      <4>. QED
        BY <2>1, <3>1, <4>2
    <3>2. CASE view.query.route # "dead"
      BY <2>1, <3>2 DEF Shown, Lists
    <3>. QED
      BY <3>1, <3>2
  <2>. QED
    BY <2>1, <2>2 DEF GotOK, Shown, Lists
<1>. QED
  BY <1>1, PageInvHolds, PTL
=============================================================================
