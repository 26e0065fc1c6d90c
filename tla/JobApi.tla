------------------------------- MODULE JobApi -------------------------------
(***************************************************************************)
(* The jobs table as clients of the API see it: POST /jobs with an         *)
(* idempotency key, and the paginated listings GET /jobs and               *)
(* GET /jobs/dead (apps/api/src/routes/jobs.ts, packages/db/src/dlq.ts,    *)
(* dashboard.ts).  What moves a row from status to status is JobLifecycle; *)
(* here a row makes any of the moves that it allows, at any time.          *)
(***************************************************************************)
EXTENDS JobStates, SequencesExt

CONSTANTS
    Null,
    Keys,       \* idempotency keys
    Backlog,    \* the keys whose jobs are DEAD from the start
    Posts,      \* POST /jobs requests in progress
    PageSize,   \* page size of the listings
    MoveTargets,\* bound: the statuses that rows move to, of JobStatus
    MaxMoves    \* bound: how many <<row, status>> pairs are ever left

ASSUME ApiAssumption ==
    /\ Null \notin Nat
    /\ Backlog \subseteq Keys /\ IsFiniteSet(Backlog)
    /\ PageSize \in Nat \ {0}
    /\ MoveTargets \subseteq JobStatus
    /\ MaxMoves \in Nat

VARIABLES
    table,      \* the rows, ORDER BY updated_at DESC
    departed,   \* history: the <<id, status>> that rows have left
    post,       \* what each POST /jobs is doing
    told        \* history: the <<key, id>> that clients were answered

apiVars == <<table, departed, post, told>>

IdlePost == [pc |-> "idle", key |-> Null, id |-> Null]

ApiInit ==
    /\ \E keys \in SetToSeqs(Backlog) :
         table = [i \in DOMAIN keys |->
                    [id |-> i, key |-> keys[i], status |-> "DEAD"]]
    /\ departed = {}
    /\ post = [c \in Posts |-> IdlePost]
    /\ told = {}

RowOf(id) == CHOOSE i \in DOMAIN table : table[i].id = id

-----------------------------------------------------------------------------
(* A slip: what a plausible bug would make of a definition below.           *)

(* The constraint covers the jobs that are not finished only.               *)
SlipTaken(key) ==
    \E row \in ToSet(table) :
      row.key = key /\ row.status \notin {"SUCCEEDED", "DEAD"}

-----------------------------------------------------------------------------
(* POST /jobs.                                                              *)

(* The constraint jobs_idempotency_key_unique.                              *)
Taken(key) == \E row \in ToSet(table) : row.key = key

(* The INSERT succeeds.                                                     *)
InsertJob(c, key) ==
    LET id == Len(table) + 1
    IN  /\ post[c].pc = "idle"
        /\ ~Taken(key)
        /\ table' = Cons([id |-> id, key |-> key, status |-> "PENDING"], table)
        /\ post' = [post EXCEPT ![c] = [pc |-> "answering", key |-> key,
                                        id |-> id]]
        /\ UNCHANGED <<departed, told>>

(* The INSERT is refused for the key.                                       *)
InsertConflicts(c, key) ==
    /\ post[c].pc = "idle"
    /\ Taken(key)
    /\ post' = [post EXCEPT ![c] = [pc |-> "conflict", key |-> key, id |-> Null]]
    /\ UNCHANGED <<table, departed, told>>

(* The SELECT by key, LIMIT 1.                                              *)
SelectExisting(c) ==
    /\ post[c].pc = "conflict"
    /\ \E row \in ToSet(table) :
         /\ row.key = post[c].key
         /\ post' = [post EXCEPT ![c].pc = "answering", ![c].id = row.id]
    /\ UNCHANGED <<table, departed, told>>

(* 201 or 200 with the row.                                                 *)
AnswerPost(c) ==
    /\ post[c].pc = "answering"
    /\ told' = told \cup {<<post[c].key, post[c].id>>}
    /\ post' = [post EXCEPT ![c] = IdlePost]
    /\ UNCHANGED <<table, departed>>

(* A statement throws, the process dies or the answer is lost: the client   *)
(* knows nothing and may post again.                                        *)
LosePost(c) ==
    /\ post[c].pc # "idle"
    /\ post' = [post EXCEPT ![c] = IdlePost]
    /\ UNCHANGED <<table, departed, told>>

-----------------------------------------------------------------------------
(* The other processes.  Every UPDATE of a status sets updated_at.          *)

Touch(id, status) ==
    LET i == RowOf(id)
    IN  /\ table' = Cons([table[i] EXCEPT !.status = status], RemoveAt(table, i))
        /\ departed' = departed \cup {<<id, table[i].status>>}

Move(id, to) ==
    /\ Cardinality(departed) < MaxMoves
    /\ Movable(table[RowOf(id)].status, to)
    /\ Touch(id, to)
    /\ UNCHANGED <<post, told>>

-----------------------------------------------------------------------------
(* The listings: a COUNT and a SELECT with LIMIT and OFFSET, as two         *)
(* statements.  GET /jobs/dead is the listing of status DEAD.               *)

Matching(filter) == {i \in DOMAIN table : filter \in {"ALL", table[i].status}}

(* The place of the i-th row of the table among the matching ones.          *)
Rank(matching, i) == Cardinality({m \in matching : m <= i})

Offset(page) == (page - 1) * PageSize

(* The ids on a page; their order on it is left out.                        *)
SelectPage(filter, page) ==
    LET matching == Matching(filter)
    IN  {table[i].id : i \in {k \in matching :
                                Rank(matching, k) - Offset(page) \in 1 .. PageSize}}

TotalPages(total) == (total + PageSize - 1) \div PageSize

-----------------------------------------------------------------------------
ApiNext ==
    \/ \E c \in Posts :
         \/ \E key \in Keys : InsertJob(c, key) \/ InsertConflicts(c, key)
         \/ SelectExisting(c)
         \/ AnswerPost(c)
         \/ LosePost(c)
    \/ \E id \in 1 .. Len(table), to \in MoveTargets : Move(id, to)

ApiSpec == ApiInit /\ [][ApiNext]_apiVars

-----------------------------------------------------------------------------
(* What any client was ever told of a key is still true: there is exactly   *)
(* one job for the key and it is the one in the answer, whatever requests   *)
(* raced, whatever answers were lost and posted again and however far the   *)
(* job has come since (routes/jobs.ts, "Return that existing logical job    *)
(* instead of creating a duplicate").                                       *)
OneJobPerKey ==
    \A answer \in told :
      {row.id : row \in {r \in ToSet(table) : r.key = answer[1]}} = {answer[2]}
=============================================================================
