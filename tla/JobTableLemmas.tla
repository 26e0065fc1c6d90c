--------------------------- MODULE JobTableLemmas ---------------------------
(***************************************************************************)
(* What the statements of JobTable do to a row, proved for every row.      *)
(***************************************************************************)
EXTENDS JobTable, TLAPS

(* The rows of an update's SET list that a completion or a recovery writes. *)
Update ==
    [status : {"SUCCEEDED", "RETRYING", "DEAD"}, attempts : Nat,
     nextAttemptAt : Nat \cup {Null}, lastErrorCode : ErrorCode \cup {Null}]

(* POST /jobs inserts a well-typed row.                                     *)
LEMMA NewRowType ==
    ASSUME NEW m \in Nat \ {0}, NEW t \in Nat
    PROVE  NewRow(m, t) \in Row
  BY DEF NewRow, Row, JobStatus

(* A claim keeps the type of a row.                                         *)
LEMMA ClaimedRowType ==
    ASSUME NEW row \in Row, NEW token \in Nat, NEW t \in Nat
    PROVE  ClaimedRow(row, token, t) \in Row
<1>1. t + LeaseDuration \in Nat
  BY LeaseAssumption
<1>2. "PROCESSING" \in JobStatus
  BY DEF JobStatus
<1>. QED
  BY <1>1, <1>2 DEF ClaimedRow, Row

(* A renewal keeps the type of a row.                                       *)
LEMMA RenewedRowType ==
    ASSUME NEW row \in Row, NEW until \in Nat
    PROVE  RenewedRow(row, until) \in Row
  BY DEF RenewedRow, Row

(* A completion, or a recovery, keeps the type of a row.                    *)
LEMMA CompletedRowType ==
    ASSUME NEW row \in Row, NEW update \in Update
    PROVE  CompletedRow(row, update) \in Row
  BY DEF CompletedRow, Row, Update, JobStatus

(* The scheduler's and the API's statements keep the type of a row.         *)
LEMMA OtherRowTypes ==
    ASSUME NEW row \in Row
    PROVE  /\ QueuedRow(row) \in Row
           /\ RetriggeredRow(row) \in Row
           /\ CompensatedRow(row) \in Row
  BY DEF QueuedRow, RetriggeredRow, CompensatedRow, Row, JobStatus

(* The update of a success is an update.                                    *)
LEMMA SuccessUpdateType ==
    ASSUME NEW attempt \in Nat
    PROVE  SuccessUpdate(attempt) \in Update
  BY DEF SuccessUpdate, Update

(* A failed attempt becomes RETRYING with a later attempt scheduled and     *)
(* attempts left, or DEAD; it charges what it is given and keeps the code.  *)
LEMMA FailureUpdateFacts ==
    ASSUME NEW attempt \in Nat, NEW maxAttempts \in Nat,
           NEW retryable, NEW code \in ErrorCode, NEW t \in Nat,
           NEW update \in FailureUpdates(attempt, maxAttempts, retryable, code, t)
    PROVE  /\ update \in Update
           /\ update.status \in {"RETRYING", "DEAD"}
           /\ update.attempts = attempt
           /\ update.lastErrorCode = code
           /\ update.status = "RETRYING" =>
                /\ attempt < maxAttempts
                /\ update.nextAttemptAt \in Nat
<1>1. CASE retryable /\ HasAttemptsLeft(attempt, maxAttempts)
  <2>1. PICK delay \in applyFullJitter(calculateExponentialDelayMs(attempt)) :
          update = [status |-> "RETRYING", attempts |-> attempt,
                    nextAttemptAt |-> t + delay, lastErrorCode |-> code]
    BY <1>1 DEF FailureUpdates
  <2>2. delay \in Nat
    BY DEF applyFullJitter
  <2>3. t + delay \in Nat
    BY <2>2
  <2>. QED
    BY <1>1, <2>1, <2>3 DEF Update, HasAttemptsLeft
<1>2. CASE ~(retryable /\ HasAttemptsLeft(attempt, maxAttempts))
  <2>1. update = [status |-> "DEAD", attempts |-> attempt,
                  nextAttemptAt |-> Null, lastErrorCode |-> code]
    BY <1>2 DEF FailureUpdates
  <2>. QED
    BY <2>1 DEF Update
<1>. QED
  BY <1>1, <1>2
=============================================================================
