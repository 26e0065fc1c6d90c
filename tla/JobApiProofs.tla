--------------------------- MODULE JobApiProofs ---------------------------
(***************************************************************************)
(* One job for each idempotency key, for every set of keys and requests.   *)
(* A row keeps its id and its key wherever it moves in the listing order,  *)
(* so what a client was told of a key can only become false with a second  *)
(* row for it.                                                             *)
(***************************************************************************)
EXTENDS JobApi, SequenceTheorems, FiniteSetTheorems, TLAPS

Row == [id : Nat, key : Keys, status : JobStatus]
PostState == [pc : {"idle", "conflict", "answering"}, key : Keys \cup {Null},
              id : Nat \cup {Null}]

(* Among these rows there is one with this key and this id.                 *)
Has(rows, key, id) ==
    \E i \in 1 .. Len(rows) : rows[i].key = key /\ rows[i].id = id

ApiTypes ==
    /\ table \in Seq(Row)
    /\ post \in [Posts -> PostState]
    /\ told \subseteq Keys \X Nat

(* Each id has a row, no two rows have a key in common, and what a request  *)
(* is about to answer or has answered names a row.                          *)
ApiInv ==
    /\ ApiTypes
    /\ \A id \in 1 .. Len(table) : \E i \in 1 .. Len(table) : table[i].id = id
    /\ \A i, k \in 1 .. Len(table) : table[i].key = table[k].key => i = k
    /\ \A c \in Posts : post[c].pc = "answering" => Has(table, post[c].key, post[c].id)
    /\ \A answer \in told : Has(table, answer[1], answer[2])

(* The rows of the table and their fields.                                  *)
LEMMA TableShape ==
    ASSUME ApiTypes
    PROVE  /\ Len(table) \in Nat /\ DOMAIN table = 1 .. Len(table)
           /\ \A i \in 1 .. Len(table) :
                /\ table[i] \in Row
                /\ table[i] = [id |-> table[i].id, key |-> table[i].key,
                               status |-> table[i].status]
                /\ table[i].id \in Nat /\ table[i].key \in Keys
                /\ table[i].status \in JobStatus
<1>1. Len(table) \in Nat /\ DOMAIN table = 1 .. Len(table)
  BY DEF ApiTypes
<1>2. \A i \in 1 .. Len(table) : table[i] \in Row
  BY DEF ApiTypes
<1>. QED
  BY <1>1, <1>2 DEF Row

(* What Touch does to the listing order: one element goes to the front.     *)
ToFront(s, i, e) == Cons(e, RemoveAt(s, i))

(* Where the elements are after one has gone to the front,                  *)
LEMMA MoveToFront ==
    ASSUME NEW S, NEW s \in Seq(S), NEW i \in 1 .. Len(s), NEW e \in S
    PROVE  /\ ToFront(s, i, e) \in Seq(S) /\ Len(ToFront(s, i, e)) = Len(s)
           /\ ToFront(s, i, e)[1] = e
           /\ \A k \in 2 .. i : ToFront(s, i, e)[k] = s[k - 1]
           /\ \A k \in i + 1 .. Len(s) : ToFront(s, i, e)[k] = s[k]
<1>. DEFINE t == ToFront(s, i, e)
<1>. DEFINE before == SubSeq(s, 1, i - 1)
            after == SubSeq(s, i + 1, Len(s))
            rest == before \o after
<1>0. Len(s) \in Nat /\ \A k \in 1 .. Len(s) : s[k] \in S
  OBVIOUS
<1>1. /\ before \in Seq(S) /\ Len(before) = i - 1
      /\ \A k \in 1 .. i - 1 : before[k] = s[k]
  <2>1. \A k \in 1 .. i - 1 : s[k] \in S
    BY <1>0
  <2>2. /\ SubSeq(s, 1, i - 1) \in Seq(S)
        /\ Len(SubSeq(s, 1, i - 1)) = IF 1 <= i - 1 THEN i - 1 - 1 + 1 ELSE 0
        /\ \A k \in 1 .. i - 1 - 1 + 1 : SubSeq(s, 1, i - 1)[k] = s[1 + k - 1]
    BY <2>1, SubSeqProperties
  <2>. QED
    BY <2>2
<1>2. /\ after \in Seq(S) /\ Len(after) = Len(s) - i
      /\ \A k \in 1 .. Len(s) - i : after[k] = s[i + k]
  <2>1. \A k \in i + 1 .. Len(s) : s[k] \in S
    BY <1>0
  <2>2. /\ SubSeq(s, i + 1, Len(s)) \in Seq(S)
        /\ Len(SubSeq(s, i + 1, Len(s))) =
             IF i + 1 <= Len(s) THEN Len(s) - (i + 1) + 1 ELSE 0
        /\ \A k \in 1 .. Len(s) - (i + 1) + 1 :
             SubSeq(s, i + 1, Len(s))[k] = s[i + 1 + k - 1]
    BY <2>1, SubSeqProperties
  <2>. QED
    BY <2>2
<1>. HIDE DEF before, after
<1>3. /\ rest \in Seq(S) /\ Len(rest) = Len(s) - 1
      /\ \A k \in 1 .. Len(s) - 1 : rest[k] = IF k < i THEN s[k] ELSE s[k + 1]
  <2>1. /\ rest \in Seq(S) /\ Len(rest) = Len(before) + Len(after)
        /\ \A k \in 1 .. Len(before) + Len(after) :
             rest[k] = IF k <= Len(before) THEN before[k] ELSE after[k - Len(before)]
    BY <1>1, <1>2, ConcatProperties
  <2>. QED
    BY <1>1, <1>2, <2>1
<1>4. t = <<e>> \o rest
  BY DEF ToFront, Cons, RemoveAt, before, after
<1>. HIDE DEF rest, t
<1>5. /\ t \in Seq(S) /\ Len(t) = 1 + Len(rest)
      /\ \A k \in 1 .. 1 + Len(rest) : t[k] = IF k <= 1 THEN <<e>>[k] ELSE rest[k - 1]
  <2>1. <<e>> \in Seq(S) /\ Len(<<e>>) = 1
    OBVIOUS
  <2>. QED
    BY <1>3, <1>4, <2>1, ConcatProperties
<1>6. t[1] = e /\ \A k \in 2 .. Len(s) : t[k] = rest[k - 1]
  BY <1>0, <1>3, <1>5
<1>7. \A k \in 2 .. Len(s) : rest[k - 1] = IF k - 1 < i THEN s[k - 1] ELSE s[k]
  BY <1>0, <1>3
<1>8. Len(t) = Len(s)
  BY <1>0, <1>3, <1>5
<1>9. \A k \in 2 .. i : t[k] = s[k - 1]
  BY <1>0, <1>6, <1>7
<1>10. \A k \in i + 1 .. Len(s) : t[k] = s[k]
  BY <1>0, <1>6, <1>7
<1>. QED
  BY <1>5, <1>6, <1>8, <1>9, <1>10 DEF t

(* those that were before it by themselves.                                 *)
LEMMA MoveToFrontBefore ==
    ASSUME NEW S, NEW s \in Seq(S), NEW i \in 1 .. Len(s), NEW e \in S,
           NEW k \in 2 .. i
    PROVE  ToFront(s, i, e)[k] = s[k - 1]
BY MoveToFront

(* Where the rows are after a Touch.                                        *)
LEMMA TouchPositions ==
    ASSUME ApiInv, NEW id \in 1 .. Len(table), NEW status \in JobStatus,
           Touch(id, status)
    PROVE  /\ RowOf(id) \in 1 .. Len(table) /\ table[RowOf(id)].id = id
           /\ table' \in Seq(Row) /\ Len(table') = Len(table)
           /\ table'[1].key = table[RowOf(id)].key /\ table'[1].id = id
           /\ table'[1].status = status
           /\ \A k \in 2 .. RowOf(id) : table'[k] = table[k - 1]
           /\ \A k \in RowOf(id) + 1 .. Len(table) : table'[k] = table[k]
<1>. DEFINE i == RowOf(id)
            e == [table[i] EXCEPT !.status = status]
<1>0. ApiTypes /\ Len(table) \in Nat /\ DOMAIN table = 1 .. Len(table)
  BY TableShape DEF ApiInv
<1>1. i \in 1 .. Len(table) /\ table[i].id = id
  <2>1. \E k \in DOMAIN table : table[k].id = id
    BY <1>0 DEF ApiInv
  <2>. QED
    BY <1>0, <2>1 DEF RowOf
<1>2. /\ e \in Row /\ e.key = table[i].key /\ e.id = table[i].id
      /\ e.status = status
  <2>1. table[i] \in Row
    BY <1>0, <1>1, TableShape
  <2>. QED
    BY <2>1 DEF Row
<1>3. table' = ToFront(table, i, e)
  BY DEF Touch, ToFront
<1>. HIDE DEF i, e
<1>4. /\ table' \in Seq(Row) /\ Len(table') = Len(table)
      /\ table'[1] = e
      /\ \A k \in 2 .. i : table'[k] = table[k - 1]
      /\ \A k \in i + 1 .. Len(table) : table'[k] = table[k]
  <2>1. table \in Seq(Row)
    BY <1>0 DEF ApiTypes
  <2>2. ASSUME NEW n \in 1 .. Len(table), NEW row \in Row
        PROVE  /\ ToFront(table, n, row) \in Seq(Row)
               /\ Len(ToFront(table, n, row)) = Len(table)
               /\ ToFront(table, n, row)[1] = row
    BY <2>1, MoveToFront
  <2>3. ASSUME NEW n \in 1 .. Len(table), NEW row \in Row, NEW k \in 2 .. n
        PROVE  ToFront(table, n, row)[k] = table[k - 1]
    BY <2>1, MoveToFrontBefore
  <2>4. ASSUME NEW n \in 1 .. Len(table), NEW row \in Row, NEW k \in n + 1 .. Len(table)
        PROVE  ToFront(table, n, row)[k] = table[k]
    BY <2>1, MoveToFront
  <2>. QED
    BY <1>1, <1>2, <1>3, <2>2, <2>3, <2>4
<1>. QED
  BY <1>1, <1>2, <1>4 DEF i

(* The rows before and after a Touch, by key and id.                        *)
LEMMA TouchKeepsRows ==
    ASSUME ApiInv, NEW id \in 1 .. Len(table), NEW status \in JobStatus,
           Touch(id, status)
    PROVE  /\ table' \in Seq(Row) /\ Len(table') = Len(table)
           /\ \A k \in 1 .. Len(table) : \E i \in 1 .. Len(table) :
                table'[k].key = table[i].key /\ table'[k].id = table[i].id
           /\ \A i \in 1 .. Len(table) : \E k \in 1 .. Len(table) :
                table'[k].key = table[i].key /\ table'[k].id = table[i].id
           /\ \A k, m \in 1 .. Len(table) :
                table'[k].key = table'[m].key => k = m
<1>. DEFINE i == RowOf(id)
<1>0. Len(table) \in Nat
  BY TableShape DEF ApiInv
<1>1. i \in 1 .. Len(table) /\ table[i].id = id
  BY TouchPositions
<1>4. /\ table' \in Seq(Row) /\ Len(table') = Len(table)
      /\ table'[1].key = table[i].key /\ table'[1].id = id
      /\ \A k \in 2 .. i : table'[k] = table[k - 1]
      /\ \A k \in i + 1 .. Len(table) : table'[k] = table[k]
  BY TouchPositions
<1>. HIDE DEF i
<1>. DEFINE From(k) == IF k = 1 THEN i ELSE IF k <= i THEN k - 1 ELSE k
<1>5. \A k \in 1 .. Len(table) :
        /\ From(k) \in 1 .. Len(table)
        /\ table'[k].key = table[From(k)].key /\ table'[k].id = table[From(k)].id
  BY <1>0, <1>1, <1>4
<1>6. \A k, m \in 1 .. Len(table) : From(k) = From(m) => k = m
  BY <1>0, <1>1
<1>7. \A n \in 1 .. Len(table) : \E k \in 1 .. Len(table) : From(k) = n
  <2>. TAKE n \in 1 .. Len(table)
  <2>. DEFINE k == IF n = i THEN 1 ELSE IF n < i THEN n + 1 ELSE n
  <2>1. k \in 1 .. Len(table) /\ From(k) = n
    BY <1>0, <1>1
  <2>. QED
    BY <2>1
<1>. HIDE DEF From
<1>8. \A k, m \in 1 .. Len(table) : table'[k].key = table'[m].key => k = m
  <2>1. \A m, n \in 1 .. Len(table) : table[m].key = table[n].key => m = n
    BY DEF ApiInv
  <2>. SUFFICES ASSUME NEW k \in 1 .. Len(table), NEW m \in 1 .. Len(table),
                       table'[k].key = table'[m].key
                PROVE  k = m
    OBVIOUS
  <2>2. /\ From(k) \in 1 .. Len(table) /\ From(m) \in 1 .. Len(table)
        /\ table[From(k)].key = table[From(m)].key
    BY <1>5
  <2>3. From(k) = From(m)
    BY <2>1, <2>2
  <2>. QED
    BY <1>6, <2>3
<1>9. \A n \in 1 .. Len(table) : \E k \in 1 .. Len(table) :
        table'[k].key = table[n].key /\ table'[k].id = table[n].id
  BY <1>5, <1>7
<1>10. \A k \in 1 .. Len(table) : \E n \in 1 .. Len(table) :
         table'[k].key = table[n].key /\ table'[k].id = table[n].id
  BY <1>5
<1>. QED
  BY <1>4, <1>8, <1>9, <1>10

(* The INSERT adds one row, with a new key, in front of the others.         *)
LEMMA InsertAddsRow ==
    ASSUME ApiInv, NEW c \in Posts, NEW key \in Keys, InsertJob(c, key)
    PROVE  /\ Len(table) \in Nat
           /\ table' \in Seq(Row) /\ Len(table') = Len(table) + 1
           /\ table'[1].id = Len(table) + 1 /\ table'[1].key = key
           /\ \A i \in 1 .. Len(table) : table'[i + 1] = table[i]
<1>. DEFINE row == [id |-> Len(table) + 1, key |-> key, status |-> "PENDING"]
<1>1. row \in Row /\ table' = <<row>> \o table /\ Len(table) \in Nat
  BY DEF InsertJob, Cons, Row, JobStatus, ApiInv, ApiTypes
<1>2. <<row>> \in Seq(Row) /\ Len(<<row>>) = 1 /\ <<row>>[1] = row
  BY <1>1
<1>. HIDE DEF row
<1>3. /\ table' \in Seq(Row) /\ Len(table') = 1 + Len(table)
      /\ \A k \in 1 .. 1 + Len(table) :
           table'[k] = IF k <= 1 THEN <<row>>[k] ELSE table[k - 1]
  BY <1>1, <1>2, ConcatProperties DEF ApiInv, ApiTypes
<1>4. table'[1] = row
  BY <1>1, <1>2, <1>3
<1>5. \A i \in 1 .. Len(table) : table'[i + 1] = table[i]
  BY <1>1, <1>3
<1>. QED
  BY <1>1, <1>3, <1>4, <1>5 DEF row

(* The backlog has one row for each of its keys.                            *)
LEMMA ApiInvInit == ApiInit => ApiInv
<1>. SUFFICES ASSUME ApiInit
              PROVE  ApiInv
  OBVIOUS
<1>1. PICK keys \in SetToSeqs(Backlog) :
        table = [i \in DOMAIN keys |->
                  [id |-> i, key |-> keys[i], status |-> "DEAD"]]
  BY DEF ApiInit
<1>. DEFINE n == Cardinality(Backlog)
<1>2. /\ n \in Nat /\ DOMAIN keys = 1 .. n
      /\ \A i \in 1 .. n : keys[i] \in Keys
      /\ \A i, k \in 1 .. n : keys[i] = keys[k] => i = k
  <2>1. n \in Nat
    BY ApiAssumption, FS_CardinalityType
  <2>2. /\ keys \in [1 .. n -> Backlog]
        /\ \A i, k \in 1 .. n : i # k => keys[i] # keys[k]
    BY <1>1 DEF SetToSeqs
  <2>. QED
    BY <2>1, <2>2, ApiAssumption
<1>. HIDE DEF n
<1>3. table = [i \in 1 .. n |-> [id |-> i, key |-> keys[i], status |-> "DEAD"]]
  BY <1>1, <1>2
<1>5. table \in Seq(Row) /\ Len(table) = n
  <2>1. \A i \in 1 .. n : [id |-> i, key |-> keys[i], status |-> "DEAD"] \in Row
    BY <1>2 DEF Row, JobStatus
  <2>2. table \in [1 .. n -> Row]
    BY <1>3, <2>1
  <2>. QED
    BY <1>2, <2>2
<1>6. \A i \in 1 .. n : table[i].id = i /\ table[i].key = keys[i]
  BY <1>3
<1>4. post \in [Posts -> PostState] /\ told = {} /\ \A c \in Posts : post[c].pc = "idle"
  BY DEF ApiInit, IdlePost, PostState
<1>. QED
  BY <1>2, <1>4, <1>5, <1>6 DEF ApiInv, ApiTypes

(* A Touch, whoever makes it, leaves every row with its id and its key.     *)
LEMMA TouchKeepsApi ==
    ASSUME ApiInv, NEW id \in 1 .. Len(table), NEW status \in JobStatus,
           Touch(id, status), UNCHANGED <<post, told>>
    PROVE  ApiInv'
<1>1. /\ table' \in Seq(Row) /\ Len(table') = Len(table)
      /\ \A i \in 1 .. Len(table) : \E k \in 1 .. Len(table) :
           table'[k].key = table[i].key /\ table'[k].id = table[i].id
      /\ \A k, m \in 1 .. Len(table) : table'[k].key = table'[m].key => k = m
  BY TouchKeepsRows
<1>2. ASSUME NEW k, NEW n, Has(table, k, n)
      PROVE  Has(table', k, n)
  <2>1. PICK i \in 1 .. Len(table) : table[i].key = k /\ table[i].id = n
    BY <1>2 DEF Has
  <2>2. PICK j \in 1 .. Len(table) :
          table'[j].key = table[i].key /\ table'[j].id = table[i].id
    BY <1>1
  <2>. QED
    BY <1>1, <2>1, <2>2 DEF Has
<1>3. ASSUME NEW n \in 1 .. Len(table)
      PROVE  \E k \in 1 .. Len(table) : table'[k].id = n
  <2>1. PICK i \in 1 .. Len(table) : table[i].id = n
    BY DEF ApiInv
  <2>2. PICK j \in 1 .. Len(table) :
          table'[j].key = table[i].key /\ table'[j].id = table[i].id
    BY <1>1
  <2>. QED
    BY <2>1, <2>2
<1>. QED
  BY <1>1, <1>2, <1>3 DEF ApiInv, ApiTypes

(* Has outlives every step, since no row is ever deleted or given another   *)
(* key.                                                                     *)
LEMMA ApiInvStep == ApiInv /\ [ApiNext]_apiVars => ApiInv'
<1>. SUFFICES ASSUME ApiInv, [ApiNext]_apiVars
              PROVE  ApiInv'
  OBVIOUS
<1>1. CASE UNCHANGED apiVars
  BY <1>1 DEF apiVars, ApiInv, ApiTypes, Has
<1>2. ASSUME NEW c \in Posts, NEW key \in Keys, InsertJob(c, key)
      PROVE  ApiInv'
  <2>1. PICK new :
        /\ Len(table) \in Nat /\ new = Len(table) + 1
        /\ table' \in Seq(Row) /\ Len(table') = new
        /\ table'[1].id = new /\ table'[1].key = key
        /\ \A i \in 1 .. Len(table) : table'[i + 1] = table[i]
    BY <1>2, InsertAddsRow
  <2>2. \A i \in 1 .. Len(table) : table[i].key # key
    BY <1>2, TableShape DEF InsertJob, Taken, ToSet, ApiInv
  <2>3. /\ post' = [post EXCEPT ![c] = [pc |-> "answering", key |-> key, id |-> new]]
        /\ told' = told
    BY <1>2, <2>1 DEF InsertJob
  <2>4. /\ 1 \in 1 .. new /\ new \in Nat
        /\ \A i \in 1 .. Len(table) : i + 1 \in 1 .. new
        /\ \A k \in 1 .. new : k = 1 \/ \E i \in 1 .. Len(table) : k = i + 1
    <3>1. \A k \in 1 .. new : k # 1 => k - 1 \in 1 .. Len(table) /\ k = (k - 1) + 1
      BY <2>1
    <3>. QED
      BY <2>1, <3>1
  <2>5. ASSUME NEW k, NEW n, Has(table, k, n)
        PROVE  Has(table', k, n)
    <3>1. PICK i \in 1 .. Len(table) : table[i].key = k /\ table[i].id = n
      BY <2>5 DEF Has
    <3>. QED
      BY <2>1, <2>4, <3>1 DEF Has
  <2>6. Has(table', key, new)
    BY <2>1, <2>4 DEF Has
  <2>7. ApiTypes'
    <3>1. [pc |-> "answering", key |-> key, id |-> new] \in PostState
      BY <2>4 DEF PostState
    <3>. QED
      BY <2>1, <2>3, <3>1 DEF ApiInv, ApiTypes
  <2>8. \A n \in 1 .. new : \E i \in 1 .. new : table'[i].id = n
    <3>. TAKE n \in 1 .. new
    <3>1. CASE n = new
      BY <2>1, <2>4, <3>1
    <3>2. CASE n # new
      <4>1. n \in 1 .. Len(table)
        BY <2>1, <3>2
      <4>2. PICK i \in 1 .. Len(table) : table[i].id = n
        BY <4>1 DEF ApiInv
      <4>. QED
        BY <2>1, <2>4, <4>2
    <3>. QED
      BY <3>1, <3>2
  <2>9. \A i, k \in 1 .. new : table'[i].key = table'[k].key => i = k
    <3>1. \A i \in 1 .. Len(table) : table'[i + 1].key # table'[1].key
      BY <2>1, <2>2
    <3>2. \A i, k \in 1 .. Len(table) :
            table'[i + 1].key = table'[k + 1].key => i = k
      BY <2>1 DEF ApiInv
    <3>. QED
      BY <2>4, <3>1, <3>2
  <2>10. ASSUME NEW d \in Posts, post'[d].pc = "answering"
         PROVE  Has(table', post'[d].key, post'[d].id)
    <3>1. CASE d = c
      BY <2>3, <2>6, <3>1 DEF ApiInv, ApiTypes
    <3>2. CASE d # c
      <4>1. post'[d] = post[d]
        BY <2>3, <3>2 DEF ApiInv, ApiTypes
      <4>2. Has(table, post[d].key, post[d].id)
        BY <2>10, <4>1 DEF ApiInv
      <4>. QED
        BY <2>5, <4>1, <4>2
    <3>. QED
      BY <3>1, <3>2
  <2>. QED
    BY <2>1, <2>3, <2>5, <2>7, <2>8, <2>9, <2>10 DEF ApiInv
<1>3. ASSUME NEW c \in Posts,
             \/ \E key \in Keys : InsertConflicts(c, key)
             \/ SelectExisting(c) \/ AnswerPost(c) \/ LosePost(c)
      PROVE  ApiInv'
  <2>1. table' = table /\ (\A k, n : Has(table', k, n) <=> Has(table, k, n))
    BY <1>3 DEF InsertConflicts, SelectExisting, AnswerPost, LosePost, Has
  <2>2. CASE \E key \in Keys : InsertConflicts(c, key)
    BY <2>1, <2>2 DEF InsertConflicts, ApiInv, ApiTypes, PostState
  <2>3. CASE SelectExisting(c)
    <3>1. PICK i \in 1 .. Len(table) :
            /\ table[i].key = post[c].key
            /\ post' = [post EXCEPT ![c] = [pc |-> "answering", key |-> post[c].key,
                                            id |-> table[i].id]]
      <4>1. PICK row \in ToSet(table) :
              /\ row.key = post[c].key
              /\ post' = [post EXCEPT ![c].pc = "answering", ![c].id = row.id]
        BY <2>3 DEF SelectExisting
      <4>2. PICK i \in 1 .. Len(table) : row = table[i]
        BY <4>1, TableShape DEF ToSet, ApiInv
      <4>3. [post[c] EXCEPT !.pc = "answering", !.id = row.id] =
              [pc |-> "answering", key |-> post[c].key, id |-> row.id]
        <5>1. ASSUME NEW old \in PostState, NEW n, NEW x,
                     x = [old EXCEPT !.pc = "answering", !.id = n]
              PROVE  x = [pc |-> "answering", key |-> old.key, id |-> n]
          BY <5>1 DEF PostState
        <5>2. post[c] \in PostState
          BY DEF ApiInv, ApiTypes
        <5>. QED
          BY <5>1, <5>2
      <4>. QED
        BY <4>1, <4>2, <4>3 DEF ApiInv, ApiTypes
    <3>2. table[i] \in Row
      BY DEF ApiInv, ApiTypes
    <3>3. Has(table, post[c].key, table[i].id)
      BY <3>1 DEF Has
    <3>. QED
      BY <2>1, <2>3, <3>1, <3>2, <3>3
      DEF SelectExisting, ApiInv, ApiTypes, PostState, Row
  <2>4. CASE AnswerPost(c)
    <3>1. Has(table, post[c].key, post[c].id)
      BY <2>4 DEF AnswerPost, ApiInv
    <3>2. post[c].key \in Keys /\ post[c].id \in Nat
      BY <3>1, TableShape DEF Has, ApiInv
    <3>. QED
      BY <2>1, <2>4, <3>1, <3>2 DEF AnswerPost, IdlePost, ApiInv, ApiTypes, PostState
  <2>5. CASE LosePost(c)
    BY <2>1, <2>5 DEF LosePost, IdlePost, ApiInv, ApiTypes, PostState
  <2>. QED
    BY <1>3, <2>2, <2>3, <2>4, <2>5
<1>4. ASSUME NEW id \in 1 .. Len(table), NEW to \in MoveTargets, Move(id, to)
      PROVE  ApiInv'
  BY <1>4, ApiAssumption, TouchKeepsApi DEF Move
<1>. QED
  BY <1>1, <1>2, <1>3, <1>4 DEF ApiNext

(* However many requests for a key race, fail or are repeated, all the      *)
(* answers name the one job of the key (the unique constraint and the       *)
(* SELECT after a conflict, routes/jobs.ts).                                *)
THEOREM IdempotentCreation == ApiSpec => []OneJobPerKey
<1>1. ApiInv => OneJobPerKey
  <2>. SUFFICES ASSUME ApiInv, NEW answer \in told
                PROVE  {row.id : row \in {r \in ToSet(table) : r.key = answer[1]}}
                         = {answer[2]}
    BY DEF OneJobPerKey
  <2>1. PICK i \in 1 .. Len(table) :
          table[i].key = answer[1] /\ table[i].id = answer[2]
    BY DEF ApiInv, Has
  <2>2. ToSet(table) = {table[k] : k \in 1 .. Len(table)}
    BY DEF ToSet, ApiInv, ApiTypes
  <2>3. \A r \in ToSet(table) : r.key = answer[1] => r = table[i]
    BY <2>1, <2>2 DEF ApiInv
  <2>4. table[i] \in ToSet(table)
    BY <2>2
  <2>. QED
    BY <2>1, <2>3, <2>4
<1>2. ApiSpec => []ApiInv
  BY ApiInvInit, ApiInvStep, PTL DEF ApiSpec
<1>. QED
  BY <1>1, <1>2, PTL

-----------------------------------------------------------------------------
(* The listings, for the pages that show them.                              *)

(* The ranks of the members of a finite set are all the numbers up to its   *)
(* size, each once.                                                         *)
LEMMA EveryRank ==
    ASSUME NEW M \in SUBSET Nat, IsFiniteSet(M), NEW r \in 1 .. Cardinality(M)
    PROVE  \E k \in M : Rank(M, k) = r
<1>. DEFINE upTo(k) == {m \in M : m <= k}
            size == Cardinality(M)
            rank == [k \in M |-> Cardinality(upTo(k))]
<1>1. size \in Nat
  BY FS_CardinalityType
<1>2. ASSUME NEW k \in M
      PROVE  /\ IsFiniteSet(upTo(k)) /\ Cardinality(upTo(k)) \in Nat
             /\ Cardinality(upTo(k)) <= size /\ Cardinality(upTo(k)) # 0
  <2>1. upTo(k) \in SUBSET M /\ k \in upTo(k)
    OBVIOUS
  <2>2. IsFiniteSet(upTo(k)) /\ Cardinality(upTo(k)) <= size
    BY <2>1, FS_Subset
  <2>. QED
    BY <2>1, <2>2, FS_EmptySet, FS_CardinalityType
<1>3. ASSUME NEW k \in M, NEW m \in M, k < m
      PROVE  Cardinality(upTo(k)) # Cardinality(upTo(m))
  <2>1. upTo(k) \in SUBSET upTo(m) /\ m \in upTo(m) /\ m \notin upTo(k)
    <3>1. /\ \A x \in M : x <= k => x <= m
          /\ ~(m <= k) /\ m <= m
      BY <1>3
    <3>. QED
      BY <3>1
  <2>2. upTo(k) # upTo(m)
    BY <2>1
  <2>3. IsFiniteSet(upTo(m))
    BY <1>2
  <2>. HIDE DEF upTo
  <2>. QED
    BY <2>1, <2>2, <2>3, FS_Subset
<1>4. rank \in Injection(M, 1 .. size)
  <2>1. \A k \in M : Cardinality(upTo(k)) \in 1 .. size
    BY <1>1, <1>2
  <2>2. \A k, m \in M : rank[k] = rank[m] => k = m
    BY <1>3
  <2>. QED
    BY <2>1, <2>2 DEF Injection, IsInjective
<1>. HIDE DEF rank
<1>5. IsFiniteSet(1 .. size) /\ Cardinality(1 .. size) = size
  BY <1>1, FS_Interval
<1>6. rank \in Surjection(M, 1 .. size)
  BY <1>4, <1>5, FS_Injection
<1>7. PICK k \in M : rank[k] = r
  BY <1>6 DEF Surjection
<1>. QED
  BY <1>7 DEF rank, Rank

(* A listing has finitely many rows.                                        *)
LEMMA MatchingFinite ==
    ASSUME NEW rows \in Seq(Row), NEW filter
    PROVE  LET matching == {i \in DOMAIN rows : filter \in {"ALL", rows[i].status}}
           IN  IsFiniteSet(matching) /\ Cardinality(matching) \in Nat
<1>. DEFINE matching == {i \in DOMAIN rows : filter \in {"ALL", rows[i].status}}
<1>1. matching \in SUBSET (1 .. Len(rows)) /\ Len(rows) \in Int
  OBVIOUS
<1>. HIDE DEF matching
<1>2. IsFiniteSet(1 .. Len(rows))
  BY <1>1, FS_Interval
<1>3. IsFiniteSet(matching)
  BY <1>1, <1>2, FS_Subset
<1>. QED
  BY <1>3, FS_CardinalityType DEF matching

(* The OFFSET of a page.                                                    *)
LEMMA OffsetNat ==
    ASSUME NEW page \in Nat \ {0}
    PROVE  Offset(page) \in Nat
<1>1. page - 1 \in Nat /\ PageSize \in Nat
  BY ApiAssumption
<1>2. \A m, n \in Nat : m * n \in Nat
  OBVIOUS
<1>. QED
  BY <1>1, <1>2 DEF Offset

(* An empty page is past the end of the listing.                            *)
LEMMA EmptyPage ==
    ASSUME ApiInv, NEW filter, NEW page \in Nat \ {0}, SelectPage(filter, page) = {}
    PROVE  Cardinality(Matching(filter)) <= Offset(page)
<1>. DEFINE M == Matching(filter)
            before == Offset(page)
<1>1. Len(table) \in Nat /\ DOMAIN table = 1 .. Len(table)
  BY TableShape DEF ApiInv
<1>2. M \in SUBSET (1 .. Len(table))
  BY <1>1 DEF Matching
<1>. HIDE DEF M
<1>3. IsFiniteSet(M) /\ Cardinality(M) \in Nat /\ M \in SUBSET Nat
  <2>1. table \in Seq(Row)
    BY DEF ApiInv, ApiTypes
  <2>2. IsFiniteSet(M) /\ Cardinality(M) \in Nat
    BY <2>1, MatchingFinite DEF M, Matching
  <2>. QED
    BY <1>1, <1>2, <2>2
<1>4. before \in Nat
  BY OffsetNat
<1>. HIDE DEF before
<1>5. ASSUME before + 1 <= Cardinality(M)
      PROVE  FALSE
  <2>1. PICK k \in M : Rank(M, k) = before + 1
    BY <1>3, <1>4, <1>5, EveryRank
  <2>2. Rank(M, k) - before \in 1 .. PageSize
    BY <1>4, <2>1, ApiAssumption
  <2>3. table[k].id \in SelectPage(filter, page)
    BY <2>2 DEF SelectPage, M, before
  <2>. QED
    BY <2>3
<1>6. ~(before + 1 <= Cardinality(M)) => Cardinality(M) <= before
  BY <1>3, <1>4
<1>. QED
  BY <1>5, <1>6 DEF M, before

(* A page number that is at most totalPages has rows before its end.        *)
LEMMA PageInTotal ==
    ASSUME NEW total \in Nat, NEW page \in Nat \ {0}, page <= TotalPages(total)
    PROVE  Offset(page) < total
<1>. DEFINE a == total + PageSize - 1
            d == a \div PageSize
<1>1. PageSize \in Nat \ {0} /\ a \in Nat /\ d \in Nat
  BY ApiAssumption
<1>2. d * PageSize <= a
  BY <1>1, ApiAssumption
<1>3. page <= d
  BY DEF TotalPages
<1>. HIDE DEF d
<1>4. page * PageSize <= d * PageSize
  BY <1>1, <1>3
<1>5. Offset(page) = page * PageSize - PageSize
  BY <1>1 DEF Offset
<1>6. page * PageSize \in Int /\ d * PageSize \in Int
  BY <1>1
<1>. QED
  BY <1>1, <1>2, <1>4, <1>5, <1>6

(* A Touch takes matching rows away only from the listing of the status     *)
(* that the row leaves.                                                     *)
LEMMA TouchMatching ==
    ASSUME ApiInv, NEW id \in 1 .. Len(table), NEW status \in JobStatus,
           Touch(id, status), NEW filter, filter # table[RowOf(id)].status
    PROVE  Cardinality(Matching(filter)) <= Cardinality(Matching(filter)')
<1>. DEFINE i == RowOf(id)
            To(k) == IF k = i THEN 1 ELSE IF k < i THEN k + 1 ELSE k
            before == Matching(filter)
            after == Matching(filter)'
            to == [k \in before |-> To(k)]
<1>1. /\ i \in 1 .. Len(table) /\ table' \in Seq(Row) /\ Len(table') = Len(table)
      /\ \A k \in 2 .. i : table'[k] = table[k - 1]
      /\ \A k \in i + 1 .. Len(table) : table'[k] = table[k]
  BY TouchPositions
<1>2. /\ Len(table) \in Nat /\ DOMAIN table = 1 .. Len(table)
      /\ DOMAIN table' = 1 .. Len(table)
  BY <1>1, TableShape DEF ApiInv
<1>3. /\ before = {k \in 1 .. Len(table) : filter \in {"ALL", table[k].status}}
      /\ after = {k \in 1 .. Len(table) : filter \in {"ALL", table'[k].status}}
  BY <1>2 DEF Matching
<1>4. filter # table[i].status
  OBVIOUS
<1>. HIDE DEF i, before, after
<1>5. /\ \A k \in 1 .. Len(table) : To(k) \in 1 .. Len(table)
      /\ \A k \in 1 .. Len(table) : k # i => table'[To(k)] = table[k]
      /\ \A k, m \in 1 .. Len(table) : To(k) = To(m) => k = m
  BY <1>1, <1>2
<1>. HIDE DEF To
<1>6. to \in Injection(before, after)
  <2>1. ASSUME NEW k \in before
        PROVE  To(k) \in after
    <3>1. CASE k = i
      BY <1>3, <1>4, <1>5, <3>1
    <3>2. CASE k # i
      BY <1>3, <1>5, <3>2
    <3>. QED
      BY <3>1, <3>2
  <2>2. \A k, m \in before : to[k] = to[m] => k = m
    BY <1>3, <1>5
  <2>. QED
    BY <2>1, <2>2 DEF Injection, IsInjective
<1>. HIDE DEF to
<1>7. IsFiniteSet(after)
  BY <1>1, MatchingFinite DEF after, Matching
<1>. QED
  BY <1>6, <1>7, FS_Injection DEF before, after

(* An INSERT takes none away.                                               *)
LEMMA InsertMatching ==
    ASSUME ApiInv, NEW c \in Posts, NEW key \in Keys, InsertJob(c, key), NEW filter
    PROVE  Cardinality(Matching(filter)) <= Cardinality(Matching(filter)')
<1>. DEFINE before == Matching(filter)
            after == Matching(filter)'
            to == [k \in before |-> k + 1]
<1>1. /\ Len(table) \in Nat /\ Len(table') = Len(table) + 1
      /\ \A i \in 1 .. Len(table) : table'[i + 1] = table[i]
      /\ DOMAIN table = 1 .. Len(table) /\ DOMAIN table' = 1 .. Len(table) + 1
  <2>1. /\ Len(table) \in Nat /\ DOMAIN table = 1 .. Len(table)
    BY TableShape DEF ApiInv
  <2>2. /\ table' \in Seq(Row) /\ Len(table') = Len(table) + 1
        /\ \A i \in 1 .. Len(table) : table'[i + 1] = table[i]
    BY InsertAddsRow
  <2>. QED
    BY <2>1, <2>2
<1>2. /\ before = {k \in 1 .. Len(table) : filter \in {"ALL", table[k].status}}
      /\ after = {k \in 1 .. Len(table) + 1 : filter \in {"ALL", table'[k].status}}
  BY <1>1 DEF Matching
<1>. HIDE DEF before, after
<1>3. /\ \A k \in 1 .. Len(table) : k + 1 \in 1 .. Len(table) + 1
      /\ \A k, m \in 1 .. Len(table) : k + 1 = m + 1 => k = m
  BY <1>1
<1>4. to \in Injection(before, after)
  <2>1. \A k \in before : k + 1 \in after
    BY <1>1, <1>2, <1>3
  <2>2. \A k, m \in before : to[k] = to[m] => k = m
    BY <1>2, <1>3
  <2>. QED
    BY <2>1, <2>2 DEF Injection, IsInjective
<1>. HIDE DEF to
<1>5. IsFiniteSet(after)
  <2>1. table' \in Seq(Row)
    BY InsertAddsRow
  <2>. QED
    BY <2>1, MatchingFinite DEF after, Matching
<1>. QED
  BY <1>4, <1>5, FS_Injection DEF before, after
=============================================================================
