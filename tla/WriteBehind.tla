----------------------------- MODULE WriteBehind -----------------------------
(***************************************************************************)
(* The mirror of MDM documents: every transaction that commits a document  *)
(* also commits a row of mdm_outbox, and WriteBehindWorker                 *)
(* (l1/mdm/layer_1_external/queue/WriteBehindWorker.ts) copies the rows to  *)
(* DynamoDB.  The server starts a round every WRITE_BEHIND_INTERVAL_MS      *)
(* without waiting for the round before (startServer.ts), in every process. *)
(*                                                                         *)
(* The producers are the abstract VersionedStore, which MdmRecords is shown  *)
(* to implement, and the tables of MirroredTables.  DynamoDB is external: a  *)
(* put replaces the item whatever its version, and may fail.                *)
(***************************************************************************)
EXTENDS Naturals, Sequences, FiniteSets

CONSTANTS
  Id,
  Round,        \* rounds of runOnce that may run at the same time
  Limit,        \* rows read by a round (50)
  MaxAttempts,  \* MAX_ATTEMPT_COUNT (100)
  ClockTies,    \* whether two commits may get the same createdAt
  MaxRows,      \* bound: outbox rows ever committed
  MaxFaults     \* bound: failed puts and deletes, and crashes

ASSUME ConstantsAssumption ==
  /\ Limit \in Nat \ {0} /\ MaxAttempts \in Nat \ {0}
  /\ ClockTies \in BOOLEAN
  /\ MaxRows \in Nat /\ MaxFaults \in Nat

VARIABLES
  version, enqueued,  \* the store: mdm_documents and all rows ever committed
  erased,             \* rows that delete the item (operation 'delete')
  outbox,             \* the rows of mdm_outbox: <<id, version or number of the row>>
  earlier,            \* earlier[r]: the rows with a smaller createdAt than r's
  attemptCount,       \* their attemptCount
  batch,              \* what a round still has to do: [row, attemptCount read]
  step,               \* where it is with the first of them
  remote,             \* external: the version of each DynamoDB item (0: none)
  faults,             \* faults so far (bounds the model)
  sent,               \* history: rows that reached DynamoDB
  disturbed           \* history: records with a failed row, a clock tie or two rounds

vars == <<version, enqueued, erased, outbox, earlier, attemptCount, batch, step,
          remote, faults, sent, disturbed>>

Store == INSTANCE VersionedStore

Rows == Id \X (1..MaxRows)

Init ==
  /\ Store!Init
  /\ erased = {}
  /\ outbox = {}
  /\ earlier = [row \in Rows |-> {}]
  /\ attemptCount = [row \in Rows |-> 0]
  /\ batch = [w \in Round |-> <<>>]
  /\ step = [w \in Round |-> "put"]
  /\ remote = [id \in Id |-> 0]
  /\ faults = 0
  /\ sent = {}
  /\ disturbed = {}

-----------------------------------------------------------------------------
(* The records                                                               *)

Newest == {row \in outbox : \A other \in outbox : row \notin earlier[other]}

\* Rows are committed: behind all that wait, or with the createdAt of the newest.
Enqueue(rows, lost) ==
  /\ outbox' = outbox \union rows
  /\ \E tied \in {{}} \union (IF ClockTies THEN {Newest} ELSE {}) :
       /\ earlier' = [row \in Rows |-> IF row \in rows THEN outbox \ tied ELSE earlier[row]]
       /\ disturbed' = disturbed \union lost \union {row[1] : row \in {r \in rows : \E t \in tied : t[1] = r[1]}}

\* One transaction writes the document and its outbox row.
Commit(id) ==
  /\ Cardinality(enqueued) < MaxRows
  /\ Store!Commit(id)
  /\ Enqueue({<<id, version[id] + 1>>}, {})
  /\ UNCHANGED <<erased, attemptCount, batch, step, remote, faults, sent>>

\* A physical delete leaves the outbox and the mirror alone.
Remove(id) ==
  /\ Store!Remove(id)
  /\ UNCHANGED <<erased, outbox, earlier, attemptCount, batch, step, remote, faults, sent, disturbed>>

-----------------------------------------------------------------------------
(* A round of the worker                                                     *)

NoOrder(a, b) == TRUE
NotLater(a, b) == b \notin earlier[a]

\* ORDER BY createdAt LIMIT n: with equal createdAt any of the rows, in any order.
FirstRows(n) ==
  {rows \in SUBSET outbox :
     /\ Cardinality(rows) = n
     /\ \A row \in rows, other \in outbox \ rows : NotLater(row, other)}

Sorted(rows) ==
  {q \in [1..Cardinality(rows) -> rows] :
     \A i, j \in DOMAIN q : i < j => q[i] # q[j] /\ NotLater(q[i], q[j])}

NeverFailed(row) == attemptCount[row] = 0
Eligible(row) == attemptCount[row] < MaxAttempts

Waiting(w) == {batch[w][i].row[1] : i \in DOMAIN batch[w]}

\* The rows that used up their attempts are dropped after the LIMIT.
Fetch(w) ==
  LET n == IF Cardinality(outbox) < Limit THEN Cardinality(outbox) ELSE Limit IN
  /\ batch[w] = <<>>
  /\ \E first \in FirstRows(n) :
       LET todo == {row \in first : Eligible(row)} IN
       /\ todo # {}
       /\ \E q \in Sorted(todo) :
            batch' = [batch EXCEPT ![w] =
                        [i \in DOMAIN q |-> [row |-> q[i], tries |-> attemptCount[q[i]]]]]
       /\ disturbed' = disturbed \union
            UNION {{row[1] : row \in todo} \intersect Waiting(v) : v \in Round \ {w}}
  /\ UNCHANGED <<version, enqueued, erased, outbox, earlier, attemptCount, step, remote, faults, sent>>

Current(w) == Head(batch[w]).row
At(w, s) == batch[w] # <<>> /\ step[w] = s

NextItem(w) ==
  /\ batch' = [batch EXCEPT ![w] = Tail(@)]
  /\ step' = [step EXCEPT ![w] = "put"]

Fault == faults < MaxFaults /\ faults' = faults + 1

Item(row) == IF row \in erased THEN 0 ELSE row[2]

Put(w) ==
  /\ At(w, "put")
  /\ remote' = [remote EXCEPT ![Current(w)[1]] = Item(Current(w))]
  /\ sent' = sent \union {Current(w)}
  /\ step' = [step EXCEPT ![w] = "delete"]
  /\ UNCHANGED <<version, enqueued, erased, outbox, earlier, attemptCount, batch, faults, disturbed>>

\* The put fails, or the transaction that deletes the row does.
Fails(w) ==
  /\ At(w, "put") \/ At(w, "delete")
  /\ Fault
  /\ disturbed' = disturbed \union {Current(w)[1]}
  /\ step' = [step EXCEPT ![w] = "failed"]
  /\ UNCHANGED <<version, enqueued, erased, outbox, earlier, attemptCount, batch, remote, sent>>

EitherWay(w) == At(w, "delete") \/ At(w, "failed")
Copied(w) == At(w, "delete")

LeaveOrder(row) == [other \in Rows |-> IF other = row THEN {} ELSE earlier[other] \ {row}]

DeleteRow(w) ==
  /\ Copied(w)
  /\ outbox' = outbox \ {Current(w)}
  /\ earlier' = LeaveOrder(Current(w))
  /\ attemptCount' = [attemptCount EXCEPT ![Current(w)] = 0]
  /\ NextItem(w)
  /\ UNCHANGED <<version, enqueued, erased, remote, faults, sent, disturbed>>

\* The new count is the one that was read plus one; the round goes on.
CountAttempt(w) ==
  /\ At(w, "failed")
  /\ attemptCount' = IF Current(w) \in outbox
       THEN [attemptCount EXCEPT ![Current(w)] = Head(batch[w]).tries + 1]
       ELSE attemptCount
  /\ NextItem(w)
  /\ UNCHANGED <<version, enqueued, erased, outbox, earlier, remote, faults, sent, disturbed>>

\* The process dies, or the transaction that counts the attempt fails.
Abort(w) ==
  /\ batch[w] # <<>>
  /\ Fault
  /\ batch' = [batch EXCEPT ![w] = <<>>]
  /\ step' = [step EXCEPT ![w] = "put"]
  /\ UNCHANGED <<version, enqueued, erased, outbox, earlier, attemptCount, remote, sent, disturbed>>

runOnce(w) == Fetch(w) \/ Put(w) \/ Fails(w) \/ DeleteRow(w) \/ CountAttempt(w)

Next ==
  \/ \E id \in Id : Commit(id) \/ Remove(id)
  \/ \E w \in Round : runOnce(w) \/ Abort(w)

\* The interval starts round after round, and a round that runs goes on.
Fairness == \A w \in Round : WF_vars(runOnce(w))

Spec == Init /\ [][Next]_vars /\ Fairness

-----------------------------------------------------------------------------
(* Properties                                                                *)

\* Every committed version is still in the outbox or has reached the mirror,
\* whichever put, delete or process failed in between.
NothingDropped == enqueued \subseteq outbox \union sent

Latest(id) == {row \in enqueued : row[1] = id /\ <<id, row[2] + 1>> \notin enqueued}

Quiet == outbox = {} /\ \A w \in Round : batch[w] = <<>>

\* Once the outbox is empty the mirror has the latest version of every record
\* whose rows met no failed put or delete, no clock tie and no second round at
\* work on the same rows; a round that dies half-way disturbs nothing.
MirrorIsCurrent ==
  Quiet => \A id \in Id \ disturbed : {Item(row) : row \in Latest(id)} \subseteq {remote[id]}

\* Rows that used up their attempts fill every batch.
Jammed == Cardinality({row \in outbox : attemptCount[row] >= MaxAttempts}) >= Limit

\* Every row leaves the outbox, unless it used up its own attempts or so many
\* others did that they fill the batch (for the rows of a number together, of
\* which every id has one).
OutboxDrains ==
  \A n \in 1..MaxRows :
    LET waiting == {row \in outbox : row[2] = n} IN
    waiting # {} ~> Jammed \/ \A row \in waiting : attemptCount[row] >= MaxAttempts
=============================================================================
