----------------------------- MODULE TableProofs -----------------------------
(***************************************************************************)
(* Proofs about the tables of the modules: the outbox, the worker that     *)
(* mirrors it and the tables that are restored from the mirror             *)
(* (MirroredTables), for any number of records, rounds and deletes, any    *)
(* batch size and any number of faults; then the publication of the        *)
(* tables' schemas (SchemaBootstrap), for any apps, modules and releases:  *)
(* what is recorded of a module is true of its tables, tables go only with *)
(* a change of their module, and a publication that ends well leaves its   *)
(* schema.  The two specifications share no variable and no theorem needs  *)
(* both.                                                                   *)
(***************************************************************************)
EXTENDS MirroredTables, SchemaBootstrap, FiniteSetTheorems, TLAPS

Deletion == [pc : {"idle", "delete", "commit"}, where : SUBSET Key,
             selected : SUBSET Key, gone : SUBSET Key]
Restore  == [pc : {"idle", "truncate", "load"}, items : [Key -> Nat], todo : SUBSET Key]

MirrorTypes ==
  /\ version \in [Id -> Nat]
  /\ enqueued \subseteq Rows /\ IsFiniteSet(enqueued)
  /\ erased \subseteq enqueued /\ outbox \subseteq enqueued /\ sent \subseteq enqueued
  /\ earlier \in [Rows -> SUBSET outbox]
  /\ attemptCount \in [Rows -> Nat]
  /\ batch \in [Round -> Seq([row : enqueued, tries : Nat])]
  /\ step \in [Round -> {"put", "delete", "failed"}]
  /\ remote \in [Id -> Nat]
  /\ disturbed \subseteq Id
  /\ deleting \in [Delete -> Deletion]
  /\ restoring \in Restore

\* The rows of a record are numbered without a gap, and a document has the
\* version of its last row.
Numbered ==
  /\ \A id \in Id : Number(id) \in Nat
  /\ \A id \in Id, n \in Nat : <<id, n>> \in enqueued <=> n \in 1..Number(id)
  /\ \A id \in Id \ Key : version[id] \in {0, Number(id)}

Sending ==
  /\ NothingDropped
  /\ \A w \in Round : At(w, "delete") => Current(w) \in sent

\* Failed rows are those of disturbed records.
Troubles ==
  /\ \A row \in Rows : attemptCount[row] > 0 => row[1] \in disturbed
  /\ \A w \in Round : At(w, "failed") => Current(w)[1] \in disturbed
  /\ \A w \in Round : batch[w] = <<>> => step[w] = "put"

OneOwner == \A w, v \in Round : w # v => Waiting(w) \intersect Waiting(v) \subseteq disturbed

Ordered ==
  \A id \in Id \ disturbed, m, n \in Nat :
    m < n /\ <<id, m>> \in outbox /\ <<id, n>> \in outbox
      => <<id, m>> \in earlier[<<id, n>>] /\ <<id, n>> \notin earlier[<<id, m>>]

RowAt(w, i) == batch[w][i].row

\* A round has rows that wait, in the order of their numbers and from the first on.
InOrder(w, i) ==
  LET row == RowAt(w, i) IN
  /\ row \in outbox
  /\ \A j \in DOMAIN batch[w] : i < j /\ RowAt(w, j)[1] = row[1] => row[2] < RowAt(w, j)[2]
  /\ \A m \in Nat : m < row[2] /\ <<row[1], m>> \in outbox =>
       \E j \in DOMAIN batch[w] : j < i /\ RowAt(w, j) = <<row[1], m>>

Batches ==
  \A w \in Round : \A i \in DOMAIN batch[w] : RowAt(w, i)[1] \notin disturbed => InOrder(w, i)

ItemAt(id, n) == IF n = 0 THEN 0 ELSE Item(<<id, n>>)

\* The rows from a on wait, and the mirror has what the row before a says, or a's.
CopiedTo(id, a) ==
  /\ \A n \in Nat : <<id, n>> \in outbox <=> n \in a..Number(id)
  /\ \/ remote[id] = ItemAt(id, a - 1)
     \/ a <= Number(id) /\ remote[id] = ItemAt(id, a)

Mirror ==
  /\ \A id \in Id \ disturbed : \E a \in 1..(Number(id) + 1) : CopiedTo(id, a)
  /\ \A w \in Round : At(w, "delete") /\ Current(w)[1] \notin disturbed
                        => remote[Current(w)[1]] = Item(Current(w))

Loading(k) == restoring.pc = "load" /\ k \in restoring.todo

Restored ==
  /\ restoring.pc # "load" => restoring.todo = {}
  /\ \A k \in Key \ disturbed : Loading(k) \/ version[k] = Intended(k)

Order == Troubles /\ OneOwner /\ Ordered /\ Batches /\ Mirror
MirrorInv == MirrorTypes /\ Numbered /\ Sending /\ Order /\ Restored

USE ConstantsAssumption, KeyAssumption

-----------------------------------------------------------------------------
(* What the operators say                                                    *)

LEMMA NumberIsCardinal ==
  ASSUME MirrorTypes, NEW id
  PROVE  Number(id) \in Nat
<1> DEFINE own == {row \in enqueued : row[1] = id}
<1>1. IsFiniteSet(own)
  BY FS_Subset DEF MirrorTypes
<1> QED
  BY <1>1, FS_CardinalityType DEF Number

LEMMA RowParts ==
  ASSUME NEW row \in Rows
  PROVE  row = <<row[1], row[2]>> /\ row[1] \in Id /\ row[2] \in 1..MaxRows
  BY DEF Rows

LEMMA SeqElement ==
  ASSUME NEW S, NEW s \in Seq(S)
  PROVE  /\ \A i \in DOMAIN s : i \in Nat \ {0} /\ s[i] \in S
         /\ s # <<>> => 1 \in DOMAIN s /\ Head(s) = s[1]
  OBVIOUS

LEMMA SeqSubset ==
  ASSUME NEW S, NEW T, S \subseteq T, NEW s \in Seq(S)
  PROVE  s \in Seq(T)
<1>1. Len(s) \in Nat /\ s \in [1..Len(s) -> S]
  OBVIOUS
<1>2. s \in [1..Len(s) -> T]
  BY <1>1
<1> QED
  BY <1>1, <1>2

LEMMA SeqTail ==
  ASSUME NEW S, NEW s \in Seq(S), s # <<>>
  PROVE  /\ Tail(s) \in Seq(S)
         /\ \A i \in Nat \ {0} : i \in DOMAIN Tail(s) <=> i + 1 \in DOMAIN s
         /\ \A i \in DOMAIN Tail(s) : Tail(s)[i] = s[i + 1]
  OBVIOUS

LEMMA RowsOfBatch ==
  ASSUME MirrorTypes, NEW w \in Round
  PROVE  /\ \A i \in DOMAIN batch[w] :
              /\ i \in Nat \ {0} /\ RowAt(w, i) \in enqueued /\ batch[w][i].tries \in Nat
              /\ RowAt(w, i)[1] \in Id /\ RowAt(w, i)[1] \in Waiting(w)
         /\ batch[w] # <<>> => 1 \in DOMAIN batch[w] /\ Current(w) = RowAt(w, 1)
<1>1. batch[w] \in Seq([row : enqueued, tries : Nat])
  BY DEF MirrorTypes
<1>2. \A i \in DOMAIN batch[w] : i \in Nat \ {0} /\ batch[w][i] \in [row : enqueued, tries : Nat]
  BY <1>1, SeqElement
<1>3. \A i \in DOMAIN batch[w] : RowAt(w, i) \in enqueued /\ batch[w][i].tries \in Nat
  BY <1>2 DEF RowAt
<1>4. \A i \in DOMAIN batch[w] : RowAt(w, i)[1] \in Waiting(w)
  BY DEF RowAt, Waiting
<1>5. batch[w] # <<>> => 1 \in DOMAIN batch[w] /\ Current(w) = RowAt(w, 1)
  BY <1>1, SeqElement DEF Current, RowAt
<1>6. enqueued \subseteq Rows
  BY DEF MirrorTypes
<1> QED
  BY <1>2, <1>3, <1>4, <1>5, <1>6, RowParts

LEMMA HeadRow ==
  ASSUME MirrorTypes, NEW w \in Round, batch[w] # <<>>
  PROVE  /\ 1 \in DOMAIN batch[w] /\ Current(w) = RowAt(w, 1) /\ Current(w) \in enqueued
         /\ Current(w)[1] \in Id /\ Current(w)[1] \in Waiting(w)
  BY RowsOfBatch

\* The rest of a batch is what it was, one place further.
LEMMA RestOfBatch ==
  ASSUME MirrorTypes, NEW w \in Round, batch[w] # <<>>, NextItem(w)
  PROVE  /\ batch' \in [Round -> Seq([row : enqueued, tries : Nat])]
         /\ \A i \in Nat \ {0} : i \in DOMAIN batch'[w] <=> i + 1 \in DOMAIN batch[w]
         /\ \A i \in DOMAIN batch'[w] : i \in Nat \ {0} /\ batch'[w][i] = batch[w][i + 1]
         /\ \A v \in Round \ {w} : batch'[v] = batch[v] /\ step'[v] = step[v]
         /\ step'[w] = "put" /\ step' \in [Round -> {"put", "delete", "failed"}]
<1> DEFINE S == [row : enqueued, tries : Nat]
           t == Tail(batch[w])
<1>1. batch \in [Round -> Seq(S)] /\ step \in [Round -> {"put", "delete", "failed"}]
  BY DEF MirrorTypes
<1>2. batch' = [batch EXCEPT ![w] = t] /\ step' = [step EXCEPT ![w] = "put"]
  BY DEF NextItem
<1> HIDE DEF S
<1>3. batch[w] \in Seq(S)
  BY <1>1
<1>4. /\ t \in Seq(S)
      /\ \A i \in Nat \ {0} : i \in DOMAIN t <=> i + 1 \in DOMAIN batch[w]
      /\ \A i \in DOMAIN t : t[i] = batch[w][i + 1]
  BY <1>3, SeqTail
<1>5. \A i \in DOMAIN t : i \in Nat \ {0}
  BY <1>4, SeqElement
<1> HIDE DEF t
<1>6. batch' \in [Round -> Seq(S)] /\ batch'[w] = t
  BY <1>1, <1>2, <1>4
<1>7. /\ \A v \in Round \ {w} : batch'[v] = batch[v] /\ step'[v] = step[v]
      /\ step'[w] = "put" /\ step' \in [Round -> {"put", "delete", "failed"}]
  BY <1>1, <1>2
<1> QED
  BY <1>4, <1>5, <1>6, <1>7 DEF S

\* The next row of a record is new and the only one it gets in a step.
LEMMA FreshRow ==
  ASSUME MirrorTypes, Numbered, NEW id \in Id
  PROVE  NextRow(id) \notin enqueued /\ Number(id) \in Nat
  BY DEF Numbered, NextRow

LEMMA FirstWaits ==
  ASSUME MirrorTypes, Numbered, Batches, NEW w \in Round, batch[w] # <<>>,
         Current(w)[1] \notin disturbed,
         NEW a \in 1..(Number(Current(w)[1]) + 1), CopiedTo(Current(w)[1], a)
  PROVE  Current(w) = <<Current(w)[1], a>> /\ a \in 1..Number(Current(w)[1])
<1> DEFINE row == Current(w)
           id == row[1]
<1>1. 1 \in DOMAIN batch[w] /\ row = RowAt(w, 1) /\ row \in enqueued /\ id \in Id
  BY HeadRow
<1>2. \A j \in DOMAIN batch[w] : j \in Nat \ {0}
  BY RowsOfBatch
<1>3. row = <<id, row[2]>> /\ row[2] \in Nat
  <2>1. row \in Rows
    BY <1>1 DEF MirrorTypes
  <2> HIDE DEF row
  <2> QED
    BY <2>1, RowParts
<1>4. InOrder(w, 1)
  BY <1>1 DEF Batches
<1>5. row \in outbox /\ \A m \in Nat : m < row[2] => <<id, m>> \notin outbox
  BY <1>1, <1>2, <1>4 DEF InOrder
<1>6. Number(id) \in Nat
  BY <1>1 DEF Numbered
<1> HIDE DEF row
<1>7. row[2] \in a..Number(id)
  BY <1>3, <1>5 DEF CopiedTo, row
<1>8. <<id, a>> \in outbox
  BY <1>6, <1>7 DEF CopiedTo, row
<1>9. row[2] = a
  BY <1>3, <1>5, <1>6, <1>7, <1>8
<1> QED
  BY <1>3, <1>6, <1>7, <1>9 DEF row

-----------------------------------------------------------------------------
(* Rows are committed                                                        *)

\* A transaction commits the next row of each of the records ids.
Commits(ids, rows, lost) ==
  /\ ids \subseteq Id /\ IsFiniteSet(ids) /\ lost \subseteq Id
  /\ rows = {NextRow(id) : id \in ids}
  /\ enqueued' = enqueued \union rows /\ Cardinality(enqueued') <= MaxRows
  /\ erased \subseteq erased' /\ erased' \subseteq erased \union rows
  /\ Enqueue(rows, lost)
  /\ UNCHANGED worker

LEMMA NumbersGrow ==
  ASSUME MirrorTypes, Numbered, NEW ids, NEW rows, NEW lost, Commits(ids, rows, lost)
  PROVE  /\ IsFiniteSet(enqueued') /\ enqueued' \subseteq Rows /\ rows \intersect enqueued = {}
         /\ \A id \in Id : Number(id)' = IF id \in ids THEN Number(id) + 1 ELSE Number(id)
         /\ \A id \in Id, n \in Nat : <<id, n>> \in rows <=> id \in ids /\ n = Number(id) + 1
         /\ \A id \in Id, n \in Nat : <<id, n>> \in enqueued' <=> n \in 1..(Number(id)')
<1>1. ids \subseteq Id /\ rows = {NextRow(id) : id \in ids} /\ enqueued' = enqueued \union rows
  BY DEF Commits
<1>2. \A id \in Id : Number(id) \in Nat
  BY DEF Numbered
<1>3. \A id \in Id, n \in Nat : <<id, n>> \in rows <=> id \in ids /\ n = Number(id) + 1
  BY <1>1, <1>2 DEF NextRow
<1>4. \A id \in Id, n \in Nat : <<id, n>> \in enqueued <=> n \in 1..Number(id)
  BY DEF Numbered
<1>5. rows \intersect enqueued = {}
  BY <1>1, <1>2, <1>4 DEF NextRow
<1>6. IsFiniteSet(enqueued')
  <2> DEFINE f == [id \in ids |-> NextRow(id)]
  <2>1. f \in Surjection(ids, rows)
    BY <1>1 DEF Surjection
  <2>2. IsFiniteSet(ids) /\ IsFiniteSet(enqueued)
    BY DEF Commits, MirrorTypes
  <2>3. IsFiniteSet(rows)
    BY <2>1, <2>2, FS_Surjection
  <2> QED
    BY <1>1, <2>2, <2>3, FS_Union
<1>7. ASSUME NEW id \in Id
      PROVE  Number(id)' = IF id \in ids THEN Number(id) + 1 ELSE Number(id)
  <2> DEFINE old == {row \in enqueued : row[1] = id}
             new == {row \in enqueued' : row[1] = id}
  <2>1. IsFiniteSet(old) /\ Number(id) = Cardinality(old) /\ Number(id)' = Cardinality(new)
    BY FS_Subset DEF MirrorTypes, Number
  <2>2. CASE id \in ids
    <3>1. new = old \union {NextRow(id)} /\ NextRow(id) \notin old
      BY <1>1, <1>5, <2>2 DEF NextRow
    <3> QED
      BY <2>1, <2>2, <3>1, FS_AddElement
  <2>3. CASE id \notin ids
    <3>1. new = old
      BY <1>1, <2>3 DEF NextRow
    <3> QED
      BY <2>1, <2>3, <3>1
  <2> QED BY <2>2, <2>3
<1>8. ASSUME NEW id \in ids
      PROVE  NextRow(id) \in Rows
  <2> DEFINE new == {row \in enqueued' : row[1] = id}
  <2>1. Cardinality(new) = Number(id) + 1
    BY <1>1, <1>7 DEF Number
  <2>2. Cardinality(new) <= Cardinality(enqueued') /\ Cardinality(enqueued') \in Nat
    BY <1>6, FS_Subset, FS_CardinalityType
  <2>3. Cardinality(enqueued') <= MaxRows
    BY DEF Commits
  <2>4. Number(id) + 1 \in 1..MaxRows
    BY <1>1, <1>2, <2>1, <2>2, <2>3
  <2> QED
    BY <1>1, <2>4 DEF NextRow, Rows
<1>9. enqueued' \subseteq Rows
  BY <1>1, <1>8 DEF MirrorTypes
<1>10. ASSUME NEW id \in Id, NEW n \in Nat
       PROVE  <<id, n>> \in enqueued' <=> n \in 1..(Number(id)')
  <2>1. <<id, n>> \in enqueued' <=> <<id, n>> \in enqueued \/ <<id, n>> \in rows
    BY <1>1
  <2>2. <<id, n>> \in enqueued' <=> n \in 1..Number(id) \/ (id \in ids /\ n = Number(id) + 1)
    BY <1>3, <1>4, <2>1
  <2> QED
    BY <1>2, <1>7, <2>2
<1> QED
  BY <1>3, <1>5, <1>6, <1>7, <1>9, <1>10

LEMMA EnqueueTypes ==
  ASSUME MirrorTypes, Numbered, NEW ids, NEW rows, NEW lost, Commits(ids, rows, lost)
  PROVE  /\ erased' \subseteq enqueued' /\ outbox' \subseteq enqueued' /\ sent' \subseteq enqueued'
         /\ earlier' \in [Rows -> SUBSET outbox']
         /\ attemptCount' \in [Rows -> Nat] /\ step' \in [Round -> {"put", "delete", "failed"}]
         /\ batch' \in [Round -> Seq([row : enqueued', tries : Nat])]
         /\ remote' \in [Id -> Nat]
         /\ disturbed' \subseteq Id /\ disturbed \union lost \subseteq disturbed'
<1>1. /\ enqueued' = enqueued \union rows /\ outbox' = outbox \union rows
      /\ erased' \subseteq erased \union rows /\ lost \subseteq Id
      /\ UNCHANGED worker
  BY DEF Commits, Enqueue
<1>2. erased' \subseteq enqueued' /\ outbox' \subseteq enqueued' /\ sent' \subseteq enqueued'
  BY <1>1 DEF MirrorTypes, worker
<1>3. earlier' \in [Rows -> SUBSET outbox']
  BY <1>1 DEF MirrorTypes, Commits, Enqueue
<1>4. attemptCount' \in [Rows -> Nat] /\ step' \in [Round -> {"put", "delete", "failed"}]
      /\ remote' \in [Id -> Nat] /\ batch' = batch
  BY <1>1 DEF MirrorTypes, worker
<1>5. batch' \in [Round -> Seq([row : enqueued', tries : Nat])]
  <2>1. [row : enqueued, tries : Nat] \subseteq [row : enqueued', tries : Nat]
    BY <1>1
  <2>2. batch \in [Round -> Seq([row : enqueued, tries : Nat])]
    BY DEF MirrorTypes
  <2> DEFINE S == [row : enqueued, tries : Nat]
             T == [row : enqueued', tries : Nat]
  <2> HIDE DEF S, T
  <2>3. \A s \in Seq(S) : s \in Seq(T)
    BY <2>1, SeqSubset DEF S, T
  <2>4. batch' \in [Round -> Seq(T)]
    BY <1>4, <2>2, <2>3 DEF S
  <2> QED
    BY <2>4 DEF T
<1>6. enqueued' \subseteq Rows
  BY NumbersGrow
<1>7. disturbed' \subseteq Id /\ disturbed \union lost \subseteq disturbed'
  <2>1. \A row \in rows : row[1] \in Id
    BY <1>1, <1>6, RowParts
  <2> QED
    BY <1>1, <2>1 DEF MirrorTypes, Commits, Enqueue
<1> QED
  BY <1>2, <1>3, <1>4, <1>5, <1>7

\* The new rows are behind the rows of their records, and the others stay as they are.
LEMMA EnqueueOrdered ==
  ASSUME MirrorInv, NEW ids, NEW rows, NEW lost, Commits(ids, rows, lost)
  PROVE  Ordered'
<1> SUFFICES ASSUME NEW id \in Id, id \notin disturbed', NEW m \in Nat, NEW n \in Nat,
                    m < n, <<id, m>> \in outbox', <<id, n>> \in outbox'
             PROVE  <<id, m>> \in earlier'[<<id, n>>] /\ <<id, n>> \notin earlier'[<<id, m>>]
  BY DEF Ordered
<1>1. MirrorTypes /\ Numbered /\ Ordered
  BY DEF MirrorInv, Order
<1>2. outbox' = outbox \union rows /\ id \notin disturbed
  BY <1>1, EnqueueTypes DEF Commits, Enqueue
<1>3. PICK tied :
        /\ earlier' = [row \in Rows |-> IF row \in rows THEN outbox \ tied ELSE earlier[row]]
        /\ disturbed' = disturbed \union lost \union {row[1] : row \in {r \in rows : \E t \in tied : t[1] = r[1]}}
  BY DEF Commits, Enqueue
<1>4. <<id, m>> \in Rows /\ <<id, n>> \in Rows
  <2>1. outbox' \subseteq enqueued'
    BY <1>1, EnqueueTypes
  <2>2. enqueued' \subseteq Rows
    BY <1>1, NumbersGrow
  <2> QED
    BY <2>1, <2>2
<1>5. /\ rows \intersect enqueued = {} /\ Number(id) \in Nat
      /\ \A k \in Nat : <<id, k>> \in rows <=> id \in ids /\ k = Number(id) + 1
      /\ \A k \in Nat : <<id, k>> \in enqueued <=> k \in 1..Number(id)
  BY <1>1, NumbersGrow DEF Numbered
<1>6. outbox \subseteq enqueued /\ earlier \in [Rows -> SUBSET outbox]
  BY <1>1 DEF MirrorTypes
<1>7. n \in 1..(Number(id) + 1)
  <2>1. <<id, n>> \in enqueued \/ <<id, n>> \in rows
    BY <1>2, <1>6
  <2>2. n \in 1..Number(id) \/ n = Number(id) + 1
    BY <1>5, <2>1
  <2> QED
    BY <1>5, <2>2
<1>8. <<id, m>> \in outbox /\ <<id, m>> \notin rows
  BY <1>2, <1>5, <1>7
<1>9. CASE <<id, n>> \in rows
  <2>1. <<id, m>> \notin tied
    BY <1>3, <1>9
  <2>2. earlier'[<<id, n>>] = outbox \ tied /\ earlier'[<<id, m>>] \subseteq outbox
    BY <1>3, <1>4, <1>6, <1>8, <1>9
  <2> QED
    BY <1>5, <1>6, <1>8, <1>9, <2>1, <2>2
<1>10. CASE <<id, n>> \notin rows
  <2>1. <<id, n>> \in outbox
    BY <1>2, <1>10
  <2>2. earlier'[<<id, n>>] = earlier[<<id, n>>] /\ earlier'[<<id, m>>] = earlier[<<id, m>>]
    BY <1>3, <1>4, <1>8, <1>10
  <2> QED
    BY <1>1, <1>2, <1>8, <2>1, <2>2 DEF Ordered
<1> QED
  BY <1>9, <1>10

LEMMA EnqueueBatches ==
  ASSUME MirrorInv, NEW ids, NEW rows, NEW lost, Commits(ids, rows, lost)
  PROVE  Batches'
<1>1. MirrorTypes /\ Numbered /\ Batches
  BY DEF MirrorInv, Order
<1>2. outbox' = outbox \union rows /\ batch' = batch /\ disturbed \subseteq disturbed'
  BY <1>1, EnqueueTypes DEF Commits, Enqueue, worker
<1>3. ASSUME NEW w \in Round, NEW i \in DOMAIN batch[w], RowAt(w, i)[1] \notin disturbed'
      PROVE  InOrder(w, i)'
  <2> DEFINE row == RowAt(w, i)
             id  == row[1]
  <2>1. InOrder(w, i) /\ row \in enqueued /\ i \in Nat
    BY <1>1, <1>2, <1>3, RowsOfBatch DEF Batches
  <2>2. row = <<id, row[2]>> /\ id \in Id /\ row[2] \in Nat
    <3>1. row \in Rows
      BY <1>1, <2>1 DEF MirrorTypes
    <3> HIDE DEF row
    <3> QED
      BY <3>1, RowParts
  <2>3. row[2] \in 1..Number(id)
    <3>1. \A k \in Id, n \in Nat : <<k, n>> \in enqueued => n \in 1..Number(k)
      BY <1>1 DEF Numbered
    <3>2. <<id, row[2]>> \in enqueued
      BY <2>1, <2>2
    <3> HIDE DEF row
    <3> QED
      BY <2>2, <3>1, <3>2
  <2>4. ASSUME NEW m \in Nat, m < row[2], <<id, m>> \in outbox'
        PROVE  <<id, m>> \in outbox
    <3> HIDE DEF row
    <3>1. <<id, m>> \in rows => m = Number(id) + 1
      BY <1>1, <2>2, NumbersGrow
    <3>2. m # Number(id) + 1
      BY <1>1, <2>2, <2>3, <2>4, NumberIsCardinal
    <3> QED
      BY <1>2, <2>4, <3>1, <3>2
  <2> QED
    BY <1>2, <2>1, <2>4 DEF InOrder, RowAt
<1> QED
  BY <1>2, <1>3 DEF Batches, RowAt

LEMMA EnqueueItems ==
  ASSUME MirrorTypes, Numbered, NEW ids, NEW rows, NEW lost, Commits(ids, rows, lost)
  PROVE  /\ \A row \in enqueued : Item(row)' = Item(row)
         /\ \A id \in Id : \A n \in 0..Number(id) : ItemAt(id, n)' = ItemAt(id, n)
<1>1. erased \subseteq erased' /\ erased' \subseteq erased \union rows
  BY DEF Commits
<1>2. rows \intersect enqueued = {}
  BY NumbersGrow
<1>3. \A row \in enqueued : Item(row)' = Item(row)
  BY <1>1, <1>2 DEF Item
<1>4. ASSUME NEW id \in Id, NEW n \in 0..Number(id)
      PROVE  ItemAt(id, n)' = ItemAt(id, n)
  <2>1. n # 0 => <<id, n>> \in enqueued
    BY DEF Numbered
  <2> QED
    BY <1>3, <2>1 DEF ItemAt
<1> QED
  BY <1>3, <1>4

LEMMA EnqueueMirror ==
  ASSUME MirrorInv, NEW ids, NEW rows, NEW lost, Commits(ids, rows, lost)
  PROVE  Mirror'
<1>1. MirrorTypes /\ Numbered /\ Mirror
  BY DEF MirrorInv, Order
<1>2. /\ outbox' = outbox \union rows /\ batch' = batch /\ step' = step /\ remote' = remote
      /\ disturbed \subseteq disturbed'
  BY <1>1, EnqueueTypes DEF Commits, Enqueue, worker
<1>3. ASSUME NEW id \in Id, id \notin disturbed'
      PROVE  \E a \in 1..(Number(id)' + 1) : CopiedTo(id, a)'
  <2>1. PICK a \in 1..(Number(id) + 1) : CopiedTo(id, a)
    BY <1>1, <1>2, <1>3 DEF Mirror
  <2>2. /\ Number(id) \in Nat
        /\ Number(id)' = IF id \in ids THEN Number(id) + 1 ELSE Number(id)
        /\ \A n \in Nat : <<id, n>> \in rows <=> id \in ids /\ n = Number(id) + 1
    BY <1>1, NumbersGrow DEF Numbered
  <2>3. a \in 1..(Number(id)' + 1)
    BY <2>2
  <2>4. ASSUME NEW n \in Nat
        PROVE  <<id, n>> \in outbox' <=> n \in a..(Number(id)')
    <3>1. <<id, n>> \in outbox' <=> n \in a..Number(id) \/ (id \in ids /\ n = Number(id) + 1)
      BY <1>2, <2>1, <2>2 DEF CopiedTo
    <3> QED
      BY <2>2, <3>1
  <2>5. \/ remote'[id] = ItemAt(id, a - 1)'
        \/ a <= Number(id)' /\ remote'[id] = ItemAt(id, a)'
    <3>1. a - 1 \in 0..Number(id) /\ (a <= Number(id) => a \in 0..Number(id))
      BY <2>2
    <3>2. ItemAt(id, a - 1)' = ItemAt(id, a - 1)
      BY <1>1, <3>1, EnqueueItems
    <3>3. a <= Number(id) => ItemAt(id, a)' = ItemAt(id, a)
      BY <1>1, <3>1, EnqueueItems
    <3>4. a <= Number(id) => a <= Number(id)'
      BY <2>2
    <3> QED
      BY <1>2, <2>1, <3>2, <3>3, <3>4 DEF CopiedTo
  <2> QED
    BY <2>3, <2>4, <2>5 DEF CopiedTo
<1>4. ASSUME NEW w \in Round, At(w, "delete")', Current(w)'[1] \notin disturbed'
      PROVE  remote'[Current(w)'[1]] = Item(Current(w))'
  <2>1. At(w, "delete") /\ Current(w)' = Current(w) /\ Current(w) \in enqueued
    BY <1>1, <1>2, <1>4, HeadRow DEF At, Current
  <2>2. remote[Current(w)[1]] = Item(Current(w))
    BY <1>1, <1>2, <1>4, <2>1 DEF Mirror
  <2>3. Item(Current(w))' = Item(Current(w))
    <3>1. Item(Current(w))' = IF Current(w) \in erased' THEN 0 ELSE Current(w)[2]
      BY <2>1 DEF Item
    <3> QED
      BY <1>1, <2>1, <3>1, EnqueueItems DEF Item
  <2> QED
    BY <1>2, <2>1, <2>2, <2>3
<1> QED
  BY <1>3, <1>4 DEF Mirror

LEMMA EnqueueKeeps ==
  ASSUME MirrorInv, NEW ids, NEW rows, NEW lost, Commits(ids, rows, lost)
  PROVE  /\ Sending' /\ Order'
         /\ \A id \in Id : Number(id)' \in Nat
         /\ \A id \in Id, n \in Nat : <<id, n>> \in enqueued' <=> n \in 1..(Number(id)')
<1>1. MirrorTypes /\ Numbered /\ Sending /\ Troubles /\ OneOwner
  BY DEF MirrorInv, Order
<1>2. /\ outbox' = outbox \union rows /\ enqueued' = enqueued \union rows
      /\ disturbed \subseteq disturbed' /\ UNCHANGED worker
  BY <1>1, EnqueueTypes DEF Commits, Enqueue
<1>3. Sending'
  BY <1>1, <1>2 DEF Sending, NothingDropped, At, Current, worker
<1>4. Troubles'
  BY <1>1, <1>2 DEF Troubles, At, Current, worker
<1>5. OneOwner'
  BY <1>1, <1>2 DEF OneOwner, Waiting, worker
<1>6. Ordered' /\ Batches' /\ Mirror'
  BY EnqueueOrdered, EnqueueBatches, EnqueueMirror
<1>7. /\ \A id \in Id : Number(id)' \in Nat
      /\ \A id \in Id, n \in Nat : <<id, n>> \in enqueued' <=> n \in 1..(Number(id)')
  <2>1. \A id \in Id : Number(id) \in Nat
    BY <1>1 DEF Numbered
  <2> QED
    BY <1>1, <2>1, NumbersGrow
<1> QED
  BY <1>3, <1>4, <1>5, <1>6, <1>7 DEF Order

LEMMA EnqueueTypeOK ==
  ASSUME MirrorTypes, Numbered, NEW ids, NEW rows, NEW lost, Commits(ids, rows, lost),
         version' \in [Id -> Nat],
         deleting' \in [Delete -> Deletion], restoring' = restoring
  PROVE  MirrorTypes'
<1>1. IsFiniteSet(enqueued') /\ enqueued' \subseteq Rows
  BY NumbersGrow
<1>2. restoring' \in Restore
  BY DEF MirrorTypes
<1>3. /\ erased' \subseteq enqueued' /\ outbox' \subseteq enqueued' /\ sent' \subseteq enqueued'
      /\ earlier' \in [Rows -> SUBSET outbox']
      /\ attemptCount' \in [Rows -> Nat] /\ step' \in [Round -> {"put", "delete", "failed"}]
      /\ batch' \in [Round -> Seq([row : enqueued', tries : Nat])]
      /\ remote' \in [Id -> Nat] /\ disturbed' \subseteq Id
  BY EnqueueTypes
<1> QED
  BY <1>1, <1>2, <1>3 DEF MirrorTypes

\* One record at a time.
LEMMA CommitsOne ==
  ASSUME MirrorTypes, NEW id \in Id, Cardinality(enqueued) < MaxRows,
         enqueued' = enqueued \union {NextRow(id)}, Enqueue({NextRow(id)}, {}),
         UNCHANGED <<erased, worker>>
  PROVE  Commits({id}, {NextRow(id)}, {})
<1>1. IsFiniteSet(enqueued)
  BY DEF MirrorTypes
<1>2. Cardinality(enqueued') <= MaxRows
  <2>1. Cardinality(enqueued) \in Nat
    BY <1>1, FS_CardinalityType
  <2>2. Cardinality(enqueued') \in {Cardinality(enqueued), Cardinality(enqueued) + 1}
    BY <1>1, FS_AddElement
  <2> QED
    BY <2>1, <2>2
<1>3. IsFiniteSet({id})
  BY FS_Singleton
<1>4. {NextRow(id)} = {NextRow(k) : k \in {id}}
  OBVIOUS
<1> QED
  BY <1>2, <1>3, <1>4 DEF Commits

\* What the mirror is to have of a key changes with its rows only.
LEMMA IntendedKept ==
  ASSUME MirrorTypes, Numbered, NEW ids, NEW rows, NEW lost, Commits(ids, rows, lost)
  PROVE  \A k \in Key \ ids : Intended(k)' = Intended(k)
<1> SUFFICES ASSUME NEW k \in Key \ ids
             PROVE  Intended(k)' = Intended(k)
  OBVIOUS
<1>1. k \in Id /\ Number(k)' = Number(k) /\ Number(k) \in Nat
  BY NumbersGrow, NumberIsCardinal
<1>2. ItemAt(k, Number(k))' = ItemAt(k, Number(k))
  <2>1. \A n \in 0..Number(k) : ItemAt(k, n)' = ItemAt(k, n)
    BY <1>1, EnqueueItems
  <2> QED
    BY <1>1, <2>1 DEF ItemAt, Item
<1> QED
  BY <1>1, <1>2 DEF Intended, ItemAt

LEMMA CommitIInv ==
  ASSUME MirrorInv, NEW id \in Id \ Key, Commit(id), UNCHANGED tables
  PROVE  MirrorInv'
<1>1. MirrorTypes /\ Numbered /\ Restored
  BY DEF MirrorInv
<1>2. /\ version[id] = 0 => \A row \in enqueued : row[1] # id
      /\ version' = [version EXCEPT ![id] = version[id] + 1]
      /\ enqueued' = enqueued \union {<<id, version[id] + 1>>}
      /\ Enqueue({<<id, version[id] + 1>>}, {})
      /\ Cardinality(enqueued) < MaxRows
      /\ UNCHANGED <<erased, worker>>
  BY DEF Commit, Store!Commit, worker
<1>3. version \in [Id -> Nat] /\ Number(id) \in Nat /\ version[id] \in {0, Number(id)}
  BY <1>1 DEF MirrorTypes, Numbered
<1>4. version[id] = Number(id)
  <2>1. CASE version[id] = 0
    <3>1. 1 \in Nat /\ <<id, 1>> \notin enqueued
      BY <1>2, <2>1
    <3> QED
      BY <1>1, <1>3, <2>1, <3>1 DEF Numbered
  <2> QED
    BY <1>3, <2>1
<1>5. NextRow(id) = <<id, version[id] + 1>>
  BY <1>4 DEF NextRow
<1>6. Commits({id}, {NextRow(id)}, {})
  BY <1>1, <1>2, <1>5, CommitsOne
<1>7. /\ Sending' /\ Order'
      /\ \A j \in Id : Number(j)' \in Nat
      /\ \A j \in Id, n \in Nat : <<j, n>> \in enqueued' <=> n \in 1..(Number(j)')
  BY <1>6, EnqueueKeeps
<1>8. version' \in [Id -> Nat]
  BY <1>2, <1>3
<1>9. MirrorTypes'
  <2>1. deleting' \in [Delete -> Deletion]
    BY <1>1 DEF MirrorTypes, tables
  <2>2. restoring' = restoring
    BY DEF tables
  <2> QED
    BY <1>1, <1>6, <1>8, <2>1, <2>2, EnqueueTypeOK
<1>10. \A j \in Id : Number(j)' = IF j \in {id} THEN Number(j) + 1 ELSE Number(j)
  BY <1>1, <1>6, NumbersGrow
<1>11. Numbered'
  <2>1. \A j \in Id \ Key : version'[j] \in {0, Number(j)'}
    BY <1>1, <1>2, <1>3, <1>4, <1>10 DEF Numbered
  <2> QED
    BY <1>7, <2>1 DEF Numbered
<1>12. Restored'
  <2>1. \A k \in Key : version'[k] = version[k] /\ Intended(k)' = Intended(k)
    BY <1>1, <1>2, <1>3, <1>6, IntendedKept
  <2>2. disturbed \subseteq disturbed' /\ restoring' = restoring
    BY <1>1, <1>6, EnqueueTypes DEF tables
  <2> QED
    BY <1>1, <2>1, <2>2 DEF Restored, Loading
<1> QED
  BY <1>7, <1>9, <1>11, <1>12 DEF MirrorInv

LEMMA UpsertIInv ==
  ASSUME MirrorInv, NEW k \in Key, upsert(k)
  PROVE  MirrorInv'
<1>1. MirrorTypes /\ Numbered /\ Restored
  BY DEF MirrorInv
<1>2. /\ Cardinality(enqueued) < MaxRows
      /\ version' = [version EXCEPT ![k] = NextRow(k)[2]]
      /\ enqueued' = enqueued \union {NextRow(k)} /\ Enqueue({NextRow(k)}, {})
      /\ UNCHANGED <<erased, worker>> /\ UNCHANGED <<deleting, restoring>>
  BY DEF upsert, worker, tables
<1>3. k \in Id /\ version \in [Id -> Nat] /\ Number(k) \in Nat
  BY <1>1 DEF MirrorTypes, Numbered
<1>4. version' = [version EXCEPT ![k] = Number(k) + 1]
  BY <1>2 DEF NextRow
<1>5. Commits({k}, {NextRow(k)}, {})
  BY <1>1, <1>2, <1>3, CommitsOne
<1>6. /\ Sending' /\ Order'
      /\ \A j \in Id : Number(j)' \in Nat
      /\ \A j \in Id, n \in Nat : <<j, n>> \in enqueued' <=> n \in 1..(Number(j)')
  BY <1>5, EnqueueKeeps
<1>7. MirrorTypes'
  <2>1. version' \in [Id -> Nat] /\ deleting' \in [Delete -> Deletion] /\ restoring' = restoring
    BY <1>1, <1>2, <1>3, <1>4 DEF MirrorTypes
  <2> QED
    BY <1>1, <1>5, <2>1, EnqueueTypeOK
<1>8. \A j \in Id : Number(j)' = IF j \in {k} THEN Number(j) + 1 ELSE Number(j)
  BY <1>1, <1>5, NumbersGrow
<1>9. Numbered'
  <2>1. \A j \in Id \ Key : version'[j] \in {0, Number(j)'}
    BY <1>1, <1>3, <1>4, <1>8 DEF Numbered
  <2> QED
    BY <1>6, <2>1 DEF Numbered
<1>10. version'[k] = Intended(k)'
  <2>1. version'[k] = Number(k) + 1 /\ Number(k)' = Number(k) + 1
    BY <1>3, <1>4, <1>8
  <2>2. NextRow(k) \notin erased'
    <3>1. NextRow(k) \notin enqueued
      BY <1>1, <1>3, FreshRow
    <3> QED
      BY <1>1, <1>2, <3>1 DEF MirrorTypes
  <2>3. Item(<<k, Number(k)>>)' = Number(k) + 1
    BY <2>1, <2>2 DEF Item, NextRow
  <2> QED
    BY <1>3, <2>1, <2>3 DEF Intended
<1>11. Restored'
  <2>1. \A j \in Key \ {k} : version'[j] = version[j] /\ Intended(j)' = Intended(j)
    BY <1>1, <1>2, <1>3, <1>5, IntendedKept
  <2>2. disturbed \subseteq disturbed' /\ restoring' = restoring
    BY <1>1, <1>2, <1>5, EnqueueTypes
  <2> QED
    BY <1>1, <1>10, <2>1, <2>2 DEF Restored, Loading
<1> QED
  BY <1>6, <1>7, <1>9, <1>11 DEF MirrorInv

LEMMA CommitDeleteIInv ==
  ASSUME MirrorInv, NEW d \in Delete, CommitDelete(d)
  PROVE  MirrorInv'
<1> DEFINE selected == deleting[d].selected
           gone == deleting[d].gone
           rows == {NextRow(k) : k \in selected}
           lost == (selected \ gone) \union (gone \ selected)
<1>1. MirrorTypes /\ Numbered /\ Restored
  BY DEF MirrorInv
<1>2. /\ Cardinality(enqueued \union rows) <= MaxRows
      /\ version' = [k \in Id |-> IF k \in gone THEN 0 ELSE version[k]]
      /\ enqueued' = enqueued \union rows /\ erased' = erased \union rows
      /\ Enqueue(rows, lost)
      /\ deleting' = [deleting EXCEPT ![d] = NoDelete]
      /\ UNCHANGED worker /\ restoring' = restoring
  BY DEF CommitDelete, rowsToDelete, worker
<1>3. selected \subseteq Key /\ gone \subseteq Key
  <2>1. deleting[d] \in Deletion
    BY <1>1 DEF MirrorTypes
  <2> QED
    BY <2>1 DEF Deletion
<1> HIDE DEF selected, gone
<1>4. Commits(selected, rows, lost)
  <2>1. IsFiniteSet(selected)
    BY <1>3, FS_Subset
  <2> QED
    BY <1>2, <1>3, <2>1 DEF Commits
<1>5. version \in [Id -> Nat] /\ \A k \in Id : Number(k) \in Nat
  BY <1>1 DEF MirrorTypes, Numbered
<1> HIDE DEF rows, lost
<1>6. /\ Sending' /\ Order'
      /\ \A j \in Id : Number(j)' \in Nat
      /\ \A j \in Id, n \in Nat : <<j, n>> \in enqueued' <=> n \in 1..(Number(j)')
  BY <1>4, EnqueueKeeps
<1>7. MirrorTypes'
  <2>1. version' \in [Id -> Nat]
    BY <1>2, <1>5
  <2>2. deleting' \in [Delete -> Deletion]
    <3>1. NoDelete \in Deletion /\ deleting \in [Delete -> Deletion]
      BY <1>1 DEF NoDelete, Deletion, MirrorTypes
    <3> QED
      BY <1>2, <3>1
  <2> QED
    BY <1>1, <1>2, <1>4, <2>1, <2>2, EnqueueTypeOK
<1>8. \A j \in Id : Number(j)' = IF j \in selected THEN Number(j) + 1 ELSE Number(j)
  BY <1>1, <1>4, NumbersGrow
<1>9. Numbered'
  <2>1. \A j \in Id \ Key : version'[j] \in {0, Number(j)'}
    BY <1>1, <1>2, <1>3, <1>8 DEF Numbered
  <2> QED
    BY <1>6, <2>1 DEF Numbered
<1>10. disturbed \union lost \subseteq disturbed'
  BY <1>1, <1>4, EnqueueTypes
<1>11. ASSUME NEW k \in Key \ disturbed', ~Loading(k)
       PROVE  version'[k] = Intended(k)'
  <2>1. k \in Id /\ k \notin disturbed /\ (k \in selected <=> k \in gone)
    BY <1>10 DEF lost
  <2>2. CASE k \in gone
    <3>1. version'[k] = 0 /\ k \in selected
      BY <1>2, <2>1, <2>2
    <3>2. Number(k)' = Number(k) + 1
      BY <1>8, <2>1, <3>1
    <3>3. <<k, Number(k) + 1>> \in erased'
      BY <1>2, <3>1 DEF rows, NextRow
    <3>4. Item(<<k, Number(k)>>)' = 0
      BY <3>2, <3>3 DEF Item
    <3> QED
      BY <3>1, <3>4 DEF Intended
  <2>3. CASE k \notin gone
    <3>1. version'[k] = version[k] /\ Intended(k)' = Intended(k)
      BY <1>1, <1>2, <1>4, <2>1, <2>3, IntendedKept
    <3> QED
      BY <1>1, <1>11, <2>1, <3>1 DEF Restored
  <2> QED
    BY <2>2, <2>3
<1>12. Restored'
  <2>1. restoring'.pc # "load" => restoring'.todo = {}
    BY <1>1, <1>2 DEF Restored
  <2> QED
    BY <1>2, <1>11, <2>1 DEF Restored, Loading
<1> QED
  BY <1>6, <1>7, <1>9, <1>12 DEF MirrorInv

-----------------------------------------------------------------------------
(* Documents and tables change without the outbox                            *)

LEMMA RowsAndRoundsKept ==
  ASSUME MirrorInv, UNCHANGED <<enqueued, erased, outbox, earlier, attemptCount, batch, step, remote, sent>>,
         disturbed \subseteq disturbed'
  PROVE  /\ Sending' /\ Order'
         /\ \A k : Number(k)' = Number(k) /\ Intended(k)' = Intended(k)
<1>1. Numbered /\ Sending /\ Troubles /\ OneOwner /\ Ordered /\ Batches /\ Mirror
  BY DEF MirrorInv, Order
<1>2. ASSUME NEW k
      PROVE  Number(k)' = Number(k) /\ Intended(k)' = Intended(k)
  <2>1. Number(k)' = Number(k)
    BY DEF Number
  <2>2. Item(<<k, Number(k)>>)' = Item(<<k, Number(k)>>)
    BY <2>1 DEF Item
  <2> QED
    BY <2>1, <2>2 DEF Intended
<1>3. Sending' /\ Troubles'
  BY <1>1 DEF Sending, NothingDropped, Troubles, At, Current
<1>4. OneOwner' /\ Ordered'
  BY <1>1 DEF OneOwner, Waiting, Ordered
<1>5. Batches'
  <2>1. ASSUME NEW w \in Round, NEW i \in DOMAIN batch[w], InOrder(w, i)
        PROVE  InOrder(w, i)'
    BY <2>1 DEF InOrder, RowAt
  <2> QED
    BY <1>1, <2>1 DEF Batches, RowAt
<1>6. Mirror'
  <2>1. ASSUME NEW id \in Id, id \notin disturbed', NEW a, CopiedTo(id, a)
        PROVE  CopiedTo(id, a)'
    BY <1>2, <2>1 DEF CopiedTo, ItemAt, Item
  <2>2. \A id \in Id \ disturbed' : \E a \in 1..(Number(id)' + 1) : CopiedTo(id, a)'
    BY <1>1, <1>2, <2>1 DEF Mirror
  <2>3. \A w \in Round : At(w, "delete")' /\ Current(w)'[1] \notin disturbed'
                           => remote'[Current(w)'[1]] = Item(Current(w))'
    BY <1>1 DEF Mirror, At, Current, Item
  <2> QED
    BY <2>2, <2>3 DEF Mirror
<1> QED
  BY <1>2, <1>3, <1>4, <1>5, <1>6 DEF Order

\* The documents, the deletes and the restore: what has to be shown of them.
LEMMA TablesIInv ==
  ASSUME MirrorInv, UNCHANGED <<enqueued, erased, outbox, earlier, attemptCount, batch, step, remote, sent>>,
         disturbed \subseteq disturbed', disturbed' \subseteq Id,
         version' \in [Id -> Nat], deleting' \in [Delete -> Deletion], restoring' \in Restore,
         \A id \in Id \ Key : version'[id] \in {0, version[id]},
         Restored'
  PROVE  MirrorInv'
<1>1. MirrorTypes /\ Numbered
  BY DEF MirrorInv
<1>2. MirrorTypes'
  BY <1>1 DEF MirrorTypes
<1>3. \A k : Number(k)' = Number(k)
  BY RowsAndRoundsKept
<1>4. Numbered'
  BY <1>1, <1>3 DEF Numbered
<1> QED
  BY <1>2, <1>4, RowsAndRoundsKept DEF MirrorInv

LEMMA RemoveIInv ==
  ASSUME MirrorInv, NEW id \in Id \ Key, Remove(id), UNCHANGED tables
  PROVE  MirrorInv'
<1>1. MirrorTypes /\ Restored /\ version' = [version EXCEPT ![id] = 0]
      /\ UNCHANGED <<enqueued, erased, outbox, earlier, attemptCount, batch, step, remote, sent, disturbed,
                     deleting, restoring>>
  BY DEF MirrorInv, Remove, Store!Remove, tables
<1>2. version' \in [Id -> Nat] /\ \A j \in Id : j # id => version'[j] = version[j]
  BY <1>1 DEF MirrorTypes
<1>3. deleting' \in [Delete -> Deletion] /\ restoring' \in Restore /\ disturbed' \subseteq Id
  BY <1>1 DEF MirrorTypes
<1>4. \A k \in Key : Intended(k)' = Intended(k)
  BY <1>1, RowsAndRoundsKept
<1>5. Restored'
  BY <1>1, <1>2, <1>4 DEF Restored, Loading
<1>6. \A j \in Id \ Key : version'[j] \in {0, version[j]}
  BY <1>1, <1>2 DEF MirrorTypes
<1> QED
  BY <1>1, <1>2, <1>3, <1>5, <1>6, TablesIInv

\* A delete under way, the scan and the end of a restore change no row.
LEMMA BesideTablesIInv ==
  ASSUME MirrorInv, UNCHANGED vars,
         \/ \E d \in Delete : SelectRows(d) \/ DeleteRows(d) \/ Rollback(d)
         \/ scanAllDynamoItems \/ RestoreDone
  PROVE  MirrorInv'
<1>1. MirrorTypes /\ Restored
  BY DEF MirrorInv
<1>2. UNCHANGED <<enqueued, erased, outbox, earlier, attemptCount, batch, step, remote, sent>>
      /\ disturbed' = disturbed /\ version' = version
  BY DEF vars
<1>3. \A k \in Key : Intended(k)' = Intended(k)
  BY <1>2, RowsAndRoundsKept
<1>4. deleting \in [Delete -> Deletion] /\ restoring \in Restore /\ remote \in [Id -> Nat]
      /\ NoDelete \in Deletion /\ NoRestore \in Restore
  BY <1>1 DEF MirrorTypes, NoDelete, NoRestore, Deletion, Restore
<1>5. deleting' \in [Delete -> Deletion]
  <2>1. CASE \E d \in Delete : SelectRows(d) \/ DeleteRows(d) \/ Rollback(d)
    <3>1. PICK d \in Delete : SelectRows(d) \/ DeleteRows(d) \/ Rollback(d)
      BY <2>1
    <3>2. deleting[d] \in Deletion
      BY <1>4
    <3>3. CASE SelectRows(d)
      BY <1>4, <3>3 DEF SelectRows, Deletion
    <3>4. CASE DeleteRows(d)
      <4> DEFINE gone == {k \in deleting[d].where : Stored(k)}
      <4>1. gone \subseteq Key /\ deleting' = [deleting EXCEPT ![d] = [@ EXCEPT !.pc = "commit", !.gone = gone]]
        BY <1>4, <3>2, <3>4 DEF DeleteRows, Deletion
      <4> HIDE DEF gone
      <4>2. [deleting[d] EXCEPT !.pc = "commit", !.gone = gone] \in Deletion
        BY <3>2, <4>1 DEF Deletion
      <4> QED
        BY <1>4, <4>1, <4>2
    <3>5. CASE Rollback(d)
      BY <1>4, <3>5 DEF Rollback
    <3> QED
      BY <3>1, <3>3, <3>4, <3>5
  <2>2. CASE scanAllDynamoItems \/ RestoreDone
    BY <1>4, <2>2 DEF scanAllDynamoItems, RestoreDone
  <2> QED
    BY <2>1, <2>2
<1>6. restoring' \in Restore /\ Restored'
  <2>1. CASE restoring' = restoring
    BY <1>1, <1>2, <1>3, <1>4, <2>1 DEF Restored, Loading
  <2>2. CASE scanAllDynamoItems
    <3>1. restoring' \in Restore /\ restoring.pc = "idle" /\ restoring'.pc = "truncate" /\ restoring'.todo = {}
      BY <1>4, <2>2 DEF scanAllDynamoItems, Restore
    <3> QED
      BY <1>1, <1>2, <1>3, <3>1 DEF Restored, Loading
  <2>3. CASE RestoreDone
    <3>1. restoring' = NoRestore /\ restoring.todo = {}
      BY <2>3 DEF RestoreDone
    <3>2. restoring'.todo = {} /\ restoring'.pc # "load"
      BY <3>1 DEF NoRestore
    <3> QED
      BY <1>1, <1>2, <1>3, <1>4, <3>1, <3>2 DEF Restored, Loading
  <2> QED
    BY <2>1, <2>2, <2>3 DEF SelectRows, DeleteRows, Rollback
<1>7. version' \in [Id -> Nat] /\ disturbed' \subseteq Id
  BY <1>1, <1>2 DEF MirrorTypes
<1>8. \A id \in Id \ Key : version'[id] \in {0, version[id]}
  BY <1>2
<1> QED
  BY <1>2, <1>5, <1>6, <1>7, <1>8, TablesIInv

\* The restore empties and fills the table; what it brings that the mirror was not
\* to have, or does not bring, is disturbed.
LEMMA RestoreIInv ==
  ASSUME MirrorInv,
         Truncate \/ RestoreCrash \/ \E k \in Key : upsertLocalRecord(k)
  PROVE  MirrorInv'
<1>1. MirrorTypes /\ Restored
  BY DEF MirrorInv
<1>2. version \in [Id -> Nat] /\ disturbed \subseteq Id /\ deleting \in [Delete -> Deletion]
      /\ restoring \in Restore /\ NoRestore \in Restore
  BY <1>1 DEF MirrorTypes, NoRestore, Restore
<1>3. /\ restoring.items \in [Key -> Nat] /\ restoring.todo \subseteq Key
      /\ restoring = [pc |-> restoring.pc, items |-> restoring.items, todo |-> restoring.todo]
  BY <1>2 DEF Restore
<1>4. /\ UNCHANGED <<enqueued, erased, outbox, earlier, attemptCount, batch, step, remote, sent>>
      /\ deleting' = deleting /\ disturbed \subseteq disturbed'
  BY DEF Truncate, RestoreCrash, upsertLocalRecord, worker
<1>5. \A k \in Key : Intended(k)' = Intended(k)
  BY <1>4, RowsAndRoundsKept
<1>6. CASE Truncate
  <2> DEFINE items == restoring.items
             todo  == {k \in Key : items[k] # 0}
  <2>1. /\ version' = [k \in Id |-> IF k \in Key THEN 0 ELSE version[k]]
        /\ restoring' = [restoring EXCEPT !.pc = "load", !.todo = todo]
        /\ disturbed' = disturbed \union {k \in Key : Intended(k) # items[k]}
    BY <1>6 DEF Truncate
  <2>2. todo \subseteq Key
    OBVIOUS
  <2> HIDE DEF items, todo
  <2>3. restoring' \in Restore /\ restoring'.pc = "load" /\ restoring'.todo = todo
    BY <1>2, <2>1, <2>2 DEF Restore
  <2>4. version' \in [Id -> Nat] /\ disturbed' \subseteq Id
        /\ \A id \in Id \ Key : version'[id] \in {0, version[id]}
    BY <1>2, <2>1
  <2>5. Restored'
    <3>1. ASSUME NEW k \in Key, k \notin disturbed', k \notin todo
          PROVE  version'[k] = Intended(k)'
      <4>1. items[k] = 0 /\ Intended(k) = items[k] /\ version'[k] = 0
        BY <2>1, <3>1 DEF todo
      <4> QED
        BY <1>5, <4>1
    <3> QED
      BY <2>3, <3>1 DEF Restored, Loading
  <2> QED
    BY <1>2, <1>4, <2>3, <2>4, <2>5, TablesIInv
<1>7. CASE RestoreCrash
  <2>1. version' = version /\ restoring' = NoRestore /\ disturbed' = disturbed \union restoring.todo
    BY <1>7 DEF RestoreCrash
  <2>2. Restored'
    <3>1. restoring'.pc = "idle" /\ restoring'.todo = {}
      BY <2>1 DEF NoRestore
    <3> QED
      BY <1>1, <1>5, <2>1, <3>1 DEF Restored, Loading
  <2>3. disturbed' \subseteq Id /\ \A id \in Id \ Key : version'[id] \in {0, version[id]}
    BY <1>2, <1>3, <2>1
  <2> QED
    BY <1>2, <1>4, <2>1, <2>2, <2>3, TablesIInv
<1>8. ASSUME NEW k \in Key, upsertLocalRecord(k)
      PROVE  MirrorInv'
  <2> DEFINE item == restoring.items[k]
             rest == restoring.todo \ {k}
  <2>1. /\ version' = [version EXCEPT ![k] = item]
        /\ restoring' = [restoring EXCEPT !.todo = rest]
        /\ disturbed' = disturbed \union {j \in {k} : Intended(j) # restoring.items[j]}
        /\ k \in restoring.todo
    BY <1>8 DEF upsertLocalRecord
  <2>2. item \in Nat /\ rest \subseteq Key /\ k \in Id
    BY <1>3
  <2>3. restoring.pc = "load"
    BY <1>1, <2>1 DEF Restored
  <2>4. restoring' \in Restore /\ restoring'.pc = "load" /\ restoring'.todo = rest
    <3> HIDE DEF rest
    <3> QED
      BY <1>2, <2>1, <2>2, <2>3 DEF Restore
  <2>5. version' \in [Id -> Nat] /\ disturbed' \subseteq Id
        /\ \A id \in Id \ Key : version'[id] \in {0, version[id]}
    BY <1>2, <2>1, <2>2
  <2>6. Restored'
    <3>1. k \notin disturbed' => version'[k] = Intended(k)'
      BY <1>2, <1>5, <2>1, <2>2
    <3>2. \A j \in Key \ {k} : version'[j] = version[j] /\ (j \in rest <=> j \in restoring.todo)
      BY <1>2, <2>1
    <3> HIDE DEF rest
    <3> QED
      BY <1>1, <1>4, <1>5, <2>3, <2>4, <3>1, <3>2 DEF Restored, Loading
  <2> QED
    BY <1>2, <1>4, <2>4, <2>5, <2>6, TablesIInv
<1> QED
  BY <1>6, <1>7, <1>8

-----------------------------------------------------------------------------
(* A round of the worker                                                     *)

RoundsTyped ==
  /\ outbox \subseteq enqueued /\ sent \subseteq enqueued
  /\ earlier \in [Rows -> SUBSET outbox]
  /\ attemptCount \in [Rows -> Nat]
  /\ batch \in [Round -> Seq([row : enqueued, tries : Nat])]
  /\ step \in [Round -> {"put", "delete", "failed"}]
  /\ remote \in [Id -> Nat]
  /\ disturbed \subseteq Id

\* A round leaves the records and the tables alone.
LEMMA RoundIInv ==
  ASSUME MirrorInv, UNCHANGED <<version, enqueued, erased, deleting, restoring>>,
         disturbed \subseteq disturbed', RoundsTyped', Sending', Order'
  PROVE  MirrorInv'
<1>1. MirrorTypes /\ Numbered /\ Restored
  BY DEF MirrorInv
<1>2. MirrorTypes'
  BY <1>1 DEF MirrorTypes, RoundsTyped
<1>3. ASSUME NEW k
      PROVE  Number(k)' = Number(k) /\ Intended(k)' = Intended(k)
  <2>1. Number(k)' = Number(k)
    BY DEF Number
  <2>2. Item(<<k, Number(k)>>)' = Item(<<k, Number(k)>>)
    BY <2>1 DEF Item
  <2> QED
    BY <2>1, <2>2 DEF Intended
<1>4. Numbered' /\ Restored'
  BY <1>1, <1>3 DEF Numbered, Restored, Loading
<1> QED
  BY <1>2, <1>4 DEF MirrorInv

LEMMA CopiedToKept ==
  ASSUME NEW id, NEW a, CopiedTo(id, a), UNCHANGED <<enqueued, erased>>,
         remote'[id] = remote[id], \A n \in Nat : <<id, n>> \in outbox' <=> <<id, n>> \in outbox
  PROVE  CopiedTo(id, a)'
<1>1. Number(id)' = Number(id)
  BY DEF Number
<1> QED
  BY <1>1 DEF CopiedTo, ItemAt, Item

\* When neither the outbox nor the mirror changes, a record is copied as far as before.
LEMMA MirrorKept ==
  ASSUME Mirror, UNCHANGED <<enqueued, erased, outbox, remote>>, disturbed \subseteq disturbed'
  PROVE  \A id \in Id \ disturbed' : \E a \in 1..(Number(id)' + 1) : CopiedTo(id, a)'
<1> SUFFICES ASSUME NEW id \in Id \ disturbed'
             PROVE  \E a \in 1..(Number(id)' + 1) : CopiedTo(id, a)'
  OBVIOUS
<1>1. PICK a \in 1..(Number(id) + 1) : CopiedTo(id, a)
  BY DEF Mirror
<1>2. Number(id)' = Number(id)
  BY DEF Number
<1> QED
  BY <1>1, <1>2, CopiedToKept

LEMMA PutIInv ==
  ASSUME MirrorInv, NEW w \in Round, Put(w), UNCHANGED tables
  PROVE  MirrorInv'
<1> DEFINE row == Current(w)
           id  == row[1]
<1>1. MirrorTypes /\ Numbered /\ Sending /\ Troubles /\ OneOwner /\ Ordered /\ Batches /\ Mirror
  BY DEF MirrorInv, Order
<1>2. /\ At(w, "put") /\ batch[w] # <<>>
      /\ remote' = [remote EXCEPT ![id] = Item(row)]
      /\ sent' = sent \union {row}
      /\ step' = [step EXCEPT ![w] = "delete"]
      /\ UNCHANGED <<version, enqueued, erased, outbox, earlier, attemptCount, batch, disturbed,
                     deleting, restoring>>
  BY DEF Put, At, tables
<1>3. row \in enqueued /\ id \in Id /\ row[2] \in Nat /\ id \in Waiting(w)
  <2>1. row \in enqueued /\ row \in Rows /\ id \in Waiting(w)
    BY <1>1, <1>2, HeadRow DEF MirrorTypes
  <2> HIDE DEF row
  <2> QED
    BY <2>1, RowParts
<1>4. Item(row) \in Nat
  BY <1>3 DEF Item
<1>5. /\ remote'[id] = Item(row)
      /\ \A j \in Id \ {id} : remote'[j] = remote[j]
      /\ remote' \in [Id -> Nat]
  <2> HIDE DEF row
  <2> QED
    BY <1>1, <1>2, <1>3, <1>4 DEF MirrorTypes
<1>6. /\ step'[w] = "delete" /\ \A v \in Round \ {w} : step'[v] = step[v]
      /\ step' \in [Round -> {"put", "delete", "failed"}]
  BY <1>1, <1>2 DEF MirrorTypes
<1>7. RoundsTyped'
  BY <1>1, <1>2, <1>3, <1>5, <1>6 DEF MirrorTypes, RoundsTyped
<1>8. \A v \in Round : Current(v)' = Current(v)
  BY <1>2 DEF Current
<1> HIDE DEF row
<1>9. Sending'
  BY <1>1, <1>2, <1>6, <1>8 DEF Sending, NothingDropped, At, row
<1>10. Troubles'
  <2>1. \A v \in Round : At(v, "failed")' => At(v, "failed")
    BY <1>2, <1>6 DEF At
  <2>2. \A v \in Round : batch[v] = <<>> => step'[v] = "put"
    BY <1>1, <1>2, <1>6 DEF Troubles
  <2> QED
    BY <1>1, <1>2, <1>8, <2>1, <2>2 DEF Troubles
<1>11. OneOwner' /\ Ordered' 
  BY <1>1, <1>2 DEF OneOwner, Waiting, Ordered
<1>12. Batches'
  <2>1. ASSUME NEW v \in Round, NEW i \in DOMAIN batch[v], InOrder(v, i)
        PROVE  InOrder(v, i)'
    BY <1>2, <2>1 DEF InOrder, RowAt
  <2> QED
    BY <1>1, <1>2, <2>1 DEF Batches, RowAt
<1>13. Mirror'
  <2>1. ASSUME NEW j \in Id, j \notin disturbed
        PROVE  \E a \in 1..(Number(j)' + 1) : CopiedTo(j, a)'
    <3>1. PICK a \in 1..(Number(j) + 1) : CopiedTo(j, a)
      BY <1>1, <2>1 DEF Mirror
    <3>2. Number(j)' = Number(j)
      BY <1>2 DEF Number
    <3>3. CASE j # id
      BY <1>2, <1>5, <2>1, <3>1, <3>2, <3>3, CopiedToKept
    <3>4. CASE j = id
      <4>1. row = <<j, a>> /\ a \in 1..Number(j) /\ Number(j) \in Nat
        BY <1>1, <1>2, <2>1, <3>1, <3>4, FirstWaits DEF row, Numbered
      <4>2. remote'[j] = ItemAt(j, a)
        BY <1>5, <3>4, <4>1 DEF ItemAt
      <4>3. ItemAt(j, a)' = ItemAt(j, a)
        BY <1>2 DEF ItemAt, Item
      <4>4. a <= Number(j) /\ \A n \in Nat : <<j, n>> \in outbox' <=> n \in a..(Number(j)')
        BY <1>2, <3>1, <3>2, <4>1 DEF CopiedTo
      <4> QED
        BY <3>1, <3>2, <4>2, <4>3, <4>4 DEF CopiedTo
    <3> QED
      BY <3>3, <3>4
  <2>2. ASSUME NEW v \in Round, At(v, "delete")', Current(v)[1] \notin disturbed
        PROVE  remote'[Current(v)[1]] = Item(Current(v))
    <3>1. CASE v = w
      BY <1>5, <3>1 DEF row
    <3>2. CASE v # w
      <4>1. At(v, "delete") /\ batch[v] # <<>>
        BY <1>2, <1>6, <2>2, <3>2 DEF At
      <4>2. Current(v)[1] \in Id /\ Current(v)[1] \in Waiting(v)
        BY <1>1, <4>1, HeadRow
      <4>3. Current(v)[1] # id
        BY <1>1, <1>3, <2>2, <3>2, <4>2 DEF OneOwner
      <4> QED
        BY <1>1, <1>5, <2>2, <4>1, <4>2, <4>3 DEF Mirror
    <3> QED
      BY <3>1, <3>2
  <2>3. \A v \in Round : Item(Current(v))' = Item(Current(v))
    BY <1>2, <1>8 DEF Item
  <2> QED
    BY <1>2, <1>8, <2>1, <2>2, <2>3 DEF Mirror
<1>14. Order'
  BY <1>10, <1>11, <1>12, <1>13 DEF Order
<1> QED
  BY <1>2, <1>7, <1>9, <1>14, RoundIInv

LEMMA FailsIInv ==
  ASSUME MirrorInv, NEW w \in Round, Fails(w), UNCHANGED tables
  PROVE  MirrorInv'
<1>1. MirrorTypes /\ Numbered /\ Sending /\ Troubles /\ OneOwner /\ Ordered /\ Batches /\ Mirror
  BY DEF MirrorInv, Order
<1>2. /\ batch[w] # <<>>
      /\ disturbed' = disturbed \union {Current(w)[1]}
      /\ step' = [step EXCEPT ![w] = "failed"]
      /\ UNCHANGED <<version, enqueued, erased, outbox, earlier, attemptCount, batch, remote, sent,
                     deleting, restoring>>
  BY DEF Fails, At, tables
<1>3. /\ step'[w] = "failed" /\ \A v \in Round \ {w} : step'[v] = step[v]
      /\ step' \in [Round -> {"put", "delete", "failed"}]
      /\ Current(w)[1] \in Id
  BY <1>1, <1>2, HeadRow DEF MirrorTypes
<1>4. RoundsTyped'
  BY <1>1, <1>2, <1>3 DEF MirrorTypes, RoundsTyped
<1>5. \A v \in Round : Current(v)' = Current(v)
  BY <1>2 DEF Current
<1>6. \A v \in Round : At(v, "delete")' => At(v, "delete")
  BY <1>2, <1>3 DEF At
<1>7. Sending'
  BY <1>1, <1>2, <1>5, <1>6 DEF Sending, NothingDropped
<1>8. Troubles'
  <2>1. \A v \in Round : At(v, "failed")' => v = w \/ At(v, "failed")
    BY <1>2, <1>3 DEF At
  <2>2. \A v \in Round : batch[v] = <<>> => step'[v] = "put"
    BY <1>1, <1>2, <1>3 DEF Troubles
  <2> QED
    BY <1>1, <1>2, <1>5, <2>1, <2>2 DEF Troubles
<1>9. OneOwner' /\ Ordered'
  BY <1>1, <1>2 DEF OneOwner, Waiting, Ordered
<1>10. Batches'
  <2>1. ASSUME NEW v \in Round, NEW i \in DOMAIN batch[v], InOrder(v, i)
        PROVE  InOrder(v, i)'
    BY <1>2, <2>1 DEF InOrder, RowAt
  <2> QED
    BY <1>1, <1>2, <2>1 DEF Batches, RowAt
<1>11. Mirror'
  <2>1. \A id \in Id \ disturbed' : \E a \in 1..(Number(id)' + 1) : CopiedTo(id, a)'
    BY <1>1, <1>2, MirrorKept
  <2>2. \A v \in Round : Item(Current(v))' = Item(Current(v))
    BY <1>2, <1>5 DEF Item
  <2> QED
    BY <1>1, <1>2, <1>5, <1>6, <2>1, <2>2 DEF Mirror
<1>12. Order'
  BY <1>8, <1>9, <1>10, <1>11 DEF Order
<1> QED
  BY <1>2, <1>4, <1>7, <1>12, RoundIInv

LEMMA AbortIInv ==
  ASSUME MirrorInv, NEW w \in Round, Abort(w), UNCHANGED tables
  PROVE  MirrorInv'
<1>1. MirrorTypes /\ Numbered /\ Sending /\ Troubles /\ OneOwner /\ Ordered /\ Batches /\ Mirror
  BY DEF MirrorInv, Order
<1>2. /\ batch' = [batch EXCEPT ![w] = <<>>]
      /\ step' = [step EXCEPT ![w] = "put"]
      /\ UNCHANGED <<version, enqueued, erased, outbox, earlier, attemptCount, remote, sent, disturbed,
                     deleting, restoring>>
  BY DEF Abort, tables
<1>3. /\ step'[w] = "put" /\ \A v \in Round \ {w} : step'[v] = step[v]
      /\ step' \in [Round -> {"put", "delete", "failed"}]
      /\ batch'[w] = <<>> /\ \A v \in Round \ {w} : batch'[v] = batch[v]
  BY <1>1, <1>2 DEF MirrorTypes
<1>4. batch' \in [Round -> Seq([row : enqueued', tries : Nat])]
  <2> DEFINE S == [row : enqueued, tries : Nat]
  <2>1. batch \in [Round -> Seq(S)] /\ S' = S
    BY <1>1, <1>2 DEF MirrorTypes
  <2> HIDE DEF S
  <2>2. batch' \in [Round -> Seq(S)]
    BY <1>2, <2>1
  <2> QED
    BY <2>1, <2>2 DEF S
<1>5. RoundsTyped'
  BY <1>1, <1>2, <1>3, <1>4 DEF MirrorTypes, RoundsTyped
<1>6. \A v \in Round, s \in {"delete", "failed"} :
        At(v, s)' => v # w /\ At(v, s) /\ Current(v)' = Current(v)
  BY <1>3 DEF At, Current
<1>7. Sending'
  BY <1>1, <1>2, <1>6 DEF Sending, NothingDropped
<1>8. Troubles'
  <2>1. \A v \in Round : batch'[v] = <<>> => step'[v] = "put"
    BY <1>1, <1>3 DEF Troubles
  <2> QED
    BY <1>1, <1>2, <1>6, <2>1 DEF Troubles
<1>9. OneOwner'
  <2>1. Waiting(w)' = {} /\ \A v \in Round \ {w} : Waiting(v)' = Waiting(v)
    BY <1>3 DEF Waiting
  <2> QED
    BY <1>1, <1>2, <2>1 DEF OneOwner
<1>10. Ordered'
  BY <1>1, <1>2 DEF Ordered
<1>11. Batches'
  <2>1. ASSUME NEW v \in Round, NEW i \in DOMAIN batch'[v]
        PROVE  v # w /\ i \in DOMAIN batch[v] /\ RowAt(v, i)' = RowAt(v, i) /\ (InOrder(v, i) => InOrder(v, i)')
    <3>1. v # w /\ batch'[v] = batch[v]
      BY <1>3
    <3>2. i \in DOMAIN batch[v] /\ \A j : RowAt(v, j)' = RowAt(v, j)
      BY <3>1 DEF RowAt
    <3>3. InOrder(v, i) => InOrder(v, i)'
      BY <1>2, <3>1, <3>2 DEF InOrder
    <3> QED
      BY <3>1, <3>2, <3>3
  <2> QED
    BY <1>1, <1>2, <2>1 DEF Batches
<1>12. Mirror'
  <2>1. \A id \in Id \ disturbed' : \E a \in 1..(Number(id)' + 1) : CopiedTo(id, a)'
    BY <1>1, <1>2, MirrorKept
  <2>2. ASSUME NEW v \in Round, At(v, "delete")', Current(v)'[1] \notin disturbed'
        PROVE  remote'[Current(v)'[1]] = Item(Current(v))'
    <3>1. At(v, "delete") /\ Current(v)' = Current(v)
      BY <1>6, <2>2
    <3>2. Item(Current(v))' = Item(Current(v))
      BY <1>2, <3>1 DEF Item
    <3> QED
      BY <1>1, <1>2, <2>2, <3>1, <3>2 DEF Mirror
  <2> QED
    BY <2>1, <2>2 DEF Mirror
<1>13. Order'
  BY <1>8, <1>9, <1>10, <1>11, <1>12 DEF Order
<1> QED
  BY <1>2, <1>5, <1>7, <1>13, RoundIInv

\* A round goes on with the next of its rows; the other rounds do not notice.
LEMMA NextItemRounds ==
  ASSUME MirrorTypes, NEW w \in Round, batch[w] # <<>>, NextItem(w)
  PROVE  /\ \A v \in Round, s \in {"delete", "failed"} :
              At(v, s)' => v # w /\ At(v, s) /\ Current(v)' = Current(v)
         /\ \A v \in Round : Waiting(v)' \subseteq Waiting(v)
         /\ \A v \in Round : (batch[v] = <<>> => step[v] = "put")
              => (batch'[v] = <<>> => step'[v] = "put")
<1>1. /\ \A i \in Nat \ {0} : i \in DOMAIN batch'[w] <=> i + 1 \in DOMAIN batch[w]
      /\ \A i \in DOMAIN batch'[w] : i \in Nat \ {0} /\ batch'[w][i] = batch[w][i + 1]
      /\ \A v \in Round \ {w} : batch'[v] = batch[v] /\ step'[v] = step[v]
      /\ step'[w] = "put"
  BY RestOfBatch
<1>2. \A v \in Round, s \in {"delete", "failed"} :
        At(v, s)' => v # w /\ At(v, s) /\ Current(v)' = Current(v)
  BY <1>1 DEF At, Current
<1>3. Waiting(w)' \subseteq Waiting(w)
  <2>1. \A i \in DOMAIN batch'[w] :
          i + 1 \in DOMAIN batch[w] /\ batch'[w][i].row[1] = batch[w][i + 1].row[1]
    BY <1>1
  <2>2. \A i \in DOMAIN batch[w] : batch[w][i].row[1] \in Waiting(w)
    BY DEF Waiting
  <2>3. \A i \in DOMAIN batch'[w] : batch'[w][i].row[1] \in Waiting(w)
    BY <2>1, <2>2
  <2> QED
    BY <2>3 DEF Waiting
<1>4. ASSUME NEW v \in Round PROVE Waiting(v)' \subseteq Waiting(v)
  <2>1. CASE v = w
    BY <1>3, <2>1
  <2>2. CASE v # w
    <3>1. batch'[v] = batch[v]
      BY <1>1, <2>2
    <3> QED
      BY <3>1 DEF Waiting
  <2> QED
    BY <2>1, <2>2
<1> QED
  BY <1>1, <1>2, <1>4

\* The rest of a batch is in order when the outbox loses the first row at most, and
\* the other batches are when that row is not theirs.
LEMMA NextItemBatches ==
  ASSUME MirrorTypes, Batches, NEW w \in Round, batch[w] # <<>>, NextItem(w), UNCHANGED disturbed,
         outbox' = outbox \/ outbox' = outbox \ {Current(w)},
         \/ Current(w)[1] \in disturbed
         \/ Current(w) \notin outbox' /\ \A v \in Round \ {w} : Current(w)[1] \notin Waiting(v)
  PROVE  Batches'
<1>1. 1 \in DOMAIN batch[w] /\ Current(w) = RowAt(w, 1) /\ Current(w)[1] \in Waiting(w)
  BY HeadRow
<1>2. /\ \A i \in Nat \ {0} : i \in DOMAIN batch'[w] <=> i + 1 \in DOMAIN batch[w]
      /\ \A i \in DOMAIN batch'[w] : i \in Nat \ {0} /\ RowAt(w, i)' = RowAt(w, i + 1)
      /\ \A v \in Round \ {w} : batch'[v] = batch[v]
  <2>1. /\ \A i \in Nat \ {0} : i \in DOMAIN batch'[w] <=> i + 1 \in DOMAIN batch[w]
        /\ \A i \in DOMAIN batch'[w] : i \in Nat \ {0} /\ batch'[w][i] = batch[w][i + 1]
        /\ \A v \in Round \ {w} : batch'[v] = batch[v]
    BY RestOfBatch
  <2> QED
    BY <2>1 DEF RowAt
<1>3. ASSUME NEW i \in DOMAIN batch'[w], RowAt(w, i)'[1] \notin disturbed
      PROVE  InOrder(w, i)'
  <2> DEFINE row == RowAt(w, i + 1)
  <2>1. i \in Nat \ {0} /\ i + 1 \in DOMAIN batch[w] /\ RowAt(w, i)' = row
    BY <1>2
  <2>2. InOrder(w, i + 1)
    BY <1>3, <2>1 DEF Batches
  <2>3. row # Current(w)
    <3>1. CASE Current(w)[1] \in disturbed
      BY <1>3, <2>1, <3>1
    <3>2. CASE Current(w)[1] \notin disturbed
      <4>1. InOrder(w, 1)
        BY <1>1, <3>2 DEF Batches
      <4>2. row[1] = Current(w)[1] => Current(w)[2] < row[2]
        BY <1>1, <2>1, <4>1 DEF InOrder
      <4>3. Current(w)[2] \in Nat
        <5>1. Current(w) \in Rows
          BY HeadRow DEF MirrorTypes
        <5> QED
          BY <5>1, RowParts
      <4> QED
        BY <4>2, <4>3
    <3> QED
      BY <3>1, <3>2
  <2>4. row \in outbox'
    BY <2>2, <2>3 DEF InOrder
  <2>5. ASSUME NEW j \in DOMAIN batch'[w], i < j, RowAt(w, j)'[1] = row[1]
        PROVE  row[2] < RowAt(w, j)'[2]
    <3>1. j \in Nat /\ j + 1 \in DOMAIN batch[w] /\ RowAt(w, j)' = RowAt(w, j + 1) /\ i + 1 < j + 1
      BY <1>2, <2>1, <2>5
    <3> QED
      BY <2>2, <2>5, <3>1 DEF InOrder
  <2>6. ASSUME NEW m \in Nat, m < row[2], <<row[1], m>> \in outbox'
        PROVE  \E j \in DOMAIN batch'[w] : j < i /\ RowAt(w, j)' = <<row[1], m>>
    <3>1. PICK j \in DOMAIN batch[w] : j < i + 1 /\ RowAt(w, j) = <<row[1], m>>
      BY <2>2, <2>6 DEF InOrder
    <3>2. j \in Nat \ {0}
      BY RowsOfBatch
    <3>3. j # 1
      BY <1>1, <1>3, <2>1, <2>6, <3>1
    <3>4. PICK k \in Nat \ {0} : k + 1 = j /\ k < i
      <4>1. j - 1 \in Nat \ {0} /\ (j - 1) + 1 = j /\ j - 1 < i
        BY <2>1, <3>1, <3>2, <3>3
      <4> QED
        BY <4>1
    <3>5. k \in DOMAIN batch'[w] /\ RowAt(w, k)' = RowAt(w, j)
      BY <1>2, <3>4
    <3> QED
      BY <3>1, <3>4, <3>5
  <2> HIDE DEF row
  <2> QED
    BY <2>1, <2>4, <2>5, <2>6 DEF InOrder
<1>4. ASSUME NEW v \in Round \ {w}, NEW i \in DOMAIN batch'[v], RowAt(v, i)'[1] \notin disturbed
      PROVE  InOrder(v, i)'
  <2>1. batch'[v] = batch[v] /\ RowAt(v, i)' = RowAt(v, i)
    BY <1>2 DEF RowAt
  <2>2. InOrder(v, i) /\ RowAt(v, i)[1] \in Waiting(v)
    BY <1>4, <2>1, RowsOfBatch DEF Batches
  <2>3. RowAt(v, i)[1] # Current(w)[1] \/ Current(w)[1] \in disturbed
    BY <2>2
  <2>4. RowAt(v, i) \in outbox'
    BY <1>4, <2>1, <2>2, <2>3 DEF InOrder
  <2>5. \A j \in DOMAIN batch[v] : RowAt(v, j)' = RowAt(v, j)
    BY <2>1 DEF RowAt
  <2> QED
    BY <2>1, <2>2, <2>4, <2>5 DEF InOrder
<1> QED
  BY <1>3, <1>4 DEF Batches

LEMMA CountAttemptIInv ==
  ASSUME MirrorInv, NEW w \in Round, CountAttempt(w), UNCHANGED tables
  PROVE  MirrorInv'
<1>1. MirrorTypes /\ Numbered /\ Sending /\ Troubles /\ OneOwner /\ Ordered /\ Batches /\ Mirror
  BY DEF MirrorInv, Order
<1>2. /\ At(w, "failed") /\ batch[w] # <<>> /\ NextItem(w)
      /\ attemptCount' = IF Current(w) \in outbox
           THEN [attemptCount EXCEPT ![Current(w)] = Head(batch[w]).tries + 1]
           ELSE attemptCount
      /\ UNCHANGED <<version, enqueued, erased, outbox, earlier, remote, sent, disturbed,
                     deleting, restoring>>
  BY DEF CountAttempt, At, tables
<1>3. Current(w)[1] \in disturbed /\ Head(batch[w]).tries \in Nat
  <2>1. 1 \in DOMAIN batch[w] /\ batch[w][1].tries \in Nat
    BY <1>1, <1>2, RowsOfBatch
  <2>2. Head(batch[w]) = batch[w][1]
    <3>1. batch[w] \in Seq([row : enqueued, tries : Nat])
      BY <1>1 DEF MirrorTypes
    <3> QED
      BY <1>2, <3>1, SeqElement
  <2> QED
    BY <1>1, <1>2, <2>1, <2>2 DEF Troubles
<1>4. attemptCount' \in [Rows -> Nat]
  <2>1. attemptCount \in [Rows -> Nat] /\ Head(batch[w]).tries + 1 \in Nat
    BY <1>1, <1>3 DEF MirrorTypes
  <2> QED
    BY <1>2, <2>1
<1>5. RoundsTyped'
  <2>1. batch' \in [Round -> Seq([row : enqueued, tries : Nat])]
        /\ step' \in [Round -> {"put", "delete", "failed"}]
    BY <1>1, <1>2, RestOfBatch
  <2> QED
    BY <1>1, <1>2, <1>4, <2>1 DEF MirrorTypes, RoundsTyped
<1>6. /\ \A v \in Round, s \in {"delete", "failed"} :
           At(v, s)' => v # w /\ At(v, s) /\ Current(v)' = Current(v)
      /\ \A v \in Round : Waiting(v)' \subseteq Waiting(v)
      /\ \A v \in Round : (batch[v] = <<>> => step[v] = "put")
           => (batch'[v] = <<>> => step'[v] = "put")
  BY <1>1, <1>2, NextItemRounds
<1>7. Sending'
  BY <1>1, <1>2, <1>6 DEF Sending, NothingDropped
<1>8. Troubles'
  <2>1. \A row \in Rows : attemptCount'[row] > 0 => row[1] \in disturbed
    BY <1>1, <1>2, <1>3 DEF Troubles, MirrorTypes
  <2> QED
    BY <1>1, <1>2, <1>6, <2>1 DEF Troubles
<1>9. OneOwner' /\ Ordered'
  BY <1>1, <1>2, <1>6 DEF OneOwner, Ordered
<1>10. Batches'
  BY <1>1, <1>2, <1>3, NextItemBatches
<1>11. Mirror'
  <2>1. \A id \in Id \ disturbed' : \E a \in 1..(Number(id)' + 1) : CopiedTo(id, a)'
    BY <1>1, <1>2, MirrorKept
  <2>2. ASSUME NEW v \in Round, At(v, "delete")', Current(v)'[1] \notin disturbed'
        PROVE  remote'[Current(v)'[1]] = Item(Current(v))'
    <3>1. At(v, "delete") /\ Current(v)' = Current(v)
      BY <1>6, <2>2
    <3>2. Item(Current(v))' = Item(Current(v))
      BY <1>2, <3>1 DEF Item
    <3> QED
      BY <1>1, <1>2, <2>2, <3>1, <3>2 DEF Mirror
  <2> QED
    BY <2>1, <2>2 DEF Mirror
<1>12. Order'
  BY <1>8, <1>9, <1>10, <1>11 DEF Order
<1> QED
  BY <1>2, <1>5, <1>7, <1>12, RoundIInv

LEMMA DeleteRowIInv ==
  ASSUME MirrorInv, NEW w \in Round, DeleteRow(w), UNCHANGED tables
  PROVE  MirrorInv'
<1>1. MirrorTypes /\ Numbered /\ Sending /\ Troubles /\ OneOwner /\ Ordered /\ Batches /\ Mirror
  BY DEF MirrorInv, Order
<1>2. PICK row : row = Current(w)
  OBVIOUS
<1>3. /\ At(w, "delete") /\ batch[w] # <<>> /\ NextItem(w)
      /\ outbox' = outbox \ {row}
      /\ earlier' = [other \in Rows |-> IF other = row THEN {} ELSE earlier[other] \ {row}]
      /\ attemptCount' = [attemptCount EXCEPT ![row] = 0]
      /\ UNCHANGED <<version, enqueued, erased, remote, sent, disturbed, deleting, restoring>>
  BY <1>2 DEF DeleteRow, Copied, LeaveOrder, At, tables
<1>4. row \in enqueued /\ row[1] \in Id /\ row[1] \in Waiting(w) /\ row \in sent
  BY <1>1, <1>2, <1>3, HeadRow DEF Sending
<1>5. RoundsTyped'
  <2>1. /\ batch' \in [Round -> Seq([row : enqueued, tries : Nat])]
        /\ step' \in [Round -> {"put", "delete", "failed"}]
    BY <1>1, <1>3, RestOfBatch
  <2>2. earlier' \in [Rows -> SUBSET outbox'] /\ attemptCount' \in [Rows -> Nat]
    BY <1>1, <1>3 DEF MirrorTypes
  <2> QED
    BY <1>1, <1>3, <2>1, <2>2 DEF MirrorTypes, RoundsTyped
<1>6. /\ \A v \in Round, s \in {"delete", "failed"} :
           At(v, s)' => v # w /\ At(v, s) /\ Current(v)' = Current(v)
      /\ \A v \in Round : Waiting(v)' \subseteq Waiting(v)
      /\ \A v \in Round : (batch[v] = <<>> => step[v] = "put")
           => (batch'[v] = <<>> => step'[v] = "put")
  BY <1>1, <1>3, NextItemRounds
<1>7. Sending'
  BY <1>1, <1>3, <1>4, <1>6 DEF Sending, NothingDropped
<1>8. Troubles'
  <2>1. \A other \in Rows : attemptCount'[other] > 0 => attemptCount[other] > 0
    BY <1>1, <1>3 DEF MirrorTypes
  <2> QED
    BY <1>1, <1>3, <1>6, <2>1 DEF Troubles
<1>9. OneOwner'
  BY <1>1, <1>3, <1>6 DEF OneOwner
<1>10. Ordered'
  <2> SUFFICES ASSUME NEW id \in Id, id \notin disturbed', NEW m \in Nat, NEW n \in Nat,
                      m < n, <<id, m>> \in outbox', <<id, n>> \in outbox'
               PROVE  <<id, m>> \in earlier'[<<id, n>>] /\ <<id, n>> \notin earlier'[<<id, m>>]
    BY DEF Ordered
  <2>1. <<id, m>> \in outbox /\ <<id, n>> \in outbox /\ <<id, m>> # row /\ <<id, n>> # row
    BY <1>3
  <2>2. <<id, m>> \in Rows /\ <<id, n>> \in Rows
    BY <1>1, <2>1 DEF MirrorTypes
  <2>3. /\ earlier'[<<id, n>>] = earlier[<<id, n>>] \ {row}
        /\ earlier'[<<id, m>>] = earlier[<<id, m>>] \ {row}
    BY <1>3, <2>1, <2>2
  <2> QED
    BY <1>1, <1>3, <2>1, <2>3 DEF Ordered
<1>11. Batches'
  <2>1. row[1] \in disturbed \/ \A v \in Round \ {w} : row[1] \notin Waiting(v)
    BY <1>1, <1>4 DEF OneOwner
  <2>2. row \notin outbox'
    BY <1>3
  <2> QED
    BY <1>1, <1>2, <1>3, <2>1, <2>2, NextItemBatches
<1>12. Mirror'
  <2>1. ASSUME NEW id \in Id, id \notin disturbed
        PROVE  \E a \in 1..(Number(id)' + 1) : CopiedTo(id, a)'
    <3>1. PICK a \in 1..(Number(id) + 1) : CopiedTo(id, a)
      BY <1>1, <2>1 DEF Mirror
    <3>2. Number(id)' = Number(id) /\ Number(id) \in Nat
      BY <1>1, <1>3 DEF Number, Numbered
    <3>3. CASE row[1] # id
      BY <1>3, <3>1, <3>2, <3>3, CopiedToKept
    <3>4. CASE row[1] = id
      <4>1. row = <<id, a>> /\ a \in 1..Number(id)
        BY <1>1, <1>2, <1>3, <2>1, <3>1, <3>4, FirstWaits
      <4>2. a + 1 \in 1..(Number(id)' + 1)
        BY <3>2, <4>1
      <4>3. \A n \in Nat : <<id, n>> \in outbox' <=> n \in (a + 1)..(Number(id)')
        BY <1>3, <3>1, <3>2, <4>1 DEF CopiedTo
      <4>4. remote[id] = Item(row)
        BY <1>1, <1>2, <1>3, <2>1, <3>4 DEF Mirror
      <4>5. remote'[id] = ItemAt(id, (a + 1) - 1)'
        <5>1. (a + 1) - 1 = a /\ a # 0
          BY <3>2, <4>1
        <5>2. Item(<<id, a>>)' = Item(<<id, a>>)
          BY <1>3 DEF Item
        <5> QED
          BY <1>3, <4>1, <4>4, <5>1, <5>2 DEF ItemAt
      <4> QED
        BY <4>2, <4>3, <4>5 DEF CopiedTo
    <3> QED
      BY <3>3, <3>4
  <2>2. ASSUME NEW v \in Round, At(v, "delete")', Current(v)'[1] \notin disturbed'
        PROVE  remote'[Current(v)'[1]] = Item(Current(v))'
    <3>1. At(v, "delete") /\ Current(v)' = Current(v)
      BY <1>6, <2>2
    <3>2. Item(Current(v))' = Item(Current(v))
      BY <1>3, <3>1 DEF Item
    <3> QED
      BY <1>1, <1>3, <2>2, <3>1, <3>2 DEF Mirror
  <2> QED
    BY <1>3, <2>1, <2>2 DEF Mirror
<1>13. Order'
  BY <1>8, <1>9, <1>10, <1>11, <1>12 DEF Order
<1> QED
  BY <1>3, <1>5, <1>7, <1>13, RoundIInv

\* What a round reads: rows that wait, those of undisturbed records from the first
\* one on and in the order of their numbers.
LEMMA Fetched ==
  ASSUME MirrorTypes, Troubles, Ordered, NEW n, NEW first \in FirstRows(n),
         NEW todo, todo = {row \in first : Eligible(row)}, NEW q \in Sorted(todo)
  PROVE  /\ todo \subseteq outbox /\ q \in Seq(todo)
         /\ \A row \in todo : \E i \in DOMAIN q : q[i] = row
         /\ \A i, j \in DOMAIN q :
              i < j /\ q[i][1] = q[j][1] /\ q[i][1] \notin disturbed => q[i][2] < q[j][2]
         /\ \A row \in todo, other \in outbox :
              row[1] \notin disturbed /\ other[1] = row[1] /\ other[2] < row[2] => other \in todo
<1>1. todo \subseteq outbox /\ first \subseteq outbox /\ outbox \subseteq Rows
  BY DEF FirstRows, MirrorTypes
<1>2. IsFiniteSet(todo) /\ Cardinality(todo) \in Nat
  BY <1>1, FS_Subset, FS_CardinalityType DEF MirrorTypes
<1>3. /\ q \in [1..Cardinality(todo) -> todo]
      /\ \A i, j \in DOMAIN q : i < j => q[i] # q[j] /\ NotLater(q[i], q[j])
  BY DEF Sorted
<1>4. DOMAIN q = 1..Cardinality(todo) /\ q \in Seq(todo)
  BY <1>2, <1>3
<1>5. \A row \in todo : \E i \in DOMAIN q : q[i] = row
  <2> DEFINE S == 1..Cardinality(todo)
  <2>1. \A i, j \in S : q[i] = q[j] => i = j
    BY <1>2, <1>3, <1>4
  <2>2. q \in Injection(S, todo)
    BY <1>3, <2>1 DEF Injection, IsInjective
  <2>3. Cardinality(S) = Cardinality(todo)
    BY <1>2, FS_Interval
  <2>4. q \in Surjection(S, todo)
    BY <1>2, <2>2, <2>3, FS_Injection
  <2> QED
    BY <1>4, <2>4 DEF Surjection
<1>6. ASSUME NEW a \in outbox, NEW b \in outbox, a[1] = b[1], a[1] \notin disturbed, b[2] < a[2]
      PROVE  b \in earlier[a]
  <2>1. a = <<a[1], a[2]>> /\ b = <<a[1], b[2]>> /\ a[1] \in Id /\ a[2] \in Nat /\ b[2] \in Nat
    BY <1>1, <1>6, RowParts
  <2>2. \A id \in Id \ disturbed, m, k \in Nat :
          m < k /\ <<id, m>> \in outbox /\ <<id, k>> \in outbox => <<id, m>> \in earlier[<<id, k>>]
    BY DEF Ordered
  <2> QED
    BY <1>6, <2>1, <2>2
<1>7. ASSUME NEW i \in DOMAIN q, NEW j \in DOMAIN q,
             i < j, q[i][1] = q[j][1], q[i][1] \notin disturbed
      PROVE  q[i][2] < q[j][2]
  <2>1. q[i] \in outbox /\ q[j] \in outbox /\ q[i] # q[j] /\ q[j] \notin earlier[q[i]]
    BY <1>1, <1>3, <1>7 DEF NotLater
  <2>2. ~ q[j][2] < q[i][2]
    BY <1>6, <1>7, <2>1
  <2>3. /\ q[i] = <<q[i][1], q[i][2]>> /\ q[j] = <<q[j][1], q[j][2]>>
        /\ q[i][2] \in Nat /\ q[j][2] \in Nat
    BY <1>1, <2>1, RowParts
  <2>4. q[i][2] # q[j][2]
    BY <1>7, <2>1, <2>3
  <2> QED
    BY <2>2, <2>3, <2>4
<1>8. ASSUME NEW row \in todo, NEW other \in outbox,
             row[1] \notin disturbed, other[1] = row[1], other[2] < row[2]
      PROVE  other \in todo
  <2>1. other \in earlier[row]
    BY <1>1, <1>6, <1>8
  <2>2. other \in first
    BY <1>1, <2>1 DEF FirstRows, NotLater
  <2>3. attemptCount[other] = 0
    BY <1>1, <1>8 DEF MirrorTypes, Troubles
  <2> QED
    BY <2>2, <2>3 DEF Eligible
<1> QED
  BY <1>1, <1>4, <1>5, <1>7, <1>8

LEMMA FetchIInv ==
  ASSUME MirrorInv, NEW w \in Round, Fetch(w), UNCHANGED tables
  PROVE  MirrorInv'
<1>1. MirrorTypes /\ Numbered /\ Sending /\ Troubles /\ OneOwner /\ Ordered /\ Batches /\ Mirror
  BY DEF MirrorInv, Order
<1> DEFINE most == IF Cardinality(outbox) < Limit THEN Cardinality(outbox) ELSE Limit
<1>2. PICK first \in FirstRows(most) :
        LET todo == {row \in first : Eligible(row)} IN
        /\ todo # {}
        /\ \E q \in Sorted(todo) :
             batch' = [batch EXCEPT ![w] =
                         [i \in DOMAIN q |-> [row |-> q[i], tries |-> attemptCount[q[i]]]]]
        /\ disturbed' = disturbed \union
             UNION {{row[1] : row \in todo} \intersect Waiting(v) : v \in Round \ {w}}
  BY DEF Fetch
<1> DEFINE todo == {row \in first : Eligible(row)}
<1>3. PICK q \in Sorted(todo) :
        batch' = [batch EXCEPT ![w] =
                    [i \in DOMAIN q |-> [row |-> q[i], tries |-> attemptCount[q[i]]]]]
  BY <1>2
<1> DEFINE new == [i \in DOMAIN q |-> [row |-> q[i], tries |-> attemptCount[q[i]]]]
<1>4. /\ batch[w] = <<>> /\ todo # {}
      /\ disturbed' = disturbed \union
           UNION {{row[1] : row \in todo} \intersect Waiting(v) : v \in Round \ {w}}
      /\ UNCHANGED <<version, enqueued, erased, outbox, earlier, attemptCount, step, remote, sent,
                     deleting, restoring>>
  BY <1>2 DEF Fetch, tables
<1>5. /\ todo \subseteq outbox /\ q \in Seq(todo)
      /\ \A row \in todo : \E i \in DOMAIN q : q[i] = row
      /\ \A i, j \in DOMAIN q :
           i < j /\ q[i][1] = q[j][1] /\ q[i][1] \notin disturbed => q[i][2] < q[j][2]
      /\ \A row \in todo, other \in outbox :
           row[1] \notin disturbed /\ other[1] = row[1] /\ other[2] < row[2] => other \in todo
  BY <1>1, Fetched
<1> HIDE DEF todo, most
<1>6. /\ todo \subseteq enqueued /\ todo \subseteq Rows
      /\ \A i \in DOMAIN q : i \in Nat \ {0} /\ q[i] \in todo
  BY <1>1, <1>5, SeqElement DEF MirrorTypes
<1>7. new \in Seq([row : enqueued, tries : Nat])
  <2>1. \A i \in DOMAIN q : [row |-> q[i], tries |-> attemptCount[q[i]]] \in [row : enqueued, tries : Nat]
    BY <1>1, <1>6 DEF MirrorTypes
  <2>2. Len(q) \in Nat /\ DOMAIN q = 1..Len(q)
    BY <1>5
  <2> DEFINE S == [row : enqueued, tries : Nat]
  <2>3. new \in [1..Len(q) -> S]
    BY <2>1, <2>2
  <2> HIDE DEF new, S
  <2>4. new \in Seq(S)
    BY <2>2, <2>3
  <2> QED
    BY <2>4 DEF S
<1>8. DOMAIN new = DOMAIN q /\ \A i \in DOMAIN q : new[i].row = q[i]
  OBVIOUS
<1>9. new # <<>>
  <2>1. PICK row \in todo : TRUE
    BY <1>4
  <2> QED
    BY <1>5, <1>8, <2>1
<1> HIDE DEF new
<1>10. /\ batch' \in [Round -> Seq([row : enqueued, tries : Nat])]
       /\ batch'[w] = new /\ \A v \in Round \ {w} : batch'[v] = batch[v]
  <2> DEFINE S == [row : enqueued, tries : Nat]
  <2>1. batch \in [Round -> Seq(S)] /\ new \in Seq(S) /\ batch' = [batch EXCEPT ![w] = new]
    BY <1>1, <1>3, <1>7 DEF MirrorTypes, new
  <2> HIDE DEF S
  <2>2. batch' \in [Round -> Seq(S)] /\ batch'[w] = new /\ \A v \in Round \ {w} : batch'[v] = batch[v]
    BY <2>1
  <2> QED
    BY <2>2 DEF S
<1>11. disturbed \subseteq disturbed' /\ disturbed' \subseteq Id
  <2>1. \A row \in todo : row[1] \in Id
    BY <1>6, RowParts
  <2> QED
    BY <1>1, <1>4, <2>1 DEF MirrorTypes
<1>12. RoundsTyped'
  BY <1>1, <1>4, <1>10, <1>11 DEF MirrorTypes, RoundsTyped
<1>13. step[w] = "put"
  BY <1>1, <1>4 DEF Troubles
<1>14. \A v \in Round, s \in {"delete", "failed"} :
         At(v, s)' => v # w /\ At(v, s) /\ Current(v)' = Current(v)
  BY <1>4, <1>10, <1>13 DEF At, Current
<1>15. Sending'
  BY <1>1, <1>4, <1>14 DEF Sending, NothingDropped
<1>16. Troubles'
  <2>1. \A v \in Round : batch'[v] = <<>> => step'[v] = "put"
    BY <1>1, <1>4, <1>9, <1>10 DEF Troubles
  <2> QED
    BY <1>1, <1>4, <1>11, <1>14, <2>1 DEF Troubles
<1>17. OneOwner'
  <2>1. Waiting(w)' = {row[1] : row \in todo}
    <3>1. Waiting(w)' = {new[i].row[1] : i \in DOMAIN new}
      BY <1>10 DEF Waiting
    <3> QED
      BY <1>5, <1>6, <1>8, <3>1
  <2>2. \A v \in Round \ {w} : Waiting(v)' = Waiting(v)
    BY <1>10 DEF Waiting
  <2>3. \A v \in Round \ {w} : Waiting(w)' \intersect Waiting(v) \subseteq disturbed'
    BY <1>4, <2>1
  <2> QED
    BY <1>1, <1>11, <2>2, <2>3 DEF OneOwner
<1>18. Ordered'
  BY <1>1, <1>4, <1>11 DEF Ordered
<1>19. Batches'
  <2>1. ASSUME NEW i \in DOMAIN batch'[w], RowAt(w, i)'[1] \notin disturbed'
        PROVE  InOrder(w, i)'
    <3>1. \A j \in DOMAIN q : RowAt(w, j)' = q[j]
      BY <1>8, <1>10 DEF RowAt
    <3>2. DOMAIN batch'[w] = DOMAIN q /\ i \in DOMAIN q /\ q[i] \in outbox /\ q[i][1] \notin disturbed
      BY <1>5, <1>6, <1>8, <1>10, <1>11, <2>1, <3>1
    <3>3. \A j \in DOMAIN q : i < j /\ q[j][1] = q[i][1] => q[i][2] < q[j][2]
      BY <1>5, <3>2
    <3>4. ASSUME NEW m \in Nat, m < q[i][2], <<q[i][1], m>> \in outbox
          PROVE  \E j \in DOMAIN q : j < i /\ q[j] = <<q[i][1], m>>
      <4>1. <<q[i][1], m>> \in todo
        BY <1>5, <1>6, <3>2, <3>4
      <4>2. PICK j \in DOMAIN q : q[j] = <<q[i][1], m>>
        BY <1>5, <4>1
      <4>3. q[j][1] = q[i][1] /\ q[j][2] = m
        BY <4>2
      <4>4. q[i][2] \in Nat
        BY <1>6, <3>2, RowParts
      <4>5. i < j => q[i][2] < q[j][2]
        BY <3>3, <4>3
      <4>6. ~ i < j /\ i # j
        BY <3>4, <4>3, <4>4, <4>5
      <4>7. j < i
        BY <1>6, <3>2, <4>6
      <4> QED
        BY <4>2, <4>7
    <3> QED
      BY <1>4, <3>1, <3>2, <3>3, <3>4 DEF InOrder
  <2>2. ASSUME NEW v \in Round \ {w}, NEW i \in DOMAIN batch'[v], RowAt(v, i)'[1] \notin disturbed'
        PROVE  InOrder(v, i)'
    <3>1. batch'[v] = batch[v]
      BY <1>10
    <3>2. \A j \in DOMAIN batch[v] : RowAt(v, j)' = RowAt(v, j)
      BY <3>1 DEF RowAt
    <3>3. InOrder(v, i)
      BY <1>1, <1>11, <2>2, <3>1, <3>2 DEF Batches
    <3> QED
      BY <1>4, <2>2, <3>1, <3>2, <3>3 DEF InOrder
  <2> QED
    BY <2>1, <2>2 DEF Batches
<1>20. Mirror'
  <2>1. \A id \in Id \ disturbed' : \E a \in 1..(Number(id)' + 1) : CopiedTo(id, a)'
    BY <1>1, <1>4, <1>11, MirrorKept
  <2>2. ASSUME NEW v \in Round, At(v, "delete")', Current(v)'[1] \notin disturbed'
        PROVE  remote'[Current(v)'[1]] = Item(Current(v))'
    <3>1. At(v, "delete") /\ Current(v)' = Current(v)
      BY <1>14, <2>2
    <3>2. Item(Current(v))' = Item(Current(v))
      BY <1>4, <3>1 DEF Item
    <3> QED
      BY <1>1, <1>4, <1>11, <2>2, <3>1, <3>2 DEF Mirror
  <2> QED
    BY <2>1, <2>2 DEF Mirror
<1>21. Order'
  BY <1>16, <1>17, <1>18, <1>19, <1>20 DEF Order
<1> QED
  BY <1>4, <1>11, <1>12, <1>15, <1>21, RoundIInv

-----------------------------------------------------------------------------
(* The specification                                                         *)

LEMMA InitIInv == InitTables => MirrorInv
<1> SUFFICES ASSUME InitTables PROVE MirrorInv
  OBVIOUS
<1>1. /\ version = [id \in Id |-> 0] /\ enqueued = {} /\ erased = {} /\ outbox = {}
      /\ earlier = [row \in Rows |-> {}] /\ attemptCount = [row \in Rows |-> 0]
      /\ batch = [w \in Round |-> <<>>] /\ step = [w \in Round |-> "put"]
      /\ remote = [id \in Id |-> 0] /\ sent = {} /\ disturbed = {}
      /\ deleting = [d \in Delete |-> NoDelete] /\ restoring = NoRestore
  BY DEF InitTables, Init, Store!Init
<1>2. MirrorTypes
  <2>1. IsFiniteSet({})
    BY FS_EmptySet
  <2>2. <<>> \in Seq([row : enqueued, tries : Nat])
    OBVIOUS
  <2>3. batch \in [Round -> Seq([row : enqueued, tries : Nat])]
    BY <1>1, <2>2
  <2>4. NoDelete \in Deletion /\ NoRestore \in Restore
    BY DEF NoDelete, NoRestore, Deletion, Restore
  <2> QED
    BY <1>1, <2>1, <2>3, <2>4 DEF MirrorTypes
<1>3. \A id : Number(id) = 0
  BY <1>1, FS_EmptySet DEF Number
<1>4. Numbered
  BY <1>1, <1>3 DEF Numbered
<1>5. Sending
  BY <1>1 DEF Sending, NothingDropped, At
<1>6. Troubles /\ OneOwner /\ Ordered /\ Batches
  BY <1>1 DEF Troubles, OneOwner, Ordered, Batches, At, Waiting
<1>7. Mirror
  <2>1. \A id \in Id : CopiedTo(id, 1)
    BY <1>1, <1>3 DEF CopiedTo, ItemAt
  <2> QED
    BY <1>1, <1>3, <2>1 DEF Mirror, At
<1>8. Restored
  BY <1>1, <1>3 DEF Restored, NoRestore, Intended
<1> QED
  BY <1>2, <1>4, <1>5, <1>6, <1>7, <1>8 DEF MirrorInv, Order

LEMMA StepIInv == MirrorInv /\ [Tables \/ Documents]_allVars => MirrorInv'
<1> SUFFICES ASSUME MirrorInv, [Tables \/ Documents]_allVars PROVE MirrorInv'
  OBVIOUS
<1>1. ASSUME NEW k \in Key, upsert(k) PROVE MirrorInv'
  BY <1>1, UpsertIInv
<1>2. CASE Truncate \/ RestoreCrash \/ \E k \in Key : upsertLocalRecord(k)
  BY <1>2, RestoreIInv
<1>3. ASSUME NEW d \in Delete, CommitDelete(d) PROVE MirrorInv'
  BY <1>3, CommitDeleteIInv
<1>4. CASE (\E d \in Delete : SelectRows(d) \/ DeleteRows(d) \/ Rollback(d))
           \/ scanAllDynamoItems \/ RestoreDone
  <2>1. UNCHANGED vars
    BY <1>4 DEF SelectRows, DeleteRows, Rollback, scanAllDynamoItems, RestoreDone
  <2> QED
    BY <1>4, <2>1, BesideTablesIInv
<1>5. CASE Tables
  BY <1>1, <1>2, <1>3, <1>4, <1>5 DEF Tables
<1>6. CASE Documents
  <2>1. UNCHANGED tables
    BY <1>6 DEF Documents
  <2>2. ASSUME NEW id \in Id \ Key, Commit(id) \/ Remove(id) PROVE MirrorInv'
    BY <2>1, <2>2, CommitIInv, RemoveIInv
  <2>3. ASSUME NEW w \in Round, runOnce(w) \/ Abort(w) PROVE MirrorInv'
    BY <2>1, <2>3, FetchIInv, PutIInv, FailsIInv, DeleteRowIInv, CountAttemptIInv, AbortIInv
       DEF runOnce
  <2> QED
    BY <1>6, <2>2, <2>3 DEF Documents
<1>7. CASE UNCHANGED allVars
  <2>1. /\ UNCHANGED <<version, enqueued, erased, outbox, earlier, attemptCount, batch, step,
                       remote, faults, sent, disturbed>>
        /\ UNCHANGED <<deleting, restoring>>
    BY <1>7 DEF allVars, vars, tables
  <2>2. MirrorTypes /\ Restored
    BY DEF MirrorInv
  <2>3. Restored'
    <3>1. \A k \in Key : Intended(k)' = Intended(k)
      BY <2>1, RowsAndRoundsKept
    <3> QED
      BY <2>1, <2>2, <3>1 DEF Restored, Loading
  <2> QED
    BY <2>1, <2>2, <2>3, TablesIInv DEF MirrorTypes
<1> QED
  BY <1>5, <1>6, <1>7

\* The outbox, the rounds, the mirror and the restores fit together as IInv says
\* in every reachable state, for any number of rows, rounds and rebuilds.
THEOREM MirrorInvariant == SpecTables => []MirrorInv
  BY InitIInv, StepIInv, PTL DEF SpecTables

\* The outbox, the rounds and the restores stay well-typed: what waits and what a
\* round holds are rows that were committed.
THEOREM MirrorTypeCorrect == SpecTables => []MirrorTypes
<1>1. MirrorInv => MirrorTypes
  BY DEF MirrorInv
<1> QED
  BY <1>1, MirrorInvariant, PTL

\* WriteBehindWorker.runOnce: whatever fails, dies or overlaps, a committed row is
\* still in mdm_outbox or has reached DynamoDB.
THEOREM NoRowIsLost == SpecTables => []NothingDropped
<1>1. MirrorInv => NothingDropped
  BY DEF MirrorInv, Sending
<1> QED
  BY <1>1, MirrorInvariant, PTL

LEMMA EmptyOutboxIsMirrored ==
  ASSUME MirrorInv, outbox = {}, NEW id \in Id, id \notin disturbed
  PROVE  remote[id] = ItemAt(id, Number(id))
<1>1. PICK a \in 1..(Number(id) + 1) : CopiedTo(id, a)
  BY DEF MirrorInv, Order, Mirror
<1>2. Number(id) \in Nat
  BY DEF MirrorInv, Numbered
<1>3. a = Number(id) + 1
  <2>1. a \notin a..Number(id)
    BY <1>1, <1>2 DEF CopiedTo
  <2> QED
    BY <1>2, <2>1
<1> QED
  BY <1>1, <1>2, <1>3 DEF CopiedTo

\* WriteBehindWorker.runOnce: when nothing waits, DynamoDB has the last version of
\* every record that met no failed row, no two rows of one createdAt and no two
\* rounds at once, for any number of records and rounds and any limit.
THEOREM MirrorCatchesUp == SpecTables => []MirrorIsCurrent
<1>1. MirrorInv => MirrorIsCurrent
  <2> SUFFICES ASSUME MirrorInv, outbox = {}, NEW id \in Id \ disturbed, NEW row \in Latest(id)
               PROVE  Item(row) = remote[id]
    BY DEF MirrorIsCurrent, Quiet
  <2>1. row \in enqueued /\ row[1] = id /\ <<id, row[2] + 1>> \notin enqueued
    BY DEF Latest
  <2>2. row = <<id, row[2]>> /\ row[2] \in Nat
    <3>1. row \in Rows
      BY <2>1 DEF MirrorInv, MirrorTypes
    <3> QED
      BY <2>1, <3>1, RowParts
  <2>3. Number(id) \in Nat /\ \A n \in Nat : <<id, n>> \in enqueued <=> n \in 1..Number(id)
    BY DEF MirrorInv, Numbered
  <2>4. row[2] \in 1..Number(id) /\ row[2] + 1 \notin 1..Number(id)
    BY <2>1, <2>2, <2>3
  <2>5. row[2] = Number(id) /\ Number(id) # 0
    BY <2>2, <2>3, <2>4
  <2> QED
    BY <2>2, <2>5, EmptyOutboxIsMirrored DEF ItemAt
<1> QED
  BY <1>1, MirrorInvariant, PTL

\* PostgresTableRepository and restoreTable: when nothing waits and no restore runs,
\* a mirrored table and DynamoDB have the same, but for the rows named as disturbed.
THEOREM TablesStayMirrored == SpecTables => []TablesAreMirrored
<1>1. MirrorInv => TablesAreMirrored
  <2> SUFFICES ASSUME MirrorInv, outbox = {}, restoring.pc = "idle", NEW k \in Key \ disturbed
               PROVE  version[k] = remote[k]
    BY DEF TablesAreMirrored, Quiet
  <2>1. version[k] = Intended(k)
    BY DEF MirrorInv, Restored, Loading
  <2>2. remote[k] = ItemAt(k, Number(k))
    BY EmptyOutboxIsMirrored
  <2> QED
    BY <2>1, <2>2 DEF Intended, ItemAt
<1> QED
  BY <1>1, MirrorInvariant, PTL

-----------------------------------------------------------------------------
(***************************************************************************)
(* The inductive invariant.  A publication knows of its modules what its   *)
(* plan and its statements made of them, as long as they are not mixed:    *)
(* nobody else touches the modules of its project, and whoever touches the *)
(* platform's while it is under way makes them mixed.                      *)
(***************************************************************************)
Clean(m) == "mixed" \notin doubt[m]
Whole(m) == Clean(m) /\ "torn" \notin doubt[m]

RunType == [pc : {"idle", "done", "last", "plan", "list", "drop", "create",
                  "forget", "record", "apply", "seed"},
            reg : Registries, last : Registries \union {NoRow},
            mode : {"none", "recordOnly", "full", "modules"}, blind : BOOLEAN,
            rebuild : SUBSET Module, removed : SUBSET Module,
            todo : SUBSET (Module \union {Log})]

Dropping == {"list", "drop", "create"}
Writing  == {"forget", "record"}

\* What each publication holds.
Shape(a) ==
  LET u == run[a]
  IN /\ UnderWay(a) => u.reg \in RegistriesOf(a)
     /\ u.pc \in Dropping \union Writing =>
          /\ u.rebuild \subseteq Defined(u.reg)
          /\ u.removed \subseteq OwnModules(u.reg) \ Platform
          /\ u.mode = "full" => u.rebuild = Defined(u.reg) /\ u.last # u.reg
          /\ u.mode = "recordOnly" => u.rebuild = {} /\ u.removed = {} /\ u.last = u.reg
          /\ u.mode # "none"
     /\ u.pc \in Dropping => u.mode # "recordOnly"
     /\ u.pc \in {"drop", "create"} /\ Log \in u.todo => u.mode = "full"
     /\ u.pc = "drop" => u.todo \subseteq Owned(u) \union {Log}
     /\ u.pc = "create" => u.todo \subseteq u.rebuild \union {Log}
     /\ u.pc \in {"record", "seed"} => u.todo \subseteq Defined(u.reg)

\* What it made is there.
Made(a, m) ==
  LET u == run[a]
  IN m \in u.rebuild /\ Clean(m) /\ ((u.pc = "create" /\ m \notin u.todo) \/ u.pc \in Writing)
       => table[m] = u.reg[m]

\* What it dropped and does not make again is not there.
Dropped(a, m) ==
  LET u == run[a]
  IN (/\ m \in Owned(u) \ u.rebuild /\ Clean(m)
      /\ (u.pc = "drop" /\ m \notin u.todo) \/ u.pc \in {"create", "forget"})
       => table[m] = 0

\* What it leaves alone is as its registry says.
Kept(a, m) ==
  LET u == run[a]
  IN u.pc \in Dropping \union Writing /\ m \in Defined(u.reg) \ u.rebuild /\ Whole(m)
       => table[m] = u.reg[m]

\* What it may leave behind without a row of state.
Left(u) == {m \in Module : m \in Platform \/ <<m, m>> \notin Prefixed \/ u.blind}

\* What its registry has no more was dropped, or never recorded, or is left behind.
Undefined(a, m) ==
  LET u == run[a]
  IN u.pc \in Dropping \union {"forget"} /\ m \in OwnModules(u.reg) \ Defined(u.reg)
       => state[m] = 0 \/ m \in Owned(u) \/ m \in Left(u)

\* What the log it read says is so.
Read(a, m) ==
  LET u == run[a]
  IN u.pc = "plan" /\ u.last = u.reg /\ m \in Defined(u.reg) /\ Whole(m)
       => table[m] = u.reg[m]

\* What the log says of its project's modules, and of the platform's.
LogOfProject(a, m) ==
  LET u == run[a]
  IN (/\ Owner[m] = a /\ last \in Registries
      /\ u.pc \in Writing \/ (u.pc \in Dropping \union {"plan"} /\ u.last = u.reg))
       => last[m] \in {0, u.reg[m]}

LogOfPlatform(a, m) ==
  LET u == run[a]
  IN m \in Platform /\ Clean(m) =>
       /\ u.pc \in Dropping \union {"plan"} => WillBeLogged(a)
       /\ u.pc \in Writing => last = u.reg

\* What it is about to drop was not recorded, or in another version.
Planned(a, m) ==
  LET u == run[a]
  IN u.pc \in {"list", "drop"} =>
       /\ u.mode = "full" /\ m \in OwnModules(u.reg) \ Platform => state[m] = 0 \/ u.blind
       /\ u.mode = "modules" /\ m \in u.rebuild /\ Clean(m) => state[m] # u.reg[m]
       /\ m \in u.removed => u.reg[m] = 0

\* When it comes to the initial rows its tables are there, and the rows it did stay.
Settled(a, m) ==
  LET u == run[a]
  IN u.pc \in {"apply", "seed"} /\ m \in Defined(u.reg) /\ Whole(m) =>
       /\ table[m] = u.reg[m]
       /\ u.pc = "seed" /\ m \in HasSeeds \ u.todo => m \in seeded

Knows(a, m) ==
  /\ Made(a, m) /\ Dropped(a, m) /\ Kept(a, m) /\ Undefined(a, m) /\ Read(a, m)
  /\ Planned(a, m) /\ Settled(a, m)
  /\ LogOfProject(a, m) /\ LogOfPlatform(a, m)

\* Two publications under way have mixed the platform.
Mixed ==
  \A a, b \in App : a # b /\ UnderWay(a) /\ UnderWay(b) => \A m \in Platform : ~Clean(m)

\* What the log says of modules that are whole is true.
Logged ==
  last \in Registries => \A m \in Defined(last) : Whole(m) => table[m] = last[m]

SchemaInv ==
  /\ TypeOK
  /\ \A a \in App : Shape(a)
  /\ \A a \in App, m \in Module : Knows(a, m)
  /\ Mixed /\ Logged /\ StateIsTrue

-----------------------------------------------------------------------------
(* What a registry of an app speaks of.                                      *)

\* The modules of an app's registry are the platform's and its project's.
LEMMA Registry ==
  ASSUME SchemaAssumption, NEW a \in App, NEW r \in RegistriesOf(a)
  PROVE  /\ r \in Registries
         /\ \A m \in OwnModules(r) : m \in Platform \/ Owner[m] = a
         /\ \A m \in Module \ Platform : Owner[m] # a => r[m] = 0
         /\ Defined(r) \subseteq OwnModules(r)
         /\ OwnModules(r) \subseteq Module
  BY DEF SchemaAssumption, RegistriesOf, Registries, Version, Platform, OwnModules, Projects, Defined

\* What it may drop is the platform's or belongs to it.
LEMMA OwnedByIt ==
  ASSUME SchemaAssumption, TypeOK, NEW a \in App, Shape(a),
         run[a].pc \in Dropping \union Writing
  PROVE  /\ Owned(run[a]) \subseteq OwnModules(run[a].reg) \union Platform
         /\ run[a].rebuild \subseteq Defined(run[a].reg)
<1>1. run[a].reg \in RegistriesOf(a) /\ run[a].rebuild \subseteq Defined(run[a].reg)
  BY DEF Shape, UnderWay, Dropping, Writing
<1>2. Defined(run[a].reg) \subseteq OwnModules(run[a].reg)
  BY <1>1, Registry
<1>3. Named(run[a]) \subseteq run[a].rebuild \union Platform
  BY DEF Named, Platform, SchemaAssumption
<1>4. UnderPrefix(run[a]) \subseteq OwnModules(run[a].reg)
  BY DEF UnderPrefix
<1> QED BY <1>1, <1>2, <1>3, <1>4 DEF Owned, Named, UnderPrefix

-----------------------------------------------------------------------------
(* A step of one publication, seen by another.                               *)

\* Whatever a publication does, what belongs to another app's project stays,
\* and the platform is mixed if the other is under way.
LEMMA ForeignStep ==
  ASSUME SchemaAssumption, SchemaInv, NEW a \in App, NEW b \in App, a # b, bootstrapSchema(b)
  PROVE  /\ run'[a] = run[a]
         /\ UnderWay(a) => \A m \in Platform : "mixed" \in doubt'[m]
         /\ \A m \in Module : Owner[m] = a =>
              /\ table'[m] = table[m] /\ state'[m] = state[m] /\ doubt'[m] = doubt[m]
              /\ m \in seeded' <=> m \in seeded
         /\ last' = last \/ last' \notin Registries \/ \A m \in Module : Owner[m] = a => last'[m] = 0
<1> USE DEF TypeOK
<1>p. a # Master
  BY DEF SchemaAssumption
<1>q. NoTable \notin Registries /\ NoRow \notin Registries
  BY DEF SchemaAssumption, Registries, Version
<1>r. UnderWay(b) => /\ run[b].reg \in RegistriesOf(b)
                     /\ \A m \in OwnModules(run[b].reg) : Owner[m] # a
                     /\ \A m \in Module : Owner[m] = a => run[b].reg[m] = 0
  <2>1. UnderWay(b) => run[b].reg \in RegistriesOf(b)
    BY DEF SchemaInv, Shape
  <2> QED BY <1>p, <2>1, Registry DEF Platform
<1>s. UnderWay(a) /\ UnderWay(b) => \A m \in Platform : "mixed" \in doubt[m]
  BY DEF SchemaInv, Mixed, Clean
<1>t. UnderWay(a) => ~Alone(b)
  BY DEF Alone
<1>1. CASE Begin(b)
  BY <1>1, <1>p, <1>t DEF Begin, Platform, database, SchemaInv
<1>2. CASE readLastAppliedSnapshotId(b) \/ planModuleRebuild(b) \/ ListTables(b) \/ DropsDone(b) \/ StartSeeds(b)
  <2>1. UnderWay(b)
    BY <1>2 DEF readLastAppliedSnapshotId, planModuleRebuild, ListTables, DropsDone, StartSeeds, Reached, UnderWay
  <2>2. UNCHANGED <<database, doubt>>
    BY <1>2 DEF readLastAppliedSnapshotId, planModuleRebuild, ListTables, DropsDone, StartSeeds
  <2>3. run'[a] = run[a]
    <3>d. run \in [App -> RunType]
      BY DEF SchemaInv, RunType
    <3>1. CASE readLastAppliedSnapshotId(b)
      BY <3>1, <3>d DEF readLastAppliedSnapshotId
    <3>2. CASE planModuleRebuild(b)
      BY <3>2, <3>d DEF planModuleRebuild
    <3>3. CASE ListTables(b) \/ DropsDone(b) \/ StartSeeds(b)
      BY <3>3, <3>d DEF ListTables, DropsDone, StartSeeds
    <3> QED
      BY <1>2, <3>1, <3>2, <3>3
  <2> QED BY <2>1, <2>2, <2>3, <1>s DEF database
<1>3. CASE Finish(b) \/ StatementFails(b) \/ Crash(b)
  <2>1. UnderWay(b)
    BY <1>3 DEF Finish, StatementFails, Crash, Reached, UnderWay
  <2>2. run'[a] = run[a] /\ UNCHANGED <<table, seeded, state, last, doubt>>
    BY <1>3 DEF Finish, StatementFails, Crash, database, SchemaInv
  <2> QED BY <2>1, <2>2, <1>s
<1>4. CASE DropTable(b)
  <2>1. PICK m \in run[b].todo \intersect Module :
          /\ Reached(b, "drop")
          /\ run' = [run EXCEPT ![b].todo = @ \ {m}]
          /\ table' = [table EXCEPT ![m] = 0] /\ seeded' = seeded \ {m}
          /\ doubt' = [doubt EXCEPT ![m] = @ \union {"torn"}]
          /\ UNCHANGED <<state, last>>
    BY <1>4 DEF DropTable
  <2>2. UnderWay(b) /\ run[b].pc = "drop"
    BY <2>1 DEF Reached, UnderWay
  <2>3. m \in OwnModules(run[b].reg) \union Platform
    <3>1. m # Log
      BY <2>1 DEF SchemaAssumption
    <3>2. m \in Owned(run[b])
      BY <2>1, <2>2, <3>1 DEF SchemaInv, Shape
    <3> QED BY <2>2, <3>2, OwnedByIt DEF SchemaInv, Dropping
  <2> QED BY <2>1, <2>2, <2>3, <1>p, <1>r, <1>s DEF SchemaInv, Platform
<1>5. CASE DropLog(b) \/ CreateLog(b)
  <2>1. UnderWay(b)
    BY <1>5 DEF DropLog, CreateLog, Reached, UnderWay
  <2>2. run'[a] = run[a] /\ UNCHANGED <<table, seeded, state, doubt>> /\ last' \in {NoTable, NoRow}
    BY <1>5 DEF DropLog, CreateLog, SchemaInv
  <2> QED BY <2>1, <2>2, <1>s, <1>q
<1>6. CASE CreateTable(b)
  <2>1. PICK m \in run[b].todo :
          /\ Reached(b, "create") /\ Log \notin run[b].todo
          /\ run' = [run EXCEPT ![b].todo = @ \ {m}]
          /\ table' = [table EXCEPT ![m] = run[b].reg[m]]
          /\ doubt' = [doubt EXCEPT ![m] =
               (@ \union {"torn"}) \ IF Alone(b) /\ WillBeLogged(b) THEN {"mixed"} ELSE {}]
          /\ UNCHANGED <<seeded, state, last>>
    BY <1>6 DEF CreateTable
  <2>2. UnderWay(b) /\ run[b].pc = "create"
    BY <2>1 DEF Reached, UnderWay
  <2>3. m \in OwnModules(run[b].reg)
    <3>1. m \in run[b].rebuild
      BY <2>1, <2>2 DEF SchemaInv, Shape
    <3> QED BY <2>2, <3>1, <1>r, OwnedByIt, Registry DEF SchemaInv, Dropping
  <2>4. \A n \in Module : Owner[n] = a => n # m
    BY <2>2, <2>3, <1>r
  <2>5. UnderWay(a) => \A n \in Platform : "mixed" \in doubt'[n]
    BY <2>1, <2>2, <1>s, <1>t DEF SchemaInv, Platform
  <2> QED BY <2>1, <2>4, <2>5 DEF SchemaInv
<1>7. CASE InsertSnapshot(b)
  <2>1. UnderWay(b)
    BY <1>7 DEF InsertSnapshot, Reached, UnderWay
  <2>2. run'[a] = run[a] /\ UNCHANGED <<table, seeded, state, doubt>> /\ last' \in {last, run[b].reg}
    BY <1>7 DEF InsertSnapshot, SchemaInv
  <2> QED BY <2>1, <2>2, <1>s, <1>r
<1>8. CASE ForgetStates(b)
  <2>1. UnderWay(b) /\ run[b].pc = "forget"
    BY <1>8 DEF ForgetStates, Reached, UnderWay
  <2>2. /\ run'[a] = run[a] /\ UNCHANGED <<table, seeded, last>>
        /\ \A m \in Module \ OwnModules(run[b].reg) : state'[m] = state[m] /\ doubt'[m] = doubt[m]
        /\ \A m \in Module : "mixed" \in doubt[m] => "mixed" \in doubt'[m]
    BY <1>8 DEF ForgetStates, SchemaInv
  <2> QED BY <2>1, <2>2, <1>r, <1>s DEF Platform
<1>9. CASE RecordState(b)
  <2>1. PICK m \in run[b].todo :
          /\ Reached(b, "record")
          /\ run' = [run EXCEPT ![b].todo = @ \ {m}]
          /\ state' = [state EXCEPT ![m] = run[b].reg[m]]
          /\ doubt' = [doubt EXCEPT ![m] =
               @ \ ({"forgotten", "orphaned"} \union IF m \in run[b].rebuild THEN {"torn"} ELSE {})]
          /\ UNCHANGED <<table, seeded, last>>
    BY <1>9 DEF RecordState
  <2>2. UnderWay(b) /\ run[b].pc = "record"
    BY <2>1 DEF Reached, UnderWay
  <2>3. m \in OwnModules(run[b].reg)
    <3>1. m \in Defined(run[b].reg)
      BY <2>1, <2>2 DEF SchemaInv, Shape
    <3> QED BY <2>2, <3>1, <1>r, Registry
  <2> QED BY <2>1, <2>2, <2>3, <1>r, <1>s DEF SchemaInv, Platform
<1>10. CASE SeedTable(b)
  <2>1. PICK n \in run[b].todo :
          /\ run[b].pc = "seed" /\ run'[a] = run[a] /\ seeded' = seeded \union {n}
          /\ UNCHANGED <<table, state, last, doubt>>
    BY <1>10 DEF SeedTable, Reached, SchemaInv
  <2>2. UnderWay(b)
    BY <2>1 DEF UnderWay
  <2>3. run[b].reg[n] # 0 /\ n \in Module
    BY <2>1 DEF SchemaInv, Shape, Defined
  <2> QED BY <2>1, <2>2, <2>3, <1>r, <1>s
<1> QED BY <1>1, <1>2, <1>3, <1>4, <1>5, <1>6, <1>7, <1>8, <1>9, <1>10 DEF bootstrapSchema

\* So a publication goes on knowing what it knew.
LEMMA OthersKnow ==
  ASSUME SchemaAssumption, SchemaInv, NEW a \in App, NEW b \in App, a # b, bootstrapSchema(b),
         NEW m \in Module
  PROVE  Shape(a)' /\ Knows(a, m)'
<1>1. run'[a] = run[a]
  BY ForeignStep
<1>2. Shape(a)'
  BY <1>1 DEF SchemaInv, Shape, UnderWay, Owned, Named, UnderPrefix
<1>3. CASE ~UnderWay(a)
  <2>1. run'[a].pc \notin Dropping \union Writing \union {"plan", "list", "drop", "create", "forget", "apply", "seed"}
    BY <1>1, <1>3 DEF UnderWay, Dropping, Writing
  <2> QED BY <1>2, <2>1 DEF Knows, Made, Dropped, Kept, Undefined, Left, Read,
    Planned, Settled, LogOfProject, LogOfPlatform
<1>4. CASE UnderWay(a) /\ m \in Platform
  <2>1. ~Clean(m)'
    BY <1>4, ForeignStep DEF Clean
  <2>3. Owner[m] # a
    BY <1>4 DEF Platform, SchemaAssumption
  <2>4. Planned(a, m)'
    <3>1. run[a].pc \in Dropping \union Writing => run[a].removed \subseteq OwnModules(run[a].reg) \ Platform
      BY DEF SchemaInv, Shape
    <3> QED BY <1>1, <1>4, <2>1, <3>1 DEF Planned, Dropping
  <2>5. Made(a, m)' /\ Dropped(a, m)' /\ Kept(a, m)' /\ Read(a, m)' /\ Settled(a, m)'
    BY <2>1 DEF Made, Dropped, Kept, Read, Settled, Whole
  <2>6. Undefined(a, m)'
    BY <1>4 DEF Undefined, Left, Left
  <2> QED BY <1>2, <2>1, <2>3, <2>4, <2>5, <2>6 DEF Knows, LogOfProject, LogOfPlatform
<1>5. CASE UnderWay(a) /\ m \notin Platform
  <2>1. run[a].reg \in RegistriesOf(a)
    BY <1>5 DEF SchemaInv, Shape
  <2>2. CASE Owner[m] = a
    <3>1. /\ table'[m] = table[m] /\ state'[m] = state[m] /\ doubt'[m] = doubt[m]
          /\ m \in seeded' <=> m \in seeded
      BY <2>2, ForeignStep
    <3>2. last' = last \/ last' \notin Registries \/ last'[m] = 0
      BY <2>2, ForeignStep
    <3>3. Knows(a, m)
      BY DEF SchemaInv
    <3>4. Made(a, m)' /\ Dropped(a, m)' /\ Kept(a, m)' /\ Undefined(a, m)' /\ Read(a, m)'
      BY <1>1, <3>1, <3>3 DEF Knows, Made, Dropped, Kept, Undefined, Left, Read, Whole, Clean, Owned, Named, UnderPrefix
    <3>5. LogOfProject(a, m)'
      BY <1>1, <3>2, <3>3 DEF Knows, LogOfProject
    <3>6. Planned(a, m)' /\ Settled(a, m)'
      BY <1>1, <3>1, <3>3 DEF Knows, Planned, Settled, Whole, Clean
    <3> QED BY <1>2, <1>5, <3>4, <3>5, <3>6 DEF Knows, LogOfPlatform
  <2>3. CASE Owner[m] # a
    <3>1. m \notin OwnModules(run[a].reg) /\ m \notin Defined(run[a].reg)
      BY <1>5, <2>1, <2>3, Registry
    <3>2. run[a].pc \in Dropping \union Writing => m \notin Owned(run[a]) /\ m \notin run[a].rebuild
      BY <1>5, <3>1, OwnedByIt DEF SchemaInv
    <3>3. run[a].pc \in Dropping \union Writing => run[a].removed \subseteq OwnModules(run[a].reg) \ Platform
      BY DEF SchemaInv, Shape
    <3>4. Planned(a, m)'
      BY <1>1, <3>1, <3>2, <3>3 DEF Planned, Dropping
    <3>5. Made(a, m)' /\ Dropped(a, m)' /\ Kept(a, m)' /\ Undefined(a, m)' /\ Read(a, m)' /\ Settled(a, m)'
      BY <1>1, <3>1, <3>2 DEF Made, Dropped, Kept, Undefined, Left, Read, Settled, Dropping, Writing, Owned, Named, UnderPrefix
    <3> QED BY <1>2, <1>5, <2>3, <3>4, <3>5 DEF Knows, LogOfProject, LogOfPlatform
  <2> QED BY <2>2, <2>3
<1> QED BY <1>3, <1>4, <1>5, <1>2

-----------------------------------------------------------------------------
(* The types.                                                                *)

\* A step of a publication keeps the types.
LEMMA TypeStep ==
  ASSUME SchemaAssumption, SchemaInv, NEW a \in App, bootstrapSchema(a)
  PROVE  TypeOK'
<1>t. /\ table \in Registries /\ state \in Registries /\ seeded \subseteq Module
      /\ last \in Registries \union {NoRow, NoTable}
      /\ run \in [App -> RunType]
      /\ runs \in 0 .. MaxRuns /\ failures \in 0 .. MaxFailures
      /\ doubt \in [Module -> SUBSET Doubt]
  BY DEF SchemaInv, TypeOK, RunType
<1>i. Idle \in RunType
  BY DEF Idle, Absent, Registries, Version, RunType, SchemaAssumption
<1>n. MaxRuns \in Nat /\ MaxFailures \in Nat /\ 0 \in Version
  BY DEF SchemaAssumption, Version
<1>d. {"torn", "forgotten", "orphaned", "mixed"} = Doubt
  BY DEF Doubt
<1>r. /\ run[a] \in RunType /\ run[a].reg \in Registries
      /\ run[a].todo \subseteq Module \union {Log} /\ run[a].rebuild \subseteq Module
  BY <1>t DEF RunType
<1>1. CASE Begin(a)
  <2>1. PICK r \in Registries :
          /\ run' = [run EXCEPT ![a] = [Idle EXCEPT !.pc = "last", !.reg = r]]
          /\ runs < MaxRuns /\ runs' = runs + 1
          /\ doubt' = [m \in Module |->
                         doubt[m] \union IF m \in Platform /\ ~Alone(a) THEN {"mixed"} ELSE {}]
          /\ UNCHANGED <<database, failures>>
    BY <1>1 DEF Begin, RegistriesOf, SchemaAssumption, Registries, Version
  <2>2. [Idle EXCEPT !.pc = "last", !.reg = r] \in RunType
    BY <1>i DEF RunType
  <2>3. run' \in [App -> RunType]
    BY <2>1, <2>2, <1>t
  <2>4. doubt' \in [Module -> SUBSET Doubt]
    BY <2>1, <1>t, <1>d
  <2>5. runs' \in 0 .. MaxRuns
    BY <2>1, <1>t, <1>n
  <2> QED BY <2>1, <2>3, <2>4, <2>5, <1>t DEF database, TypeOK, RunType
<1>2. CASE readLastAppliedSnapshotId(a) \/ planModuleRebuild(a) \/ ListTables(a) \/ DropsDone(a)
           \/ StartSeeds(a)
  <2>1. UNCHANGED <<table, seeded, state, last, runs, doubt>> /\ failures' \in 0 .. MaxFailures
    <3>1. UNCHANGED <<table, seeded, state, last, runs, doubt>> /\ (UNCHANGED failures \/ Failure)
      BY <1>2 DEF readLastAppliedSnapshotId, planModuleRebuild, ListTables, DropsDone, StartSeeds, database
    <3> QED BY <3>1, <1>t, <1>n DEF Failure
  <2>2. \E u \in RunType : run' = [run EXCEPT ![a] = u]
    <3>1. Defined(run[a].reg) \subseteq Module /\ OwnModules(run[a].reg) \subseteq Module
      BY DEF Defined, OwnModules
    <3>2. Owned(run[a]) \subseteq Module
      BY <3>1, <1>r DEF Owned, Named, UnderPrefix
    <3>3. CASE readLastAppliedSnapshotId(a)
      <4>1. PICK l \in Registries \union {NoRow} : run' = [run EXCEPT ![a].pc = "plan", ![a].last = l]
        BY <3>3, <1>t DEF readLastAppliedSnapshotId
      <4>2. [run[a] EXCEPT !.pc = "plan", !.last = l] \in RunType
        BY <1>r DEF RunType
      <4> QED BY <4>1, <4>2, <1>t
    <3>4. CASE planModuleRebuild(a)
      <4>1. Changed(run[a].reg) \subseteq Module /\ Removed(run[a].reg) \subseteq Module
        BY <3>1 DEF Changed, Removed
      <4>2. PICK pc \in {"forget", "list", "apply"}, mode \in {"none", "recordOnly", "full", "modules"},
                 blind \in BOOLEAN, rebuild \in SUBSET Module, removed \in SUBSET Module :
              run' = [run EXCEPT ![a].pc = pc, ![a].mode = mode, ![a].blind = blind,
                                 ![a].rebuild = rebuild, ![a].removed = removed]
        <5> DEFINE Plan(b, pc, mode, x, y) ==
              run' = [run EXCEPT ![a].pc = pc, ![a].mode = mode, ![a].blind = b,
                                 ![a].rebuild = x, ![a].removed = y]
        <5>1. \E b \in BOOLEAN : \/ Plan(b, "forget", "recordOnly", {}, {})
                                 \/ Plan(b, "list", "full", Defined(run[a].reg), {})
                                 \/ Plan(b, "apply", "none", {}, {})
                                 \/ Plan(b, "list", "modules", Changed(run[a].reg), Removed(run[a].reg))
          BY <3>4, Zenon DEF planModuleRebuild
        <5> HIDE DEF Plan
        <5>2. \E pc \in {"forget", "list", "apply"}, mode \in {"none", "recordOnly", "full", "modules"},
                 blind \in BOOLEAN, rebuild \in SUBSET Module, removed \in SUBSET Module :
                Plan(blind, pc, mode, rebuild, removed)
          BY <5>1, <3>1, <4>1
        <5> QED BY <5>2 DEF Plan
      <4>3. [run[a] EXCEPT !.pc = pc, !.mode = mode, !.blind = blind, !.rebuild = rebuild, !.removed = removed] \in RunType
        BY <1>r DEF RunType
      <4> QED BY <4>2, <4>3, <1>t
    <3>5. CASE ListTables(a)
      <4>1. PICK t \in SUBSET (Module \union {Log}) : run' = [run EXCEPT ![a].pc = "drop", ![a].todo = t]
        BY <3>5, <3>2 DEF ListTables
      <4>2. [run[a] EXCEPT !.pc = "drop", !.todo = t] \in RunType
        BY <1>r DEF RunType
      <4> QED BY <4>1, <4>2, <1>t
    <3>6. CASE DropsDone(a)
      <4>1. PICK t \in SUBSET (Module \union {Log}) : run' = [run EXCEPT ![a].pc = "create", ![a].todo = t]
        BY <3>6, <1>r DEF DropsDone, tablesToCreate
      <4>2. [run[a] EXCEPT !.pc = "create", !.todo = t] \in RunType
        BY <1>r DEF RunType
      <4> QED BY <4>1, <4>2, <1>t
    <3>7. CASE StartSeeds(a)
      <4>1. PICK t \in SUBSET (Module \union {Log}) : run' = [run EXCEPT ![a].pc = "seed", ![a].todo = t]
        BY <3>7, <3>1 DEF StartSeeds, seedsOf
      <4>2. [run[a] EXCEPT !.pc = "seed", !.todo = t] \in RunType
        BY <1>r DEF RunType
      <4> QED BY <4>1, <4>2, <1>t
    <3> QED BY <1>2, <3>3, <3>4, <3>5, <3>6, <3>7
  <2>3. run' \in [App -> RunType]
    BY <2>2, <1>t
  <2> QED BY <2>1, <2>3, <1>t DEF TypeOK, RunType
<1>3. CASE Finish(a) \/ StatementFails(a) \/ Crash(a)
  <2>1. UNCHANGED <<table, seeded, state, last, runs, doubt>>
    BY <1>3 DEF Finish, StatementFails, Crash, database
  <2>2. run' = [run EXCEPT ![a] = Idle] \/ run' = [run EXCEPT ![a] = [Idle EXCEPT !.pc = "done"]]
    BY <1>3 DEF Finish, StatementFails, Crash
  <2>3. [Idle EXCEPT !.pc = "done"] \in RunType
    BY <1>i DEF RunType
  <2>4. failures' \in 0 .. MaxFailures
    BY <1>3, <1>t, <1>n DEF Finish, StatementFails, Crash, Failure
  <2>5. run' \in [App -> RunType]
    BY <2>2, <2>3, <1>i, <1>t
  <2> QED BY <2>1, <2>4, <2>5, <1>t DEF TypeOK, RunType
<1>4. CASE DropTable(a) \/ DropLog(a) \/ CreateLog(a) \/ CreateTable(a) \/ SeedTable(a)
  <2>1. /\ UNCHANGED <<state, runs, failures>>
        /\ \E n : run' = [run EXCEPT ![a].todo = @ \ {n}]
    BY <1>4 DEF DropTable, DropLog, CreateLog, CreateTable, SeedTable
  <2>2. run' \in [App -> RunType]
    BY <2>1, <1>r, <1>t DEF RunType
  <2>3. table' \in Registries
    <3>1. table' = table \/ \E m, v : v \in Version /\ table' = [table EXCEPT ![m] = v]
      <4>1. ASSUME CreateTable(a) PROVE \E m, v : v \in Version /\ table' = [table EXCEPT ![m] = v]
        <5>1. PICK m \in run[a].todo : Log \notin run[a].todo /\ table' = [table EXCEPT ![m] = run[a].reg[m]]
          BY <4>1 DEF CreateTable
        <5>2. m \in Module
          BY <5>1, <1>r
        <5> QED BY <5>1, <5>2, <1>r DEF Registries
      <4> QED BY <1>4, <4>1, <1>n DEF DropTable, DropLog, CreateLog, SeedTable
    <3> QED BY <3>1, <1>t DEF Registries
  <2>4. seeded' \subseteq Module
    <3>1. ASSUME SeedTable(a) PROVE seeded' \subseteq Module
      <4>1. run[a].todo \subseteq Module
        BY <3>1 DEF SchemaInv, Shape, SeedTable, Reached, Defined
      <4> QED BY <3>1, <1>t, <4>1 DEF SeedTable
    <3> QED BY <1>4, <3>1, <1>t DEF DropTable, DropLog, CreateLog, CreateTable
  <2>5. last' \in Registries \union {NoRow, NoTable}
    BY <1>4, <1>t DEF DropTable, DropLog, CreateLog, CreateTable, SeedTable
  <2>6. doubt' \in [Module -> SUBSET Doubt]
    <3>1. doubt' = doubt \/ \E m, s : doubt' = [doubt EXCEPT ![m] = (@ \union {"torn"}) \ s]
      <4>1. ASSUME DropTable(a) PROVE \E m, s : doubt' = [doubt EXCEPT ![m] = (@ \union {"torn"}) \ s]
        <5>1. PICK m \in Module : doubt' = [doubt EXCEPT ![m] = @ \union {"torn"}]
          BY <4>1 DEF DropTable
        <5>2. doubt' = [doubt EXCEPT ![m] = (@ \union {"torn"}) \ {}]
          BY <5>1, <1>t
        <5> QED BY <5>2
      <4>2. CreateTable(a) => \E m, s : doubt' = [doubt EXCEPT ![m] = (@ \union {"torn"}) \ s]
        BY DEF CreateTable
      <4> QED BY <1>4, <4>1, <4>2 DEF DropLog, CreateLog, SeedTable
    <3> QED BY <3>1, <1>t, <1>d
  <2> QED BY <2>1, <2>2, <2>3, <2>4, <2>5, <2>6, <1>t DEF TypeOK, RunType
<1>5. CASE InsertSnapshot(a)
  <2>1. run' = [run EXCEPT ![a].pc = "forget"] /\ last' \in {last, run[a].reg}
        /\ UNCHANGED <<table, seeded, state, runs, failures, doubt>>
    BY <1>5 DEF InsertSnapshot
  <2>2. run' \in [App -> RunType]
    BY <2>1, <1>r, <1>t DEF RunType
  <2> QED BY <2>1, <2>2, <1>t, <1>r DEF TypeOK, RunType
<1>6. CASE ForgetStates(a)
  <2>1. /\ \E own : state' = [m \in Module |-> IF m \in own THEN 0 ELSE state[m]]
        /\ run' = [run EXCEPT ![a].pc = "record", ![a].todo = Defined(run[a].reg)]
        /\ UNCHANGED <<table, seeded, last, runs, failures>>
    BY <1>6 DEF ForgetStates
  <2>2. run' \in [App -> RunType]
    <3>1. Defined(run[a].reg) \subseteq Module
      BY DEF Defined
    <3> QED BY <2>1, <3>1, <1>r, <1>t DEF RunType
  <2>3. state' \in Registries
    BY <2>1, <1>t, <1>n DEF Registries
  <2>4. doubt' \in [Module -> SUBSET Doubt]
    <3> DEFINE own  == OwnModules(run[a].reg)
               gone == own \ Defined(run[a].reg)
               over == IF run[a].mode \in {"full", "modules"} THEN gone \intersect Owned(run[a]) ELSE {}
               left == {m \in gone : m \in Platform \/ <<m, m>> \notin Prefixed \/ run[a].blind}
    <3>1. doubt' = [m \in Module |->
            (doubt[m] \union
               (IF m \in own \ gone /\ state[m] # 0 THEN {"forgotten"} ELSE {}) \union
               (IF m \in left /\ state[m] # 0 THEN {"orphaned"} ELSE {}))
              \ (IF m \in over THEN {"torn", "forgotten", "orphaned"} ELSE {})]
      BY <1>6 DEF ForgetStates
    <3> HIDE DEF own, gone, over, left
    <3> QED BY <3>1, <1>t, <1>d
  <2> QED BY <2>1, <2>2, <2>3, <2>4, <1>t DEF TypeOK, RunType
<1>7. CASE RecordState(a)
  <2>1. PICK m \in run[a].todo :
          /\ run' = [run EXCEPT ![a].todo = @ \ {m}]
          /\ state' = [state EXCEPT ![m] = run[a].reg[m]]
          /\ doubt' = [doubt EXCEPT ![m] =
               @ \ ({"forgotten", "orphaned"} \union IF m \in run[a].rebuild THEN {"torn"} ELSE {})]
          /\ UNCHANGED <<table, seeded, last, runs, failures>>
    BY <1>7 DEF RecordState
  <2>2. m \in Module
    BY <2>1, <1>7 DEF SchemaInv, Shape, RecordState, Reached, Defined
  <2>3. run' \in [App -> RunType]
    BY <2>1, <1>r, <1>t DEF RunType
  <2>4. state' \in Registries
    BY <2>1, <2>2, <1>r, <1>t DEF Registries
  <2>5. doubt' \in [Module -> SUBSET Doubt]
    BY <2>1, <1>t
  <2> QED BY <2>1, <2>3, <2>4, <2>5, <1>t DEF TypeOK, RunType
<1> QED BY <1>1, <1>2, <1>3, <1>4, <1>5, <1>6, <1>7 DEF bootstrapSchema

-----------------------------------------------------------------------------
(* A step of a publication, seen by itself.                                  *)

\* Its own steps keep what it holds in order.
LEMMA OwnShape ==
  ASSUME SchemaAssumption, SchemaInv, NEW a \in App, bootstrapSchema(a)
  PROVE  Shape(a)'
<1>s. Shape(a)
  BY DEF SchemaInv
<1>t. /\ run \in [App -> RunType] /\ run[a] \in RunType
      /\ run[a].todo \subseteq Module \union {Log} /\ run[a].rebuild \subseteq Module
      /\ Log \notin Module
  BY DEF SchemaInv, TypeOK, RunType, SchemaAssumption
<1>1. CASE Begin(a)
  <2>1. \E r \in RegistriesOf(a) : run'[a] = [Idle EXCEPT !.pc = "last", !.reg = r]
    BY <1>1, <1>t DEF Begin
  <2> QED BY <2>1 DEF Shape, Idle, Dropping, Writing
<1>2. CASE Finish(a) \/ StatementFails(a) \/ Crash(a)
  <2>1. run'[a].pc \in {"idle", "done"}
    BY <1>2, <1>t DEF Finish, StatementFails, Crash, Idle
  <2> QED BY <2>1 DEF Shape, UnderWay, Dropping, Writing
<1>3. CASE readLastAppliedSnapshotId(a)
  <2>1. run[a].pc = "last" /\ run'[a].pc = "plan" /\ run'[a].reg = run[a].reg
    BY <1>3, <1>t DEF readLastAppliedSnapshotId, Reached, RunType
  <2> QED BY <2>1, <1>s DEF Shape, UnderWay, Dropping, Writing
<1>4. CASE planModuleRebuild(a)
  <2>1. run[a].pc = "plan" /\ run[a].reg \in RegistriesOf(a)
    BY <1>4, <1>s DEF planModuleRebuild, Reached, Shape, UnderWay
  <2>2. Changed(run[a].reg) \subseteq Defined(run[a].reg)
        /\ Removed(run[a].reg) \subseteq OwnModules(run[a].reg) \ Platform
    BY DEF Changed, Removed
  <2>3. run'[a].reg = run[a].reg /\ run'[a].last = run[a].last
    BY <1>4, <1>t DEF planModuleRebuild, RunType
  <2>4. \/ /\ run'[a].pc = "forget" /\ run'[a].mode = "recordOnly"
           /\ run'[a].rebuild = {} /\ run'[a].removed = {} /\ run[a].last = run[a].reg
        \/ /\ run'[a].pc = "list" /\ run'[a].mode = "full" /\ run[a].last # run[a].reg
           /\ run'[a].rebuild = Defined(run[a].reg) /\ run'[a].removed = {}
        \/ run'[a].pc = "apply"
        \/ /\ run'[a].pc = "list" /\ run'[a].mode = "modules"
           /\ run'[a].rebuild = Changed(run[a].reg) /\ run'[a].removed = Removed(run[a].reg)
    BY <1>4, <1>t DEF planModuleRebuild, RunType
  <2> QED BY <2>1, <2>2, <2>3, <2>4 DEF Shape, Dropping, Writing
<1>5. CASE ListTables(a)
  <2>1. PICK l \in SUBSET {Log} :
          /\ l = {Log} => run[a].mode = "full"
          /\ run' = [run EXCEPT ![a].pc = "drop",
                                ![a].todo = {m \in Owned(run[a]) : table[m] # 0} \union l]
          /\ run[a].pc = "list"
    BY <1>5 DEF ListTables, Reached
  <2>2. /\ run'[a].pc = "drop" /\ run'[a].todo \subseteq Owned(run[a]) \union {Log}
        /\ run'[a].todo = {m \in Owned(run[a]) : table[m] # 0} \union l
        /\ run'[a].reg = run[a].reg /\ run'[a].last = run[a].last /\ run'[a].mode = run[a].mode
        /\ run'[a].rebuild = run[a].rebuild /\ run'[a].removed = run[a].removed
        /\ run'[a].blind = run[a].blind
    BY <2>1, <1>t DEF RunType
  <2>3. Owned(run'[a]) = Owned(run[a])
    BY <2>2 DEF Owned, Named, UnderPrefix
  <2>4. Log \notin Owned(run[a])
    BY <1>t DEF Owned, Named, UnderPrefix, OwnModules, Defined
  <2>5. ASSUME Log \in run'[a].todo PROVE run'[a].mode = "full"
    <3>1. run'[a].todo \subseteq Owned(run[a]) \union l
      BY <2>2
    <3>2. l = {Log}
      BY <2>4, <2>5, <3>1
    <3> QED
      BY <2>1, <2>2, <3>2
  <2> QED BY <2>1, <2>2, <2>3, <2>5, <1>s DEF Shape, UnderWay, Dropping, Writing
<1>6. CASE DropTable(a) \/ DropLog(a) \/ CreateLog(a) \/ CreateTable(a) \/ RecordState(a) \/ SeedTable(a)
  <2>1. PICK n : run' = [run EXCEPT ![a].todo = @ \ {n}]
    BY <1>6 DEF DropTable, DropLog, CreateLog, CreateTable, RecordState, SeedTable
  <2>2. /\ run'[a].todo \subseteq run[a].todo /\ run'[a].pc = run[a].pc
        /\ run'[a].reg = run[a].reg /\ run'[a].last = run[a].last /\ run'[a].mode = run[a].mode
        /\ run'[a].rebuild = run[a].rebuild /\ run'[a].removed = run[a].removed
        /\ run'[a].blind = run[a].blind
    BY <2>1, <1>t DEF RunType
  <2>3. Owned(run'[a]) = Owned(run[a])
    BY <2>2 DEF Owned, Named, UnderPrefix
  <2> QED BY <2>2, <2>3, <1>s DEF Shape, UnderWay
<1>7. CASE DropsDone(a)
  <2>1. PICK l \in SUBSET {Log} :
          /\ l = {Log} => run[a].mode = "full"
          /\ run' = [run EXCEPT ![a].pc = "create", ![a].todo = run[a].rebuild \union l]
          /\ run[a].pc = "drop"
    BY <1>7 DEF DropsDone, Reached, tablesToCreate
  <2>2. /\ run'[a].pc = "create" /\ run'[a].todo = run[a].rebuild \union l
        /\ run'[a].reg = run[a].reg /\ run'[a].last = run[a].last /\ run'[a].mode = run[a].mode
        /\ run'[a].rebuild = run[a].rebuild /\ run'[a].removed = run[a].removed
        /\ run'[a].blind = run[a].blind
    BY <2>1, <1>t DEF RunType
  <2>3. Log \in run'[a].todo => run'[a].mode = "full"
    BY <2>1, <2>2, <1>t
  <2> QED BY <2>1, <2>2, <2>3, <1>s DEF Shape, UnderWay, Dropping, Writing
<1>8. CASE InsertSnapshot(a)
  <2>1. /\ run[a].pc = "create" /\ run'[a].pc = "forget"
        /\ run'[a].reg = run[a].reg /\ run'[a].last = run[a].last /\ run'[a].mode = run[a].mode
        /\ run'[a].rebuild = run[a].rebuild /\ run'[a].removed = run[a].removed
        /\ run'[a].blind = run[a].blind
    BY <1>8, <1>t DEF InsertSnapshot, Reached, RunType
  <2> QED BY <2>1, <1>s DEF Shape, UnderWay, Dropping, Writing
<1>9. CASE ForgetStates(a)
  <2>1. /\ run[a].pc = "forget" /\ run'[a].pc = "record" /\ run'[a].todo = Defined(run[a].reg)
        /\ run'[a].reg = run[a].reg /\ run'[a].last = run[a].last /\ run'[a].mode = run[a].mode
        /\ run'[a].rebuild = run[a].rebuild /\ run'[a].removed = run[a].removed
        /\ run'[a].blind = run[a].blind
    BY <1>9, <1>t DEF ForgetStates, Reached, RunType
  <2> QED BY <2>1, <1>s DEF Shape, UnderWay, Dropping, Writing
<1>10. CASE StartSeeds(a)
  <2>1. /\ run[a].pc \in {"apply", "record"} /\ run'[a].pc = "seed"
        /\ run'[a].todo \subseteq Defined(run[a].reg) /\ run'[a].reg = run[a].reg
    BY <1>10, <1>t DEF StartSeeds, Reached, RunType, seedsOf
  <2> QED BY <2>1, <1>s DEF Shape, UnderWay, Dropping, Writing
<1> QED BY <1>1, <1>2, <1>3, <1>4, <1>5, <1>6, <1>7, <1>8, <1>9, <1>10 DEF bootstrapSchema

\* Its own steps keep what it knows.
LEMMA OwnKnows ==
  ASSUME SchemaAssumption, SchemaInv, NEW a \in App, bootstrapSchema(a), NEW m \in Module
  PROVE  Knows(a, m)'
<1>s. Shape(a) /\ Knows(a, m)
  BY DEF SchemaInv
<1>t. /\ run \in [App -> RunType] /\ run[a] \in RunType /\ run[a].reg \in Registries
      /\ table \in Registries /\ state \in Registries /\ doubt \in [Module -> SUBSET Doubt]
      /\ Log \notin Module /\ NoRow \notin Registries /\ NoTable \notin Registries
      /\ NoRow # NoTable /\ last \in Registries \union {NoRow, NoTable}
  BY DEF SchemaInv, TypeOK, RunType, SchemaAssumption, Registries, Version
<1>1. CASE Begin(a) \/ Finish(a) \/ StatementFails(a) \/ Crash(a)
  <2>1. run'[a].pc \in {"idle", "done", "last"}
    <3>1. ASSUME Begin(a) PROVE run'[a].pc = "last"
      <4>1. PICK r : run' = [run EXCEPT ![a] = [Idle EXCEPT !.pc = "last", !.reg = r]]
        BY <3>1 DEF Begin
      <4> QED BY <4>1, <1>t DEF Idle
    <3>2. Finish(a) \/ StatementFails(a) \/ Crash(a) => run'[a].pc \in {"idle", "done"}
      BY <1>t DEF Finish, StatementFails, Crash, Idle
    <3> QED BY <1>1, <3>1, <3>2
  <2> QED BY <2>1 DEF Knows, Made, Dropped, Kept, Undefined, Left, Read, Planned, Settled,
    LogOfProject, LogOfPlatform, Dropping, Writing
<1>2. CASE readLastAppliedSnapshotId(a)
  <2>1. /\ run'[a].pc = "plan" /\ run'[a].reg = run[a].reg
        /\ run'[a].last \in {NoRow, last}
        /\ UNCHANGED <<table, state, last, doubt>>
    BY <1>2, <1>t DEF readLastAppliedSnapshotId, RunType, database
  <2>2. run'[a].last = run'[a].reg => last = run[a].reg
    BY <2>1, <1>t
  <2>3. Read(a, m)'
    BY <2>1, <2>2, <1>t DEF Read, SchemaInv, Logged, Whole, Clean, Defined
  <2>4. LogOfProject(a, m)'
    BY <2>1, <2>2, <1>t DEF LogOfProject, Writing
  <2>5. LogOfPlatform(a, m)'
    BY <2>1, <2>2 DEF LogOfPlatform, WillBeLogged, insertSnapshot, Writing
  <2> QED BY <2>1, <2>3, <2>4, <2>5 DEF Knows, Made, Dropped, Kept, Undefined, Left, Planned, Settled,
    Dropping, Writing
<1>3. CASE planModuleRebuild(a)
  <2> DEFINE r == run[a].reg
  <2>1. /\ run[a].pc = "plan" /\ r \in RegistriesOf(a) /\ run'[a].reg = r /\ run'[a].last = run[a].last
        /\ UNCHANGED <<table, state, last, doubt>>
    BY <1>3, <1>s, <1>t DEF planModuleRebuild, Reached, Shape, UnderWay, RunType, database
  <2>2. \/ /\ run'[a].pc = "forget" /\ run'[a].mode = "recordOnly" /\ (~hasClientState(r) \/ run'[a].blind)
           /\ run'[a].rebuild = {} /\ run'[a].removed = {} /\ run[a].last = r
        \/ /\ run'[a].pc = "list" /\ run'[a].mode = "full" /\ (~hasClientState(r) \/ run'[a].blind)
           /\ run'[a].rebuild = Defined(r) /\ run'[a].removed = {}
        \/ run'[a].pc = "apply" /\ Changed(r) = {}
        \/ /\ run'[a].pc = "list" /\ run'[a].mode = "modules"
           /\ run'[a].rebuild = Changed(r) /\ run'[a].removed = Removed(r)
    BY <1>3, <1>t DEF planModuleRebuild, RunType
  <2>3. m \in OwnModules(r) \ Defined(r) => r[m] = 0
    BY DEF Defined
  <2>4. Made(a, m)' /\ Read(a, m)'
    BY <2>2 DEF Made, Read, Writing
  <2>5. Dropped(a, m)'
    BY <2>2 DEF Dropped, Owned, Named, UnderPrefix
  <2>6. Kept(a, m)' /\ Settled(a, m)'
    <3>1. m \in Defined(r) \ Changed(r) /\ Whole(m) => table[m] = r[m]
      <4>1. Whole(m) => Intact(m)
        BY <1>t DEF Whole, Clean, Doubt, Intact
      <4> QED BY <4>1 DEF SchemaInv, StateIsTrue, Changed, Defined
    <3>2. run[a].last = r /\ m \in Defined(r) /\ Whole(m) => table[m] = r[m]
      BY <1>s, <2>1 DEF Knows, Read
    <3>3. Kept(a, m)'
      BY <2>1, <2>2, <3>1, <3>2 DEF Kept, Whole, Clean, Dropping, Writing
    <3>4. Settled(a, m)'
      BY <2>1, <2>2, <3>1 DEF Settled, Whole, Clean
    <3> QED BY <3>3, <3>4
  <2>7. Undefined(a, m)'
    <3>1. ~hasClientState(r) /\ m \in OwnModules(r) \ Defined(r) => state[m] = 0 \/ m \in Left(run'[a])
      BY DEF hasClientState, Left
    <3>2. m \in OwnModules(r) \ Defined(r) => state[m] = 0 \/ m \in Removed(r) \/ m \in Left(run'[a])
      BY <2>3 DEF Removed, Left
    <3>3. run'[a].mode = "modules" /\ run'[a].removed = Removed(r) /\ m \in Removed(r)
            => m \in Owned(run'[a]) \/ m \in Left(run'[a])
      BY <2>1 DEF Owned, UnderPrefix, Removed, Left
    <3>4. run'[a].blind => m \in Left(run'[a])
      BY DEF Left
    <3> QED BY <2>1, <2>2, <3>1, <3>2, <3>3, <3>4 DEF Undefined, Dropping
  <2>8. LogOfProject(a, m)'
    BY <1>s, <2>1, <2>2 DEF Knows, LogOfProject, Dropping, Writing
  <2>9. LogOfPlatform(a, m)'
    BY <1>s, <2>1, <2>2 DEF Knows, LogOfPlatform, Clean, WillBeLogged, insertSnapshot, Dropping, Writing
  <2>10. Planned(a, m)'
    BY <2>1, <2>2 DEF Planned, hasClientState, Changed, Removed
  <2> QED BY <2>4, <2>5, <2>6, <2>7, <2>8, <2>9, <2>10 DEF Knows
<1>4. CASE ListTables(a)
  <2>1. /\ run[a].pc = "list" /\ run'[a].pc = "drop"
        /\ {n \in Owned(run[a]) : table[n] # 0} \subseteq run'[a].todo
        /\ run'[a].reg = run[a].reg /\ run'[a].last = run[a].last /\ run'[a].mode = run[a].mode
        /\ run'[a].rebuild = run[a].rebuild /\ run'[a].removed = run[a].removed
        /\ run'[a].blind = run[a].blind
        /\ UNCHANGED <<table, state, last, doubt>>
    BY <1>4, <1>t DEF ListTables, Reached, RunType, database
  <2>2. Owned(run'[a]) = Owned(run[a])
    BY <2>1 DEF Owned, Named, UnderPrefix
  <2> QED BY <2>1, <2>2, <1>s DEF Knows, Made, Dropped, Kept, Undefined, Left, Read, Planned, Settled,
    LogOfProject, LogOfPlatform, Whole, Clean, WillBeLogged, insertSnapshot, Dropping, Writing
<1>5. CASE DropTable(a)
  <2>1. PICK n \in Module :
          /\ run[a].pc = "drop"
          /\ run' = [run EXCEPT ![a].todo = @ \ {n}]
          /\ table' = [table EXCEPT ![n] = 0]
          /\ doubt' = [doubt EXCEPT ![n] = @ \union {"torn"}]
          /\ UNCHANGED <<state, last>>
    BY <1>5 DEF DropTable, Reached
  <2>2. /\ run'[a].pc = "drop" /\ run'[a].todo = run[a].todo \ {n}
        /\ run'[a].reg = run[a].reg /\ run'[a].last = run[a].last /\ run'[a].mode = run[a].mode
        /\ run'[a].rebuild = run[a].rebuild /\ run'[a].removed = run[a].removed
        /\ run'[a].blind = run[a].blind
    BY <2>1, <1>t DEF RunType
  <2>3. Owned(run'[a]) = Owned(run[a])
    BY <2>2 DEF Owned, Named, UnderPrefix
  <2>4. /\ m = n => table'[m] = 0 /\ ~Whole(m)'
        /\ m # n => table'[m] = table[m] /\ doubt'[m] = doubt[m]
        /\ Clean(m)' <=> Clean(m)
    BY <2>1, <1>t DEF Whole, Clean, Registries
  <2>5. Made(a, m)' /\ Read(a, m)'
    BY <2>2 DEF Made, Read, Writing
  <2>6. Dropped(a, m)' /\ Kept(a, m)' /\ Undefined(a, m)'
    BY <2>1, <2>2, <2>3, <2>4, <1>s DEF Knows, Dropped, Kept, Undefined, Left, Whole, Clean, Dropping
  <2>7. LogOfProject(a, m)' /\ LogOfPlatform(a, m)'
    BY <2>1, <2>2, <2>4, <1>s DEF Knows, LogOfProject, LogOfPlatform, WillBeLogged, insertSnapshot, Writing
  <2>8. Planned(a, m)' /\ Settled(a, m)'
    BY <2>1, <2>2, <2>4, <1>s DEF Knows, Planned, Settled
  <2> QED BY <2>5, <2>6, <2>7, <2>8 DEF Knows
<1>6. CASE DropLog(a) \/ CreateLog(a)
  <2>1. /\ Log \in run[a].todo /\ run[a].pc \in {"drop", "create"} /\ run' = [run EXCEPT ![a].todo = @ \ {Log}]
        /\ last' \in {NoTable, NoRow} /\ UNCHANGED <<table, state, doubt>>
    BY <1>6 DEF DropLog, CreateLog, Reached
  <2>2. /\ run'[a].pc = run[a].pc /\ run'[a].todo = run[a].todo \ {Log}
        /\ run'[a].reg = run[a].reg /\ run'[a].last = run[a].last /\ run'[a].mode = run[a].mode
        /\ run'[a].rebuild = run[a].rebuild /\ run'[a].removed = run[a].removed
        /\ run'[a].blind = run[a].blind
    BY <2>1, <1>t DEF RunType
  <2>3. Owned(run'[a]) = Owned(run[a])
    BY <2>2 DEF Owned, Named, UnderPrefix
  <2>4. last' \notin Registries /\ run[a].last # run[a].reg
    BY <2>1, <1>s, <1>t DEF Shape, Dropping
  <2>5. m \in run'[a].todo <=> m \in run[a].todo
    BY <2>2, <1>t
  <2>6. Made(a, m)' /\ Dropped(a, m)' /\ Kept(a, m)' /\ Undefined(a, m)' /\ Read(a, m)'
    BY <2>1, <2>2, <2>3, <2>5, <1>s DEF Knows, Made, Dropped, Kept, Undefined, Left, Read, Whole, Clean
  <2>7. LogOfProject(a, m)' /\ LogOfPlatform(a, m)'
    BY <2>1, <2>2, <2>4 DEF LogOfProject, LogOfPlatform, WillBeLogged, insertSnapshot, Writing
  <2>8. Planned(a, m)' /\ Settled(a, m)'
    BY <2>1, <2>2, <1>s DEF Knows, Planned, Settled, Clean
  <2> QED BY <2>6, <2>7, <2>8 DEF Knows
<1>7. CASE DropsDone(a)
  <2>1. /\ run[a].pc = "drop" /\ run[a].todo = {} /\ run'[a].pc = "create"
        /\ run[a].rebuild \subseteq run'[a].todo
        /\ run'[a].reg = run[a].reg /\ run'[a].last = run[a].last /\ run'[a].mode = run[a].mode
        /\ run'[a].rebuild = run[a].rebuild /\ run'[a].removed = run[a].removed
        /\ run'[a].blind = run[a].blind
        /\ UNCHANGED <<table, state, last, doubt>>
    BY <1>7, <1>t DEF DropsDone, Reached, RunType, database, tablesToCreate
  <2>2. Owned(run'[a]) = Owned(run[a])
    BY <2>1 DEF Owned, Named, UnderPrefix
  <2> QED BY <2>1, <2>2, <1>s DEF Knows, Made, Dropped, Kept, Undefined, Left, Read, Planned, Settled,
    LogOfProject, LogOfPlatform, Whole, Clean, WillBeLogged, insertSnapshot, Dropping, Writing
<1>8. CASE CreateTable(a)
  <2>1. PICK n \in run[a].todo :
          /\ run[a].pc = "create" /\ Log \notin run[a].todo
          /\ run' = [run EXCEPT ![a].todo = @ \ {n}]
          /\ table' = [table EXCEPT ![n] = run[a].reg[n]]
          /\ doubt' = [doubt EXCEPT ![n] =
               (@ \union {"torn"}) \ IF Alone(a) /\ WillBeLogged(a) THEN {"mixed"} ELSE {}]
          /\ UNCHANGED <<state, last>>
    BY <1>8 DEF CreateTable, Reached
  <2>2. /\ run'[a].pc = "create" /\ run'[a].todo = run[a].todo \ {n}
        /\ run'[a].reg = run[a].reg /\ run'[a].last = run[a].last /\ run'[a].mode = run[a].mode
        /\ run'[a].rebuild = run[a].rebuild /\ run'[a].removed = run[a].removed
        /\ run'[a].blind = run[a].blind
    BY <2>1, <1>t DEF RunType
  <2>3. Owned(run'[a]) = Owned(run[a])
    BY <2>2 DEF Owned, Named, UnderPrefix
  <2>4. n \in run[a].rebuild /\ n \in Module
    BY <2>1, <1>s, <1>t DEF Shape, RunType
  <2>5. /\ m = n => table'[m] = run[a].reg[m] /\ (Clean(m)' => Clean(m) \/ WillBeLogged(a))
        /\ m # n => table'[m] = table[m] /\ doubt'[m] = doubt[m]
    BY <2>1, <1>t DEF Clean, Registries
  <2>6. Made(a, m)' /\ Dropped(a, m)' /\ Read(a, m)'
    BY <2>1, <2>2, <2>3, <2>4, <2>5, <1>s DEF Knows, Made, Dropped, Read, Clean, Writing
  <2>7. Kept(a, m)' /\ Undefined(a, m)'
    BY <2>1, <2>2, <2>3, <2>4, <2>5, <1>s DEF Knows, Kept, Undefined, Left, Whole, Clean, Dropping
  <2>8. LogOfProject(a, m)'
    BY <2>1, <2>2, <1>s DEF Knows, LogOfProject, Writing
  <2>9. LogOfPlatform(a, m)'
    <3>1. WillBeLogged(a)' <=> WillBeLogged(a)
      BY <2>1, <2>2 DEF WillBeLogged, insertSnapshot
    <3>2. Clean(m)' => Clean(m) \/ WillBeLogged(a)
      BY <2>5 DEF Clean
    <3> QED BY <2>1, <2>2, <3>1, <3>2, <1>s DEF Knows, LogOfPlatform, Dropping, Writing
  <2>10. Planned(a, m)' /\ Settled(a, m)'
    BY <2>2 DEF Planned, Settled
  <2> QED BY <2>6, <2>7, <2>8, <2>9, <2>10 DEF Knows
<1>9. CASE InsertSnapshot(a)
  <2>1. /\ run[a].pc = "create" /\ run[a].todo = {} /\ run'[a].pc = "forget"
        /\ run'[a].reg = run[a].reg /\ run'[a].last = run[a].last /\ run'[a].mode = run[a].mode
        /\ run'[a].rebuild = run[a].rebuild /\ run'[a].removed = run[a].removed
        /\ run'[a].blind = run[a].blind
        /\ UNCHANGED <<table, state, doubt>>
    BY <1>9, <1>t DEF InsertSnapshot, Reached, RunType
  <2>2. Owned(run'[a]) = Owned(run[a])
    BY <2>1 DEF Owned, Named, UnderPrefix
  <2>3. IF run[a].last # run[a].reg THEN last' = run[a].reg ELSE last' = last
    BY <1>9 DEF InsertSnapshot, insertSnapshot
  <2>4. Made(a, m)' /\ Dropped(a, m)' /\ Kept(a, m)' /\ Undefined(a, m)' /\ Read(a, m)'
    BY <2>1, <2>2, <1>s DEF Knows, Made, Dropped, Kept, Undefined, Left, Read, Whole, Clean, Dropping, Writing
  <2>5. LogOfProject(a, m)'
    BY <2>1, <2>3, <1>s DEF Knows, LogOfProject, Dropping, Writing
  <2>6. LogOfPlatform(a, m)'
    BY <2>1, <2>3, <1>s DEF Knows, LogOfPlatform, Clean, WillBeLogged, insertSnapshot, Dropping, Writing
  <2>7. Planned(a, m)' /\ Settled(a, m)'
    BY <2>1 DEF Planned, Settled
  <2> QED BY <2>4, <2>5, <2>6, <2>7 DEF Knows
<1>10. CASE ForgetStates(a)
  <2>1. /\ run[a].pc = "forget" /\ run'[a].pc = "record"
        /\ run'[a].reg = run[a].reg /\ run'[a].last = run[a].last /\ run'[a].mode = run[a].mode
        /\ run'[a].rebuild = run[a].rebuild /\ run'[a].removed = run[a].removed
        /\ run'[a].blind = run[a].blind
        /\ UNCHANGED <<table, last>>
    BY <1>10, <1>t DEF ForgetStates, Reached, RunType
  <2>2. (Clean(m)' <=> Clean(m)) /\ (m \in Defined(run[a].reg) => (Whole(m)' <=> Whole(m)))
    BY <1>10, <1>t DEF ForgetStates, Clean, Whole
  <2>3. Made(a, m)' /\ Dropped(a, m)' /\ Kept(a, m)' /\ Undefined(a, m)' /\ Read(a, m)'
    BY <2>1, <2>2, <1>s DEF Knows, Made, Dropped, Kept, Undefined, Left, Read, Dropping, Writing
  <2>4. LogOfProject(a, m)' /\ LogOfPlatform(a, m)'
    BY <2>1, <2>2, <1>s DEF Knows, LogOfProject, LogOfPlatform, Dropping, Writing
  <2>5. Planned(a, m)' /\ Settled(a, m)'
    BY <2>1 DEF Planned, Settled
  <2> QED BY <2>3, <2>4, <2>5 DEF Knows
<1>11. CASE RecordState(a)
  <2>1. PICK n \in run[a].todo :
          /\ run[a].pc = "record"
          /\ run' = [run EXCEPT ![a].todo = @ \ {n}]
          /\ doubt' = [doubt EXCEPT ![n] =
               @ \ ({"forgotten", "orphaned"} \union IF n \in run[a].rebuild THEN {"torn"} ELSE {})]
          /\ UNCHANGED <<table, last>>
    BY <1>11 DEF RecordState, Reached
  <2>2. /\ run'[a].pc = "record"
        /\ run'[a].reg = run[a].reg /\ run'[a].last = run[a].last /\ run'[a].mode = run[a].mode
        /\ run'[a].rebuild = run[a].rebuild /\ run'[a].removed = run[a].removed
        /\ run'[a].blind = run[a].blind
    BY <2>1, <1>t DEF RunType
  <2>3. (Clean(m)' <=> Clean(m)) /\ (m \notin run[a].rebuild => (Whole(m)' <=> Whole(m)))
    BY <2>1, <1>t DEF Clean, Whole
  <2>4. Made(a, m)' /\ Dropped(a, m)' /\ Kept(a, m)' /\ Undefined(a, m)' /\ Read(a, m)'
    BY <2>1, <2>2, <2>3, <1>s DEF Knows, Made, Dropped, Kept, Undefined, Left, Read, Dropping, Writing
  <2>5. LogOfProject(a, m)' /\ LogOfPlatform(a, m)'
    BY <2>1, <2>2, <2>3, <1>s DEF Knows, LogOfProject, LogOfPlatform, Dropping, Writing
  <2>6. Planned(a, m)' /\ Settled(a, m)'
    BY <2>2 DEF Planned, Settled
  <2> QED BY <2>4, <2>5, <2>6 DEF Knows
<1>12. CASE StartSeeds(a)
  <2>1. /\ run[a].pc \in {"apply", "record"} /\ run'[a].pc = "seed"
        /\ run'[a].todo = Defined(run[a].reg) \intersect HasSeeds
        /\ run'[a].reg = run[a].reg /\ UNCHANGED <<table, doubt>>
    BY <1>12, <1>t DEF StartSeeds, Reached, RunType, database, seedsOf
  <2>2. Settled(a, m)'
    BY <2>1, <1>s DEF Knows, Settled, Made, Kept, Whole, Clean, Defined, Writing
  <2> QED BY <2>1, <2>2 DEF Knows, Made, Dropped, Kept, Undefined, Left, Read, Planned,
    LogOfProject, LogOfPlatform, Dropping, Writing
<1>13. CASE SeedTable(a)
  <2>1. PICK n \in run[a].todo :
          /\ run[a].pc = "seed" /\ run' = [run EXCEPT ![a].todo = @ \ {n}]
          /\ seeded' = seeded \union {n} /\ UNCHANGED <<table, doubt>>
    BY <1>13 DEF SeedTable, Reached
  <2>2. run'[a].pc = "seed" /\ run'[a].todo = run[a].todo \ {n} /\ run'[a].reg = run[a].reg
    BY <2>1, <1>t DEF RunType
  <2>3. Settled(a, m)'
    BY <2>1, <2>2, <1>s DEF Knows, Settled, Whole, Clean
  <2> QED BY <2>2, <2>3 DEF Knows, Made, Dropped, Kept, Undefined, Left, Read, Planned,
    LogOfProject, LogOfPlatform, Dropping, Writing
<1> QED BY <1>1, <1>2, <1>3, <1>4, <1>5, <1>6, <1>7, <1>8, <1>9, <1>10, <1>11, <1>12, <1>13 DEF bootstrapSchema

-----------------------------------------------------------------------------
(* A step of a publication, seen by all.                                     *)

\* Two publications under way have mixed the platform.
LEMMA MixedStep ==
  ASSUME SchemaAssumption, SchemaInv, NEW a \in App, bootstrapSchema(a)
  PROVE  Mixed'
<1>t. /\ run \in [App -> RunType] /\ run[a] \in RunType /\ doubt \in [Module -> SUBSET Doubt]
      /\ Mixed
  BY DEF SchemaInv, TypeOK, RunType
<1>o. \A b \in App \ {a} : run'[b] = run[b]
  BY ForeignStep
<1>1. CASE Begin(a)
  <2>1. ~Alone(a) => \A m \in Platform : ~Clean(m)'
    BY <1>1, <1>t DEF Begin, Clean, Platform
  <2>2. \A m \in Platform : ~Clean(m) => ~Clean(m)'
    BY <1>1, <1>t DEF Begin, Clean, Platform
  <2>3. Alone(a) => \A b \in App \ {a} : ~UnderWay(b)'
    BY <1>o DEF Alone, UnderWay
  <2> QED BY <2>1, <2>2, <2>3, <1>o, <1>t DEF Mixed, UnderWay
<1>2. CASE ~Begin(a)
  <2>1. UnderWay(a)
    BY <1>2 DEF bootstrapSchema, readLastAppliedSnapshotId, planModuleRebuild, ListTables, DropTable,
      DropLog, DropsDone, CreateLog, CreateTable, InsertSnapshot, ForgetStates, RecordState, StartSeeds,
      SeedTable, Finish, StatementFails, Crash, Reached, UnderWay
  <2>2. \A m \in Platform : ~Alone(a) /\ ~Clean(m) => ~Clean(m)'
    <3>1. CASE CreateTable(a)
      BY <3>1, <1>t DEF CreateTable, Clean, Platform
    <3>2. CASE DropTable(a) \/ ForgetStates(a) \/ RecordState(a)
      <4>1. \A m \in Module : "mixed" \in doubt[m] => "mixed" \in doubt'[m]
        <5>1. CASE DropTable(a)
          BY <5>1, <1>t DEF DropTable
        <5>2. CASE ForgetStates(a)
          BY <5>2, <1>t DEF ForgetStates
        <5>3. CASE RecordState(a)
          <6>1. PICK n : doubt' = [doubt EXCEPT ![n] = @ \
                  ({"forgotten", "orphaned"} \union IF n \in run[a].rebuild THEN {"torn"} ELSE {})]
            BY <5>3 DEF RecordState
          <6> QED BY <6>1, <1>t
        <5> QED BY <3>2, <5>1, <5>2, <5>3
      <4> QED BY <4>1 DEF Clean, Platform
    <3>3. CASE ~(CreateTable(a) \/ DropTable(a) \/ ForgetStates(a) \/ RecordState(a))
      <4>1. UNCHANGED doubt
        BY <1>2, <3>3 DEF bootstrapSchema, readLastAppliedSnapshotId, planModuleRebuild, ListTables,
          DropLog, DropsDone, CreateLog, InsertSnapshot, StartSeeds, SeedTable, Finish, StatementFails, Crash
      <4> QED BY <4>1 DEF Clean
    <3> QED BY <3>1, <3>2, <3>3
  <2>3. \A b \in App : UnderWay(b)' => UnderWay(b)
    BY <2>1, <1>o DEF UnderWay
  <2>4. ASSUME NEW b \in App, NEW c \in App, b # c, UnderWay(b)', UnderWay(c)'
        PROVE  \A m \in Platform : ~Clean(m)'
    <3>1. UnderWay(b) /\ UnderWay(c)
      BY <2>3, <2>4
    <3>2. ~Alone(a)
      BY <3>1, <2>4 DEF Alone
    <3> QED BY <3>1, <3>2, <2>2, <2>4, <1>t DEF Mixed
  <2> QED BY <2>4 DEF Mixed
<1> QED BY <1>1, <1>2

\* What the log says of modules that are whole is true.
LEMMA LoggedStep ==
  ASSUME SchemaAssumption, SchemaInv, NEW a \in App, bootstrapSchema(a)
  PROVE  Logged'
<1>t. /\ run \in [App -> RunType] /\ run[a] \in RunType /\ doubt \in [Module -> SUBSET Doubt]
      /\ table \in Registries /\ NoRow \notin Registries /\ NoTable \notin Registries
      /\ Logged /\ Shape(a) /\ \A m \in Module : Knows(a, m)
  BY DEF SchemaInv, TypeOK, RunType, SchemaAssumption, Registries, Version
<1> SUFFICES ASSUME last' \in Registries, NEW m \in Module, last'[m] # 0, Whole(m)'
             PROVE  table'[m] = last'[m]
  BY DEF Logged, Defined
<1>1. CASE Begin(a)
  <2>1. Whole(m) /\ UNCHANGED <<table, last>>
    BY <1>1, <1>t DEF Begin, Whole, Clean, database
  <2> QED BY <2>1, <1>t DEF Logged, Defined
<1>2. CASE DropTable(a) \/ CreateTable(a)
  <2>1. PICK n, v, w : /\ table' = [table EXCEPT ![n] = v]
                       /\ doubt' = [doubt EXCEPT ![n] = (@ \union {"torn"}) \ w]
                       /\ "torn" \notin w /\ UNCHANGED last
    <3>1. ASSUME DropTable(a)
          PROVE  \E n, v, w : /\ table' = [table EXCEPT ![n] = v]
                              /\ doubt' = [doubt EXCEPT ![n] = (@ \union {"torn"}) \ w]
                              /\ "torn" \notin w /\ UNCHANGED last
      <4>1. PICK n \in Module : /\ table' = [table EXCEPT ![n] = 0]
                                /\ doubt' = [doubt EXCEPT ![n] = @ \union {"torn"}]
                                /\ UNCHANGED last
        BY <3>1 DEF DropTable
      <4>2. doubt' = [doubt EXCEPT ![n] = (@ \union {"torn"}) \ {}]
        BY <4>1, <1>t
      <4> QED BY <4>1, <4>2
    <3>2. ASSUME CreateTable(a)
          PROVE  \E n, v, w : /\ table' = [table EXCEPT ![n] = v]
                              /\ doubt' = [doubt EXCEPT ![n] = (@ \union {"torn"}) \ w]
                              /\ "torn" \notin w /\ UNCHANGED last
      <4> DEFINE w == IF Alone(a) /\ WillBeLogged(a) THEN {"mixed"} ELSE {}
      <4>1. PICK n \in run[a].todo : /\ table' = [table EXCEPT ![n] = run[a].reg[n]]
                                     /\ doubt' = [doubt EXCEPT ![n] = (@ \union {"torn"}) \ w]
                                     /\ UNCHANGED last
        BY <3>2 DEF CreateTable
      <4>2. "torn" \notin w
        OBVIOUS
      <4> HIDE DEF w
      <4> QED BY <4>1, <4>2
    <3> QED BY <1>2, <3>1, <3>2
  <2>2. m # n
    BY <2>1, <1>t DEF Whole
  <2>3. Whole(m) /\ table'[m] = table[m]
    BY <2>1, <2>2, <1>t DEF Whole, Clean, Registries
  <2> QED BY <2>1, <2>3, <1>t DEF Logged, Defined
<1>3. CASE DropLog(a) \/ CreateLog(a)
  BY <1>3, <1>t DEF DropLog, CreateLog
<1>4. CASE InsertSnapshot(a)
  <2>1. run[a].pc = "create" /\ run[a].todo = {} /\ UNCHANGED <<table, doubt>>
        /\ last' \in {last, run[a].reg}
    BY <1>4 DEF InsertSnapshot, Reached
  <2>2. Whole(m)
    BY <2>1 DEF Whole, Clean
  <2>3. CASE last' = last
    BY <2>1, <2>2, <2>3, <1>t DEF Logged, Defined
  <2>4. CASE last' = run[a].reg
    <3>1. Made(a, m) /\ Kept(a, m)
      BY <1>t DEF Knows
    <3> QED BY <2>1, <2>2, <2>4, <3>1 DEF Made, Kept, Whole, Defined, Dropping
  <2> QED BY <2>1, <2>3, <2>4
<1>5. CASE ForgetStates(a)
  <2> DEFINE u == run[a]
  <2>1. u.pc = "forget" /\ UNCHANGED <<table, last>>
    BY <1>5 DEF ForgetStates, Reached
  <2>2. CASE Whole(m)
    BY <2>1, <2>2, <1>t DEF Logged, Defined
  <2>3. CASE ~Whole(m)
    <3>1. m \in OwnModules(u.reg) \ Defined(u.reg) /\ Clean(m)
      BY <1>5, <2>3, <1>t DEF ForgetStates, Whole, Clean
    <3>2. u.reg \in RegistriesOf(a)
      BY <2>1, <1>t DEF Shape, UnderWay
    <3>3. (m \in Platform \/ Owner[m] = a) /\ u.reg[m] = 0
      BY <3>1, <3>2, Registry DEF Defined
    <3>4. LogOfProject(a, m)' /\ LogOfPlatform(a, m)'
      BY OwnKnows DEF Knows
    <3>5. run'[a].pc = "record" /\ run'[a].reg = u.reg
      BY <1>5, <1>t DEF ForgetStates, RunType
    <3>6. m \notin Defined(last)
      <4>1. CASE Owner[m] = a
        BY <2>1, <3>3, <3>4, <3>5, <4>1 DEF LogOfProject, Writing, Defined
      <4>2. CASE m \in Platform
        BY <2>1, <3>3, <3>4, <3>5, <4>2 DEF LogOfPlatform, Writing, Whole, Defined
      <4> QED BY <3>3, <4>1, <4>2
    <3> QED BY <2>1, <3>6 DEF Defined
  <2> QED BY <2>2, <2>3
<1>6. CASE RecordState(a)
  <2> DEFINE u == run[a]
  <2>1. PICK n \in u.todo :
          /\ u.pc = "record"
          /\ doubt' = [doubt EXCEPT ![n] =
               @ \ ({"forgotten", "orphaned"} \union IF n \in u.rebuild THEN {"torn"} ELSE {})]
          /\ UNCHANGED <<table, last>>
    BY <1>6 DEF RecordState, Reached
  <2>2. CASE Whole(m)
    BY <2>1, <2>2, <1>t DEF Logged, Defined
  <2>3. CASE ~Whole(m)
    <3>1. m \in u.rebuild /\ Clean(m)
      BY <2>1, <2>3, <1>t DEF Whole, Clean
    <3>2. table[m] = u.reg[m]
      BY <2>1, <3>1, <1>t DEF Knows, Made, Writing
    <3>3. m \in Platform => last = u.reg
      BY <2>1, <3>1, <1>t DEF Knows, LogOfPlatform, Writing
    <3>4. Owner[m] = a => last[m] \in {0, u.reg[m]}
      BY <2>1, <1>t DEF Knows, LogOfProject, Writing
    <3>5. m \in Platform \/ Owner[m] = a
      <4>1. u.reg \in RegistriesOf(a) /\ m \in Defined(u.reg)
        BY <2>1, <3>1, <1>t DEF Shape, UnderWay, Writing
      <4> QED BY <4>1, Registry
    <3> QED BY <2>1, <3>2, <3>3, <3>4, <3>5
  <2> QED BY <2>2, <2>3
<1>7. CASE \/ readLastAppliedSnapshotId(a) \/ planModuleRebuild(a) \/ ListTables(a) \/ DropsDone(a)
           \/ StartSeeds(a) \/ SeedTable(a) \/ Finish(a) \/ StatementFails(a) \/ Crash(a)
  <2>1. UNCHANGED <<table, last, doubt>>
    BY <1>7 DEF readLastAppliedSnapshotId, planModuleRebuild, ListTables, DropsDone, StartSeeds,
      SeedTable, Finish, StatementFails, Crash, database
  <2> QED BY <2>1, <1>t DEF Logged, Defined, Whole, Clean
<1> QED BY <1>1, <1>2, <1>3, <1>4, <1>5, <1>6, <1>7 DEF bootstrapSchema

\* What is recorded of a module that is not in doubt is true.
LEMMA StateStep ==
  ASSUME SchemaAssumption, SchemaInv, NEW a \in App, bootstrapSchema(a)
  PROVE  StateIsTrue'
<1>t. /\ run \in [App -> RunType] /\ run[a] \in RunType /\ doubt \in [Module -> SUBSET Doubt]
      /\ table \in Registries /\ state \in Registries
      /\ StateIsTrue /\ Shape(a) /\ \A m \in Module : Knows(a, m)
  BY DEF SchemaInv, TypeOK, RunType
<1> SUFFICES ASSUME NEW m \in Module, Intact(m)'
             PROVE  state'[m] = table'[m] \/ (state'[m] = 0 /\ doubt'[m] # {})
  BY DEF StateIsTrue, Intact
<1>i. doubt'[m] \subseteq {"forgotten", "orphaned"}
  BY DEF Intact
<1>o. doubt[m] \subseteq {"forgotten", "orphaned"} => state[m] = table[m] \/ (state[m] = 0 /\ doubt[m] # {})
  BY <1>t DEF StateIsTrue, Intact
<1>1. CASE Begin(a)
  <2>1. UNCHANGED <<table, state>> /\ (doubt'[m] = doubt[m] \/ "mixed" \in doubt'[m])
    BY <1>1, <1>t DEF Begin, database
  <2> QED BY <2>1, <1>i, <1>o
<1>2. CASE DropTable(a) \/ CreateTable(a)
  <2>1. /\ UNCHANGED state
        /\ (table'[m] = table[m] /\ doubt'[m] = doubt[m]) \/ "torn" \in doubt'[m]
    BY <1>2, <1>t DEF DropTable, CreateTable, Registries
  <2> QED BY <2>1, <1>i, <1>o
<1>3. CASE ForgetStates(a)
  <2> DEFINE u == run[a]
             own == OwnModules(u.reg)
             gone == own \ Defined(u.reg)
             over == IF u.mode \in {"full", "modules"} THEN gone \intersect Owned(u) ELSE {}
             left == {n \in gone : n \in Platform \/ <<n, n>> \notin Prefixed \/ u.blind}
  <2>1. /\ u.pc = "forget" /\ UNCHANGED table
        /\ state'[m] = IF m \in own THEN 0 ELSE state[m]
        /\ doubt'[m] = (doubt[m] \union
                           (IF m \in own \ gone /\ state[m] # 0 THEN {"forgotten"} ELSE {}) \union
                           (IF m \in left /\ state[m] # 0 THEN {"orphaned"} ELSE {}))
                         \ (IF m \in over THEN {"torn", "forgotten", "orphaned"} ELSE {})
    BY <1>3 DEF ForgetStates, Reached
  <2>2. Dropped(a, m) /\ Undefined(a, m)
    BY <1>t DEF Knows
  <2>c. Clean(m)
    BY <2>1, <1>i, <1>t DEF Clean
  <2>3. m \in over => table[m] = 0
    BY <2>1, <2>2, <2>c, <1>t DEF Dropped, Shape, Writing
  <2>4. m \in gone => state[m] = 0 \/ m \in Owned(u) \/ m \in left
    BY <2>1, <2>2 DEF Undefined, Left
  <2>5. u.mode \in {"full", "modules", "recordOnly"} /\ (u.mode = "recordOnly" => Owned(u) = {})
    BY <2>1, <1>t DEF Shape, Writing, RunType, Owned, Named, UnderPrefix
  <2> HIDE DEF own, gone, over, left
  <2>6. CASE m \notin own
    <3>1. m \notin gone /\ m \notin over /\ m \notin left
      BY <2>6 DEF gone, over, left
    <3> QED BY <2>1, <2>6, <3>1, <1>i, <1>o
  <2>7. CASE m \in over
    BY <2>1, <2>3, <2>7 DEF own, gone, over
  <2>8. CASE m \in gone \ over
    <3>1. state[m] = 0 \/ m \in left
      BY <2>4, <2>5, <2>8 DEF over
    <3> QED BY <2>1, <2>8, <3>1, <1>i, <1>o DEF own, gone
  <2>9. CASE m \in own \ (gone \union over)
    BY <2>1, <2>9, <1>i, <1>o
  <2> QED BY <2>6, <2>7, <2>8, <2>9
<1>4. CASE RecordState(a)
  <2> DEFINE u == run[a]
  <2>1. PICK n \in u.todo :
          /\ u.pc = "record" /\ UNCHANGED table
          /\ state' = [state EXCEPT ![n] = u.reg[n]]
          /\ doubt' = [doubt EXCEPT ![n] =
               @ \ ({"forgotten", "orphaned"} \union IF n \in u.rebuild THEN {"torn"} ELSE {})]
    BY <1>4 DEF RecordState, Reached
  <2>2. n \in Defined(u.reg)
    BY <2>1, <1>t DEF Shape
  <2>3. CASE m # n
    BY <2>1, <2>3, <1>t, <1>i, <1>o DEF Registries
  <2>4. CASE m = n
    <3>1. Clean(m) /\ (m \notin u.rebuild => Whole(m))
      <4>1. doubt'[m] = doubt[m] \ ({"forgotten", "orphaned"} \union IF m \in u.rebuild THEN {"torn"} ELSE {})
        BY <2>1, <2>4, <1>t
      <4> QED BY <4>1, <1>i DEF Clean, Whole
    <3>2. Made(a, m) /\ Kept(a, m)
      BY <1>t DEF Knows
    <3>3. table[m] = u.reg[m]
      BY <2>1, <2>2, <2>4, <3>1, <3>2 DEF Made, Kept, Writing
    <3> QED BY <2>1, <2>4, <3>3, <1>t DEF Registries
  <2> QED BY <2>3, <2>4
<1>5. CASE \/ readLastAppliedSnapshotId(a) \/ planModuleRebuild(a) \/ ListTables(a) \/ DropsDone(a)
           \/ StartSeeds(a) \/ SeedTable(a) \/ Finish(a) \/ StatementFails(a) \/ Crash(a)
           \/ DropLog(a) \/ CreateLog(a) \/ InsertSnapshot(a)
  <2>1. UNCHANGED <<table, state, doubt>>
    BY <1>5 DEF readLastAppliedSnapshotId, planModuleRebuild, ListTables, DropsDone, StartSeeds,
      SeedTable, Finish, StatementFails, Crash, DropLog, CreateLog, InsertSnapshot, database
  <2> QED BY <2>1, <1>i, <1>o
<1> QED BY <1>1, <1>2, <1>3, <1>4, <1>5 DEF bootstrapSchema

-----------------------------------------------------------------------------
\* The invariant holds at the start, when nothing is published.
LEMMA InvStarts == SchemaAssumption /\ BootstrapInit => SchemaInv
<1> SUFFICES ASSUME SchemaAssumption, BootstrapInit PROVE SchemaInv
  OBVIOUS
<1>1. Absent \in Registries /\ 0 \in Version
  BY DEF Absent, Registries, Version, SchemaAssumption
<1>2. Idle \in RunType
  BY <1>1 DEF Idle, RunType
<1>3. TypeOK
  BY <1>1, <1>2 DEF BootstrapInit, TypeOK, RunType, SchemaAssumption
<1>4. \A a \in App : run[a].pc = "idle"
  BY DEF BootstrapInit, Idle
<1>5. \A a \in App : Shape(a)
  BY <1>4 DEF Shape, UnderWay, Dropping, Writing
<1>6. \A a \in App, m \in Module : Knows(a, m)
  BY <1>4 DEF Knows, Made, Dropped, Kept, Undefined, Left, Read, Planned, Settled,
    LogOfProject, LogOfPlatform, Dropping, Writing
<1>7. Mixed
  BY <1>4 DEF Mixed, UnderWay
<1>8. Logged
  BY DEF BootstrapInit, Logged, SchemaAssumption, Registries, Version
<1>9. StateIsTrue
  BY DEF BootstrapInit, StateIsTrue, Absent
<1> QED BY <1>3, <1>5, <1>6, <1>7, <1>8, <1>9 DEF SchemaInv

\* Every step keeps the invariant.
LEMMA InvStays == SchemaAssumption /\ SchemaInv /\ [BootstrapNext]_bootstrapVars => SchemaInv'
<1> SUFFICES ASSUME SchemaAssumption, SchemaInv, [BootstrapNext]_bootstrapVars PROVE SchemaInv'
  OBVIOUS
<1>1. CASE BootstrapNext
  <2>1. PICK a \in App : bootstrapSchema(a)
    BY <1>1 DEF BootstrapNext
  <2>2. TypeOK'
    BY <2>1, TypeStep
  <2>3. \A b \in App : Shape(b)'
    <3>1. Shape(a)'
      BY <2>1, OwnShape
    <3>2. ASSUME NEW b \in App, b # a PROVE Shape(b)'
      <4>1. run'[b] = run[b]
        BY <2>1, <3>2, ForeignStep
      <4> QED BY <4>1 DEF SchemaInv, Shape, UnderWay, Owned, Named, UnderPrefix
    <3> QED BY <3>1, <3>2
  <2>4. ASSUME NEW b \in App, NEW m \in Module PROVE Knows(b, m)'
    <3>1. CASE b = a
      BY <2>1, <3>1, OwnKnows
    <3>2. CASE b # a
      BY <2>1, <3>2, OthersKnow
    <3> QED BY <3>1, <3>2
  <2>5. Mixed' /\ Logged' /\ StateIsTrue'
    BY <2>1, MixedStep, LoggedStep, StateStep
  <2> QED BY <2>2, <2>3, <2>4, <2>5 DEF SchemaInv
<1>2. CASE UNCHANGED bootstrapVars
  <2>1. UNCHANGED <<table, seeded, state, last, run, runs, failures, doubt>>
    BY <1>2 DEF bootstrapVars, database
  <2>2. TypeOK'
    BY <2>1 DEF SchemaInv, TypeOK
  <2>3. \A a \in App : Shape(a)'
    BY <2>1 DEF SchemaInv, Shape, UnderWay, Owned, Named, UnderPrefix
  <2>4. \A a \in App, m \in Module : Knows(a, m)'
    <3> SUFFICES ASSUME NEW a \in App, NEW m \in Module PROVE Knows(a, m)'
      OBVIOUS
    <3>1. Knows(a, m)
      BY DEF SchemaInv
    <3>2. Made(a, m)' /\ Dropped(a, m)' /\ Kept(a, m)' /\ Undefined(a, m)' /\ Read(a, m)'
      BY <2>1, <3>1 DEF Knows, Made, Dropped, Kept, Undefined, Left, Read, Whole, Clean, Owned, Named, UnderPrefix
    <3>3. LogOfProject(a, m)' /\ LogOfPlatform(a, m)'
      BY <2>1, <3>1 DEF Knows, LogOfProject, LogOfPlatform, Clean, WillBeLogged, insertSnapshot
    <3>4. Planned(a, m)' /\ Settled(a, m)'
      BY <2>1, <3>1 DEF Knows, Planned, Settled, Whole, Clean
    <3> QED BY <3>2, <3>3, <3>4 DEF Knows
  <2>5. Mixed' /\ Logged' /\ StateIsTrue'
    BY <2>1 DEF SchemaInv, Mixed, Logged, StateIsTrue, Intact, Whole, Clean, UnderWay
  <2> QED BY <2>2, <2>3, <2>4, <2>5 DEF SchemaInv
<1> QED BY <1>1, <1>2

\* The inductive invariant is one.
THEOREM SchemaInvariant == BootstrapSpec => []SchemaInv
<1>1. SchemaAssumption
  BY SchemaAssumption
<1> QED BY <1>1, InvStarts, InvStays, PTL DEF BootstrapSpec

\* The type invariant of the publications (schemaBootstrap.ts).
THEOREM SchemaTypeCorrect == BootstrapSpec => []TypeOK
<1>1. SchemaInv => TypeOK
  BY DEF SchemaInv
<1> QED BY <1>1, SchemaInvariant, PTL

\* What _schema_module_state says of a module is true of its tables, but for
\* modules in doubt: whatever publications run at a time, wherever they die
\* (writeModuleState and rebuildPostgresSchema in schemaBootstrap.ts).
THEOREM StateStaysTrue == BootstrapSpec => []StateIsTrue
<1>1. SchemaInv => StateIsTrue
  BY DEF SchemaInv
<1> QED BY <1>1, SchemaInvariant, PTL

\* Tables go only with a change of their module, but for what the code does
\* besides: a module in doubt, a prefix or a name that is another's, the platform
\* in a full publication, all of an app whose record it cannot read (planModuleRebuild, ownedNamesFor and rebuildPostgresSchema).
THEOREM TablesStayKept == BootstrapSpec => TablesKept
<1>1. SchemaAssumption
  BY SchemaAssumption
<1>2. ASSUME SchemaAssumption, SchemaInv, [BootstrapNext]_bootstrapVars, NEW m \in Module, table[m] # 0, table'[m] = 0
      PROVE  \E a \in App :
               LET u == run[a]
               IN /\ u.pc = "drop"
                  /\ \/ u.reg[m] # table[m]
                     \/ doubt[m] # {}
                     \/ \E n \in u.rebuild \union u.removed : n # m /\ <<n, m>> \in Prefixed \union Shadowed
                     \/ u.mode = "full" /\ (m \in Platform \/ u.blind)
  <2>1. PICK a \in App : bootstrapSchema(a)
    BY <1>2 DEF BootstrapNext, bootstrapVars, database
  <2> DEFINE u == run[a]
  <2>t. /\ table \in Registries /\ run \in [App -> RunType] /\ u \in RunType /\ Log \notin Module
        /\ Shape(a) /\ Knows(a, m)
    BY <1>2 DEF SchemaInv, TypeOK, RunType, SchemaAssumption
  <2>2. DropTable(a)
    <3>1. CASE CreateTable(a)
      <4>1. PICK n \in u.todo : /\ u.pc = "create" /\ Log \notin u.todo
                                /\ table' = [table EXCEPT ![n] = u.reg[n]]
        BY <3>1 DEF CreateTable, Reached
      <4>2. u.reg[n] # 0
        BY <4>1, <2>t DEF Shape, Defined, Dropping, RunType
      <4> QED BY <4>1, <4>2, <1>2, <2>t DEF Registries
    <3>2. CASE ~DropTable(a) /\ ~CreateTable(a)
      <4>1. UNCHANGED table
        BY <2>1, <3>2 DEF bootstrapSchema, Begin, readLastAppliedSnapshotId, planModuleRebuild, ListTables,
          DropLog, DropsDone, CreateLog, InsertSnapshot, ForgetStates, RecordState, StartSeeds, SeedTable,
          Finish, StatementFails, Crash, database
      <4> QED BY <4>1, <1>2
    <3> QED BY <3>1, <3>2
  <2>3. u.pc = "drop" /\ m \in Owned(u)
    <3>1. PICK n \in u.todo : u.pc = "drop" /\ table' = [table EXCEPT ![n] = 0]
      BY <2>2 DEF DropTable, Reached
    <3>2. n = m
      BY <3>1, <1>2, <2>t DEF Registries
    <3> QED BY <3>1, <3>2, <2>t DEF Shape
  <2>4. doubt[m] = {} => state[m] = table[m]
    BY <1>2 DEF SchemaInv, StateIsTrue, Intact
  <2>5. Planned(a, m)
    BY <2>t DEF Knows
  <2>6. CASE u.mode = "full"
    <3>1. m \in Platform \/ m \in OwnModules(u.reg) \ Platform
      <4>1. m \in u.rebuild => m \in OwnModules(u.reg)
        BY <2>3, <2>t, <2>6 DEF Shape, OwnModules, Projects, Defined, Dropping
      <4>2. m \in Owned(u) => m \in u.rebuild \/ m \in Platform \/ m \in OwnModules(u.reg)
        BY <1>2 DEF Owned, Named, UnderPrefix, Platform, SchemaAssumption
      <4> QED BY <2>3, <4>1, <4>2
    <3> QED BY <2>3, <2>4, <2>5, <2>6, <3>1, <1>2 DEF Planned
  <2>7. CASE u.mode = "modules"
    <3>1. \/ m \in u.rebuild \union u.removed
          \/ \E n \in u.rebuild \union u.removed : n # m /\ <<n, m>> \in Prefixed \union Shadowed
      BY <2>3, <2>7 DEF Owned, Named, UnderPrefix
    <3>2. m \in u.rebuild /\ doubt[m] = {} => u.reg[m] # table[m]
      BY <2>3, <2>4, <2>5, <2>7 DEF Planned, Clean
    <3>3. m \in u.removed => u.reg[m] # table[m]
      BY <2>3, <2>5, <1>2 DEF Planned
    <3> QED BY <2>3, <3>1, <3>2, <3>3
  <2> QED BY <2>3, <2>6, <2>7, <2>t DEF Shape, Dropping, RunType
<1>3. SchemaAssumption /\ SchemaInv /\ [BootstrapNext]_bootstrapVars =>
        [\A m \in Module : table[m] # 0 /\ table'[m] = 0 => \E a \in App :
           LET u == run[a]
           IN /\ u.pc = "drop"
              /\ \/ u.reg[m] # table[m]
                 \/ doubt[m] # {}
                 \/ \E n \in u.rebuild \union u.removed : n # m /\ <<n, m>> \in Prefixed \union Shadowed
                 \/ u.mode = "full" /\ (m \in Platform \/ u.blind)]_bootstrapVars
  BY <1>2, Zenon
<1> QED BY <1>1, <1>3, SchemaInvariant, PTL DEF BootstrapSpec, TablesKept

\* A publication that ends well leaves the schema it brought, whatever died
\* before it, but for modules that are torn or mixed (bootstrapSchema).
THEOREM PublishedStays == BootstrapSpec => PublishedSchema
<1>1. SchemaAssumption
  BY SchemaAssumption
<1>2. ASSUME SchemaAssumption, SchemaInv, [BootstrapNext]_bootstrapVars, NEW a \in App, run[a].pc # "done", run'[a].pc = "done",
             NEW m \in Defined(run[a].reg), Intact(m)
      PROVE  table[m] = run[a].reg[m] /\ (m \in HasSeeds => m \in seeded)
  <2>t. run \in [App -> RunType] /\ run[a] \in RunType
    BY <1>2 DEF SchemaInv, TypeOK, RunType
  <2>1. PICK b \in App : bootstrapSchema(b)
    BY <1>2 DEF BootstrapNext, bootstrapVars
  <2>2. bootstrapSchema(a)
    BY <2>1, <1>2, ForeignStep
  <2>3. run[a].pc = "seed" /\ run[a].todo = {}
    <3>1. Begin(a) => run'[a].pc # "done"
      <4>1. ASSUME Begin(a) PROVE run'[a].pc = "last"
        <5>1. \E r : run'[a] = [Idle EXCEPT !.pc = "last", !.reg = r]
          BY <4>1, <2>t DEF Begin
        <5> QED BY <5>1 DEF Idle
      <4> QED BY <4>1
    <3>2. (\/ DropTable(a) \/ DropLog(a) \/ CreateLog(a)
           \/ CreateTable(a) \/ RecordState(a) \/ SeedTable(a)) => run'[a].pc = run[a].pc
      BY <2>t DEF DropTable, DropLog, CreateLog, CreateTable, RecordState, SeedTable, RunType
    <3>3. (\/ readLastAppliedSnapshotId(a) \/ planModuleRebuild(a) \/ ListTables(a) \/ DropsDone(a)
           \/ InsertSnapshot(a) \/ ForgetStates(a) \/ StartSeeds(a)) => run'[a].pc # "done"
      <4>1. planModuleRebuild(a) => run'[a].pc \in {"forget", "list", "apply"}
        BY <2>t DEF planModuleRebuild, RunType
      <4>2. ~planModuleRebuild(a) =>
              ((\/ readLastAppliedSnapshotId(a) \/ ListTables(a) \/ DropsDone(a)
                \/ InsertSnapshot(a) \/ ForgetStates(a) \/ StartSeeds(a)) => run'[a].pc # "done")
        BY <2>t DEF readLastAppliedSnapshotId, ListTables, DropsDone, InsertSnapshot,
          ForgetStates, StartSeeds, RunType
      <4> QED BY <4>1, <4>2
    <3>4. StatementFails(a) \/ Crash(a) => run'[a].pc # "done"
      BY <2>t DEF StatementFails, Crash, Idle
    <3>5. Finish(a)
      BY <2>2, <3>1, <3>2, <3>3, <3>4, <1>2 DEF bootstrapSchema
    <3> QED BY <3>5 DEF Finish, Reached
  <2>4. m \in Module /\ Whole(m)
    BY <1>2 DEF Defined, Whole, Clean, Intact
  <2>5. Settled(a, m)
    BY <2>4, <1>2 DEF SchemaInv, Knows
  <2> QED BY <2>3, <2>4, <2>5 DEF Settled
<1>3. SchemaAssumption /\ SchemaInv /\ [BootstrapNext]_bootstrapVars =>
        [\A a \in App :
           run[a].pc # "done" /\ run'[a].pc = "done" =>
             \A m \in Defined(run[a].reg) :
               Intact(m) =>
                 table[m] = run[a].reg[m] /\ (m \in HasSeeds => m \in seeded)]_bootstrapVars
  BY <1>2, Zenon
<1> QED BY <1>1, <1>3, SchemaInvariant, PTL DEF BootstrapSpec, PublishedSchema
=============================================================================
