--------------------------- MODULE MirroredTables ---------------------------
(***************************************************************************)
(* The tables of modules that are mirrored to DynamoDB (writeMode          *)
(* 'writeBehind', storageProfile 'postgresHotBackup'): what                 *)
(* PostgresTableRepository (l1/server/.../data/moduleDataRuntime.ts) does   *)
(* with their rows and the outbox, and the script that restores a table    *)
(* from the mirror while the servers run (persistence/restoreFromDynamo.ts).*)
(*                                                                         *)
(* version holds what the table has under a key: the number of the outbox  *)
(* row that was committed with it, 0 for none.  Transactions are READ       *)
(* COMMITTED.  Left out: updates.  With a column to compare they are always *)
(* refused, because the SELECT for the outbox has fewer parameters than its *)
(* WHERE, and their transaction is rolled back.                             *)
(***************************************************************************)
EXTENDS WriteBehind

CONSTANTS
  Key,     \* primary keys of a table, as ids of the mirror
  Delete   \* deletes that may run at a time

ASSUME KeyAssumption == Key \subseteq Id /\ IsFiniteSet(Key)

VARIABLES
  deleting,   \* deletes: where they are, the keys of their where, selected, gone
  restoring   \* the restore: where it is, what it scanned, what it has to load

tables  == <<deleting, restoring>>
allVars == <<vars, tables>>

NoDelete  == [pc |-> "idle", where |-> {}, selected |-> {}, gone |-> {}]
NoRestore == [pc |-> "idle", items |-> [k \in Key |-> 0], todo |-> {}]

InitTables ==
  /\ Init
  /\ deleting = [d \in Delete |-> NoDelete]
  /\ restoring = NoRestore

Number(k)  == Cardinality({row \in enqueued : row[1] = k})
NextRow(k) == <<k, Number(k) + 1>>
Stored(k)  == version[k] # 0
\* Rows that a delete removed and did not commit yet.
Locked     == UNION {deleting[d].gone : d \in Delete}

worker == <<attemptCount, batch, step, remote, faults, sent>>

-----------------------------------------------------------------------------
(* PostgresTableRepository                                                   *)

\* insert or upsert: the row and its outbox row in one transaction.
upsert(k) ==
  /\ k \notin Locked /\ Cardinality(enqueued) < MaxRows
  /\ version' = [version EXCEPT ![k] = NextRow(k)[2]]
  /\ enqueued' = enqueued \union {NextRow(k)}
  /\ Enqueue({NextRow(k)}, {})
  /\ UNCHANGED <<erased, worker, tables>>

\* delete: the rows that match are read for the outbox ...
SelectRows(d) == \E where \in (SUBSET Key) \ {{}} :
  /\ deleting[d].pc = "idle"
  /\ deleting' = [deleting EXCEPT ![d] =
       [pc |-> "delete", where |-> where, selected |-> {k \in where : Stored(k)}, gone |-> {}]]
  /\ UNCHANGED <<vars, restoring>>

\* ... then those that match by now are deleted ...
DeleteRows(d) ==
  /\ deleting[d].pc = "delete" /\ deleting[d].where \intersect Locked = {}
  /\ deleting' = [deleting EXCEPT ![d].pc = "commit",
                                  ![d].gone = {k \in deleting[d].where : Stored(k)}]
  /\ UNCHANGED <<vars, restoring>>

\* A faulty variant: the mirror is not told.
nothingDeleted(d) == {}

rowsToDelete(d) == deleting[d].selected

\* ... and those that were read go to the outbox.  A row that another transaction
\* inserted in between is deleted unseen; one that another deleted is deleted twice.
CommitDelete(d) ==
  LET rows == {NextRow(k) : k \in rowsToDelete(d)}
      selected == deleting[d].selected
      gone == deleting[d].gone
  IN /\ deleting[d].pc = "commit" /\ Cardinality(enqueued \union rows) <= MaxRows
     /\ version' = [k \in Id |-> IF k \in gone THEN 0 ELSE version[k]]
     /\ enqueued' = enqueued \union rows
     /\ erased' = erased \union rows
     /\ Enqueue(rows, (selected \ gone) \union (gone \ selected))
     /\ deleting' = [deleting EXCEPT ![d] = NoDelete]
     /\ UNCHANGED <<worker, restoring>>

\* A statement fails, or the process dies.
Rollback(d) ==
  /\ deleting[d].pc # "idle"
  /\ deleting' = [deleting EXCEPT ![d] = NoDelete]
  /\ UNCHANGED <<vars, restoring>>

-----------------------------------------------------------------------------
(* RegistryRestoreFromDynamoUsecase.restoreTable: no transaction, no outbox.  *)

\* What the mirror has of k when it is up to date.
Intended(k) == IF Number(k) = 0 THEN 0 ELSE Item(<<k, Number(k)>>)

\* The scan reads page by page, here at one moment: the property is about each key alone.
scanAllDynamoItems ==
  /\ restoring.pc = "idle"
  /\ restoring' = [pc |-> "truncate", items |-> [k \in Key |-> remote[k]], todo |-> {}]
  /\ UNCHANGED <<vars, deleting>>

\* TRUNCATE waits for the transactions that read or wrote the table.
Truncate ==
  LET items == restoring.items
  IN /\ restoring.pc = "truncate" /\ \A d \in Delete : deleting[d].pc = "idle"
     /\ version' = [k \in Id |-> IF k \in Key THEN 0 ELSE version[k]]
     /\ restoring' = [restoring EXCEPT !.pc = "load", !.todo = {k \in Key : items[k] # 0}]
     /\ disturbed' = disturbed \union {k \in Key : Intended(k) # items[k]}
     /\ UNCHANGED <<enqueued, erased, outbox, earlier, worker, deleting>>

upsertLocalRecord(k) ==
  /\ k \in restoring.todo \ Locked
  /\ version' = [version EXCEPT ![k] = restoring.items[k]]
  /\ restoring' = [restoring EXCEPT !.todo = @ \ {k}]
  /\ disturbed' = disturbed \union {j \in {k} : Intended(j) # restoring.items[j]}
  /\ UNCHANGED <<enqueued, erased, outbox, earlier, worker, deleting>>

RestoreDone ==
  /\ restoring.pc = "load" /\ restoring.todo = {}
  /\ restoring' = NoRestore
  /\ UNCHANGED <<vars, deleting>>

\* The script dies: what it did not load yet is not in the table.
RestoreCrash ==
  /\ restoring.pc # "idle" /\ Fault
  /\ restoring' = NoRestore
  /\ disturbed' = disturbed \union restoring.todo
  /\ UNCHANGED <<version, enqueued, erased, outbox, earlier, attemptCount, batch, step, remote, sent, deleting>>

-----------------------------------------------------------------------------
Tables ==
  \/ \E k \in Key : upsert(k) \/ upsertLocalRecord(k)
  \/ \E d \in Delete : SelectRows(d) \/ DeleteRows(d) \/ CommitDelete(d) \/ Rollback(d)
  \/ scanAllDynamoItems \/ Truncate \/ RestoreDone \/ RestoreCrash

Documents ==
  /\ \/ \E id \in Id \ Key : Commit(id) \/ Remove(id)
     \/ \E w \in Round : runOnce(w) \/ Abort(w)
  /\ UNCHANGED tables

SpecTables ==
  /\ InitTables /\ [][Tables \/ Documents]_allVars
  /\ \A w \in Round : WF_allVars(runOnce(w) /\ UNCHANGED tables)

-----------------------------------------------------------------------------
(* Properties                                                                *)

\* Once the outbox is empty and no restore is under way, table and mirror have the
\* same, but for rows that were disturbed on their way, whose delete met another
\* write between its SELECT and its DELETE, or that a restore took from a mirror
\* that was behind, wrote over or did not come to.
TablesAreMirrored ==
  Quiet /\ restoring.pc = "idle" => \A k \in Key \ disturbed : version[k] = remote[k]
=============================================================================
