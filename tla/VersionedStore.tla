--------------------------- MODULE VersionedStore ---------------------------
(***************************************************************************)
(* What the MDM promises of a record (l1/mdm/defs/rules.ts): a record is    *)
(* written under an id that is never given out twice, every write          *)
(* increments its version by one, and each committed version leaves        *)
(* exactly one row in the outbox, in the same step.                        *)
(***************************************************************************)
EXTENDS Naturals

CONSTANT Id

VARIABLES
  version,   \* 0: the record does not exist
  enqueued   \* every outbox row ever committed: <<id, version>>

vars == <<version, enqueued>>

Init == version = [id \in Id |-> 0] /\ enqueued = {}

Commit(id) ==
  /\ version[id] = 0 => \A row \in enqueued : row[1] # id
  /\ version' = [version EXCEPT ![id] = @ + 1]
  /\ enqueued' = enqueued \union {<<id, version[id] + 1>>}

Remove(id) ==
  /\ version[id] > 0
  /\ version' = [version EXCEPT ![id] = 0]
  /\ UNCHANGED enqueued

Next == \E id \in Id : Commit(id) \/ Remove(id)

Spec == Init /\ [][Next]_vars
=============================================================================
