---------------------------- MODULE MCWriteBehind ----------------------------
(* An instance of MirroredTables for TLC: a document i1, a table with the key *)
(* k1 and two rounds.                                                        *)
EXTENDS MirroredTables

CONSTANTS i1, k1, w1, w2, d1

\* Documents alone, with rounds that overlap; or the table alone, with one round.
Scope ==
  \/ deleting[d1] = NoDelete /\ restoring = NoRestore /\ enqueued \intersect (Key \X Nat) = {}
  \/ batch[w2] = <<>> /\ enqueued \subseteq Key \X (1..2)
=============================================================================
