--------------------------- MODULE MCCandidateStore ---------------------------
(* Instances of CandidateStore for TLC: two changes, one of which reuses the   *)
(* other's revisionId, and two snapshots that differ in the files they share;  *)
(* the first has one more, before them in path order.                          *)
EXTENDS CandidateStore, TLC

CONSTANTS h1, h2, v1, v2, s1, s2, q1, q2, t1, t2, c1, c2

Names      == {<<h1, v1>>, <<h1, v2>>, <<h2, v1>>}
OneChange  == {<<h1, v1>>, <<h1, v2>>}
ThreePaths == 1..3
Different  == [c \in Content |-> [p \in IF c = s1 THEN 1..3 ELSE 2..3 |-> c]]

Symmetry ==
  Permutations(RequestId) \union Permutations(ResultId) \union Permutations(Caller)
=============================================================================
