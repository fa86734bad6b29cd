------------------------ MODULE MCActivityProjection ------------------------
(* An instance of ActivityProjection for TLC: a plan with a branch and a      *)
(* loop, so that a task can come back to a step, and callers that compete.    *)
EXTENDS ActivityProjection, TLC

CONSTANTS c1, c2, s1, s2, s3

Plan == s1 :> {s2, s3} @@ s2 :> {s1} @@ s3 :> {}
Symmetry == Permutations(Caller)
=============================================================================
