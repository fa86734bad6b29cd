--------------------------- MODULE MCRegistration ---------------------------
(* An instance of Registration for TLC.                                        *)
EXTENDS Registration, TLC

CONSTANTS c1, c2, n1, n2, e1, e2, o1, o2

\* No call, fresh id, e-mail or organization is distinguished.
Symmetry == Permutations({c1, c2}) \union Permutations({n1, n2}) \union Permutations({e1, e2}) \union Permutations({o1, o2})

\* Four calls, or three and a contact that changes: nothing is explored beyond.
Scope == calls + contacts <= 4
=============================================================================
