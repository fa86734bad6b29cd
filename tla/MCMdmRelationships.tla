------------------------- MODULE MCMdmRelationships -------------------------
(* Instances of MdmRelationships for TLC: a few records, two relationships    *)
(* that may share their ends, and two requests that may meet on them.         *)
EXTENDS MdmRelationships, TLC

CONSTANTS i1, i2, i3, l1, l2, r1, r2

Symmetry == Permutations(Id) \union Permutations(Rel) \union Permutations(Request)
=============================================================================
