---------------------------- MODULE MCMdmRecords ----------------------------
(* Instances of MdmRecords for TLC: two requests over two or three records   *)
(* and one legal document that they may all claim.                           *)
EXTENDS MdmRecords, TLC

CONSTANTS i1, i2, k1, r1, r2

Symmetry == Permutations(Id) \union Permutations(Request)
Everything == {"createEntity", "createProspect", "updateEntity",
               "updateProspect", "promote", "merge", "delete"}
=============================================================================
