----------------------------- MODULE MCDraftGit -----------------------------
(* An instance of DraftGit for TLC: two files, named one at a time or together. *)
EXTENDS DraftGit, TLC

CONSTANTS f1, f2, c1, c2

Some == SUBSET File \ {{}}

Symmetry == Permutations(File) \union Permutations(Caller)
=============================================================================
