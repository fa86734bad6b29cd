--------------------------- MODULE RevisionChain ---------------------------
(***************************************************************************)
(* What the candidate store promises of one module's candidate             *)
(* (l1/server/layer_1_external/candidate): a single chain of revisions.     *)
(* A revision is kept under a (change, revision) name that no other one    *)
(* ever gets, at most one agent result is accepted for it, only while it   *)
(* is the last one, and it is followed either by the output of that        *)
(* accepted result, if completed, or by a revision that supersedes it.     *)
(***************************************************************************)
EXTENDS Naturals, Sequences

CONSTANTS Name, Content, Result, NoResult

VARIABLE chain   \* the revisions published so far, oldest first

Latest == chain[Len(chain)]
Unused(n) == \A i \in 1..Len(chain) : chain[i].name # n
Revision(n, c, how) == [name |-> n, content |-> c, how |-> how, result |-> NoResult]

Init == chain = <<>>

Begin ==
  \E n \in Name, c \in Content :
    chain = <<>> /\ chain' = <<Revision(n, c, "first")>>

Accept ==
  \E r \in Result :
    /\ chain # <<>> /\ Latest.result = NoResult
    /\ chain' = [chain EXCEPT ![Len(chain)].result = r]

Adopt ==
  \E n \in Name :
    /\ chain # <<>> /\ Unused(n)
    /\ Latest.result # NoResult /\ Latest.result.status = "completed"
    /\ chain' = Append(chain, Revision(n, Latest.result.output, "adopted"))

Supersede ==
  \E n \in Name, c \in Content :
    /\ chain # <<>> /\ Unused(n)
    /\ chain' = Append(chain, Revision(n, c, "superseding"))

Next == Begin \/ Accept \/ Adopt \/ Supersede

Spec == Init /\ [][Next]_chain
=============================================================================
