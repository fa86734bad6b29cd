---------------------------- MODULE MCWakeInbox ----------------------------
(* Instances of WakeInbox for TLC: two firings of one occurrence, one of    *)
(* a wake and one of the wake that is armed after it.                        *)
EXTENDS WakeInbox, TLC

CONSTANTS e1, e2, o1, w1, w2

OneOccurrence == (e1 :> o1 @@ e2 :> o1)
NextWake      == (e1 :> 1 @@ e2 :> 2)
Symmetry      == Permutations(Worker)
=============================================================================
