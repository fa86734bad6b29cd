---------------------------- MODULE WakeDelivery ----------------------------
(***************************************************************************)
(* What the wake inbox promises (l1/workflow/wakeContracts.ts): a firing   *)
(* that was stored stays stored until it is settled, it is settled once,   *)
(* and it is settled as accepted only if its handler ran.  The handler may *)
(* run more than once, and may still be running when the firing is settled *)
(* (at-least-once, not exactly-once).                                      *)
(***************************************************************************)
CONSTANT Event

VARIABLES
  status,  \* "none", "pending", "accepted" or "stale"
  served   \* firings whose handler ran

vars == <<status, served>>

Init == status = [e \in Event |-> "none"] /\ served = {}

Post(e) ==
  /\ status[e] = "none"
  /\ status' = [status EXCEPT ![e] = "pending"]
  /\ UNCHANGED served

Serve(e) ==
  /\ status[e] # "none"
  /\ served' = served \union {e}
  /\ UNCHANGED status

Settle(e) ==
  /\ status[e] = "pending"
  /\ \/ e \in served /\ status' = [status EXCEPT ![e] = "accepted"]
     \/ status' = [status EXCEPT ![e] = "stale"]
  /\ UNCHANGED served

Next == \E e \in Event : Post(e) \/ Serve(e) \/ Settle(e)

Spec == Init /\ [][Next]_vars
=============================================================================
