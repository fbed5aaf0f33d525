--------------------------- MODULE DeliveryPromise ---------------------------
(***************************************************************************)
(* What a report exchange promises: the report is delivered, perhaps more  *)
(* than once but never more often than it is sent; it is reported acked    *)
(* only if it was delivered; and the sender gets to know, one way or the   *)
(* other.                                                                  *)
(***************************************************************************)
EXTENDS Naturals

CONSTANT Copies   \* how often a report is sent at most

VARIABLES
    deliveries,   \* how often the report was delivered
    outcome       \* what the sender knows: "open", "acked" or "failed"

promiseVars == <<deliveries, outcome>>

Init == deliveries = 0 /\ outcome = "open"

Deliver ==
    /\ outcome = "open"
    /\ deliveries < Copies
    /\ deliveries' = deliveries + 1
    /\ UNCHANGED outcome

Acknowledge ==
    /\ outcome = "open"
    /\ deliveries > 0
    /\ outcome' = "acked"
    /\ UNCHANGED deliveries

Fail ==
    /\ outcome = "open"
    /\ outcome' = "failed"
    /\ UNCHANGED deliveries

Next == Deliver \/ Acknowledge \/ Fail

Spec == Init /\ [][Next]_promiseVars /\ WF_promiseVars(Acknowledge \/ Fail)
=============================================================================
