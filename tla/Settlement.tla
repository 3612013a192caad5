----------------------------- MODULE Settlement -----------------------------
(***************************************************************************)
(* What one settlement promises to the outside, whatever happens to the    *)
(* processes that drive it.  The outside sees the durable outcome and the  *)
(* kinds of economic effect it has been ordered to carry out:              *)
(*   - funding is authorised first, once, before any other order;          *)
(*   - there is at most one outcome and it is never revised;               *)
(*   - Settled needs that the claim evidence was handed over for           *)
(*     consumption, Refunded needs nothing more than authorised funding    *)
(*     (the chain proves the refund);                                      *)
(*   - nothing is ordered once there is an outcome.                        *)
(***************************************************************************)

VARIABLES outcomes,   \* the set of terminal outcomes: {} or one element
          ordered     \* the kinds of effect ever put in the outbox

svars == <<outcomes, ordered>>

Orders == {"AuthorizeFunding", "RequestClaimConsumption", "ArmRefundPath",
           "RecordTerminalOutcome"}

Init == outcomes = {} /\ ordered = {}

Authorise ==
    /\ ordered = {}
    /\ ordered' = {"AuthorizeFunding"}
    /\ UNCHANGED outcomes

Open == outcomes = {} /\ "AuthorizeFunding" \in ordered

Order(kind) ==
    /\ Open
    /\ ordered' = ordered \cup {kind}
    /\ UNCHANGED outcomes

Finish(outcome) ==
    /\ Open
    /\ outcome = "Settled" => "RequestClaimConsumption" \in ordered
    /\ outcomes' = {outcome}
    /\ ordered' = ordered \cup {"RecordTerminalOutcome"}

Next ==
    \/ Authorise
    \/ \E kind \in {"RequestClaimConsumption", "ArmRefundPath"} : Order(kind)
    \/ \E outcome \in {"Settled", "Refunded"} : Finish(outcome)

Spec == Init /\ [][Next]_svars
=============================================================================
