-------------------------------- MODULE Swap --------------------------------
(***************************************************************************)
(* What a composed route promises to the chains, whoever drives it and     *)
(* however often the driver dies.  The outside sees how much of each of    *)
(* the six actions is on a chain, and whether the secret is public:        *)
(*   - downstream money is locked only while upstream money is locked, and *)
(*     no leg is funded once it has an exit;                               *)
(*   - the secret is given away downstream only when both legs are funded  *)
(*     and neither is on its way back;                                     *)
(*   - the upstream claim uses a secret that is public, and without others *)
(*     who publish it, it became public by the downstream claim;           *)
(*   - a leg is refunded only if it was funded and not claimed, upstream   *)
(*     only if the secret was not given away downstream.                   *)
(* Nothing that is on a chain is taken back, and a claim goes out one      *)
(* child transaction at a time.                                            *)
(***************************************************************************)

CONSTANT Leaks   \* whether others may publish the secret

VARIABLES moved,   \* moved[a]: how much of action a is on the chains
          known    \* whether the secret is public

wvars == <<moved, known>>

Legs   == {"upstream", "downstream"}
Kinds  == {"funding", "claim", "refund"}

Init ==
    /\ moved = [a \in Legs \X Kinds |-> "no"]
    /\ known = FALSE

Unsent(l, k) == moved[<<l, k>>] = "no"
Funded(l)    == moved[<<l, "funding">>] = "full"
NoExit(l)    == Unsent(l, "claim") /\ Unsent(l, "refund")

MayFund(l) ==
    /\ NoExit(l)
    /\ l = "downstream" => Funded("upstream") /\ NoExit("upstream")

MayClaim(l) ==
    /\ Funded("upstream") /\ Unsent("upstream", "refund")
    /\ IF l = "downstream" THEN Funded("downstream") /\ Unsent("downstream", "refund")
                           ELSE known

MayRefund(l) ==
    /\ Funded(l) /\ Unsent(l, "claim")
    /\ l = "upstream" => Unsent("downstream", "claim")

May(l, k) ==
    \/ k = "funding" /\ MayFund(l)
    \/ k = "claim"   /\ MayClaim(l)
    \/ k = "refund"  /\ MayRefund(l)

Send(l, k) ==
    /\ May(l, k)
    /\ moved[<<l, k>>] # "full"
    /\ \E amount \in {"part", "full"} :
         /\ k = "claim" /\ Unsent(l, k) => amount = "part"
         /\ moved' = [moved EXCEPT ![<<l, k>>] = amount]
    /\ UNCHANGED known

Publish ==
    /\ Leaks \/ ~Unsent("downstream", "claim")
    /\ known' = TRUE
    /\ UNCHANGED moved

Next == Publish \/ \E l \in Legs, k \in Kinds : Send(l, k)

Spec == Init /\ [][Next]_wvars
=============================================================================
