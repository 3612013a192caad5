------------------------- MODULE MCSettlementEngine -------------------------
(***************************************************************************)
(* Bounded instances of SettlementEngine.                                  *)
(***************************************************************************)
EXTENDS SettlementEngine

AllAnchors == Chains
=============================================================================
