---------------------------- MODULE MCChildPorts ----------------------------
(***************************************************************************)
(* Instances of ChildPorts: the plans the production materializer installs *)
(* and the ports their counterparty child may use.                         *)
(***************************************************************************)
EXTENDS ChildPorts

AllPlans == (Requirements \X Ports) \ {<<"AlreadyPublic", "solana">>}

StagedSolana == {<<"FirstExposureRequired", "solana">>}
=============================================================================
