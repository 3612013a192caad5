--------------------------- MODULE MCConditionLock ---------------------------
(***************************************************************************)
(* Bounded instance of ConditionLock: two accounts that trade with each    *)
(* other in three locks, one of two units and two of one unit.             *)
(***************************************************************************)
EXTENDS ConditionLock, TLC

CONSTANTS a1, a2, l1, l2, l3

ThreeLocks ==
    l1 :> [funder |-> a1, beneficiary |-> a2, amount |-> 2, deadline |-> 1]
 @@ l2 :> [funder |-> a2, beneficiary |-> a1, amount |-> 1, deadline |-> 2]
 @@ l3 :> [funder |-> a1, beneficiary |-> a2, amount |-> 1, deadline |-> 2]
=============================================================================
