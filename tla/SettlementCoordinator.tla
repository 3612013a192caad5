----------------------- MODULE SettlementCoordinator -----------------------
(***************************************************************************)
(* The settlement coordinator: one composite settlement plan made of two   *)
(* child transactions that leave custody in a fixed order.                 *)
(*                                                                         *)
(* Every operator below is one immediate SQLite transaction of             *)
(* crates/settlement-coordinator/src/store.rs.  What happens between two   *)
(* of them (the call to a child authority, its answer, a crash) belongs to *)
(* ChildPorts.  Digests and attempt identifiers are abstracted to what the *)
(* code compares them for: is this request the open one, is this progress  *)
(* the one the route acknowledged.  One process opens the store, so a      *)
(* lease never has two live holders; a new fence appears when the route is *)
(* taken over or the lease ran out.  FailedClosed is left out: it takes an *)
(* attempt completed twice with different outcomes, and the token of an    *)
(* attempt is consumed by its completion.                                  *)
(***************************************************************************)
EXTENDS Integers

CONSTANT Queries    \* the chain observation queries put to the bridge

\* The route driver asks for finality only; RouteSupervisorV1 also accepts an
\* invalidation query from its caller.
ASSUME QueriesAssumption == Queries \subseteq {"finality", "invalidation"}

VARIABLES
    requirement,    \* secret_requirement() of the plan
    agg,            \* stage_tag of settlement_plans
    stage,          \* stage_tag of each settlement_children row
    secret,         \* secret_state_tag
    behind,         \* the lease's route fence is newer than the plan's
    asked,          \* the reconciliation request of the pending child
    observing,      \* the children with an unanswered observation request
    preparing,      \* the deferred child's materialization is journaled, not done
    acked           \* the route journaled the plan's current progress

coordinator == <<requirement, agg, stage, secret, behind, asked, observing, preparing, acked>>

Children == {1, 2}

Requirements    == {"None", "AlreadyPublic", "FirstExposureRequired"}
AggregateStages == {"active", "externalized", "final", "invalidated"}
ChildStages     == {"deferred", "planned", "pending", "externalized", "final", "invalidated"}
SecretStates    == {"private", "possible", "public"}
\* "stale": a request recorded under an older fence, still without an outcome.
Requests        == {"none", "open", "stale"}

CoordinatorType ==
    /\ requirement \in Requirements
    /\ agg \in AggregateStages
    /\ stage \in [Children -> ChildStages]
    /\ secret \in SecretStates
    /\ behind \in BOOLEAN
    /\ asked \in Requests
    /\ observing \in SUBSET Children
    /\ preparing \in BOOLEAN
    /\ acked \in BOOLEAN

\* A staged plan knows only its first child when it is installed.
Staged == requirement = "FirstExposureRequired"

Exposure(c) ==
    CASE requirement = "None"          -> "NonSecret"
      [] requirement = "AlreadyPublic" -> "UsesPublicSecret"
      [] OTHER -> IF c = 1 THEN "FirstSecretExposure" ELSE "UsesPublicSecret"

CoordinatorInit ==
    /\ agg = "active"
    /\ stage = [c \in Children |-> IF Staged /\ c = 2 THEN "deferred" ELSE "planned"]
    /\ secret = IF requirement = "AlreadyPublic" THEN "public" ELSE "private"
    /\ behind = FALSE
    /\ asked = "none"
    /\ observing = {}
    /\ preparing = FALSE
    /\ acked = FALSE

\* stage >= CHILD_EXTERNALIZED
Left(c) == stage[c] \in {"externalized", "final", "invalidated"}

\* takeover_status_from_view answers Unknown: nothing is sent or refenced
\* before the pending child is reconciled.
Ambiguous == (\E c \in Children : stage[c] = "pending") \/ secret = "possible"

\* The secret state the audit derives from the first child.
ExpectedSecret ==
    CASE requirement = "AlreadyPublic"       -> "public"
      [] Staged /\ Left(1)                   -> "public"
      [] Staged /\ stage[1] = "pending"      -> "possible"
      [] OTHER                               -> "private"

\* audit_aggregate_state and validate_child_prefix, run by every load of the
\* plan: a plan they refuse is CorruptState for every later call.
Audited ==
    /\ Left(2) => Left(1)
    /\ stage[2] = "pending" => Left(1)
    /\ agg = "active" <=> ~Left(2)
    /\ agg = "externalized" => /\ \E c \in Children : stage[c] # "final"
                              /\ \A c \in Children : stage[c] # "invalidated"
    /\ agg = "final" => \A c \in Children : stage[c] = "final"
    /\ agg = "invalidated" => \E c \in Children : stage[c] = "invalidated"
    /\ secret = ExpectedSecret

-----------------------------------------------------------------------------
(***************************************************************************)
(* Leases and fences.                                                      *)
(***************************************************************************)

Superseded == asked' = IF asked = "open" THEN "stale" ELSE asked

\* A newer route fence; the plan keeps its own until it is refenced.
AcquireTakeoverLease ==
    /\ behind' = TRUE
    /\ Superseded
    /\ UNCHANGED <<requirement, agg, stage, secret, observing, preparing, acked>>

\* The lease ran out and is acquired or resumed: the same route fence, a new
\* coordinator fence.
RenewLease ==
    /\ asked = "open"
    /\ Superseded
    /\ UNCHANGED <<requirement, agg, stage, secret, behind, observing, preparing, acked>>

\* acquire_observation_lease: a plan that left custody is observed under its
\* own fence, once a takeover lease on it ran out.
AcquireObservationLease ==
    /\ agg # "active"
    /\ behind
    /\ behind' = FALSE
    /\ Superseded
    /\ UNCHANGED <<requirement, agg, stage, secret, observing, preparing, acked>>

\* refence_plan adopts the plan under the newer fence once nothing is pending.
RefencePlan ==
    /\ Audited
    /\ behind
    /\ ~Ambiguous
    /\ behind' = FALSE
    /\ acked' = FALSE
    /\ UNCHANGED <<requirement, agg, stage, secret, asked, observing, preparing>>

-----------------------------------------------------------------------------
(***************************************************************************)
(* Calls to a child authority.                                             *)
(***************************************************************************)

\* Mutant: the possible exposure is not recorded with the call.
PrepareCallSilently(c) ==
    /\ agg = "active" /\ ~behind /\ stage[c] = "planned"
    /\ \A d \in Children : d < c => Left(d)
    /\ stage' = [stage EXCEPT ![c] = "pending"]
    /\ asked' = "none"
    /\ acked' = FALSE
    /\ UNCHANGED <<requirement, agg, secret, behind, observing, preparing>>

PrepareNextChildCall(c) ==
    /\ agg = "active"
    /\ ~behind
    /\ stage[c] = "planned"
    /\ \A d \in Children : d < c => Left(d)
    /\ stage' = [stage EXCEPT ![c] = "pending"]
    /\ secret' = IF Exposure(c) = "FirstSecretExposure" THEN "possible" ELSE secret
    /\ asked' = "none"
    /\ acked' = FALSE
    /\ UNCHANGED <<requirement, agg, behind, observing, preparing>>

ClearPendingChild(c) ==
    /\ stage' = [stage EXCEPT ![c] = "planned"]
    /\ secret' = IF Exposure(c) = "FirstSecretExposure" THEN "private" ELSE secret
    /\ UNCHANGED agg

\* persist_child_externalized, then materialize_aggregate_externalization.
PersistChildExternalized(c) ==
    /\ CASE Exposure(c) = "FirstSecretExposure" -> secret = "possible"
         [] Exposure(c) = "UsesPublicSecret"    -> secret = "public"
         [] OTHER                               -> secret # "possible"
    /\ secret' = IF Exposure(c) = "FirstSecretExposure" THEN "public" ELSE secret
    /\ stage' = [stage EXCEPT ![c] = "externalized"]
    /\ agg' = IF \A d \in Children \ {c} : Left(d) THEN "externalized" ELSE agg

\* An unknown outcome is only recorded; the child stays pending.
RecordOutcome(c, outcome) ==
    /\ CASE outcome = "not_externalized" -> ClearPendingChild(c)
         [] outcome = "externalized"     -> PersistChildExternalized(c)
         [] OTHER                        -> UNCHANGED <<agg, stage, secret>>
    /\ asked' = "none"
    /\ acked' = FALSE
    /\ UNCHANGED <<requirement, behind, observing, preparing>>

CompleteChildCall(c, outcome) ==
    /\ ~behind
    /\ stage[c] = "pending"
    /\ asked = "none"
    /\ RecordOutcome(c, outcome)

-----------------------------------------------------------------------------
(***************************************************************************)
(* Reconciliation of the pending child, under the plan's fence or, after a *)
(* takeover, under the newer one.  A request without an outcome is reused  *)
(* under its own fence and superseded under a newer one.                   *)
(***************************************************************************)

PrepareReconciliation(c) ==
    /\ stage[c] = "pending"
    /\ asked' = "open"
    /\ acked' = IF asked = "open" THEN acked ELSE FALSE
    /\ UNCHANGED <<requirement, agg, stage, secret, behind, observing, preparing>>

CompleteReconciliation(c, outcome) ==
    /\ stage[c] = "pending"
    /\ asked = "open"
    /\ RecordOutcome(c, outcome)

-----------------------------------------------------------------------------
(***************************************************************************)
(* materialize_deferred_child_one: the second child of a staged plan is    *)
(* inserted once the first exposure is public.  The attempt is journaled   *)
(* before the authority is asked, and resumed if the answer was lost.      *)
(***************************************************************************)

\* Mutant: an attempt whose answer was lost is not resumed.
PrepareDeferredOnce ==
    /\ Staged /\ agg = "active" /\ ~behind /\ secret = "public" /\ Left(1)
    /\ stage[2] = "deferred" /\ ~preparing
    /\ preparing' = TRUE
    /\ acked' = FALSE
    /\ UNCHANGED <<requirement, agg, stage, secret, behind, asked, observing>>

PrepareDeferredChild ==
    /\ Staged
    /\ agg = "active"
    /\ ~behind
    /\ secret = "public"
    /\ Left(1)
    /\ stage[2] = "deferred"
    /\ preparing' = TRUE
    /\ acked' = IF preparing THEN acked ELSE FALSE
    /\ UNCHANGED <<requirement, agg, stage, secret, behind, asked, observing>>

\* The child the authority returns must use the secret that is already public.
InsertDeferredChild(exposure) ==
    /\ preparing
    /\ ~behind
    /\ exposure = "UsesPublicSecret"
    /\ stage' = [stage EXCEPT ![2] = "planned"]
    /\ preparing' = FALSE
    /\ acked' = FALSE
    /\ UNCHANGED <<requirement, agg, secret, behind, asked, observing>>

-----------------------------------------------------------------------------
(***************************************************************************)
(* Observation of a child of a plan that left custody.                     *)
(***************************************************************************)

\* select_observation_child: a finality query asks for the first child that is
\* not final, or for either when both are; an invalidation query for a final one.
Selected(c) ==
    \/ /\ "finality" \in Queries
       /\ \/ stage[c] # "final" /\ \A d \in Children : d < c => stage[d] = "final"
          \/ \A d \in Children : stage[d] = "final"
    \/ /\ "invalidation" \in Queries
       /\ stage[c] = "final"

PrepareObservation(c) ==
    /\ agg # "active"
    /\ ~behind
    /\ Left(c)
    /\ Selected(c)
    /\ observing' = observing \cup {c}
    /\ UNCHANGED <<requirement, agg, stage, secret, behind, asked, preparing, acked>>

\* Mutant: one final child makes the aggregate final.
AggregateFinalityOfOne(c) == IF stage[c] # "final" THEN "final" ELSE agg

\* materialize_aggregate_finality: only when every child is final.
AggregateFinality(c) ==
    IF \A d \in Children \ {c} : stage[d] = "final" THEN "final" ELSE agg

CompleteObservation(c, outcome) ==
    /\ ~behind
    /\ c \in observing
    /\ \/ /\ outcome = "pending"
          /\ UNCHANGED <<agg, stage>>
       \/ /\ outcome = "final"
          /\ stage' = [stage EXCEPT ![c] = "final"]
          /\ agg' = AggregateFinality(c)
       \/ /\ outcome = "invalidated"
          /\ stage[c] = "final"
          /\ stage' = [stage EXCEPT ![c] = "invalidated"]
          /\ agg' = "invalidated"
    /\ observing' = observing \ {c}
    /\ UNCHANGED <<requirement, secret, behind, asked, preparing, acked>>
=============================================================================
