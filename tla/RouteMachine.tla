---------------------------- MODULE RouteMachine ----------------------------
(***************************************************************************)
(* The pure reducer of a composed route (crates/route-executor, model.rs   *)
(* and reducer.rs).  A route has an upstream and a downstream leg.  Each   *)
(* leg may be funded, and then claimed or refunded; the downstream claim   *)
(* publishes the secret that the upstream claim needs.                     *)
(*                                                                         *)
(* The variables are the fields of RouteSnapshotV1 that decide anything:   *)
(* digests, identities and evidence are left out, and revision, which only *)
(* counts the events, is left to RouteStore.  `fence[a]' is the fencing    *)
(* epoch of the effect that action a has committed.  Together with a it is *)
(* the effect's identity: an action is committed or reauthorized at most   *)
(* once in an epoch.  The code keeps the reference in the later states of  *)
(* the action and reads it in none of them; here it is 0 there.  The field *)
(* `coordination' is recomputed from the others by every event, so it is   *)
(* an operator.                                                            *)
(*                                                                         *)
(* An event is an action over these variables.  Its last conjunct,         *)
(* Reduced, is the common tail of reduce_route_v1: an event whose result   *)
(* does not pass it is refused and changes nothing.                        *)
(***************************************************************************)
EXTENDS Naturals

VARIABLES frozen,       \* bindings.is_some()
          armed,        \* refunds.is_some()
          prog,         \* ActionStateV1 of every action
          fence,        \* fencing_epoch of its committed effect
          compensated,  \* dom_compensation_v12.is_some(), by leg
          public,       \* secret_visibility is Public
          health,
          aborted       \* aborted_unfunded

route == <<frozen, armed, prog, fence, compensated, public, health, aborted>>

Legs     == {"upstream", "downstream"}
Kinds    == {"funding", "claim", "refund"}
Actions  == Legs \X Kinds
Progress == {"none", "committed", "externalized", "final", "invalidated"}
Healths  == {"running", "degraded", "recovery_only", "manual"}

Up(k)   == <<"upstream", k>>
Down(k) == <<"downstream", k>>

(***************************************************************************)
(* ActionStateV1::progress reports an invalidated action as externalized.  *)
(***************************************************************************)
Untouched(a) == prog[a] = "none"
LeftUs(a)    == prog[a] \in {"externalized", "final", "invalidated"}
WasFinal(a)  == prog[a] \in {"final", "invalidated"}
IsFinal(a)   == prog[a] = "final"

Exits(l) == {<<l, "claim">>, <<l, "refund">>}

IsTerminal(l)   == compensated[l] \/ \E a \in Exits(l) : IsFinal(a)
HasOpenFunds(l) == ~Untouched(<<l, "funding">>) /\ ~IsTerminal(l)
OpenFunds       == \E l \in Legs : HasOpenFunds(l)

RestrictsToRecovery == health # "running"

SecretPublicButUpstreamUnclaimed ==
    public /\ ~IsFinal(Up("claim")) /\ HasOpenFunds("upstream")

Coordination ==
    IF aborted \/ \A l \in Legs : IsTerminal(l)       THEN "terminal"
    ELSE IF RestrictsToRecovery /\ OpenFunds          THEN "recovery"
    ELSE IF public \/ \E l \in Legs : \E a \in Exits(l) : ~Untouched(a)
                                                      THEN "settling"
    ELSE IF \E l \in Legs : ~Untouched(<<l, "funding">>)
                                                      THEN "funding"
    ELSE IF armed                                     THEN "refunds_armed"
    ELSE IF frozen                                    THEN "terms_frozen"
    ELSE "negotiating"

-----------------------------------------------------------------------------
(***************************************************************************)
(* RouteSnapshotV1::validate and validate_leg, run on every result.        *)
(***************************************************************************)
ValidLeg(l) ==
    /\ compensated[l] => /\ ~Untouched(<<l, "funding">>)
                         /\ \A a \in Exits(l) : ~IsFinal(a)
    /\ Untouched(<<l, "claim">>) \/ Untouched(<<l, "refund">>)
    /\ ~Untouched(<<l, "refund">>) => LeftUs(<<l, "funding">>)
    /\ ~Untouched(<<l, "claim">>) => WasFinal(<<l, "funding">>)

Valid ==
    /\ armed => frozen
    /\ (\E a \in Actions : ~Untouched(a)) => armed
    /\ aborted => ~OpenFunds /\ ~public
    /\ \A l \in Legs : ValidLeg(l)
    /\ ~Untouched(Down("funding")) => WasFinal(Up("funding"))
    /\ (\E a \in Actions : prog[a] = "invalidated") => RestrictsToRecovery
    /\ ~Untouched(Up("claim")) => public
    /\ (\E l \in Legs : LeftUs(<<l, "claim">>)) => public

Reduced ==
    /\ public => public'
    /\ RestrictsToRecovery /\ OpenFunds => RestrictsToRecovery'
    /\ Valid'

Init ==
    /\ frozen = FALSE
    /\ armed = FALSE
    /\ prog = [a \in Actions |-> "none"]
    /\ fence = [a \in Actions |-> 0]
    /\ compensated = [l \in Legs |-> FALSE]
    /\ public = FALSE
    /\ health = "running"
    /\ aborted = FALSE

-----------------------------------------------------------------------------
NewWorkAllowed ==
    ~RestrictsToRecovery /\ (\A l \in Legs : ~compensated[l]) /\ ~aborted

FreezeTerms ==
    /\ NewWorkAllowed
    /\ ~frozen /\ ~armed /\ Coordination = "negotiating"
    /\ frozen' = TRUE
    /\ UNCHANGED <<armed, prog, fence, compensated, public, health, aborted>>
    /\ Reduced

ArmRefunds ==
    /\ NewWorkAllowed
    /\ frozen /\ ~armed /\ Coordination = "terms_frozen"
    /\ armed' = TRUE
    /\ UNCHANGED <<frozen, prog, fence, compensated, public, health, aborted>>
    /\ Reduced

(***************************************************************************)
(* validate_action_preconditions, by kind.                                 *)
(***************************************************************************)
FundingPrecondition(l) ==
    /\ \A m \in Legs : ~IsTerminal(m)
    /\ \A a \in Exits(l) : Untouched(a)
    /\ l = "downstream" => /\ IsFinal(Up("funding"))
                           /\ \A a \in Exits("upstream") : Untouched(a)
    /\ NewWorkAllowed

ClaimPrecondition(l) ==
    /\ Untouched(<<l, "refund">>)
    /\ IF l = "downstream"
         THEN /\ ~RestrictsToRecovery
              /\ IsFinal(Down("funding")) /\ IsFinal(Up("funding"))
              /\ \A a \in Exits("upstream") : Untouched(a)
         ELSE WasFinal(Up("funding")) /\ public

RefundPrecondition(l) ==
    LeftUs(<<l, "funding">>) /\ Untouched(<<l, "claim">>)

Precondition(l, k) ==
    /\ ~compensated[l] /\ armed /\ Untouched(<<l, k>>)
    /\ k = "funding" => FundingPrecondition(l)
    /\ k = "claim"   => ClaimPrecondition(l)
    /\ k = "refund"  => RefundPrecondition(l)

CommitAction(a, epoch) ==
    /\ ~aborted
    /\ Precondition(a[1], a[2])
    /\ prog' = [prog EXCEPT ![a] = "committed"]
    /\ fence' = [fence EXCEPT ![a] = epoch]
    /\ UNCHANGED <<frozen, armed, compensated, public, health, aborted>>
    /\ Reduced

(***************************************************************************)
(* ReauthorizeCommittedAction and ReauthorizePartiallyExternalizedCustody  *)
(* differ in the evidence they carry and in nothing else.                  *)
(***************************************************************************)
Reauthorize(a, epoch) ==
    /\ ~aborted
    /\ prog[a] = "committed" /\ fence[a] < epoch
    /\ fence' = [fence EXCEPT ![a] = epoch]
    /\ UNCHANGED <<frozen, armed, prog, compensated, public, health, aborted>>
    /\ Reduced

(***************************************************************************)
(* The effect of epoch e made progress.  Only a claim carries the secret   *)
(* (validate_action_purpose), so only a claim can expose it.               *)
(***************************************************************************)
CustodyProgressRecorded(a, e, exposes) ==
    /\ prog[a] = "committed" /\ fence[a] = e
    /\ exposes => a[2] = "claim"
    /\ public' = (public \/ exposes)
    /\ UNCHANGED <<frozen, armed, prog, fence, compensated, health, aborted>>
    /\ Reduced

ActionExternalized(a, e) ==
    /\ prog[a] = "committed" /\ fence[a] = e
    /\ prog' = [prog EXCEPT ![a] = "externalized"]
    /\ fence' = [fence EXCEPT ![a] = 0]
    /\ public' = (public \/ a[2] = "claim")
    /\ UNCHANGED <<frozen, armed, compensated, health, aborted>>
    /\ Reduced

ActionFinalized(a) ==
    /\ prog[a] \in {"externalized", "invalidated"}
    /\ prog' = [prog EXCEPT ![a] = "final"]
    /\ UNCHANGED <<frozen, armed, fence, compensated, public, health, aborted>>
    /\ Reduced

\* Mutant: a reorganization takes the action back to its start.
InvalidatedStartsOver(a) ==
    /\ IsFinal(a)
    /\ prog' = [prog EXCEPT ![a] = "none"]
    /\ health' = "recovery_only"
    /\ UNCHANGED <<frozen, armed, fence, compensated, public, aborted>>
    /\ Reduced

ObservationInvalidated(a) ==
    /\ IsFinal(a)
    /\ prog' = [prog EXCEPT ![a] = "invalidated"]
    /\ health' = "recovery_only"
    /\ UNCHANGED <<frozen, armed, fence, compensated, public, aborted>>
    /\ Reduced

SecretObserved ==
    /\ public' = TRUE
    /\ UNCHANGED <<frozen, armed, prog, fence, compensated, health, aborted>>
    /\ Reduced

SetHealth(target) ==
    /\ target = "running" => /\ ~(RestrictsToRecovery /\ OpenFunds)
                             /\ \A l \in Legs : ~compensated[l]
    /\ health' = target
    /\ UNCHANGED <<frozen, armed, prog, fence, compensated, public, aborted>>
    /\ Reduced

AbortUnfunded ==
    /\ NewWorkAllowed
    /\ ~OpenFunds /\ ~public
    /\ \A l \in Legs : Untouched(<<l, "funding">>)
    /\ aborted' = TRUE
    /\ UNCHANGED <<frozen, armed, prog, fence, compensated, public, health>>
    /\ Reduced

DomCompensated(l) ==
    /\ ~aborted /\ armed
    /\ ~Untouched(<<l, "funding">>) /\ ~IsTerminal(l)
    /\ compensated' = [compensated EXCEPT ![l] = TRUE]
    /\ health' = "recovery_only"
    /\ UNCHANGED <<frozen, armed, prog, fence, public, aborted>>
    /\ Reduced

(***************************************************************************)
(* ScheduleTimer and CancelTimer leave the snapshot as it is; the store    *)
(* keeps the timer.                                                        *)
(***************************************************************************)
MayScheduleTimer == ~aborted /\ ~(Coordination = "terminal" /\ ~OpenFunds)
=============================================================================
