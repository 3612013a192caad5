----------------------------- MODULE RouteStore -----------------------------
(***************************************************************************)
(* The durable store of one route (crates/route-executor, store.rs): the   *)
(* route lease with its fencing epoch, the outbox of effects and a         *)
(* deadline timer, around the snapshot of RouteMachine.                    *)
(*                                                                         *)
(* Every operation below is one BEGIN IMMEDIATE transaction and starts     *)
(* with validate_lease.  A writer reads the snapshot, may ask an outside   *)
(* authority, and submits at the revision it read.  Nobody else can have   *)
(* written in between while its lease is valid, so the revision check      *)
(* never fails where validate_lease passes: reading and submitting are one *)
(* step here.                                                              *)
(*                                                                         *)
(* Of the outbox rows of an action only the newest one is kept, the row of *)
(* the effect with epoch fence[a]: a superseded row is never read again.   *)
(* Hashes, attempts and the journal chain are left out.  So is the order   *)
(* by priority and age: the lane of the urgent claim is explicit and any   *)
(* other dispatchable row may come first.                                  *)
(***************************************************************************)
EXTENDS RouteMachine

CONSTANTS Owners,    \* the processes that may drive the route
          Nobody,    \* no lease owner, no dispatch owner
          MaxEpoch   \* bound on the takeovers

ASSUME OwnersAssumption == Nobody \notin Owners
ASSUME MaxEpochAssumption == MaxEpoch \in Nat \ {0}

VARIABLES leaseOwner, leaseEpoch, leaseLive,  \* route_leases
          row, holder, live,                  \* route_outbox, by action
          timer, timerHolder, timerLive,      \* the row of route_timers
          fired                               \* the timer's event is in the journal

lease  == <<leaseOwner, leaseEpoch, leaseLive>>
outbox == <<row, holder, live>>
clock  == <<timer, timerHolder, timerLive, fired>>

Rows   == {"absent", "pending", "completed", "superseded"}
Timers == {"absent", "scheduled", "due", "completed", "cancelled"}

StoreInit ==
    /\ Init
    /\ leaseOwner = Nobody
    /\ leaseEpoch = 0
    /\ leaseLive = FALSE
    /\ row = [a \in Actions |-> "absent"]
    /\ holder = [a \in Actions |-> Nobody]
    /\ live = [a \in Actions |-> FALSE]
    /\ timer = "absent"
    /\ timerHolder = Nobody
    /\ timerLive = FALSE
    /\ fired = FALSE

(***************************************************************************)
(* validate_lease: o presents the token of epoch e.                        *)
(***************************************************************************)
ValidLease(o, e) == leaseLive /\ leaseOwner = o /\ leaseEpoch = e

(***************************************************************************)
(* acquire_lease.  A live lease is handed back to its own owner as it is;  *)
(* an absent or expired one is taken over in the next epoch.               *)
(***************************************************************************)
TakeLease(o) ==
    /\ IF leaseLive
         THEN leaseOwner = o /\ UNCHANGED lease
         ELSE /\ leaseEpoch < MaxEpoch
              /\ leaseOwner' = o
              /\ leaseEpoch' = leaseEpoch + 1
              /\ leaseLive' = TRUE
    /\ UNCHANGED <<route, outbox, clock>>

(***************************************************************************)
(* Time passes.  dispatch_deadline caps every dispatch claim by the        *)
(* deadline of the lease it was made under, so the claims lapse with it.   *)
(***************************************************************************)
LeaseLapses ==
    /\ leaseLive
    /\ leaseEpoch < MaxEpoch
    /\ leaseLive' = FALSE
    /\ live' = [a \in Actions |-> FALSE]
    /\ timerLive' = FALSE
    /\ UNCHANGED <<route, leaseOwner, leaseEpoch, row, holder, timer,
                   timerHolder, fired>>

\* Mutant: a claim that lapses is also released.
DispatchReleased(a) ==
    /\ live[a]
    /\ live' = [live EXCEPT ![a] = FALSE]
    /\ holder' = [holder EXCEPT ![a] = Nobody]
    /\ UNCHANGED <<route, lease, row, clock>>

DispatchLapses(a) ==
    /\ live[a]
    /\ live' = [live EXCEPT ![a] = FALSE]
    /\ UNCHANGED <<route, lease, row, holder, clock>>

TimerLapses ==
    /\ timerLive
    /\ timerLive' = FALSE
    /\ UNCHANGED <<route, lease, outbox, timer, timerHolder, fired>>

TimerFallsDue ==
    /\ timer = "scheduled"
    /\ timer' = "due"
    /\ UNCHANGED <<route, lease, outbox, timerHolder, timerLive, fired>>

-----------------------------------------------------------------------------
(***************************************************************************)
(* apply_event, by what an event writes beside the snapshot.  An event     *)
(* with no operator here writes nothing else.  WriteRow releases the       *)
(* dispatch claim of the row it writes.                                    *)
(***************************************************************************)
WriteRow(a, s) ==
    /\ row' = [row EXCEPT ![a] = s]
    /\ holder' = [holder EXCEPT ![a] = Nobody]
    /\ live' = [live EXCEPT ![a] = FALSE]

ApplyCommit(a) ==
    /\ CommitAction(a, leaseEpoch)
    /\ WriteRow(a, "pending")
    /\ UNCHANGED <<lease, clock>>

(***************************************************************************)
(* supersede_effect on the row of the prior effect, then insert_effect.    *)
(***************************************************************************)
ApplyReauthorize(a) ==
    /\ Reauthorize(a, leaseEpoch)
    /\ row[a] = "pending" /\ ~live[a]
    /\ WriteRow(a, "pending")
    /\ UNCHANGED <<lease, clock>>

ApplyExternalized(a, e) ==
    /\ ActionExternalized(a, e)
    /\ row[a] \in {"pending", "completed"}
    /\ WriteRow(a, "completed")
    /\ UNCHANGED <<lease, clock>>

(***************************************************************************)
(* reconcile_partial_custody_progress: a row of this epoch must be claimed *)
(* by o, whether or not the claim has lapsed; one of an older epoch must   *)
(* be free or lapsed.  The row stays pending and is released.              *)
(***************************************************************************)
ApplyProgress(o, a, e, exposes) ==
    /\ CustodyProgressRecorded(a, e, exposes)
    /\ row[a] = "pending"
    /\ IF e = leaseEpoch THEN holder[a] = o ELSE e < leaseEpoch /\ ~live[a]
    /\ WriteRow(a, "pending")
    /\ UNCHANGED <<lease, clock>>

\* Mutants: the rows stay pending; they are cancelled like a timer.
CompensatedKeepsRows(l) ==
    /\ DomCompensated(l)
    /\ UNCHANGED <<lease, outbox, clock>>

CompensatedCancelsRows(l) ==
    /\ DomCompensated(l)
    /\ row' = [a \in Actions |-> IF a[1] = l /\ row[a] = "pending"
                                    THEN "cancelled" ELSE row[a]]
    /\ UNCHANGED <<holder, live, lease, clock>>

(***************************************************************************)
(* A compensated leg's pending rows are cancelled; its actions keep the    *)
(* state they were in.                                                     *)
(***************************************************************************)
ApplyCompensated(l) ==
    LET cancelled == {a \in Actions : a[1] = l /\ row[a] = "pending"}
    IN  /\ DomCompensated(l)
        /\ row' = [a \in Actions |-> IF a \in cancelled THEN "superseded" ELSE row[a]]
        /\ holder' = [a \in Actions |-> IF a \in cancelled THEN Nobody ELSE holder[a]]
        /\ live' = [a \in Actions |-> live[a] /\ a \notin cancelled]
        /\ UNCHANGED <<lease, clock>>

ApplySchedule ==
    /\ timer = "absent"
    /\ MayScheduleTimer
    /\ timer' = "scheduled"
    /\ UNCHANGED <<route, lease, outbox, timerHolder, timerLive, fired>>

ApplyCancel ==
    /\ timer \in {"scheduled", "due"}
    /\ timer' = "cancelled"
    /\ timerHolder' = Nobody
    /\ timerLive' = FALSE
    /\ UNCHANGED <<route, lease, outbox, fired>>

\* Mutant: the event is refused where no funds are open.
TimerEventNeedsFunds ==
    /\ OpenFunds
    /\ SetHealth("recovery_only")
    /\ fired' = TRUE
    /\ UNCHANGED <<lease, outbox, timer, timerHolder, timerLive>>

(***************************************************************************)
(* The timer's event has an identity of its own: applied a second time it  *)
(* is a duplicate and changes nothing.  What production timers submit is   *)
(* the move to recovery-only (production_timer.rs).                        *)
(***************************************************************************)
ApplyTimerEvent ==
    /\ IF fired THEN UNCHANGED route ELSE SetHealth("recovery_only")
    /\ fired' = TRUE
    /\ UNCHANGED <<lease, outbox, timer, timerHolder, timerLive>>

-----------------------------------------------------------------------------
CommittedUrgentClaim == public /\ prog[Up("claim")] = "committed"

\* Mutant: only a running route sends a claim.
DispatchableRunning(a) ==
    /\ ~aborted /\ ~compensated[a[1]] /\ prog[a] = "committed"
    /\ a[2] # "refund" => ~RestrictsToRecovery

Dispatchable(a) ==
    LET l == a[1]
        k == a[2]
    IN  /\ ~aborted /\ ~compensated[l] /\ prog[a] = "committed"
        /\ k = "funding" =>
             /\ ~RestrictsToRecovery /\ armed
             /\ \A m \in Legs : ~IsTerminal(m)
             /\ l = "downstream" => /\ IsFinal(Up("funding"))
                                    /\ \A x \in Exits("upstream") : Untouched(x)
        /\ a = Down("claim") =>
             /\ ~RestrictsToRecovery
             /\ IsFinal(Up("funding")) /\ IsFinal(Down("funding"))
             /\ Untouched(Up("claim")) \/ (public /\ IsFinal(Up("claim")))
             /\ Untouched(Up("refund"))
        /\ a = Up("claim") => public /\ WasFinal(Up("funding"))
        /\ k = "refund" => LeftUs(<<l, "funding">>)

(***************************************************************************)
(* claim_external_custody_effect_by_id while an urgent claim is committed, *)
(* claim_next_effect otherwise.                                            *)
(***************************************************************************)
Claimable(a) ==
    /\ CommittedUrgentClaim => a = Up("claim")
    /\ row[a] = "pending" /\ ~live[a]
    /\ fence[a] = leaseEpoch /\ Dispatchable(a)

ClaimEffect(o, a) ==
    /\ Claimable(a)
    /\ holder' = [holder EXCEPT ![a] = o]
    /\ live' = [live EXCEPT ![a] = TRUE]
    /\ UNCHANGED <<route, lease, row, clock>>

TimerClaimable == timer = "due" /\ ~timerLive

ClaimTimer(o) ==
    /\ TimerClaimable
    /\ timerHolder' = o
    /\ timerLive' = TRUE
    /\ UNCHANGED <<route, lease, outbox, timer, fired>>

(***************************************************************************)
(* complete_timer; where it refuses, the timer stays due.                  *)
(***************************************************************************)
CompleteTimer(o) ==
    /\ IF timer = "due" /\ timerHolder = o /\ timerLive
         THEN /\ timer' = "completed"
              /\ timerHolder' = Nobody
              /\ timerLive' = FALSE
         ELSE UNCHANGED <<timer, timerHolder, timerLive>>
    /\ UNCHANGED <<route, lease, outbox, fired>>
=============================================================================
