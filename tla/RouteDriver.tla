---------------------------- MODULE RouteDriver -----------------------------
(***************************************************************************)
(* The processes that drive a route (crates/dom-interopd, driver.rs and    *)
(* supervisor.rs) over the store of RouteStore.                            *)
(*                                                                         *)
(* A process acquires the lease and then calls drive_route_once_v1 again   *)
(* and again.  A call first reconciles what an older epoch left committed, *)
(* then picks one action from the snapshot and moves it one step.  It is   *)
(* one thread: the steps of a call interleave with time and with a crash,  *)
(* but not with another call of its own.  A process keeps the stores       *)
(* locked while it has them open, so that the next one begins where it     *)
(* left off, with a new epoch once the old lease has lapsed.  The lease    *)
(* itself may lapse at any step of a call, a call to custody included.     *)
(*                                                                         *)
(* `sent' is what custody has really put on the chains.  An action settles *)
(* in two child transactions with fixed bytes, one for each face, so that  *)
(* sending again is harmless.  Chains finalize and reorganize at any time. *)
(***************************************************************************)
EXTENDS RouteStore

CONSTANTS HealthTargets,  \* health states the operator asks for
          Compensable,    \* legs that DOM may compensate
          Leaks,          \* whether others may publish the secret
          MaxReorgs,      \* bound on invalidated observations
          MaxCrashes      \* bound on crashes

ASSUME DriverAssumption ==
    /\ HealthTargets \subseteq Healths /\ Compensable \subseteq Legs
    /\ MaxReorgs \in Nat /\ MaxCrashes \in Nat

VARIABLES held,     \* held[o]: epoch of o's lease token, 0 before it acquires
          job,      \* job[o]: what the call in progress is doing
          sent,     \* sent[a]: how much of action a is on the chains
          reorgs, crashes

driver == <<held, job, sent, reorgs, crashes>>
vars   == <<route, lease, outbox, clock, driver>>

Idle      == [step |-> "idle", act |-> Up("funding")]
Job(s, a) == [step |-> s, act |-> a]
Steps     == {"idle", "resume", "send", "checked", "partial", "full", "timer", "ack"}
Amounts   == {"no", "part", "full"}

RouteInit ==
    /\ StoreInit
    /\ held = [o \in Owners |-> 0]
    /\ job = [o \in Owners |-> Idle]
    /\ sent = [a \in Actions |-> "no"]
    /\ reorgs = 0
    /\ crashes = 0

Holds(o) == held[o] # 0 /\ ValidLease(o, held[o])
Free(o)  == Holds(o) /\ job[o] = Idle

\* Mutant: the stores open without their lock.
StoresUnlocked(o) == TRUE

\* Every process that has the stores open holds their lock files.
StoresFree(o) == \A p \in Owners \ {o} : held[p] = 0

Acquire(o) ==
    /\ held[o] = 0 /\ StoresFree(o)
    /\ TakeLease(o)
    /\ held' = [held EXCEPT ![o] = leaseEpoch']
    /\ UNCHANGED <<job, sent, reorgs, crashes>>

(***************************************************************************)
(* A process dies, or finds that its lease is gone: every call to the      *)
(* store then fails and it starts over.  Custody does not ask the store.   *)
(***************************************************************************)
StartOver(o) ==
    /\ held' = [held EXCEPT ![o] = 0]
    /\ job' = [job EXCEPT ![o] = Idle]
    /\ UNCHANGED <<route, lease, outbox, clock, sent, reorgs>>

Crash(o) ==
    /\ held[o] # 0 /\ crashes < MaxCrashes
    /\ crashes' = crashes + 1
    /\ StartOver(o)

Fenced(o) ==
    /\ held[o] # 0 /\ ~Holds(o)
    /\ job[o].step \notin {"send", "checked"}
    /\ UNCHANGED crashes
    /\ StartOver(o)

TimePasses ==
    /\ \/ LeaseLapses
       \/ \E a \in Actions : DispatchLapses(a)
       \/ TimerLapses
       \/ TimerFallsDue
    /\ UNCHANGED driver

-----------------------------------------------------------------------------
(***************************************************************************)
(* reconcile_takeover, which goes through the stale actions in order.  One *)
(* whose row is no longer pending ends the whole call with an error        *)
(* (committed_action_intent), and the ones after it are not reached.       *)
(***************************************************************************)
Stale == {a \in Actions : prog[a] = "committed" /\ fence[a] < leaseEpoch}

Order == [a \in Actions |-> (IF a[1] = "upstream" THEN 0 ELSE 3)
                            + (CASE a[2] = "funding" -> 0
                                 [] a[2] = "claim"   -> 1
                                 [] a[2] = "refund"  -> 2)]

HasIntent(a) == row[a] = "pending"

Reached(a) == a \in Stale /\ \A b \in Stale : Order[b] <= Order[a] => HasIntent(b)

(***************************************************************************)
(* What custody reports about an action of an older epoch decides          *)
(* (map_takeover_status).  A first exposure is journalled before the       *)
(* action is closed or resumed; resuming it is a second transaction.       *)
(***************************************************************************)
\* Mutant: a claim that custody holds counts as an exposure.
ExposedWhenHeld(a) == a = Down("claim") /\ ~Untouched(a)

Exposed(a) == a = Down("claim") /\ sent[a] # "no"

\* Mutant: whatever was sent closes the action.
ReconcileCloses(o, a) ==
    /\ Free(o) /\ Reached(a)
    /\ IF sent[a] = "no" THEN ApplyReauthorize(a) ELSE ApplyExternalized(a, fence[a])
    /\ UNCHANGED driver

Reconcile(o, a) ==
    /\ Free(o) /\ Reached(a)
    /\ \/ /\ sent[a] = "full" /\ (Exposed(a) => public)
          /\ ApplyExternalized(a, fence[a])
          /\ UNCHANGED driver
       \/ /\ sent[a] # "full" \/ Exposed(a)
          /\ Exposed(a) => public
          /\ ApplyReauthorize(a)
          /\ UNCHANGED driver
       \/ /\ Exposed(a) /\ ~public
          /\ ApplyProgress(o, a, fence[a], TRUE)
          /\ job' = [job EXCEPT ![o] = Job("resume", a)]
          /\ UNCHANGED <<held, sent, reorgs, crashes>>

Finish(o) ==
    /\ job' = [job EXCEPT ![o] = Idle]
    /\ UNCHANGED <<held, sent, reorgs, crashes>>

ResumeCustody(o) ==
    /\ Holds(o) /\ job[o].step = "resume"
    /\ ApplyReauthorize(job[o].act)
    /\ Finish(o)

-----------------------------------------------------------------------------
(***************************************************************************)
(* What drive_route_once_v1 works on next.  It is an action, or one of     *)
(* three pseudo actions.                                                   *)
(***************************************************************************)
Admit == <<"route", "admit">>
Arm   == <<"route", "arm">>
Stop  == <<"route", "stop">>

FirstOf(legs) == IF "downstream" \in legs THEN Down("refund") ELSE Up("refund")

\* Mutant: a finished refund is driven again.
UnderWayOrDone(l) == ~Untouched(<<l, "refund">>)

UnderWay(l) == ~Untouched(<<l, "refund">>) /\ ~IsFinal(<<l, "refund">>)
Refundable(l) ==
    LeftUs(<<l, "funding">>) /\ \A a \in Exits(l) : Untouched(a)

\* Mutant: a claim that is only committed does not hold the refunds back.
RecoveryIgnoresCommitted ==
    IF prog[Down("claim")] \in {"externalized", "invalidated"} THEN Down("claim")
    ELSE IF \E l \in Legs : UnderWay(l)                THEN FirstOf({l \in Legs : UnderWay(l)})
    ELSE IF \E l \in Legs : Refundable(l)              THEN FirstOf({l \in Legs : Refundable(l)})
    ELSE Stop

RecoveryTarget ==
    IF prog[Down("claim")] \in {"externalized", "invalidated"} THEN Down("claim")
    ELSE IF prog[Down("claim")] = "committed"          THEN Stop
    ELSE IF \E l \in Legs : UnderWay(l)                THEN FirstOf({l \in Legs : UnderWay(l)})
    ELSE IF \E l \in Legs : Refundable(l)              THEN FirstOf({l \in Legs : Refundable(l)})
    ELSE Stop

PublicTarget ==
    IF ~armed                                          THEN Stop
    ELSE IF ~Untouched(Up("refund"))                   THEN RecoveryTarget
    ELSE IF SecretPublicButUpstreamUnclaimed
      THEN IF WasFinal(Up("funding"))                  THEN Up("claim")
           ELSE IF LeftUs(Up("funding"))               THEN Up("funding")
           ELSE Stop
    ELSE IF ~IsFinal(Up("claim"))                      THEN Stop
    ELSE IF prog[Down("claim")] \in {"committed", "externalized", "invalidated"}
                                                       THEN Down("claim")
    ELSE IF ~Untouched(Down("refund")) \/ health = "recovery_only"
                                                       THEN RecoveryTarget
    ELSE Stop

PrivateTarget ==
    IF ~armed               THEN IF RestrictsToRecovery THEN Stop ELSE Arm
    ELSE IF \E l \in Legs : ~Untouched(<<l, "refund">>) THEN RecoveryTarget
    ELSE IF health = "recovery_only"                   THEN RecoveryTarget
    ELSE IF RestrictsToRecovery                        THEN Stop
    ELSE IF ~IsFinal(Up("funding"))                    THEN Up("funding")
    ELSE IF ~IsFinal(Down("funding"))                  THEN Down("funding")
    ELSE IF ~IsFinal(Down("claim"))                    THEN Down("claim")
    ELSE Stop

Target ==
    IF Coordination = "terminal" THEN Stop
    ELSE IF ~frozen         THEN IF RestrictsToRecovery THEN Stop ELSE Admit
    ELSE IF public          THEN PublicTarget
    ELSE PrivateTarget

AdmitRoute == FreezeTerms /\ UNCHANGED <<lease, outbox, clock, driver>>

ArmBothRefunds == ArmRefunds /\ UNCHANGED <<lease, outbox, clock, driver>>

(***************************************************************************)
(* drive_action_once.  A due timer goes before a new authorization and     *)
(* before a dispatch, unless the upstream claim is urgent.                 *)
(***************************************************************************)
TimerFirst(a) ==
    /\ TimerClaimable
    /\ Untouched(a) => a # Up("claim")
    /\ ~CommittedUrgentClaim

TakeTimer(o) ==
    /\ ClaimTimer(o)
    /\ job' = [job EXCEPT ![o] = Job("timer", Up("funding"))]
    /\ UNCHANGED <<held, sent, reorgs, crashes>>

Dispatch(o) ==
    \E a \in Actions :
        /\ ClaimEffect(o, a)
        /\ job' = [job EXCEPT ![o] = Job("send", a)]
        /\ UNCHANGED <<held, sent, reorgs, crashes>>

Authorize(a) == ApplyCommit(a) /\ UNCHANGED driver

ObserveFinality(a) ==
    ActionFinalized(a) /\ UNCHANGED <<lease, outbox, clock, driver>>

DriveAction(o, a) ==
    \/ prog[a] \in {"none", "committed"} /\ TimerFirst(a) /\ TakeTimer(o)
    \/ prog[a] = "none" /\ ~TimerFirst(a) /\ Authorize(a)
    \/ prog[a] = "committed" /\ ~TimerFirst(a) /\ Dispatch(o)
    \/ prog[a] \in {"externalized", "invalidated"} /\ ObserveFinality(a)

(***************************************************************************)
(* drive_route_once_v1: nothing is driven while an action is stale.        *)
(***************************************************************************)
DriveOnce(o) ==
    /\ Free(o) /\ Stale = {}
    /\ LET t == Target
       IN  \/ t = Admit /\ AdmitRoute
           \/ t = Arm /\ ArmBothRefunds
           \/ t \in Actions /\ DriveAction(o, t)

-----------------------------------------------------------------------------
(***************************************************************************)
(* Custody refuses a capability that has expired or that an older epoch    *)
(* made out.  It does so once, with the time at which it is called; the    *)
(* claim and the lease may have lapsed by the time the bytes leave.        *)
(***************************************************************************)
Accepts(o) == fence[job[o].act] = held[o] /\ live[job[o].act]

CheckCapability(o) ==
    /\ job[o].step = "send" /\ Accepts(o)
    /\ job' = [job EXCEPT ![o].step = "checked"]
    /\ UNCHANGED <<route, lease, outbox, clock, held, sent, reorgs, crashes>>

SendRefused(o) ==
    /\ job[o].step = "send" /\ ~Accepts(o)
    /\ Finish(o)
    /\ UNCHANGED <<route, lease, outbox, clock>>

(***************************************************************************)
(* It sends the next child, or nothing; the runner has one transaction     *)
(* only.  Its answer may be lost.  A first exposure is reported as         *)
(* progress until the route has journalled it                              *)
(* (replay_unacknowledged_progress).                                       *)
(***************************************************************************)
MaySend(a) ==
    {sent[a]} \cup (IF sent[a] = "no" THEN {"part"} ELSE {"full"})
              \cup (IF a[2] = "claim" THEN {} ELSE {"full"})

Answers(a, amount) ==
    {"idle"} \cup (IF amount = "part" \/ (amount = "full" /\ a = Down("claim"))
                     THEN {"partial"} ELSE {})
             \cup (IF amount = "full" /\ (a = Down("claim") => public)
                     THEN {"full"} ELSE {})

Send(o) ==
    LET a == job[o].act
    IN  /\ job[o].step = "checked"
        /\ \E amount \in MaySend(a) :
             /\ sent' = [sent EXCEPT ![a] = amount]
             /\ \E answer \in Answers(a, amount) :
                  job' = [job EXCEPT ![o] =
                            IF answer = "idle" THEN Idle ELSE Job(answer, a)]
        /\ UNCHANGED <<route, lease, outbox, clock, held, reorgs, crashes>>

RecordExternalization(o) ==
    /\ Holds(o) /\ job[o].step = "full"
    /\ ApplyExternalized(job[o].act, held[o])
    /\ Finish(o)

RecordProgress(o) ==
    /\ Holds(o) /\ job[o].step = "partial"
    /\ ApplyProgress(o, job[o].act, held[o], job[o].act = Down("claim"))
    /\ Finish(o)

CommitTimerEvent(o) ==
    /\ Holds(o) /\ job[o].step = "timer"
    /\ ApplyTimerEvent
    /\ job' = [job EXCEPT ![o] = Job("ack", Up("funding"))]
    /\ UNCHANGED <<held, sent, reorgs, crashes>>

AcknowledgeTimer(o) ==
    /\ Holds(o) /\ job[o].step = "ack"
    /\ CompleteTimer(o)
    /\ Finish(o)

-----------------------------------------------------------------------------
(***************************************************************************)
(* The calls of the supervisor that the driver does not make.              *)
(***************************************************************************)
OperatorCall(o) ==
    /\ Free(o)
    /\ \/ \E h \in HealthTargets : /\ h # health
                                   /\ SetHealth(h)
                                   /\ UNCHANGED <<lease, outbox, clock>>
       \/ AbortUnfunded /\ UNCHANGED <<lease, outbox, clock>>
       \/ ApplySchedule
       \/ ApplyCancel
    /\ UNCHANGED driver

RecordCompensation(o) ==
    /\ Free(o)
    /\ \E l \in Compensable : ApplyCompensated(l)
    /\ UNCHANGED driver

(***************************************************************************)
(* record_chain_observation with the queries for a reorganization and for  *)
(* the secret, which others may have put on a chain too.                   *)
(***************************************************************************)
ObserveReorg(o) ==
    /\ Free(o) /\ frozen /\ reorgs < MaxReorgs
    /\ \E a \in Actions : ObservationInvalidated(a)
    /\ reorgs' = reorgs + 1
    /\ UNCHANGED <<lease, outbox, clock, held, job, sent, crashes>>

ObserveSecret(o) ==
    /\ Free(o) /\ frozen /\ ~public
    /\ Leaks \/ Exposed(Down("claim"))
    /\ SecretObserved
    /\ UNCHANGED <<lease, outbox, clock, driver>>

Drive(o) ==
    \/ \E a \in Stale : Reconcile(o, a)
    \/ ResumeCustody(o)
    \/ DriveOnce(o)
    \/ RecordExternalization(o)
    \/ RecordProgress(o)
    \/ CommitTimerEvent(o)
    \/ AcknowledgeTimer(o)

Next ==
    \/ \E o \in Owners : \/ Acquire(o)
                         \/ Crash(o)
                         \/ Fenced(o)
                         \/ Drive(o)
                         \/ CheckCapability(o)
                         \/ SendRefused(o)
                         \/ Send(o)
                         \/ OperatorCall(o)
                         \/ RecordCompensation(o)
                         \/ ObserveReorg(o)
                         \/ ObserveSecret(o)
    \/ TimePasses

Spec == RouteInit /\ [][Next]_vars

-----------------------------------------------------------------------------
\* The snapshot, the outbox, the lease and the drivers' locals are well formed.
TypeOK ==
    /\ frozen \in BOOLEAN /\ armed \in BOOLEAN
    /\ prog \in [Actions -> Progress]
    /\ fence \in [Actions -> 0..MaxEpoch]
    /\ compensated \in [Legs -> BOOLEAN]
    /\ public \in BOOLEAN /\ health \in Healths /\ aborted \in BOOLEAN
    /\ leaseOwner \in Owners \cup {Nobody}
    /\ leaseEpoch \in 0..MaxEpoch /\ leaseLive \in BOOLEAN
    /\ row \in [Actions -> Rows]
    /\ holder \in [Actions -> Owners \cup {Nobody}]
    /\ live \in [Actions -> BOOLEAN]
    /\ timer \in Timers /\ timerHolder \in Owners \cup {Nobody}
    /\ timerLive \in BOOLEAN /\ fired \in BOOLEAN
    /\ held \in [Owners -> 0..MaxEpoch]
    /\ job \in [Owners -> [step : Steps, act : Actions]]
    /\ sent \in [Actions -> Amounts]
    /\ reorgs \in 0..MaxReorgs /\ crashes \in 0..MaxCrashes

(***************************************************************************)
(* A leg leaves by one door: custody never sends any part of both the      *)
(* claim and the refund of a leg, whatever takeovers, crashes and lost     *)
(* answers come between (validate_leg and the order of the driver).        *)
(***************************************************************************)
OneExitPerLeg ==
    \A l \in Legs : \E a \in Exits(l) : sent[a] = "no"

(***************************************************************************)
(* The route never gives the secret away downstream and takes its money    *)
(* back upstream.  The reducer would accept that refund: it is             *)
(* drive_recovery_once that does not ask for it.                           *)
(***************************************************************************)
NoSplitOutcome == sent[Down("claim")] = "no" \/ sent[Up("refund")] = "no"

(***************************************************************************)
(* Custody is only ever behind the journal: what it has sent was committed *)
(* first, downstream money moves only after the upstream funding was       *)
(* final, and the secret only after both were.                             *)
(***************************************************************************)
CustodyIsBehind ==
    /\ \A a \in Actions : sent[a] # "no" => ~Untouched(a)
    /\ sent[Down("funding")] # "no" => WasFinal(Up("funding"))
    /\ sent[Down("claim")] # "no" => WasFinal(Up("funding")) /\ WasFinal(Down("funding"))
    /\ \A a \in Actions : LeftUs(a) => sent[a] = "full"

(***************************************************************************)
(* The outbox holds a pending row for exactly the effects that the         *)
(* snapshot has committed, on the legs that are not compensated.           *)
(***************************************************************************)
OutboxMatchesSnapshot ==
    \A a \in Actions :
        row[a] = "pending" <=> prog[a] = "committed" /\ ~compensated[a[1]]

(***************************************************************************)
(* A receipt in the hands of a process whose lease is good can be          *)
(* journalled: the effect it answers is still the committed one, and the   *)
(* row is still claimed by that process.                                   *)
(***************************************************************************)
ReceiptsAreAccepted ==
    \A o \in Owners :
        Holds(o) /\ job[o].step \in {"partial", "full"} =>
            LET a == job[o].act
            IN  /\ prog[a] = "committed" /\ fence[a] = held[o]
                /\ row[a] = "pending" /\ holder[a] = o

(***************************************************************************)
(* Whatever reaches a chain is, at that moment, the effect of the current  *)
(* epoch and still dispatchable.  Custody checked the capability when it   *)
(* was called and does not ask again, so the lease and the claim may be    *)
(* gone by then: it is the lock on the stores that lets nobody take over   *)
(* or change the snapshot in between.                                      *)
(***************************************************************************)
SentStands ==
    \A a \in Actions :
        sent'[a] # sent[a] => fence[a] = leaseEpoch /\ Dispatchable(a)

SendsOnlyWhatStands == [][SentStands]_vars

(***************************************************************************)
(* The processes, the store and custody together keep the promise of       *)
(* module Swap: what is on the chains moves in its order, and the secret   *)
(* that the snapshot calls public was exposed by the downstream claim,     *)
(* unless others publish it.                                               *)
(***************************************************************************)
Promise == INSTANCE Swap WITH moved <- sent, known <- public

SwapSpec == Promise!Spec

-----------------------------------------------------------------------------
(***************************************************************************)
(* A dispatch that gets somewhere: custody sends what is missing and its   *)
(* answer tells all there is to tell.                                      *)
(***************************************************************************)
Delivered(o) ==
    LET a == job[o].act
    IN  /\ Send(o)
        /\ sent'[a] # sent[a] \/ sent[a] = "full"
        /\ job'[o].step = IF "full" \in Answers(a, sent'[a]) THEN "full" ELSE "partial"

(***************************************************************************)
(* The caller of drive_route_once_v1 never stops calling, a process whose  *)
(* lease is gone is restarted, chains finalize what stays on them, a       *)
(* reconciliation is answered in the end, dispatch leases run out, and of  *)
(* the dispatches that are tried again and again one gets through.  From   *)
(* some time on, a timer is acknowledged before its claim runs out.        *)
(***************************************************************************)
Fairness ==
    /\ \A o \in Owners : /\ WF_vars(Acquire(o))
                         /\ WF_vars(Fenced(o))
                         /\ WF_vars(Drive(o))
                         /\ WF_vars(SendRefused(o))
                         /\ SF_vars(CheckCapability(o))
                         /\ SF_vars(Delivered(o))
    /\ WF_vars(TimerLapses /\ UNCHANGED driver)
    /\ WF_vars(\E a \in Actions : DispatchLapses(a) /\ UNCHANGED driver)
    /\ <>[][TimerLapses => \A o \in Owners : job[o].step \notin {"timer", "ack"}]_vars

FairSpec == Spec /\ Fairness

(***************************************************************************)
(* Once the secret is public, a funded upstream leg is claimed, unless its *)
(* refund was chosen before or DOM compensates it: no health state, timer, *)
(* crash, takeover or reorganization holds the urgent claim up for good.   *)
(***************************************************************************)
PublicSecretIsClaimed ==
    public /\ WasFinal(Up("funding")) /\ Untouched(Up("refund"))
      ~> IsFinal(Up("claim")) \/ compensated["upstream"]

(***************************************************************************)
(* In recovery a leg whose funding left and whose exits are free gets a    *)
(* final outcome, unless the secret becomes public or the operator leaves  *)
(* recovery-only.                                                          *)
(***************************************************************************)
RecoveryRefunds ==
    \A l \in Legs :
      health = "recovery_only" /\ Refundable(l) /\ Untouched(Down("claim"))
        ~> IsTerminal(l) \/ public \/ health # "recovery_only"

(***************************************************************************)
(* In recovery a funding that is on the chain does not stay there: the leg *)
(* gets a final outcome, unless the secret becomes public or the operator  *)
(* leaves recovery-only.                                                   *)
(***************************************************************************)
SentFundingComesBack ==
    \A l \in Legs :
      health = "recovery_only" /\ sent[<<l, "funding">>] = "full" /\ Untouched(Down("claim"))
        ~> IsTerminal(l) \/ public \/ health # "recovery_only"

(***************************************************************************)
(* A due timer takes effect, it restricts the route to recovery, unless it *)
(* is cancelled or the driver runs out of work first.  A driver that dies  *)
(* with the timer in its hands does not lose it.                           *)
(***************************************************************************)
DueTimersFire ==
    timer = "due" ~> timer # "due" \/ RestrictsToRecovery \/ Target = Stop
=============================================================================
