----------------------------- MODULE ChildPorts -----------------------------
(***************************************************************************)
(* The production settlement bridge: the coordinator's plan, the process   *)
(* that drives it, and the child ports behind which the two transactions   *)
(* of the plan leave custody.                                              *)
(*                                                                         *)
(* A call is a job of several steps; the durable effects of each step are  *)
(* in SettlementCoordinator and in the operation row of the counterparty's *)
(* actuator, and a crash between two of them loses only the job.  One      *)
(* child is on DOM, the other on Solana, an EVM chain, Bitcoin or Monero.  *)
(* The Solana actuator has a module of its own.  Of the other rows only    *)
(* what decides an answer is kept: signed and never offered, offered       *)
(* ("attempted", which covers the later stages), or recorded as absent     *)
(* ("reconciled", Monero).  Their chains are the variable world: a node    *)
(* may not know bytes that another node holds.                             *)
(***************************************************************************)
EXTENDS SettlementCoordinator, SolanaActuator

CONSTANT Plans      \* the <<secret requirement, counterparty port>> considered

Ports == {"solana", "evm", "btc", "xmr"}

\* With a secret that is already public a Solana pair is never installed: its
\* draft needs the exposure that materialize refuses to give (see Materialize).
ASSUME PlansAssumption ==
    Plans \subseteq (Requirements \X Ports) \ {<<"AlreadyPublic", "solana">>}

VARIABLES
    port,       \* the port of the counterparty child
    world,      \* the bytes of each child that is not on Solana
    job         \* the call in progress, lost by a crash

vars == <<coordinator, actuator, cluster, port, world, job>>

Worlds == {"held", "sent", "final"}
Steps  == {"call", "send", "called", "reconcile", "expiry", "conclude", "reconciled",
           "observe", "note", "observed", "materialize", "materialized"}
Idle   == [op |-> "idle", child |-> 0, got |-> "nothing"]

Results == {"nothing", "not_externalized", "externalized", "unknown",
            "absent", "confirmed", "finalized", "failed",
            "pending", "final", "invalidated", "FirstSecretExposure", "UsesPublicSecret"}

\* The plan's stages, the call in progress and the clusters are well formed.
TypeOK ==
    /\ CoordinatorType
    /\ ActuatorType
    /\ port \in Ports
    /\ world \in [Children -> Worlds]
    /\ job \in [op : Steps, child : Children, got : Results] \cup {Idle}

\* The counterparty goes first, except when the DOM claim exposes the secret.
Counterparty == IF Staged THEN 2 ELSE 1
OnSolana(c) == port = "solana" /\ c = Counterparty
PortOf(c) == IF c = Counterparty THEN port ELSE "dom"

Init ==
    /\ \E p \in Plans : requirement = p[1] /\ port = p[2]
    /\ CoordinatorInit
    /\ row = IF Staged THEN "none" ELSE "signed"
    /\ ClusterInit
    /\ world = [c \in Children |-> "held"]
    /\ job = Idle

-----------------------------------------------------------------------------
(***************************************************************************)
(* The driver: what the process does when no call is in progress.          *)
(***************************************************************************)

Begin(op, c) == job' = [op |-> op, child |-> c, got |-> "nothing"]
Goto(op, got) == job' = [job EXCEPT !.op = op, !.got = got]
Free == job = Idle
Calls == UNCHANGED <<row, cluster, port, world>>

\* replay_unacknowledged_progress: partial progress goes to the route again
\* until a capability carries it.
AcknowledgeProgress ==
    /\ Free /\ Audited
    /\ agg = "active" /\ ~behind /\ Left(1) /\ ~Ambiguous /\ ~acked
    /\ acked' = TRUE
    /\ UNCHANGED <<requirement, agg, stage, secret, behind, asked, observing, preparing,
                   actuator, cluster, port, world, job>>

StartCall(c) ==
    /\ Free /\ Audited
    /\ ~Ambiguous
    /\ Left(1) => acked
    /\ PrepareNextChildCall(c)
    /\ Begin("call", c)
    /\ Calls /\ UNCHANGED noted

StartReconciliation(c) ==
    /\ Free /\ Audited
    /\ PrepareReconciliation(c)
    /\ Begin("reconcile", c)
    /\ noted' = IF c = Counterparty /\ asked # "open" THEN noted \ {"reconcile"} ELSE noted
    /\ Calls

StartMaterialization ==
    /\ Free /\ Audited
    /\ acked
    /\ PrepareDeferredChild
    /\ Begin("materialize", 2)
    /\ Calls /\ UNCHANGED noted

StartObservation(c) ==
    /\ Free /\ Audited
    /\ PrepareObservation(c)
    /\ Begin("observe", c)
    /\ noted' = IF c = Counterparty /\ c \notin observing THEN noted \ {"observe"} ELSE noted
    /\ Calls

Fences ==
    /\ Free
    /\ AcquireTakeoverLease \/ RenewLease \/ AcquireObservationLease \/ RefencePlan
    /\ UNCHANGED <<actuator, cluster, port, world, job>>

-----------------------------------------------------------------------------
(***************************************************************************)
(* The steps of a call.                                                    *)
(***************************************************************************)

At(op) == job.op = op
InJob == UNCHANGED <<coordinator, port>>
Refused == job' = Idle /\ InJob /\ UNCHANGED <<actuator, cluster, world>>

PortIs(p) == PortOf(job.child) = p

\* Mutant: the send is not recorded before the nodes see the bytes.
ExternalizeUnmarked ==
    /\ At("call") /\ OnSolana(job.child)
    /\ MayBroadcast
    /\ Goto("send", "nothing")
    /\ InJob /\ UNCHANGED <<actuator, cluster, world>>

\* Every counterparty's row admits the send before a node sees a byte.
RecordSend ==
    /\ MayBroadcast
    /\ row' = "attempted"
    /\ Goto("send", "nothing")
    /\ InJob /\ UNCHANGED <<noted, cluster, world>>

Externalize    == At("call") /\ OnSolana(job.child) /\ RecordSend
ExternalizeEvm == At("call") /\ PortIs("evm") /\ RecordSend
ExternalizeBtc == At("call") /\ PortIs("btc") /\ RecordSend
ExternalizeXmr == At("call") /\ PortIs("xmr") /\ RecordSend

ExternalizeRefused ==
    /\ At("call") /\ ~PortIs("dom")
    /\ ~MayBroadcast
    /\ Refused

\* A node that does not echo the signature may still hold the bytes.
Send ==
    /\ At("send") /\ OnSolana(job.child)
    /\ \E accepted, offered \in BOOLEAN :
          /\ accepted => offered
          /\ sent' = (sent \/ offered)
          /\ Goto("called", IF accepted THEN "externalized" ELSE "unknown")
    /\ InJob /\ UNCHANGED <<actuator, at, ok, root, height, world>>

\* A node is offered the bytes or not; only one that accepts them says so.
Offer(next) ==
    /\ \E w \in {world[job.child], "sent"} :
          /\ world[job.child] = "held" \/ w = world[job.child]
          /\ world' = [world EXCEPT ![job.child] = w]
          /\ \E got \in {"unknown", "externalized"} :
                /\ got = "externalized" => w # "held"
                /\ Goto(next, got)
    /\ InJob /\ UNCHANGED <<actuator, cluster>>

SendExact == At("send") /\ ~OnSolana(job.child) /\ Offer("called")

\* The DOM authority broadcasts the retained bytes each time it is asked.
ExternalizeDom == At("call") /\ PortIs("dom") /\ Offer("called")

Called ==
    /\ At("called")
    /\ CompleteChildCall(job.child, job.got)
    /\ job' = Idle
    /\ UNCHANGED <<actuator, cluster, port, world>>

\* Reconciling DOM is broadcasting again; absence is never proven.  Only the
\* route fence of the dispatch may ask.
ReconcileDom ==
    /\ At("reconcile") /\ PortIs("dom")
    /\ ~behind
    /\ Offer("reconciled")

\* What a row and its node can say: never sent by the row's own record, else
\* the exact transaction if the node knows it, else Unknown, for ever if the
\* bytes were lost on their way.  (Funding answers Unknown where a claim or a
\* refund is proven unsent.)
RowAnswers ==
    {"unknown"} \cup (IF row = "signed" THEN {"not_externalized"}
                      ELSE IF world[job.child] = "held" THEN {} ELSE {"externalized"})

ReconcileEvm ==
    /\ At("reconcile") /\ PortIs("evm")
    /\ \E got \in RowAnswers : Goto("reconciled", got)
    /\ InJob /\ UNCHANGED <<actuator, cluster, world>>

ReconcileBtc ==
    /\ At("reconcile") /\ PortIs("btc")
    /\ ~behind
    /\ \E got \in RowAnswers : Goto("reconciled", got)
    /\ InJob /\ UNCHANGED <<actuator, cluster, world>>

\* An absent transaction whose key image is unspent counts as not sent, which
\* is true of that moment only.  Finality is accepted from any row.
ReconcileXmr ==
    /\ At("reconcile") /\ PortIs("xmr")
    /\ \/ /\ \E got \in RowAnswers : got # "externalized" /\ Goto("reconciled", got)
          /\ UNCHANGED actuator
       \/ /\ row \notin {"none", "signed"} /\ world[job.child] # "final"
          /\ ApplyMutation("reconcile", {"attempted"}, "reconciled")
          /\ Goto("reconciled", "not_externalized")
       \/ /\ row \notin {"none", "signed"} /\ world[job.child] # "held"
          /\ ApplyMutation("reconcile",
                 {"attempted"} \cup IF world[job.child] = "final" THEN {"reconciled"} ELSE {},
                 "attempted")
          /\ Goto("reconciled", "externalized")
    /\ InJob /\ UNCHANGED <<cluster, world>>

ReconcileRefused ==
    /\ At("reconcile")
    /\ \/ behind /\ PortOf(job.child) \in {"dom", "btc"}
       \/ /\ PortIs("xmr") /\ world[job.child] # "final"
          /\ Conflicts("reconcile", {"signed", "attempted"})
    /\ Refused

\* Signed is itself the proof that no node was offered the bytes.
ReconcileSigned ==
    /\ At("reconcile") /\ OnSolana(job.child)
    /\ row = "signed"
    /\ Goto("reconciled", "not_externalized")
    /\ InJob /\ UNCHANGED <<actuator, cluster, world>>

\* reconcile_takeover reads the status, and only then the height.
ReconcileStatus ==
    /\ At("reconcile") /\ OnSolana(job.child)
    /\ row # "signed"
    /\ \E v \in Status : Goto(IF v = "absent" THEN "expiry" ELSE "conclude", v)
    /\ InJob /\ UNCHANGED <<actuator, cluster, world>>

Expiry ==
    /\ At("expiry")
    /\ \E floor \in Floors :
          IF floor <= LastValid THEN Goto("reconciled", "unknown") ELSE Goto("conclude", "absent")
    /\ InJob /\ UNCHANGED <<actuator, cluster, world>>

Conclude ==
    /\ At("conclude")
    /\ ApplyMutation("reconcile", ReconcileFrom(job.got), After(job.got))
    /\ Goto("reconciled", IF job.got = "absent" THEN "not_externalized"
                          ELSE IF job.got = "failed" /\ row' # "invalidated" THEN "unknown"
                          ELSE "externalized")
    /\ InJob /\ UNCHANGED <<cluster, world>>

ConcludeRefused ==
    /\ At("conclude")
    /\ Conflicts("reconcile", ReconcileFrom(job.got))
    /\ Refused

Reconciled ==
    /\ At("reconciled")
    /\ CompleteReconciliation(job.child, job.got)
    /\ job' = Idle
    /\ UNCHANGED <<actuator, cluster, port, world>>

\* Mutant: a deferred child is materialized as if it carried no secret.
MaterializeNonSecret ==
    /\ At("materialize")
    /\ Goto("materialized", "NonSecret")
    /\ InJob /\ UNCHANGED <<actuator, cluster, world>>

\* The exposure of a Solana claim is read off the stage of its row; the other
\* ports repeat the one they were asked for.
Materialize ==
    /\ At("materialize")
    /\ PrepareSigned
    /\ Goto("materialized", IF OnSolana(2) /\ row' = "signed" THEN "FirstSecretExposure"
                                                              ELSE "UsesPublicSecret")
    /\ InJob /\ UNCHANGED <<noted, cluster, world>>

Materialized ==
    /\ At("materialized")
    /\ \/ /\ InsertDeferredChild(job.got)
          /\ job' = Idle
          /\ UNCHANGED <<actuator, cluster, port, world>>
       \/ /\ job.got # "UsesPublicSecret"
          /\ Refused

\* Final at depth; not final is an invalidation only of finality on record.
ChainAnswer ==
    CASE world[job.child] = "final" -> "final"
      [] world[job.child] # "final" /\ stage[job.child] = "final" -> "invalidated"
      [] OTHER -> "pending"

ObserveChain ==
    /\ Goto("observed", ChainAnswer)
    /\ InJob /\ UNCHANGED <<actuator, cluster, world>>

\* A row the observation of which is not a Conflict.
Observable == row \notin {"signed", "reconciled"}

ObserveDom == At("observe") /\ PortIs("dom") /\ ObserveChain
ObserveEvm == At("observe") /\ PortIs("evm") /\ Observable /\ ObserveChain
ObserveBtc == At("observe") /\ PortIs("btc") /\ row # "signed" /\ ObserveChain
ObserveXmr == At("observe") /\ PortIs("xmr") /\ Observable /\ ObserveChain

\* What the port answers from the row; a failed execution invalidates only a
\* child whose finality was recorded.
Observation(r) ==
    CASE r = "final"                                           -> "final"
      [] r = "invalidated" /\ stage[job.child] = "final"       -> "invalidated"
      [] OTHER                                                 -> "pending"

ObserveStatus ==
    /\ At("observe") /\ OnSolana(job.child)
    /\ Observable
    /\ \E v \in Status :
          Goto(IF v = "absent" THEN "observed" ELSE "note",
               IF v = "absent" THEN Observation(row) ELSE v)
    /\ InJob /\ UNCHANGED <<actuator, cluster, world>>

ObserveRefused ==
    /\ At("observe") /\ ~PortIs("dom")
    /\ ~Observable
    /\ Refused

Note ==
    /\ At("note")
    /\ ApplyMutation("observe", ObserveFrom(job.got), After(job.got))
    /\ Goto("observed", Observation(row'))
    /\ InJob /\ UNCHANGED <<cluster, world>>

NoteRefused ==
    /\ At("note")
    /\ Conflicts("observe", ObserveFrom(job.got))
    /\ Refused

Observed ==
    /\ At("observed")
    /\ CompleteObservation(job.child, job.got)
    /\ job' = Idle
    /\ UNCHANGED <<actuator, cluster, port, world>>

\* A crash, an unavailable quorum or an expired lease ends the call.
Fail ==
    /\ ~Free
    /\ Refused

-----------------------------------------------------------------------------
ChainFinal(c) ==
    /\ world[c] = "sent"
    /\ world' = [world EXCEPT ![c] = "final"]
    /\ UNCHANGED <<coordinator, actuator, cluster, port, job>>

ChainReorg(c) ==
    /\ world[c] = "final"
    /\ world' = [world EXCEPT ![c] = "sent"]
    /\ UNCHANGED <<coordinator, actuator, cluster, port, job>>

Cluster ==
    /\ port = "solana"
    /\ \/ \E h \in 1..LastValid, success \in BOOLEAN : Land(h, success)
       \/ Drop
       \/ Finalize
       \/ \E n \in Nodes : CatchUp(n)
    /\ UNCHANGED <<coordinator, port, world, job>>

Process ==
    \/ Externalize \/ ExternalizeEvm \/ ExternalizeBtc \/ ExternalizeXmr \/ ExternalizeDom
    \/ ExternalizeRefused \/ Send \/ SendExact \/ Called
    \/ ReconcileDom \/ ReconcileEvm \/ ReconcileBtc \/ ReconcileXmr \/ ReconcileRefused
    \/ ReconcileSigned \/ ReconcileStatus \/ Expiry
    \/ Conclude \/ ConcludeRefused \/ Reconciled
    \/ Materialize \/ Materialized
    \/ ObserveDom \/ ObserveEvm \/ ObserveBtc \/ ObserveXmr
    \/ ObserveStatus \/ ObserveRefused \/ Note \/ NoteRefused \/ Observed

Next ==
    \/ AcknowledgeProgress
    \/ \E c \in Children : StartCall(c) \/ StartReconciliation(c) \/ StartObservation(c)
    \/ StartMaterialization
    \/ Fences
    \/ Process
    \/ Fail
    \/ \E c \in Children : ChainFinal(c) \/ ChainReorg(c)
    \/ Cluster

Spec == Init /\ [][Next]_vars

-----------------------------------------------------------------------------
(***************************************************************************)
(* Safety.                                                                 *)
(***************************************************************************)

\* The store never writes a plan that its own audit (audit_aggregate_state),
\* which every later load runs, refuses as CorruptState for good.
AuditAccepts == Audited

\* The bytes of a child left its authority and may still take effect.
Out(c) == IF OnSolana(c) THEN sent /\ root <= LastValid ELSE world[c] # "held"

\* A child the coordinator believes was never called, or proven not to have
\* left (clear_pending_child), has no bytes out that could still take effect:
\* whatever crashed, lapsed or was taken over between the call and its record.
\* The one exception is a Monero sweep, whose absence is a statement about a
\* moment; then its row still admits that it was offered.  (Solana bytes that
\* executed between the status and the height that expiry is read from took
\* effect already; LandedBecomesFinal is about those.)
NothingLeavesUnrecorded ==
    \A c \in Children :
        /\ stage[c] = "deferred" => ~Out(c)
        /\ stage[c] = "planned" /\ Out(c) => PortOf(c) = "xmr" /\ row \notin {"none", "signed"}

\* The plan admits that the secret may be exposed before the bytes that carry
\* it leave, and the counterparty claim leaves only once the secret is public
\* (prepare_next_child_call, persist_child_externalized).
ExposureIsRecorded ==
    Staged => /\ Out(1) => secret # "private"
              /\ stage[2] # "deferred" \/ Out(2) => secret = "public"

\* A Solana child recorded as final was executed successfully in a block the
\* cluster finalized (finality_facts, promote_final), for any lag and quorum.
FinalIsFinalized ==
    \A c \in Children : OnSolana(c) /\ stage[c] = "final" => at \in 1..root /\ ok

-----------------------------------------------------------------------------
(***************************************************************************)
(* Liveness.  The driver ticks for ever; from some point on nothing fails, *)
(* leases hold, chains keep what is final, and the DOM node answers.  Of   *)
(* the EVM, Bitcoin and Monero ports nothing is assumed: they may answer   *)
(* Unknown for ever.                                                       *)
(***************************************************************************)

Refusing ==
    \/ ExternalizeRefused \/ ReconcileRefused \/ ConcludeRefused \/ ObserveRefused
    \/ NoteRefused \/ Materialized

Calm ==
    /\ behind' => behind
    /\ ~(asked = "open" /\ asked' = "stale")
    /\ Fail => Refusing
    /\ \A c \in Children : world[c] = "final" => world'[c] = "final"
    /\ ExternalizeDom \/ ReconcileDom => job'.got # "unknown"

Fairness ==
    /\ WF_vars(Process)
    /\ WF_vars(AcknowledgeProgress)
    /\ WF_vars(\E c \in Children : StartCall(c) \/ StartReconciliation(c))
    /\ WF_vars(StartMaterialization)
    /\ \A c \in Children : SF_vars(StartObservation(c))
    /\ WF_vars(Fences /\ behind /\ ~behind')
    /\ \A c \in Children : WF_vars(ChainFinal(c))
    /\ WF_vars(Finalize /\ UNCHANGED <<coordinator, port, world, job>>)
    /\ \A n \in Nodes : WF_vars(CatchUp(n) /\ UNCHANGED <<coordinator, port, world, job>>)
    /\ <>[][Calm]_vars

FairSpec == Spec /\ Fairness

\* A Solana child that executed successfully in a finalized block is recorded
\* as externalized and then as final, also after a lost call or a mistaken
\* expiry.  Three cases fall short.  A row closed by an execution that failed on
\* a fork since dropped accepts nothing more (a failure counts at any
\* commitment).  A row whose expiry was recorded, and whose attempt is answered
\* again after a crash, stays reconciled (apply_mutation replays) and is
\* externalized without ever becoming observable.  And a plan taken over while
\* the call of its DOM child was unanswered stays where it is: the DOM port
\* refuses the newer route fence, and the plan is adopted only once answered.
LandedBecomesFinal ==
    (\E c \in Children : OnSolana(c) /\ at \in 1..root /\ ok)
        ~> \/ row = "invalidated"
           \/ behind /\ \E c \in Children : PortOf(c) = "dom" /\ stage[c] = "pending"
           \/ \E c \in Children : /\ OnSolana(c)
                                 /\ Left(c)
                                 /\ (stage[c] = "final" \/ row = "reconciled")

\* Once the DOM claim made the secret public, the counterparty claim leaves.
ExposureIsAnswered == Staged /\ secret = "public" ~> Left(2)

\* Once the DOM claim made the secret public, the counterparty claim is
\* materialized and handed to its port, whatever was lost or taken over between
\* (materialize_deferred_child_one, drive_one).  Not for Solana, whose port
\* mislabels the claim, and no more than handed over: an EVM or Bitcoin port
\* whose node lost the bytes answers Unknown for ever and sends no second time.
ExposureIsHandedOver ==
    Staged /\ port # "solana" /\ secret = "public" ~> stage[2] = "pending" \/ Left(2)
=============================================================================
