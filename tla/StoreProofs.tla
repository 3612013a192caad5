---------------------------- MODULE StoreProofs ----------------------------
(***************************************************************************)
(* What holds of the settlement machine and of each transaction of the     *)
(* store, whoever calls it: the facts that the proofs about the writers    *)
(* (SettlementProofs) and about the engine (EngineProofs) share.           *)
(***************************************************************************)
EXTENDS SettlementStore, TLAPS

-----------------------------------------------------------------------------
(* The machine *)

\* The arm of an accepted event leaves a context.
LEMMA ArmType ==
    ASSUME NEW c \in Contexts, NEW e \in Events, Accepts(c, e)
    PROVE  Arm(c, e) \in Contexts /\ ~IsTerminal(c)
<1>1. ~IsTerminal(c) /\ e.kind \in LegalKinds(c.state)
  BY DEF Accepts, Verdict
<1>2. CASE e \in EvidenceEvents
  BY Zenon, <1>1, <1>2 DEF Arm, OnRefundArmed, Contexts, EvidenceEvents, EvidenceKinds, Evidence, States
<1>3. CASE e.kind = "ReorgInvalidated"
  BY Zenon, <1>1, <1>3 DEF Arm, OnRefundArmed, Regress, Affected, Contexts, States
<1>4. CASE e.kind \in {"RefundArmed", "TimelockExpired", "FundingAbsent"}
  BY Zenon, <1>1, <1>4 DEF Arm, OnRefundArmed, Contexts, States
<1>. QED BY <1>2, <1>3, <1>4 DEF Events

\* An accepted event leads from a context to a context, one revision further.
LEMMA NextContextType ==
    ASSUME NEW c \in Contexts, NEW e \in Events, Accepts(c, e)
    PROVE  /\ NextContext(c, e) \in Contexts
           /\ NextContext(c, e).revision = c.revision + 1
BY ArmType DEF NextContext, Contexts

\* The effects of an event are outbox entries that name it as their source.
LEMMA EffectsOfType ==
    ASSUME NEW c, NEW e \in Events
    PROVE  EffectsOf(c, e) \subseteq [kind : EffectKinds, source : {e}]
<1>1. EffectKindsOf(c, e) \subseteq EffectKinds
  BY DEF EffectKindsOf, EffectKinds
<1>. QED BY <1>1 DEF EffectsOf

\* No event disarms the refund path, and RefundArmed arms it.
LEMMA RefundStaysArmed ==
    ASSUME NEW c \in Contexts, NEW e \in Events, Accepts(c, e)
    PROVE  /\ c.refund_path_armed => NextContext(c, e).refund_path_armed
           /\ e.kind = "RefundArmed" => NextContext(c, e).refund_path_armed
<1>1. /\ c.refund_path_armed => Arm(c, e).refund_path_armed
      /\ e.kind = "RefundArmed" => Arm(c, e).refund_path_armed
  BY DEF Arm, OnRefundArmed, Regress, Contexts
<1>. QED BY <1>1, ArmType DEF NextContext, Contexts

-----------------------------------------------------------------------------
(* The store *)

\* The conditions under which a commit writes: the machine accepts the event in
\* the loaded context, and that context has the revision of the snapshot.
MayCommit(s, e) ==
    /\ Accepts(s, e)
    /\ s.revision = ctx.revision
    /\ ~KeyConflict(s, e)

\* What a call of ingest_event can have written.
LEMMA IngestCases ==
    ASSUME NEW s, NEW b, NEW e, NEW cur, IngestWrite(s, b, e, cur)
    PROVE  \/ MayCommit(s, e) /\ CommitTransition(s, e, cur)
           \/ b /\ CarriesEvidence(e) /\ ReaffirmEvidence(e)
           \/ RecordLateEvidence(e)
           \/ CarriesEvidence(e) /\ ParkEvidence(e)
           \/ UNCHANGED storeVars
<1> DEFINE o == IngestOutcome(s, b, e)
<1>1. o = "Committed" => MayCommit(s, e)
  BY DEF IngestOutcome, CommitOutcome, MayCommit
<1>2. o = "Reaffirmed" => b /\ CarriesEvidence(e)
  BY DEF IngestOutcome, CommitOutcome
<1>3. o = "Parked" => CarriesEvidence(e)
  BY DEF IngestOutcome, CommitOutcome
<1>. QED BY <1>1, <1>2, <1>3 DEF IngestWrite

\* A row that is written keeps the table of evidence well formed.
LEMMA WithStatusType ==
    ASSUME StoreTypeOK, NEW e \in EvidenceEvents, NEW st \in EvidenceStatus
    PROVE  LET t == WithStatus(e, st) IN
           /\ DOMAIN t \subseteq EvidenceEvents
           /\ \A x \in DOMAIN t : t[x] \in EvidenceStatus
BY DEF StoreTypeOK, WithStatus

\* An event that carries evidence is one of EvidenceEvents.
LEMMA CarriersAreEvidenceEvents ==
    ASSUME NEW e \in Events, CarriesEvidence(e)
    PROVE  e \in EvidenceEvents
BY DEF Events, CarriesEvidence, EvidenceKinds

\* Every transaction keeps the tables well formed: the commit.
LEMMA CommitKeepsStoreType ==
    ASSUME StoreTypeOK, NEW s \in Contexts, NEW e \in Events, Accepts(s, e),
           NEW cur \in Anchors \cup {NoCursor}, CommitTransition(s, e, cur)
    PROVE  StoreTypeOK'
<1> DEFINE next == NextContext(s, e)
<1>1. next \in Contexts
  BY NextContextType
<1>2. ctx' \in Contexts
  BY <1>1 DEF CommitTransition, WithEffects
<1>3. journal' \in Seq(JournalRows)
  <2> DEFINE row == [event |-> e, refresh |-> Journalled(e),
                     expected |-> s.revision, context |-> next]
  <2>1. Journalled(e) \in BOOLEAN
    BY DEF Journalled
  <2>2. row \in JournalRows
    BY <1>1, <2>1 DEF JournalRows, Contexts
  <2>3. journal' = Append(journal, row)
    BY DEF CommitTransition, WithRow
  <2> HIDE DEF row
  <2>. QED BY <2>2, <2>3 DEF StoreTypeOK
<1>4. /\ DOMAIN evidence' \subseteq EvidenceEvents
      /\ \A x \in DOMAIN evidence' : evidence'[x] \in EvidenceStatus
  <2>1. CASE CarriesEvidence(e)
    BY <2>1, CarriersAreEvidenceEvents, WithStatusType
       DEF CommitTransition, EvidenceStatus
  <2>2. CASE ~CarriesEvidence(e)
    BY <2>2 DEF CommitTransition, WithEffects, StoreTypeOK
  <2>. QED BY <2>1, <2>2
<1>5. /\ DOMAIN outbox' \subseteq Effects
      /\ \A f \in DOMAIN outbox' : outbox'[f] \in {"Pending", "Completed"}
      /\ leased' \subseteq DOMAIN outbox'
  BY EffectsOfType DEF CommitTransition, WithEffects, StoreTypeOK, Effects
<1>6. terminal' \subseteq TerminalRows
  BY <1>1 DEF CommitTransition, WithEffects, StoreTypeOK, TerminalRows, IsTerminal, Contexts
<1>7. late' \subseteq Events /\ cursor' \in Anchors \cup {NoCursor}
  BY DEF CommitTransition, WithEffects, StoreTypeOK
<1>. QED BY <1>2, <1>3, <1>4, <1>5, <1>6, <1>7 DEF StoreTypeOK

\* Every transaction keeps the tables well formed: the others.
LEMMA WritesKeepStoreType ==
    ASSUME StoreTypeOK,
           \/ UNCHANGED storeVars
           \/ \E e \in Events : RecordLateEvidence(e) \/ ReaffirmEvidence(e)
           \/ \E e \in EvidenceEvents : ParkEvidence(e)
           \/ \E h : InvalidateEvidenceFrom(h)
           \/ ClaimReady
           \/ \E f : LeaseExpires(f) \/ CompleteEffect(f)
    PROVE  StoreTypeOK'
<1> USE DEF StoreTypeOK, EvidenceStatus
<1>1. CASE UNCHANGED storeVars
  BY <1>1 DEF storeVars
<1>2. ASSUME NEW e \in Events, RecordLateEvidence(e)
      PROVE  StoreTypeOK'
  BY <1>2 DEF RecordLateEvidence
<1>3. ASSUME NEW e \in Events, ReaffirmEvidence(e)
      PROVE  StoreTypeOK'
  BY <1>3 DEF ReaffirmEvidence
<1>4. ASSUME NEW e \in EvidenceEvents, ParkEvidence(e)
      PROVE  StoreTypeOK'
  BY <1>4, WithStatusType DEF ParkEvidence
<1>5. ASSUME NEW h, InvalidateEvidenceFrom(h)
      PROVE  StoreTypeOK'
  BY <1>5 DEF InvalidateEvidenceFrom
<1>6. CASE ClaimReady
  BY <1>6 DEF ClaimReady, Ready, Pending
<1>7. ASSUME NEW f, LeaseExpires(f)
      PROVE  StoreTypeOK'
  BY <1>7 DEF LeaseExpires
<1>8. ASSUME NEW f, CompleteEffect(f)
      PROVE  StoreTypeOK'
  BY <1>8 DEF CompleteEffect
<1>. QED BY <1>1, <1>2, <1>3, <1>4, <1>5, <1>6, <1>7, <1>8

-----------------------------------------------------------------------------
(* A commit in the context it was decided in *)

StoreCommit(e, cur) == Accepts(ctx, e) /\ CommitTransition(ctx, e, cur)

\* The journal after a commit: one more row, the earlier ones as they were.
LEMMA StoreCommitAppends ==
    ASSUME StoreTypeOK, NEW e \in Events, NEW cur, StoreCommit(e, cur)
    PROVE  LET next == NextContext(ctx, e) IN
           /\ next \in Contexts
           /\ next.revision = ctx.revision + 1
           /\ Len(journal') = Len(journal) + 1
           /\ \A i \in 1 .. Len(journal) : journal'[i] = journal[i]
           /\ LET row == journal'[Len(journal) + 1] IN
              /\ row.event = e
              /\ row.expected = ctx.revision
              /\ row.context = next
           /\ ctx' = next
<1> DEFINE next == NextContext(ctx, e)
           row == [event |-> e, refresh |-> Journalled(e),
                   expected |-> ctx.revision, context |-> next]
<1>1. next \in Contexts /\ next.revision = ctx.revision + 1
  BY NextContextType DEF StoreCommit, StoreTypeOK
<1>2. journal' = Append(journal, row) /\ ctx' = next
  BY DEF StoreCommit, CommitTransition, WithRow
<1>3. journal \in Seq(JournalRows)
  BY DEF StoreTypeOK
<1>4. row.event = e /\ row.expected = ctx.revision /\ row.context = next
  OBVIOUS
<1>5. /\ Len(journal') = Len(journal) + 1
      /\ \A i \in 1 .. Len(journal) : journal'[i] = journal[i]
      /\ journal'[Len(journal) + 1] = row
  <2> HIDE DEF row
  <2>. QED BY <1>2, <1>3
<1>. QED BY <1>1, <1>2, <1>4, <1>5

\* A commit leaves the contexts of the shorter journal as they were.
LEMMA StoreCommitKeepsHistory ==
    ASSUME StoreTypeOK, NEW e \in Events, NEW cur, StoreCommit(e, cur), NEW n \in 0 .. Len(journal)
    PROVE  ContextAfter(n)' = ContextAfter(n)
BY StoreCommitAppends DEF ContextAfter

\* A commit leaves a database that recovers.
LEMMA StoreCommitRecoverable ==
    ASSUME StoreTypeOK, Recoverable, NEW e \in Events, NEW cur, StoreCommit(e, cur)
    PROVE  Recoverable'
<1>0. PICK N \in Nat : N = Len(journal)
  BY DEF StoreTypeOK
<1>1. Accepts(ctx, e) /\ terminal = {}
  BY ArmType DEF StoreCommit, StoreTypeOK, Recoverable
<1>2. ctx = ContextAfter(N)
  BY <1>0 DEF Recoverable
<1>3. Len(journal') = N + 1
  BY <1>0, StoreCommitAppends
<1>4. ASSUME NEW i \in 1 .. N
      PROVE  /\ journal'[i].expected = ContextAfter(i - 1)'.revision
             /\ Accepts(ContextAfter(i - 1)', journal'[i].event)
             /\ journal'[i].context = NextContext(ContextAfter(i - 1)', journal'[i].event)
  <2>1. ContextAfter(i - 1)' = ContextAfter(i - 1)
    BY <1>0, StoreCommitKeepsHistory
  <2>2. journal'[i] = journal[i]
    BY <1>0, StoreCommitAppends
  <2>. QED BY <1>0, <2>1, <2>2 DEF Recoverable
<1>5. /\ journal'[N + 1].expected = ContextAfter(N)'.revision
      /\ Accepts(ContextAfter(N)', journal'[N + 1].event)
      /\ journal'[N + 1].context = NextContext(ContextAfter(N)', journal'[N + 1].event)
  <2>1. ContextAfter(N)' = ctx
    BY <1>0, <1>2, StoreCommitKeepsHistory
  <2>. QED BY <1>0, <1>1, <2>1, StoreCommitAppends
<1>6. \A i \in 1 .. Len(journal') :
          /\ journal'[i].expected = ContextAfter(i - 1)'.revision
          /\ Accepts(ContextAfter(i - 1)', journal'[i].event)
          /\ journal'[i].context = NextContext(ContextAfter(i - 1)', journal'[i].event)
  <2> TAKE i \in 1 .. Len(journal')
  <2>1. CASE i \in 1 .. N
    BY <1>4, <2>1
  <2>2. CASE i = N + 1
    <3>1. i - 1 = N
      BY <1>0, <2>2
    <3>. QED BY <1>5, <2>2, <3>1
  <2>. QED BY <1>0, <1>3, <2>1, <2>2
<1>7. ctx' = ContextAfter(Len(journal))'
  <2>1. ContextAfter(Len(journal))' = journal'[N + 1].context
    BY <1>0, <1>3 DEF ContextAfter
  <2>. QED BY <1>0, <2>1, StoreCommitAppends
<1>8. terminal' = IF IsTerminal(ctx')
                  THEN {[outcome |-> ctx'.state, source |-> e, revision |-> ctx'.revision]}
                  ELSE {}
  BY <1>1 DEF StoreCommit, CommitTransition, WithEffects
<1>9. /\ terminal' = {} <=> ~IsTerminal(ctx')
      /\ \A r \in terminal' : r.outcome = ctx'.state /\ r.revision = ctx'.revision
  <2>1. CASE IsTerminal(ctx')
    <3> DEFINE row == [outcome |-> ctx'.state, source |-> e, revision |-> ctx'.revision]
    <3>1. row.outcome = ctx'.state /\ row.revision = ctx'.revision
      OBVIOUS
    <3>2. terminal' = {row}
      BY <1>8, <2>1
    <3> HIDE DEF row
    <3>. QED BY <2>1, <3>1, <3>2
  <2>2. CASE ~IsTerminal(ctx')
    BY <1>8, <2>2
  <2>. QED BY <2>1, <2>2
<1>. QED BY <1>6, <1>7, <1>9 DEF Recoverable

-----------------------------------------------------------------------------
(* What a commit does to the promise of module Settlement *)

\* The orders that Promise reads off the outbox.
Ordered == {f.kind : f \in DOMAIN outbox} \ {"RevalidateFrom"}

\* What the context says about the orders that were given.
OrdersMatchContext ==
    /\ ctx.state = "Preparing" => Ordered = {}
    /\ ctx.state # "Preparing" => "AuthorizeFunding" \in Ordered
    /\ ctx.claim_evidence_verified => "RequestClaimConsumption" \in Ordered

\* Where an accepted event comes from and leads to.
LEMMA StateAfter ==
    ASSUME NEW c \in Contexts, NEW e \in Events, Accepts(c, e)
    PROVE  LET n == NextContext(c, e) IN
           /\ n.state # "Preparing" => c.state # "Preparing" \/ e.kind = "RefundArmed"
           /\ n.state = "Preparing" => c.state = "Preparing" /\ EffectKindsOf(c, e) = {}
           /\ e.kind = "RefundArmed" <=> c.state = "Preparing" /\ n.state # "Preparing"
           /\ n.claim_evidence_verified
                => c.claim_evidence_verified \/ e.kind = "ClaimEvidenceVerified"
           /\ e.kind = "ClaimConfirmed" => n.state = "Settled" /\ c.claim_evidence_verified
           /\ e.kind = "RefundConfirmed" => n.state = "Refunded"
           /\ IsTerminal(n) <=> e.kind \in {"ClaimConfirmed", "RefundConfirmed"}
<1>0. c.state \in States \ TerminalStates /\ e.kind \in LegalKinds(c.state)
  BY DEF Accepts, Verdict, IsTerminal, Contexts
<1>1. Arm(c, e) \in Contexts
  BY ArmType
<1>2. /\ NextContext(c, e).state = Arm(c, e).state
      /\ NextContext(c, e).claim_evidence_verified = Arm(c, e).claim_evidence_verified
  BY <1>1 DEF NextContext, Contexts
<1>3. e.kind = "ClaimConfirmed" => c.claim_evidence_verified
  BY <1>0 DEF Accepts, Verdict, LegalKinds, IsTerminal, States
<1>4. LET n == Arm(c, e) IN
      /\ n.state # "Preparing" => c.state # "Preparing" \/ e.kind = "RefundArmed"
      /\ n.state = "Preparing" => c.state = "Preparing" /\ EffectKindsOf(c, e) = {}
      /\ e.kind = "RefundArmed" <=> c.state = "Preparing" /\ n.state # "Preparing"
      /\ n.claim_evidence_verified
           => c.claim_evidence_verified \/ e.kind = "ClaimEvidenceVerified"
      /\ e.kind = "ClaimConfirmed" => n.state = "Settled"
      /\ e.kind = "RefundConfirmed" => n.state = "Refunded"
      /\ n.state \in TerminalStates <=> e.kind \in {"ClaimConfirmed", "RefundConfirmed"}
  BY <1>0 DEF Arm, OnRefundArmed, Regress, Affected, EffectKindsOf, LegalKinds, States, TerminalStates, Contexts
<1>. QED BY <1>2, <1>3, <1>4 DEF IsTerminal

\* A commit adds the orders of its event, and an outcome if it is a last one.
LEMMA StoreCommitOrders ==
    ASSUME StoreTypeOK, terminal = {}, NEW e \in Events, NEW cur, StoreCommit(e, cur)
    PROVE  /\ ctx \in Contexts /\ Accepts(ctx, e)
           /\ ctx' = NextContext(ctx, e)
           /\ Ordered' = Ordered \cup (EffectKindsOf(ctx, e) \ {"RevalidateFrom"})
           /\ {row.outcome : row \in terminal} = {}
           /\ {row.outcome : row \in terminal}' = IF IsTerminal(ctx') THEN {ctx'.state} ELSE {}
<1>1. ctx \in Contexts /\ Accepts(ctx, e) /\ ctx' = NextContext(ctx, e)
  BY DEF StoreCommit, CommitTransition, StoreTypeOK
<1>2. DOMAIN outbox' = DOMAIN outbox \cup EffectsOf(ctx, e)
  BY Zenon DEF StoreCommit, CommitTransition, WithEffects
<1>3. {f.kind : f \in EffectsOf(ctx, e)} = EffectKindsOf(ctx, e)
  <2>1. ASSUME NEW k
        PROVE  k \in {f.kind : f \in EffectsOf(ctx, e)} <=> k \in EffectKindsOf(ctx, e)
    <3>1. ASSUME k \in EffectKindsOf(ctx, e)
          PROVE  k \in {f.kind : f \in EffectsOf(ctx, e)}
      <4>1. [kind |-> k, source |-> e] \in EffectsOf(ctx, e)
        BY <3>1 DEF EffectsOf
      <4>. QED BY <4>1
    <3>2. ASSUME NEW f \in EffectsOf(ctx, e)
          PROVE  f.kind \in EffectKindsOf(ctx, e)
      BY DEF EffectsOf
    <3>. QED BY <3>1, <3>2
  <2>. QED BY Zenon, <2>1
<1>4. {f.kind : f \in DOMAIN outbox'}
        = {f.kind : f \in DOMAIN outbox} \cup EffectKindsOf(ctx, e)
  BY <1>2, <1>3
<1>5. Ordered' = Ordered \cup (EffectKindsOf(ctx, e) \ {"RevalidateFrom"})
  BY Zenon, <1>4 DEF Ordered
<1>6. CASE IsTerminal(ctx')
  <2> DEFINE row == [outcome |-> ctx'.state, source |-> e, revision |-> ctx'.revision]
  <2>1. terminal' = {row}
    BY Zenon, <1>1, <1>6 DEF StoreCommit, CommitTransition, WithEffects
  <2>2. row.outcome = ctx'.state
    OBVIOUS
  <2> HIDE DEF row
  <2>. QED BY <1>1, <1>5, <1>6, <2>1, <2>2
<1>7. CASE ~IsTerminal(ctx')
  <2>1. terminal' = {}
    BY Zenon, <1>1, <1>7 DEF StoreCommit, CommitTransition, WithEffects
  <2>. QED BY <1>1, <1>5, <1>7, <2>1
<1>. QED BY <1>6, <1>7

\* A commit keeps orders and context in agreement.
LEMMA StoreCommitMatches ==
    ASSUME StoreTypeOK, terminal = {}, OrdersMatchContext,
           NEW e \in Events, NEW cur, StoreCommit(e, cur)
    PROVE  OrdersMatchContext'
<1>1. /\ e.kind = "RefundArmed" => "AuthorizeFunding" \in EffectKindsOf(ctx, e)
      /\ e.kind = "ClaimEvidenceVerified"
           => "RequestClaimConsumption" \in EffectKindsOf(ctx, e)
  BY DEF EffectKindsOf
<1>2. /\ ctx \in Contexts /\ Accepts(ctx, e)
      /\ ctx' = NextContext(ctx, e)
      /\ Ordered' = Ordered \cup (EffectKindsOf(ctx, e) \ {"RevalidateFrom"})
  BY StoreCommitOrders
<1>3. /\ ctx'.state # "Preparing" => ctx.state # "Preparing" \/ e.kind = "RefundArmed"
      /\ ctx'.state = "Preparing" => ctx.state = "Preparing" /\ EffectKindsOf(ctx, e) = {}
      /\ ctx'.claim_evidence_verified
           => ctx.claim_evidence_verified \/ e.kind = "ClaimEvidenceVerified"
  BY <1>2, StateAfter
<1>4. ctx'.state = "Preparing" => Ordered' = {}
  BY <1>2, <1>3 DEF OrdersMatchContext
<1>5. ctx'.state # "Preparing" => "AuthorizeFunding" \in Ordered'
  BY <1>1, <1>2, <1>3 DEF OrdersMatchContext
<1>6. ctx'.claim_evidence_verified => "RequestClaimConsumption" \in Ordered'
  BY <1>1, <1>2, <1>3 DEF OrdersMatchContext
<1>. QED BY <1>4, <1>5, <1>6 DEF OrdersMatchContext

\* A commit is a step of Settlement or changes nothing it can see.
LEMMA StoreCommitIsPromised ==
    ASSUME StoreTypeOK, terminal = {}, OrdersMatchContext,
           NEW e \in Events, NEW cur, StoreCommit(e, cur)
    PROVE  [Promise!Next]_(Promise!svars)
<1> USE DEF Promise!svars
<1> DEFINE out == {row.outcome : row \in terminal}
<1>1. /\ ctx \in Contexts /\ Accepts(ctx, e)
      /\ ctx' = NextContext(ctx, e)
      /\ Ordered' = Ordered \cup (EffectKindsOf(ctx, e) \ {"RevalidateFrom"})
      /\ out = {} /\ out' = IF IsTerminal(ctx') THEN {ctx'.state} ELSE {}
  BY StoreCommitOrders
<1>2. /\ e.kind = "RefundArmed" <=> ctx.state = "Preparing" /\ ctx'.state # "Preparing"
      /\ ctx'.state # "Preparing" => ctx.state # "Preparing" \/ e.kind = "RefundArmed"
      /\ ctx'.state = "Preparing" => ctx.state = "Preparing" /\ EffectKindsOf(ctx, e) = {}
      /\ e.kind = "ClaimConfirmed" => ctx'.state = "Settled" /\ ctx.claim_evidence_verified
      /\ e.kind = "RefundConfirmed" => ctx'.state = "Refunded"
      /\ IsTerminal(ctx') <=> e.kind \in {"ClaimConfirmed", "RefundConfirmed"}
  BY <1>1, StateAfter
<1>3. CASE e.kind = "RefundArmed"
  <2>1. Ordered = {} /\ Ordered' = {"AuthorizeFunding"} /\ out' = out
    BY <1>1, <1>2, <1>3 DEF EffectKindsOf, OrdersMatchContext
  <2>. QED BY Zenon, <2>1 DEF Promise!Next, Promise!Authorise, Ordered
<1>4. CASE e.kind \in {"ClaimEvidenceVerified", "TimelockExpired"}
  <2>1. PICK k \in {"RequestClaimConsumption", "ArmRefundPath"} :
           EffectKindsOf(ctx, e) = {k}
    BY <1>4 DEF EffectKindsOf
  <2>2. Ordered' = Ordered \cup {k} /\ out' = out /\ "AuthorizeFunding" \in Ordered
    BY <1>1, <1>2, <1>4, <2>1 DEF OrdersMatchContext
  <2>. QED BY Zenon, <1>1, <2>2 DEF Promise!Next, Promise!Order, Promise!Open, Ordered
<1>5. CASE e.kind \in {"ClaimConfirmed", "RefundConfirmed"}
  <2>1. /\ Ordered' = Ordered \cup {"RecordTerminalOutcome"}
        /\ "AuthorizeFunding" \in Ordered
        /\ out' = {ctx'.state} /\ ctx'.state \in {"Settled", "Refunded"}
        /\ ctx'.state = "Settled" => "RequestClaimConsumption" \in Ordered
    BY <1>1, <1>2, <1>5 DEF OrdersMatchContext, EffectKindsOf
  <2>. QED BY Zenon, <1>1, <2>1 DEF Promise!Next, Promise!Finish, Promise!Open, Ordered
<1>6. CASE e.kind \notin {"RefundArmed", "ClaimEvidenceVerified", "TimelockExpired",
                          "ClaimConfirmed", "RefundConfirmed"}
  <2>1. Ordered' = Ordered /\ out' = out
    BY <1>1, <1>2, <1>6 DEF EffectKindsOf
  <2>. QED BY Zenon, <2>1 DEF Ordered
<1>. QED BY Zenon, <1>3, <1>4, <1>5, <1>6
=============================================================================
