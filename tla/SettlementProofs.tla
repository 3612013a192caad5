-------------------------- MODULE SettlementProofs --------------------------
(***************************************************************************)
(* What holds of SettlementWriters for every set of writers, dispatchers,  *)
(* anchors and events, and every bound.                                    *)
(***************************************************************************)
EXTENDS SettlementWriters, StoreProofs

-----------------------------------------------------------------------------
(* Commits and quiet steps *)

\* A step that leaves the journal, the snapshot and the terminal alone.
Quiet ==
    /\ UNCHANGED <<ctx, journal, terminal, cursor>>
    /\ DOMAIN outbox' = DOMAIN outbox

CommitBy(w) ==
    /\ MayCommit(snap[w], env[w])
    /\ CommitTransition(snap[w], env[w], CursorOf(env[w]))
    /\ Forget(w)
    /\ UNCHANGED dispatcherVars

\* Every step either commits a transition or is quiet.
LEMMA StepCases ==
    ASSUME [Next]_vars, TypeOK
    PROVE  Quiet \/ \E w \in Writers : CommitBy(w)
<1> USE DEF Quiet
<1>1. CASE UNCHANGED vars
  BY <1>1 DEF vars, storeVars
<1>2. ASSUME NEW w \in Writers, Begin(w) \/ Load(w) \/ Lookup(w) \/ WriterCrash(w)
      PROVE  Quiet
  BY <1>2 DEF Begin, Load, Lookup, WriterCrash, storeVars
<1>3. ASSUME NEW w \in Writers, BeginReorg(w) \/ InvalidateAgain(w)
      PROVE  Quiet
  BY <1>3 DEF BeginReorg, InvalidateAgain, InvalidateEvidenceFrom
<1>4. ASSUME NEW w \in Writers, Commit(w)
      PROVE  Quiet \/ CommitBy(w)
  <2>1. IngestWrite(snap[w], seen[w], env[w], CursorOf(env[w]))
    BY <1>4 DEF Commit, Retries
  <2>2. CASE IngestOutcome(snap[w], seen[w], env[w]) = "Committed"
    <3>1. MayCommit(snap[w], env[w])
      BY <2>2 DEF IngestOutcome, CommitOutcome, MayCommit
    <3>2. CommitTransition(snap[w], env[w], CursorOf(env[w]))
      BY <2>1, <2>2 DEF IngestWrite
    <3>3. Forget(w) /\ UNCHANGED dispatcherVars
      BY <1>4, <2>2 DEF Commit, Retries
    <3>. QED BY <3>1, <3>2, <3>3 DEF CommitBy
  <2>3. CASE IngestOutcome(snap[w], seen[w], env[w]) # "Committed"
    BY <2>1, <2>3 DEF IngestWrite, ReaffirmEvidence, RecordLateEvidence, ParkEvidence, storeVars
  <2>. QED BY <2>2, <2>3
<1>5. ASSUME NEW d \in Dispatchers, Claim(d)
      PROVE  Quiet
  BY <1>5 DEF Claim, ClaimReady
<1>6. ASSUME NEW d \in Dispatchers, Execute(d) \/ Decline(d) \/ DispatcherCrash(d)
      PROVE  Quiet
  BY <1>6 DEF Execute, Decline, DispatcherCrash, storeVars
<1>7. ASSUME NEW d \in Dispatchers, Complete(d)
      PROVE  Quiet
  BY <1>7 DEF Complete, CompleteEffect
<1>8. CASE Expire
  BY <1>8 DEF Expire, LeaseExpires
<1>. QED BY <1>1, <1>2, <1>3, <1>4, <1>5, <1>6, <1>7, <1>8 DEF Next

-----------------------------------------------------------------------------
(* Type correctness *)

\* The cursor that comes with an event is an anchor or nothing.
LEMMA CursorOfType ==
    ASSUME NEW e \in Events
    PROVE  CursorOf(e) \in Anchors \cup {NoCursor}
<1>1. CASE e.kind \in {"FundingObserved", "ClaimEvidenceVerified"}
  <2>1. e \in EvidenceEvents
    BY <1>1, CarriersAreEvidenceEvents DEF CarriesEvidence, EvidenceKinds
  <2>. QED BY <2>1 DEF CursorOf, EvidenceEvents, Evidence
<1>. QED BY <1>1 DEF CursorOf


\* What a writer leaves when it forgets is well typed.
LEMMA ForgetType ==
    ASSUME TypeOK, NEW w \in Writers, Forget(w)
    PROVE  /\ pc' \in [Writers -> PCs]
           /\ env' \in [Writers -> Events]
           /\ snap' \in [Writers -> Contexts]
           /\ seen' \in [Writers -> BOOLEAN]
           /\ attempt' \in [Writers -> {0, 1}]
<1>1. AnyEvent \in Events
  BY DEF AnyEvent, Events
<1>2. NewContext \in Contexts
  BY DEF NewContext, Contexts, States
<1>. QED BY <1>1, <1>2 DEF Forget, TypeOK, PCs

\* Every step keeps every variable in its type.
LEMMA TypeStep ==
    ASSUME TypeOK, [Next]_vars
    PROVE  TypeOK'
<1> DEFINE WriterTypeOK == /\ pc \in [Writers -> PCs]
                           /\ env \in [Writers -> Events]
                           /\ snap \in [Writers -> Contexts]
                           /\ seen \in [Writers -> BOOLEAN]
                           /\ attempt \in [Writers -> {0, 1}]
           DispatcherTypeOK == /\ claimed \in [Dispatchers -> SUBSET Effects]
                               /\ executed \in [Dispatchers -> SUBSET Effects]
                               /\ external \subseteq Effects
<1>0. StoreTypeOK /\ WriterTypeOK /\ DispatcherTypeOK
  BY DEF TypeOK
<1>q. SUFFICES StoreTypeOK' /\ WriterTypeOK' /\ DispatcherTypeOK'
  BY DEF TypeOK
<1>1. CASE UNCHANGED vars
  <2>1. StoreTypeOK'
    BY <1>0, <1>1, WritesKeepStoreType DEF vars
  <2>. QED BY <1>0, <1>1, <2>1 DEF vars, writerVars, dispatcherVars
<1>2. ASSUME NEW w \in Writers, Begin(w) \/ Load(w) \/ Lookup(w)
      PROVE  StoreTypeOK' /\ WriterTypeOK' /\ DispatcherTypeOK'
  <2>1. StoreTypeOK'
    BY <1>0, <1>2, WritesKeepStoreType DEF Begin, Load, Lookup
  <2>2. DispatcherTypeOK'
    BY <1>0, <1>2 DEF Begin, Load, Lookup, dispatcherVars
  <2>3. WriterTypeOK'
    <3>1. Journalled(env[w]) \in BOOLEAN
      BY DEF Journalled
    <3>2. ctx \in Contexts
      BY <1>0 DEF StoreTypeOK
    <3>. QED BY <1>0, <1>2, <3>1, <3>2, DeliverableAssumption DEF Begin, Load, Lookup, PCs
  <2>. QED BY <2>1, <2>2, <2>3
<1>3. ASSUME NEW w \in Writers, BeginReorg(w) \/ InvalidateAgain(w)
      PROVE  StoreTypeOK' /\ WriterTypeOK' /\ DispatcherTypeOK'
  <2>1. StoreTypeOK'
    BY <1>0, <1>3, WritesKeepStoreType DEF BeginReorg, InvalidateAgain
  <2>2. DispatcherTypeOK'
    BY <1>0, <1>3 DEF BeginReorg, InvalidateAgain, dispatcherVars
  <2>3. WriterTypeOK'
    BY <1>0, <1>3, DeliverableAssumption DEF BeginReorg, InvalidateAgain, PCs
  <2>. QED BY <2>1, <2>2, <2>3
<1>4. ASSUME NEW w \in Writers, Commit(w)
      PROVE  StoreTypeOK' /\ WriterTypeOK' /\ DispatcherTypeOK'
  <2> DEFINE e == env[w]
             s == snap[w]
  <2>0. e \in Events /\ s \in Contexts /\ CursorOf(e) \in Anchors \cup {NoCursor}
    BY <1>0, CursorOfType
  <2>1. StoreTypeOK'
    <3>1. IngestWrite(s, seen[w], e, CursorOf(e))
      BY <1>4 DEF Commit, Retries
    <3> HIDE DEF e, s
    <3>2. CASE MayCommit(s, e) /\ CommitTransition(s, e, CursorOf(e))
      BY <1>0, <2>0, <3>2, CommitKeepsStoreType DEF MayCommit
    <3>3. CASE \/ UNCHANGED storeVars
               \/ RecordLateEvidence(e) \/ ReaffirmEvidence(e)
      BY <1>0, <2>0, <3>3, WritesKeepStoreType
    <3>4. CASE CarriesEvidence(e) /\ ParkEvidence(e)
      BY <1>0, <2>0, <3>4, WritesKeepStoreType, CarriersAreEvidenceEvents
    <3>. QED BY <3>1, <3>2, <3>3, <3>4, IngestCases
  <2>2. DispatcherTypeOK'
    BY <1>0, <1>4 DEF Commit, Retries, dispatcherVars
  <2>3. WriterTypeOK'
    <3>1. CASE Forget(w)
      BY <3>1, ForgetType
    <3>2. CASE ~Forget(w)
      BY <1>0, <1>4, <3>2 DEF Commit, Retries, PCs
    <3>. QED BY <3>1, <3>2
  <2>. QED BY <2>1, <2>2, <2>3
<1>5. ASSUME NEW w \in Writers, WriterCrash(w)
      PROVE  StoreTypeOK' /\ WriterTypeOK' /\ DispatcherTypeOK'
  <2>1. StoreTypeOK'
    BY <1>0, <1>5, WritesKeepStoreType DEF WriterCrash
  <2>2. WriterTypeOK'
    BY <1>5, ForgetType DEF WriterCrash
  <2>. QED BY <1>0, <1>5, <2>1, <2>2 DEF WriterCrash, dispatcherVars
<1>6. ASSUME NEW d \in Dispatchers, Claim(d)
      PROVE  StoreTypeOK' /\ WriterTypeOK' /\ DispatcherTypeOK'
  <2>1. StoreTypeOK'
    BY <1>0, <1>6, WritesKeepStoreType DEF Claim
  <2>2. Ready \subseteq Effects
    BY <1>0 DEF Ready, Pending, StoreTypeOK
  <2>. QED BY <1>0, <1>6, <2>1, <2>2 DEF Claim, writerVars
<1>7. ASSUME NEW d \in Dispatchers, Execute(d) \/ Decline(d) \/ DispatcherCrash(d)
      PROVE  StoreTypeOK' /\ WriterTypeOK' /\ DispatcherTypeOK'
  <2>1. StoreTypeOK'
    BY <1>0, <1>7, WritesKeepStoreType DEF Execute, Decline, DispatcherCrash
  <2>2. WriterTypeOK'
    BY <1>0, <1>7 DEF Execute, Decline, DispatcherCrash, writerVars
  <2>3. DispatcherTypeOK'
    BY <1>0, <1>7 DEF Execute, Decline, DispatcherCrash
  <2>. QED BY <2>1, <2>2, <2>3
<1>8. ASSUME NEW d \in Dispatchers, Complete(d)
      PROVE  StoreTypeOK' /\ WriterTypeOK' /\ DispatcherTypeOK'
  <2>1. StoreTypeOK'
    BY <1>0, <1>8, WritesKeepStoreType DEF Complete
  <2>. QED BY <1>0, <1>8, <2>1 DEF Complete, writerVars
<1>9. CASE Expire
  <2>1. StoreTypeOK'
    BY <1>0, <1>9, WritesKeepStoreType DEF Expire
  <2>. QED BY <1>0, <1>9, <2>1 DEF Expire, writerVars, dispatcherVars
<1>. QED BY <1>1, <1>2, <1>3, <1>4, <1>5, <1>6, <1>7, <1>8, <1>9 DEF Next

\* The initial state is well typed.
LEMMA TypeInit ==
    ASSUME Init
    PROVE  TypeOK
<1>1. AnyEvent \in Events /\ NewContext \in Contexts
  BY DEF AnyEvent, Events, NewContext, Contexts, States
<1>2. StoreTypeOK
  BY <1>1 DEF Init, StoreInit, StoreTypeOK
<1>. QED BY <1>1, <1>2 DEF Init, TypeOK, PCs

\* Type correctness of the store, the writers and the dispatchers.
THEOREM TypeCorrect == Spec => []TypeOK
<1>1. Init => TypeOK
  BY TypeInit
<1>2. TypeOK /\ [Next]_vars => TypeOK'
  BY TypeStep
<1>. QED BY <1>1, <1>2, PTL DEF Spec

-----------------------------------------------------------------------------
(* The inductive invariant *)

\* The revision counts the rows of the journal, and what a writer loaded is the
\* context after some prefix of it.  So a writer whose revision is current holds
\* the current context, which is what makes the compare-and-set enough.
SnapshotsAreHistory ==
    /\ ctx.revision = Len(journal)
    /\ \A i \in 1 .. Len(journal) : journal[i].context.revision = i
    /\ \A w \in Writers : /\ snap[w].revision <= Len(journal)
                          /\ snap[w] = ContextAfter(snap[w].revision)

\* A writer that found its event journalled is right for ever: the journal only
\* grows.
LookupsAreTrue ==
    \A w \in Writers : /\ pc[w] = "idle" => ~seen[w]
                       /\ seen[w] => Journalled(env[w])

\* The row of the journal that an effect comes from.
ComesFromJournal(f) ==
    \E i \in DOMAIN journal : /\ journal[i].event = f.source
                              /\ f \in EffectsOf(ContextAfter(i - 1), f.source)

\* What is in the outbox comes from the journal, and what the dispatchers hold
\* or have executed comes from the outbox.
OutboxFollowsTheJournal ==
    /\ \A f \in DOMAIN outbox : /\ ComesFromJournal(f)
                                /\ f.kind = "AuthorizeFunding" => ctx.refund_path_armed
    /\ \A d \in Dispatchers : claimed[d] \cup executed[d] \subseteq DOMAIN outbox
    /\ external \subseteq DOMAIN outbox

IInv ==
    /\ TypeOK
    /\ Recoverable
    /\ SnapshotsAreHistory
    /\ LookupsAreTrue
    /\ OutboxFollowsTheJournal
    /\ AppliedWasCommitted

-----------------------------------------------------------------------------
(* Recoverability *)

\* A commit is made in the context it was decided in.
LEMMA CommitIsCurrent ==
    ASSUME IInv, NEW w \in Writers, MayCommit(snap[w], env[w])
    PROVE  snap[w] = ctx /\ Accepts(ctx, env[w]) /\ terminal = {}
<1>1. snap[w] = ctx
  BY DEF IInv, MayCommit, SnapshotsAreHistory, Recoverable
<1>2. Accepts(ctx, env[w])
  BY <1>1 DEF MayCommit
<1>3. ~IsTerminal(ctx)
  BY <1>2, ArmType DEF IInv, TypeOK, StoreTypeOK
<1>. QED BY <1>1, <1>2, <1>3 DEF IInv, Recoverable

\* So it is a commit in the context of the store.
LEMMA CommitByIsStoreCommit ==
    ASSUME IInv, NEW w \in Writers, CommitBy(w)
    PROVE  /\ StoreTypeOK /\ env[w] \in Events /\ terminal = {}
           /\ StoreCommit(env[w], CursorOf(env[w]))
<1>1. StoreTypeOK /\ env[w] \in Events
  BY Zenon DEF IInv, TypeOK
<1>2. snap[w] = ctx /\ Accepts(ctx, env[w]) /\ terminal = {}
  BY CommitIsCurrent DEF CommitBy
<1>. QED BY <1>1, <1>2 DEF CommitBy, StoreCommit

\* The journal after a commit: one more row, the earlier ones as they were.
LEMMA CommitAppends ==
    ASSUME IInv, NEW w \in Writers, CommitBy(w)
    PROVE  LET next == NextContext(ctx, env[w]) IN
           /\ next \in Contexts
           /\ next.revision = ctx.revision + 1
           /\ Len(journal') = Len(journal) + 1
           /\ \A i \in 1 .. Len(journal) : journal'[i] = journal[i]
           /\ LET row == journal'[Len(journal) + 1] IN
              /\ row.event = env[w]
              /\ row.expected = ctx.revision
              /\ row.context = next
           /\ ctx' = next
BY CommitByIsStoreCommit, StoreCommitAppends

\* A commit leaves the contexts of the shorter journal as they were.
LEMMA CommitKeepsHistory ==
    ASSUME IInv, NEW w \in Writers, CommitBy(w), NEW n \in 0 .. Len(journal)
    PROVE  ContextAfter(n)' = ContextAfter(n)
BY CommitByIsStoreCommit, StoreCommitKeepsHistory

\* A commit leaves a database that recovers.
LEMMA CommitRecoverable ==
    ASSUME IInv, NEW w \in Writers, CommitBy(w)
    PROVE  Recoverable'
BY CommitByIsStoreCommit, StoreCommitRecoverable DEF IInv

-----------------------------------------------------------------------------
(* Every step keeps the invariant *)

\* No step removes a row of the journal or changes what came before it.
LEMMA JournalGrows ==
    ASSUME IInv, [Next]_vars
    PROVE  /\ Len(journal') \in Nat /\ Len(journal) <= Len(journal')
           /\ \A i \in 1 .. Len(journal) : journal'[i] = journal[i]
           /\ \A n \in 0 .. Len(journal) : ContextAfter(n)' = ContextAfter(n)
<1>0. TypeOK /\ Len(journal) \in Nat
  BY DEF IInv, TypeOK, StoreTypeOK
<1>1. CASE Quiet
  BY <1>0, <1>1 DEF Quiet, ContextAfter
<1>2. ASSUME NEW w \in Writers, CommitBy(w)
      PROVE  /\ Len(journal') = Len(journal) + 1
             /\ \A i \in 1 .. Len(journal) : journal'[i] = journal[i]
             /\ \A n \in 0 .. Len(journal) : ContextAfter(n)' = ContextAfter(n)
  BY <1>2, CommitAppends, CommitKeepsHistory
<1>. QED BY <1>0, <1>1, <1>2, StepCases

\* What is journalled stays journalled.
LEMMA JournalledForEver ==
    ASSUME IInv, [Next]_vars, NEW e, Journalled(e)
    PROVE  Journalled(e)'
<1>1. journal \in Seq(JournalRows) /\ journal' \in Seq(JournalRows)
  BY TypeStep DEF IInv, TypeOK, StoreTypeOK
<1>2. PICK i \in DOMAIN journal : journal[i].event = e
  BY DEF Journalled
<1>3. i \in 1 .. Len(journal) /\ i \in DOMAIN journal' /\ journal'[i] = journal[i]
  BY <1>1, <1>2, JournalGrows
<1>. QED BY <1>2, <1>3 DEF Journalled

\* An effect that comes from the journal goes on coming from it.
LEMMA ComesFromJournalForEver ==
    ASSUME IInv, [Next]_vars, NEW f, ComesFromJournal(f)
    PROVE  ComesFromJournal(f)'
<1>1. journal \in Seq(JournalRows) /\ journal' \in Seq(JournalRows)
  BY TypeStep DEF IInv, TypeOK, StoreTypeOK
<1>2. PICK i \in DOMAIN journal : /\ journal[i].event = f.source
                                  /\ f \in EffectsOf(ContextAfter(i - 1), f.source)
  BY DEF ComesFromJournal
<1>3. i \in 1 .. Len(journal) /\ i \in DOMAIN journal' /\ journal'[i] = journal[i]
  BY <1>1, <1>2, JournalGrows
<1>4. ContextAfter(i - 1)' = ContextAfter(i - 1)
  BY <1>1, <1>3, JournalGrows
<1>. QED BY <1>2, <1>3, <1>4 DEF ComesFromJournal

\* How a step changes what a writer remembers.
LEMMA WriterSteps ==
    ASSUME TypeOK, [Next]_vars, NEW v \in Writers
    PROVE  /\ snap'[v] \in {snap[v], ctx, NewContext}
           /\ \/ pc'[v] = pc[v] /\ env'[v] = env[v] /\ seen'[v] = seen[v]
              \/ ~seen'[v]
              \/ pc[v] = "idle" /\ seen'[v] = seen[v]
              \/ /\ pc'[v] # "idle" /\ env'[v] = env[v]
                 /\ seen'[v] = seen[v] \/ seen'[v] = Journalled(env[v])
<1> DEFINE P == /\ snap'[v] \in {snap[v], ctx, NewContext}
                /\ \/ pc'[v] = pc[v] /\ env'[v] = env[v] /\ seen'[v] = seen[v]
                   \/ ~seen'[v]
                   \/ pc[v] = "idle" /\ seen'[v] = seen[v]
                   \/ /\ pc'[v] # "idle" /\ env'[v] = env[v]
                      /\ seen'[v] = seen[v] \/ seen'[v] = Journalled(env[v])
<1>0. /\ pc \in [Writers -> PCs] /\ env \in [Writers -> Events]
      /\ snap \in [Writers -> Contexts] /\ seen \in [Writers -> BOOLEAN]
  BY DEF TypeOK
<1>1. CASE UNCHANGED writerVars
  BY <1>1 DEF writerVars
<1>2. ASSUME NEW w \in Writers, Begin(w)
      PROVE  P
  BY <1>0, <1>2 DEF Begin
<1>3. ASSUME NEW w \in Writers, BeginReorg(w)
      PROVE  P
  BY <1>0, <1>3 DEF BeginReorg
<1>4. ASSUME NEW w \in Writers, Load(w)
      PROVE  P
  BY <1>0, <1>4 DEF Load
<1>5. ASSUME NEW w \in Writers, Lookup(w)
      PROVE  P
  BY <1>0, <1>5 DEF Lookup
<1>6. ASSUME NEW w \in Writers, InvalidateAgain(w)
      PROVE  P
  BY <1>0, <1>6 DEF InvalidateAgain
<1>7. ASSUME NEW w \in Writers, Forget(w)
      PROVE  P
  BY <1>0, <1>7 DEF Forget
<1>8. ASSUME NEW w \in Writers, Commit(w), ~Forget(w)
      PROVE  P
  BY <1>0, <1>8 DEF Commit, Retries
<1>9. ASSUME NEW d \in Dispatchers,
             Claim(d) \/ Execute(d) \/ Decline(d) \/ Complete(d) \/ DispatcherCrash(d)
      PROVE  UNCHANGED writerVars
  BY <1>9 DEF Claim, Execute, Decline, Complete, DispatcherCrash
<1>10. Expire => UNCHANGED writerVars
  BY DEF Expire
<1>11. UNCHANGED vars => UNCHANGED writerVars
  BY DEF vars
<1>. QED
  BY Zenon, <1>1, <1>2, <1>3, <1>4, <1>5, <1>6, <1>7, <1>8, <1>9, <1>10, <1>11
  DEF Next, WriterCrash

\* What writers hold stays a context of the journal's past.
LEMMA HistoryStep ==
    ASSUME IInv, [Next]_vars
    PROVE  SnapshotsAreHistory'
<1>0. /\ TypeOK /\ Recoverable /\ SnapshotsAreHistory
      /\ Len(journal) \in Nat /\ ctx = ContextAfter(Len(journal))
  BY DEF IInv, TypeOK, StoreTypeOK, Recoverable
<1>1. /\ ctx'.revision = Len(journal')
      /\ \A i \in 1 .. Len(journal') : journal'[i].context.revision = i
  <2>1. CASE Quiet
    BY <1>0, <2>1 DEF Quiet, SnapshotsAreHistory
  <2>2. ASSUME NEW w \in Writers, CommitBy(w)
        PROVE  <1>1!1 /\ <1>1!2
    <3>1. /\ Len(journal') = Len(journal) + 1
          /\ ctx'.revision = Len(journal) + 1
          /\ \A i \in 1 .. Len(journal) : journal'[i] = journal[i]
          /\ journal'[Len(journal) + 1].context.revision = Len(journal) + 1
      BY <1>0, <2>2, CommitAppends DEF SnapshotsAreHistory
    <3>. QED BY <1>0, <3>1 DEF SnapshotsAreHistory
  <2>. QED BY <1>0, <2>1, <2>2, StepCases
<1>2. ASSUME NEW v \in Writers
      PROVE  /\ snap'[v].revision <= Len(journal')
             /\ snap'[v] = ContextAfter(snap[v].revision)'
  <2>0. PICK n \in Nat : /\ n <= Len(journal)
                         /\ snap'[v].revision = n
                         /\ snap'[v] = ContextAfter(n)
    <3>1. CASE snap'[v] = snap[v]
      <4>1. snap[v].revision \in Nat
        BY <1>0 DEF TypeOK, Contexts
      <4>. QED BY <1>0, <3>1, <4>1 DEF SnapshotsAreHistory
    <3>2. CASE snap'[v] = ctx
      BY <1>0, <3>2 DEF SnapshotsAreHistory
    <3>3. CASE snap'[v] = NewContext
      BY <1>0, <3>3 DEF ContextAfter, NewContext
    <3>. QED BY <1>0, <3>1, <3>2, <3>3, WriterSteps
  <2>1. ContextAfter(n)' = ContextAfter(n)
    BY <1>0, <2>0, JournalGrows
  <2>. QED BY <1>0, <2>0, <2>1, JournalGrows DEF ContextAfter
<1>. QED BY <1>1, <1>2 DEF SnapshotsAreHistory

\* What writers found in the journal stays there.
LEMMA LookupStep ==
    ASSUME IInv, [Next]_vars
    PROVE  LookupsAreTrue'
<1>0. TypeOK /\ LookupsAreTrue
  BY DEF IInv
<1>1. ASSUME NEW v \in Writers
      PROVE  /\ pc'[v] = "idle" => ~seen'[v]
             /\ seen'[v] => Journalled(env[v])'
  <2>1. CASE ~seen'[v]
    BY <2>1
  <2>2. CASE seen'[v]
    <3>1. pc'[v] # "idle" /\ env'[v] = env[v] /\ Journalled(env[v])
      BY <1>0, <2>2, WriterSteps DEF LookupsAreTrue
    <3>2. PICK e : e = env[v] /\ e = env'[v]
      BY <3>1
    <3>3. Journalled(e)'
      BY <3>1, <3>2, JournalledForEver
    <3>. QED BY <3>1, <3>2, <3>3 DEF Journalled
  <2>. QED BY <2>1, <2>2
<1>. QED BY <1>1 DEF LookupsAreTrue

\* The event a writer commits is in the journal afterwards.
LEMMA CommittedIsJournalled ==
    ASSUME IInv, [Next]_vars, NEW w \in Writers, CommitBy(w)
    PROVE  \E i \in DOMAIN journal' : /\ i = Len(journal) + 1
                                      /\ journal'[i].event = env[w]
                                      /\ ContextAfter(i - 1)' = ctx
<1>1. /\ journal' \in Seq(JournalRows)
      /\ ctx = ContextAfter(Len(journal))
  BY Zenon, TypeStep DEF IInv, TypeOK, StoreTypeOK, Recoverable
<1>2. PICK n \in Nat : n = Len(journal)
  BY DEF IInv, TypeOK, StoreTypeOK
<1>3. n + 1 \in DOMAIN journal' /\ journal'[n + 1].event = env[w]
  BY <1>1, <1>2, CommitAppends
<1>4. ContextAfter(n)' = ctx
  BY <1>1, <1>2, CommitKeepsHistory
<1>5. (n + 1) - 1 = n
  BY <1>2
<1>. QED BY <1>2, <1>3, <1>4, <1>5

\* The outbox goes on following the journal.
LEMMA OutboxStep ==
    ASSUME IInv, [Next]_vars
    PROVE  OutboxFollowsTheJournal'
<1>0. TypeOK /\ OutboxFollowsTheJournal /\ ctx \in Contexts
  BY DEF IInv, TypeOK, StoreTypeOK
<1>1. ASSUME NEW f \in DOMAIN outbox, f \in DOMAIN outbox'
      PROVE  /\ ComesFromJournal(f)'
             /\ f.kind = "AuthorizeFunding" => ctx'.refund_path_armed
  <2>1. ComesFromJournal(f)'
    BY <1>0, ComesFromJournalForEver DEF OutboxFollowsTheJournal
  <2>2. ctx.refund_path_armed => ctx'.refund_path_armed
    <3>1. CASE Quiet
      BY <3>1 DEF Quiet
    <3>2. ASSUME NEW w \in Writers, CommitBy(w)
          PROVE  <2>2
      <4>1. /\ Accepts(ctx, env[w]) /\ env[w] \in Events
            /\ ctx' = NextContext(ctx, env[w])
        BY ZenonT(60), <1>0, <3>2, CommitAppends, CommitIsCurrent DEF CommitBy, TypeOK
      <4>. QED BY <1>0, <4>1, RefundStaysArmed
    <3>. QED BY <1>0, <3>1, <3>2, StepCases
  <2>. QED BY <1>0, <2>1, <2>2 DEF OutboxFollowsTheJournal
<1>2. ASSUME NEW f \in DOMAIN outbox', f \notin DOMAIN outbox
      PROVE  /\ ComesFromJournal(f)'
             /\ f.kind = "AuthorizeFunding" => ctx'.refund_path_armed
  <2>1. PICK w \in Writers : CommitBy(w)
    BY <1>0, <1>2, StepCases DEF Quiet
  <2>2. /\ Accepts(ctx, env[w]) /\ env[w] \in Events /\ snap[w] = ctx
        /\ ctx' = NextContext(ctx, env[w])
    BY ZenonT(60), <1>0, <2>1, CommitAppends, CommitIsCurrent DEF CommitBy, TypeOK
  <2>3. f \in EffectsOf(ctx, env[w])
    BY ZenonT(60), <1>2, <2>1, <2>2 DEF CommitBy, CommitTransition, WithEffects
  <2>4. f.source = env[w]
    BY <2>2, <2>3, EffectsOfType
  <2>5. ComesFromJournal(f)'
    BY <2>1, <2>3, <2>4, CommittedIsJournalled DEF ComesFromJournal
  <2>6. f.kind = "AuthorizeFunding" => env[w].kind = "RefundArmed"
    BY <2>3 DEF EffectsOf, EffectKindsOf
  <2>. QED BY <1>0, <2>2, <2>5, <2>6, RefundStaysArmed
<1>3. DOMAIN outbox \subseteq DOMAIN outbox'
  BY ZenonT(60), <1>0, StepCases DEF Quiet, CommitBy, CommitTransition, WithEffects
<1>4. /\ \A d \in Dispatchers : claimed'[d] \cup executed'[d] \subseteq DOMAIN outbox
      /\ external' \subseteq DOMAIN outbox
  <2> USE <1>0 DEF TypeOK, OutboxFollowsTheJournal
  <2>1. CASE UNCHANGED dispatcherVars
    BY <2>1 DEF dispatcherVars
  <2>2. ASSUME NEW d \in Dispatchers, Claim(d)
        PROVE  <1>4!1 /\ <1>4!2
    BY Zenon, <2>2 DEF Claim, Ready, Pending
  <2>3. ASSUME NEW d \in Dispatchers, Execute(d) \/ Decline(d)
        PROVE  <1>4!1 /\ <1>4!2
    BY <2>3 DEF Execute, Decline
  <2>4. ASSUME NEW d \in Dispatchers, Complete(d) \/ DispatcherCrash(d)
        PROVE  <1>4!1 /\ <1>4!2
    BY <2>4 DEF Complete, DispatcherCrash
  <2>5. ASSUME NEW w \in Writers,
               \/ Begin(w) \/ BeginReorg(w) \/ Load(w) \/ Lookup(w)
               \/ InvalidateAgain(w) \/ Commit(w) \/ WriterCrash(w)
        PROVE  UNCHANGED dispatcherVars
    BY ZenonT(60), <2>5 DEF Begin, BeginReorg, Load, Lookup, InvalidateAgain, Commit, Retries,
                WriterCrash
  <2>6. Expire \/ UNCHANGED vars => UNCHANGED dispatcherVars
    BY ZenonT(60) DEF Expire, vars
  <2>. QED BY Zenon, <2>1, <2>2, <2>3, <2>4, <2>5, <2>6 DEF Next
<1>5. /\ \A d \in Dispatchers : claimed'[d] \cup executed'[d] \subseteq DOMAIN outbox'
      /\ external' \subseteq DOMAIN outbox'
  BY <1>3, <1>4
<1>. QED BY <1>1, <1>2, <1>5 DEF OutboxFollowsTheJournal

\* Rows become Applied by a commit, or by a reaffirmation of a journalled event.
LEMMA AppliedStep ==
    ASSUME IInv, [Next]_vars
    PROVE  AppliedWasCommitted'
<1>0. TypeOK /\ AppliedWasCommitted
  BY DEF IInv
<1> SUFFICES ASSUME NEW x \in DOMAIN evidence', evidence'[x] = "Applied"
               PROVE  Journalled(x)'
  BY DEF AppliedWasCommitted, Rows
<1>1. CASE x \in Rows("Applied")
  BY <1>0, <1>1, JournalledForEver DEF AppliedWasCommitted
<1>2. CASE x \notin Rows("Applied")
  <2>0. ~(UNCHANGED evidence)
    BY <1>2 DEF Rows
  <2>1. ASSUME NEW h, InvalidateEvidenceFrom(h)
        PROVE  FALSE
    BY <1>2, <2>1 DEF InvalidateEvidenceFrom, Rows
  <2>2. PICK w \in Writers : Commit(w)
    <3>1. ASSUME NEW w \in Writers, Begin(w) \/ Load(w) \/ Lookup(w) \/ WriterCrash(w)
          PROVE  UNCHANGED evidence
      BY <3>1 DEF Begin, Load, Lookup, WriterCrash, storeVars
    <3>2. ASSUME NEW w \in Writers, BeginReorg(w) \/ InvalidateAgain(w)
          PROVE  \E h : InvalidateEvidenceFrom(h)
      BY <3>2 DEF BeginReorg, InvalidateAgain
    <3>3. ASSUME NEW d \in Dispatchers,
                 Claim(d) \/ Execute(d) \/ Decline(d) \/ Complete(d) \/ DispatcherCrash(d)
          PROVE  UNCHANGED evidence
      BY <3>3 DEF Claim, ClaimReady, Execute, Decline, Complete, CompleteEffect,
                  DispatcherCrash, storeVars
    <3>4. Expire \/ UNCHANGED vars => UNCHANGED evidence
      BY DEF Expire, LeaseExpires, vars, storeVars
    <3>. QED BY <2>0, <2>1, <3>1, <3>2, <3>3, <3>4 DEF Next
  <2>3. IngestWrite(snap[w], seen[w], env[w], CursorOf(env[w]))
    BY <2>2 DEF Commit, Retries
  <2>4. CASE seen[w] /\ ReaffirmEvidence(env[w])
    <3>1. x = env[w]
      BY <1>2, <2>4 DEF ReaffirmEvidence, Rows
    <3>2. Journalled(x)
      BY <2>4, <3>1 DEF IInv, LookupsAreTrue
    <3>. QED BY <3>2, JournalledForEver
  <2>5. CASE ParkEvidence(env[w])
    BY <1>2, <2>5 DEF ParkEvidence, WithStatus, Rows
  <2>6. CASE RecordLateEvidence(env[w]) \/ UNCHANGED storeVars
    BY <2>0, <2>6 DEF RecordLateEvidence, storeVars
  <2>7. CASE /\ MayCommit(snap[w], env[w])
             /\ CommitTransition(snap[w], env[w], CursorOf(env[w]))
    <3>1. x = env[w]
      BY <1>2, <2>7 DEF CommitTransition, WithEffects, WithStatus, Rows
    <3>2. \E i \in DOMAIN journal' : journal'[i].event = x
      <4>1. journal' = Append(journal, [event |-> env[w], refresh |-> Journalled(env[w]),
                                        expected |-> snap[w].revision,
                                        context |-> NextContext(snap[w], env[w])])
        BY Zenon, <2>7 DEF CommitTransition, WithRow
      <4>2. journal \in Seq(JournalRows)
        BY <1>0 DEF TypeOK, StoreTypeOK
      <4>3. Len(journal) + 1 \in DOMAIN journal' /\ journal'[Len(journal) + 1].event = x
        BY <3>1, <4>1, <4>2
      <4>. QED BY <4>3
    <3>. QED BY <3>2 DEF Journalled
  <2>. QED BY <2>3, <2>4, <2>5, <2>6, <2>7, IngestCases
<1>. QED BY <1>1, <1>2

\* The invariant holds initially.
LEMMA IInvInit ==
    ASSUME Init
    PROVE  IInv
<1>1. TypeOK
  BY TypeInit
<1>a. /\ ctx = NewContext /\ journal = <<>> /\ terminal = {}
      /\ \A w \in Writers : snap[w] = NewContext
  BY DEF Init, StoreInit
<1>b. Len(journal) = 0 /\ ContextAfter(0) = NewContext /\ NewContext.revision = 0
  BY <1>a DEF ContextAfter, NewContext
<1>c. Recoverable
  BY <1>a, <1>b DEF Recoverable, NewContext, IsTerminal, TerminalStates
<1>2. SnapshotsAreHistory
  BY <1>a, <1>b DEF SnapshotsAreHistory
<1>3. LookupsAreTrue /\ OutboxFollowsTheJournal /\ AppliedWasCommitted
  BY DEF Init, StoreInit, LookupsAreTrue, OutboxFollowsTheJournal, AppliedWasCommitted, Rows
<1>. QED BY <1>1, <1>c, <1>2, <1>3 DEF IInv

\* Every step keeps the invariant.
LEMMA IInvStep ==
    ASSUME IInv, [Next]_vars
    PROVE  IInv'
<1>1. TypeOK'
  BY TypeStep DEF IInv
<1>2. Recoverable'
  <2>1. CASE Quiet
    BY <2>1 DEF Quiet, IInv, Recoverable, ContextAfter
  <2>. QED BY <2>1, StepCases, CommitRecoverable DEF IInv
<1>. QED BY <1>1, <1>2, HistoryStep, LookupStep, OutboxStep, AppliedStep DEF IInv

\* The invariant holds in every reachable state.
THEOREM Invariance == Spec => []IInv
<1>1. Init => IInv
  BY IInvInit
<1>2. IInv /\ [Next]_vars => IInv'
  BY IInvStep
<1>. QED BY <1>1, <1>2, PTL DEF Spec

-----------------------------------------------------------------------------
(* What follows from it *)

\* However engines interleave and crash, the next recovery succeeds.
THEOREM RecoveryAlwaysSucceeds == Spec => []RecoverySucceeds
<1>1. IInv => RecoverySucceeds
  BY DEF IInv, RecoverySucceeds
<1>. QED BY <1>1, Invariance, PTL

\* No commit meets a key of the outbox or of the terminal table that is taken.
THEOREM KeysNeverConflict == Spec => []NoKeyConflict
<1>1. IInv => NoKeyConflict
  <2> SUFFICES ASSUME IInv, NEW w \in Writers, pc[w] = "commit",
                      IngestOutcome(snap[w], seen[w], env[w]) = "Corrupt"
               PROVE  FALSE
    BY DEF NoKeyConflict
  <2>1. /\ Accepts(snap[w], env[w])
        /\ snap[w].revision = ctx.revision
        /\ KeyConflict(snap[w], env[w])
    BY DEF IngestOutcome, CommitOutcome
  <2>2. snap[w] = ctx
    BY <2>1 DEF IInv, SnapshotsAreHistory, Recoverable
  <2>3. ctx \in Contexts /\ env[w] \in Events
    BY DEF IInv, TypeOK, StoreTypeOK
  <2>4. terminal = {}
    BY Zenon, <2>1, <2>2, <2>3, ArmType DEF IInv, Recoverable
  <2>5. PICK f \in DOMAIN outbox : f \in EffectsOf(ctx, env[w]) /\ ~Journalled(env[w])
    BY <2>1, <2>2, <2>4 DEF KeyConflict
  <2>6. f.source = env[w]
    BY <2>3, <2>5, EffectsOfType
  <2>7. Journalled(f.source)
    BY DEF IInv, OutboxFollowsTheJournal, ComesFromJournal, Journalled
  <2>. QED BY <2>5, <2>6, <2>7
<1>. QED BY <1>1, Invariance, PTL

\* Only committed events have an Applied row.
THEOREM AppliedAlwaysCommitted == Spec => []AppliedWasCommitted
<1>1. IInv => AppliedWasCommitted
  BY DEF IInv
<1>. QED BY <1>1, Invariance, PTL

\* What the sinks executed comes from the journal.
THEOREM EffectsAlwaysJournalled == Spec => []EffectsFollowTheJournal
<1>1. IInv => EffectsFollowTheJournal
  BY DEF IInv, OutboxFollowsTheJournal, ComesFromJournal, EffectsFollowTheJournal
<1>. QED BY <1>1, Invariance, PTL

\* Nothing economic happens after a terminal.
THEOREM TerminalNeverRevised == Spec => TerminalIsFinal
<1>1. IInv /\ [Next]_vars
        => [terminal # {} => /\ UNCHANGED <<ctx, journal, terminal, cursor>>
                             /\ DOMAIN outbox' = DOMAIN outbox]_vars
  <2> SUFFICES ASSUME IInv, [Next]_vars, terminal # {}
               PROVE  Quiet
    BY DEF Quiet
  <2>. QED BY StepCases, CommitIsCurrent DEF CommitBy, IInv
<1>. QED BY <1>1, Invariance, PTL DEF Spec, TerminalIsFinal

\* A completed effect stays completed.
THEOREM CompletedForEver == Spec => CompletedStaysCompleted
<1> DEFINE Stays == \A f \in DOMAIN outbox : outbox[f] = "Completed"
                       => f \in DOMAIN outbox' /\ outbox'[f] = "Completed"
<1>1. IInv /\ [Next]_vars => [Stays]_vars
  <2> SUFFICES ASSUME IInv, [Next]_vars
               PROVE  Stays
    OBVIOUS
  <2>1. CASE UNCHANGED outbox
    BY <2>1
  <2>2. ASSUME NEW w \in Writers, CommitBy(w)
        PROVE  Stays
    BY Zenon, <2>2 DEF CommitBy, CommitTransition, WithEffects
  <2>3. ASSUME NEW f, CompleteEffect(f)
        PROVE  Stays
    BY <2>3 DEF CompleteEffect
  <2>4. ASSUME NEW w \in Writers, Commit(w)
        PROVE  Stays
    <3>1. IngestWrite(snap[w], seen[w], env[w], CursorOf(env[w]))
      BY <2>4 DEF Commit, Retries
    <3>. QED BY Zenon, <2>1, <3>1, IngestCases DEF CommitTransition, WithEffects, ReaffirmEvidence,
                RecordLateEvidence, ParkEvidence, storeVars
  <2>5. ASSUME NEW w \in Writers,
               \/ Begin(w) \/ BeginReorg(w) \/ Load(w) \/ Lookup(w)
               \/ InvalidateAgain(w) \/ WriterCrash(w)
        PROVE  UNCHANGED outbox
    BY <2>5 DEF Begin, BeginReorg, Load, Lookup, InvalidateAgain, WriterCrash,
                InvalidateEvidenceFrom, storeVars
  <2>6. ASSUME NEW d \in Dispatchers,
               Claim(d) \/ Execute(d) \/ Decline(d) \/ DispatcherCrash(d)
        PROVE  UNCHANGED outbox
    BY <2>6 DEF Claim, ClaimReady, Execute, Decline, DispatcherCrash, storeVars
  <2>7. ASSUME NEW d \in Dispatchers, Complete(d)
        PROVE  \E f : CompleteEffect(f)
    BY <2>7 DEF Complete
  <2>8. Expire \/ UNCHANGED vars => UNCHANGED outbox
    BY DEF Expire, LeaseExpires, vars, storeVars
  <2>. QED BY <2>1, <2>3, <2>4, <2>5, <2>6, <2>7, <2>8 DEF Next
<1>. QED BY <1>1, Invariance, PTL DEF Spec, CompletedStaysCompleted

-----------------------------------------------------------------------------
(* The store keeps the promise of module Settlement *)

\* Every step keeps orders and context in agreement.
LEMMA OrdersStep ==
    ASSUME IInv, OrdersMatchContext, [Next]_vars
    PROVE  OrdersMatchContext'
<1>1. CASE Quiet
  BY <1>1 DEF Quiet, OrdersMatchContext, Ordered
<1>2. ASSUME NEW w \in Writers, CommitBy(w)
      PROVE  OrdersMatchContext'
  BY <1>2, CommitByIsStoreCommit, StoreCommitMatches
<1>. QED BY <1>1, <1>2, StepCases DEF IInv

\* Every step is a step of Settlement or changes nothing it can see.
LEMMA PromiseStep ==
    ASSUME IInv, OrdersMatchContext, [Next]_vars
    PROVE  [Promise!Next]_(Promise!svars)
<1>1. CASE Quiet
  BY <1>1 DEF Quiet, Promise!svars
<1>2. ASSUME NEW w \in Writers, CommitBy(w)
      PROVE  [Promise!Next]_(Promise!svars)
  BY <1>2, CommitByIsStoreCommit, StoreCommitIsPromised
<1>. QED BY Zenon, <1>1, <1>2, StepCases DEF IInv

\* The store implements Settlement: one outcome, funding authorised before any
\* other order, no settling without a claim, nothing after the outcome.
THEOREM StoreKeepsThePromise == Spec => KeepsThePromise
<1>1. Init => OrdersMatchContext /\ Promise!Init
  BY DEF Init, StoreInit, OrdersMatchContext, Ordered, NewContext, Promise!Init
<1>2. IInv /\ OrdersMatchContext /\ [Next]_vars => OrdersMatchContext'
  BY OrdersStep
<1>3. IInv /\ OrdersMatchContext /\ [Next]_vars => [Promise!Next]_(Promise!svars)
  BY PromiseStep
<1>. QED BY <1>1, <1>2, <1>3, Invariance, PTL DEF Spec, KeepsThePromise, Promise!Spec
=============================================================================
