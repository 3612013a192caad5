---------------------------- MODULE EngineProofs ----------------------------
(***************************************************************************)
(* What holds of SettlementEngine for every chain, bound and policy.       *)
(***************************************************************************)
EXTENDS SettlementEngine, StoreProofs

-----------------------------------------------------------------------------
(* Chains *)

\* A chain is a sequence of blocks no longer than the highest height.
LEMMA ChainIsSeq ==
    ASSUME NEW c \in Chains
    PROVE  /\ c \in Seq(Blocks)
           /\ Len(c) \in Heights
           /\ DOMAIN c = 1 .. Len(c)
           /\ \A i \in 1 .. Len(c) : c[i] \in Blocks
<1>1. PICK n \in Heights : c \in [1 .. n -> Blocks]
  BY DEF Chains
<1>2. n \in Nat
  BY MaxHeightAssumption DEF Heights
<1>. QED BY <1>1, <1>2

\* A sequence of blocks that is not too long is a chain.
LEMMA SeqIsChain ==
    ASSUME NEW c \in Seq(Blocks), Len(c) <= MaxHeight
    PROVE  c \in Chains
<1>1. c \in [1 .. Len(c) -> Blocks] /\ Len(c) \in Nat
  OBVIOUS
<1>2. Len(c) \in Heights
  BY <1>1, MaxHeightAssumption DEF Heights
<1>. QED BY <1>1, <1>2 DEF Chains

\* Chains that are as long and agree on every block are the same.
LEMMA SameChain ==
    ASSUME NEW c \in Chains, NEW d \in Chains, Len(c) = Len(d),
           \A i \in 1 .. Len(c) : c[i] = d[i]
    PROVE  c = d
<1>1. DOMAIN c = DOMAIN d /\ \A i \in DOMAIN c : c[i] = d[i]
  BY ChainIsSeq
<1>2. c = [i \in DOMAIN c |-> c[i]] /\ d = [i \in DOMAIN d |-> d[i]]
  BY ChainIsSeq
<1>. QED BY <1>1, <1>2

\* The first n blocks of a chain.
LEMMA FirstBlocks ==
    ASSUME NEW c \in Chains, NEW n \in Int, n <= Len(c)
    PROVE  /\ SubSeq(c, 1, n) \in Chains
           /\ Len(SubSeq(c, 1, n)) = IF n >= 0 THEN n ELSE 0
           /\ \A i \in 1 .. n : SubSeq(c, 1, n)[i] = c[i]
<1> DEFINE s == SubSeq(c, 1, n)
<1>1. Len(c) \in Nat /\ Len(c) <= MaxHeight /\ \A i \in 1 .. n : c[i] \in Blocks
  BY ChainIsSeq, MaxHeightAssumption DEF Heights
<1>2. /\ s \in Seq(Blocks)
      /\ Len(s) = IF 1 <= n THEN n - 1 + 1 ELSE 0
      /\ \A i \in 1 .. n - 1 + 1 : s[i] = c[1 + i - 1]
  BY <1>1, ChainIsSeq
<1>3. Len(s) <= MaxHeight
  BY <1>1, <1>2, MaxHeightAssumption
<1>. HIDE DEF s
<1>4. s \in Chains
  BY <1>2, <1>3, SeqIsChain
<1>5. Len(s) = IF n >= 0 THEN n ELSE 0
  BY <1>2
<1>6. \A i \in 1 .. n : s[i] = c[i]
  BY <1>2
<1>. QED BY <1>4, <1>5, <1>6 DEF s

\* IsPrefix, block by block.
LEMMA PrefixIff ==
    ASSUME NEW c \in Chains, NEW d \in Chains
    PROVE  IsPrefix(c, d) <=> Len(c) <= Len(d) /\ \A i \in 1 .. Len(c) : c[i] = d[i]
<1>0. Len(c) \in Nat /\ Len(d) \in Nat
  BY ChainIsSeq DEF Heights
<1>1. ASSUME Len(c) <= Len(d)
      PROVE  SubSeq(d, 1, Len(c)) = c <=> \A i \in 1 .. Len(c) : c[i] = d[i]
  <2> DEFINE s == SubSeq(d, 1, Len(c))
  <2>1. s \in Chains /\ Len(s) = Len(c) /\ \A i \in 1 .. Len(c) : s[i] = d[i]
    BY <1>0, <1>1, FirstBlocks
  <2> HIDE DEF s
  <2>2. s = c <=> \A i \in 1 .. Len(c) : c[i] = d[i]
    BY <2>1, SameChain
  <2>. QED BY <2>2 DEF s
<1>. QED BY <1>1 DEF IsPrefix

\* Chains that agree up to a height have the same hash there.
LEMMA SameHash ==
    ASSUME NEW c \in Chains, NEW d \in Chains, NEW h \in Nat, h <= Len(c), h <= Len(d),
           \A i \in 1 .. h : c[i] = d[i]
    PROVE  SubSeq(c, 1, h) = SubSeq(d, 1, h)
<1> DEFINE s == SubSeq(c, 1, h)
           t == SubSeq(d, 1, h)
<1>1. s \in Chains /\ t \in Chains /\ Len(s) = h /\ Len(t) = h
  BY FirstBlocks
<1>2. \A i \in 1 .. h : s[i] = c[i] /\ t[i] = d[i]
  BY FirstBlocks
<1>. HIDE DEF s, t
<1>. QED BY <1>1, <1>2, SameChain

\* A chain followed by further blocks keeps its own.
LEMMA Followed ==
    ASSUME NEW S, NEW c \in Seq(S), NEW s \in Seq(S)
    PROVE  /\ c \o s \in Seq(S)
           /\ Len(c \o s) = Len(c) + Len(s)
           /\ \A i \in 1 .. Len(c) : (c \o s)[i] = c[i]
  OBVIOUS

\* What a move of the chain can be: one block longer, and all but the last blocks
\* that a reorg may remove are the same.
LEMMA ExtensionsType ==
    ASSUME NEW c \in Chains, NEW n \in Nat, NEW fork \in 0 .. MaxReorgs, NEW x,
           x \in Extensions(c, n, fork), Len(c) + n <= MaxHeight
    PROVE  /\ x \in Chains
           /\ Len(x) = Len(c) + n
           /\ \A i \in 1 .. Len(c) : x[i] = c[i]
<1>1. PICK txs \in [1 .. n -> Txs] :
          x = c \o [i \in 1 .. n |-> [tx |-> txs[i], fork |-> fork]]
  BY DEF Extensions
<1> DEFINE s == [i \in 1 .. n |-> [tx |-> txs[i], fork |-> fork]]
<1>2. s \in [1 .. n -> Blocks]
  BY DEF Blocks
<1>3. s \in Seq(Blocks) /\ Len(s) = n
  BY <1>2
<1>4. c \in Seq(Blocks) /\ Len(c) \in Nat
  BY ChainIsSeq DEF Heights
<1>5. x = c \o s
  BY <1>1
<1>. HIDE DEF s
<1>6. x \in Seq(Blocks) /\ Len(x) = Len(c) + n /\ \A i \in 1 .. Len(c) : x[i] = c[i]
  BY Zenon, <1>3, <1>4, <1>5, Followed
<1>7. x \in Chains
  BY <1>6, SeqIsChain
<1>. QED BY <1>6, <1>7

-----------------------------------------------------------------------------
(* The inductive invariant *)

\* The kinds that wait for an earlier event: what the engine reads off the chain.
ParkedKinds == {"FundingObserved", "ClaimEvidenceVerified", "RefundConfirmed"}

\* What the tables say of each other.
StoreInv ==
    /\ terminal = {} <=> ~IsTerminal(ctx)
    /\ \A f \in DOMAIN outbox : /\ Journalled(f.source)
                                /\ f.kind = "RevalidateFrom" =>
                                      f.source.kind = "ReorgInvalidated"
    /\ \A e \in Rows("Parked") : e.kind \in ParkedKinds
    /\ \A i \in DOMAIN journal :
          CarriesEvidence(journal[i].event) => journal[i].event \in DOMAIN evidence

\* Between the scan and the tip: the batch is being ingested.
Ingesting == pc \in {"records", "reorg"} \/ (pc = "drain" /\ after = "records")

Rewinding == scan # <<>> /\ Len(target) = Len(scan) - 1 /\ records \subseteq {ReorgOf(scan)}

Advancing == IsPrefix(scan, target) /\ records \subseteq RecordsAbove(target, Len(scan))

\* Where the engine is says what it holds.
ControlInv ==
    /\ pc # "failed"
    /\ pc # "drain" => todo = {}
    /\ pc # "dispatch" => batch = {}
    /\ \A e \in parked : e.kind \in ParkedKinds
    /\ Len(scan) <= Len(chain) /\ Len(target) <= Len(chain) /\ Len(stale) <= Len(chain)
    /\ cursor # NoCursor => Len(cursor) <= Len(chain)
    /\ Ingesting => Rewinding \/ (Advancing /\ pc # "reorg")
    /\ pc = "reorg" => records # {}

IInv == TypeOK /\ StoreInv /\ ControlInv

-----------------------------------------------------------------------------
(* Moves of the chain *)

\* The chain and the abandoned branch are chains, and the engine's cursors too.
LEMMA AreChains ==
    ASSUME TypeOK
    PROVE  /\ chain \in Chains /\ stale \in Chains /\ scan \in Chains /\ target \in Chains
           /\ cursor # NoCursor => cursor \in Chains
BY AnchorsAssumption DEF TypeOK, StoreTypeOK

\* A move of the chain adds one block, and changes no block but the last ones, of
\* which a reorg may remove as many as MaxReorgDepth.
LEMMA ChainGrows ==
    ASSUME TypeOK, Len(stale) <= Len(chain), Mine \/ Reorg \/ Reactivate
    PROVE  /\ chain' \in Chains /\ stale' \in Chains
           /\ Len(chain') = Len(chain) + 1 /\ Len(stale') <= Len(chain')
           /\ \A i \in 1 .. Len(chain) - MaxReorgDepth : chain'[i] = chain[i]
           /\ reorgs' \in 0 .. MaxReorgs
           /\ moves' \in 0 .. MaxMoves
           /\ deep' = (deep \/ ~IsPrefix(Front(chain), chain'))
           /\ UNCHANGED <<storeVars, funded, crashes, failures, engineVars>>
<1>m. /\ moves' \in 0 .. MaxMoves
      /\ deep' = (deep \/ ~IsPrefix(Front(chain), chain'))
      /\ UNCHANGED <<crashes, failures>>
  <2>1. MayMove /\ Moved
    BY DEF Mine, Reorg, Reactivate
  <2>2. moves \in 0 .. MaxMoves /\ MaxMoves \in Nat
    BY EngineAssumption DEF TypeOK
  <2>3. moves' \in 0 .. MaxMoves
    BY <2>1, <2>2 DEF MayMove, Moved
  <2>. QED BY <2>1, <2>3 DEF Moved
<1>0. chain \in Chains /\ stale \in Chains /\ reorgs \in 0 .. MaxReorgs
  BY AreChains DEF TypeOK
<1>1. Len(chain) \in Nat /\ Len(stale) \in Nat /\ MaxHeight \in Nat /\ MaxReorgDepth \in Nat
      /\ MaxReorgs \in Nat
  BY <1>0, ChainIsSeq, MaxHeightAssumption, EngineAssumption DEF Heights
<1>2. CASE Mine
  <2>1. chain' \in Extensions(chain, 1, reorgs) /\ Len(chain) + 1 <= MaxHeight
    BY <1>1, <1>2 DEF Mine
  <2>2. /\ chain' \in Chains /\ Len(chain') = Len(chain) + 1
        /\ \A i \in 1 .. Len(chain) : chain'[i] = chain[i]
    BY <1>0, <2>1, ExtensionsType
  <2>. QED BY <1>0, <1>1, <1>2, <1>m, <2>2 DEF Mine
<1>3. CASE Reorg
  <2>1. reorgs + 1 \in 0 .. MaxReorgs /\ Len(chain) + 1 <= MaxHeight
    BY <1>0, <1>1, <1>3 DEF Reorg
  <2>2. PICK depth \in 1 .. MaxReorgDepth :
            /\ depth <= Len(chain)
            /\ chain' \in Extensions(SubSeq(chain, 1, Len(chain) - depth), depth + 1, reorgs + 1)
    BY <1>3 DEF Reorg
  <2> DEFINE kept == SubSeq(chain, 1, Len(chain) - depth)
  <2>3. /\ kept \in Chains /\ Len(kept) = Len(chain) - depth
        /\ \A i \in 1 .. Len(chain) - depth : kept[i] = chain[i]
    BY <1>0, <1>1, <2>2, FirstBlocks
  <2>4. chain' \in Extensions(kept, depth + 1, reorgs + 1)
    BY <2>2
  <2> HIDE DEF kept
  <2>0. PICK n \in Nat : n = depth + 1
    BY <1>1
  <2>a. PICK fork \in 0 .. MaxReorgs : fork = reorgs + 1
    BY <2>1
  <2>b. Len(kept) + n <= MaxHeight /\ chain' \in Extensions(kept, n, fork)
    BY <1>1, <2>0, <2>a, <2>1, <2>3, <2>4
  <2>5. /\ chain' \in Chains /\ Len(chain') = Len(kept) + n
        /\ \A i \in 1 .. Len(kept) : chain'[i] = kept[i]
    BY Zenon, <2>3, <2>b, ExtensionsType
  <2>6. \A i \in 1 .. Len(chain) - MaxReorgDepth : chain'[i] = chain[i]
    BY SMT, SMTT(30), <1>1, <2>2, <2>3, <2>5
  <2>7. reorgs' = reorgs + 1 /\ stale' = chain /\ UNCHANGED <<storeVars, funded, engineVars>>
    BY <1>3 DEF Reorg
  <2>. QED BY <1>0, <1>1, <1>m, <2>0, <2>1, <2>2, <2>3, <2>5, <2>6, <2>7
<1>4. CASE Reactivate
  <2>1. reorgs + 1 \in 0 .. MaxReorgs /\ Len(chain) + 1 <= MaxHeight
    BY <1>0, <1>1, <1>4 DEF Reactivate
  <2>2. PICK depth \in 1 .. MaxReorgDepth :
            depth <= Len(chain) /\ IsPrefix(SubSeq(chain, 1, Len(chain) - depth), stale)
    BY <1>4 DEF Reactivate
  <2> DEFINE kept == SubSeq(chain, 1, Len(chain) - depth)
             n == Len(chain) + 1 - Len(stale)
  <2>3. /\ kept \in Chains /\ Len(kept) = Len(chain) - depth
        /\ \A i \in 1 .. Len(chain) - depth : kept[i] = chain[i]
    BY <1>0, <1>1, <2>2, FirstBlocks
  <2>4. IsPrefix(kept, stale)
    BY <2>2
  <2>5. chain' \in Extensions(stale, n, reorgs + 1) /\ n \in Nat
    BY <1>1, <1>4 DEF Reactivate
  <2> HIDE DEF kept
  <2>6. Len(kept) <= Len(stale) /\ \A i \in 1 .. Len(kept) : kept[i] = stale[i]
    BY <1>0, <2>3, <2>4, PrefixIff
  <2>7. /\ chain' \in Chains /\ Len(chain') = Len(stale) + n
        /\ \A i \in 1 .. Len(stale) : chain'[i] = stale[i]
    BY <1>0, <1>1, <2>1, <2>5, ExtensionsType
  <2>8. \A i \in 1 .. Len(chain) - MaxReorgDepth : chain'[i] = chain[i]
    <3> TAKE i \in 1 .. Len(chain) - MaxReorgDepth
    <3>1. i \in 1 .. Len(chain) - depth /\ i \in 1 .. Len(kept) /\ i \in 1 .. Len(stale)
      BY <1>1, <2>2, <2>3, <2>6
    <3>. QED BY <2>3, <2>6, <2>7, <3>1
  <2>9. reorgs' = reorgs + 1 /\ stale' = chain /\ UNCHANGED <<storeVars, funded, engineVars>>
    BY <1>4 DEF Reactivate
  <2>. QED BY <1>0, <1>1, <1>m, <2>1, <2>7, <2>8, <2>9
<1>. QED BY <1>2, <1>3, <1>4

-----------------------------------------------------------------------------
(* Transactions of the engine *)

\* What the engine hands to ingest: events it reads off the chain, and events the
\* machine accepts as it stands.
Derived(e) == e.kind \in ParkedKinds \cup {"ReorgInvalidated"} \/ Accepts(ctx, e)

\* No such event is rejected, none meets a conflict, and only what is read off the
\* chain is ever parked.
LEMMA DerivedIsNotRejected ==
    ASSUME StoreTypeOK, StoreInv, NEW e \in Events, Derived(e)
    PROVE  /\ ~Fails(e)
           /\ Outcome(e) = "Parked" => e.kind \in ParkedKinds /\ CarriesEvidence(e)
<1>1. ctx \in Contexts /\ ctx.state \in States
  BY DEF StoreTypeOK, Contexts
<1>2. e.kind = "ReorgInvalidated" /\ ~IsTerminal(ctx) => Accepts(ctx, e)
  BY <1>1 DEF Accepts, Verdict, LegalKinds, IsTerminal, TerminalStates, States
<1>3. e.kind \in ParkedKinds => /\ CarriesEvidence(e)
                                /\ Verdict(ctx, e) # "EvidenceMismatch"
  BY DEF ParkedKinds, CarriesEvidence, EvidenceKinds, Verdict
<1>4. Verdict(ctx, e) \in {"Ok", "TerminalState", "IllegalEvent", "EvidenceMismatch",
                           "PreconditionUnsatisfied"}
  BY DEF Verdict
<1>5. Verdict(ctx, e) = "TerminalState" <=> IsTerminal(ctx)
  BY DEF Verdict, IsTerminal, TerminalStates
<1>6. Accepts(ctx, e) => ~KeyConflict(ctx, e)
  <2>1. SUFFICES ASSUME Accepts(ctx, e) PROVE ~KeyConflict(ctx, e)
    OBVIOUS
  <2>2. terminal = {}
    BY <1>5, <2>1 DEF StoreInv, Accepts
  <2>3. ASSUME ~Journalled(e), NEW f \in EffectsOf(ctx, e), f \in DOMAIN outbox
        PROVE  FALSE
    <3>1. f.source = e
      BY <2>3, EffectsOfType
    <3>. QED BY <2>3, <3>1 DEF StoreInv
  <2>. QED BY <2>2, <2>3 DEF KeyConflict
<1>7. e.kind = "ReorgInvalidated" => ~CarriesEvidence(e)
  BY DEF CarriesEvidence, EvidenceKinds
<1>8. Accepts(ctx, e) <=> Verdict(ctx, e) = "Ok"
  BY DEF Accepts
<1>9. CommitOutcome(ctx, e) \in {"Duplicate", "Corrupt", "Committed"}
      /\ (Accepts(ctx, e) => CommitOutcome(ctx, e) # "Corrupt")
  BY <1>6 DEF CommitOutcome
<1>10. CASE Accepts(ctx, e)
  BY <1>5, <1>8, <1>9, <1>10 DEF Outcome, Fails, IngestOutcome
<1>11. CASE ~Accepts(ctx, e) /\ e.kind \in ParkedKinds
  BY <1>3, <1>4, <1>5, <1>8, <1>11 DEF Outcome, Fails, IngestOutcome
<1>12. CASE ~Accepts(ctx, e) /\ e.kind = "ReorgInvalidated"
  BY <1>2, <1>7, <1>12 DEF Outcome, Fails, IngestOutcome
<1>. QED BY <1>10, <1>11, <1>12 DEF Derived

\* The tables after a commit.
LEMMA CommitFacts ==
    ASSUME StoreTypeOK, NEW e \in Events, Accepts(ctx, e), NEW cur, CommitTransition(ctx, e, cur)
    PROVE  /\ ctx' = NextContext(ctx, e)
           /\ DOMAIN journal' = DOMAIN journal \cup {Len(journal) + 1}
           /\ \A i \in DOMAIN journal : journal'[i] = journal[i]
           /\ journal'[Len(journal) + 1].event = e
           /\ \A x : Journalled(x)' <=> Journalled(x) \/ x = e
           /\ ~IsTerminal(ctx)
           /\ DOMAIN outbox' = DOMAIN outbox \cup EffectsOf(ctx, e)
           /\ \A f \in DOMAIN outbox : outbox'[f] = outbox[f]
           /\ evidence' = IF CarriesEvidence(e) THEN WithStatus(e, "Applied") ELSE evidence
           /\ cursor' = IF cur = NoCursor THEN cursor ELSE cur
           /\ UNCHANGED <<leased, late>>
<1> DEFINE row == [event |-> e, refresh |-> Journalled(e),
                   expected |-> ctx.revision, context |-> NextContext(ctx, e)]
<1>1. journal' = Append(journal, row) /\ row.event = e
  BY DEF CommitTransition, WithRow
<1>2. journal \in Seq(JournalRows)
  BY DEF StoreTypeOK
<1>3. /\ ctx' = NextContext(ctx, e)
      /\ evidence' = IF CarriesEvidence(e) THEN WithStatus(e, "Applied") ELSE evidence
      /\ cursor' = IF cur = NoCursor THEN cursor ELSE cur
      /\ UNCHANGED <<leased, late>>
      /\ outbox' = WithEffects(EffectsOf(ctx, e))
  BY DEF CommitTransition
<1> HIDE DEF row
<1>4. /\ DOMAIN journal' = DOMAIN journal \cup {Len(journal) + 1}
      /\ \A i \in DOMAIN journal : journal'[i] = journal[i]
      /\ journal'[Len(journal) + 1].event = e
  BY <1>1, <1>2
<1>5. \A x : Journalled(x)' <=> Journalled(x) \/ x = e
  BY <1>4 DEF Journalled
<1>6. ~IsTerminal(ctx)
  BY ArmType DEF StoreTypeOK
<1>7. /\ DOMAIN outbox' = DOMAIN outbox \cup EffectsOf(ctx, e)
      /\ \A f \in DOMAIN outbox : outbox'[f] = outbox[f]
  BY <1>3 DEF WithEffects
<1>. QED BY <1>3, <1>4, <1>5, <1>6, <1>7

\* A commit keeps the tables in agreement.
LEMMA CommitKeepsStoreInv ==
    ASSUME StoreTypeOK, StoreInv, NEW e \in Events, Accepts(ctx, e), NEW cur,
           CommitTransition(ctx, e, cur)
    PROVE  StoreInv'
<1>1. terminal' = {} <=> ~IsTerminal(ctx')
  <2>1. terminal = {}
    BY Zenon, CommitFacts DEF StoreInv
  <2>. QED BY Zenon, <2>1 DEF CommitTransition
<1>2. ASSUME NEW f \in DOMAIN outbox'
      PROVE  Journalled(f.source)' /\ (f.kind = "RevalidateFrom" => f.source.kind = "ReorgInvalidated")
  <2>1. CASE f \in DOMAIN outbox
    BY Zenon, <2>1, CommitFacts DEF StoreInv
  <2>2. CASE f \in EffectsOf(ctx, e)
    <3>1. f.source = e /\ f.kind \in EffectKindsOf(ctx, e)
      BY <2>2 DEF EffectsOf
    <3>2. f.kind = "RevalidateFrom" => e.kind = "ReorgInvalidated"
      BY <3>1 DEF EffectKindsOf
    <3>. QED BY Zenon, <3>1, <3>2, CommitFacts
  <2>. QED BY Zenon, <1>2, <2>1, <2>2, CommitFacts
<1>a. evidence' = IF CarriesEvidence(e) THEN WithStatus(e, "Applied") ELSE evidence
  BY Zenon, CommitFacts
<1>3. \A x \in Rows("Parked")' : x.kind \in ParkedKinds
  <2>1. Rows("Parked")' \subseteq Rows("Parked")
    BY <1>a DEF Rows, WithStatus
  <2>. QED BY <2>1 DEF StoreInv
<1>4. ASSUME NEW i \in DOMAIN journal', CarriesEvidence(journal'[i].event)
      PROVE  journal'[i].event \in DOMAIN evidence'
  <2>1. DOMAIN evidence \subseteq DOMAIN evidence' /\ (CarriesEvidence(e) => e \in DOMAIN evidence')
    BY <1>a DEF WithStatus
  <2>2. CASE i \in DOMAIN journal
    <3>1. journal'[i] = journal[i]
      BY Zenon, <2>2, CommitFacts
    <3>. QED BY <1>4, <2>1, <2>2, <3>1 DEF StoreInv
  <2>3. CASE i = Len(journal) + 1
    <3>1. journal'[i].event = e
      BY Zenon, <2>3, CommitFacts
    <3>. QED BY <1>4, <2>1, <3>1
  <2>. QED BY Zenon, <1>4, <2>2, <2>3, CommitFacts
<1>. QED BY <1>1, <1>2, <1>3, <1>4 DEF StoreInv

\* A transaction that commits no transition: rows appear or change status, but none
\* goes away.
Quiet ==
    /\ UNCHANGED <<ctx, journal, terminal, cursor>>
    /\ DOMAIN outbox' = DOMAIN outbox
    /\ DOMAIN evidence \subseteq DOMAIN evidence'
    /\ \A e \in Rows("Parked")' : e \in Rows("Parked") \/ e.kind \in ParkedKinds

LEMMA QuietKeepsStoreInv ==
    ASSUME StoreInv, Quiet
    PROVE  StoreInv'
<1>1. \A x : Journalled(x)' <=> Journalled(x)
  BY DEF Quiet, Journalled
<1>. QED BY <1>1 DEF Quiet, StoreInv

\* The transactions other than a commit are quiet.
LEMMA OtherWritesAreQuiet ==
    ASSUME \/ UNCHANGED storeVars
           \/ \E e : RecordLateEvidence(e) \/ ReaffirmEvidence(e)
           \/ \E e : e.kind \in ParkedKinds /\ ParkEvidence(e)
           \/ \E h : InvalidateEvidenceFrom(h)
           \/ ClaimReady
           \/ \E f : LeaseExpires(f) \/ CompleteEffect(f)
    PROVE  Quiet
<1> USE DEF Quiet, Rows
<1>1. CASE UNCHANGED storeVars
  BY <1>1 DEF storeVars
<1>2. ASSUME NEW e, RecordLateEvidence(e) PROVE Quiet
  BY <1>2 DEF RecordLateEvidence
<1>3. ASSUME NEW e, ReaffirmEvidence(e) PROVE Quiet
  BY <1>3 DEF ReaffirmEvidence
<1>4. ASSUME NEW e, e.kind \in ParkedKinds, ParkEvidence(e) PROVE Quiet
  BY <1>4 DEF ParkEvidence, WithStatus
<1>5. ASSUME NEW h, InvalidateEvidenceFrom(h) PROVE Quiet
  BY <1>5 DEF InvalidateEvidenceFrom
<1>6. CASE ClaimReady
  BY <1>6 DEF ClaimReady
<1>7. ASSUME NEW f, LeaseExpires(f) PROVE Quiet
  BY <1>7 DEF LeaseExpires
<1>8. ASSUME NEW f, CompleteEffect(f) PROVE Quiet
  BY <1>8 DEF CompleteEffect
<1>. QED BY <1>1, <1>2, <1>3, <1>4, <1>5, <1>6, <1>7, <1>8

\* What ingest does to the store, by outcome.
LEMMA IngestByOutcome ==
    ASSUME StoreTypeOK, StoreInv, NEW e \in Events, Derived(e), NEW cur,
           IngestWrite(ctx, Journalled(e), e, cur)
    PROVE  \/ /\ Outcome(e) = "Committed" /\ Accepts(ctx, e)
              /\ CommitTransition(ctx, e, cur)
           \/ /\ Outcome(e) = "Reaffirmed" /\ Journalled(e) /\ CarriesEvidence(e)
              /\ ReaffirmEvidence(e)
           \/ Outcome(e) = "Late" /\ IsTerminal(ctx) /\ RecordLateEvidence(e)
           \/ /\ Outcome(e) = "Parked" /\ e.kind \in ParkedKinds /\ CarriesEvidence(e)
              /\ ~IsTerminal(ctx) /\ ParkEvidence(e)
           \/ Outcome(e) = "Duplicate" /\ Journalled(e) /\ UNCHANGED storeVars
<1> DEFINE o == IngestOutcome(ctx, Journalled(e), e)
<1>0. o = Outcome(e)
  BY DEF Outcome
<1>1. o = "Committed" => Accepts(ctx, e)
  BY DEF IngestOutcome, CommitOutcome
<1>2. o = "Reaffirmed" => Journalled(e) /\ CarriesEvidence(e)
  BY DEF IngestOutcome, CommitOutcome
<1>3. o = "Late" => IsTerminal(ctx)
  BY DEF IngestOutcome, CommitOutcome
<1>4. o = "Parked" => ~IsTerminal(ctx)
  <2>1. Verdict(ctx, e) \in {"IllegalEvent", "PreconditionUnsatisfied"} => ~IsTerminal(ctx)
    BY DEF Verdict, IsTerminal, TerminalStates
  <2>. QED BY <2>1 DEF IngestOutcome, CommitOutcome
<1>5. o = "Duplicate" => Journalled(e)
  BY DEF IngestOutcome, CommitOutcome
<1>6. o \notin {"Rejected", "Corrupt", "Conflict"} /\
      (o = "Parked" => e.kind \in ParkedKinds /\ CarriesEvidence(e))
  BY <1>0, DerivedIsNotRejected DEF Fails
<1>. QED BY <1>0, <1>1, <1>2, <1>3, <1>4, <1>5, <1>6 DEF IngestWrite

\* One event through ingest: the tables stay as they should be, and the observation
\* leaves a row unless the settlement is over.
LEMMA IngestStep ==
    ASSUME StoreTypeOK, StoreInv, NEW e \in Events, Derived(e),
           NEW cur \in Anchors \cup {NoCursor}, IngestWrite(ctx, Journalled(e), e, cur)
    PROVE  /\ StoreTypeOK' /\ StoreInv'
           /\ ~Fails(e)
           /\ DOMAIN evidence \subseteq DOMAIN evidence'
           /\ DOMAIN outbox \subseteq DOMAIN outbox'
           /\ leased' = leased
           /\ Outcome(e) = "Parked" => e.kind \in ParkedKinds /\ e \in DOMAIN evidence'
           /\ CarriesEvidence(e) /\ terminal = {} => e \in DOMAIN evidence'
           /\ cursor' \in {cursor, cur} /\ (cursor' = NoCursor => cursor = NoCursor)
           /\ terminal # {} => cursor' = cursor /\ terminal' = terminal
<1>1. CASE /\ Outcome(e) = "Committed" /\ Accepts(ctx, e)
           /\ CommitTransition(ctx, e, cur)
  <2>1. ctx \in Contexts
    BY DEF StoreTypeOK
  <2>2. StoreTypeOK'
    BY <1>1, <2>1, CommitKeepsStoreType
  <2>3. StoreInv'
    BY <1>1, CommitKeepsStoreInv
  <2>4. terminal = {}
    BY Zenon, <1>1, CommitFacts DEF StoreInv
  <2>5. evidence' = IF CarriesEvidence(e) THEN WithStatus(e, "Applied") ELSE evidence
    BY Zenon, <1>1, CommitFacts
  <2>6. /\ DOMAIN outbox \subseteq DOMAIN outbox' /\ leased' = leased
        /\ cursor' = IF cur = NoCursor THEN cursor ELSE cur
    BY Zenon, <1>1, CommitFacts
  <2>. QED BY <1>1, <2>2, <2>3, <2>4, <2>5, <2>6, DerivedIsNotRejected DEF WithStatus
<1>2. ASSUME \/ /\ Outcome(e) = "Reaffirmed" /\ Journalled(e) /\ CarriesEvidence(e)
                /\ ReaffirmEvidence(e)
             \/ Outcome(e) = "Late" /\ IsTerminal(ctx) /\ RecordLateEvidence(e)
             \/ /\ Outcome(e) = "Parked" /\ e.kind \in ParkedKinds /\ CarriesEvidence(e)
                /\ ~IsTerminal(ctx) /\ ParkEvidence(e)
             \/ Outcome(e) = "Duplicate" /\ Journalled(e) /\ UNCHANGED storeVars
      PROVE  /\ StoreTypeOK' /\ StoreInv'
             /\ ~Fails(e)
             /\ DOMAIN evidence \subseteq DOMAIN evidence'
             /\ DOMAIN outbox \subseteq DOMAIN outbox'
             /\ leased' = leased
             /\ Outcome(e) = "Parked" => e.kind \in ParkedKinds /\ e \in DOMAIN evidence'
             /\ CarriesEvidence(e) /\ terminal = {} => e \in DOMAIN evidence'
             /\ cursor' = cursor /\ terminal' = terminal
  <2>1. Quiet
    BY <1>2, OtherWritesAreQuiet
  <2>2. StoreTypeOK'
    BY <1>2, WritesKeepStoreType, CarriersAreEvidenceEvents
  <2>3. StoreInv'
    BY <2>1, QuietKeepsStoreInv
  <2>4. leased' = leased
    BY <1>2 DEF ReaffirmEvidence, RecordLateEvidence, ParkEvidence, storeVars
  <2>5. Outcome(e) = "Parked" => e \in DOMAIN evidence'
    BY <1>2 DEF ParkEvidence, WithStatus
  <2>6. Journalled(e) /\ CarriesEvidence(e) => e \in DOMAIN evidence
    BY DEF StoreInv, Journalled
  <2>7. Outcome(e) = "Late" => terminal # {}
    BY <1>2 DEF StoreInv
  <2>. QED BY <1>2, <2>1, <2>2, <2>3, <2>4, <2>5, <2>6, <2>7, DerivedIsNotRejected DEF Quiet
<1>. QED BY <1>1, <1>2, IngestByOutcome

-----------------------------------------------------------------------------
(* The invariant and each step *)

\* What TypeOK says of the variables of the engine.
EngineType ==
    /\ chain \in Anchors /\ stale \in Anchors /\ scan \in Anchors /\ target \in Anchors
    /\ funded \in BOOLEAN /\ progressed \in BOOLEAN /\ timelock \in BOOLEAN
    /\ reorgs \in 0 .. MaxReorgs /\ crashes \in 0 .. MaxCrashes
    /\ failures \in 0 .. MaxFailures /\ moves \in 0 .. MaxMoves /\ deep \in BOOLEAN
    /\ scanLow \in Heights /\ cursorLow \in Heights
    /\ pc \in {"idle", "drain", "scan", "records", "reorg", "policy", "dispatch", "failed"}
    /\ after \in {"idle", "scan", "records", "policy"}
    /\ records \subseteq [kind : {"funding", "claim", "refund", "reorg"}, evidence : Evidence]
    /\ pending \subseteq Evidence
    /\ parked \subseteq DOMAIN evidence /\ todo \subseteq parked
    /\ tip \in Heights /\ budget \in 0 .. MaxPolicyIngests
    /\ batch \subseteq leased

LEMMA TypeIff == TypeOK <=> StoreTypeOK /\ EngineType
BY DEF TypeOK, EngineType

\* The parts of the invariant after a step.
LEMMA InvNext ==
    ASSUME StoreTypeOK', StoreInv', EngineType', ControlInv'
    PROVE  IInv'
<1>1. TypeOK'
  BY DEF TypeOK, EngineType
<1>. QED BY <1>1 DEF IInv

\* The lengths of the chains are heights.
LEMMA Lengths ==
    ASSUME TypeOK
    PROVE  /\ Len(chain) \in Nat /\ Len(stale) \in Nat /\ Len(scan) \in Nat /\ Len(target) \in Nat
           /\ Len(chain) \in Heights /\ Len(scan) \in Heights /\ Len(target) \in Heights
           /\ cursor # NoCursor => Len(cursor) \in Nat
<1>1. Heights \subseteq Nat
  BY MaxHeightAssumption DEF Heights
<1>. QED BY <1>1, AreChains, ChainIsSeq

\* The lowest height a cursor remembers is a height, and not above its own.
LEMMA OldestType ==
    ASSUME NEW n \in Nat
    PROVE  Oldest(n) \in Nat /\ Oldest(n) <= n
BY EngineAssumption DEF Oldest

LEMMA TargetLowType ==
    ASSUME TypeOK
    PROVE  /\ TargetLow \in Heights
           /\ \A n \in Heights : Oldest(n) \in Heights
<1>1. \A n \in Heights : Oldest(n) \in Heights
  BY OldestType, MaxHeightAssumption DEF Heights
<1>2. scanLow \in Heights /\ Len(target) \in Heights
  BY Lengths DEF TypeOK
<1>. QED BY <1>1, <1>2 DEF TargetLow

\* A block of a chain is a piece of evidence.
LEMMA EvidenceType ==
    ASSUME NEW c \in Chains, NEW h \in 0 .. Len(c)
    PROVE  /\ EvidenceAt(c, h) \in Evidence
           /\ EvidenceAt(c, h).height = h /\ EvidenceAt(c, h).anchor = SubSeq(c, 1, h)
<1>1. Len(c) \in Heights /\ Len(c) \in Nat
  BY ChainIsSeq, MaxHeightAssumption DEF Heights
<1>2. SubSeq(c, 1, h) \in Anchors /\ h \in Heights
  BY <1>1, FirstBlocks, AnchorsAssumption, MaxHeightAssumption DEF Heights
<1>. QED BY <1>2 DEF EvidenceAt, Evidence

\* The records of a scan.
LEMMA RecordsType ==
    ASSUME NEW c \in Chains, NEW h \in Nat
    PROVE  /\ RecordsAbove(c, h) \subseteq [kind : {"funding", "claim", "refund"}, evidence : Evidence]
           /\ \A r \in RecordsAbove(c, h) :
                 /\ r.evidence.height \in h + 1 .. Len(c)
                 /\ r = RecordAt(c, r.evidence.height)
                 /\ r.kind = c[r.evidence.height].tx
                 /\ r.evidence = EvidenceAt(c, r.evidence.height)
<1>0. Len(c) \in Nat
  BY ChainIsSeq, MaxHeightAssumption DEF Heights
<1>1. ASSUME NEW r \in RecordsAbove(c, h)
      PROVE  /\ r \in [kind : {"funding", "claim", "refund"}, evidence : Evidence]
             /\ r.evidence.height \in h + 1 .. Len(c)
             /\ r = RecordAt(c, r.evidence.height)
             /\ r.kind = c[r.evidence.height].tx
             /\ r.evidence = EvidenceAt(c, r.evidence.height)
  <2>1. PICK i \in h + 1 .. Len(c) : c[i].tx # "none" /\ r = RecordAt(c, i)
    BY DEF RecordsAbove
  <2>2. i \in 1 .. Len(c) /\ i \in 0 .. Len(c)
    BY <1>0
  <2>3. c[i].tx \in {"funding", "claim", "refund"}
    BY <2>1, <2>2, ChainIsSeq DEF Blocks, Txs
  <2>4. EvidenceAt(c, i) \in Evidence /\ EvidenceAt(c, i).height = i
    BY <2>2, EvidenceType
  <2>5. r.kind = c[i].tx /\ r.evidence = EvidenceAt(c, i)
    BY <2>1 DEF RecordAt
  <2>6. r \in [kind : {"funding", "claim", "refund"}, evidence : Evidence]
    BY <2>1, <2>3, <2>4 DEF RecordAt
  <2>. QED BY <2>1, <2>4, <2>5, <2>6
<1>. QED BY <1>1

\* The event of a block is one of Events.
LEMMA ObservedType ==
    ASSUME NEW k \in EvidenceKinds, NEW ev \in Evidence
    PROVE  /\ Observed(k, ev) \in Events /\ Observed(k, ev) \in EvidenceEvents
           /\ Observed(k, ev).kind = k /\ Observed(k, ev).evidence = ev
           /\ CarriesEvidence(Observed(k, ev))
BY DEF Observed, Events, EvidenceEvents, CarriesEvidence

\* Ingest from outside a drain: the next step, or a drain that comes back to it.
LEMMA IngestKeeps ==
    ASSUME IInv, NEW e \in Events, Derived(e), NEW cur \in Anchors \cup {NoCursor},
           cur # NoCursor => Len(cur) <= Len(chain), NEW next, pc # "drain",
           Ingest(e, cur, next)
    PROVE  /\ StoreTypeOK' /\ StoreInv'
           /\ parked' \subseteq DOMAIN evidence' /\ \A x \in parked' : x.kind \in ParkedKinds
           /\ progressed' \in BOOLEAN
           /\ leased' = leased
           /\ cursor' # NoCursor => Len(cursor') <= Len(chain)
           /\ \/ pc' = "drain" /\ after' = next /\ todo' = parked'
              \/ pc' = next /\ after' = after /\ todo' = {}
<1>1. IngestWrite(ctx, Journalled(e), e, cur)
  BY DEF Ingest
<1>2. StoreTypeOK /\ StoreInv /\ EngineType /\ ControlInv
  BY TypeIff DEF IInv
<1>3. /\ StoreTypeOK' /\ StoreInv' /\ ~Fails(e)
      /\ DOMAIN evidence \subseteq DOMAIN evidence'
      /\ leased' = leased
      /\ Outcome(e) = "Parked" => e.kind \in ParkedKinds /\ e \in DOMAIN evidence'
      /\ cursor' \in {cursor, cur}
  BY Zenon, <1>1, <1>2, IngestStep
<1>4. parked \subseteq DOMAIN evidence /\ todo = {} /\ progressed \in BOOLEAN
      /\ \A x \in parked : x.kind \in ParkedKinds
  BY <1>2 DEF EngineType, ControlInv
<1>5. parked' = IF Outcome(e) = "Parked" THEN parked \cup {e} ELSE parked
  BY DEF Ingest
<1>6. parked' \subseteq DOMAIN evidence' /\ \A x \in parked' : x.kind \in ParkedKinds
  BY <1>3, <1>4, <1>5
<1>7. /\ progressed' \in BOOLEAN
      /\ \/ pc' = "drain" /\ after' = next /\ todo' = parked'
         \/ pc' = next /\ after' = after /\ todo' = {}
  BY Zenon, <1>3, <1>4, <1>5 DEF Ingest, drainVars
<1>8. cursor' # NoCursor => Len(cursor') <= Len(chain)
  BY <1>2, <1>3 DEF ControlInv
<1>. QED BY <1>3, <1>6, <1>7, <1>8

\* Arming the refund, and the start of a drain.
LEMMA ArmRefundKeeps ==
    ASSUME IInv, ArmRefund
    PROVE  IInv'
<1> DEFINE e == [kind |-> "RefundArmed"]
<1>1. e \in Events /\ e.kind = "RefundArmed"
  BY DEF Events
<1>2. Accepts(ctx, e)
  BY <1>1 DEF ArmRefund, Accepts, Verdict, LegalKinds, IsTerminal, TerminalStates
<1>3. Ingest(e, NoCursor, "idle") /\ pc = "idle" /\ Derived(e)
  BY <1>2 DEF ArmRefund, Derived
<1>4. UNCHANGED <<chainVars, faultVars, scanVars, pending, policyVars, batch>>
  BY DEF ArmRefund
<1>. HIDE DEF e
<1>5. /\ StoreTypeOK' /\ StoreInv'
      /\ parked' \subseteq DOMAIN evidence' /\ \A x \in parked' : x.kind \in ParkedKinds
      /\ progressed' \in BOOLEAN
      /\ leased' = leased
      /\ cursor' # NoCursor => Len(cursor') <= Len(chain)
      /\ \/ pc' = "drain" /\ after' = "idle" /\ todo' = parked'
         \/ pc' = "idle" /\ after' = after /\ todo' = {}
  BY <1>1, <1>3, IngestKeeps
<1>6. EngineType /\ ControlInv
  BY TypeIff DEF IInv
<1>7. EngineType'
  BY <1>4, <1>5, <1>6 DEF EngineType, chainVars, faultVars, scanVars, policyVars
<1>8. ControlInv'
  BY <1>3, <1>4, <1>5, <1>6 DEF ControlInv, chainVars, scanVars, Ingesting
<1>. QED BY <1>5, <1>7, <1>8, InvNext

LEMMA DrainFirstKeeps ==
    ASSUME IInv, DrainFirst
    PROVE  IInv'
<1>1. StoreTypeOK /\ StoreInv /\ EngineType /\ ControlInv
  BY TypeIff DEF IInv
<1>2. StoreTypeOK' /\ StoreInv'
  BY <1>1, WritesKeepStoreType, OtherWritesAreQuiet, QuietKeepsStoreInv DEF DrainFirst
<1>3. EngineType'
  BY Zenon, <1>1 DEF DrainFirst, EngineType, storeVars, chainVars, faultVars, scanVars, policyVars
<1>4. ControlInv'
  BY <1>1 DEF DrainFirst, ControlInv, storeVars, chainVars, scanVars, Ingesting
<1>. QED BY <1>2, <1>3, <1>4, InvNext

\* One envelope of the drain.
LEMMA DrainKeeps ==
    ASSUME IInv, Drain
    PROVE  IInv'
<1>1. StoreTypeOK /\ StoreInv /\ EngineType /\ ControlInv
  BY TypeIff DEF IInv
<1>2. PICK e \in todo :
          /\ IngestWrite(ctx, Journalled(e), e, NoCursor)
          /\ LET stays  == StaysParked(e)
                 left   == todo \ {e}
                 buffer == IF stays THEN parked ELSE parked \ {e}
                 moved  == progressed \/ ~stays
                 again  == left = {} /\ moved /\ buffer # {}
             IN  /\ parked' = buffer
                 /\ todo' = IF again THEN buffer ELSE left
                 /\ progressed' = (left # {} /\ moved)
                 /\ pc' = IF Fails(e) THEN "failed"
                          ELSE IF left = {} /\ ~again THEN after ELSE "drain"
                 /\ after' = IF left = {} /\ ~again THEN "idle" ELSE after
  BY Zenon DEF Drain
<1>3. pc = "drain" /\ UNCHANGED <<chainVars, faultVars, scanVars, pending, policyVars, batch>>
  BY DEF Drain
<1>4. e \in parked /\ e.kind \in ParkedKinds /\ e \in EvidenceEvents /\ e \in Events
  BY <1>1, <1>2 DEF EngineType, ControlInv, StoreTypeOK, Events
<1>5. /\ StoreTypeOK' /\ StoreInv' /\ ~Fails(e)
      /\ DOMAIN evidence \subseteq DOMAIN evidence'
      /\ leased' = leased
      /\ cursor' \in {cursor, NoCursor}
  BY Zenon, <1>1, <1>2, <1>4, IngestStep DEF Derived
<1>6. parked' \subseteq parked /\ todo' \subseteq parked' /\ progressed' \in BOOLEAN
  BY <1>1, <1>2 DEF EngineType
<1>7. \/ pc' = "drain" /\ after' = after
      \/ pc' = after /\ after' = "idle" /\ todo' = {}
  BY Zenon, <1>2, <1>5
<1>8. EngineType'
  BY <1>1, <1>3, <1>5, <1>6, <1>7 DEF EngineType, chainVars, faultVars, scanVars, policyVars
<1>9. ControlInv'
  <2>1. pc' # "reorg" /\ pc' # "failed" /\ pc' # "dispatch" /\ (pc' # "drain" => todo' = {})
    BY <1>1, <1>7 DEF EngineType
  <2>2. Ingesting' => Ingesting /\ pc # "reorg"
    BY <1>3, <1>7, <2>1 DEF Ingesting
  <2>3. batch = {} /\ batch' = {}
    BY <1>1, <1>3 DEF ControlInv
  <2>4. (Rewinding <=> Rewinding') /\ (Advancing <=> Advancing')
    BY <1>3 DEF Rewinding, Advancing, scanVars
  <2>5. chain' = chain /\ stale' = stale /\ scan' = scan /\ target' = target /\ records' = records
    BY <1>3 DEF chainVars, scanVars
  <2>. QED BY <1>1, <1>5, <1>6, <2>1, <2>2, <2>3, <2>4, <2>5 DEF ControlInv
<1>. QED BY <1>5, <1>8, <1>9, InvNext

\* The empty chain is a prefix of every chain.
LEMMA EmptyIsPrefix ==
    ASSUME NEW c \in Chains
    PROVE  <<>> \in Chains /\ IsPrefix(<<>>, c)
<1>1. <<>> \in Seq(Blocks) /\ Len(<<>>) = 0
  OBVIOUS
<1>2. <<>> \in Chains
  <2> DEFINE x == <<>>
  <2>1. x \in Seq(Blocks) /\ Len(x) <= MaxHeight
    BY <1>1, MaxHeightAssumption
  <2> HIDE DEF x
  <2>2. x \in Chains
    BY <2>1, SeqIsChain
  <2>. QED BY <2>2 DEF x
<1>3. Len(c) \in Nat
  BY ChainIsSeq, MaxHeightAssumption DEF Heights
<1>. QED BY <1>1, <1>2, <1>3, PrefixIff

\* The cursor before the last block.
LEMMA FrontIs ==
    ASSUME NEW c \in Chains, c # <<>>
    PROVE  /\ Len(c) \in Nat \ {0}
           /\ Front(c) \in Chains /\ Len(Front(c)) = Len(c) - 1
           /\ \A i \in 1 .. Len(c) - 1 : Front(c)[i] = c[i]
<1>1. c \in Seq(Blocks) /\ Len(c) \in Nat
  BY ChainIsSeq, MaxHeightAssumption DEF Heights
<1>2. Len(c) # 0
  BY <1>1
<1>3. Len(c) - 1 \in Int /\ Len(c) - 1 <= Len(c)
  BY <1>1
<1>4. Front(c) = SubSeq(c, 1, Len(c) - 1)
  BY DEF Front
<1>5. PICK n \in Int : n = Len(c) - 1
  BY <1>3
<1>6. /\ SubSeq(c, 1, n) \in Chains /\ Len(SubSeq(c, 1, n)) = n
      /\ \A i \in 1 .. n : SubSeq(c, 1, n)[i] = c[i]
  BY <1>1, <1>2, <1>3, <1>5, FirstBlocks
<1>. QED BY <1>1, <1>2, <1>4, <1>5, <1>6

\* A scan: the records are those of the blocks it passes, or the one lost block.
LEMMA ScanIs ==
    ASSUME IInv, Scan
    PROVE  /\ target' \in Chains /\ Len(target') <= Len(chain)
           /\ records' \subseteq [kind : {"funding", "claim", "refund", "reorg"}, evidence : Evidence]
           /\ Rewinding' \/ Advancing'
           /\ pc \in {"idle", "scan"} /\ pc' = "records" /\ scan' = scan
           /\ \/ IsPrefix(scan, chain) /\ target' = chain /\ records' = RecordsAbove(chain, Len(scan))
              \/ /\ ~IsPrefix(scan, chain) /\ scan # <<>> /\ records' = {ReorgOf(scan)}
                 /\ target' = IF Exhausted THEN SubSeq(chain, 1, Len(scan) - 1) ELSE Front(scan)
                 /\ Len(target') = Len(scan) - 1
<1>1. chain \in Chains /\ scan \in Chains /\ Len(scan) <= Len(chain)
      /\ Len(scan) \in Nat /\ Len(chain) \in Nat
  BY AreChains, Lengths DEF IInv, ControlInv
<1>2. pc \in {"idle", "scan"} /\ pc' = "records" /\ scan' = scan
  BY DEF Scan
<1>3. CASE IsPrefix(scan, chain)
  <2>1. target' = chain /\ records' = RecordsAbove(chain, Len(scan))
    BY <1>3 DEF Scan
  <2>2. Advancing'
    BY <1>2, <1>3, <2>1 DEF Advancing
  <2>. QED BY <1>1, <1>2, <1>3, <2>1, <2>2, RecordsType
<1>4. CASE ~IsPrefix(scan, chain)
  <2>1. /\ target' = IF Exhausted THEN SubSeq(chain, 1, Len(scan) - 1) ELSE Front(scan)
        /\ records' = {ReorgOf(scan)}
    BY <1>4 DEF Scan
  <2>2. scan # <<>>
    BY <1>1, <1>4, EmptyIsPrefix
  <2>3. target' \in Chains /\ Len(target') = Len(scan) - 1 /\ Len(target') <= Len(chain)
    <3>1. PICK n \in Nat : n = Len(scan) - 1 /\ n <= Len(chain)
      BY <1>1, <2>2, FrontIs
    <3>2. SubSeq(chain, 1, n) \in Chains /\ Len(SubSeq(chain, 1, n)) = n
      BY <1>1, <3>1, FirstBlocks
    <3>3. Front(scan) \in Chains /\ Len(Front(scan)) = n
      BY <1>1, <2>2, <3>1, FrontIs
    <3>. QED BY <2>1, <3>1, <3>2, <3>3
  <2>4. EvidenceAt(scan, Len(scan)) \in Evidence
    BY <1>1, EvidenceType
  <2>5. records' \subseteq [kind : {"funding", "claim", "refund", "reorg"}, evidence : Evidence]
    BY <2>1, <2>4 DEF ReorgOf
  <2>6. Rewinding'
    BY <1>2, <2>1, <2>2, <2>3 DEF Rewinding
  <2>. QED BY <1>2, <1>4, <2>1, <2>2, <2>3, <2>5, <2>6
<1>. QED BY <1>3, <1>4

LEMMA ScanKeeps ==
    ASSUME IInv, Scan
    PROVE  IInv'
<1>1. StoreTypeOK /\ StoreInv /\ EngineType /\ ControlInv
  BY TypeIff DEF IInv
<1>2. UNCHANGED <<storeVars, chainVars, faultVars, drainVars, scan, scanLow, cursorLow, pending, parked,
                  policyVars, batch>>
  BY DEF Scan
<1>3. StoreTypeOK' /\ StoreInv'
  BY <1>1, <1>2, WritesKeepStoreType, OtherWritesAreQuiet, QuietKeepsStoreInv
<1>4. EngineType'
  BY <1>1, <1>2, ScanIs, AnchorsAssumption
     DEF EngineType, storeVars, chainVars, faultVars, drainVars, policyVars
<1>5. ControlInv'
  BY <1>1, <1>2, ScanIs DEF ControlInv, storeVars, chainVars, drainVars
<1>. QED BY <1>3, <1>4, <1>5, InvNext

\* A reorg record only comes from a scan that found its last block lost.
LEMMA ReorgRewinds ==
    ASSUME IInv, Ingesting, NEW r \in records
    PROVE  /\ r.kind = "reorg" \/ pc = "reorg" => Rewinding
           /\ Rewinding => /\ r = ReorgOf(scan) /\ r.kind = "reorg" /\ records = {r}
                           /\ r.evidence.height = Len(scan) /\ r.evidence.anchor = scan
                           /\ Len(scan) \in Nat \ {0} /\ Len(target) = Len(scan) - 1
<1>1. scan \in Chains /\ target \in Chains /\ Len(scan) \in Nat
  BY AreChains, Lengths DEF IInv
<1>2. Rewinding \/ (Advancing /\ pc # "reorg")
  BY DEF IInv, ControlInv
<1>3. Advancing => r.kind # "reorg"
  BY <1>1, RecordsType DEF Advancing
<1>4. Rewinding => r = ReorgOf(scan) /\ records = {r}
  BY DEF Rewinding
<1>5. /\ ReorgOf(scan).kind = "reorg" /\ ReorgOf(scan).evidence.height = Len(scan)
      /\ ReorgOf(scan).evidence.anchor = SubSeq(scan, 1, Len(scan))
  BY DEF ReorgOf, EvidenceAt
<1>6. SubSeq(scan, 1, Len(scan)) = scan
  <2> DEFINE s == SubSeq(scan, 1, Len(scan))
  <2>1. s \in Chains /\ Len(s) = Len(scan) /\ \A i \in 1 .. Len(scan) : s[i] = scan[i]
    BY <1>1, FirstBlocks
  <2> HIDE DEF s
  <2>2. s = scan
    BY <1>1, <2>1, SameChain
  <2>. QED BY <2>2 DEF s
<1>7. Rewinding => Len(scan) \in Nat \ {0} /\ Len(target) = Len(scan) - 1
  BY <1>1, FrontIs DEF Rewinding
<1>. QED BY Zenon, <1>2, <1>3, <1>4, <1>5, <1>6, <1>7

LEMMA ReorgRecordKeeps ==
    ASSUME IInv, ReorgRecord
    PROVE  IInv'
<1>1. StoreTypeOK /\ StoreInv /\ EngineType /\ ControlInv
  BY TypeIff DEF IInv
<1>2. PICK r \in records :
          /\ NextRecord(r) /\ r.kind = "reorg"
          /\ InvalidateEvidenceFrom(r.evidence.height)
          /\ pending' \subseteq pending /\ parked' \subseteq parked
  BY DEF ReorgRecord
<1>3. pc' = "reorg" /\ UNCHANGED <<chainVars, faultVars, drainVars, scanVars, policyVars, batch>>
  BY DEF ReorgRecord
<1>4. pc = "records"
  BY <1>2 DEF NextRecord
<1>5. Rewinding
  BY <1>2, <1>4, ReorgRewinds DEF Ingesting
<1>6. StoreTypeOK' /\ StoreInv'
  BY <1>1, <1>2, WritesKeepStoreType, OtherWritesAreQuiet, QuietKeepsStoreInv
<1>7. DOMAIN evidence' = DOMAIN evidence /\ leased' = leased /\ cursor' = cursor
  BY <1>2 DEF InvalidateEvidenceFrom
<1>8. todo = {} /\ batch = {}
  BY <1>1, <1>4 DEF ControlInv
<1>9. EngineType'
  BY <1>1, <1>2, <1>3, <1>7, <1>8
     DEF EngineType, chainVars, faultVars, drainVars, scanVars, policyVars
<1>10. Rewinding'
  BY <1>3, <1>5 DEF Rewinding, scanVars
<1>11. ControlInv'
  BY <1>1, <1>2, <1>3, <1>7, <1>8, <1>10 DEF ControlInv, chainVars, drainVars, scanVars
<1>. QED BY <1>6, <1>9, <1>11, InvNext

\* What is left of the records is still of the same scan.
LEMMA FewerRecords ==
    ASSUME UNCHANGED <<scan, target>>, records' \subseteq records
    PROVE  (Rewinding => Rewinding') /\ (Advancing => Advancing')
BY DEF Rewinding, Advancing

LEMMA IngestReorgKeeps ==
    ASSUME IInv, IngestReorg
    PROVE  IInv'
<1>1. StoreTypeOK /\ StoreInv /\ EngineType /\ ControlInv
  BY TypeIff DEF IInv
<1>2. PICK r \in records :
          /\ Ingest([kind |-> "ReorgInvalidated", from_height |-> r.evidence.height,
                      old_anchor |-> r.evidence.anchor], NoCursor, "records")
          /\ records' = records \ {r}
  BY DEF IngestReorg
<1>3. /\ pc = "reorg"
      /\ UNCHANGED <<chainVars, faultVars, scan, scanLow, cursorLow, target, pending, policyVars, batch>>
  BY DEF IngestReorg
<1> DEFINE e == [kind |-> "ReorgInvalidated", from_height |-> r.evidence.height,
                 old_anchor |-> r.evidence.anchor]
<1>4. e \in Events /\ Derived(e)
  BY <1>1 DEF EngineType, Evidence, Events, Derived
<1>5. Ingest(e, NoCursor, "records")
  BY <1>2
<1>. HIDE DEF e
<1>6. /\ StoreTypeOK' /\ StoreInv'
      /\ parked' \subseteq DOMAIN evidence' /\ \A x \in parked' : x.kind \in ParkedKinds
      /\ progressed' \in BOOLEAN
      /\ leased' = leased
      /\ cursor' # NoCursor => Len(cursor') <= Len(chain)
      /\ \/ pc' = "drain" /\ after' = "records" /\ todo' = parked'
         \/ pc' = "records" /\ after' = after /\ todo' = {}
  BY <1>3, <1>4, <1>5, IngestKeeps
<1>7. Rewinding
  BY <1>2, <1>3, ReorgRewinds DEF Ingesting
<1>8. Rewinding'
  BY <1>2, <1>3, <1>7, FewerRecords
<1>9. EngineType'
  BY <1>1, <1>2, <1>3, <1>6 DEF EngineType, chainVars, faultVars, policyVars
<1>10. ControlInv'
  BY <1>1, <1>3, <1>6, <1>8 DEF ControlInv, chainVars
<1>. QED BY <1>6, <1>9, <1>10, InvNext

\* The cursor a commit may carry is a position on a chain not longer than the tip:
\* the end of the scan, or the block below the lowest refund held in memory.
LEMMA SafeCursorType ==
    ASSUME IInv, NEW safe \in SafeCursors
    PROVE  /\ safe \in Anchors /\ safe \in Chains
           /\ Len(safe) <= Len(chain) /\ Len(safe) <= Len(target)
           /\ \/ safe = target
              \/ \A i \in 1 .. Len(safe) : i < Len(target) /\ safe[i] = chain[i]
<1>1. chain \in Chains /\ target \in Chains /\ Len(target) <= Len(chain) /\ pending \subseteq Evidence
      /\ Len(target) \in Nat /\ Len(chain) \in Nat
  BY AreChains, Lengths DEF IInv, ControlInv, TypeOK
<1>2. CASE ~HoldsCursor
  BY <1>1, <1>2, AnchorsAssumption DEF SafeCursors
<1>3. CASE HoldsCursor
  <2>1. PICK ev \in pending : ev.height <= Len(target)
    BY <1>3 DEF HoldsCursor
  <2>2. PICK low \in pending : low.height <= ev.height /\ safe = SubSeq(chain, 1, low.height - 1)
    BY Zenon, <1>3 DEF SafeCursors, LowestPending
  <2>4. low.height \in Nat /\ ev.height \in Nat
    BY <1>1, MaxHeightAssumption DEF Evidence, Heights
  <2>5. PICK m \in Int : m = low.height - 1
    BY <2>4
  <2>6. m < Len(target) /\ m <= Len(chain)
    BY <1>1, <2>1, <2>2, <2>4, <2>5
  <2>7. /\ SubSeq(chain, 1, m) \in Chains
        /\ Len(SubSeq(chain, 1, m)) = IF m >= 0 THEN m ELSE 0
        /\ \A i \in 1 .. m : SubSeq(chain, 1, m)[i] = chain[i]
    BY <1>1, <2>6, FirstBlocks
  <2>. QED BY <1>1, <2>2, <2>5, <2>6, <2>7, AnchorsAssumption
<1>. QED BY <1>2, <1>3

LEMMA IngestObservationKeeps ==
    ASSUME IInv, IngestObservation
    PROVE  IInv'
<1>1. StoreTypeOK /\ StoreInv /\ EngineType /\ ControlInv
  BY TypeIff DEF IInv
<1>2. PICK r \in records, safe \in SafeCursors :
          /\ NextRecord(r)
          /\ r.kind \in {"funding", "claim"}
          /\ Ingest(Observed(EventKind(r), r.evidence),
                    IF IsLastObservation(r) THEN safe ELSE NoCursor, "records")
          /\ cursorLow' = IF IsLastObservation(r)
                             /\ Outcome(Observed(EventKind(r), r.evidence)) = "Committed"
                          THEN SafeLow(safe) ELSE cursorLow
          /\ records' = records \ {r}
  BY DEF IngestObservation
<1>3. UNCHANGED <<chainVars, faultVars, scan, scanLow, target, pending, policyVars, batch>>
  BY DEF IngestObservation
<1>l. cursorLow' \in Heights
  <2>1. SafeLow(safe) \in Heights
    BY SafeCursorType, ChainIsSeq, TargetLowType DEF SafeLow, IInv
  <2>. QED BY <1>1, <1>2, <2>1 DEF EngineType
<1>4. pc = "records"
  BY <1>2 DEF NextRecord
<1> DEFINE e == Observed(EventKind(r), r.evidence)
           cur == IF IsLastObservation(r) THEN safe ELSE NoCursor
<1>5. EventKind(r) \in EvidenceKinds /\ EventKind(r) \in ParkedKinds /\ r.evidence \in Evidence
  BY <1>1 DEF EngineType, EventKind, EvidenceKinds, ParkedKinds
<1>6. e \in Events /\ Derived(e)
  BY <1>5, ObservedType DEF Derived
<1>7. cur \in Anchors \cup {NoCursor} /\ (cur # NoCursor => Len(cur) <= Len(chain))
  BY SafeCursorType
<1>8. Ingest(e, cur, "records")
  BY <1>2
<1>. HIDE DEF e, cur
<1>9. /\ StoreTypeOK' /\ StoreInv'
      /\ parked' \subseteq DOMAIN evidence' /\ \A x \in parked' : x.kind \in ParkedKinds
      /\ progressed' \in BOOLEAN
      /\ leased' = leased
      /\ cursor' # NoCursor => Len(cursor') <= Len(chain)
      /\ \/ pc' = "drain" /\ after' = "records" /\ todo' = parked'
         \/ pc' = "records" /\ after' = after /\ todo' = {}
  BY <1>4, <1>6, <1>7, <1>8, IngestKeeps
<1>10. (Rewinding => Rewinding') /\ (Advancing => Advancing') /\ Ingesting
  BY <1>2, <1>3, <1>4, FewerRecords DEF Ingesting
<1>11. EngineType'
  BY <1>1, <1>2, <1>3, <1>9, <1>l DEF EngineType, chainVars, faultVars, policyVars
<1>12. ControlInv'
  BY <1>1, <1>3, <1>4, <1>9, <1>10 DEF ControlInv, chainVars
<1>. QED BY <1>9, <1>11, <1>12, InvNext

LEMMA HoldRefundKeeps ==
    ASSUME IInv, HoldRefund
    PROVE  IInv'
<1>1. StoreTypeOK /\ StoreInv /\ EngineType /\ ControlInv
  BY TypeIff DEF IInv
<1>2. PICK r \in records : /\ NextRecord(r) /\ r.kind = "refund"
                           /\ pending' = pending \cup {r.evidence}
                           /\ records' = records \ {r}
  BY DEF HoldRefund
<1>3. UNCHANGED <<storeVars, chainVars, faultVars, pc, drainVars, scan, scanLow, cursorLow, target, parked,
                  policyVars, batch>>
  BY DEF HoldRefund
<1>4. pc = "records"
  BY <1>2 DEF NextRecord
<1>5. (Rewinding => Rewinding') /\ (Advancing => Advancing') /\ Ingesting
  BY <1>2, <1>3, <1>4, FewerRecords DEF Ingesting
<1>6. StoreTypeOK' /\ StoreInv'
  BY <1>1, <1>3, WritesKeepStoreType, OtherWritesAreQuiet, QuietKeepsStoreInv
<1>7. EngineType'
  BY <1>1, <1>2, <1>3 DEF EngineType, storeVars, chainVars, faultVars, drainVars, policyVars
<1>8. ControlInv'
  BY <1>1, <1>3, <1>4, <1>5 DEF ControlInv, storeVars, chainVars, drainVars
<1>. QED BY <1>6, <1>7, <1>8, InvNext

LEMMA ReadTipKeeps ==
    ASSUME IInv, ReadTip
    PROVE  IInv'
<1>1. StoreTypeOK /\ StoreInv /\ EngineType /\ ControlInv
  BY TypeIff DEF IInv
<1>2. chain \in Chains /\ <<>> \in Chains /\ Len(<<>>) = 0
      /\ Len(chain) \in Nat /\ Len(chain) \in Heights
  BY AreChains, EmptyIsPrefix, Lengths DEF IInv
<1>3. StoreTypeOK' /\ StoreInv'
  BY <1>1, WritesKeepStoreType, OtherWritesAreQuiet, QuietKeepsStoreInv DEF ReadTip
<1>l. TargetLow \in Heights
  BY TargetLowType DEF IInv
<1>4. EngineType'
  BY <1>1, <1>2, <1>l, AnchorsAssumption, EngineAssumption
     DEF ReadTip, EngineType, storeVars, chainVars, faultVars, drainVars
<1>5. ControlInv'
  BY <1>1, <1>2 DEF ReadTip, ControlInv, storeVars, chainVars, drainVars, Ingesting
<1>. QED BY <1>3, <1>4, <1>5, InvNext

\* The events of the policy are events the machine accepts as it stands, or a refund
\* that has the confirmations.
LEMMA PolicyDerives ==
    ASSUME IInv, NEW e \in PolicyEvents
    PROVE  /\ e \in Events /\ Derived(e) /\ ~IsTerminal(ctx)
           /\ \/ \E ev \in FinalFunding : e = Observed("FundingConfirmed", ev)
              \/ e.kind = "FundingAbsent" /\ LostFunding
              \/ \E ev \in FinalClaims : e = Observed("ClaimConfirmed", ev)
              \/ \E ev \in FinalRefunds : e = Observed("RefundConfirmed", ev)
              \/ e = [kind |-> "TimelockExpired"]
<1>0. StoreTypeOK /\ pending \subseteq Evidence /\ Len(scan) \in Heights
      /\ DOMAIN evidence \subseteq EvidenceEvents
  BY Lengths DEF IInv, TypeOK, StoreTypeOK
<1>1. \/ ~IsTerminal(ctx) /\ \E ev \in FinalFunding : e = Observed("FundingConfirmed", ev)
      \/ /\ ~IsTerminal(ctx) /\ LostFunding
         /\ e = [kind |-> "FundingAbsent", revalidation_from |-> Len(scan)]
      \/ ~IsTerminal(ctx) /\ \E ev \in FinalClaims : e = Observed("ClaimConfirmed", ev)
      \/ ~IsTerminal(ctx) /\ \E ev \in FinalRefunds : e = Observed("RefundConfirmed", ev)
      \/ /\ e = [kind |-> "TimelockExpired"]
         /\ ctx.state \in {"Confirming", "Settling"}
  BY DEF PolicyEvents
<1>2. CASE \E ev \in FinalFunding : e = Observed("FundingConfirmed", ev)
  <2>1. PICK ev \in FinalFunding : e = Observed("FundingConfirmed", ev)
    BY <1>2
  <2>2. ctx.state = "Confirming" /\ ev \in Latest("FundingObserved", {ctx.last_observed_height})
    BY DEF FinalFunding
  <2>3. PICK x \in DOMAIN evidence : x.evidence = ev /\ ev.height = ctx.last_observed_height
    BY <2>2 DEF Latest, Rows
  <2>4. ev \in Evidence
    BY <1>0, <2>3 DEF EvidenceEvents
  <2>5. e \in Events /\ e.kind = "FundingConfirmed" /\ e.evidence = ev
    BY <2>1, <2>4, ObservedType DEF EvidenceKinds
  <2>6. Accepts(ctx, e)
    BY <2>2, <2>3, <2>5 DEF Accepts, Verdict, LegalKinds, IsTerminal, TerminalStates
  <2>. QED BY <1>2, <2>2, <2>5, <2>6 DEF Derived, IsTerminal, TerminalStates
<1>3. CASE LostFunding /\ e = [kind |-> "FundingAbsent", revalidation_from |-> Len(scan)]
  <2>1. e \in Events /\ e.kind = "FundingAbsent" /\ ctx.state = "Confirming"
    BY <1>0, <1>3 DEF Events, LostFunding
  <2>2. Accepts(ctx, e)
    BY <2>1 DEF Accepts, Verdict, LegalKinds, IsTerminal, TerminalStates
  <2>. QED BY <1>3, <2>1, <2>2 DEF Derived, IsTerminal, TerminalStates
<1>4. CASE \E ev \in FinalClaims : e = Observed("ClaimConfirmed", ev)
  <2>1. PICK ev \in FinalClaims : e = Observed("ClaimConfirmed", ev)
    BY <1>4
  <2>2. /\ ctx.state = "Settling" /\ ctx.claim_evidence_verified
        /\ ev \in Latest("ClaimEvidenceVerified", Heights)
    BY DEF FinalClaims
  <2>3. PICK x \in DOMAIN evidence : x.evidence = ev
    BY <2>2 DEF Latest, Rows
  <2>4. ev \in Evidence
    BY <1>0, <2>3 DEF EvidenceEvents
  <2>5. e \in Events /\ e.kind = "ClaimConfirmed" /\ e.evidence = ev
    BY <2>1, <2>4, ObservedType DEF EvidenceKinds
  <2>6. Accepts(ctx, e)
    BY <2>2, <2>5 DEF Accepts, Verdict, LegalKinds, IsTerminal, TerminalStates
  <2>. QED BY <1>4, <2>2, <2>5, <2>6 DEF Derived, IsTerminal, TerminalStates
<1>5. CASE ~IsTerminal(ctx) /\ \E ev \in FinalRefunds : e = Observed("RefundConfirmed", ev)
  <2>1. PICK ev \in FinalRefunds : e = Observed("RefundConfirmed", ev)
    BY <1>5
  <2>2. ev \in Evidence
    BY <1>0 DEF FinalRefunds
  <2>3. e \in Events /\ e.kind = "RefundConfirmed"
    BY <2>1, <2>2, ObservedType DEF EvidenceKinds
  <2>. QED BY <1>5, <2>3 DEF Derived, ParkedKinds
<1>6. CASE e = [kind |-> "TimelockExpired"] /\ ctx.state \in {"Confirming", "Settling"}
  <2>1. e \in Events /\ e.kind = "TimelockExpired"
    BY <1>6 DEF Events
  <2>2. Accepts(ctx, e)
    BY <1>6, <2>1 DEF Accepts, Verdict, LegalKinds, IsTerminal, TerminalStates
  <2>. QED BY <1>6, <2>1, <2>2 DEF Derived, IsTerminal, TerminalStates
<1>. QED BY Zenon, <1>1, <1>2, <1>3, <1>4, <1>5, <1>6

LEMMA PolicyKeeps ==
    ASSUME IInv, Policy
    PROVE  IInv'
<1>1. StoreTypeOK /\ StoreInv /\ EngineType /\ ControlInv
  BY TypeIff DEF IInv
<1>2. PICK e \in PolicyEvents :
          /\ Ingest(e, NoCursor, "policy")
          /\ pending' \subseteq pending
          /\ timelock' = (timelock \/ e.kind = "TimelockExpired")
  BY DEF Policy
<1>3. pc = "policy" /\ budget > 0 /\ budget' = budget - 1
      /\ UNCHANGED <<chainVars, faultVars, scanVars, tip, batch>>
  BY DEF Policy
<1>4. e \in Events /\ Derived(e)
  BY PolicyDerives
<1>5. /\ StoreTypeOK' /\ StoreInv'
      /\ parked' \subseteq DOMAIN evidence' /\ \A x \in parked' : x.kind \in ParkedKinds
      /\ progressed' \in BOOLEAN
      /\ leased' = leased
      /\ cursor' # NoCursor => Len(cursor') <= Len(chain)
      /\ \/ pc' = "drain" /\ after' = "policy" /\ todo' = parked'
         \/ pc' = "policy" /\ after' = after /\ todo' = {}
  BY <1>2, <1>3, <1>4, IngestKeeps
<1>6. timelock' \in BOOLEAN /\ budget' \in 0 .. MaxPolicyIngests
  BY SMT, SMTT(30), <1>1, <1>2, <1>3, EngineAssumption DEF EngineType
<1>7. EngineType'
  BY <1>1, <1>2, <1>3, <1>5, <1>6 DEF EngineType, chainVars, faultVars, scanVars
<1>8. ControlInv'
  BY Zenon, <1>1, <1>3, <1>5 DEF ControlInv, chainVars, scanVars, Ingesting
<1>. QED BY <1>5, <1>7, <1>8, InvNext

LEMMA ClaimEffectsKeeps ==
    ASSUME IInv, ClaimEffects
    PROVE  IInv'
<1>1. StoreTypeOK /\ StoreInv /\ EngineType /\ ControlInv
  BY TypeIff DEF IInv
<1>2. StoreTypeOK' /\ StoreInv'
  BY <1>1, WritesKeepStoreType, OtherWritesAreQuiet, QuietKeepsStoreInv DEF ClaimEffects
<1>3. /\ batch' = Ready /\ leased' = leased \cup Ready /\ tip' = 0 /\ budget' = 0
      /\ pc = "policy" /\ pc' = IF Ready = {} THEN "idle" ELSE "dispatch"
      /\ UNCHANGED <<chainVars, faultVars, drainVars, scanVars, pending, parked, timelock>>
      /\ UNCHANGED <<evidence, cursor>>
  BY DEF ClaimEffects, ClaimReady
<1>4. EngineType'
  BY <1>1, <1>3, MaxHeightAssumption, EngineAssumption
     DEF EngineType, chainVars, faultVars, drainVars, scanVars, Heights
<1>5. ControlInv'
  BY <1>1, <1>3 DEF ControlInv, chainVars, drainVars, scanVars, Ingesting
<1>. QED BY <1>2, <1>4, <1>5, InvNext

\* The height a RevalidateFrom rewinds to.
LEMMA FloorType ==
    ASSUME IInv, NEW f \in batch, f.kind = "RevalidateFrom"
    PROVE  /\ f.source.kind = "ReorgInvalidated" /\ f.source \in Events /\ Journalled(f.source)
           /\ f.source.from_height \in Heights /\ f.source.from_height \in Nat
           /\ Floor(f) \in Nat
<1>1. f \in DOMAIN outbox /\ f \in Effects
  BY DEF IInv, TypeOK, StoreTypeOK
<1>2. f.source.kind = "ReorgInvalidated" /\ f.source \in Events /\ Journalled(f.source)
  BY <1>1 DEF IInv, StoreInv, Effects
<1>3. f.source.from_height \in Heights
  BY <1>2 DEF Events, EvidenceEvents, EvidenceKinds
<1>4. f.source.from_height \in Nat
  BY <1>3, MaxHeightAssumption DEF Heights
<1>. QED BY SMT, SMTT(30), <1>2, <1>3, <1>4 DEF Floor

\* One effect leaves the batch, completed or left to its lease.
LEMMA DispatchKeeps ==
    ASSUME IInv, Revalidate \/ Execute
    PROVE  IInv'
<1>1. StoreTypeOK /\ StoreInv /\ EngineType /\ ControlInv
  BY TypeIff DEF IInv
<1>2. chain \in Chains /\ Len(chain) \in Nat /\ Len(scan) \in Nat /\ Len(scan) <= Len(chain)
  BY AreChains, Lengths DEF IInv, ControlInv
<1>3. PICK f \in batch :
          /\ Take(f) /\ Finish(f)
          /\ CompleteEffect(f) \/ UNCHANGED storeVars
          /\ \/ scan' = scan /\ scanLow' = scanLow
             \/ /\ f.kind = "RevalidateFrom" /\ Floor(f) < Len(scan)
                /\ scan' = SubSeq(chain, 1, Floor(f)) /\ scanLow' = Oldest(Floor(f))
          /\ UNCHANGED <<chain, stale, reorgs, faultVars, drainVars, cursorLow, target, records, pending,
                         parked, policyVars>>
          /\ funded' \in BOOLEAN
  <2>1. CASE Revalidate
    <3>1. PICK f \in batch :
              /\ Take(f) /\ f.kind = "RevalidateFrom"
              /\ scan' = IF Floor(f) < Len(scan) THEN SubSeq(chain, 1, Floor(f)) ELSE scan
              /\ scanLow' = IF Floor(f) < Len(scan) THEN Oldest(Floor(f)) ELSE scanLow
              /\ CompleteEffect(f) /\ Finish(f)
              /\ UNCHANGED <<chainVars, faultVars, drainVars, cursorLow, target, records, pending, parked,
                             policyVars>>
      BY <2>1 DEF Revalidate
    <3>. QED BY Zenon, <1>1, <3>1 DEF chainVars, EngineType
  <2>2. CASE Execute
    <3>1. PICK f \in batch :
              /\ Take(f) /\ Finish(f)
              /\ CompleteEffect(f) \/ UNCHANGED storeVars
              /\ funded' \in {funded, funded \/ f.kind = "AuthorizeFunding"}
              /\ UNCHANGED <<chain, stale, reorgs, faultVars, drainVars, scanVars, pending, parked,
                             policyVars>>
      BY <2>2 DEF Execute
    <3>2. funded' \in BOOLEAN
      BY Zenon, <1>1, <3>1 DEF EngineType
    <3>. QED BY <3>1, <3>2 DEF scanVars
  <2>. QED BY <2>1, <2>2
<1>4. StoreTypeOK' /\ StoreInv'
  BY <1>1, <1>3, WritesKeepStoreType, OtherWritesAreQuiet, QuietKeepsStoreInv
<1>5. scan' \in Chains /\ Len(scan') <= Len(chain) /\ scanLow' \in Heights
  <2>1. CASE scan' = scan /\ scanLow' = scanLow
    BY <1>1, <1>2, <2>1, AreChains DEF IInv, EngineType
  <2>2. CASE /\ f.kind = "RevalidateFrom" /\ Floor(f) < Len(scan)
             /\ scan' = SubSeq(chain, 1, Floor(f)) /\ scanLow' = Oldest(Floor(f))
    <3>1. PICK n \in Nat : n = Floor(f)
      BY FloorType, <1>2, <2>2
    <3>2. n <= Len(chain) /\ chain \in Chains
      BY SMT, SMTT(30), <1>2, <2>2, <3>1, Lengths, AreChains DEF IInv
    <3>3. SubSeq(chain, 1, n) \in Chains /\ Len(SubSeq(chain, 1, n)) = n
      BY SMT, SMTT(30), <3>2, FirstBlocks
    <3>4. n \in Heights
      BY <3>2, Lengths, MaxHeightAssumption DEF IInv, Heights
    <3>5. scanLow' \in Heights
      BY <2>2, <3>1, <3>4, TargetLowType DEF IInv
    <3>. QED BY <2>2, <3>1, <3>2, <3>3, <3>5
  <2>. QED BY <1>3, <2>1, <2>2
<1>6. /\ pc = "dispatch" /\ batch' = batch \ {f} /\ pc' \in {"idle", "dispatch"}
      /\ pc' = "idle" => batch' = {}
  BY <1>3 DEF Take, Finish
<1>7. batch' \subseteq leased' /\ evidence' = evidence /\ cursor' = cursor
  BY <1>1, <1>3, <1>6 DEF CompleteEffect, storeVars, EngineType
<1>8. EngineType'
  BY <1>1, <1>3, <1>5, <1>6, <1>7, AnchorsAssumption
     DEF EngineType, faultVars, drainVars, policyVars
<1>9. ControlInv'
  BY <1>1, <1>3, <1>5, <1>6, <1>7 DEF ControlInv, drainVars, Ingesting
<1>. QED BY <1>4, <1>8, <1>9, InvNext

LEMMA ExpireKeeps ==
    ASSUME IInv, Expire
    PROVE  IInv'
<1>1. StoreTypeOK /\ StoreInv /\ EngineType /\ ControlInv
  BY TypeIff DEF IInv
<1>2. PICK f \in leased : LeaseExpires(f)
  BY DEF Expire
<1>3. pc = "idle" /\ UNCHANGED <<chainVars, faultVars, engineVars>>
  BY DEF Expire
<1>4. StoreTypeOK' /\ StoreInv'
  BY <1>1, <1>2, WritesKeepStoreType, OtherWritesAreQuiet, QuietKeepsStoreInv
<1>5. batch = {} /\ UNCHANGED <<evidence, cursor>>
  BY <1>1, <1>2, <1>3 DEF ControlInv, LeaseExpires
<1>6. EngineType'
  BY <1>1, <1>3, <1>5
     DEF EngineType, chainVars, faultVars, engineVars, drainVars, scanVars, policyVars
<1>7. ControlInv'
  BY <1>1, <1>3, <1>5
     DEF ControlInv, chainVars, engineVars, drainVars, scanVars, Ingesting
<1>. QED BY <1>4, <1>6, <1>7, InvNext

LEMMA ReadFailsKeeps ==
    ASSUME IInv, ReadFails
    PROVE  IInv'
<1>1. StoreTypeOK /\ StoreInv /\ EngineType /\ ControlInv
  BY TypeIff DEF IInv
<1>2. /\ failures' = failures + 1 /\ failures < MaxFailures
      /\ pc' = "idle" /\ after' = "idle" /\ target' = <<>> /\ records' = {}
      /\ UNCHANGED <<storeVars, chainVars, crashes, moves, deep, cursorLow, todo, progressed, pending,
                     parked, policyVars>>
  BY DEF ReadFails
<1>3. StoreTypeOK' /\ StoreInv'
  BY <1>1, <1>2, WritesKeepStoreType, OtherWritesAreQuiet, QuietKeepsStoreInv
<1>4. pc # "drain" /\ batch' = {} /\ scan' \in {scan, target} /\ scanLow' \in {scanLow, TargetLow}
  BY <1>1 DEF ReadFails, ControlInv, NextRecord, Take
<1>l. TargetLow \in Heights
  BY TargetLowType DEF IInv
<1>5. <<>> \in Chains /\ Len(<<>>) = 0 /\ Len(chain) \in Nat
  BY AreChains, EmptyIsPrefix, Lengths DEF IInv
<1>6. failures' \in 0 .. MaxFailures
  BY SMT, SMTT(30), <1>1, <1>2, EngineAssumption DEF EngineType
<1>7. EngineType'
  BY <1>1, <1>2, <1>4, <1>5, <1>6, <1>l, AnchorsAssumption
     DEF EngineType, storeVars, chainVars, policyVars
<1>8. ControlInv'
  BY <1>1, <1>2, <1>4, <1>5 DEF ControlInv, storeVars, chainVars, Ingesting
<1>. QED BY <1>3, <1>7, <1>8, InvNext

LEMMA CrashKeeps ==
    ASSUME IInv, Crash
    PROVE  IInv'
<1>1. StoreTypeOK /\ StoreInv /\ EngineType /\ ControlInv
  BY TypeIff DEF IInv
<1>2. StoreTypeOK' /\ StoreInv'
  BY <1>1, WritesKeepStoreType, OtherWritesAreQuiet, QuietKeepsStoreInv DEF Crash
<1>3. <<>> \in Chains /\ Len(<<>>) = 0 /\ Len(chain) \in Nat
  BY AreChains, EmptyIsPrefix, Lengths DEF IInv
<1>4. scan' \in Anchors /\ Len(scan') <= Len(chain)
  BY SMT, SMTT(30), <1>1, <1>3, AnchorsAssumption DEF Crash, StoreTypeOK, ControlInv
<1>5. /\ crashes' \in 0 .. MaxCrashes /\ timelock' \in BOOLEAN
      /\ tip' \in Heights /\ budget' \in 0 .. MaxPolicyIngests
  BY SMT, SMTT(30), <1>1, EngineAssumption, MaxHeightAssumption DEF Crash, EngineType, Journalled, Heights
<1>6. /\ parked' \subseteq DOMAIN evidence /\ \A e \in parked' : e.kind \in ParkedKinds
  BY <1>1 DEF Crash, StoreInv, Rows
<1>7. EngineType'
  BY Zenon, <1>1, <1>3, <1>4, <1>5, <1>6, AnchorsAssumption DEF Crash, EngineType, storeVars, chainVars
<1>8. ControlInv'
  <2>1. /\ pc' = "idle" /\ todo' = {} /\ batch' = {} /\ target' = <<>>
        /\ UNCHANGED <<chain, stale, cursor>>
    BY DEF Crash, storeVars, chainVars
  <2>2. Len(stale) <= Len(chain) /\ (cursor # NoCursor => Len(cursor) <= Len(chain))
    BY <1>1 DEF ControlInv
  <2>. QED BY <1>3, <1>4, <1>6, <2>1, <2>2 DEF ControlInv, Ingesting
<1>. QED BY <1>2, <1>7, <1>8, InvNext

\* The chain moves under the engine, or nothing does.
LEMMA ChainKeeps ==
    ASSUME IInv, Mine \/ Reorg \/ Reactivate \/ UNCHANGED vars
    PROVE  IInv'
<1>1. StoreTypeOK /\ StoreInv /\ EngineType /\ ControlInv
  BY TypeIff DEF IInv
<1>2. /\ chain' \in Chains /\ stale' \in Chains /\ reorgs' \in 0 .. MaxReorgs
      /\ Len(chain) <= Len(chain') /\ Len(stale') <= Len(chain')
      /\ moves' \in 0 .. MaxMoves /\ deep' \in BOOLEAN
      /\ UNCHANGED <<storeVars, funded, crashes, failures, engineVars>>
  <2>0. /\ chain \in Chains /\ stale \in Chains /\ Len(chain) \in Nat
        /\ reorgs \in 0 .. MaxReorgs /\ Len(stale) <= Len(chain)
    BY <1>1, AreChains, Lengths DEF IInv, EngineType, ControlInv
  <2>1. CASE Mine \/ Reorg \/ Reactivate
    <3>1. deep' \in BOOLEAN
      BY Zenon, <2>1 DEF Mine, Reorg, Reactivate, Moved
    <3>. QED BY <2>0, <2>1, <3>1, ChainGrows DEF IInv
  <2>2. CASE UNCHANGED vars
    BY <1>1, <2>0, <2>2 DEF vars, chainVars, faultVars, EngineType
  <2>. QED BY <2>1, <2>2
<1>3. StoreTypeOK' /\ StoreInv'
  BY <1>1, <1>2, WritesKeepStoreType, OtherWritesAreQuiet, QuietKeepsStoreInv
<1>4. EngineType'
  BY <1>1, <1>2, AnchorsAssumption
     DEF EngineType, storeVars, engineVars, drainVars, scanVars, policyVars
<1>5. (Rewinding <=> Rewinding') /\ (Advancing <=> Advancing') /\ (Ingesting <=> Ingesting')
  BY <1>2 DEF Rewinding, Advancing, Ingesting, engineVars, scanVars, drainVars
<1>6. Len(scan) \in Nat /\ Len(target) \in Nat /\ Len(chain) \in Nat /\ Len(chain') \in Nat
      /\ (cursor # NoCursor => Len(cursor) \in Nat)
  BY <1>2, Lengths, ChainIsSeq, MaxHeightAssumption DEF IInv, Heights
<1>7. ControlInv'
  BY <1>1, <1>2, <1>5, <1>6 DEF ControlInv, storeVars, engineVars, scanVars, drainVars
<1>. QED BY <1>3, <1>4, <1>7, InvNext

\* The invariant holds of a new settlement, and every step keeps it.
LEMMA InvInit ==
    ASSUME Init
    PROVE  IInv
<1>1. <<>> \in Chains /\ Len(<<>>) = 0
  <2>1. PICK c \in Chains : TRUE
    <3> DEFINE x == <<>>
    <3>1. x \in Seq(Blocks) /\ Len(x) <= MaxHeight
      BY MaxHeightAssumption
    <3> HIDE DEF x
    <3>. QED BY <3>1, SeqIsChain
  <2>. QED BY <2>1, EmptyIsPrefix
<1>2. StoreTypeOK
  <2>1. NewContext \in Contexts
    BY DEF NewContext, Contexts, States
  <2>. QED BY <2>1 DEF Init, StoreInit, StoreTypeOK
<1>3. EngineType
  <2>1. 0 \in 0 .. MaxReorgs /\ 0 \in 0 .. MaxCrashes /\ 0 \in 0 .. MaxFailures
        /\ 0 \in 0 .. MaxMoves /\ 0 \in 0 .. MaxPolicyIngests /\ 0 \in Heights
    BY EngineAssumption, MaxHeightAssumption DEF Heights
  <2>. QED BY Zenon, <1>1, <2>1, AnchorsAssumption DEF Init, StoreInit, EngineType
<1>4. StoreInv
  <2>1. terminal = {} /\ ~IsTerminal(ctx)
    BY DEF Init, StoreInit, IsTerminal, TerminalStates, NewContext
  <2>2. DOMAIN outbox = {} /\ DOMAIN evidence = {} /\ DOMAIN journal = {}
    BY DEF Init, StoreInit
  <2>. QED BY Zenon, <2>1, <2>2 DEF StoreInv, Rows
<1>5. ControlInv
  BY <1>1 DEF Init, StoreInit, ControlInv, Ingesting
<1>. QED BY <1>2, <1>3, <1>4, <1>5, TypeIff DEF IInv

LEMMA InvStep ==
    ASSUME IInv, [Next]_vars
    PROVE  IInv'
<1>1. CASE EngineStep
  BY <1>1, ArmRefundKeeps, DrainFirstKeeps, DrainKeeps, ScanKeeps, ReorgRecordKeeps,
     IngestReorgKeeps, IngestObservationKeeps, HoldRefundKeeps, ReadTipKeeps, PolicyKeeps,
     ClaimEffectsKeeps, DispatchKeeps DEF EngineStep
<1>. QED BY <1>1, ExpireKeeps, ReadFailsKeeps, CrashKeeps, ChainKeeps DEF Next

\* The inductive invariant of the engine over the store: types, the store's own
\* invariant, and what each step of a tick knows about the row, the context and the
\* buffer it works on (tick, drain, ingest, evaluate_policy, dispatch).
THEOREM EngineInvariant == Spec => []IInv
<1>1. Init => IInv
  BY InvInit
<1>2. IInv /\ [Next]_vars => IInv'
  BY InvStep
<1>. QED BY <1>1, <1>2, PTL DEF Spec

\* The engine keeps every variable in its type: each envelope of the reorder buffer has
\* its row in the store, and only effects this engine leased are dispatched.
THEOREM EngineTypeCorrect == Spec => []TypeOK
<1>1. IInv => TypeOK
  BY DEF IInv
<1>. QED BY <1>1, EngineInvariant, PTL

\* No tick ends with a hard rejection of the machine or a conflict in the store: the
\* events a single engine derives from the chain and from its own context are accepted,
\* parked, recorded as late or already known, whatever the chain does, whichever chain
\* reads fail and wherever the engine crashes.
THEOREM EngineIsNeverRejected == Spec => []NoHardRejection
<1>1. IInv => NoHardRejection
  BY DEF IInv, ControlInv, NoHardRejection
<1>. QED BY <1>1, EngineInvariant, PTL

-----------------------------------------------------------------------------
(* Every step writes at most one transaction *)

\* Every step of the engine is quiet or one transaction of ingest.
LEMMA EngineWrites ==
    ASSUME IInv, [Next]_vars
    PROVE  \/ Quiet
           \/ \E e \in Events, cur \in Anchors \cup {NoCursor} :
                 /\ Derived(e) /\ IngestWrite(ctx, Journalled(e), e, cur)
                 /\ cur = NoCursor \/ IngestObservation
<1>0. StoreTypeOK /\ EngineType /\ ControlInv
  BY TypeIff DEF IInv
<1>1. CASE ArmRefund
  <2> DEFINE e == [kind |-> "RefundArmed"]
  <2>1. e \in Events /\ e.kind = "RefundArmed"
    BY DEF Events
  <2>2. Accepts(ctx, e) /\ IngestWrite(ctx, Journalled(e), e, NoCursor)
    BY <1>1, <2>1 DEF ArmRefund, Ingest, Accepts, Verdict, LegalKinds, IsTerminal, TerminalStates
  <2> HIDE DEF e
  <2>. QED BY <2>1, <2>2 DEF Derived
<1>2. CASE Drain
  <2>1. PICK e \in todo : IngestWrite(ctx, Journalled(e), e, NoCursor)
    BY <1>2 DEF Drain
  <2>2. e.kind \in ParkedKinds /\ e \in Events
    BY <1>0 DEF EngineType, ControlInv, StoreTypeOK, Events
  <2>. QED BY <2>1, <2>2 DEF Derived
<1>3. CASE IngestReorg
  <2>1. PICK r \in records : Ingest([kind |-> "ReorgInvalidated", from_height |-> r.evidence.height,
                                      old_anchor |-> r.evidence.anchor], NoCursor, "records")
    BY <1>3 DEF IngestReorg
  <2> DEFINE e == [kind |-> "ReorgInvalidated", from_height |-> r.evidence.height,
                   old_anchor |-> r.evidence.anchor]
  <2>2. e \in Events /\ Derived(e)
    BY <1>0 DEF EngineType, Evidence, Events, Derived
  <2>3. IngestWrite(ctx, Journalled(e), e, NoCursor)
    BY <2>1 DEF Ingest
  <2> HIDE DEF e
  <2>. QED BY <2>2, <2>3
<1>4. CASE IngestObservation
  <2>1. PICK r \in records, safe \in SafeCursors :
            /\ r.kind \in {"funding", "claim"}
            /\ Ingest(Observed(EventKind(r), r.evidence),
                      IF IsLastObservation(r) THEN safe ELSE NoCursor, "records")
    BY <1>4 DEF IngestObservation
  <2> DEFINE e == Observed(EventKind(r), r.evidence)
             cur == IF IsLastObservation(r) THEN safe ELSE NoCursor
  <2>2. EventKind(r) \in EvidenceKinds /\ EventKind(r) \in ParkedKinds /\ r.evidence \in Evidence
    BY <1>0 DEF EngineType, EventKind, EvidenceKinds, ParkedKinds
  <2>3. e \in Events /\ Derived(e) /\ cur \in Anchors \cup {NoCursor}
    BY <2>2, ObservedType, SafeCursorType DEF Derived
  <2>4. IngestWrite(ctx, Journalled(e), e, cur)
    BY <2>1 DEF Ingest
  <2> HIDE DEF e, cur
  <2>. QED BY <1>4, <2>3, <2>4
<1>5. CASE Policy
  <2>1. PICK e \in PolicyEvents : IngestWrite(ctx, Journalled(e), e, NoCursor)
    BY <1>5 DEF Policy, Ingest
  <2>. QED BY <2>1, PolicyDerives
<1>6. CASE ReorgRecord
  BY <1>6, OtherWritesAreQuiet DEF ReorgRecord
<1>7. CASE DrainFirst \/ Scan \/ HoldRefund \/ ReadTip \/ ReadFails \/ Crash \/ Mine \/ Reorg
           \/ Reactivate \/ UNCHANGED vars
  BY <1>7, OtherWritesAreQuiet
     DEF DrainFirst, Scan, HoldRefund, ReadTip, ReadFails, Crash, Mine, Reorg, Reactivate, vars
<1>8. CASE ClaimEffects \/ Expire
  BY <1>8, OtherWritesAreQuiet DEF ClaimEffects, Expire
<1>9. CASE Revalidate \/ Execute
  <2>1. UNCHANGED storeVars \/ \E f : CompleteEffect(f)
    BY <1>9 DEF Revalidate, Execute
  <2>. QED BY <2>1, OtherWritesAreQuiet
<1>. QED BY <1>1, <1>2, <1>3, <1>4, <1>5, <1>6, <1>7, <1>8, <1>9 DEF Next, EngineStep

\* So every step commits one event in the context of the store, or is quiet.
LEMMA EngineCommits ==
    ASSUME IInv, [Next]_vars
    PROVE  Quiet \/ \E e \in Events, cur \in Anchors \cup {NoCursor} : StoreCommit(e, cur)
<1>0. StoreTypeOK /\ StoreInv
  BY TypeIff DEF IInv
<1>1. ASSUME NEW e \in Events, NEW cur \in Anchors \cup {NoCursor}, Derived(e),
             IngestWrite(ctx, Journalled(e), e, cur)
      PROVE  Quiet \/ StoreCommit(e, cur)
  <2>1. \/ Accepts(ctx, e) /\ CommitTransition(ctx, e, cur)
        \/ RecordLateEvidence(e) \/ ReaffirmEvidence(e)
        \/ e.kind \in ParkedKinds /\ ParkEvidence(e)
        \/ UNCHANGED storeVars
    BY Zenon, <1>0, <1>1, IngestByOutcome
  <2>. QED BY Zenon, <2>1, OtherWritesAreQuiet DEF StoreCommit
<1>. QED BY Zenon, <1>1, EngineWrites

-----------------------------------------------------------------------------
(* What the daemon owes to the settlement *)

\* What every step keeps, besides the invariant of the engine: a database that
\* recovers, and orders that agree with its context.
KeptInv == Recoverable /\ OrdersMatchContext

LEMMA KeptStep ==
    ASSUME IInv, KeptInv, [Next]_vars
    PROVE  KeptInv' /\ [Promise!Next]_(Promise!svars)
<1>0. StoreTypeOK /\ Recoverable /\ OrdersMatchContext
  BY TypeIff DEF IInv, KeptInv
<1>1. CASE Quiet
  <2>1. Recoverable'
    BY <1>0, <1>1 DEF Quiet, Recoverable, ContextAfter
  <2>2. OrdersMatchContext'
    BY <1>0, <1>1 DEF Quiet, OrdersMatchContext, Ordered
  <2>3. UNCHANGED Promise!svars
    BY <1>1 DEF Quiet, Promise!svars
  <2>. QED BY <2>1, <2>2, <2>3 DEF KeptInv
<1>2. ASSUME NEW e \in Events, NEW cur \in Anchors \cup {NoCursor}, StoreCommit(e, cur)
      PROVE  KeptInv' /\ [Promise!Next]_(Promise!svars)
  <2>1. terminal = {}
    BY Zenon, <1>0, <1>2, ArmType DEF StoreCommit, StoreTypeOK, Recoverable
  <2>2. Recoverable'
    BY Zenon, <1>0, <1>2, StoreCommitRecoverable
  <2>3. OrdersMatchContext' /\ [Promise!Next]_(Promise!svars)
    BY Zenon, <1>0, <1>2, <2>1, StoreCommitMatches, StoreCommitIsPromised
  <2>. QED BY Zenon, <2>2, <2>3 DEF KeptInv
<1>. QED BY Zenon, <1>1, <1>2, EngineCommits

LEMMA KeptInit ==
    ASSUME Init
    PROVE  KeptInv /\ Promise!Init
<1>1. StoreInit
  BY DEF Init
<1>a. ctx = NewContext /\ journal = <<>> /\ terminal = {}
  BY <1>1 DEF StoreInit
<1>b. Len(journal) = 0 /\ ContextAfter(0) = NewContext
  BY <1>a DEF ContextAfter
<1>2. Recoverable
  BY SMT, SMTT(30), <1>a, <1>b DEF Recoverable, NewContext, IsTerminal, TerminalStates
<1>3. OrdersMatchContext /\ Promise!Init
  BY <1>1 DEF StoreInit, OrdersMatchContext, Ordered, NewContext, Promise!Init
<1>. QED BY <1>2, <1>3 DEF KeptInv

\* Wherever the daemon crashes, between any two of its transactions, recover finds
\* a database it accepts: the Crash of the model is right to go on from the tables.
THEOREM EngineRecovers == Spec => []RecoverySucceeds
<1>1. Init => KeptInv
  BY KeptInit
<1>2. IInv /\ KeptInv /\ [Next]_vars => KeptInv'
  BY KeptStep
<1>3. KeptInv => RecoverySucceeds
  BY DEF KeptInv, RecoverySucceeds
<1>. QED BY <1>1, <1>2, <1>3, EngineInvariant, PTL DEF Spec

\* The daemon, its scanner, its policy and its crashes included, implements
\* Settlement: one outcome, funding authorised before any other order, no settling
\* without a claim, nothing after the outcome, on every chain.
THEOREM EngineKeepsThePromise == Spec => KeepsThePromise
<1>1. Init => KeptInv /\ Promise!Init
  BY KeptInit
<1>2. IInv /\ KeptInv /\ [Next]_vars => KeptInv'
  BY KeptStep
<1>3. IInv /\ KeptInv /\ [Next]_vars => [Promise!Next]_(Promise!svars)
  BY KeptStep
<1>. QED BY <1>1, <1>2, <1>3, EngineInvariant, PTL DEF Spec, KeepsThePromise, Promise!Spec
=============================================================================
