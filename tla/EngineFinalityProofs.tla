------------------------ MODULE EngineFinalityProofs ------------------------
(***************************************************************************)
(* What the context and the terminal of SettlementEngine rest on stays on  *)
(* the chain, until the first crash or failed read and as long as no reorg *)
(* has replaced more than one block.                                       *)
(***************************************************************************)
EXTENDS EngineScanProofs

-----------------------------------------------------------------------------
(* The observation the context rests on *)

\* A block hash that no reorg of one block can bring back.
Dead(a) == Len(a) \in 1 .. Len(chain) - 1 /\ a[Len(a)] # chain[Len(a)]

\* The funding a context has observed is on x.
RestsOn(c, x) ==
    c.state \in {"Confirming", "Settling"} /\ c.last_observed_height # NoHeight =>
        c.last_observed_height \in DOMAIN x /\ x[c.last_observed_height].tx = "funding"

ParkedFundings ==
    \A e \in parked : e.kind = "FundingObserved" => RowBranch[e.evidence.height].tx = "funding"

\* Each reorg is told once.
Told ==
    \A e \in Events : Journalled(e) /\ e.kind = "ReorgInvalidated" =>
        Dead(e.old_anchor) /\ e.old_anchor # CtxBranch

CtxInv ==
    /\ ParkedFundings
    /\ RestsOn(ctx, CtxBranch)
    /\ Told
    /\ Ingesting /\ ReorgAhead => Dead(scan)

\* A scan that has stepped back is at the branch it was on.
LEMMA RewindsOnBranch ==
    ASSUME IInv, BackInv, Ingesting, Rewinding
    PROVE  /\ target = Front(scan) /\ Len(target) = Len(scan) - 1 /\ Len(scan) \in Nat \ {0}
           /\ \A i \in 1 .. Len(scan) - 1 : target[i] = scan[i]
<1>1. scan \in Chains /\ scan # <<>> /\ Len(target) = Len(scan) - 1
  BY AreChains DEF IInv, Rewinding
<1>2. Len(scan) \in Nat \ {0} /\ \A i \in 1 .. Len(scan) - 1 : Front(scan)[i] = scan[i]
  BY Zenon, <1>1, FrontIs
<1>3. target = Front(scan)
  BY <1>1, <1>2 DEF BackInv
<1>. QED BY <1>1, <1>2, <1>3

\* How the branches of the rows and of the context move.
LEMMA BranchMoves ==
    ASSUME IInv, BranchInv, BatchDue, [Next]_vars, ~ReadFails, ~Crash
    PROVE  \/ /\ Scan /\ IsPrefix(scan, chain) /\ target' = chain
              /\ RowBranch = scan /\ CtxBranch = scan /\ RowBranch' = chain /\ CtxBranch' = chain
           \/ /\ ReorgRecord /\ Rewinding
              /\ RowBranch = scan /\ RowBranch' = target /\ UNCHANGED CtxBranch
           \/ /\ IngestReorg /\ Rewinding
              /\ UNCHANGED RowBranch /\ CtxBranch = scan /\ CtxBranch' = target
           \/ ~IngestReorg /\ ~ReorgRecord /\ UNCHANGED <<RowBranch, CtxBranch>>
<1>0. EngineType /\ scan \in Chains /\ chain \in Chains /\ Len(scan) \in Nat
  BY TypeIff, AreChains, Lengths DEF IInv
<1>1. CASE Scan
  <2>1. pc \in {"idle", "scan"} /\ pc' = "records" /\ scan' = scan
    BY <1>1 DEF Scan
  <2>2. RowBranch = scan /\ CtxBranch = scan /\ Ingesting' /\ ~IngestReorg /\ ~ReorgRecord
    BY <2>1 DEF RowBranch, CtxBranch, Ingesting, IngestReorg, ReorgRecord, NextRecord
  <2>3. CASE IsPrefix(scan, chain) /\ target' = chain /\ records' = RecordsAbove(chain, Len(scan))
    <3>1. \A r \in RecordsAbove(chain, Len(scan)) : r.kind # "reorg"
      BY <1>0, RecordsType
    <3>2. RowBranch' = chain /\ CtxBranch' = chain
      BY <2>1, <2>2, <2>3, <3>1 DEF RowBranch, CtxBranch, ReorgAhead
    <3>. QED BY <1>1, <2>2, <2>3, <3>2
  <2>4. CASE records' = {ReorgOf(scan)}
    <3>1. ReorgAhead'
      BY <2>4 DEF ReorgAhead, ReorgOf
    <3>. QED BY <2>1, <2>2, <3>1 DEF RowBranch, CtxBranch
  <2>. QED BY <1>1, <2>3, <2>4, ScanIs
<1>2. CASE ReorgRecord
  <2>1. PICK r \in records : NextRecord(r) /\ r.kind = "reorg"
    BY <1>2 DEF ReorgRecord
  <2>2. pc = "records" /\ pc' = "reorg" /\ UNCHANGED <<scan, target, records>> /\ Ingesting /\ Ingesting'
    BY <1>2, <2>1 DEF ReorgRecord, NextRecord, scanVars, Ingesting
  <2>3. Rewinding /\ ReorgAhead /\ ReorgAhead'
    BY <2>1, <2>2, ReorgRewinds DEF ReorgAhead
  <2>. QED BY <1>2, <2>2, <2>3 DEF RowBranch, CtxBranch
<1>3. CASE IngestReorg
  <2>1. PICK r \in records : records' = records \ {r}
    BY <1>3 DEF IngestReorg
  <2>2. pc = "reorg" /\ Ingesting /\ UNCHANGED <<scan, target>>
    BY <1>3 DEF IngestReorg, Ingesting
  <2>3. Rewinding /\ r.kind = "reorg" /\ records = {r}
    BY <2>2, ReorgRewinds
  <2>4. Ingesting' /\ pc' # "reorg"
    <3>1. IInv'
      BY InvStep
    <3>2. pc' # "failed"
      BY <3>1 DEF IInv, ControlInv
    <3>. QED BY <1>3, <3>2 DEF IngestReorg, Ingest, Ingesting
  <2>5. ReorgAhead /\ ~ReorgAhead'
    BY <2>1, <2>3 DEF ReorgAhead
  <2>. QED BY <1>3, <2>2, <2>3, <2>4, <2>5 DEF RowBranch, CtxBranch
<1>4. CASE IngestObservation \/ HoldRefund
  <2>1. PICK r \in records : NextRecord(r) /\ r.kind # "reorg" /\ records' = records \ {r}
    BY <1>4 DEF IngestObservation, HoldRefund
  <2>2. pc = "records" /\ Ingesting /\ UNCHANGED <<scan, target>>
    BY <1>4, <2>1 DEF IngestObservation, HoldRefund, NextRecord, Ingesting
  <2>3. RowBranch = target /\ CtxBranch = target /\ ~ReorgAhead
    BY <2>1, <2>2, BatchAdvances
  <2>4. ~ReorgAhead' /\ ~IngestReorg /\ ~ReorgRecord
    <3>1. ~IngestReorg
      BY <2>2 DEF IngestReorg
    <3>2. ~ReorgRecord
      BY <2>3 DEF ReorgRecord, ReorgAhead
    <3>. QED BY <2>1, <2>3, <3>1, <3>2 DEF ReorgAhead
  <2>5. Ingesting'
    <3>1. CASE HoldRefund
      BY <2>2, <3>1 DEF HoldRefund, Ingesting
    <3>2. CASE IngestObservation
      <4>1. IInv'
        BY InvStep
      <4>2. pc' # "failed"
        BY <4>1 DEF IInv, ControlInv
      <4>. QED BY <3>2, <4>2 DEF IngestObservation, Ingest, Ingesting
    <3>. QED BY <1>4, <3>1, <3>2
  <2>. QED BY <2>2, <2>3, <2>4, <2>5 DEF RowBranch, CtxBranch
<1>5. CASE Drain
  BY Zenon, <1>5, BranchDrain DEF Drain, IngestReorg, ReorgRecord, NextRecord
<1>6. CASE ReadTip
  BY <1>6 DEF ReadTip, IngestReorg, ReorgRecord, RowBranch, CtxBranch, Ingesting, ReorgAhead
<1>7. CASE Policy
  <2>1. pc = "policy" /\ RowBranch' = RowBranch /\ Deciding' /\ scan' = scan
    BY Zenon, <1>7, BranchPolicy DEF Policy
  <2>. QED BY <2>1 DEF IngestReorg, ReorgRecord, NextRecord, CtxBranch, Ingesting, Deciding
<1>8. CASE ClaimEffects \/ Revalidate \/ Execute
  <2>1. scan' = scan /\ pc \in {"policy", "dispatch"} /\ pc' \in {"idle", "dispatch"}
    BY <1>8, BranchDispatch DEF ClaimEffects, Revalidate, Execute, Take, Finish, scanVars
  <2>. QED BY <2>1 DEF IngestReorg, ReorgRecord, NextRecord, RowBranch, CtxBranch, Ingesting
<1>9. CASE ArmRefund \/ DrainFirst \/ Expire
  <2>1. pc = "idle" /\ scan' = scan /\ ~Ingesting'
    BY <1>9 DEF ArmRefund, DrainFirst, Expire, Ingest, Ingesting, scanVars, engineVars, drainVars
  <2>. QED BY <2>1 DEF IngestReorg, ReorgRecord, NextRecord, RowBranch, CtxBranch, Ingesting
<1>10. CASE Mine \/ Reorg \/ Reactivate \/ UNCHANGED vars
  <2>1. UNCHANGED <<storeVars, engineVars>>
    BY <1>10 DEF Mine, Reorg, Reactivate, vars
  <2>2. UNCHANGED <<scan, target, records, pc, after, parked>>
    BY <2>1 DEF engineVars, scanVars, drainVars
  <2>3. UNCHANGED <<RowBranch, CtxBranch>>
    BY <2>2 DEF RowBranch, CtxBranch, Ingesting, ReorgAhead
  <2>4. ~ReorgRecord
    BY <2>2 DEF ReorgRecord, NextRecord
  <2>5. ~IngestReorg
    <3>1. IngestReorg => records' # records
      BY DEF IngestReorg
    <3>. QED BY <2>2, <3>1
  <2>. QED BY <2>3, <2>4, <2>5
<1>. QED BY <1>1, <1>2, <1>3, <1>4, <1>5, <1>6, <1>7, <1>8, <1>9, <1>10 DEF Next, EngineStep

\* What a transition leaves of the observation.
LEMMA ObservationAfter ==
    ASSUME NEW c \in Contexts, NEW e \in Events, Accepts(c, e),
           NextContext(c, e).state \in {"Confirming", "Settling"},
           NextContext(c, e).last_observed_height # NoHeight
    PROVE  \/ /\ e.kind = "FundingObserved"
              /\ NextContext(c, e).last_observed_height = e.evidence.height
           \/ /\ c.state \in {"Confirming", "Settling"}
              /\ NextContext(c, e).last_observed_height = c.last_observed_height
              /\ e.kind = "ReorgInvalidated" => ~(c.last_observed_height >= e.from_height)
<1>1. Arm(c, e) \in Contexts
  BY ArmType
<1>2. /\ NextContext(c, e).state = Arm(c, e).state
      /\ NextContext(c, e).last_observed_height = Arm(c, e).last_observed_height
  BY <1>1 DEF NextContext, Contexts
<1>3. ~IsTerminal(c) /\ e.kind \in LegalKinds(c.state) /\ c.state \in States
  BY DEF Accepts, Verdict, Contexts
<1>4. CASE e.kind = "FundingObserved"
  BY Zenon, <1>2, <1>4 DEF Arm, Contexts
<1>5. CASE e.kind \in {"RefundArmed", "FundingAbsent", "ClaimConfirmed", "RefundConfirmed"}
  BY <1>2, <1>5 DEF Arm, OnRefundArmed, Contexts
<1>6. CASE e.kind \in {"FundingConfirmed", "ClaimEvidenceVerified", "TimelockExpired"}
  <2>1. c.state \in {"Confirming", "Settling"}
    BY <1>3, <1>6 DEF LegalKinds, States
  <2>2. Arm(c, e).last_observed_height = c.last_observed_height
    BY <1>6 DEF Arm, Contexts
  <2>. QED BY <1>2, <1>6, <2>1, <2>2
<1>7. CASE e.kind = "ReorgInvalidated"
  <2>1. Arm(c, e) = Regress(c, e)
    BY <1>7 DEF Arm
  <2>2. ~Affected(c, e)
    BY <1>2, <2>1 DEF Regress, Contexts
  <2>3. Arm(c, e) = c
    BY <2>1, <2>2 DEF Regress
  <2>. QED BY <1>2, <1>7, <2>2, <2>3 DEF Affected
<1>8. e.kind \in {"FundingObserved", "RefundArmed", "FundingAbsent", "ClaimConfirmed", "RefundConfirmed",
                  "FundingConfirmed", "ClaimEvidenceVerified", "TimelockExpired", "ReorgInvalidated"}
  BY DEF Events, EvidenceEvents, EvidenceKinds
<1>. QED BY <1>4, <1>5, <1>6, <1>7, <1>8

\* The events that tell the context of an observation or of a reorg.
Telling(e) ==
    \/ e.kind \notin {"FundingObserved", "ReorgInvalidated"} /\ ~IngestReorg
    \/ /\ e.kind = "FundingObserved" /\ ~IngestReorg
       /\ On(e.evidence, CtxBranch) /\ CtxBranch[e.evidence.height].tx = "funding"
    \/ IngestReorg /\ e = [kind |-> "ReorgInvalidated", from_height |-> Len(scan), old_anchor |-> scan]

\* The event of a reorg names the block the scanner is on.
LEMMA ReorgIsOfTheScanner ==
    ASSUME IInv, IngestReorg
    PROVE  LET e == [kind |-> "ReorgInvalidated", from_height |-> Len(scan), old_anchor |-> scan]
           IN  e \in Events /\ IngestWrite(ctx, Journalled(e), e, NoCursor)
<1>1. PICK r \in records :
          Ingest([kind |-> "ReorgInvalidated", from_height |-> r.evidence.height,
                   old_anchor |-> r.evidence.anchor], NoCursor, "records")
  BY DEF IngestReorg
<1>2. Ingesting /\ scan \in Chains /\ Len(scan) \in Nat /\ Len(scan) \in Heights
  BY AreChains, Lengths DEF IngestReorg, Ingesting, IInv
<1>3. r = ReorgOf(scan)
  BY <1>2, ReorgRewinds DEF IngestReorg, Rewinding
<1>4. SubSeq(scan, 1, Len(scan)) = scan
  BY <1>2, ChainIsSeq
<1>5. r.evidence.height = Len(scan) /\ r.evidence.anchor = scan
  BY <1>3, <1>4 DEF ReorgOf, EvidenceAt
<1>. QED BY <1>1, <1>2, <1>5, AnchorsAssumption DEF Events, Ingest

\* What each step commits.
LEMMA CommitsTell ==
    ASSUME IInv, BranchInv, ParkedFundings, [Next]_vars
    PROVE  \/ Quiet /\ ~IngestReorg
           \/ \E e \in Events, cur \in Anchors \cup {NoCursor} :
                 Derived(e) /\ IngestWrite(ctx, Journalled(e), e, cur) /\ Telling(e)
<1>0. StoreTypeOK /\ EngineType /\ ControlInv
  BY TypeIff DEF IInv
<1>1. CASE IngestReorg
  <2> DEFINE e == [kind |-> "ReorgInvalidated", from_height |-> Len(scan), old_anchor |-> scan]
  <2>1. e \in Events /\ IngestWrite(ctx, Journalled(e), e, NoCursor)
    BY <1>1, ReorgIsOfTheScanner
  <2>2. e.kind = "ReorgInvalidated" /\ Telling(e)
    BY <1>1 DEF Telling
  <2> HIDE DEF e
  <2>. QED BY <2>1, <2>2 DEF Derived
<1>2. CASE IngestObservation
  <2>1. PICK r \in records, safe \in SafeCursors :
            /\ NextRecord(r) /\ r.kind \in {"funding", "claim"}
            /\ Ingest(Observed(EventKind(r), r.evidence),
                      IF IsLastObservation(r) THEN safe ELSE NoCursor, "records")
    BY <1>2 DEF IngestObservation
  <2> DEFINE e == Observed(EventKind(r), r.evidence)
             cur == IF IsLastObservation(r) THEN safe ELSE NoCursor
  <2>2. EventKind(r) \in EvidenceKinds /\ EventKind(r) \in ParkedKinds /\ r.evidence \in Evidence
    BY <1>0 DEF EngineType, EventKind, EvidenceKinds, ParkedKinds
  <2>3. /\ e \in Events /\ Derived(e) /\ cur \in Anchors \cup {NoCursor}
        /\ e.kind = EventKind(r) /\ e.evidence = r.evidence
    BY <2>2, ObservedType, SafeCursorType DEF Derived
  <2>4. IngestWrite(ctx, Journalled(e), e, cur)
    BY <2>1 DEF Ingest
  <2>5. pc = "records" /\ Ingesting
    BY <2>1 DEF NextRecord, Ingesting
  <2>6. CtxBranch = target /\ r.kind = target[r.evidence.height].tx /\ On(r.evidence, target)
    BY <2>1, <2>5, BatchAdvances
  <2> HIDE DEF e, cur
  <2>7. e.kind \in {"FundingObserved", "ClaimEvidenceVerified"} /\ (e.kind = "FundingObserved" => r.kind = "funding")
    BY <2>3 DEF EventKind
  <2>8. ~IngestReorg
    BY <2>5 DEF IngestReorg
  <2>9. Telling(e)
    BY <2>3, <2>6, <2>7, <2>8 DEF Telling
  <2>. QED BY <2>3, <2>4, <2>9
<1>3. CASE Drain
  <2>1. PICK e \in todo : IngestWrite(ctx, Journalled(e), e, NoCursor)
    BY <1>3 DEF Drain
  <2>2. e.kind \in ParkedKinds /\ e \in Events /\ e \in parked
    BY <1>0 DEF EngineType, ControlInv, StoreTypeOK, Events
  <2>3. pc = "drain" /\ RowBranch = CtxBranch /\ ~IngestReorg
    BY Zenon, <1>3 DEF Drain, RowBranch, CtxBranch, IngestReorg
  <2>4. On(e.evidence, CtxBranch) /\ (e.kind = "FundingObserved" => CtxBranch[e.evidence.height].tx = "funding")
    BY <2>2, <2>3 DEF BranchInv, RowsInv, ParkedFundings
  <2>5. Telling(e)
    BY <2>2, <2>3, <2>4 DEF Telling, ParkedKinds
  <2>. QED BY <2>1, <2>2, <2>5 DEF Derived
<1>4. CASE Policy
  <2>1. PICK e \in PolicyEvents : IngestWrite(ctx, Journalled(e), e, NoCursor)
    BY <1>4 DEF Policy, Ingest
  <2>2. e \in Events /\ Derived(e) /\ e.kind \notin {"FundingObserved", "ReorgInvalidated"}
    BY PolicyDerives DEF Observed
  <2>3. ~IngestReorg
    BY <1>4 DEF Policy, IngestReorg
  <2>. QED BY <2>1, <2>2, <2>3 DEF Telling
<1>5. CASE ArmRefund
  <2> DEFINE e == [kind |-> "RefundArmed"]
  <2>1. e \in Events /\ e.kind = "RefundArmed"
    BY DEF Events
  <2>2. Accepts(ctx, e) /\ IngestWrite(ctx, Journalled(e), e, NoCursor)
    BY <1>5, <2>1 DEF ArmRefund, Ingest, Accepts, Verdict, LegalKinds, IsTerminal, TerminalStates
  <2>3. ~IngestReorg
    BY <1>5 DEF ArmRefund, IngestReorg
  <2> HIDE DEF e
  <2>. QED BY <2>1, <2>2, <2>3 DEF Derived, Telling
<1>6. CASE ReorgRecord
  BY <1>1, <1>6, OtherWritesAreQuiet DEF ReorgRecord
<1>7. CASE DrainFirst \/ Scan \/ HoldRefund \/ ReadTip \/ ReadFails \/ Crash \/ Mine \/ Reorg
           \/ Reactivate \/ UNCHANGED vars
  BY Zenon, <1>1, <1>7, OtherWritesAreQuiet
     DEF DrainFirst, Scan, HoldRefund, ReadTip, ReadFails, Crash, Mine, Reorg, Reactivate, vars
<1>8. CASE ClaimEffects \/ Expire
  BY <1>1, <1>8, OtherWritesAreQuiet DEF ClaimEffects, Expire
<1>9. CASE Revalidate \/ Execute
  <2>1. UNCHANGED storeVars \/ \E f : CompleteEffect(f)
    BY <1>9 DEF Revalidate, Execute
  <2>. QED BY <1>1, <2>1, OtherWritesAreQuiet
<1>. QED BY <1>1, <1>2, <1>3, <1>4, <1>5, <1>6, <1>7, <1>8, <1>9 DEF Next, EngineStep

\* With reorgs of one block, a block that a longer chain has replaced is gone for good.
LEMMA DeadStays ==
    ASSUME IInv, [Next]_vars, ~deep', NEW a, Dead(a)
    PROVE  Dead(a)'
<1>1. CASE Mine \/ Reorg \/ Reactivate
  <2>1. Len(chain') = Len(chain) + 1 /\ \A i \in 1 .. Len(chain) - 1 : chain'[i] = chain[i]
    BY <1>1, ShallowMove
  <2>2. Len(chain) \in Nat
    BY Lengths DEF IInv
  <2>3. Len(a) \in 1 .. Len(chain) - 1 /\ a[Len(a)] # chain[Len(a)]
    BY DEF Dead
  <2>4. PICK n \in Nat : n = Len(a)
    BY <2>2, <2>3
  <2>5. n \in 1 .. Len(chain) - 1 /\ n \in 1 .. Len(chain') - 1
    BY <2>1, <2>2, <2>3, <2>4
  <2>6. chain'[n] = chain[n]
    BY <2>1, <2>5
  <2>. QED BY <2>3, <2>4, <2>5, <2>6 DEF Dead
<1>2. CASE ~(Mine \/ Reorg \/ Reactivate)
  <2>1. chain' = chain
    BY <1>2, OnlyMovesChangeTheChain
  <2>. QED BY <2>1 DEF Dead
<1>. QED BY <1>1, <1>2

\* A position that is near the chain and not on it ends in such a block.
LEMMA NearAndLost ==
    ASSUME IInv, Near(scan), ~IsPrefix(scan, chain)
    PROVE  Dead(scan)
<1>1. scan \in Chains /\ chain \in Chains /\ Len(scan) \in Nat /\ Len(chain) \in Nat /\ DOMAIN scan = 1 .. Len(scan)
  BY AreChains, Lengths, ChainIsSeq DEF IInv
<1>2. Len(scan) <= Len(chain) /\ \A i \in 1 .. Len(scan) : i < Len(scan) \/ Len(scan) = Len(chain) => scan[i] = chain[i]
  BY <1>1 DEF Near
<1>3. PICK i \in 1 .. Len(scan) : scan[i] # chain[i]
  BY <1>1, <1>2, PrefixIff
<1>4. ~(i < Len(scan)) /\ Len(scan) # Len(chain)
  BY <1>2, <1>3
<1>5. i = Len(scan) /\ Len(scan) \in 1 .. Len(chain) - 1
  <2>1. PICK n \in Nat, m \in Nat : n = Len(scan) /\ m = Len(chain)
    BY Zenon, <1>1
  <2>2. n <= m /\ i \in 1 .. n /\ ~(i < n) /\ n # m
    BY <1>2, <1>3, <1>4, <2>1
  <2>3. i = n /\ n \in 1 .. m - 1
    BY <2>2
  <2>. QED BY <2>1, <2>3
<1>. QED BY <1>3, <1>5 DEF Dead

\* A reorg that is still to be told is of such a block.
LEMMA LostStep ==
    ASSUME IInv, NearInv, [Next]_vars, ~deep', Ingesting /\ ReorgAhead => Dead(scan)
    PROVE  (Ingesting /\ ReorgAhead => Dead(scan))'
<1>1. SUFFICES ASSUME Ingesting', ReorgAhead' PROVE Dead(scan)'
  OBVIOUS
<1>a. PICK x : x = scan
  OBVIOUS
<1>b. Dead(x) => Dead(x)'
  BY DeadStays
<1>2. CASE Scan
  <2>1. scan' = scan /\ scan \in Chains /\ chain \in Chains /\ Len(scan) \in Nat
    BY <1>2, AreChains, Lengths DEF Scan, IInv
  <2>2. ~IsPrefix(scan, chain)
    <3>1. \A r \in RecordsAbove(chain, Len(scan)) : r.kind # "reorg"
      BY <2>1, RecordsType
    <3>2. IsPrefix(scan, chain) => records' = RecordsAbove(chain, Len(scan))
      BY <1>2 DEF Scan
    <3>. QED BY <1>1, <3>1, <3>2 DEF ReorgAhead
  <2>3. Dead(scan)
    BY <2>2, NearAndLost DEF NearInv
  <2>4. Dead(x)'
    BY <1>a, <1>b, <2>3
  <2>. QED BY <1>a, <2>1, <2>4 DEF Dead
<1>3. CASE ~Scan
  <2>1. Ingesting /\ scan' = scan /\ records' \subseteq records
    BY <1>1, <1>3, IngestingStays
  <2>2. Dead(scan)
    BY <1>1, <2>1 DEF ReorgAhead
  <2>3. Dead(x)'
    BY <1>a, <1>b, <2>2
  <2>. QED BY <1>a, <2>1, <2>3 DEF Dead
<1>. QED BY <1>2, <1>3

\* What is new in the reorder buffer is the observation of a block, or no funding.
LEMMA NewlyParked ==
    ASSUME IInv, BranchInv, [Next]_vars, ~ReadFails, ~Crash, NEW e \in parked', e \notin parked,
           e.kind = "FundingObserved"
    PROVE  RowBranch[e.evidence.height].tx = "funding" /\ IngestObservation
<1>0. StoreTypeOK /\ StoreInv /\ EngineType /\ ControlInv
  BY TypeIff DEF IInv
<1>1. CASE IngestObservation
  <2>1. PICK r \in records, safe \in SafeCursors :
            /\ NextRecord(r) /\ r.kind \in {"funding", "claim"}
            /\ Ingest(Observed(EventKind(r), r.evidence),
                      IF IsLastObservation(r) THEN safe ELSE NoCursor, "records")
    BY <1>1 DEF IngestObservation
  <2>2. e = Observed(EventKind(r), r.evidence)
    BY <2>1 DEF Ingest
  <2>3. r.kind = "funding" /\ e.evidence = r.evidence
    BY <2>1, <2>2 DEF Observed, EventKind
  <2>4. Ingesting
    BY <2>1 DEF NextRecord, Ingesting
  <2>. QED BY <1>1, <2>1, <2>3, <2>4, BatchAdvances
<1>2. CASE ArmRefund
  <2>1. e.kind = "RefundArmed"
    BY <1>2 DEF ArmRefund, Ingest
  <2>. QED BY <2>1
<1>3. CASE IngestReorg
  <2>1. e.kind = "ReorgInvalidated"
    BY <1>3 DEF IngestReorg, Ingest
  <2>. QED BY <2>1
<1>4. CASE Policy
  <2>1. e \in PolicyEvents
    BY <1>4 DEF Policy, Ingest
  <2>2. e.kind # "FundingObserved"
    BY <2>1, PolicyDerives DEF Observed
  <2>. QED BY <2>2
<1>5. CASE Drain
  <2>1. parked' \subseteq parked
    BY <1>5 DEF Drain
  <2>. QED BY <2>1
<1>6. CASE ReorgRecord \/ DrainFirst \/ Scan \/ HoldRefund \/ ReadTip \/ ClaimEffects \/ Revalidate \/ Execute
  BY Zenon, <1>6 DEF ReorgRecord, DrainFirst, Scan, HoldRefund, ReadTip, ClaimEffects, Revalidate, Execute
<1>7. CASE Expire \/ Mine \/ Reorg \/ Reactivate \/ UNCHANGED vars
  BY Zenon, <1>7 DEF Expire, Mine, Reorg, Reactivate, vars, engineVars
<1>. QED BY <1>1, <1>2, <1>3, <1>4, <1>5, <1>6, <1>7 DEF Next, EngineStep

LEMMA ParkedFundingsStep ==
    ASSUME IInv, BackInv, BranchInv, BatchDue, ParkedFundings, [Next]_vars, ~ReadFails, ~Crash
    PROVE  ParkedFundings'
<1>0. /\ chain \in Chains /\ scan \in Chains /\ Len(scan) \in Nat /\ DOMAIN scan = 1 .. Len(scan)
  BY AreChains, Lengths, ChainIsSeq DEF IInv
<1>1. SUFFICES ASSUME NEW e \in parked', e.kind = "FundingObserved"
               PROVE  RowBranch'[e.evidence.height].tx = "funding"
  BY DEF ParkedFundings
<1>2. CASE e \notin parked
  <2>1. RowBranch[e.evidence.height].tx = "funding" /\ IngestObservation
    BY <1>1, <1>2, NewlyParked
  <2>2. RowBranch' = RowBranch
    <3>1. ~Scan /\ ~ReorgRecord
      BY <1>2 DEF Scan, ReorgRecord
    <3>. QED BY <3>1, BranchMoves
  <2>. QED BY <2>1, <2>2
<1>3. CASE e \in parked
  <2>1. RowBranch[e.evidence.height].tx = "funding" /\ On(e.evidence, RowBranch)
    BY <1>1, <1>3 DEF ParkedFundings, BranchInv, RowsInv
  <2>2. CASE IsPrefix(scan, chain) /\ RowBranch = scan /\ RowBranch' = chain
    <3>1. e.evidence.height \in 1 .. Len(scan)
      BY <1>0, <2>1, <2>2 DEF On
    <3>2. chain[e.evidence.height] = scan[e.evidence.height]
      BY Zenon, <1>0, <2>2, <3>1, PrefixIff
    <3>. QED BY <2>1, <2>2, <3>2
  <2>3. CASE ReorgRecord /\ Rewinding /\ RowBranch = scan /\ RowBranch' = target
    <3>1. PICK r \in records : NextRecord(r) /\ r.kind = "reorg"
                               /\ parked' = {x \in parked : x.evidence.height < r.evidence.height}
      BY Zenon, <2>3 DEF ReorgRecord
    <3>2. Ingesting
      BY <3>1 DEF NextRecord, Ingesting
    <3>3. r.evidence.height = Len(scan)
      BY <3>1, <3>2, ReorgRewinds
    <3>4. e.evidence.height \in 1 .. Len(scan) /\ e.evidence.height < Len(scan)
      BY <1>0, <1>1, <2>1, <2>3, <3>1, <3>3 DEF On
    <3>5. \A i \in 1 .. Len(scan) - 1 : target[i] = scan[i]
      BY Zenon, <2>3, <3>2, RewindsOnBranch
    <3>6. e.evidence.height \in 1 .. Len(scan) - 1
      BY <1>0, <3>4
    <3>. QED BY <2>1, <2>3, <3>5, <3>6
  <2>4. CASE RowBranch' = RowBranch
    BY <2>1, <2>4
  <2>. QED BY <2>2, <2>3, <2>4, BranchMoves
<1>. QED BY <1>2, <1>3

\* A reorg that the machine has not heard of yet is committed, unless the settlement is over.
LEMMA ReorgIsCommitted ==
    ASSUME IInv, Told, CtxBranch = scan, IngestReorg
    PROVE  LET e == [kind |-> "ReorgInvalidated", from_height |-> Len(scan), old_anchor |-> scan]
           IN  \/ IsTerminal(ctx) /\ UNCHANGED <<ctx, journal>>
               \/ /\ e \in Events /\ Accepts(ctx, e) /\ ctx' = NextContext(ctx, e)
                  /\ \A x : Journalled(x)' <=> Journalled(x) \/ x = e
<1> DEFINE e == [kind |-> "ReorgInvalidated", from_height |-> Len(scan), old_anchor |-> scan]
<1>0. StoreTypeOK /\ StoreInv
  BY TypeIff DEF IInv
<1>1. e \in Events /\ IngestWrite(ctx, Journalled(e), e, NoCursor)
  BY Zenon, ReorgIsOfTheScanner
<1>2. e.kind = "ReorgInvalidated" /\ e.old_anchor = scan
  OBVIOUS
<1> HIDE DEF e
<1>3. ~Journalled(e) /\ Derived(e) /\ e.kind \notin ParkedKinds
  BY <1>1, <1>2 DEF Told, Derived, ParkedKinds
<1>4. CASE Accepts(ctx, e) /\ CommitTransition(ctx, e, NoCursor)
  <2>1. ctx' = NextContext(ctx, e) /\ \A x : Journalled(x)' <=> Journalled(x) \/ x = e
    BY Zenon, <1>0, <1>1, <1>4, CommitFacts
  <2>. QED BY Zenon, <1>1, <1>4, <2>1 DEF e
<1>5. CASE IsTerminal(ctx) /\ RecordLateEvidence(e)
  BY <1>5 DEF RecordLateEvidence
<1>. QED BY Zenon, <1>0, <1>1, <1>3, <1>4, <1>5, IngestByOutcome

\* An observation that stays in the context stays on its branch.
LEMMA RestsOnStep ==
    ASSUME IInv, BackInv, BranchInv, BatchDue, ParkedFundings, Told, RestsOn(ctx, CtxBranch),
           [Next]_vars, ~ReadFails, ~Crash
    PROVE  RestsOn(ctx, CtxBranch)'
<1>0. /\ StoreTypeOK /\ StoreInv /\ ctx \in Contexts
      /\ chain \in Chains /\ scan \in Chains /\ Len(scan) \in Nat /\ DOMAIN scan = 1 .. Len(scan)
      /\ Len(chain) \in Nat /\ DOMAIN chain = 1 .. Len(chain)
  BY TypeIff, AreChains, Lengths, ChainIsSeq DEF IInv, StoreTypeOK
<1> DEFINE h == ctx'.last_observed_height
<1>1. SUFFICES ASSUME ctx'.state \in {"Confirming", "Settling"}, h # NoHeight
               PROVE  h \in DOMAIN CtxBranch' /\ CtxBranch'[h].tx = "funding"
  BY DEF RestsOn
<1>2. CASE Scan /\ IsPrefix(scan, chain) /\ CtxBranch = scan /\ CtxBranch' = chain
  <2>1. ctx' = ctx
    BY <1>2 DEF Scan, storeVars
  <2>2. h \in 1 .. Len(scan) /\ scan[h].tx = "funding"
    BY <1>0, <1>1, <1>2, <2>1 DEF RestsOn
  <2>3. Len(scan) <= Len(chain) /\ chain[h] = scan[h]
    BY <1>0, <1>2, <2>2, PrefixIff
  <2>4. h \in 1 .. Len(chain)
    BY <1>0, <2>2, <2>3
  <2>. QED BY <1>0, <1>2, <2>2, <2>3, <2>4
<1>3. CASE IngestReorg /\ Rewinding /\ CtxBranch = scan /\ CtxBranch' = target
  <2> DEFINE e == [kind |-> "ReorgInvalidated", from_height |-> Len(scan), old_anchor |-> scan]
  <2>1. \/ IsTerminal(ctx) /\ ctx' = ctx
        \/ e \in Events /\ Accepts(ctx, e) /\ ctx' = NextContext(ctx, e)
    BY <1>3, ReorgIsCommitted
  <2>2. ~(IsTerminal(ctx) /\ ctx' = ctx)
    BY <1>1 DEF IsTerminal, TerminalStates
  <2>3. e.kind = "ReorgInvalidated" /\ e.from_height = Len(scan)
    OBVIOUS
  <2> HIDE DEF e
  <2>4. /\ ctx.state \in {"Confirming", "Settling"} /\ h = ctx.last_observed_height
        /\ ~(ctx.last_observed_height >= Len(scan))
    BY <1>0, <1>1, <2>1, <2>2, <2>3, ObservationAfter
  <2>5. h \in 1 .. Len(scan) /\ scan[h].tx = "funding"
    BY <1>0, <1>1, <1>3, <2>4 DEF RestsOn
  <2>a. Ingesting
    BY <1>3 DEF IngestReorg, Ingesting
  <2>6. /\ target \in Chains /\ Len(target) = Len(scan) - 1
        /\ \A i \in 1 .. Len(scan) - 1 : target[i] = scan[i]
    BY Zenon, <1>3, <2>a, AreChains, RewindsOnBranch DEF IInv
  <2>7. h \in 1 .. Len(scan) - 1
    BY <1>0, <2>4, <2>5
  <2>8. DOMAIN target = 1 .. Len(target)
    BY <2>6, ChainIsSeq
  <2>. QED BY <1>3, <2>5, <2>6, <2>7, <2>8
<1>4. CASE ~IngestReorg /\ CtxBranch' = CtxBranch
  <2>1. CASE ctx' = ctx
    BY <1>1, <1>4, <2>1 DEF RestsOn
  <2>2. ASSUME NEW e \in Events, NEW cur \in Anchors \cup {NoCursor}, Derived(e), Telling(e),
               IngestWrite(ctx, Journalled(e), e, cur), ctx' # ctx
        PROVE  h \in DOMAIN CtxBranch /\ CtxBranch[h].tx = "funding"
    <3>1. Accepts(ctx, e) /\ CommitTransition(ctx, e, cur)
      <4>1. ReaffirmEvidence(e) \/ RecordLateEvidence(e) \/ ParkEvidence(e) \/ UNCHANGED storeVars => ctx' = ctx
        BY DEF ReaffirmEvidence, RecordLateEvidence, ParkEvidence, storeVars
      <4>. QED BY <1>0, <2>2, <4>1, IngestByOutcome
    <3>2. ctx' = NextContext(ctx, e)
      BY Zenon, <1>0, <3>1, CommitFacts
    <3>3. \/ e.kind = "FundingObserved" /\ h = e.evidence.height
          \/ ctx.state \in {"Confirming", "Settling"} /\ h = ctx.last_observed_height
      BY Zenon, <1>0, <1>1, <3>1, <3>2, ObservationAfter
    <3>4. CASE e.kind = "FundingObserved" /\ h = e.evidence.height
      BY Zenon, <1>4, <2>2, <3>4 DEF Telling, On
    <3>5. CASE ctx.state \in {"Confirming", "Settling"} /\ h = ctx.last_observed_height
      BY <1>1, <3>5 DEF RestsOn
    <3>. QED BY <3>3, <3>4, <3>5
  <2>3. Quiet => ctx' = ctx
    BY DEF Quiet
  <2>. QED BY <1>4, <2>1, <2>2, <2>3, CommitsTell
<1>5. ReorgRecord => ~IngestReorg
  BY DEF ReorgRecord, IngestReorg, NextRecord
<1>. QED BY <1>2, <1>3, <1>4, <1>5, BranchMoves

\* A reorg that was told is of a block that is gone, and is not told again.
LEMMA ToldStep ==
    ASSUME IInv, NearInv, BackInv, BranchInv, BatchDue, ParkedFundings, Told,
           Ingesting /\ ReorgAhead => Dead(scan), [Next]_vars, ~deep', ~ReadFails, ~Crash
    PROVE  Told'
<1>0. /\ StoreTypeOK /\ StoreInv
      /\ chain \in Chains /\ scan \in Chains /\ target \in Chains
      /\ Len(scan) \in Nat /\ Len(chain) \in Nat /\ Len(target) \in Nat
      /\ DOMAIN scan = 1 .. Len(scan) /\ DOMAIN target = 1 .. Len(target)
  BY TypeIff, AreChains, Lengths, ChainIsSeq DEF IInv
<1>1. SUFFICES ASSUME NEW e \in Events, Journalled(e)', e.kind = "ReorgInvalidated"
               PROVE  Dead(e.old_anchor)' /\ e.old_anchor # CtxBranch'
  BY DEF Told
<1>a. PICK a : a = e.old_anchor
  OBVIOUS
<1>2. CASE IngestReorg
  <2> DEFINE x == [kind |-> "ReorgInvalidated", from_height |-> Len(scan), old_anchor |-> scan]
  <2>1. Rewinding /\ CtxBranch = scan /\ CtxBranch' = target
    <3>1. ~Scan /\ ~ReorgRecord
      BY Zenon, <1>2 DEF IngestReorg, Scan, ReorgRecord, NextRecord
    <3>. QED BY <1>2, <3>1, BranchMoves
  <2>2. Journalled(e) \/ e = x
    <3>1. journal' = journal => (Journalled(e)' <=> Journalled(e))
      BY DEF Journalled
    <3>. QED BY Zenon, <1>1, <1>2, <2>1, <3>1, ReorgIsCommitted
  <2>3. x.old_anchor = scan
    OBVIOUS
  <2> HIDE DEF x
  <2>4. /\ target = Front(scan) /\ Len(target) = Len(scan) - 1 /\ Len(scan) \in Nat \ {0}
        /\ \A i \in 1 .. Len(scan) - 1 : target[i] = scan[i]
    BY Zenon, <1>2, <2>1, RewindsOnBranch DEF IngestReorg, Ingesting
  <2>5. Dead(a)
    <3>1. CASE Journalled(e)
      BY <1>1, <1>a, <3>1 DEF Told
    <3>2. CASE e = x
      <4>1. Ingesting
        BY <1>2 DEF IngestReorg, Ingesting
      <4>2. ReorgAhead
        BY <1>2, <4>1, ReorgRewinds DEF ReorgAhead, IngestReorg
      <4>. QED BY <1>a, <2>3, <3>2, <4>1, <4>2
    <3>. QED BY <2>2, <3>1, <3>2
  <2>6. ~Dead(target)
    <3>1. \A i \in 1 .. Len(scan) : i < Len(scan) => scan[i] = chain[i]
      BY <1>0 DEF NearInv, Near
    <3>2. PICK n \in Nat : n = Len(target)
      BY Zenon, <1>0
    <3>3. CASE n = 0
      BY <1>0, <3>2, <3>3 DEF Dead
    <3>4. CASE n # 0
      <4>1. n \in 1 .. Len(scan) - 1 /\ n \in 1 .. Len(scan) /\ n < Len(scan)
        BY <2>4, <3>2, <3>4
      <4>2. target[n] = chain[n]
        BY <2>4, <3>1, <4>1
      <4>. QED BY Zenon, <3>2, <4>2 DEF Dead
    <3>. QED BY <3>3, <3>4
  <2>7. Dead(a)'
    BY <2>5, DeadStays
  <2>8. a # target
    BY <2>5, <2>6
  <2>. QED BY <1>a, <2>1, <2>7, <2>8
<1>3. CASE ~IngestReorg
  <2>1. Journalled(e)
    <3>1. CASE Quiet
      BY <1>1, <3>1 DEF Quiet, Journalled
    <3>2. ASSUME NEW x \in Events, NEW cur \in Anchors \cup {NoCursor}, Derived(x), Telling(x),
                 IngestWrite(ctx, Journalled(x), x, cur)
          PROVE  Journalled(e)
      <4>1. x # e
        BY <1>1, <1>3, <3>2 DEF Telling
      <4>2. CASE Accepts(ctx, x) /\ CommitTransition(ctx, x, cur)
        BY Zenon, <1>0, <1>1, <4>1, <4>2, CommitFacts
      <4>3. CASE ReaffirmEvidence(x) \/ RecordLateEvidence(x) \/ ParkEvidence(x) \/ UNCHANGED storeVars
        <5>1. journal' = journal
          BY <4>3 DEF ReaffirmEvidence, RecordLateEvidence, ParkEvidence, storeVars
        <5>. QED BY <1>1, <5>1 DEF Journalled
      <4>. QED BY <1>0, <3>2, <4>2, <4>3, IngestByOutcome
    <3>. QED BY <3>1, <3>2, CommitsTell
  <2>2. Dead(a) /\ a # CtxBranch
    BY <1>1, <1>a, <2>1 DEF Told
  <2>3. Dead(a)'
    BY <2>2, DeadStays
  <2>4. a # chain
    BY <1>0, <2>2 DEF Dead
  <2>5. CtxBranch' = CtxBranch \/ CtxBranch' = chain
    BY <1>3, BranchMoves
  <2>. QED BY <1>a, <2>2, <2>3, <2>4, <2>5
<1>. QED BY <1>2, <1>3

\* Until the first fault, and the first reorg of more than one block.
LEMMA ContextInvariant == Spec => [](BaseInv /\ (NoFaults /\ ~deep => CtxInv))
<1> DEFINE All == BaseInv /\ (NoFaults /\ ~deep => CtxInv)
<1>1. Init => All
  <2>1. SUFFICES ASSUME Init PROVE All
    OBVIOUS
  <2>2. parked = {} /\ ctx = NewContext /\ journal = <<>> /\ ~Ingesting
    BY <2>1 DEF Init, StoreInit, Ingesting
  <2>3. RestsOn(ctx, CtxBranch)
    BY <2>2 DEF RestsOn, NewContext
  <2>4. Told
    BY <2>2 DEF Told, Journalled
  <2>5. CtxInv
    BY <2>2, <2>3, <2>4 DEF CtxInv, ParkedFundings
  <2>. QED BY <2>1, <2>5, BaseInit
<1>2. All /\ [Next]_vars => All'
  <2>1. SUFFICES ASSUME All, [Next]_vars PROVE All'
    OBVIOUS
  <2>2. BaseInv'
    BY <2>1, BaseStep
  <2>3. ASSUME NoFaults', ~deep' PROVE CtxInv'
    <3>1. ~deep /\ NoFaults /\ ~ReadFails /\ ~Crash
      BY <2>1, <2>3, DeepRemains, NoFaultSteps DEF BaseInv
    <3>2. IInv /\ NearInv /\ BackInv /\ BranchInv /\ BatchDue /\ CtxInv
      BY <2>1, <3>1 DEF BaseInv, PosInv, Followable
    <3>3. ParkedFundings /\ RestsOn(ctx, CtxBranch) /\ Told /\ (Ingesting /\ ReorgAhead => Dead(scan))
      BY <3>2 DEF CtxInv
    <3>4. ParkedFundings'
      BY <2>1, <3>1, <3>2, <3>3, ParkedFundingsStep
    <3>5. RestsOn(ctx, CtxBranch)'
      BY <2>1, <3>1, <3>2, <3>3, RestsOnStep
    <3>6. Told'
      BY <2>1, <2>3, <3>1, <3>2, <3>3, ToldStep
    <3>7. (Ingesting /\ ReorgAhead => Dead(scan))'
      BY <2>1, <2>3, <3>2, <3>3, LostStep
    <3>. QED BY <3>4, <3>5, <3>6, <3>7 DEF CtxInv
  <2>. QED BY <2>2, <2>3
<1>3. All => BaseInv /\ (NoFaults /\ ~deep => CtxInv)
  OBVIOUS
<1> HIDE DEF All
<1>. QED BY <1>1, <1>2, <1>3, PTL DEF Spec

\* Until the first crash or failed read, and until a reorg replaces more than one block, the
\* funding observation the machine rests on between ticks is on the canonical chain whenever
\* the scanner is: the reorg that removed another one has regressed the machine, however the
\* chain moved while it was told.
THEOREM ObservationStaysCanonical == Spec => [](NoFaults /\ ~deep => ObservationIsCanonical)
<1>1. IInv /\ CtxInv => ObservationIsCanonical
  <2>1. SUFFICES ASSUME IInv, CtxInv, pc = "idle", IsPrefix(scan, chain),
                        ctx.state \in {"Confirming", "Settling"},
                        ctx.last_observed_height # NoHeight
                 PROVE  chain[ctx.last_observed_height].tx = "funding"
    BY DEF ObservationIsCanonical
  <2>2. CtxBranch = scan
    BY <2>1 DEF CtxBranch, Ingesting
  <2>3. scan \in Chains /\ chain \in Chains /\ DOMAIN scan = 1 .. Len(scan)
    BY <2>1, AreChains, ChainIsSeq DEF IInv
  <2>4. ctx.last_observed_height \in DOMAIN scan /\ scan[ctx.last_observed_height].tx = "funding"
    BY <2>1, <2>2 DEF CtxInv, RestsOn
  <2>. QED BY <2>1, <2>3, <2>4, PrefixIff
<1>2. BaseInv /\ (NoFaults /\ ~deep => CtxInv) => (NoFaults /\ ~deep => ObservationIsCanonical)
  BY <1>1 DEF BaseInv
<1>. QED BY <1>2, ContextInvariant, PTL

-----------------------------------------------------------------------------
(* Terminal evidence *)

\* Evidence that no reorg of one block removes.
Deep(ev) == ev.height < Len(chain) /\ On(ev, chain)

FinalInv ==
    /\ \A row \in terminal : Deep(row.source.evidence)
    /\ \A e \in parked : e.kind = "RefundConfirmed" => Deep(e.evidence)
    /\ Deciding => IsPrefix(scan, chain) /\ tip = Len(chain)
    /\ Ingesting => IsPrefix(target, chain)

\* Deep evidence stays deep.
LEMMA DeepStays ==
    ASSUME IInv, [Next]_vars, ~deep', NEW ev, Deep(ev)
    PROVE  Deep(ev)'
<1>1. CASE Mine \/ Reorg \/ Reactivate
  <2>1. /\ chain' \in Chains /\ Len(chain') = Len(chain) + 1
        /\ \A i \in 1 .. Len(chain) - 1 : chain'[i] = chain[i]
    BY <1>1, ShallowMove
  <2>2. chain \in Chains /\ Len(chain) \in Nat /\ DOMAIN chain = 1 .. Len(chain)
    BY AreChains, Lengths, ChainIsSeq DEF IInv
  <2>3. ev.height \in 1 .. Len(chain) /\ ev.height < Len(chain) /\ On(ev, chain)
    BY <2>2 DEF Deep, On
  <2>4. PICK n \in Nat : n = Len(chain) - 1
    <3>1. \E h \in 1 .. Len(chain) : TRUE
      BY <2>3
    <3>2. Len(chain) \in Nat
      BY <2>2
    <3>3. Len(chain) - 1 \in Nat
      BY <3>1, <3>2
    <3>. QED BY <3>3
  <2>5. n <= Len(chain) /\ n <= Len(chain') /\ ev.height <= n /\ ev.height < Len(chain')
    BY <2>1, <2>2, <2>3, <2>4
  <2>6. \A i \in 1 .. n : chain[i] = chain'[i]
    BY <2>1, <2>2, <2>4
  <2>7. On(ev, chain')
    BY <2>1, <2>2, <2>3, <2>5, <2>6, OnBoth
  <2>. QED BY <2>5, <2>7 DEF Deep, On
<1>2. CASE ~(Mine \/ Reorg \/ Reactivate)
  <2>1. chain' = chain
    BY <1>2, OnlyMovesChangeTheChain
  <2>. QED BY <2>1 DEF Deep, On
<1>. QED BY <1>1, <1>2

\* The policy works with the tip it has read.
LEMMA DecidingStays ==
    ASSUME IInv, [Next]_vars, Deciding', ~ReadTip
    PROVE  Deciding /\ UNCHANGED <<scan, tip>>
<1>0. EngineType
  BY TypeIff DEF IInv
<1>1. CASE ArmRefund \/ DrainFirst \/ Scan \/ ReorgRecord \/ IngestReorg \/ IngestObservation
  BY Zenon, <1>1 DEF ArmRefund, DrainFirst, Scan, ReorgRecord, IngestReorg, IngestObservation, Ingest, Deciding, drainVars
<1>2. CASE Drain
  <2>1. pc = "drain" /\ UNCHANGED <<scan, tip>>
    BY Zenon, <1>2 DEF Drain, scanVars, policyVars
  <2>2. pc' = "policy" => after = "policy"
    BY Zenon, <1>0, <1>2 DEF Drain, EngineType
  <2>3. pc' = "drain" => after' = after
    <3>1. pc' = "drain" /\ after' # after => after = "drain"
      BY Zenon, <1>2 DEF Drain
    <3>. QED BY <1>0, <3>1 DEF EngineType
  <2>. QED BY <2>1, <2>2, <2>3 DEF Deciding
<1>3. CASE Policy
  BY <1>3 DEF Policy, Deciding, scanVars
<1>4. CASE HoldRefund \/ ClaimEffects \/ ReadFails \/ Crash
  BY <1>4 DEF HoldRefund, NextRecord, ClaimEffects, ReadFails, Crash, Deciding
<1>5. CASE Revalidate \/ Execute
  BY <1>5 DEF Revalidate, Execute, Finish, Deciding
<1>6. CASE Expire \/ Mine \/ Reorg \/ Reactivate \/ UNCHANGED vars
  BY <1>6 DEF Expire, Mine, Reorg, Reactivate, vars, engineVars, scanVars, drainVars, policyVars, Deciding
<1>. QED BY <1>1, <1>2, <1>3, <1>4, <1>5, <1>6 DEF Next, EngineStep

\* While the policy works, the scanner is on the chain whose tip it has read.
LEMMA SettledStep ==
    ASSUME IInv, NearInv, FinalInv, [Next]_vars, moves' = 0
    PROVE  /\ (Deciding => IsPrefix(scan, chain) /\ tip = Len(chain))'
           /\ (Ingesting => IsPrefix(target, chain))'
<1>0. /\ chain \in Chains /\ scan \in Chains /\ Len(chain) \in Nat /\ Len(scan) \in Nat
      /\ Len(scan) <= Len(chain) /\ DOMAIN scan = 1 .. Len(scan)
  BY AreChains, Lengths, ChainIsSeq DEF IInv, ControlInv
<1>1. ASSUME Ingesting' PROVE IsPrefix(target', chain')
  <2>1. CASE Scan
    <3>1. chain' = chain
      BY <2>1 DEF Scan, chainVars
    <3>2. CASE target' = chain
      BY <1>0, <3>1, <3>2, PrefixIff
    <3>3. CASE scan # <<>> /\ ~IsPrefix(scan, chain)
      <4>0. target' = Front(scan)
        BY <2>1, <3>3, StepsBack DEF NearInv
      <4>1. PICK y \in Chains : y = target' /\ Len(y) = Len(scan) - 1 /\ \A i \in 1 .. Len(scan) - 1 : y[i] = scan[i]
        BY Zenon, <1>0, <3>3, <4>0, FrontIs
      <4>2. \A i \in 1 .. Len(scan) - 1 : scan[i] = chain[i]
        BY <1>0 DEF NearInv, Near
      <4>3. Len(y) <= Len(chain)
        BY <1>0, <4>1
      <4>4. \A i \in 1 .. Len(y) : y[i] = chain[i]
        BY <4>1, <4>2
      <4>. QED BY Zenon, <1>0, <3>1, <4>1, <4>3, <4>4, PrefixIff
    <3>. QED BY <2>1, <3>2, <3>3, ScanIs
  <2>2. CASE ~Scan
    <3>1. Ingesting /\ target' = target
      BY <1>1, <2>2, IngestingStays
    <3>2. chain' = chain
      BY <3>1, ChainStands DEF Ingesting
    <3>. QED BY <3>1, <3>2 DEF FinalInv
  <2>. QED BY <2>1, <2>2
<1>2. ASSUME Deciding' PROVE IsPrefix(scan', chain') /\ tip' = Len(chain')
  <2>1. CASE ReadTip
    BY <2>1 DEF ReadTip, FinalInv, Ingesting, chainVars
  <2>2. CASE ~ReadTip
    <3>1. Deciding /\ UNCHANGED <<scan, tip>>
      BY <1>2, <2>2, DecidingStays
    <3>2. chain' = chain
      BY <3>1, ChainStands DEF Deciding
    <3>. QED BY <3>1, <3>2 DEF FinalInv
  <2>. QED BY <2>1, <2>2
<1>. QED BY <1>1, <1>2

\* The policy ends a settlement on deep evidence only.
LEMMA PolicyIsDeep ==
    ASSUME MinConfirmations >= 2, IInv, BranchInv, FinalInv, pc = "policy",
           NEW e \in PolicyEvents, e.kind \in {"ClaimConfirmed", "RefundConfirmed"}
    PROVE  Deep(e.evidence)
<1>0. /\ StoreTypeOK /\ chain \in Chains /\ scan \in Chains /\ Len(chain) \in Nat /\ Len(scan) \in Nat
      /\ Len(scan) <= Len(chain) /\ DOMAIN scan = 1 .. Len(scan) /\ MinConfirmations \in Nat
  BY TypeIff, AreChains, Lengths, ChainIsSeq, EngineAssumption DEF IInv, ControlInv
<1>1. RowBranch = scan /\ IsPrefix(scan, chain) /\ tip = Len(chain)
  BY DEF RowBranch, Ingesting, FinalInv, Deciding
<1>2. PICK ev : e.evidence = ev /\ On(ev, scan) /\ IsFinal(ev.height, tip)
  <2>1. CASE \E ev \in FinalFunding : e = Observed("FundingConfirmed", ev)
    BY <2>1 DEF Observed
  <2>2. CASE \E ev \in FinalClaims : e = Observed("ClaimConfirmed", ev)
    <3>1. PICK ev \in FinalClaims : e = Observed("ClaimConfirmed", ev)
      BY <2>2
    <3>2. PICK x \in DOMAIN evidence : evidence[x] = "Applied" /\ x.evidence = ev
      BY <3>1 DEF FinalClaims, Latest, Rows
    <3>3. On(ev, scan)
      BY <1>1, <3>2 DEF BranchInv, RowsInv
    <3>. QED BY <3>1, <3>3 DEF FinalClaims, Observed
  <2>3. CASE \E ev \in FinalRefunds : e = Observed("RefundConfirmed", ev)
    <3>1. PICK ev \in FinalRefunds : e = Observed("RefundConfirmed", ev)
      BY Zenon, <2>3
    <3>2. ev \in pending /\ IsFinal(ev.height, tip)
      BY Zenon, <3>1 DEF FinalRefunds
    <3>3. On(ev, scan)
      BY Zenon, <1>1, <3>2 DEF BranchInv, RowsInv
    <3>4. e.evidence = ev
      BY <3>1 DEF Observed
    <3>. QED BY Zenon, <3>2, <3>3, <3>4
  <2>. QED BY <2>1, <2>2, <2>3, PolicyDerives
<1>3. ev.height \in 1 .. Len(scan)
  BY <1>0, <1>2 DEF On
<1>4. ev.height < Len(chain)
  <2>1. Len(chain) - ev.height + 1 >= MinConfirmations
    BY <1>1, <1>2 DEF IsFinal
  <2>. QED BY <1>0, <1>3, <2>1
<1>5. \A i \in 1 .. Len(scan) : scan[i] = chain[i]
  BY <1>0, <1>1, PrefixIff
<1>6. ev.height <= Len(scan)
  BY <1>3
<1>7. On(ev, chain)
  <2>1. PICK n \in Nat : n = Len(scan)
    BY <1>0
  <2>2. n <= Len(scan) /\ n <= Len(chain)
    BY <1>0, <2>1
  <2>3. (\A i \in 1 .. n : scan[i] = chain[i]) /\ ev.height <= n
    BY <1>5, <1>6, <2>1
  <2>. QED BY Zenon, <1>0, <1>2, <2>2, <2>3, OnBoth
<1>. QED BY <1>2, <1>4, <1>7 DEF Deep

\* An event that ends the settlement confirms a claim or a refund.
LEMMA EndingKinds ==
    ASSUME NEW c \in Contexts, NEW e \in Events, Accepts(c, e), IsTerminal(NextContext(c, e))
    PROVE  e.kind \in {"ClaimConfirmed", "RefundConfirmed"}
<1>1. Arm(c, e) \in Contexts /\ c.state \in States \ TerminalStates
  BY ArmType DEF IsTerminal, Contexts
<1>2. NextContext(c, e).state = Arm(c, e).state
  BY <1>1 DEF NextContext, Contexts
<1>3. Arm(c, e).state \in TerminalStates
  BY <1>2 DEF IsTerminal
<1>4. e.kind \in {"FundingObserved", "RefundArmed", "FundingAbsent", "ClaimConfirmed", "RefundConfirmed",
                  "FundingConfirmed", "ClaimEvidenceVerified", "TimelockExpired", "ReorgInvalidated"}
  BY DEF Events, EvidenceEvents, EvidenceKinds
<1>5. CASE e.kind \in {"FundingObserved", "RefundArmed", "FundingAbsent", "FundingConfirmed"}
  BY <1>1, <1>3, <1>5 DEF Arm, OnRefundArmed, Contexts, TerminalStates
<1>6. CASE e.kind \in {"ClaimEvidenceVerified", "TimelockExpired"}
  <2>1. Arm(c, e).state = c.state
    BY <1>6 DEF Arm, Contexts
  <2>. QED BY <1>1, <1>3, <2>1
<1>7. CASE e.kind = "ReorgInvalidated"
  <2>1. Arm(c, e) = Regress(c, e)
    BY <1>7 DEF Arm
  <2>2. Regress(c, e).state \in {c.state, "Confirming", "ReadyToFund"}
    BY DEF Regress, Contexts
  <2>. QED BY <1>1, <1>3, <2>1, <2>2 DEF TerminalStates
<1>. QED BY <1>4, <1>5, <1>6, <1>7

\* Who ends a settlement, and who parks a refund.
LEMMA EndingSteps ==
    ASSUME MinConfirmations >= 2, IInv, BranchInv, FinalInv, [Next]_vars, ~ReadFails, ~Crash
    PROVE  /\ \A e \in parked' : e.kind = "RefundConfirmed" => Deep(e.evidence)
           /\ \A row \in terminal' : Deep(row.source.evidence)
<1>0. StoreTypeOK /\ StoreInv /\ EngineType /\ ControlInv /\ ctx \in Contexts
  BY TypeIff DEF IInv, StoreTypeOK
<1>1. ASSUME NEW e \in Events, Derived(e), NEW cur \in Anchors \cup {NoCursor},
             IngestWrite(ctx, Journalled(e), e, cur),
             e.kind \in {"ClaimConfirmed", "RefundConfirmed"} => Deep(e.evidence),
             NEW row \in terminal'
      PROVE  Deep(row.source.evidence)
  <2>1. CASE Accepts(ctx, e) /\ CommitTransition(ctx, e, cur)
    <3>1. row \in terminal \/ (IsTerminal(NextContext(ctx, e)) /\ row.source = e)
      BY <1>1, <2>1 DEF CommitTransition
    <3>. QED BY Zenon, <1>0, <1>1, <2>1, <3>1, EndingKinds DEF FinalInv
  <2>2. CASE ReaffirmEvidence(e) \/ RecordLateEvidence(e) \/ ParkEvidence(e) \/ UNCHANGED storeVars
    BY <1>1, <2>2 DEF ReaffirmEvidence, RecordLateEvidence, ParkEvidence, storeVars, FinalInv
  <2>. QED BY Zenon, <1>0, <1>1, <2>1, <2>2, IngestByOutcome
<1>2. CASE Policy
  <2>1. PICK e \in PolicyEvents : Ingest(e, NoCursor, "policy")
    BY <1>2 DEF Policy
  <2>2. e \in Events /\ Derived(e)
    BY PolicyDerives
  <2>3. e.kind \in {"ClaimConfirmed", "RefundConfirmed"} => Deep(e.evidence)
    BY <1>2, PolicyIsDeep DEF Policy
  <2>4. IngestWrite(ctx, Journalled(e), e, NoCursor) /\ \A x \in parked' : x \in parked \/ x = e
    BY <2>1 DEF Ingest
  <2>5. \A row \in terminal' : Deep(row.source.evidence)
    BY Zenon, <1>1, <2>2, <2>3, <2>4
  <2>. QED BY <2>3, <2>4, <2>5 DEF FinalInv
<1>3. CASE Drain
  <2>1. PICK e \in todo : IngestWrite(ctx, Journalled(e), e, NoCursor) /\ parked' \subseteq parked
    BY Zenon, <1>3 DEF Drain
  <2>2. e.kind \in ParkedKinds /\ e \in Events /\ e \in parked
    BY Zenon, <1>0 DEF EngineType, ControlInv, StoreTypeOK, Events
  <2>3. Derived(e) /\ (e.kind \in {"ClaimConfirmed", "RefundConfirmed"} => Deep(e.evidence))
    BY Zenon, <2>2 DEF Derived, ParkedKinds, FinalInv
  <2>4. \A row \in terminal' : Deep(row.source.evidence)
    BY <1>1, <2>1, <2>2, <2>3
  <2>. QED BY Zenon, <2>1, <2>4 DEF FinalInv
<1>4. CASE IngestObservation
  <2>1. PICK r \in records, safe \in SafeCursors :
            /\ r.kind \in {"funding", "claim"}
            /\ Ingest(Observed(EventKind(r), r.evidence),
                      IF IsLastObservation(r) THEN safe ELSE NoCursor, "records")
    BY <1>4 DEF IngestObservation
  <2> DEFINE e == Observed(EventKind(r), r.evidence)
             cur == IF IsLastObservation(r) THEN safe ELSE NoCursor
  <2>2. EventKind(r) \in EvidenceKinds /\ EventKind(r) \in ParkedKinds /\ r.evidence \in Evidence
        /\ EventKind(r) \notin {"ClaimConfirmed", "RefundConfirmed"}
    BY <1>0 DEF EngineType, EventKind, EvidenceKinds, ParkedKinds
  <2>3. e \in Events /\ Derived(e) /\ cur \in Anchors \cup {NoCursor} /\ e.kind = EventKind(r)
    BY Zenon, <2>2, ObservedType, SafeCursorType DEF Derived
  <2>4. IngestWrite(ctx, Journalled(e), e, cur) /\ \A x \in parked' : x \in parked \/ x = e
    BY <2>1 DEF Ingest
  <2> HIDE DEF e, cur
  <2>5. \A row \in terminal' : Deep(row.source.evidence)
    BY <1>1, <2>2, <2>3, <2>4
  <2>. QED BY Zenon, <2>2, <2>3, <2>4, <2>5 DEF FinalInv
<1>5. CASE IngestReorg
  <2> DEFINE e == [kind |-> "ReorgInvalidated", from_height |-> Len(scan), old_anchor |-> scan]
  <2>1. e \in Events /\ IngestWrite(ctx, Journalled(e), e, NoCursor)
    BY <1>5, ReorgIsOfTheScanner
  <2>2. e.kind = "ReorgInvalidated"
    OBVIOUS
  <2>a. PICK r \in records :
            Ingest([kind |-> "ReorgInvalidated", from_height |-> r.evidence.height,
                     old_anchor |-> r.evidence.anchor], NoCursor, "records")
    BY Zenon, <1>5 DEF IngestReorg
  <2> DEFINE told == [kind |-> "ReorgInvalidated", from_height |-> r.evidence.height,
                      old_anchor |-> r.evidence.anchor]
  <2>b. Ingest(told, NoCursor, "records") /\ told.kind = "ReorgInvalidated"
    BY <2>a
  <2> HIDE DEF e, told
  <2>3. \A row \in terminal' : Deep(row.source.evidence)
    BY <1>1, <2>1, <2>2 DEF Derived
  <2>4. \A x \in parked' : x \in parked \/ x.kind = "ReorgInvalidated"
    BY <2>b DEF Ingest
  <2>. QED BY <2>3, <2>4 DEF FinalInv
<1>6. CASE ArmRefund
  <2> DEFINE e == [kind |-> "RefundArmed"]
  <2>1. e \in Events /\ e.kind = "RefundArmed"
    BY DEF Events
  <2>2. Accepts(ctx, e) /\ IngestWrite(ctx, Journalled(e), e, NoCursor)
    BY <1>6, <2>1 DEF ArmRefund, Ingest, Accepts, Verdict, LegalKinds, IsTerminal, TerminalStates
  <2>3. \A x \in parked' : x \in parked \/ x = e
    BY <1>6 DEF ArmRefund, Ingest
  <2> HIDE DEF e
  <2>4. \A row \in terminal' : Deep(row.source.evidence)
    BY <1>1, <2>1, <2>2 DEF Derived
  <2>. QED BY <2>1, <2>3, <2>4 DEF FinalInv
<1>7. CASE parked' \subseteq parked /\ terminal' = terminal
  BY <1>7 DEF FinalInv
<1>8. CASE ReorgRecord \/ DrainFirst \/ Scan \/ HoldRefund \/ ReadTip \/ ClaimEffects
  BY Zenon, <1>7, <1>8 DEF ReorgRecord, InvalidateEvidenceFrom, DrainFirst, Scan, HoldRefund, ReadTip, ClaimEffects,
                    ClaimReady, storeVars
<1>9. CASE Revalidate \/ Execute
  BY Zenon, <1>7, <1>9 DEF Revalidate, Execute, CompleteEffect, storeVars
<1>10. CASE Expire \/ Mine \/ Reorg \/ Reactivate \/ UNCHANGED vars
  BY Zenon, <1>7, <1>10 DEF Expire, LeaseExpires, Mine, Reorg, Reactivate, vars, engineVars, storeVars
<1>. QED BY <1>2, <1>3, <1>4, <1>5, <1>6, <1>8, <1>9, <1>10 DEF Next, EngineStep

\* What is deep is on the chain, so what ended the settlement stays there.
LEMMA FinalInvariant ==
    ASSUME MinConfirmations >= 2
    PROVE  Spec => [](BaseInv /\ (Undisturbed /\ ~deep => FinalInv))
<1> DEFINE All == BaseInv /\ (Undisturbed /\ ~deep => FinalInv)
<1>1. Init => All
  <2>1. SUFFICES ASSUME Init PROVE All
    OBVIOUS
  <2>2. parked = {} /\ terminal = {} /\ ~Ingesting /\ ~Deciding
    BY <2>1 DEF Init, StoreInit, Ingesting, Deciding
  <2>3. FinalInv
    BY <2>2 DEF FinalInv
  <2>. QED BY <2>1, <2>3, BaseInit
<1>2. All /\ [Next]_vars => All'
  <2>1. SUFFICES ASSUME All, [Next]_vars PROVE All'
    OBVIOUS
  <2>2. BaseInv'
    BY <2>1, BaseStep
  <2>3. ASSUME Undisturbed', ~deep' PROVE FinalInv'
    <3>0. NoFaults' /\ moves' = 0
      BY <2>3 DEF Undisturbed, NoFaults
    <3>1. ~deep /\ NoFaults /\ ~ReadFails /\ ~Crash /\ moves = 0
      BY <2>1, <2>3, <3>0, DeepRemains, NoFaultSteps, ChainStands DEF BaseInv
    <3>2. IInv /\ NearInv /\ BranchInv /\ FinalInv
      BY <2>1, <3>1 DEF BaseInv, PosInv, Followable, Undisturbed, NoFaults
    <3>3. /\ \A e \in parked' : e.kind = "RefundConfirmed" => Deep(e.evidence)
          /\ \A row \in terminal' : Deep(row.source.evidence)
      BY <2>1, <3>1, <3>2, EndingSteps
    <3>4. \A ev : Deep(ev) => Deep(ev)'
      BY <2>1, <2>3, <3>2, DeepStays
    <3>5. (\A e \in parked : e.kind = "RefundConfirmed" => Deep(e.evidence))'
      BY <3>3, <3>4
    <3>6. (\A row \in terminal : Deep(row.source.evidence))'
      BY <3>3, <3>4
    <3>7. /\ (Deciding => IsPrefix(scan, chain) /\ tip = Len(chain))'
          /\ (Ingesting => IsPrefix(target, chain))'
      BY <2>1, <3>0, <3>2, SettledStep
    <3>. QED BY <3>5, <3>6, <3>7 DEF FinalInv
  <2>. QED BY <2>2, <2>3
<1>3. All => BaseInv /\ (Undisturbed /\ ~deep => FinalInv)
  OBVIOUS
<1> HIDE DEF All
<1>. QED BY <1>1, <1>2, <1>3, PTL DEF Spec

\* With at least two confirmations the block that settled or refunded stays on the canonical
\* chain until one of these happens: a crash, a failed read, a move of the chain while a tick
\* runs, or a reorg of more than one block, whatever the number of confirmations.
THEOREM TerminalIsFinal ==
    ASSUME MinConfirmations >= 2
    PROVE  Spec => []TerminalStaysWithoutFaults
<1>1. IInv /\ FinalInv => TerminalStaysOnChain
  <2>1. SUFFICES ASSUME IInv, FinalInv, NEW row \in terminal
                 PROVE  IsPrefix(row.source.evidence.anchor, chain)
    BY DEF TerminalStaysOnChain
  <2>2. chain \in Chains /\ Len(chain) \in Nat /\ DOMAIN chain = 1 .. Len(chain)
    BY <2>1, AreChains, Lengths, ChainIsSeq DEF IInv
  <2>3. PICK h \in 1 .. Len(chain) : row.source.evidence = EvidenceAt(chain, h)
    BY <2>1, <2>2 DEF FinalInv, Deep, On
  <2>4. h \in Nat /\ h <= Len(chain)
    BY SMT, SMTT(30), <2>2
  <2> DEFINE x == SubSeq(chain, 1, h)
  <2>5. row.source.evidence.anchor = x
    BY <2>3 DEF EvidenceAt
  <2>6. x \in Chains /\ Len(x) = h /\ \A i \in 1 .. h : x[i] = chain[i]
    BY <2>2, <2>4, FirstBlocks
  <2> HIDE DEF x
  <2>7. IsPrefix(x, chain)
    BY <2>2, <2>4, <2>6, PrefixIff
  <2>. QED BY <2>5, <2>7
<1>2. BaseInv /\ (Undisturbed /\ ~deep => FinalInv) => TerminalStaysWithoutFaults
  BY <1>1 DEF BaseInv, TerminalStaysWithoutFaults
<1>. QED BY <1>2, FinalInvariant, PTL
=============================================================================
