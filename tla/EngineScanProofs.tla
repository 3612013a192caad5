-------------------------- MODULE EngineScanProofs --------------------------
(***************************************************************************)
(* What the scanner, the cursor and the rows of SettlementEngine owe to    *)
(* the chain: until a reorg replaces more than one block, or for the       *)
(* reorgs that the hashes a cursor remembers reach below.                  *)
(***************************************************************************)
EXTENDS EngineProofs

-----------------------------------------------------------------------------
(* What the scanner has passed *)

\* All of x but its last block is canonical, and the last one too unless a longer
\* chain has replaced it.
Near(x) ==
    /\ Len(x) <= Len(chain)
    /\ \A i \in DOMAIN x : i < Len(x) \/ Len(x) = Len(chain) => x[i] = chain[i]

NearInv == Near(scan) /\ Near(target) /\ (cursor # NoCursor => Near(cursor))

Visible(x, h) == x[h].tx \in {"funding", "claim"}

ObservationAt(x, h) == Observed(EventKind(RecordAt(x, h)), EvidenceAt(x, h))

\* Every observation on x is among the rows or still among the records.
Accounted(x, rows, recs) ==
    \A h \in DOMAIN x :
        Visible(x, h) => ObservationAt(x, h) \in rows \/ RecordAt(x, h) \in recs

CoverInv ==
    /\ cursor # NoCursor => Accounted(cursor, DOMAIN evidence, {})
    /\ terminal = {} => Accounted(scan, DOMAIN evidence, {})
    /\ terminal = {} /\ Ingesting => Accounted(target, DOMAIN evidence, records)

-----------------------------------------------------------------------------
(* No step takes a row away *)

\* No row and no terminal ever goes away, and only an observation moves the cursor.
LEMMA RowsStay ==
    ASSUME IInv, [Next]_vars
    PROVE  /\ DOMAIN evidence \subseteq DOMAIN evidence'
           /\ terminal' = {} => terminal = {}
           /\ terminal # {} => terminal' = terminal
           /\ cursor' = cursor \/ IngestObservation
<1>0. StoreTypeOK /\ StoreInv
  BY TypeIff DEF IInv
<1>1. CASE Quiet
  BY <1>1 DEF Quiet
<1>2. ASSUME NEW e \in Events, NEW cur \in Anchors \cup {NoCursor}, Derived(e),
             IngestWrite(ctx, Journalled(e), e, cur), cur = NoCursor \/ IngestObservation
      PROVE  /\ DOMAIN evidence \subseteq DOMAIN evidence'
             /\ terminal # {} => terminal' = terminal
             /\ cursor' = cursor \/ IngestObservation
  <2>1. /\ DOMAIN evidence \subseteq DOMAIN evidence'
        /\ cursor' \in {cursor, cur} /\ (cursor' = NoCursor => cursor = NoCursor)
        /\ terminal # {} => cursor' = cursor /\ terminal' = terminal
    BY <1>0, <1>2, IngestStep
  <2>. QED BY <1>2, <2>1
<1>. QED BY <1>1, <1>2, EngineWrites

-----------------------------------------------------------------------------
(* What the steps leave alone *)

\* The batch that is being ingested is the one the scan returned.
LEMMA IngestingStays ==
    ASSUME IInv, [Next]_vars, Ingesting', ~Scan
    PROVE  Ingesting /\ UNCHANGED <<scan, target>> /\ records' \subseteq records
<1>0. EngineType
  BY TypeIff DEF IInv
<1>1. CASE ArmRefund \/ DrainFirst \/ Policy
  BY <1>1 DEF ArmRefund, DrainFirst, Policy, Ingest, Ingesting, drainVars
<1>2. CASE Drain
  <2>1. pc = "drain" /\ UNCHANGED <<scan, target, records>>
    BY Zenon, <1>2 DEF Drain, scanVars
  <2>2. (pc' = "records" => after = "records") /\ pc' # "reorg"
    BY Zenon, <1>0, <1>2 DEF Drain, EngineType
  <2>3. pc' = "drain" => after' = after
    <3>1. pc' = "drain" /\ after' # after => after = "drain"
      BY Zenon, <1>2 DEF Drain
    <3>. QED BY <1>0, <3>1 DEF EngineType
  <2>. QED BY <2>1, <2>2, <2>3 DEF Ingesting
<1>3. CASE ReorgRecord \/ IngestReorg \/ IngestObservation \/ HoldRefund
  BY Zenon, <1>3 DEF ReorgRecord, IngestReorg, IngestObservation, HoldRefund, NextRecord, Ingesting, scanVars
<1>4. CASE ReadTip \/ ClaimEffects \/ ReadFails \/ Crash
  BY <1>4 DEF ReadTip, ClaimEffects, ReadFails, Crash, Ingesting
<1>5. CASE Revalidate \/ Execute \/ Expire
  BY <1>5 DEF Revalidate, Execute, Finish, Expire, engineVars, Ingesting
<1>6. CASE Mine \/ Reorg \/ Reactivate \/ UNCHANGED vars
  BY Zenon, <1>6 DEF Mine, Reorg, Reactivate, vars, engineVars, scanVars, drainVars, Ingesting
<1>. QED BY <1>1, <1>2, <1>3, <1>4, <1>5, <1>6 DEF Next, EngineStep

LEMMA OnlyMovesChangeTheChain ==
    ASSUME [Next]_vars, ~Mine, ~Reorg, ~Reactivate
    PROVE  chain' = chain
<1>1. CASE ArmRefund \/ DrainFirst \/ Drain \/ Scan \/ ReorgRecord \/ IngestReorg \/ IngestObservation
  BY Zenon, <1>1 DEF ArmRefund, DrainFirst, Drain, Scan, ReorgRecord, IngestReorg, IngestObservation, chainVars
<1>2. CASE HoldRefund \/ ReadTip \/ Policy \/ ClaimEffects \/ Revalidate \/ Execute \/ Expire
  BY Zenon, <1>2 DEF HoldRefund, ReadTip, Policy, ClaimEffects, Revalidate, Execute, Expire, chainVars
<1>3. CASE ReadFails \/ Crash \/ UNCHANGED vars
  BY <1>3 DEF ReadFails, Crash, vars, chainVars
<1>. QED BY <1>1, <1>2, <1>3 DEF Next, EngineStep

\* Only a failed read, a crash and a move of the chain are counted.
LEMMA FaultFrame ==
    ASSUME [Next]_vars, ~ReadFails, ~Crash, ~Mine, ~Reorg, ~Reactivate
    PROVE  UNCHANGED faultVars
<1>1. CASE ArmRefund \/ DrainFirst \/ Drain \/ Scan \/ ReorgRecord \/ IngestReorg \/ IngestObservation
  BY Zenon, <1>1 DEF ArmRefund, DrainFirst, Drain, Scan, ReorgRecord, IngestReorg, IngestObservation
<1>2. CASE HoldRefund \/ ReadTip \/ Policy \/ ClaimEffects \/ Revalidate \/ Execute \/ Expire
  BY Zenon, <1>2 DEF HoldRefund, ReadTip, Policy, ClaimEffects, Revalidate, Execute, Expire
<1>3. CASE UNCHANGED vars
  BY <1>3 DEF vars
<1>. QED BY <1>1, <1>2, <1>3 DEF Next, EngineStep

\* A deep reorg is remembered for good.
LEMMA DeepRemains ==
    ASSUME [Next]_vars, ~deep'
    PROVE  ~deep
<1>1. CASE Mine \/ Reorg \/ Reactivate
  <2>1. deep' = (deep \/ ~IsPrefix(Front(chain), chain'))
    BY Zenon, <1>1 DEF Mine, Reorg, Reactivate, Moved
  <2>. QED BY Zenon, <2>1
<1>2. CASE ~(Mine \/ Reorg \/ Reactivate)
  <2>1. deep' = deep
    BY Zenon, <1>2, FaultFrame DEF faultVars, ReadFails, Crash
  <2>. QED BY Zenon, <2>1
<1>. QED BY <1>1, <1>2

\* A move that is not deep keeps all of the chain but the last block.
LEMMA ShallowMove ==
    ASSUME IInv, Mine \/ Reorg \/ Reactivate, ~deep'
    PROVE  /\ chain' \in Chains /\ Len(chain') = Len(chain) + 1
           /\ \A i \in 1 .. Len(chain) - 1 : chain'[i] = chain[i]
<1>0. chain \in Chains /\ Len(chain) \in Nat
  BY AreChains, Lengths DEF IInv
<1>1. /\ chain' \in Chains /\ Len(chain') = Len(chain) + 1
      /\ deep' = (deep \/ ~IsPrefix(Front(chain), chain'))
  BY ChainGrows DEF IInv, ControlInv
<1>2. IsPrefix(Front(chain), chain')
  BY Zenon, <1>1
<1>3. CASE chain = <<>>
  BY <1>0, <1>1, <1>3
<1>4. CASE chain # <<>>
  <2>1. PICK y \in Chains : y = Front(chain) /\ Len(y) = Len(chain) - 1
                            /\ \A i \in 1 .. Len(chain) - 1 : y[i] = chain[i]
    BY Zenon, <1>0, <1>4, FrontIs
  <2>2. \A i \in 1 .. Len(y) : y[i] = chain'[i]
    BY Zenon, <1>1, <1>2, <2>1, PrefixIff
  <2>. QED BY <1>1, <2>1, <2>2
<1>. QED BY <1>3, <1>4

-----------------------------------------------------------------------------
(* Reorgs of one block *)

LEMMA NearStays ==
    ASSUME IInv, Mine \/ Reorg \/ Reactivate, ~deep', NEW x \in Chains, Near(x)
    PROVE  Near(x)'
<1>1. Len(chain') = Len(chain) + 1 /\ \A i \in 1 .. Len(chain) - 1 : chain'[i] = chain[i]
  BY ShallowMove
<1>2. Len(chain) \in Nat /\ Len(x) \in Nat /\ DOMAIN x = 1 .. Len(x)
  BY Lengths, ChainIsSeq, MaxHeightAssumption DEF IInv, Heights
<1>3. Len(x) <= Len(chain) /\ \A i \in 1 .. Len(x) : i < Len(x) => x[i] = chain[i]
  BY <1>2 DEF Near
<1>4. Len(x) <= Len(chain') /\ Len(x) # Len(chain')
  <2>1. Len(chain) \in Nat /\ Len(x) \in Nat /\ Len(x) <= Len(chain)
    BY <1>2, <1>3
  <2>2. Len(chain') = Len(chain) + 1
    BY <1>1
  <2>. QED BY <2>1, <2>2
<1>5. ASSUME NEW i \in 1 .. Len(x), i < Len(x) PROVE x[i] = chain'[i]
  <2>1. i \in 1 .. Len(chain) - 1
    BY <1>2, <1>3, <1>5
  <2>. QED BY <1>1, <1>3, <1>5, <2>1
<1>. QED BY <1>2, <1>4, <1>5 DEF Near

\* A prefix of the chain is near it.
LEMMA PrefixIsNear ==
    ASSUME NEW x \in Chains, chain \in Chains, Len(x) <= Len(chain),
           \A i \in 1 .. Len(x) : x[i] = chain[i]
    PROVE  Near(x)
BY ChainIsSeq DEF Near

\* What the engine's positions can become while the chain stands still.
LEMMA Positions ==
    ASSUME IInv, [Next]_vars, ~(Mine \/ Reorg \/ Reactivate)
    PROVE  /\ chain' = chain
           /\ \/ scan' \in {scan, target, <<>>}
              \/ cursor # NoCursor /\ scan' = cursor
              \/ \E n \in Nat : n < Len(scan) /\ scan' = SubSeq(chain, 1, n)
           /\ \/ target' \in {target, chain, <<>>}
              \/ scan # <<>> /\ target' \in {Front(scan), SubSeq(chain, 1, Len(scan) - 1)}
           /\ cursor' \in {cursor} \cup SafeCursors
<1>1. CASE Scan
  <2>1. UNCHANGED <<chain, scan, cursor>>
    BY <1>1 DEF Scan, chainVars, storeVars
  <2>2. \/ target' = chain
        \/ scan # <<>> /\ target' \in {Front(scan), SubSeq(chain, 1, Len(scan) - 1)}
    BY <1>1, ScanIs
  <2>. QED BY <2>1, <2>2
<1>2. CASE IngestObservation
  <2>1. PICK r \in records, safe \in SafeCursors : Ingest(Observed(EventKind(r), r.evidence),
                      IF IsLastObservation(r) THEN safe ELSE NoCursor, "records")
    BY <1>2 DEF IngestObservation
  <2>2. UNCHANGED <<chain, scan, target>>
    BY <1>2 DEF IngestObservation, chainVars
  <2>3. cursor' \in {cursor} \cup SafeCursors
    BY Zenon, <2>1 DEF Ingest, IngestWrite, CommitTransition, ReaffirmEvidence, RecordLateEvidence,
                ParkEvidence, storeVars
  <2>. QED BY <2>2, <2>3
<1>3. CASE Revalidate
  <2>1. PICK f \in batch :
            /\ f.kind = "RevalidateFrom"
            /\ scan' = IF Floor(f) < Len(scan) THEN SubSeq(chain, 1, Floor(f)) ELSE scan
    BY <1>3 DEF Revalidate
  <2>2. Floor(f) \in Nat
    BY <2>1, FloorType
  <2>3. UNCHANGED <<chain, target, cursor>>
    BY <1>3 DEF Revalidate, chainVars, CompleteEffect
  <2>. QED BY <2>1, <2>2, <2>3
<1>4. CASE ReadTip \/ ReadFails \/ Crash
  BY <1>4 DEF ReadTip, ReadFails, Crash, chainVars, storeVars
<1>5. CASE HoldRefund \/ ReorgRecord \/ IngestReorg
  BY <1>5, RowsStay DEF HoldRefund, ReorgRecord, IngestReorg, IngestObservation, chainVars, scanVars, NextRecord
<1>6. CASE ArmRefund \/ DrainFirst \/ Drain \/ Policy
  BY <1>6, RowsStay DEF ArmRefund, DrainFirst, Drain, Policy, IngestObservation, chainVars, scanVars, NextRecord
<1>7. CASE ClaimEffects \/ Execute \/ Expire \/ UNCHANGED vars
  <2>1. UNCHANGED <<chain, scan, target>>
    BY <1>7 DEF ClaimEffects, Execute, Expire, vars, chainVars, scanVars, engineVars
  <2>2. UNCHANGED cursor
    BY <1>7 DEF ClaimEffects, ClaimReady, Execute, CompleteEffect, Expire, LeaseExpires, vars, storeVars
  <2>. QED BY <2>1, <2>2
<1>. QED BY <1>1, <1>2, <1>3, <1>4, <1>5, <1>6, <1>7 DEF Next, EngineStep

\* Every position the engine holds is on the chain, but for its last block.
LEMMA NearStep ==
    ASSUME IInv, NearInv, [Next]_vars, ~deep'
    PROVE  NearInv'
<1>0. /\ chain \in Chains /\ scan \in Chains /\ target \in Chains
      /\ (cursor # NoCursor => cursor \in Chains)
      /\ Len(chain) \in Nat /\ Len(scan) \in Nat /\ Len(target) \in Nat
      /\ Len(scan) <= Len(chain) /\ Len(target) <= Len(chain)
  BY AreChains, Lengths DEF IInv, ControlInv
<1>1. CASE Mine \/ Reorg \/ Reactivate
  <2>1. UNCHANGED <<scan, target, cursor>>
    BY <1>1 DEF Mine, Reorg, Reactivate, engineVars, scanVars, storeVars
  <2>3. \A x \in Chains : Near(x) => Near(x)'
    BY <1>1, NearStays
  <2>. QED BY <1>0, <2>1, <2>3 DEF NearInv, Near
<1>2. CASE ~(Mine \/ Reorg \/ Reactivate)
  <2>1. /\ chain' = chain
        /\ \/ scan' \in {scan, target, <<>>}
           \/ cursor # NoCursor /\ scan' = cursor
           \/ \E n \in Nat : n < Len(scan) /\ scan' = SubSeq(chain, 1, n)
        /\ \/ target' \in {target, chain, <<>>}
           \/ scan # <<>> /\ target' \in {Front(scan), SubSeq(chain, 1, Len(scan) - 1)}
        /\ cursor' \in {cursor} \cup SafeCursors
    BY <1>2, Positions
  <2>2. Near(<<>>) /\ Near(chain)
    <3>1. <<>> \in Chains /\ Len(<<>>) = 0
      BY <1>0, EmptyIsPrefix
    <3>. QED BY <1>0, <3>1, PrefixIsNear
  <2>3. ASSUME NEW n \in Nat, n < Len(scan) PROVE Near(SubSeq(chain, 1, n))
    <3> DEFINE s == SubSeq(chain, 1, n)
    <3>1. s \in Chains /\ Len(s) = n /\ \A i \in 1 .. n : s[i] = chain[i]
      BY <1>0, <2>3, FirstBlocks
    <3> HIDE DEF s
    <3>2. Near(s)
      BY <1>0, <2>3, <3>1, PrefixIsNear
    <3>. QED BY <3>2 DEF s
  <2>4. ASSUME scan # <<>> PROVE Near(Front(scan))
    <3>1. /\ Front(scan) \in Chains /\ Len(Front(scan)) = Len(scan) - 1
          /\ \A i \in 1 .. Len(scan) - 1 : Front(scan)[i] = scan[i]
      BY <1>0, <2>4, FrontIs
    <3>2. \A i \in 1 .. Len(scan) - 1 : scan[i] = chain[i]
      BY <1>0, ChainIsSeq DEF NearInv, Near
    <3>. QED BY <1>0, <3>1, <3>2, PrefixIsNear
  <2>5. ASSUME NEW safe \in SafeCursors PROVE Near(safe)
    <3>1. CASE safe = target
      BY <3>1 DEF NearInv
    <3>2. CASE safe # target
      BY <1>0, <3>2, SafeCursorType, PrefixIsNear
    <3>. QED BY <3>1, <3>2
  <2>6. Near(scan')
    BY Zenon, <2>1, <2>2, <2>3 DEF NearInv
  <2>7. Near(target')
    <3>1. CASE scan # <<>> /\ target' = SubSeq(chain, 1, Len(scan) - 1)
      <4>1. Len(scan) - 1 \in Nat /\ Len(scan) - 1 < Len(scan)
        BY <1>0, <3>1, ChainIsSeq
      <4>. QED BY <2>3, <3>1, <4>1
    <3>. QED BY Zenon, <2>1, <2>2, <2>4, <3>1 DEF NearInv
  <2>8. cursor' # NoCursor => Near(cursor')
    BY <2>1, <2>5 DEF NearInv
  <2>. QED BY <2>1, <2>6, <2>7, <2>8 DEF NearInv, Near
<1>. QED BY <1>1, <1>2

-----------------------------------------------------------------------------
(* What a cursor remembers *)

\* Below the hashes that a cursor remembers, from low on, it is on the chain, and so
\* far down that a reorg within HistoryLimit does not reach there.
LowOK(x, low) ==
    /\ low <= Len(x)
    /\ low > 0 => low + HistoryLimit <= Len(chain) + 1
    /\ \A i \in 1 .. low - 1 : x[i] = chain[i]

HistInv ==
    /\ LowOK(scan, scanLow)
    /\ cursor # NoCursor => LowOK(cursor, cursorLow)
    /\ cursor = NoCursor => cursorLow = 0
    /\ Ingesting => LowOK(target, TargetLow)

\* The history that cursor_at starts on the canonical chain.
LEMMA FreshLow ==
    ASSUME chain \in Chains, NEW x \in Chains, Len(x) <= Len(chain),
           \A i \in 1 .. Len(x) : x[i] = chain[i]
    PROVE  LowOK(x, Oldest(Len(x)))
<1>1. Len(x) \in Nat /\ Len(chain) \in Nat /\ HistoryLimit \in Nat \ {0}
  BY ChainIsSeq, MaxHeightAssumption, EngineAssumption DEF Heights
<1>2. PICK n \in Nat, m \in Nat, k \in Nat \ {0} : n = Len(x) /\ m = Len(chain) /\ k = HistoryLimit
  BY Zenon, <1>1
<1>3. PICK low \in Nat : low = Oldest(n) /\ low <= n
  BY OldestType
<1>4. low > 0 => low + k <= m + 1
  BY <1>2, <1>3 DEF Oldest
<1>5. \A i \in 1 .. low - 1 : i \in 1 .. n
  BY <1>3
<1>. QED BY Zenon, <1>2, <1>3, <1>4, <1>5 DEF LowOK

\* A reorg no deeper than the history does not reach below it.
LEMMA LowStays ==
    ASSUME HistoryLimit >= MaxReorgDepth, IInv, Mine \/ Reorg \/ Reactivate,
           NEW x, NEW low \in Nat, LowOK(x, low)
    PROVE  /\ low <= Len(x)
           /\ low > 0 => low + HistoryLimit <= Len(chain') + 1
           /\ \A i \in 1 .. low - 1 : x[i] = chain'[i]
<1>1. /\ Len(chain') = Len(chain) + 1
      /\ \A i \in 1 .. Len(chain) - MaxReorgDepth : chain'[i] = chain[i]
  BY ChainGrows DEF IInv, ControlInv
<1>2. PICK n \in Nat, d \in Nat, k \in Nat : n = Len(chain) /\ d = MaxReorgDepth /\ k = HistoryLimit
  BY Lengths, EngineAssumption DEF IInv
<1>3. low > 0 => low + k <= n + 1
  BY <1>2 DEF LowOK
<1>4. \A i \in 1 .. low - 1 : i \in 1 .. n - d
  BY <1>2, <1>3
<1>5. low > 0 => low + k <= n + 1 + 1
  BY <1>3
<1>6. \A i \in 1 .. low - 1 : x[i] = chain[i]
  BY DEF LowOK
<1>. QED BY <1>1, <1>2, <1>4, <1>5, <1>6 DEF LowOK

\* A cursor with one hash left is on the chain below it: the block it takes for its own
\* there is its own.
LEMMA StepsBack ==
    ASSUME IInv, Scan, ~IsPrefix(scan, chain), Near(scan) \/ LowOK(scan, scanLow)
    PROVE  target' = Front(scan)
<1>0. /\ chain \in Chains /\ scan \in Chains /\ Len(scan) \in Nat /\ Len(chain) \in Nat
      /\ Len(scan) <= Len(chain) /\ DOMAIN scan = 1 .. Len(scan)
  BY AreChains, Lengths, ChainIsSeq DEF IInv, ControlInv
<1>1. scan # <<>> /\ target' = IF Exhausted THEN SubSeq(chain, 1, Len(scan) - 1) ELSE Front(scan)
  BY ScanIs
<1>2. CASE Exhausted
  <2>1. \A i \in 1 .. Len(scan) - 1 : scan[i] = chain[i]
    <3>1. CASE Near(scan)
      BY <1>0, <3>1 DEF Near
    <3>2. CASE LowOK(scan, scanLow)
      BY <1>2, <3>2 DEF LowOK, Exhausted
    <3>. QED BY <3>1, <3>2
  <2>2. PICK n \in Nat : n = Len(scan) - 1
    <3>1. Len(scan) \in Nat \ {0}
      BY Zenon, <1>0, <1>1, FrontIs
    <3>2. Len(scan) - 1 \in Nat
      BY <3>1
    <3>. QED BY Zenon, <3>2
  <2>3. n <= Len(scan) /\ n <= Len(chain) /\ \A i \in 1 .. n : scan[i] = chain[i]
    BY <1>0, <2>1, <2>2
  <2>4. SubSeq(scan, 1, n) = SubSeq(chain, 1, n)
    BY <1>0, <2>3, SameHash
  <2>. QED BY <1>1, <1>2, <2>2, <2>4 DEF Front
<1>3. CASE ~Exhausted
  BY <1>1, <1>3
<1>. QED BY <1>2, <1>3

\* scanned_to remembers as much as its scan gives it.
LEMMA HistScan ==
    ASSUME IInv, HistInv, Scan
    PROVE  HistInv'
<1>0. /\ chain \in Chains /\ scan \in Chains /\ Len(scan) \in Nat /\ Len(chain) \in Nat
      /\ Len(scan) <= Len(chain) /\ scanLow \in Nat /\ HistoryLimit \in Nat
  BY AreChains, Lengths, EngineAssumption, MaxHeightAssumption DEF IInv, ControlInv, TypeOK, Heights
<1>1. UNCHANGED <<scan, scanLow, cursorLow, cursor, chain>>
  BY DEF Scan, storeVars, chainVars
<1>2. TargetLow' = IF Len(target') >= Len(scan)
                   THEN IF scanLow >= Oldest(Len(target')) THEN scanLow ELSE Oldest(Len(target'))
                   ELSE IF Exhausted THEN Oldest(Len(target')) ELSE scanLow
  BY <1>1 DEF TargetLow, Exhausted
<1>3. LowOK(scan, scanLow)
  BY DEF HistInv
<1>4. LowOK(target', TargetLow')
  <2>1. CASE IsPrefix(scan, chain) /\ target' = chain
    <3>1. LowOK(chain, Oldest(Len(chain)))
      BY <1>0, FreshLow
    <3>2. LowOK(chain, scanLow)
      <4>1. scanLow <= Len(chain)
        BY <1>0, <1>3 DEF LowOK
      <4>. QED BY <1>3, <4>1 DEF LowOK
    <3>3. TargetLow' \in {scanLow, Oldest(Len(chain))}
      BY <1>0, <1>2, <2>1
    <3>. QED BY <2>1, <3>1, <3>2, <3>3
  <2>2. CASE ~IsPrefix(scan, chain)
    <3>1. /\ target' = Front(scan) /\ scan # <<>> /\ Len(target') = Len(scan) - 1
          /\ target' = IF Exhausted THEN SubSeq(chain, 1, Len(scan) - 1) ELSE Front(scan)
      BY <1>3, <2>2, StepsBack, ScanIs
    <3>2. PICK y \in Chains, n \in Nat : /\ y = target' /\ n = Len(y) /\ n = Len(scan) - 1
                                        /\ \A i \in 1 .. Len(scan) - 1 : y[i] = scan[i]
      BY <1>0, <3>1, FrontIs
    <3>3. CASE Exhausted
      <4>1. TargetLow' = Oldest(Len(y)) /\ Len(y) <= Len(chain)
        BY <1>0, <1>2, <3>2, <3>3
      <4>2. \A i \in 1 .. n : y[i] = chain[i]
        BY <1>0, <3>1, <3>2, <3>3, FirstBlocks
      <4>. QED BY <1>0, <3>2, <4>1, <4>2, FreshLow
    <3>4. CASE ~Exhausted
      <4>1. TargetLow' = scanLow
        BY <1>0, <1>2, <3>2, <3>4
      <4>2. scanLow <= n
        BY <1>0, <1>3, <3>1, <3>2, <3>4 DEF LowOK, Exhausted
      <4>3. \A i \in 1 .. scanLow - 1 : i \in 1 .. Len(scan) - 1
        BY <1>0, <3>2, <4>2
      <4>4. LowOK(y, scanLow)
        BY <1>3, <3>2, <4>2, <4>3 DEF LowOK
      <4>. QED BY <3>2, <4>1, <4>4
    <3>. QED BY <3>3, <3>4
  <2>. QED BY <2>1, <2>2, ScanIs
<1>5. LowOK(target, TargetLow)'
  BY <1>1, <1>4 DEF LowOK
<1>. QED BY <1>1, <1>5 DEF HistInv, LowOK

\* The cursor that an observation carries remembers what safe_cursor gives it.
LEMMA HistObservation ==
    ASSUME IInv, HistInv, IngestObservation
    PROVE  HistInv'
<1>0. /\ chain \in Chains /\ target \in Chains /\ Len(chain) \in Nat /\ Len(target) \in Nat
      /\ pending \subseteq Evidence /\ NoCursor \notin Chains
  BY AreChains, Lengths, AnchorsAssumption, NoCursorAssumption DEF IInv, TypeOK
<1>1. PICK r \in records, safe \in SafeCursors :
          /\ NextRecord(r)
          /\ Ingest(Observed(EventKind(r), r.evidence),
                    IF IsLastObservation(r) THEN safe ELSE NoCursor, "records")
          /\ cursorLow' = IF IsLastObservation(r)
                             /\ Outcome(Observed(EventKind(r), r.evidence)) = "Committed"
                          THEN SafeLow(safe) ELSE cursorLow
  BY DEF IngestObservation
<1>2. UNCHANGED <<chain, scan, scanLow, target>>
  BY DEF IngestObservation, chainVars
<1>3. Ingesting /\ LowOK(target, TargetLow)
  BY <1>1 DEF NextRecord, Ingesting, HistInv
<1>4. safe \in Chains /\ Len(safe) <= Len(chain)
  BY SafeCursorType
<1>5. LowOK(safe, SafeLow(safe))
  <2>1. CASE ~HoldsCursor
    BY <1>3, <2>1 DEF SafeLow, SafeCursors
  <2>2. CASE HoldsCursor
    <3>1. PICK low \in LowestPending : safe = SubSeq(chain, 1, low.height - 1)
      BY <2>2 DEF SafeCursors
    <3>2. low.height \in Nat /\ low.height - 1 <= Len(target)
      <4>1. low \in Evidence /\ \E ev \in pending : low.height <= ev.height /\ ev.height <= Len(target) /\ ev \in Evidence
        BY <1>0, <2>2 DEF HoldsCursor, LowestPending
      <4>2. \A ev \in Evidence : ev.height \in Nat
        BY MaxHeightAssumption DEF Evidence, Heights
      <4>. QED BY <1>0, <4>1, <4>2
    <3>3. low.height - 1 \in Int /\ low.height - 1 <= Len(chain)
      BY <1>0, <3>2 DEF IInv, ControlInv
    <3>4. \A i \in 1 .. low.height - 1 : safe[i] = chain[i]
      BY <1>0, <3>1, <3>3, FirstBlocks
    <3>5. \A i \in 1 .. Len(safe) : i \in 1 .. low.height - 1
      BY <1>0, <3>1, <3>3, FirstBlocks
    <3>6. LowOK(safe, Oldest(Len(safe)))
      BY <1>0, <1>4, <3>4, <3>5, FreshLow
    <3>. QED BY <2>2, <3>6 DEF SafeLow
  <2>. QED BY <2>1, <2>2
<1>6. \/ cursor' = safe /\ cursorLow' = SafeLow(safe)
      \/ cursor' = cursor /\ cursorLow' = cursorLow
  <2> DEFINE e == Observed(EventKind(r), r.evidence)
             cur == IF IsLastObservation(r) THEN safe ELSE NoCursor
  <2>1. IngestWrite(ctx, Journalled(e), e, cur)
    BY Zenon, <1>1 DEF Ingest
  <2>2. Outcome(e) = IngestOutcome(ctx, Journalled(e), e)
    BY DEF Outcome
  <2>3. CASE Outcome(e) = "Committed" /\ CommitTransition(ctx, e, cur)
    <3>1. cursor' = IF cur = NoCursor THEN cursor ELSE cur
      BY Zenon, <2>3 DEF CommitTransition
    <3>2. CASE IsLastObservation(r)
      <4>1. cur = safe /\ safe # NoCursor
        BY <1>0, <1>4, <3>2
      <4>. QED BY <1>1, <2>3, <3>1, <3>2, <4>1
    <3>3. CASE ~IsLastObservation(r)
      BY <1>1, <3>1, <3>3
    <3>. QED BY <3>2, <3>3
  <2>4. CASE Outcome(e) # "Committed" /\ cursor' = cursor
    BY <1>1, <2>4
  <2> HIDE DEF e, cur
  <2>5. \/ Outcome(e) = "Committed" /\ CommitTransition(ctx, e, cur)
        \/ Outcome(e) # "Committed" /\ cursor' = cursor
    BY <2>1, <2>2 DEF IngestWrite, ReaffirmEvidence, RecordLateEvidence, ParkEvidence, storeVars
  <2>. QED BY <2>3, <2>4, <2>5
<1>7. LowOK(scan, scanLow)' /\ LowOK(target, TargetLow)'
  BY <1>2, <1>3 DEF HistInv, LowOK, TargetLow, Exhausted
<1>8. cursor' # NoCursor => LowOK(cursor', cursorLow')
  BY <1>5, <1>6 DEF HistInv
<1>9. cursor' = NoCursor => cursorLow' = 0
  BY <1>0, <1>4, <1>6 DEF HistInv
<1>. QED BY <1>2, <1>7, <1>8, <1>9 DEF HistInv, LowOK

\* The other steps of the engine.
LEMMA HistRest ==
    ASSUME IInv, HistInv, [Next]_vars, ~(Mine \/ Reorg \/ Reactivate), ~Scan, ~IngestObservation
    PROVE  HistInv'
<1>0. /\ chain \in Chains /\ chain' = chain /\ Len(chain) \in Nat /\ Len(scan) \in Nat
      /\ Len(scan) <= Len(chain)
  BY AreChains, Lengths, OnlyMovesChangeTheChain DEF IInv, ControlInv
<1>1. cursor' = cursor /\ cursorLow' = cursorLow
  <2>1. cursor' = cursor
    BY RowsStay
  <2>2. CASE ArmRefund \/ DrainFirst \/ Drain \/ ReorgRecord \/ IngestReorg \/ HoldRefund \/ ReadTip \/ Policy
    BY Zenon, <2>1, <2>2 DEF ArmRefund, DrainFirst, Drain, ReorgRecord, IngestReorg, HoldRefund, ReadTip, Policy, scanVars
  <2>3. CASE ClaimEffects \/ Revalidate \/ Execute \/ Expire \/ ReadFails \/ Crash \/ UNCHANGED vars
    BY Zenon, <2>1, <2>3 DEF ClaimEffects, Revalidate, Execute, Expire, ReadFails, Crash, vars, engineVars, scanVars
  <2>. QED BY <2>1, <2>2, <2>3 DEF Next, EngineStep
<1>2. \/ UNCHANGED <<scan, scanLow>>
      \/ Ingesting /\ scan' = target /\ scanLow' = TargetLow
      \/ scan' = (IF cursor = NoCursor THEN <<>> ELSE cursor) /\ scanLow' = cursorLow
      \/ \E n \in Nat : n < Len(scan) /\ scan' = SubSeq(chain, 1, n) /\ scanLow' = Oldest(n)
  <2>1. CASE ArmRefund \/ DrainFirst \/ Drain \/ ReorgRecord \/ IngestReorg \/ HoldRefund \/ Policy
    BY Zenon, <2>1 DEF ArmRefund, DrainFirst, Drain, ReorgRecord, IngestReorg, HoldRefund, Policy, scanVars
  <2>2. CASE ClaimEffects \/ Execute \/ Expire \/ UNCHANGED vars
    BY Zenon, <2>2 DEF ClaimEffects, Execute, Expire, vars, engineVars, scanVars
  <2>3. CASE ReadTip \/ ReadFails
    BY Zenon, <2>3 DEF ReadTip, ReadFails, Ingesting
  <2>4. CASE Crash
    BY Zenon, <2>4 DEF Crash
  <2>5. CASE Revalidate
    <3>1. PICK f \in batch :
              /\ f.kind = "RevalidateFrom"
              /\ scan' = IF Floor(f) < Len(scan) THEN SubSeq(chain, 1, Floor(f)) ELSE scan
              /\ scanLow' = IF Floor(f) < Len(scan) THEN Oldest(Floor(f)) ELSE scanLow
      BY <2>5 DEF Revalidate
    <3>2. Floor(f) \in Nat
      BY <3>1, FloorType
    <3>. QED BY Zenon, <3>1, <3>2
  <2>. QED BY <2>1, <2>2, <2>3, <2>4, <2>5 DEF Next, EngineStep
<1>3. LowOK(scan', scanLow')
  <2>1. CASE scan' = <<>> /\ scanLow' = 0
    BY <1>0, <2>1, EmptyIsPrefix DEF LowOK
  <2>2. ASSUME NEW n \in Nat, n < Len(scan) PROVE LowOK(SubSeq(chain, 1, n), Oldest(n))
    <3> DEFINE y == SubSeq(chain, 1, n)
    <3>1. y \in Chains /\ Len(y) = n /\ \A i \in 1 .. n : y[i] = chain[i]
      BY <1>0, <2>2, FirstBlocks
    <3>2. Len(y) <= Len(chain)
      BY <1>0, <2>2, <3>1
    <3> HIDE DEF y
    <3>3. LowOK(y, Oldest(Len(y)))
      BY <1>0, <3>1, <3>2, FreshLow
    <3>. QED BY <3>1, <3>3 DEF y
  <2>. QED BY Zenon, <1>2, <2>1, <2>2 DEF HistInv
<1>4. Ingesting' => LowOK(target', TargetLow')
  <2>1. SUFFICES ASSUME Ingesting' PROVE LowOK(target', TargetLow')
    OBVIOUS
  <2>2. Ingesting /\ UNCHANGED <<scan, target>>
    BY <2>1, IngestingStays
  <2>3. scanLow' = scanLow
    <3>1. CASE ArmRefund \/ DrainFirst \/ Drain \/ ReorgRecord \/ IngestReorg \/ HoldRefund \/ Policy
      BY Zenon, <3>1 DEF ArmRefund, DrainFirst, Drain, ReorgRecord, IngestReorg, HoldRefund, Policy, scanVars
    <3>2. CASE ClaimEffects \/ Execute \/ Expire \/ UNCHANGED vars
      BY Zenon, <3>2 DEF ClaimEffects, Execute, Expire, vars, engineVars, scanVars
    <3>3. ~ReadTip /\ ~ReadFails /\ ~Crash
      BY <2>1 DEF ReadTip, ReadFails, Crash, Ingesting
    <3>4. ~Revalidate
      BY <2>1 DEF Revalidate, Finish, Ingesting
    <3>. QED BY <3>1, <3>2, <3>3, <3>4 DEF Next, EngineStep
  <2>4. TargetLow' = TargetLow
    BY <2>2, <2>3 DEF TargetLow, Exhausted
  <2>. QED BY <2>2, <2>4 DEF HistInv
<1>. QED BY <1>0, <1>1, <1>3, <1>4 DEF HistInv, LowOK

LEMMA HistStep ==
    ASSUME HistoryLimit >= MaxReorgDepth, IInv, HistInv, [Next]_vars
    PROVE  HistInv'
<1>1. CASE Mine \/ Reorg \/ Reactivate
  <2>0. /\ scanLow \in Nat /\ cursorLow \in Nat /\ TargetLow \in Nat
    BY TargetLowType, MaxHeightAssumption DEF IInv, TypeOK, Heights
  <2>1. UNCHANGED <<scan, scanLow, cursorLow, target, cursor, pc, after>>
    BY <1>1 DEF Mine, Reorg, Reactivate, engineVars, scanVars, drainVars, storeVars
  <2>2. TargetLow' = TargetLow /\ (Ingesting' <=> Ingesting)
    BY <2>1 DEF TargetLow, Exhausted, Ingesting
  <2>3. ASSUME NEW x, NEW low \in Nat, LowOK(x, low)
        PROVE  /\ low <= Len(x)
               /\ low > 0 => low + HistoryLimit <= Len(chain') + 1
               /\ \A i \in 1 .. low - 1 : x[i] = chain'[i]
    BY <1>1, <2>3, LowStays
  <2>4. LowOK(scan, scanLow)'
    BY <2>0, <2>1, <2>3 DEF HistInv, LowOK
  <2>5. (cursor # NoCursor => LowOK(cursor, cursorLow))'
    BY <2>0, <2>1, <2>3 DEF HistInv, LowOK
  <2>6. (Ingesting => LowOK(target, TargetLow))'
    BY <2>0, <2>1, <2>2, <2>3 DEF HistInv, LowOK
  <2>. QED BY <2>1, <2>4, <2>5, <2>6 DEF HistInv
<1>2. CASE ~(Mine \/ Reorg \/ Reactivate)
  BY <1>2, HistScan, HistObservation, HistRest
<1>. QED BY <1>1, <1>2

-----------------------------------------------------------------------------
(* The branch a reorg record steps back on *)

\* No reorg has yet gone deeper than the cursors can follow.
Followable == ~deep \/ HistoryLimit >= MaxReorgDepth

PosInv ==
    /\ ~deep => NearInv
    /\ HistoryLimit >= MaxReorgDepth => HistInv

\* A scan that steps back stays on the branch the scanner has passed.
BackInv == Ingesting /\ Len(target) < Len(scan) => target = Front(scan)

LEMMA PosStep ==
    ASSUME IInv, PosInv, [Next]_vars
    PROVE  PosInv' /\ (Followable' => Followable)
<1>1. ~deep' => ~deep
  BY DeepRemains
<1>2. ~deep' => NearInv'
  BY <1>1, NearStep DEF PosInv
<1>3. HistoryLimit >= MaxReorgDepth => HistInv'
  BY HistStep DEF PosInv
<1>. QED BY <1>1, <1>2, <1>3 DEF PosInv, Followable

LEMMA ScanStepsBack ==
    ASSUME IInv, PosInv, Followable
    PROVE  Scan /\ ~IsPrefix(scan, chain) => target' = Front(scan)
BY StepsBack DEF PosInv, Followable, NearInv, HistInv

LEMMA BackStep ==
    ASSUME IInv, PosInv, Followable, BackInv, [Next]_vars
    PROVE  BackInv'
<1>1. CASE Scan
  <2>1. scan' = scan /\ Len(scan) <= Len(chain) /\ Len(scan) \in Nat /\ Len(chain) \in Nat
    BY <1>1, Lengths DEF Scan, IInv, ControlInv
  <2>2. target' = chain \/ target' = Front(scan)
    BY <1>1, ScanIs, ScanStepsBack
  <2>3. target' = chain => ~(Len(target') < Len(scan))
    BY <2>1
  <2>. QED BY <2>1, <2>2, <2>3 DEF BackInv
<1>2. CASE ~Scan
  BY <1>2, IngestingStays DEF BackInv
<1>. QED BY <1>1, <1>2

LEMMA PosInit ==
    ASSUME Init
    PROVE  PosInv /\ BackInv
<1>1. IInv /\ cursor = NoCursor /\ scan = <<>> /\ target = <<>> /\ scanLow = 0 /\ cursorLow = 0
      /\ ~Ingesting
  BY Zenon, InvInit DEF Init, StoreInit, Ingesting
<1>2. chain \in Chains /\ Len(chain) \in Nat /\ Len(<<>>) = 0 /\ <<>> \in Chains
  BY <1>1, AreChains, Lengths, EmptyIsPrefix DEF IInv
<1>3. Near(<<>>) /\ LowOK(<<>>, 0)
  BY <1>2, PrefixIsNear DEF LowOK
<1>. QED BY <1>1, <1>3 DEF PosInv, NearInv, HistInv, BackInv

-----------------------------------------------------------------------------
(* Rows for what the scanner has passed *)

\* Chains that agree up to a height have the same observation there.
LEMMA SameObservation ==
    ASSUME NEW x \in Chains, NEW y \in Chains, NEW n \in Nat, n <= Len(x), n <= Len(y),
           \A i \in 1 .. n : x[i] = y[i], NEW h \in 1 .. n
    PROVE  /\ Visible(x, h) <=> Visible(y, h)
           /\ ObservationAt(x, h) = ObservationAt(y, h)
           /\ RecordAt(x, h) = RecordAt(y, h)
<1>1. Len(x) \in Nat /\ Len(y) \in Nat
  BY ChainIsSeq, MaxHeightAssumption DEF Heights
<1>2. SubSeq(x, 1, h) = SubSeq(y, 1, h)
  BY <1>1, SameHash
<1>3. EvidenceAt(x, h) = EvidenceAt(y, h) /\ x[h] = y[h]
  BY <1>2 DEF EvidenceAt
<1>4. RecordAt(x, h) = RecordAt(y, h)
  BY <1>3 DEF RecordAt
<1>. QED BY <1>3, <1>4 DEF Visible, ObservationAt

\* A shorter position is accounted for if a longer one is, and more rows do as well.
LEMMA AccountedBelow ==
    ASSUME NEW x \in Chains, NEW y \in Chains, Len(x) <= Len(y),
           \A i \in 1 .. Len(x) : x[i] = y[i],
           NEW rows, NEW recs, Accounted(y, rows, recs)
    PROVE  Accounted(x, rows, recs)
<1>1. Len(x) \in Nat /\ Len(y) \in Nat /\ DOMAIN x = 1 .. Len(x) /\ DOMAIN y = 1 .. Len(y)
  BY ChainIsSeq, MaxHeightAssumption DEF Heights
<1>2. ASSUME NEW h \in DOMAIN x, Visible(x, h)
      PROVE  ObservationAt(x, h) \in rows \/ RecordAt(x, h) \in recs
  <2>1. h \in 1 .. Len(x) /\ h \in DOMAIN y
    BY <1>1
  <2>2. /\ Visible(y, h) /\ ObservationAt(x, h) = ObservationAt(y, h)
        /\ RecordAt(x, h) = RecordAt(y, h)
    BY <1>1, <1>2, <2>1, SameObservation
  <2>. QED BY <2>1, <2>2 DEF Accounted
<1>. QED BY <1>2 DEF Accounted

LEMMA AccountedMore ==
    ASSUME NEW x, NEW rows, NEW more, NEW recs, rows \subseteq more, Accounted(x, rows, recs)
    PROVE  Accounted(x, more, recs)
BY DEF Accounted

\* The record of an observation is neither of a reorg nor of a refund.
LEMMA VisibleRecord ==
    ASSUME NEW x, NEW h, Visible(x, h)
    PROVE  RecordAt(x, h).kind \in {"funding", "claim"}
BY DEF Visible, RecordAt

\* What one record is taken from the list for: the others still account for the rest.
LEMMA AccountedWithout ==
    ASSUME NEW x, NEW rows, NEW recs, NEW r, Accounted(x, rows, recs),
           r.kind \notin {"funding", "claim"} \/ Observed(EventKind(r), r.evidence) \in rows
    PROVE  Accounted(x, rows, recs \ {r})
<1>1. ASSUME NEW h \in DOMAIN x, Visible(x, h)
      PROVE  ObservationAt(x, h) \in rows \/ RecordAt(x, h) \in recs \ {r}
  <2>1. CASE RecordAt(x, h) = r
    <3>1. r.kind \in {"funding", "claim"}
      BY <1>1, <2>1, VisibleRecord
    <3>2. r.evidence = EvidenceAt(x, h)
      BY <2>1 DEF RecordAt
    <3>. QED BY <2>1, <3>1, <3>2 DEF ObservationAt
  <2>2. CASE RecordAt(x, h) # r
    BY <1>1, <2>2 DEF Accounted
  <2>. QED BY <2>1, <2>2
<1>. QED BY <1>1 DEF Accounted

\* A step that leaves the positions alone, and takes at most such records off the list.
LEMMA CoverFrame ==
    ASSUME IInv, CoverInv, [Next]_vars, UNCHANGED <<scan, target, cursor>>,
           Ingesting' => Ingesting,
           terminal = {} => \/ records' = records
                            \/ \E r : /\ records' = records \ {r}
                                      /\ \/ r.kind \notin {"funding", "claim"}
                                         \/ Observed(EventKind(r), r.evidence) \in DOMAIN evidence'
    PROVE  CoverInv'
<1>1. DOMAIN evidence \subseteq DOMAIN evidence' /\ (terminal' = {} => terminal = {})
  BY RowsStay
<1>2. cursor # NoCursor => Accounted(cursor, DOMAIN evidence', {})
  BY <1>1, AccountedMore DEF CoverInv
<1>3. terminal' = {} => Accounted(scan, DOMAIN evidence', {})
  BY <1>1, AccountedMore DEF CoverInv
<1>4. terminal' = {} /\ Ingesting' => Accounted(target, DOMAIN evidence', records)
  BY <1>1, AccountedMore DEF CoverInv
<1>5. terminal' = {} /\ Ingesting' => Accounted(target, DOMAIN evidence', records')
  <2>1. CASE terminal' = {} /\ Ingesting' /\ records' = records
    BY <1>4, <2>1
  <2>2. ASSUME terminal' = {}, Ingesting', NEW r, records' = records \ {r},
               r.kind \notin {"funding", "claim"} \/ Observed(EventKind(r), r.evidence) \in DOMAIN evidence'
        PROVE  Accounted(target, DOMAIN evidence', records')
    BY <1>4, <2>2, AccountedWithout
  <2>. QED BY <1>1, <2>1, <2>2
<1>. QED BY <1>2, <1>3, <1>5 DEF CoverInv

\* A scan that advances has a record for each block it passes.
LEMMA CoverScan ==
    ASSUME IInv, CoverInv, Scan, ~IsPrefix(scan, chain) => target' = Front(scan)
    PROVE  CoverInv'
<1>0. /\ chain \in Chains /\ scan \in Chains /\ Len(chain) \in Nat /\ Len(scan) \in Nat
      /\ DOMAIN chain = 1 .. Len(chain)
  BY AreChains, Lengths, ChainIsSeq DEF IInv
<1>1. UNCHANGED <<evidence, terminal, cursor, scan, chain>> /\ pc' = "records"
  BY DEF Scan, storeVars, chainVars
<1>2. ASSUME terminal = {} PROVE Accounted(target', DOMAIN evidence, records')
  <2>0. Accounted(scan, DOMAIN evidence, {})
    BY <1>2 DEF CoverInv
  <2>1. CASE IsPrefix(scan, chain) /\ target' = chain /\ records' = RecordsAbove(chain, Len(scan))
    <3>1. Len(scan) <= Len(chain) /\ \A i \in 1 .. Len(scan) : scan[i] = chain[i]
      BY <1>0, <2>1, PrefixIff
    <3>2. ASSUME NEW h \in DOMAIN chain, Visible(chain, h)
          PROVE  ObservationAt(chain, h) \in DOMAIN evidence \/ RecordAt(chain, h) \in records'
      <4>1. CASE h \in 1 .. Len(scan)
        <5>1. Visible(scan, h) /\ ObservationAt(scan, h) = ObservationAt(chain, h) /\ h \in DOMAIN scan
          BY <1>0, <3>1, <3>2, <4>1, SameObservation, ChainIsSeq
        <5>. QED BY <2>0, <5>1 DEF Accounted
      <4>2. CASE h \in Len(scan) + 1 .. Len(chain)
        BY <2>1, <3>2, <4>2 DEF RecordsAbove, Visible
      <4>. QED BY <1>0, <3>1, <4>1, <4>2
    <3>. QED BY <2>1, <3>2 DEF Accounted
  <2>2. CASE scan # <<>> /\ target' = Front(scan)
    <3>0. /\ Front(scan) \in Chains /\ Len(Front(scan)) = Len(scan) - 1
          /\ \A i \in 1 .. Len(scan) - 1 : Front(scan)[i] = scan[i]
      BY <1>0, <2>2, FrontIs
    <3>1. /\ Len(Front(scan)) <= Len(scan)
          /\ \A i \in 1 .. Len(Front(scan)) : Front(scan)[i] = scan[i]
      BY <1>0, <3>0
    <3>2. Accounted(target', DOMAIN evidence, {})
      BY <1>0, <2>0, <2>2, <3>0, <3>1, AccountedBelow
    <3>. QED BY <3>2 DEF Accounted
  <2>. QED BY <2>1, <2>2, ScanIs
<1>. QED BY <1>1, <1>2 DEF CoverInv

\* An observation leaves its row; the last one of a batch lets the cursor go as far as
\* the batch, or below the lowest refund held.
LEMMA CoverObservation ==
    ASSUME IInv, CoverInv, IngestObservation,
           \A safe \in SafeCursors : \A i \in 1 .. Len(safe) : safe[i] = target[i]
    PROVE  CoverInv'
<1>0. StoreTypeOK /\ StoreInv /\ EngineType /\ ControlInv
  BY TypeIff DEF IInv
<1>1. PICK r \in records, safe \in SafeCursors :
          /\ NextRecord(r)
          /\ r.kind \in {"funding", "claim"}
          /\ Ingest(Observed(EventKind(r), r.evidence),
                    IF IsLastObservation(r) THEN safe ELSE NoCursor, "records")
          /\ records' = records \ {r}
  BY DEF IngestObservation
<1> DEFINE e == Observed(EventKind(r), r.evidence)
           cur == IF IsLastObservation(r) THEN safe ELSE NoCursor
<1>2. EventKind(r) \in EvidenceKinds /\ EventKind(r) \in ParkedKinds /\ r.evidence \in Evidence
  BY <1>0, <1>1 DEF EngineType, EventKind, EvidenceKinds, ParkedKinds
<1>3. e \in Events /\ Derived(e) /\ CarriesEvidence(e) /\ cur \in Anchors \cup {NoCursor}
  BY <1>2, ObservedType, SafeCursorType DEF Derived
<1>4. IngestWrite(ctx, Journalled(e), e, cur)
  BY Zenon, <1>1 DEF Ingest
<1>5. UNCHANGED <<scan, target>> /\ pc = "records" /\ Ingesting
  BY Zenon, <1>1 DEF IngestObservation, NextRecord, Ingesting
<1> HIDE DEF e, cur
<1>6. /\ DOMAIN evidence \subseteq DOMAIN evidence'
      /\ terminal = {} => e \in DOMAIN evidence'
      /\ cursor' \in {cursor, cur} /\ (cursor' = NoCursor => cursor = NoCursor)
      /\ terminal # {} => cursor' = cursor /\ terminal' = terminal
  BY Zenon, <1>0, <1>3, <1>4, IngestStep
<1>7. terminal' = {} => terminal = {}
  BY <1>6
<1>8. terminal = {} => Accounted(target, DOMAIN evidence', records')
  <2>1. SUFFICES ASSUME terminal = {} PROVE Accounted(target, DOMAIN evidence', records')
    OBVIOUS
  <2>2. Accounted(target, DOMAIN evidence', records)
    BY <1>5, <1>6, <2>1, AccountedMore DEF CoverInv
  <2>3. Observed(EventKind(r), r.evidence) \in DOMAIN evidence'
    BY <1>6, <2>1 DEF e
  <2>. QED BY <1>1, <2>2, <2>3, AccountedWithout
<1>9. ASSUME cursor' # NoCursor PROVE Accounted(cursor', DOMAIN evidence', {})
  <2>1. CASE cursor' = cursor
    <3>1. Accounted(cursor, DOMAIN evidence, {})
      BY <1>9, <2>1 DEF CoverInv
    <3>. QED BY <1>6, <2>1, <3>1, AccountedMore
  <2>2. CASE cursor' # cursor
    <3>1. terminal = {} /\ cursor' = cur
      BY <1>6, <2>2
    <3>2. IsLastObservation(r) /\ cursor' = safe
      BY <1>9, <3>1 DEF cur
    <3>3. \A h \in DOMAIN target : Visible(target, h) => RecordAt(target, h) \notin records'
      <4>1. \A other \in records' : other.kind = "refund"
        BY <1>1, <3>2 DEF IsLastObservation
      <4>. QED BY <4>1, VisibleRecord
    <3>4. Accounted(target, DOMAIN evidence', {})
      BY <1>8, <3>1, <3>3 DEF Accounted
    <3>5. target \in Chains /\ safe \in Chains /\ Len(safe) <= Len(target)
      BY AreChains, SafeCursorType DEF IInv
    <3>. QED BY <3>2, <3>4, <3>5, AccountedBelow
  <2>. QED BY <2>1, <2>2
<1>10. terminal' = {} => Accounted(scan, DOMAIN evidence', {})
  BY <1>6, <1>7, AccountedMore DEF CoverInv
<1>. QED BY <1>5, <1>7, <1>8, <1>9, <1>10 DEF CoverInv

\* Steps that move the scanner: to the end of a batch, back to the cursor, or down.
LEMMA CoverMoves ==
    ASSUME IInv, CoverInv, ReadTip \/ ReadFails \/ Crash \/ Revalidate,
           Revalidate => /\ Len(scan') <= Len(scan)
                         /\ \A i \in 1 .. Len(scan') : scan'[i] = scan[i]
    PROVE  CoverInv'
<1>1. UNCHANGED <<evidence, terminal, cursor>> /\ ~Ingesting'
  <2>1. CASE ReadTip \/ ReadFails \/ Crash
    BY Zenon, <2>1 DEF ReadTip, ReadFails, Crash, storeVars, Ingesting
  <2>2. CASE Revalidate
    BY <2>2 DEF Revalidate, CompleteEffect, Finish, Ingesting
  <2>. QED BY <2>1, <2>2
<1>2. Accounted(<<>>, DOMAIN evidence, {})
  BY DEF Accounted
<1>3. ASSUME terminal = {} PROVE Accounted(scan', DOMAIN evidence, {})
  <2>0. Accounted(scan, DOMAIN evidence, {})
    BY <1>3 DEF CoverInv
  <2>1. CASE scan' = scan
    BY <2>0, <2>1
  <2>2. CASE pc = "records" /\ records = {} /\ scan' = target
    BY <1>3, <2>2 DEF CoverInv, Ingesting
  <2>3. CASE Crash
    BY <1>2, <2>3 DEF Crash, CoverInv
  <2>4. CASE Revalidate
    <3>1. scan \in Chains /\ scan' \in Chains
      <4>1. IInv'
        BY <2>4, DispatchKeeps
      <4>. QED BY <4>1, AnchorsAssumption DEF IInv, TypeOK
    <3>. QED BY <2>0, <2>4, <3>1, AccountedBelow
  <2>5. ReadTip \/ ReadFails => scan' = scan \/ (pc = "records" /\ records = {} /\ scan' = target)
    BY DEF ReadTip, ReadFails
  <2>. QED BY <2>1, <2>2, <2>3, <2>4, <2>5
<1>. QED BY <1>1, <1>3 DEF CoverInv

\* Whatever the step, the rows account for what the engine has passed.
LEMMA CoverStep ==
    ASSUME IInv, CoverInv, [Next]_vars,
           Scan /\ ~IsPrefix(scan, chain) => target' = Front(scan),
           IngestObservation => \A safe \in SafeCursors : \A i \in 1 .. Len(safe) : safe[i] = target[i],
           Revalidate => /\ Len(scan') <= Len(scan)
                         /\ \A i \in 1 .. Len(scan') : scan'[i] = scan[i]
    PROVE  CoverInv'
<1>1. CASE Scan \/ IngestObservation \/ ReadTip \/ ReadFails \/ Crash \/ Revalidate
  BY <1>1, CoverScan, CoverObservation, CoverMoves
<1>2. CASE IngestReorg
  <2>1. PICK r \in records : records' = records \ {r}
    BY <1>2 DEF IngestReorg
  <2>2. pc = "reorg" /\ UNCHANGED <<scan, target>>
    BY <1>2 DEF IngestReorg
  <2>3. Ingesting /\ ~IngestObservation
    BY <2>2 DEF Ingesting, IngestObservation, NextRecord
  <2>4. r.kind = "reorg"
    BY <2>2, <2>3, ReorgRewinds
  <2>5. cursor' = cursor
    BY <2>3, RowsStay
  <2>. QED BY <2>1, <2>2, <2>3, <2>4, <2>5, CoverFrame
<1>3. CASE HoldRefund
  <2>1. PICK r \in records : NextRecord(r) /\ r.kind = "refund" /\ records' = records \ {r}
    BY <1>3 DEF HoldRefund
  <2>2. UNCHANGED <<scan, target, cursor>> /\ Ingesting
    BY <1>3, <2>1 DEF HoldRefund, storeVars, NextRecord, Ingesting
  <2>. QED BY <2>1, <2>2, CoverFrame
<1>4. CASE ReorgRecord \/ Drain
  <2>1. UNCHANGED <<scan, target, records>> /\ (Ingesting' => Ingesting)
    <3>1. CASE ReorgRecord
      BY <3>1 DEF ReorgRecord, NextRecord, Ingesting, scanVars
    <3>2. CASE Drain
      <4>1. pc = "drain" /\ UNCHANGED <<scan, target, records>>
        BY Zenon, <3>2 DEF Drain, scanVars
      <4>2. (pc' = "records" => after = "records") /\ pc' # "reorg"
        BY Zenon, <3>2 DEF Drain, IInv, TypeOK
      <4>3. pc' = "drain" => after' = after
        <5>1. pc' = "drain" /\ after' # after => after = "drain"
          BY <3>2 DEF Drain
        <5>. QED BY <5>1 DEF IInv, TypeOK
      <4>. QED BY <4>1, <4>2, <4>3 DEF Ingesting
    <3>. QED BY <1>4, <3>1, <3>2
  <2>2. cursor' = cursor
    <3>1. CASE ReorgRecord
      BY <3>1 DEF ReorgRecord, InvalidateEvidenceFrom
    <3>2. CASE Drain
      BY Zenon, <3>2, RowsStay DEF Drain, IngestObservation, NextRecord
    <3>. QED BY <1>4, <3>1, <3>2
  <2>. QED BY <2>1, <2>2, CoverFrame
<1>5. CASE ArmRefund \/ DrainFirst \/ Policy
  <2>1. UNCHANGED <<scan, target, records>> /\ pc # "records"
    BY Zenon, <1>5 DEF ArmRefund, DrainFirst, Policy, scanVars
  <2>2. cursor' = cursor
    BY Zenon, <1>5, <2>1, RowsStay DEF IngestObservation, NextRecord
  <2>3. ~Ingesting'
    BY Zenon, <1>5 DEF ArmRefund, DrainFirst, Policy, Ingest, Ingesting, drainVars
  <2>. QED BY Zenon, <2>1, <2>2, <2>3, CoverFrame
<1>6. CASE ClaimEffects \/ Execute \/ Expire
  <2>1. UNCHANGED <<scan, target, records, cursor>>
    BY <1>6 DEF ClaimEffects, ClaimReady, Execute, CompleteEffect, Expire, LeaseExpires, scanVars,
                engineVars, storeVars
  <2>2. ~Ingesting'
    BY Zenon, <1>6 DEF ClaimEffects, Execute, Finish, Expire, engineVars, Ingesting
  <2>. QED BY Zenon, <2>1, <2>2, CoverFrame
<1>7. CASE Mine \/ Reorg \/ Reactivate \/ UNCHANGED vars
  <2>1. UNCHANGED <<scan, target, records, cursor, pc, after>>
    BY Zenon, <1>7 DEF Mine, Reorg, Reactivate, vars, engineVars, scanVars, drainVars, storeVars
  <2>. QED BY <2>1, CoverFrame DEF Ingesting
<1>. QED BY <1>1, <1>2, <1>3, <1>4, <1>5, <1>6, <1>7 DEF Next, EngineStep

\* What a covered position on the chain says of the chain.
LEMMA CoveredOnChain ==
    ASSUME chain \in Chains, NEW x \in Chains, Accounted(x, DOMAIN evidence, {}), IsPrefix(x, chain)
    PROVE  \A h \in DOMAIN x :
              chain[h].tx \in {"funding", "claim"} => EventAt(h) \in DOMAIN evidence
<1>1. Len(x) <= Len(chain) /\ \A i \in 1 .. Len(x) : x[i] = chain[i]
  BY PrefixIff
<1>2. Len(x) \in Nat /\ Len(chain) \in Nat /\ DOMAIN x = 1 .. Len(x)
  BY ChainIsSeq, MaxHeightAssumption DEF Heights
<1>3. ASSUME NEW h \in DOMAIN x, chain[h].tx \in {"funding", "claim"}
      PROVE  EventAt(h) \in DOMAIN evidence
  <2>a. h \in 1 .. Len(x) /\ Visible(chain, h)
    BY <1>2, <1>3 DEF Visible
  <2>1. Visible(x, h) /\ ObservationAt(x, h) = ObservationAt(chain, h)
    <3>1. PICK n \in Nat : n = Len(x)
      BY <1>2
    <3>2. n <= Len(x) /\ n <= Len(chain) /\ h \in 1 .. n /\ \A i \in 1 .. n : x[i] = chain[i]
      BY <1>1, <2>a, <3>1
    <3>3. (Visible(x, h) <=> Visible(chain, h)) /\ ObservationAt(x, h) = ObservationAt(chain, h)
      BY Zenon, <3>2, SameObservation
    <3>. QED BY <2>a, <3>3
  <2>2. ObservationAt(x, h) \in DOMAIN evidence
    BY <2>1 DEF Accounted
  <2>3. RecordAt(chain, h).kind = chain[h].tx
    BY DEF RecordAt
  <2>4. EventAt(h) = ObservationAt(chain, h)
    BY <1>3, <2>3 DEF EventAt, ObservationAt, EventKind
  <2>. QED BY <2>1, <2>2, <2>4
<1>. QED BY <1>3

LEMMA CoverGivesProperties ==
    ASSUME IInv, CoverInv
    PROVE  CursorCoversObservations /\ ScannerSkipsNothing
<1>1. chain \in Chains /\ scan \in Chains /\ (cursor # NoCursor => cursor \in Chains)
  BY AreChains DEF IInv
<1>2. CursorCoversObservations
  BY <1>1, CoveredOnChain DEF CoverInv, CursorCoversObservations
<1>3. ScannerSkipsNothing
  BY <1>1, CoveredOnChain DEF CoverInv, ScannerSkipsNothing
<1>. QED BY <1>2, <1>3

\* The new settlement has passed nothing.
LEMMA CoverInit ==
    ASSUME Init
    PROVE  CoverInv
<1>1. cursor = NoCursor /\ scan = <<>> /\ ~Ingesting
  BY Zenon DEF Init, StoreInit, Ingesting
<1>2. Accounted(<<>>, DOMAIN evidence, {})
  BY DEF Accounted
<1>. QED BY <1>1, <1>2 DEF CoverInv

\* With positions that are near the chain, the rewinds of the engine stay on the branch
\* it has passed.
LEMMA NearRewinds ==
    ASSUME IInv, NearInv
    PROVE  /\ \A safe \in SafeCursors : \A i \in 1 .. Len(safe) : safe[i] = target[i]
           /\ Revalidate => /\ Len(scan') <= Len(scan)
                            /\ \A i \in 1 .. Len(scan') : scan'[i] = scan[i]
<1>0. /\ chain \in Chains /\ scan \in Chains /\ target \in Chains
      /\ Len(chain) \in Nat /\ Len(scan) \in Nat /\ Len(target) \in Nat
      /\ Len(scan) <= Len(chain)
      /\ DOMAIN scan = 1 .. Len(scan) /\ DOMAIN target = 1 .. Len(target)
  BY AreChains, Lengths, ChainIsSeq DEF IInv, ControlInv
<1>1. /\ \A i \in 1 .. Len(scan) : i < Len(scan) => scan[i] = chain[i]
      /\ \A i \in 1 .. Len(target) : i < Len(target) => target[i] = chain[i]
  BY <1>0 DEF NearInv, Near
<1>2. \A safe \in SafeCursors : \A i \in 1 .. Len(safe) : safe[i] = target[i]
  <2> SUFFICES ASSUME NEW safe \in SafeCursors, NEW i \in 1 .. Len(safe) PROVE safe[i] = target[i]
    OBVIOUS
  <2>1. Len(safe) \in Nat
    BY SafeCursorType, ChainIsSeq, MaxHeightAssumption DEF Heights
  <2>2. ASSUME i < Len(target), safe[i] = chain[i] PROVE safe[i] = target[i]
    BY <1>0, <1>1, <2>1, <2>2
  <2>. QED BY <2>2, SafeCursorType
<1>3. ASSUME Revalidate
      PROVE  Len(scan') <= Len(scan) /\ \A i \in 1 .. Len(scan') : scan'[i] = scan[i]
  <2>1. PICK f \in batch :
            /\ f.kind = "RevalidateFrom"
            /\ scan' = IF Floor(f) < Len(scan) THEN SubSeq(chain, 1, Floor(f)) ELSE scan
    BY <1>3 DEF Revalidate
  <2>2. PICK n \in Nat : n = Floor(f)
    BY <2>1, FloorType
  <2>3. CASE ~(n < Len(scan))
    BY <1>0, <2>1, <2>2, <2>3
  <2>4. CASE n < Len(scan)
    <3>1. scan' = SubSeq(chain, 1, n)
      BY <2>1, <2>2, <2>4
    <3>2. Len(scan') = n /\ \A i \in 1 .. n : scan'[i] = chain[i]
      BY <1>0, <2>4, <3>1, FirstBlocks
    <3>. QED BY <1>0, <1>1, <2>4, <3>2
  <2>. QED BY <2>3, <2>4
<1>. QED BY <1>2, <1>3

LEMMA OneBlockInvariant == Spec => [](IInv /\ PosInv /\ (~deep => CoverInv))
<1> DEFINE All == IInv /\ PosInv /\ (~deep => CoverInv)
<1>1. Init => All
  BY InvInit, PosInit, CoverInit
<1>2. All /\ [Next]_vars => All'
  <2>1. SUFFICES ASSUME All, [Next]_vars PROVE All'
    OBVIOUS
  <2>2. IInv' /\ PosInv'
    BY <2>1, InvStep, PosStep
  <2>3. ASSUME ~deep' PROVE CoverInv'
    <3>1. ~deep
      BY <2>1, <2>3, DeepRemains
    <3>2. NearInv /\ CoverInv /\ Followable
      BY <2>1, <3>1 DEF PosInv, Followable
    <3>3. Scan /\ ~IsPrefix(scan, chain) => target' = Front(scan)
      BY <2>1, <3>2, ScanStepsBack
    <3>. QED BY <2>1, <3>2, <3>3, NearRewinds, CoverStep
  <2>. QED BY <2>2, <2>3
<1>3. All => IInv /\ PosInv /\ (~deep => CoverInv)
  OBVIOUS
<1> HIDE DEF All
<1>. QED BY <1>1, <1>2, <1>3, PTL DEF Spec

\* Until a reorg replaces more than one block, and whatever crashes, failed reads and moves of
\* the chain within a tick there are and however few hashes a cursor keeps, the durable cursor
\* covers only positions whose observation of funding or claim has left a row: no crash loses
\* one.
THEOREM CursorIsSafe == Spec => [](~deep => CursorCoversObservations)
<1>1. IInv /\ PosInv /\ (~deep => CoverInv) => (~deep => CursorCoversObservations)
  BY CoverGivesProperties
<1>. QED BY <1>1, OneBlockInvariant, PTL

\* Under the same condition the scanner never passes an observation on the canonical chain
\* without leaving its row, however often it is rewound, restarted or given up half way.
THEOREM ScannerIsComplete == Spec => [](~deep => ScannerSkipsNothing)
<1>1. IInv /\ PosInv /\ (~deep => CoverInv) => (~deep => ScannerSkipsNothing)
  BY CoverGivesProperties
<1>. QED BY <1>1, OneBlockInvariant, PTL

-----------------------------------------------------------------------------
(* The branch the rows are on *)

NoFaults == crashes = 0 /\ failures = 0

\* The evidence names a block of x.
On(ev, x) == ev.height \in DOMAIN x /\ ev = EvidenceAt(x, ev.height)

ReorgAhead == \E r \in records : r.kind = "reorg"

\* The branch of the rows follows a reorg in one transaction, the context in the next.
RowBranch == IF Ingesting /\ (pc = "reorg" \/ ~ReorgAhead) THEN target ELSE scan

CtxBranch == IF Ingesting /\ ~ReorgAhead THEN target ELSE scan

Deciding == pc = "policy" \/ (pc = "drain" /\ after = "policy")

Revalidations == {f \in Pending : f.kind = "RevalidateFrom"}

\* Whatever is not invalidated, parked or held is on one branch.
RowsInv ==
    /\ \A e \in DOMAIN evidence : evidence[e] # "Invalidated" => On(e.evidence, RowBranch)
    /\ \A e \in parked : On(e.evidence, RowBranch)
    /\ \A ev \in pending : On(ev, RowBranch)

\* A revalidation that is due never rewinds the scanner: the reorg record has moved it
\* there already.
DueInv ==
    \A f \in Revalidations :
       \/ Ingesting /\ f \notin leased /\ f.source.from_height = Len(target) + 1
       \/ Deciding /\ f \notin leased /\ f.source.from_height = Len(scan) + 1
       \/ pc = "dispatch" /\ f \in batch /\ f.source.from_height = Len(scan) + 1

BranchInv == RowsInv /\ DueInv

BatchDue == batch \subseteq Pending

\* Branches that agree up to a height have the same evidence there.
LEMMA OnBoth ==
    ASSUME NEW x \in Chains, NEW y \in Chains, NEW n \in Nat, n <= Len(x), n <= Len(y),
           \A i \in 1 .. n : x[i] = y[i], NEW ev, On(ev, x), ev.height <= n
    PROVE  On(ev, y)
<1>1. Len(x) \in Nat /\ Len(y) \in Nat /\ DOMAIN x = 1 .. Len(x) /\ DOMAIN y = 1 .. Len(y)
  BY ChainIsSeq, MaxHeightAssumption DEF Heights
<1>2. PICK h \in 1 .. Len(x) : h = ev.height /\ h \in Nat
  BY <1>1 DEF On
<1>3. h \in 1 .. n /\ h \in DOMAIN y /\ h <= Len(x) /\ h <= Len(y)
  BY <1>1, <1>2
<1>4. \A i \in 1 .. h : x[i] = y[i]
  BY <1>2, <1>3
<1>5. SubSeq(x, 1, h) = SubSeq(y, 1, h)
  BY <1>2, <1>3, <1>4, SameHash
<1>. QED BY <1>2, <1>3, <1>5 DEF On, EvidenceAt

\* What ingest leaves in the tables: the row of the event, and only the event of a reorg
\* asks for a revalidation.
LEMMA IngestLeaves ==
    ASSUME StoreTypeOK, StoreInv, NEW e \in Events, Derived(e),
           NEW cur \in Anchors \cup {NoCursor}, IngestWrite(ctx, Journalled(e), e, cur)
    PROVE  /\ \A x \in DOMAIN evidence' :
                 \/ x = e /\ CarriesEvidence(e)
                 \/ x \in DOMAIN evidence /\ evidence'[x] = evidence[x]
           /\ \A f \in Revalidations' :
                 \/ f \in Revalidations
                 \/ e.kind = "ReorgInvalidated" /\ f.source = e /\ f \notin leased
<1>1. CASE Accepts(ctx, e) /\ CommitTransition(ctx, e, cur)
  <2>1. /\ evidence' = IF CarriesEvidence(e) THEN WithStatus(e, "Applied") ELSE evidence
        /\ DOMAIN outbox' = DOMAIN outbox \cup EffectsOf(ctx, e)
        /\ \A f \in DOMAIN outbox : outbox'[f] = outbox[f]
    BY Zenon, <1>1, CommitFacts
  <2>2. \A x \in DOMAIN evidence' :
          (x = e /\ CarriesEvidence(e)) \/ (x \in DOMAIN evidence /\ evidence'[x] = evidence[x])
    <3>1. CASE CarriesEvidence(e)
      <4>1. evidence' = WithStatus(e, "Applied")
        BY <2>1, <3>1
      <4>2. DOMAIN evidence' = DOMAIN evidence \cup {e}
        BY <4>1 DEF WithStatus
      <4>3. \A x \in DOMAIN evidence : x # e => evidence'[x] = evidence[x]
        BY <4>1 DEF WithStatus
      <4>. QED BY <3>1, <4>2, <4>3
    <3>2. CASE ~CarriesEvidence(e)
      BY <2>1, <3>2
    <3>. QED BY Zenon, <3>1, <3>2
  <2>3. ASSUME NEW f \in Revalidations', f \notin Revalidations
        PROVE  e.kind = "ReorgInvalidated" /\ f.source = e /\ f \notin leased
    <3>1. f \in DOMAIN outbox' /\ outbox'[f] = "Pending" /\ f.kind = "RevalidateFrom"
      BY <2>3 DEF Revalidations, Pending
    <3>2. f \notin DOMAIN outbox
      BY <2>1, <2>3, <3>1 DEF Revalidations, Pending
    <3>3. f \in EffectsOf(ctx, e) /\ f \notin leased
      BY Zenon, <2>1, <3>1, <3>2 DEF StoreTypeOK
    <3>4. PICK k \in EffectKindsOf(ctx, e) : f = [source |-> e, kind |-> k]
      BY Zenon, <3>3 DEF EffectsOf
    <3>5. f.source = e /\ f.kind = k
      BY <3>4
    <3>. QED BY <3>1, <3>3, <3>5 DEF EffectKindsOf
  <2>. QED BY <2>2, <2>3
<1>2. CASE ReaffirmEvidence(e) /\ CarriesEvidence(e)
  BY Zenon, <1>2 DEF ReaffirmEvidence, Revalidations, Pending
<1>3. CASE RecordLateEvidence(e)
  BY Zenon, <1>3 DEF RecordLateEvidence, Revalidations, Pending
<1>4. CASE ParkEvidence(e) /\ CarriesEvidence(e)
  BY <1>4 DEF ParkEvidence, WithStatus, Revalidations, Pending
<1>5. CASE UNCHANGED storeVars
  BY <1>5 DEF storeVars, Revalidations, Pending
<1>. QED BY Zenon, <1>1, <1>2, <1>3, <1>4, <1>5, IngestByOutcome

\* Ingest on the branch of the rows.
LEMMA IngestOnBranch ==
    ASSUME IInv, RowsInv, NEW e \in Events, Derived(e), NEW cur \in Anchors \cup {NoCursor},
           IngestWrite(ctx, Journalled(e), e, cur),
           CarriesEvidence(e) => On(e.evidence, RowBranch), RowBranch' = RowBranch,
           \A x \in parked' : x \in parked \/ (x = e /\ CarriesEvidence(e)),
           \A ev \in pending' : ev \in pending \/ On(ev, RowBranch)
    PROVE  RowsInv'
<1>1. StoreTypeOK /\ StoreInv
  BY TypeIff DEF IInv
<1>2. \A x \in DOMAIN evidence' :
          (x = e /\ CarriesEvidence(e)) \/ (x \in DOMAIN evidence /\ evidence'[x] = evidence[x])
  BY Zenon, <1>1, IngestLeaves
<1> DEFINE b == RowBranch
<1>3. b' = b
  OBVIOUS
<1>4. \A x \in DOMAIN evidence' : evidence'[x] # "Invalidated" => On(x.evidence, b)
  BY Zenon, <1>2 DEF RowsInv
<1>5. \A x \in parked' : On(x.evidence, b)
  BY Zenon DEF RowsInv
<1>6. \A ev \in pending' : On(ev, b)
  BY DEF RowsInv
<1> HIDE DEF b
<1>7. RowBranch' = b
  BY DEF b
<1>. QED BY Zenon, <1>4, <1>5, <1>6, <1>7 DEF RowsInv

\* A step that leaves the rows alone and keeps their branch.
LEMMA RowsFrame ==
    ASSUME RowsInv, UNCHANGED <<evidence, RowBranch>>, parked' \subseteq parked,
           \A ev \in pending' : ev \in pending \/ On(ev, RowBranch)
    PROVE  RowsInv'
BY DEF RowsInv

\* Between ticks the rows are on the branch of the scanner, and no revalidation is due.
LEMMA BranchAtRest ==
    ASSUME BranchInv, pc \in {"idle", "scan"}
    PROVE  RowBranch = scan /\ Revalidations = {}
BY DEF BranchInv, DueInv, Ingesting, Deciding, RowBranch

\* A batch with an observation or a refund has no reorg.
LEMMA BatchAdvances ==
    ASSUME IInv, Ingesting, NEW r \in records, r.kind # "reorg"
    PROVE  /\ Advancing /\ ~ReorgAhead /\ RowBranch = target /\ CtxBranch = target
           /\ r.evidence.height \in DOMAIN target /\ r.kind = target[r.evidence.height].tx
           /\ r = RecordAt(target, r.evidence.height)
           /\ On(r.evidence, target)
<1>1. ~Rewinding
  BY ReorgRewinds
<1>2. Advancing
  BY <1>1 DEF IInv, ControlInv
<1>3. ~ReorgAhead
  BY <1>1, ReorgRewinds DEF ReorgAhead
<1>4. target \in Chains /\ Len(scan) \in Nat /\ Len(target) \in Nat /\ DOMAIN target = 1 .. Len(target)
  BY AreChains, Lengths, ChainIsSeq DEF IInv
<1>5. /\ r.evidence.height \in Len(scan) + 1 .. Len(target)
      /\ r.kind = target[r.evidence.height].tx
      /\ r.evidence = EvidenceAt(target, r.evidence.height)
      /\ r = RecordAt(target, r.evidence.height)
  BY <1>2, <1>4, RecordsType DEF Advancing
<1>6. r.evidence.height \in DOMAIN target
  BY <1>4, <1>5
<1>. QED BY <1>2, <1>3, <1>5, <1>6 DEF On, RowBranch, CtxBranch

LEMMA BranchScan ==
    ASSUME IInv, BranchInv, Scan
    PROVE  BranchInv'
<1>0. chain \in Chains /\ scan \in Chains /\ Len(scan) \in Nat /\ DOMAIN scan = 1 .. Len(scan)
  BY AreChains, Lengths, ChainIsSeq DEF IInv
<1>1. UNCHANGED <<evidence, outbox, parked, pending, scan>> /\ pc \in {"idle", "scan"} /\ pc' = "records"
  BY DEF Scan, storeVars
<1>2. RowBranch = scan /\ Revalidations = {} /\ Revalidations' = {}
  BY <1>1, BranchAtRest DEF Revalidations, Pending
<1>3. CASE IsPrefix(scan, chain) /\ target' = chain /\ records' = RecordsAbove(chain, Len(scan))
  <2>1. RowBranch' = chain
    <3>1. \A r \in RecordsAbove(chain, Len(scan)) : r.kind # "reorg"
      BY <1>0, RecordsType
    <3>. QED BY <1>1, <1>3, <3>1 DEF RowBranch, ReorgAhead, Ingesting
  <2>2. Len(scan) <= Len(chain) /\ \A i \in 1 .. Len(scan) : scan[i] = chain[i]
    BY <1>0, <1>3, PrefixIff
  <2>3. ASSUME NEW ev, On(ev, scan) PROVE On(ev, chain)
    <3>1. ev.height <= Len(scan)
      BY <1>0, <2>3 DEF On
    <3>. QED BY <1>0, <2>2, <2>3, <3>1, OnBoth
  <2>4. RowsInv'
    BY <1>1, <1>2, <2>1, <2>3 DEF RowsInv, BranchInv
  <2>. QED BY <1>2, <2>4 DEF BranchInv, DueInv
<1>4. CASE records' = {ReorgOf(scan)}
  <2>1. RowBranch' = scan
    BY <1>1, <1>4 DEF RowBranch, ReorgAhead, ReorgOf
  <2>2. RowsInv'
    BY <1>1, <1>2, <2>1, RowsFrame DEF BranchInv
  <2>. QED BY <1>2, <2>2 DEF BranchInv, DueInv
<1>. QED BY <1>3, <1>4, ScanIs

\* The first transaction of a reorg takes the rows to the branch below the lost block.
LEMMA BranchReorgRecord ==
    ASSUME IInv, BranchInv, BackInv, ReorgRecord
    PROVE  BranchInv'
<1>1. PICK r \in records :
          /\ NextRecord(r) /\ r.kind = "reorg"
          /\ InvalidateEvidenceFrom(r.evidence.height)
          /\ pending' = {ev \in pending : ev.height < r.evidence.height}
          /\ parked' = {e \in parked : e.evidence.height < r.evidence.height}
  BY DEF ReorgRecord
<1>2. pc = "records" /\ pc' = "reorg" /\ UNCHANGED <<scan, target, records, after, batch>>
  BY <1>1 DEF ReorgRecord, NextRecord, scanVars, drainVars
<1>3. Ingesting /\ Ingesting'
  BY <1>2 DEF Ingesting
<1>4. Rewinding /\ r.evidence.height = Len(scan) /\ Len(scan) \in Nat \ {0}
  BY <1>1, <1>3, ReorgRewinds
<1>5. RowBranch = scan /\ RowBranch' = target
  BY <1>1, <1>2, <1>3 DEF RowBranch, ReorgAhead
<1>6. /\ scan \in Chains /\ target \in Chains /\ Len(target) = Len(scan) - 1
      /\ \A i \in 1 .. Len(scan) - 1 : scan[i] = target[i]
  <2>1. scan \in Chains /\ target \in Chains /\ scan # <<>> /\ Len(target) = Len(scan) - 1
    BY <1>4, AreChains DEF IInv, Rewinding
  <2>2. target = Front(scan)
    BY <1>3, <1>4, <2>1 DEF BackInv
  <2>. QED BY <2>1, <2>2, FrontIs
<1>7. ASSUME NEW ev, On(ev, scan), ev.height < Len(scan) PROVE On(ev, target)
  <2>1. PICK n \in Nat : n = Len(scan) - 1
    BY <1>4
  <2>2. ev.height \in 1 .. Len(scan)
    BY <1>6, <1>7, ChainIsSeq DEF On
  <2>3. ev.height <= n /\ n <= Len(scan) /\ n <= Len(target)
    BY SMT, SMTT(30), <1>4, <1>6, <1>7, <2>1, <2>2
  <2>. QED BY <1>6, <1>7, <2>1, <2>3, OnBoth
<1>8. \A e \in DOMAIN evidence' :
          evidence'[e] # "Invalidated" => /\ e \in DOMAIN evidence /\ evidence[e] # "Invalidated"
                                          /\ ~(e.evidence.height >= Len(scan))
  BY <1>1, <1>4 DEF InvalidateEvidenceFrom
<1>9. \A e \in DOMAIN evidence' : evidence'[e] # "Invalidated" => On(e.evidence, target)
  <2>1. ASSUME NEW e \in DOMAIN evidence', evidence'[e] # "Invalidated" PROVE On(e.evidence, target)
    <3>1. On(e.evidence, scan) /\ ~(e.evidence.height >= Len(scan))
      BY <1>5, <1>8, <2>1 DEF BranchInv, RowsInv
    <3>2. e.evidence.height \in 1 .. Len(scan)
      BY <1>6, <3>1, ChainIsSeq DEF On
    <3>3. e.evidence.height < Len(scan)
      BY <1>4, <3>1, <3>2
    <3>. QED BY <1>7, <3>1, <3>3
  <2>. QED BY <2>1
<1>10. (\A e \in parked' : On(e.evidence, target)) /\ (\A ev \in pending' : On(ev, target))
  BY <1>1, <1>4, <1>5, <1>7 DEF BranchInv, RowsInv
<1>11. RowsInv'
  BY <1>2, <1>5, <1>9, <1>10 DEF RowsInv
<1>12. Revalidations' = Revalidations /\ leased' = leased
  BY <1>1 DEF InvalidateEvidenceFrom, Revalidations, Pending
<1>13. DueInv'
  BY <1>2, <1>3, <1>12 DEF BranchInv, DueInv, Deciding
<1>. QED BY <1>11, <1>13 DEF BranchInv

\* The second one tells the machine, and asks for a revalidation from the lost block.
LEMMA BranchIngestReorg ==
    ASSUME IInv, BranchInv, IngestReorg
    PROVE  BranchInv'
<1>0. StoreTypeOK /\ StoreInv /\ EngineType /\ ControlInv
  BY TypeIff DEF IInv
<1>1. PICK r \in records :
          /\ Ingest([kind |-> "ReorgInvalidated", from_height |-> r.evidence.height,
                      old_anchor |-> r.evidence.anchor], NoCursor, "records")
          /\ records' = records \ {r}
  BY DEF IngestReorg
<1> DEFINE e == [kind |-> "ReorgInvalidated", from_height |-> r.evidence.height,
                 old_anchor |-> r.evidence.anchor]
<1>2. /\ e \in Events /\ e.kind = "ReorgInvalidated" /\ e.from_height = r.evidence.height
      /\ Derived(e) /\ ~CarriesEvidence(e)
  BY Zenon, <1>0 DEF EngineType, Evidence, Events, Derived, CarriesEvidence, EvidenceKinds
<1>3. Ingest(e, NoCursor, "records")
  BY <1>1
<1>4. pc = "reorg" /\ UNCHANGED <<scan, target, pending, batch>>
  BY DEF IngestReorg
<1> HIDE DEF e
<1>5. Ingesting
  BY <1>4 DEF Ingesting
<1>6. records = {r} /\ r.evidence.height = Len(scan) /\ Len(target) = Len(scan) - 1 /\ Len(scan) \in Nat
  BY <1>4, <1>5, ReorgRewinds
<1>7. /\ leased' = leased
      /\ \/ pc' = "drain" /\ after' = "records"
         \/ pc' = "records"
  BY <1>2, <1>3, <1>4, IngestKeeps
<1>8. Ingesting' /\ RowBranch = target /\ RowBranch' = target
  BY <1>1, <1>4, <1>5, <1>6, <1>7 DEF Ingesting, RowBranch, ReorgAhead
<1>9. IngestWrite(ctx, Journalled(e), e, NoCursor) /\ parked' \subseteq parked \cup {e}
  BY <1>3 DEF Ingest
<1>10. parked' \subseteq parked
  <2>1. Outcome(e) # "Parked"
    BY <1>0, <1>2, DerivedIsNotRejected
  <2>. QED BY <1>3, <2>1 DEF Ingest
<1>11. RowsInv'
  BY Zenon, <1>2, <1>4, <1>8, <1>9, <1>10, IngestOnBranch DEF BranchInv
<1>12. \A f \in Revalidations' : \/ f \in Revalidations
                                 \/ f.source = e /\ f \notin leased
  BY Zenon, <1>0, <1>2, <1>9, IngestLeaves
<1>13. ASSUME NEW f \in Revalidations'
       PROVE  f \notin leased' /\ f.source.from_height = Len(target') + 1
  <2>1. CASE f \in Revalidations
    BY <1>4, <1>5, <1>7, <2>1 DEF BranchInv, DueInv, Deciding
  <2>2. CASE f.source = e /\ f \notin leased
    BY <1>2, <1>4, <1>6, <1>7, <2>2
  <2>. QED BY <1>12, <2>1, <2>2
<1>. QED BY <1>8, <1>11, <1>13 DEF BranchInv, DueInv

LEMMA BranchObservation ==
    ASSUME IInv, BranchInv, IngestObservation \/ HoldRefund
    PROVE  BranchInv'
<1>0. StoreTypeOK /\ StoreInv /\ EngineType /\ ControlInv
  BY TypeIff DEF IInv
<1>1. PICK r \in records : /\ NextRecord(r) /\ r.kind \in {"funding", "claim", "refund"}
                           /\ records' = records \ {r}
                           /\ \/ /\ r.kind # "refund" /\ pending' = pending
                                 /\ \E safe \in SafeCursors :
                                        Ingest(Observed(EventKind(r), r.evidence),
                                           IF IsLastObservation(r) THEN safe ELSE NoCursor, "records")
                              \/ /\ HoldRefund /\ pending' = pending \cup {r.evidence}
  BY DEF IngestObservation, HoldRefund
<1>2. pc = "records" /\ UNCHANGED <<scan, target, batch>> /\ Ingesting
  BY Zenon, <1>1 DEF IngestObservation, HoldRefund, NextRecord, Ingesting
<1>3. RowBranch = target /\ ~ReorgAhead /\ On(r.evidence, target)
  BY Zenon, <1>1, <1>2, BatchAdvances
<1>4. ~ReorgAhead'
  BY <1>1, <1>3 DEF ReorgAhead
<1>5. CASE HoldRefund
  <2>1. UNCHANGED <<evidence, outbox, leased, parked, pc>>
    BY <1>5 DEF HoldRefund, storeVars
  <2>2. Ingesting' /\ RowBranch' = target
    BY <1>2, <1>4, <2>1 DEF Ingesting, RowBranch
  <2>3. \A ev \in pending' : ev \in pending \/ On(ev, RowBranch)
    BY <1>1, <1>3
  <2>4. RowsInv'
    BY <1>3, <2>1, <2>2, <2>3, RowsFrame DEF BranchInv
  <2>5. Revalidations' = Revalidations
    BY <2>1 DEF Revalidations, Pending
  <2>6. DueInv'
    BY <1>2, <2>1, <2>2, <2>5 DEF BranchInv, DueInv, Deciding
  <2>. QED BY <2>4, <2>6 DEF BranchInv
<1>6. CASE r.kind # "refund" /\ pending' = pending
           /\ \E safe \in SafeCursors :
                 Ingest(Observed(EventKind(r), r.evidence),
                     IF IsLastObservation(r) THEN safe ELSE NoCursor, "records")
  <2>0. PICK safe \in SafeCursors :
            Ingest(Observed(EventKind(r), r.evidence),
                   IF IsLastObservation(r) THEN safe ELSE NoCursor, "records")
    BY <1>6
  <2> DEFINE e == Observed(EventKind(r), r.evidence)
             cur == IF IsLastObservation(r) THEN safe ELSE NoCursor
  <2>1. EventKind(r) \in EvidenceKinds /\ EventKind(r) \in ParkedKinds /\ r.evidence \in Evidence
    BY <1>0, <1>1 DEF EngineType, EventKind, EvidenceKinds, ParkedKinds
  <2>2. /\ e \in Events /\ Derived(e) /\ CarriesEvidence(e) /\ e.evidence = r.evidence
        /\ e.kind # "ReorgInvalidated"
    BY Zenon, <2>1, ObservedType DEF Derived, ParkedKinds
  <2>3. cur \in Anchors \cup {NoCursor} /\ (cur # NoCursor => Len(cur) <= Len(chain))
    BY SafeCursorType
  <2>4. Ingest(e, cur, "records")
    BY <2>0
  <2> HIDE DEF e, cur
  <2>5. /\ leased' = leased
        /\ \/ pc' = "drain" /\ after' = "records"
           \/ pc' = "records"
    BY Zenon, <1>2, <2>2, <2>3, <2>4, IngestKeeps
  <2>6. Ingesting' /\ RowBranch' = target
    BY <1>2, <1>4, <2>5 DEF Ingesting, RowBranch
  <2>7. IngestWrite(ctx, Journalled(e), e, cur) /\ \A x \in parked' : x \in parked \/ x = e
    BY <2>4 DEF Ingest
  <2>8. RowsInv'
    BY Zenon, <1>3, <1>6, <2>2, <2>3, <2>6, <2>7, IngestOnBranch DEF BranchInv
  <2>9. Revalidations' \subseteq Revalidations
    BY Zenon, <1>0, <2>2, <2>3, <2>7, IngestLeaves
  <2>10. DueInv'
    BY Zenon, <1>2, <2>5, <2>6, <2>9 DEF BranchInv, DueInv, Deciding
  <2>. QED BY <2>8, <2>10 DEF BranchInv
<1>. QED BY <1>1, <1>5, <1>6

\* The drain applies what is parked, on the same branch.
LEMMA BranchDrain ==
    ASSUME IInv, BranchInv, Drain
    PROVE  BranchInv' /\ RowBranch' = RowBranch /\ CtxBranch' = CtxBranch
           /\ (Ingesting' <=> Ingesting) /\ (Deciding' <=> Deciding)
<1>0. StoreTypeOK /\ StoreInv /\ EngineType /\ ControlInv
  BY TypeIff DEF IInv
<1>1. PICK e \in todo : /\ IngestWrite(ctx, Journalled(e), e, NoCursor)
                        /\ parked' \subseteq parked
  BY Zenon DEF Drain
<1>2. pc = "drain" /\ UNCHANGED <<scan, target, records, pending, batch>>
  BY Zenon DEF Drain, scanVars
<1>3. e \in parked /\ e.kind \in ParkedKinds /\ e \in Events
  BY Zenon, <1>0, <1>1 DEF EngineType, ControlInv, StoreTypeOK, Events
<1>4. (pc' = after /\ after' = "idle") \/ (pc' = "drain" /\ after' = after)
  <2>1. ~Fails(e)
    BY <1>0, <1>3, DerivedIsNotRejected DEF Derived
  <2>2. \E x \in todo : \/ Fails(x)
                        \/ pc' = after /\ after' = "idle"
                        \/ pc' = "drain" /\ after' = after
    BY Zenon DEF Drain
  <2>3. \A x \in todo : ~Fails(x)
    BY Zenon, <1>0, DerivedIsNotRejected DEF Derived, EngineType, ControlInv, StoreTypeOK, Events
  <2>. QED BY <2>2, <2>3
<1>5. after \in {"idle", "scan", "records", "policy"}
  BY <1>0 DEF EngineType
<1>6. (Ingesting' <=> Ingesting) /\ (Deciding' <=> Deciding) /\ pc # "reorg" /\ pc' # "reorg"
  BY <1>2, <1>4, <1>5 DEF Ingesting, Deciding
<1>7. RowBranch' = RowBranch /\ CtxBranch' = CtxBranch
  BY <1>2, <1>6 DEF RowBranch, CtxBranch, ReorgAhead
<1>8. On(e.evidence, RowBranch)
  BY <1>3 DEF BranchInv, RowsInv
<1>9. RowsInv'
  BY <1>1, <1>2, <1>3, <1>7, <1>8, IngestOnBranch DEF BranchInv, Derived
<1>10. Revalidations' \subseteq Revalidations /\ leased' = leased
  BY Zenon, <1>0, <1>1, <1>3, IngestLeaves, IngestStep DEF Derived, ParkedKinds
<1>11. DueInv'
  BY <1>2, <1>6, <1>10 DEF BranchInv, DueInv
<1>. QED BY <1>6, <1>7, <1>9, <1>11 DEF BranchInv

LEMMA BranchReadTip ==
    ASSUME IInv, BranchInv, ReadTip
    PROVE  BranchInv'
<1>1. /\ pc = "records" /\ records = {} /\ pc' = "policy" /\ scan' = target
      /\ UNCHANGED <<evidence, outbox, leased, parked, pending>>
  BY DEF ReadTip, storeVars
<1>2. Ingesting /\ ~Ingesting' /\ Deciding' /\ RowBranch = target /\ RowBranch' = target
  BY <1>1 DEF Ingesting, Deciding, RowBranch, ReorgAhead
<1>3. RowsInv'
  BY <1>1, <1>2, RowsFrame DEF BranchInv
<1>4. Revalidations' = Revalidations
  BY <1>1 DEF Revalidations, Pending
<1>5. DueInv'
  BY <1>1, <1>2, <1>4 DEF BranchInv, DueInv, Deciding
<1>. QED BY <1>3, <1>5 DEF BranchInv

\* The policy confirms rows and refunds of the branch the scanner is on.
LEMMA BranchPolicy ==
    ASSUME IInv, BranchInv, Policy
    PROVE  BranchInv' /\ RowBranch' = RowBranch /\ Deciding' /\ scan' = scan
<1>0. StoreTypeOK /\ StoreInv /\ EngineType /\ ControlInv
  BY TypeIff DEF IInv
<1>1. PICK e \in PolicyEvents : Ingest(e, NoCursor, "policy") /\ pending' \subseteq pending
  BY DEF Policy
<1>2. pc = "policy" /\ UNCHANGED <<scan, target, records, batch>>
  BY DEF Policy, scanVars
<1>3. e \in Events /\ Derived(e)
  BY PolicyDerives
<1>4. RowBranch = scan
  BY <1>2 DEF RowBranch, Ingesting
<1>5. CarriesEvidence(e) => On(e.evidence, scan)
  <2>1. ASSUME NEW k \in EvidenceKinds, NEW hs, NEW ev \in Latest(k, hs) PROVE On(ev, scan) /\ ev \in Evidence
    <3>1. PICK x \in DOMAIN evidence : evidence[x] = "Applied" /\ x.evidence = ev
      BY DEF Latest, Rows
    <3>. QED BY <1>0, <1>4, <3>1 DEF BranchInv, RowsInv, StoreTypeOK, EvidenceEvents
  <2>2. CASE \E ev \in FinalFunding : e = Observed("FundingConfirmed", ev)
    BY <2>1, <2>2 DEF FinalFunding, Observed, EvidenceKinds
  <2>3. CASE \E ev \in FinalClaims : e = Observed("ClaimConfirmed", ev)
    <3>1. PICK ev \in FinalClaims : e = Observed("ClaimConfirmed", ev)
      BY <2>3
    <3>2. On(ev, scan)
      BY Zenon, <2>1 DEF FinalClaims, EvidenceKinds
    <3>3. e.evidence = ev
      BY <3>1 DEF Observed
    <3>. QED BY Zenon, <3>2, <3>3
  <2>4. CASE \E ev \in FinalRefunds : e = Observed("RefundConfirmed", ev)
    <3>1. PICK ev \in FinalRefunds : e = Observed("RefundConfirmed", ev)
      BY <2>4
    <3>2. On(ev, scan)
      BY Zenon, <1>4 DEF FinalRefunds, BranchInv, RowsInv
    <3>3. e.evidence = ev
      BY <3>1 DEF Observed
    <3>. QED BY Zenon, <3>2, <3>3
  <2>5. CASE e.kind \in {"FundingAbsent", "TimelockExpired"}
    BY <2>5 DEF CarriesEvidence, EvidenceKinds
  <2>. QED BY SMT, SMTT(30), <2>2, <2>3, <2>4, <2>5, PolicyDerives
<1>6. e.kind # "ReorgInvalidated"
  BY PolicyDerives DEF Observed
<1>7. /\ leased' = leased
      /\ \/ pc' = "drain" /\ after' = "policy"
         \/ pc' = "policy"
  BY <1>1, <1>2, <1>3, IngestKeeps
<1>8. Deciding' /\ ~Ingesting' /\ RowBranch' = scan
  BY <1>2, <1>7 DEF Deciding, Ingesting, RowBranch
<1>9. IngestWrite(ctx, Journalled(e), e, NoCursor)
      /\ \A x \in parked' : x \in parked \/ (x = e /\ CarriesEvidence(e))
  BY <1>0, <1>1, <1>3, DerivedIsNotRejected DEF Ingest
<1>10. RowsInv'
  BY <1>1, <1>3, <1>4, <1>5, <1>8, <1>9, IngestOnBranch DEF BranchInv
<1>11. Revalidations' \subseteq Revalidations
  BY Zenon, <1>0, <1>3, <1>6, <1>9, IngestLeaves
<1>12. DueInv'
  BY <1>2, <1>7, <1>8, <1>11 DEF BranchInv, DueInv, Deciding, Ingesting
<1>. QED BY <1>2, <1>4, <1>8, <1>10, <1>12 DEF BranchInv

\* The dispatch leases all that is due.
LEMMA BranchClaimEffects ==
    ASSUME IInv, BranchInv, ClaimEffects
    PROVE  BranchInv'
<1>1. /\ pc = "policy" /\ batch' = Ready /\ pc' = (IF Ready = {} THEN "idle" ELSE "dispatch")
      /\ UNCHANGED <<evidence, outbox, parked, pending, scan, target, records>>
  BY DEF ClaimEffects, ClaimReady, scanVars
<1>2. RowBranch = scan /\ RowBranch' = scan
  BY <1>1 DEF RowBranch, Ingesting
<1>3. RowsInv'
  BY <1>1, <1>2, RowsFrame DEF BranchInv
<1>4. Revalidations' = Revalidations /\ Revalidations \subseteq Pending
  BY <1>1 DEF Revalidations, Pending
<1>5. \A f \in Revalidations : f \in Ready /\ f.source.from_height = Len(scan) + 1
  BY <1>1, <1>4 DEF BranchInv, DueInv, Ingesting, Ready
<1>6. DueInv'
  BY <1>1, <1>4, <1>5 DEF DueInv
<1>. QED BY <1>3, <1>6 DEF BranchInv

\* A revalidation finds the scanner where it would put it.
LEMMA BranchDispatch ==
    ASSUME IInv, BranchInv, BatchDue, Revalidate \/ Execute
    PROVE  BranchInv' /\ scan' = scan
<1>0. StoreTypeOK /\ EngineType /\ Len(scan) \in Nat
  BY TypeIff, Lengths DEF IInv
<1>1. PICK f \in batch :
          /\ Take(f) /\ Finish(f)
          /\ \/ /\ f.kind = "RevalidateFrom" /\ CompleteEffect(f)
                /\ scan' = IF Floor(f) < Len(scan) THEN SubSeq(chain, 1, Floor(f)) ELSE scan
             \/ /\ f.kind # "RevalidateFrom" /\ scan' = scan
                /\ CompleteEffect(f) \/ UNCHANGED storeVars
  BY DEF Revalidate, Execute, scanVars
<1>2. UNCHANGED <<parked, pending, target, records, after>>
  BY DEF Revalidate, Execute, scanVars, drainVars
<1>3. /\ pc = "dispatch" /\ batch' = batch \ {f} /\ pc' = (IF batch = {f} THEN "idle" ELSE "dispatch")
  BY <1>1 DEF Take, Finish
<1>4. evidence' = evidence /\ f \in DOMAIN outbox /\ f \in leased
  BY <1>0, <1>1 DEF CompleteEffect, storeVars, EngineType, StoreTypeOK
<1>5. /\ DOMAIN outbox' = DOMAIN outbox
      /\ \A g \in DOMAIN outbox : outbox'[g] = outbox[g] \/ g = f
      /\ f.kind = "RevalidateFrom" => outbox'[f] = "Completed"
  BY <1>1, <1>4 DEF CompleteEffect, storeVars
<1>6. Revalidations' \subseteq Revalidations \ {f}
  BY <1>5 DEF Revalidations, Pending
<1>7. \A g \in Revalidations : g \in batch /\ g.source.from_height = Len(scan) + 1
  BY <1>3 DEF BranchInv, DueInv, Ingesting, Deciding
<1>8. scan' = scan
  <2>1. CASE f.kind = "RevalidateFrom" /\ outbox[f] = "Pending"
    <3>1. f.source.from_height = Len(scan) + 1
      BY <1>4, <1>7, <2>1 DEF Revalidations, Pending
    <3>2. Floor(f) = Len(scan)
      BY <1>0, <3>1 DEF Floor
    <3>. QED BY <1>0, <1>1, <2>1, <3>2
  <2>2. CASE f.kind # "RevalidateFrom"
    BY <1>1, <2>2
  <2>3. outbox[f] = "Pending"
    BY <1>1 DEF BatchDue, Pending
  <2>. QED BY <2>1, <2>2, <2>3
<1>9. RowBranch = scan /\ RowBranch' = scan
  BY <1>3, <1>8 DEF RowBranch, Ingesting
<1>10. RowsInv'
  BY <1>2, <1>4, <1>9, RowsFrame DEF BranchInv
<1>11. DueInv'
  BY <1>3, <1>6, <1>7, <1>8 DEF DueInv
<1>. QED BY <1>8, <1>10, <1>11 DEF BranchInv

\* The steps outside a tick, and those of the chain.
LEMMA BranchRest ==
    ASSUME IInv, BranchInv, ArmRefund \/ DrainFirst \/ Expire \/ Mine \/ Reorg \/ Reactivate \/ UNCHANGED vars
    PROVE  BranchInv'
<1>0. StoreTypeOK /\ StoreInv
  BY TypeIff DEF IInv
<1>1. CASE ArmRefund
  <2> DEFINE e == [kind |-> "RefundArmed"]
  <2>1. e \in Events /\ e.kind = "RefundArmed" /\ ~CarriesEvidence(e)
    BY DEF Events, CarriesEvidence, EvidenceKinds
  <2>2. pc = "idle" /\ ctx.state = "Preparing" /\ UNCHANGED <<scan, target, records, pending, batch>>
        /\ Ingest(e, NoCursor, "idle")
    BY <1>1 DEF ArmRefund, scanVars
  <2>3. Accepts(ctx, e)
    BY <2>1, <2>2 DEF Accepts, Verdict, LegalKinds, IsTerminal, TerminalStates
  <2>4. Derived(e)
    BY <2>3 DEF Derived
  <2> HIDE DEF e
  <2>5. RowBranch = scan /\ Revalidations = {}
    BY <2>2, BranchAtRest
  <2>6. IngestWrite(ctx, Journalled(e), e, NoCursor) /\ parked' = parked
    BY <1>0, <2>1, <2>2, <2>4, DerivedIsNotRejected DEF Ingest
  <2>7. (pc' = "drain" /\ after' = "idle") \/ pc' \in {"idle", "failed"}
    BY <2>2 DEF Ingest
  <2>8. ~Ingesting' /\ RowBranch' = scan
    BY <2>2, <2>7 DEF Ingesting, RowBranch
  <2>9. RowsInv'
    BY <2>1, <2>2, <2>4, <2>5, <2>6, <2>8, IngestOnBranch DEF BranchInv
  <2>10. Revalidations' = {}
    BY <1>0, <2>1, <2>4, <2>5, <2>6, IngestLeaves
  <2>. QED BY <2>9, <2>10 DEF BranchInv, DueInv
<1>2. CASE DrainFirst
  <2>1. /\ pc = "idle" /\ pc' = "drain" /\ after' = "scan"
        /\ UNCHANGED <<evidence, outbox, parked, pending, scan>>
    BY <1>2 DEF DrainFirst, storeVars, scanVars
  <2>2. RowBranch = scan /\ Revalidations = {} /\ Revalidations' = {} /\ RowBranch' = scan
    BY <2>1, BranchAtRest DEF Revalidations, Pending, RowBranch, Ingesting
  <2>3. RowsInv'
    BY <2>1, <2>2, RowsFrame DEF BranchInv
  <2>. QED BY <2>2, <2>3 DEF BranchInv, DueInv
<1>3. CASE Expire
  <2>1. /\ pc = "idle" /\ pc' = "idle"
        /\ UNCHANGED <<evidence, outbox, parked, pending, scan>>
    BY <1>3 DEF Expire, LeaseExpires, engineVars, scanVars
  <2>2. RowBranch = scan /\ Revalidations = {} /\ Revalidations' = {} /\ RowBranch' = scan
    BY <2>1, BranchAtRest DEF Revalidations, Pending, RowBranch, Ingesting
  <2>3. RowsInv'
    BY <2>1, <2>2, RowsFrame DEF BranchInv
  <2>. QED BY <2>2, <2>3 DEF BranchInv, DueInv
<1>4. CASE Mine \/ Reorg \/ Reactivate \/ UNCHANGED vars
  <2>1. UNCHANGED <<evidence, outbox, leased, parked, pending, scan, target, records, pc, after, batch>>
    BY Zenon, <1>4 DEF Mine, Reorg, Reactivate, vars, engineVars, storeVars, scanVars, drainVars
  <2>2. UNCHANGED <<Ingesting, Deciding, RowBranch, Revalidations>>
    BY Zenon, <2>1 DEF Ingesting, Deciding, RowBranch, ReorgAhead, Revalidations, Pending
  <2>3. RowsInv'
    BY <2>1, <2>2, RowsFrame DEF BranchInv
  <2>4. DueInv'
    BY <2>1, <2>2 DEF BranchInv, DueInv
  <2>. QED BY <2>3, <2>4 DEF BranchInv
<1>. QED BY <1>1, <1>2, <1>3, <1>4

\* Whatever is claimed is still to be done.
LEMMA BatchDueStep ==
    ASSUME IInv, BatchDue, [Next]_vars
    PROVE  BatchDue'
<1>0. StoreTypeOK /\ EngineType /\ ControlInv /\ ControlInv'
  BY TypeIff, InvStep, InvNext DEF IInv
<1>1. CASE pc' # "dispatch"
  BY <1>0, <1>1 DEF ControlInv, BatchDue
<1>2. CASE ClaimEffects
  BY <1>2 DEF ClaimEffects, ClaimReady, Ready, Pending, BatchDue
<1>3. CASE Revalidate \/ Execute
  <2>1. PICK f \in batch : Finish(f) /\ (CompleteEffect(f) \/ UNCHANGED storeVars)
    BY <1>3 DEF Revalidate, Execute
  <2>2. \A g \in DOMAIN outbox : g # f => g \in DOMAIN outbox' /\ outbox'[g] = outbox[g]
    BY <2>1 DEF CompleteEffect, storeVars
  <2>. QED BY <2>1, <2>2 DEF Finish, BatchDue, Pending
<1>4. CASE UNCHANGED <<batch, outbox>>
  BY <1>4 DEF BatchDue, Pending
<1>5. ASSUME pc' = "dispatch", ~ClaimEffects, ~Revalidate, ~Execute
      PROVE  UNCHANGED <<batch, outbox>>
  <2>1. CASE ArmRefund \/ DrainFirst \/ Scan \/ ReorgRecord \/ IngestReorg \/ IngestObservation \/ ReadTip
    BY Zenon, <1>5, <2>1 DEF ArmRefund, DrainFirst, Scan, ReorgRecord, IngestReorg, IngestObservation,
                      ReadTip, Ingest
  <2>2. CASE HoldRefund \/ Policy \/ Expire \/ ReadFails \/ Crash
    BY Zenon, <1>5, <2>2 DEF HoldRefund, NextRecord, Policy, Ingest, Expire, ReadFails, Crash, engineVars
  <2>3. CASE Drain
    BY Zenon, <1>0, <1>5, <2>3 DEF Drain, EngineType
  <2>4. CASE Mine \/ Reorg \/ Reactivate \/ UNCHANGED vars
    BY Zenon, <2>4 DEF Mine, Reorg, Reactivate, vars, engineVars, storeVars
  <2>. QED BY <1>5, <2>1, <2>2, <2>3, <2>4 DEF Next, EngineStep
<1>. QED BY <1>1, <1>2, <1>3, <1>4, <1>5

\* Without faults, as long as the scanner steps back on its branch, the rows stay on one
\* branch and the revalidations find nothing to rewind.
LEMMA BranchStep ==
    ASSUME IInv, BranchInv, BackInv, BatchDue, [Next]_vars, ~ReadFails, ~Crash
    PROVE  BranchInv'
<1>1. CASE Scan \/ ReorgRecord \/ IngestReorg
  BY <1>1, BranchScan, BranchReorgRecord, BranchIngestReorg
<1>2. CASE IngestObservation \/ HoldRefund \/ Drain \/ ReadTip \/ Policy
  BY <1>2, BranchObservation, BranchDrain, BranchReadTip, BranchPolicy
<1>3. CASE ClaimEffects \/ Revalidate \/ Execute
  BY <1>3, BranchClaimEffects, BranchDispatch
<1>4. CASE ArmRefund \/ DrainFirst \/ Expire \/ Mine \/ Reorg \/ Reactivate \/ UNCHANGED vars
  BY <1>4, BranchRest
<1>. QED BY <1>1, <1>2, <1>3, <1>4 DEF Next, EngineStep

-----------------------------------------------------------------------------
(* A daemon that has met no fault, and a chain that stands still while it ticks *)

LEMMA NoFaultSteps ==
    ASSUME IInv, [Next]_vars, NoFaults'
    PROVE  NoFaults /\ ~ReadFails /\ ~Crash
<1>1. crashes \in Nat /\ failures \in Nat
  BY EngineAssumption DEF IInv, TypeOK
<1>2. ~ReadFails /\ ~Crash
  BY <1>1 DEF ReadFails, Crash, NoFaults
<1>3. UNCHANGED <<crashes, failures>>
  <2>1. CASE Mine \/ Reorg \/ Reactivate
    BY Zenon, <2>1 DEF Mine, Reorg, Reactivate, Moved
  <2>2. CASE ~(Mine \/ Reorg \/ Reactivate)
    BY Zenon, <1>2, <2>2, FaultFrame DEF faultVars
  <2>. QED BY <2>1, <2>2
<1>. QED BY <1>2, <1>3 DEF NoFaults

\* Until the chain has moved while a tick ran, it moves between ticks only.
LEMMA ChainStands ==
    ASSUME IInv, [Next]_vars, moves' = 0
    PROVE  moves = 0 /\ (pc # "idle" => chain' = chain)
<1>0. moves \in Nat
  BY EngineAssumption DEF IInv, TypeOK
<1>1. CASE Mine \/ Reorg \/ Reactivate
  <2>1. moves' = IF pc = "idle" THEN moves ELSE moves + 1
    BY <1>1 DEF Mine, Reorg, Reactivate, Moved
  <2>. QED BY <1>0, <2>1
<1>2. CASE ~(Mine \/ Reorg \/ Reactivate)
  <2>1. moves' = moves
    BY Zenon, <1>2, FaultFrame DEF faultVars, ReadFails, Crash
  <2>. QED BY <1>2, <2>1, OnlyMovesChangeTheChain
<1>. QED BY <1>1, <1>2

\* A batch that goes forward is up to date while it is ingested.
StillInv == Ingesting /\ IsPrefix(scan, target) => target = chain

LEMMA StillStep ==
    ASSUME IInv, StillInv, [Next]_vars, moves' = 0
    PROVE  StillInv'
<1>1. CASE Scan
  <2>1. UNCHANGED <<scan, chain>>
    BY <1>1 DEF Scan, chainVars
  <2>2. CASE target' = chain
    BY <2>1, <2>2 DEF StillInv
  <2>3. CASE scan # <<>> /\ Len(target') = Len(scan) - 1
    <3>1. scan \in Chains /\ Len(scan) \in Nat /\ target' \in Chains
      BY <1>1, AreChains, Lengths, ScanIs DEF IInv
    <3>2. PICK y \in Chains : y = target' /\ Len(y) = Len(scan) - 1
      BY <2>3, <3>1
    <3>3. ~IsPrefix(scan, y)
      BY <3>1, <3>2, PrefixIff
    <3>. QED BY <2>1, <3>2, <3>3 DEF StillInv
  <2>. QED BY <1>1, <2>2, <2>3, ScanIs
<1>2. CASE ~Scan
  <2>1. SUFFICES ASSUME Ingesting', IsPrefix(scan', target') PROVE target' = chain'
    BY DEF StillInv
  <2>2. Ingesting /\ UNCHANGED <<scan, target>>
    BY <1>2, <2>1, IngestingStays
  <2>3. chain' = chain
    BY <2>2, ChainStands DEF Ingesting
  <2>. QED BY <2>1, <2>2, <2>3 DEF StillInv
<1>. QED BY <1>1, <1>2

LEMMA StillRewinds ==
    ASSUME IInv, StillInv, BranchInv, BatchDue
    PROVE  /\ IngestObservation => \A safe \in SafeCursors : \A i \in 1 .. Len(safe) : safe[i] = target[i]
           /\ Revalidate => /\ Len(scan') <= Len(scan)
                            /\ \A i \in 1 .. Len(scan') : scan'[i] = scan[i]
<1>1. ASSUME IngestObservation PROVE \A safe \in SafeCursors : \A i \in 1 .. Len(safe) : safe[i] = target[i]
  <2>1. PICK r \in records : pc = "records" /\ r.kind # "reorg"
    BY Zenon, <1>1 DEF IngestObservation, NextRecord
  <2>2. Ingesting /\ Advancing
    BY <2>1, BatchAdvances DEF Ingesting
  <2>3. target = chain
    BY <2>2 DEF StillInv, Advancing
  <2>. QED BY <2>3, SafeCursorType
<1>2. ASSUME Revalidate
      PROVE  Len(scan') <= Len(scan) /\ \A i \in 1 .. Len(scan') : scan'[i] = scan[i]
  BY <1>2, BranchDispatch, Lengths DEF IInv
<1>. QED BY <1>1, <1>2

\* Where the scanner is, and the branch of the rows until the first fault.
BaseInv ==
    /\ IInv /\ PosInv
    /\ Followable => BackInv
    /\ NoFaults /\ Followable => BranchInv /\ BatchDue

LEMMA BaseInit ==
    ASSUME Init
    PROVE  BaseInv
<1>1. /\ DOMAIN evidence = {} /\ DOMAIN outbox = {} /\ parked = {} /\ pending = {} /\ batch = {}
  BY DEF Init, StoreInit
<1>2. BranchInv /\ BatchDue
  BY <1>1 DEF BranchInv, RowsInv, DueInv, BatchDue, Revalidations, Pending
<1>. QED BY <1>2, InvInit, PosInit DEF BaseInv

LEMMA BaseStep ==
    ASSUME BaseInv, [Next]_vars
    PROVE  BaseInv'
<1>1. IInv' /\ PosInv' /\ (Followable' => Followable)
  BY InvStep, PosStep DEF BaseInv
<1>2. Followable' => BackInv'
  BY <1>1, BackStep DEF BaseInv
<1>3. ASSUME NoFaults', Followable' PROVE BranchInv' /\ BatchDue'
  <2>1. NoFaults /\ ~ReadFails /\ ~Crash
    BY <1>3, NoFaultSteps DEF BaseInv
  <2>2. IInv /\ BackInv /\ BranchInv /\ BatchDue
    BY <1>1, <1>3, <2>1 DEF BaseInv
  <2>. QED BY <2>1, <2>2, BranchStep, BatchDueStep
<1>. QED BY <1>1, <1>2, <1>3 DEF BaseInv

\* Until the first disturbance, with a history as long as the reorgs are deep.
LEMMA UndisturbedInvariant ==
    ASSUME HistoryLimit >= MaxReorgDepth
    PROVE  Spec => [](BaseInv /\ (moves = 0 => StillInv) /\ (Undisturbed => CoverInv))
<1> DEFINE All == BaseInv /\ (moves = 0 => StillInv) /\ (Undisturbed => CoverInv)
<1>0. Followable
  BY DEF Followable
<1>1. Init => All
  <2>1. SUFFICES ASSUME Init PROVE All
    OBVIOUS
  <2>2. ~Ingesting
    BY <2>1 DEF Init, Ingesting
  <2>. QED BY <2>1, <2>2, BaseInit, CoverInit DEF StillInv
<1>2. All /\ [Next]_vars => All'
  <2>1. SUFFICES ASSUME All, [Next]_vars PROVE All'
    OBVIOUS
  <2>2. BaseInv'
    BY <2>1, BaseStep
  <2>3. IInv /\ PosInv
    BY <2>1 DEF BaseInv
  <2>4. moves' = 0 => StillInv'
    BY <2>1, <2>3, StillStep, ChainStands
  <2>5. ASSUME Undisturbed' PROVE CoverInv'
    <3>1. NoFaults' /\ moves' = 0
      BY <2>5 DEF Undisturbed, NoFaults
    <3>2. NoFaults /\ moves = 0
      BY <2>1, <2>3, <3>1, NoFaultSteps, ChainStands
    <3>3. BranchInv /\ BatchDue /\ StillInv /\ CoverInv
      BY <1>0, <2>1, <3>2 DEF BaseInv, Undisturbed, NoFaults
    <3>4. Scan /\ ~IsPrefix(scan, chain) => target' = Front(scan)
      BY <1>0, <2>3, ScanStepsBack
    <3>. QED BY <2>1, <2>3, <3>3, <3>4, StillRewinds, CoverStep
  <2>. QED BY <2>2, <2>4, <2>5
<1>3. All => BaseInv /\ (moves = 0 => StillInv) /\ (Undisturbed => CoverInv)
  OBVIOUS
<1> HIDE DEF All
<1>. QED BY <1>1, <1>2, <1>3, PTL DEF Spec

\* With cursors that remember as many hashes as a reorg can replace blocks, however many that
\* are: until the first crash, failed read or move of the chain within a tick, the durable
\* cursor and the scanner have skipped no observation of funding or claim on the canonical
\* chain.
THEOREM NothingSkippedUntilAFault ==
    ASSUME HistoryLimit >= MaxReorgDepth
    PROVE  Spec => [](Undisturbed => CursorCoversObservations /\ ScannerSkipsNothing)
<1>1. BaseInv /\ (Undisturbed => CoverInv) => (Undisturbed => CursorCoversObservations /\ ScannerSkipsNothing)
  BY CoverGivesProperties DEF BaseInv
<1>. QED BY <1>1, UndisturbedInvariant, PTL
=============================================================================
