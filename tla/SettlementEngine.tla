-------------------------- MODULE SettlementEngine --------------------------
(***************************************************************************)
(* One durable settlement engine (kaystra-core/src/settlement_engine.rs)   *)
(* on its store, with the chain it observes through the DOM adapter        *)
(* (adapters/dom-real) and the chain's own moves.  A tick is: drain the    *)
(* reorder buffer, scan, ingest the records one by one, read the tip,      *)
(* apply the policy, dispatch the outbox.  Each store transaction and each *)
(* chain read is a step; the engine can crash between any two, and then    *)
(* recovers from the store.                                                *)
(*                                                                         *)
(* The engine is the only writer here, so load, lookup and write of        *)
(* ingest_event are one step (SettlementWriters has the interleavings).    *)
(*                                                                         *)
(* A block is what the settlement can see in it plus the fork it was mined *)
(* on; the block hash at height h is the chain up to h, since every header *)
(* commits to its parent.  A cursor of the adapter is the hash it stands   *)
(* on, that is, such a prefix, with the lowest height whose hash it still  *)
(* remembers: the adapter keeps the last HistoryLimit hashes.  Heights     *)
(* count from the genesis block, 0, which the model's chains leave out.    *)
(***************************************************************************)
EXTENDS SettlementStore

CONSTANTS
    MinConfirmations,   \* terms.dom_leg.finality.min_confirmations
    RefundNotBefore,    \* terms.dom_leg.deadline, a block height
    HistoryLimit,       \* dom_history_limit: the hashes a cursor keeps
    MaxReorgDepth,      \* bound: blocks a reorg removes
    MaxReorgs,          \* bound: number of reorgs
    MaxCrashes,         \* bound: number of crashes
    MaxFailures,        \* bound: number of failed chain reads
    MaxMoves,           \* bound: moves of the chain while a tick runs
    MaxPolicyIngests    \* MAX_POLICY_INGESTS_PER_TICK

ASSUME EngineAssumption ==
    /\ MinConfirmations \in Nat /\ RefundNotBefore \in Nat /\ MaxPolicyIngests \in Nat
    /\ MaxReorgDepth \in Nat /\ MaxReorgs \in Nat /\ MaxCrashes \in Nat /\ MaxFailures \in Nat
    /\ MaxMoves \in Nat /\ HistoryLimit \in Nat \ {0}

Min(S) == CHOOSE n \in S : \A k \in S : n <= k

Front(s) == SubSeq(s, 1, Len(s) - 1)

\* The block hash at the end of c is canonical on d.
IsPrefix(c, d) == Len(c) <= Len(d) /\ SubSeq(d, 1, Len(c)) = c

Txs == {"none", "funding", "claim", "refund"}

Blocks == [tx : Txs, fork : 0 .. MaxReorgs]

\* The block hashes are the chains they commit to.
Chains == UNION {[1 .. n -> Blocks] : n \in Heights}

ASSUME AnchorsAssumption == Anchors = Chains

VARIABLES
    chain,       \* the canonical chain, a sequence of blocks
    stale,       \* the branch the last reorg abandoned
    funded,      \* the sink has handed the funding transaction to the network
    reorgs,
    crashes, failures,
    moves,       \* how often the chain has moved while a tick ran
    deep,        \* a reorg has replaced more than one block
    pc,          \* the step the engine takes next
    after,       \* where a drain of the reorder buffer returns to
    scan,        \* scan_cursor
    scanLow,     \* the lowest height it remembers the hash of
    cursorLow,   \* the same of the durable cursor
    target,      \* scanned_to of the scan being ingested
    records,     \* its records that are still to come
    pending,     \* pending_refunds
    parked,      \* the reorder buffer
    todo,        \* its envelopes not tried yet in this pass
    progressed,  \* whether this pass applied one
    tip,         \* the tip height the policy works with
    budget,      \* policy events left in this tick
    batch,       \* effects claimed and not dispatched yet
    timelock     \* timelock_committed

chainVars    == <<chain, stale, funded, reorgs>>
drainVars    == <<after, todo, progressed>>
scanVars     == <<scan, scanLow, cursorLow, target, records>>
policyVars   == <<tip, budget, timelock>>
engineVars   == <<pc, drainVars, scanVars, pending, parked, policyVars, batch>>
faultVars    == <<crashes, failures, moves, deep>>
vars == <<storeVars, chainVars, faultVars, engineVars>>

Init ==
    /\ StoreInit
    /\ chain = <<>> /\ stale = <<>> /\ funded = FALSE /\ reorgs = 0
    /\ crashes = 0 /\ failures = 0 /\ moves = 0 /\ deep = FALSE
    /\ pc = "idle" /\ after = "idle"
    /\ scan = <<>> /\ scanLow = 0 /\ cursorLow = 0 /\ target = <<>> /\ records = {}
    /\ pending = {} /\ parked = {} /\ todo = {} /\ progressed = FALSE
    /\ tip = 0 /\ budget = 0 /\ batch = {} /\ timelock = FALSE

-----------------------------------------------------------------------------
(* The chain *)

Holds(c, tx) == \E h \in DOMAIN c : c[h].tx = tx

\* What the next block on top of c can hold: funding once the sink has submitted
\* it, then one spend of its output, the refund not before its height.
Mineable(c) ==
    {"none"}
      \cup {tx \in {"funding"} : funded /\ ~Holds(c, "funding")}
      \cup {tx \in {"claim", "refund"} :
               /\ Holds(c, "funding") /\ ~Holds(c, "claim") /\ ~Holds(c, "refund")
               /\ tx = "refund" => Len(c) + 1 >= RefundNotBefore}

\* The chains that extend c by n blocks of fork number fork.
Extensions(c, n, fork) ==
    {x \in {c \o [i \in 1 .. n |-> [tx |-> txs[i], fork |-> fork]] : txs \in [1 .. n -> Txs]} :
        \A h \in Len(c) + 1 .. Len(x) : x[h].tx \in Mineable(SubSeq(x, 1, h - 1))}

MayMove == pc = "idle" \/ moves < MaxMoves

\* What is remembered of a move: that a tick was running, that it was a deep one.
Moved ==
    /\ moves' = IF pc = "idle" THEN moves ELSE moves + 1
    /\ deep' = (deep \/ ~IsPrefix(Front(chain), chain'))
    /\ UNCHANGED <<crashes, failures>>

Mine ==
    /\ MayMove
    /\ Len(chain) < MaxHeight
    /\ chain' \in Extensions(chain, 1, reorgs)
    /\ Moved
    /\ UNCHANGED <<storeVars, stale, funded, reorgs, engineVars>>

\* A branch that is one block longer replaces the last blocks.
Reorg ==
    /\ MayMove
    /\ reorgs < MaxReorgs
    /\ Len(chain) < MaxHeight
    /\ \E depth \in 1 .. MaxReorgDepth :
          /\ depth <= Len(chain)
          /\ chain' \in Extensions(SubSeq(chain, 1, Len(chain) - depth), depth + 1, reorgs + 1)
    /\ stale' = chain
    /\ reorgs' = reorgs + 1
    /\ Moved
    /\ UNCHANGED <<storeVars, funded, engineVars>>

\* The abandoned branch overtakes: its blocks are canonical again.
Reactivate ==
    /\ MayMove
    /\ reorgs < MaxReorgs
    /\ stale # <<>>
    /\ Len(chain) < MaxHeight
    /\ \E depth \in 1 .. MaxReorgDepth :
          depth <= Len(chain) /\ IsPrefix(SubSeq(chain, 1, Len(chain) - depth), stale)
    /\ chain' \in Extensions(stale, Len(chain) + 1 - Len(stale), reorgs + 1)
    /\ stale' = chain
    /\ reorgs' = reorgs + 1
    /\ Moved
    /\ UNCHANGED <<storeVars, funded, engineVars>>

-----------------------------------------------------------------------------
(* Events *)

EvidenceAt(c, h) == [height |-> h, anchor |-> SubSeq(c, 1, h)]

Observed(kind, evidence_) == [kind |-> kind, evidence |-> evidence_]

RecordAt(c, h) == [kind |-> c[h].tx, evidence |-> EvidenceAt(c, h)]

\* The records of the blocks of c above height h (records_for_blocks), at most one
\* per height.
RecordsAbove(c, h) == {RecordAt(c, i) : i \in {j \in h + 1 .. Len(c) : c[j].tx # "none"}}

\* ChainRecordV1::Reorg: the height and the hash of the block that is lost.
ReorgOf(c) == [kind |-> "reorg", evidence |-> EvidenceAt(c, Len(c))]

\* Mutation of IsFinal: the inclusion block is counted twice.
IsFinalEarly(height, at) == at >= height /\ at - height + 2 >= MinConfirmations

IsFinal(height, at) == at >= height /\ at - height + 1 >= MinConfirmations

-----------------------------------------------------------------------------
(* Ingest: ReorderBuffer::ingest, then the step next *)

\* Single writer: the context loaded is the current one.
Outcome(e) == IngestOutcome(ctx, Journalled(e), e)

\* A hard rejection or a corrupt store ends the tick with an error.
Fails(e) == Outcome(e) \in {"Rejected", "Corrupt", "Conflict"}

\* A commit is followed by a drain of the reorder buffer.
Ingest(e, cur, next) ==
    /\ IngestWrite(ctx, Journalled(e), e, cur)
    /\ parked' = IF Outcome(e) = "Parked" THEN parked \cup {e} ELSE parked
    /\ IF Outcome(e) = "Committed" /\ parked # {}
       THEN pc' = "drain" /\ after' = next /\ todo' = parked /\ progressed' = FALSE
       ELSE pc' = (IF Fails(e) THEN "failed" ELSE next) /\ UNCHANGED drainVars

\* Mutation of StaysParked: what cannot be applied yet leaves the buffer.
StaysParkedNever(e) == FALSE

StaysParked(e) == Outcome(e) = "Parked"

\* One envelope of the pass, in order of height; a pass that applied something
\* is followed by another.
Drain ==
    /\ pc = "drain"
    /\ \E e \in todo :
          /\ \A other \in todo : e.evidence.height <= other.evidence.height
          /\ IngestWrite(ctx, Journalled(e), e, NoCursor)
          /\ LET stays  == StaysParked(e)
                 left   == todo \ {e}
                 buffer == IF stays THEN parked ELSE parked \ {e}
                 moved  == progressed \/ ~stays
                 again  == left = {} /\ moved /\ buffer # {}
             IN  /\ parked' = buffer
                 /\ todo' = IF again THEN buffer ELSE left
                 /\ progressed' = (left # {} /\ moved)
                 /\ pc' = IF Fails(e) THEN "failed"
                          ELSE IF left = {} /\ ~again THEN after ELSE "drain"
                 /\ after' = IF left = {} /\ ~again THEN "idle" ELSE after
    /\ UNCHANGED <<chainVars, faultVars, scanVars, pending, policyVars, batch>>

-----------------------------------------------------------------------------
(* The steps of a tick *)

\* The F1 leg reports that the pre-signed refund is durable.
ArmRefund ==
    /\ pc = "idle"
    /\ ctx.state = "Preparing"
    /\ Ingest([kind |-> "RefundArmed"], NoCursor, "idle")
    /\ UNCHANGED <<chainVars, faultVars, scanVars, pending, policyVars, batch>>

DrainFirst ==
    /\ pc = "idle"
    /\ parked # {}
    /\ pc' = "drain" /\ after' = "scan" /\ todo' = parked /\ progressed' = FALSE
    /\ UNCHANGED <<storeVars, chainVars, faultVars, scanVars, pending, parked, policyVars, batch>>

\* The lowest height of the last HistoryLimit hashes up to height n (tail_state).
Oldest(n) == IF n + 1 > HistoryLimit THEN n + 1 - HistoryLimit ELSE 0

\* One remembered hash is left, and it is not the genesis block's.
Exhausted == scanLow = Len(scan) /\ scan # <<>>

\* The lowest height scanned_to remembers: a scan that advances keeps the newest
\* hashes (append), one that steps back keeps the others (rewind_one) or, when none
\* is left, starts a new history (cursor_at).
TargetLow ==
    IF Len(target) >= Len(scan)
    THEN IF scanLow >= Oldest(Len(target)) THEN scanLow ELSE Oldest(Len(target))
    ELSE IF Exhausted THEN Oldest(Len(target)) ELSE scanLow

\* Mutation of Scan: a stale cursor silently jumps to the current branch.
ScanJumps ==
    /\ pc = "scan" \/ (pc = "idle" /\ parked = {})
    /\ records' = IF IsPrefix(scan, chain) THEN RecordsAbove(chain, Len(scan)) ELSE {}
    /\ target' = chain
    /\ pc' = "records"
    /\ UNCHANGED <<storeVars, chainVars, faultVars, drainVars, scan, scanLow, cursorLow, pending,
                   parked, policyVars, batch>>

\* ChainSourceV1::scan of the adapter.  A cursor whose last block is not canonical
\* yields one reorg record and steps back by that one block; when it remembers no
\* other, it takes the block below on the canonical chain for its own.
Scan ==
    /\ pc = "scan" \/ (pc = "idle" /\ parked = {})
    /\ IF IsPrefix(scan, chain)
       THEN /\ records' = RecordsAbove(chain, Len(scan))
            /\ target' = chain
       ELSE /\ records' = {ReorgOf(scan)}
            /\ target' = IF Exhausted THEN SubSeq(chain, 1, Len(scan) - 1) ELSE Front(scan)
    /\ pc' = "records"
    /\ UNCHANGED <<storeVars, chainVars, faultVars, drainVars, scan, scanLow, cursorLow, pending,
                   parked, policyVars, batch>>

\* The loop over the records takes them in order of height.
NextRecord(r) ==
    /\ pc = "records"
    /\ r \in records
    /\ \A other \in records : r.evidence.height <= other.evidence.height

\* A reorg record: rows, held refunds and parked envelopes of the lost blocks go
\* first, in a transaction of their own.
ReorgRecord ==
    /\ \E r \in records :
          /\ NextRecord(r)
          /\ r.kind = "reorg"
          /\ InvalidateEvidenceFrom(r.evidence.height)
          /\ pending' = {ev \in pending : ev.height < r.evidence.height}
          /\ parked' = {e \in parked : e.evidence.height < r.evidence.height}
    /\ pc' = "reorg"
    /\ UNCHANGED <<chainVars, faultVars, drainVars, scanVars, policyVars, batch>>

IngestReorg ==
    /\ pc = "reorg"
    /\ \E r \in records :
          /\ Ingest([kind |-> "ReorgInvalidated", from_height |-> r.evidence.height,
                      old_anchor |-> r.evidence.anchor], NoCursor, "records")
          /\ records' = records \ {r}
    /\ UNCHANGED <<chainVars, faultVars, scan, scanLow, cursorLow, target, pending, policyVars, batch>>

\* safe_cursor: not past the lowest refund held in memory.
HoldsCursor == \E ev \in pending : ev.height <= Len(target)

LowestPending == {low \in pending : \A ev \in pending : low.height <= ev.height}

SafeCursors ==
    IF HoldsCursor THEN {SubSeq(chain, 1, low.height - 1) : low \in LowestPending}
                   ELSE {target}

\* The lowest height such a cursor remembers.
SafeLow(safe) == IF HoldsCursor THEN Oldest(Len(safe)) ELSE TargetLow

\* Mutation of IsLastObservation: every observation carries the cursor.
IsAnyObservation(r) == r.kind \in {"funding", "claim"}

\* The last record that is not a refund may carry the cursor.
IsLastObservation(r) ==
    /\ r.kind \in {"funding", "claim"}
    /\ \A other \in records \ {r} : other.kind = "refund"

EventKind(r) == IF r.kind = "funding" THEN "FundingObserved" ELSE "ClaimEvidenceVerified"

IngestObservation ==
    /\ \E r \in records, safe \in SafeCursors :
          /\ NextRecord(r)
          /\ r.kind \in {"funding", "claim"}
          /\ Ingest(Observed(EventKind(r), r.evidence),
                    IF IsLastObservation(r) THEN safe ELSE NoCursor, "records")
          /\ cursorLow' = IF IsLastObservation(r)
                             /\ Outcome(Observed(EventKind(r), r.evidence)) = "Committed"
                          THEN SafeLow(safe) ELSE cursorLow
          /\ records' = records \ {r}
    /\ UNCHANGED <<chainVars, faultVars, scan, scanLow, target, pending, policyVars, batch>>

\* A refund that is pending already is not held twice.
HoldRefund ==
    /\ \E r \in records :
          /\ NextRecord(r)
          /\ r.kind = "refund"
          /\ pending' = pending \cup {r.evidence}
          /\ records' = records \ {r}
    /\ UNCHANGED <<storeVars, chainVars, faultVars, pc, drainVars, scan, scanLow, cursorLow, target,
                   parked, policyVars, batch>>

\* The batch is consumed: the cursor in memory moves, the policy reads the tip.
ReadTip ==
    /\ pc = "records"
    /\ records = {}
    /\ scan' = target /\ scanLow' = TargetLow
    /\ target' = <<>>
    /\ tip' = Len(chain)
    /\ budget' = MaxPolicyIngests
    /\ pc' = "policy"
    /\ UNCHANGED <<storeVars, chainVars, faultVars, drainVars, cursorLow, records, pending, parked,
                   timelock, batch>>

-----------------------------------------------------------------------------
(* Policy *)

\* applied_evidence_of: the Applied rows of one kind that no other is above.
Latest(kind, heights) ==
    LET rows == {e \in Rows("Applied") : e.kind = kind /\ e.evidence.height \in heights}
    IN  {e.evidence : e \in {x \in rows : \A y \in rows : y.evidence.height <= x.evidence.height}}

FinalFunding ==
    {ev \in Latest("FundingObserved", {ctx.last_observed_height}) :
        ctx.state = "Confirming" /\ IsFinal(ev.height, tip)}

FinalClaims ==
    {ev \in Latest("ClaimEvidenceVerified", Heights) :
        /\ ctx.state = "Settling" /\ ctx.claim_evidence_verified
        /\ IsFinal(ev.height, tip)}

\* The code takes them in the order they were held, the model in any order.
FinalRefunds == {ev \in pending : IsFinal(ev.height, tip)}

\* Mutation of LostFunding: any settlement without an observation has lost it.
LostFundingAnywhere == ctx.last_observed_height = NoHeight

\* Confirming with no observation: a reorg regressed a Settling settlement.
LostFunding == ctx.state = "Confirming" /\ ctx.last_observed_height = NoHeight

\* next_policy_event: the first of these that applies, as a set of candidates.
PolicyEvents ==
    CASE IsTerminal(ctx) -> {}
      [] ~IsTerminal(ctx) /\ FinalFunding # {} ->
            {Observed("FundingConfirmed", ev) : ev \in FinalFunding}
      [] ~IsTerminal(ctx) /\ LostFunding ->
            {[kind |-> "FundingAbsent", revalidation_from |-> Len(scan)]}
      [] ~IsTerminal(ctx) /\ FinalClaims # {} ->
            {Observed("ClaimConfirmed", ev) : ev \in FinalClaims}
      [] OTHER ->
            IF FinalRefunds # {} THEN {Observed("RefundConfirmed", ev) : ev \in FinalRefunds}
            ELSE IF /\ ~timelock
                    /\ ctx.state \in {"Confirming", "Settling"}
                    /\ tip + 1 >= RefundNotBefore
            THEN {[kind |-> "TimelockExpired"]} ELSE {}

\* Whatever ingest answers, a refund leaves the pending list and the timelock is
\* not emitted again.
Policy ==
    /\ pc = "policy"
    /\ budget > 0
    /\ \E e \in PolicyEvents :
          /\ Ingest(e, NoCursor, "policy")
          /\ pending' = IF e.kind = "RefundConfirmed"
                        THEN pending \ {e.evidence} ELSE pending
          /\ timelock' = (timelock \/ e.kind = "TimelockExpired")
    /\ budget' = budget - 1
    /\ UNCHANGED <<chainVars, faultVars, scanVars, tip, batch>>

-----------------------------------------------------------------------------
(* Dispatch *)

\* source_seq of an effect.
SourceSeq(f) == Min({i \in DOMAIN journal : journal[i].event = f.source})

\* The policy is done: dispatch claims what is ready.
ClaimEffects ==
    /\ pc = "policy"
    /\ budget = 0 \/ PolicyEvents = {}
    /\ batch' = Ready
    /\ ClaimReady
    /\ tip' = 0 /\ budget' = 0
    /\ pc' = IF Ready = {} THEN "idle" ELSE "dispatch"
    /\ UNCHANGED <<chainVars, faultVars, drainVars, scanVars, pending, parked, timelock>>

\* The next claimed effect leaves the batch.
Take(f) ==
    /\ pc = "dispatch"
    /\ f \in batch
    /\ \A other \in batch : SourceSeq(f) <= SourceSeq(other)

\* Mutation of Finish: the effect stays in the batch.
FinishNever(f) ==
    /\ UNCHANGED batch
    /\ pc' = IF batch = {f} THEN "idle" ELSE "dispatch"

Finish(f) ==
    /\ batch' = batch \ {f}
    /\ pc' = IF batch = {f} THEN "idle" ELSE "dispatch"

\* The height RevalidateFrom rewinds to: everything below the first lost block.
Floor(f) == IF f.source.from_height = 0 THEN 0 ELSE f.source.from_height - 1

\* RevalidateFrom rewinds the scanner itself and never reaches the sink.
Revalidate ==
    \E f \in batch :
       /\ Take(f)
       /\ f.kind = "RevalidateFrom"
       /\ scan' = IF Floor(f) < Len(scan) THEN SubSeq(chain, 1, Floor(f)) ELSE scan
       /\ scanLow' = IF Floor(f) < Len(scan) THEN Oldest(Floor(f)) ELSE scanLow
       /\ CompleteEffect(f)
       /\ Finish(f)
       /\ UNCHANGED <<chainVars, faultVars, drainVars, cursorLow, target, records, pending, parked,
                      policyVars>>

\* Any other effect goes to the sink: Completed, or RetryLater or Rejected, with or
\* without the transaction having reached the network.
Execute ==
    \E f \in batch :
       /\ Take(f)
       /\ f.kind # "RevalidateFrom"
       /\ LET broadcast == funded \/ f.kind = "AuthorizeFunding"
          IN  \/ CompleteEffect(f) /\ funded' = broadcast
              \/ UNCHANGED storeVars /\ funded' \in {funded, broadcast}
       /\ Finish(f)
       /\ UNCHANGED <<chain, stale, reorgs, faultVars, drainVars, scanVars, pending, parked,
                      policyVars>>

Expire ==
    /\ pc = "idle"
    /\ \E f \in leased : LeaseExpires(f)
    /\ UNCHANGED <<chainVars, faultVars, engineVars>>

-----------------------------------------------------------------------------
(* Faults *)

\* A chain read fails and the tick ends with its error: at scan nothing has moved;
\* at safe_cursor the rest of the batch is given up; at tip_height the batch is
\* consumed; at cursor_at the claimed effects are left to their leases.
ReadFails ==
    /\ failures < MaxFailures
    /\ failures' = failures + 1
    /\ \/ pc = "scan" /\ UNCHANGED <<scan, scanLow, batch>>
       \/ /\ \E r \in records : NextRecord(r) /\ IsLastObservation(r)
          /\ HoldsCursor /\ UNCHANGED <<scan, scanLow, batch>>
       \/ /\ pc = "records" /\ records = {}
          /\ scan' = target /\ scanLow' = TargetLow /\ UNCHANGED batch
       \/ \E f \in batch : /\ Take(f)
                            /\ f.kind = "RevalidateFrom" /\ Floor(f) < Len(scan)
                            /\ batch' = {} /\ UNCHANGED <<scan, scanLow>>
    /\ pc' = "idle" /\ after' = "idle"
    /\ target' = <<>> /\ records' = {}
    /\ UNCHANGED <<storeVars, chainVars, crashes, moves, deep, cursorLow, todo, progressed, pending,
                   parked, policyVars>>

\* Recovery is SettlementEngine::open on the store.
Crash ==
    /\ crashes < MaxCrashes
    /\ crashes' = crashes + 1
    /\ UNCHANGED <<failures, moves, deep, cursorLow>>
    /\ pc' = "idle" /\ after' = "idle"
    /\ scan' = (IF cursor = NoCursor THEN <<>> ELSE cursor) /\ scanLow' = cursorLow
    /\ target' = <<>> /\ records' = {}
    /\ pending' = {}
    /\ parked' = Rows("Parked")
    /\ todo' = {} /\ progressed' = FALSE
    /\ tip' = 0 /\ budget' = 0 /\ batch' = {}
    /\ timelock' = Journalled([kind |-> "TimelockExpired"])
    /\ UNCHANGED <<storeVars, chainVars>>

-----------------------------------------------------------------------------
EngineStep ==
    \/ ArmRefund \/ DrainFirst \/ Drain \/ Scan
    \/ ReorgRecord \/ IngestReorg \/ IngestObservation \/ HoldRefund \/ ReadTip
    \/ Policy \/ ClaimEffects \/ Revalidate \/ Execute

Next == EngineStep \/ Expire \/ ReadFails \/ Crash \/ Mine \/ Reorg \/ Reactivate

Spec == Init /\ [][Next]_vars

\* The daemon ticks for ever and leases run out; chain and crashes owe nothing.
FairSpec == Spec /\ WF_vars(EngineStep) /\ WF_vars(Expire)

-----------------------------------------------------------------------------
(* Properties *)

\* Every variable has its type; every parked envelope has its row, and only effects
\* this engine has leased are dispatched.
TypeOK ==
    /\ StoreTypeOK
    /\ chain \in Anchors /\ stale \in Anchors /\ scan \in Anchors /\ target \in Anchors
    /\ funded \in BOOLEAN /\ progressed \in BOOLEAN /\ timelock \in BOOLEAN
    /\ reorgs \in 0 .. MaxReorgs /\ crashes \in 0 .. MaxCrashes
    /\ failures \in 0 .. MaxFailures /\ moves \in 0 .. MaxMoves /\ deep \in BOOLEAN
    /\ scanLow \in Heights /\ cursorLow \in Heights
    /\ pc \in {"idle", "drain", "scan", "records", "reorg", "policy", "dispatch", "failed"}
    /\ after \in {"idle", "scan", "records", "policy"}
    /\ records \subseteq [kind : {"funding", "claim", "refund", "reorg"}, evidence : Evidence]
    /\ pending \subseteq Evidence
    /\ parked \subseteq DOMAIN evidence /\ todo \subseteq parked
    /\ tip \in Heights /\ budget \in 0 .. MaxPolicyIngests
    /\ batch \subseteq leased

\* The observation of the block at height h of the canonical chain.
EventAt(h) ==
    Observed(CASE chain[h].tx = "funding" -> "FundingObserved"
               [] chain[h].tx = "claim"   -> "ClaimEvidenceVerified"
               [] OTHER                   -> "RefundConfirmed", EvidenceAt(chain, h))

\* The durable cursor covers only positions whose observation of funding or claim
\* has left a row in the store, so that no crash loses one.
CursorCoversObservations ==
    cursor # NoCursor /\ IsPrefix(cursor, chain) =>
        \A h \in DOMAIN cursor :
            chain[h].tx \in {"funding", "claim"} => EventAt(h) \in DOMAIN evidence

\* The same for refunds: "The durable cursor means 'every scan position at or below
\* this has produced its durable consequence'".
CursorCoversRefunds ==
    cursor # NoCursor /\ IsPrefix(cursor, chain) =>
        \A h \in DOMAIN cursor :
            chain[h].tx = "refund" => EventAt(h) \in DOMAIN evidence

\* "No terminal event may be emitted from an observation that a reorg could still
\* remove": the block that settled or refunded stays on the canonical chain.
TerminalStaysOnChain ==
    \A row \in terminal : IsPrefix(row.source.evidence.anchor, chain)

\* Nothing has yet come between two steps of the engine: no crash, no failed read,
\* no move of the chain while a tick ran.
Undisturbed == crashes = 0 /\ failures = 0 /\ moves = 0

\* The same until a crash or a failed read makes the daemon forget the refunds it
\* holds or act late on a revalidation, until the chain moves between the scan and
\* the read of the tip, or until a reorg takes more than the one block that a tick
\* steps back.
TerminalStaysWithoutFaults == Undisturbed /\ ~deep => TerminalStaysOnChain

\* The engine never gets a hard rejection from the machine nor a conflict from the
\* store for an event it derives itself: a tick only fails on chain reads.
NoHardRejection == pc # "failed"

\* Between ticks, whatever the scanner has passed on the canonical chain has left
\* a row: the scanner meets a reorg record, "instead of silently skipping the range".
ScannerSkipsNothing ==
    pc = "idle" /\ terminal = {} /\ IsPrefix(scan, chain) =>
        \A h \in DOMAIN scan :
            chain[h].tx \in {"funding", "claim"} => EventAt(h) \in DOMAIN evidence

\* A spend of the funding output has the confirmations the terms ask for.
SpendIsFinal ==
    \E h \in DOMAIN chain : chain[h].tx \in {"claim", "refund"} /\ IsFinal(h, Len(chain))

\* Once a spend is final on the chain for good, the settlement ends: whatever the
\* engine parked, regressed, refreshed or revalidated on the way does not strand it.
FinalSpendEnds == <>[]SpendIsFinal => <>(terminal # {})

\* Between ticks, with the scanner on the canonical chain, the funding observation
\* the machine rests on is on that chain: a reorg that removed it has regressed it.
ObservationIsCanonical ==
    /\ pc = "idle" /\ IsPrefix(scan, chain)
    /\ ctx.state \in {"Confirming", "Settling"}
    /\ ctx.last_observed_height # NoHeight
    /\ ctx.last_observed_height <= Len(scan)
    => chain[ctx.last_observed_height].tx = "funding"
=============================================================================
