-------------------------- MODULE SettlementStore --------------------------
(***************************************************************************)
(* The durable store of one settlement: the tables of the F2 schema and    *)
(* the transactions on them (crates/store/src/settlement.rs, typed by      *)
(* kaystra-core/src/store_port.rs), together with `ingest_event` of        *)
(* kaystra-core/src/ingest.rs, which chooses the transaction for one       *)
(* delivered event.                                                        *)
(*                                                                         *)
(* Every action below is ONE SQLite transaction, so a crash falls before   *)
(* or after it, never inside.  `ingest_event` reads the snapshot and the   *)
(* journal in earlier transactions than the one it writes in: those reads  *)
(* are the parameters snap and seen, and a caller decides what may happen  *)
(* in between.                                                             *)
(***************************************************************************)
EXTENDS SettlementMachine, Sequences

CONSTANT NoCursor   \* "no cursor row" / "this commit carries no cursor"

ASSUME NoCursorAssumption == NoCursor \notin Anchors

VARIABLES
    ctx,        \* settlement_snapshot: the persisted context
    journal,    \* settlement_journal: the accepted events, in order
    evidence,   \* observed_evidence: event -> status, for the rows that exist
    outbox,     \* durable_outbox: effect -> status, for the rows that exist
    leased,     \* effects of the outbox whose lease has not expired
    terminal,   \* terminal_outcome: the set of its rows
    late,       \* late_evidence: events recorded after the terminal
    cursor      \* chain_cursor: the anchored scan position, or NoCursor

storeVars == <<ctx, journal, evidence, outbox, leased, terminal, late, cursor>>

\* A journal row; the context stands for the stored context hash, and a
\* refresh row is the one journalled under refresh_event_id.
JournalRows == [event : Events, refresh : BOOLEAN, expected : Nat, context : Contexts]

EvidenceStatus == {"Parked", "Applied", "Invalidated"}

TerminalRows == [outcome : TerminalStates, source : Events, revision : Nat]

\* The store right after f2_create: initial snapshot, every table empty.
StoreInit ==
    /\ ctx = NewContext
    /\ journal = <<>>
    /\ evidence = [e \in {} |-> "Parked"]
    /\ outbox = [f \in {} |-> "Pending"]
    /\ leased = {}
    /\ terminal = {}
    /\ late = {}
    /\ cursor = NoCursor

-----------------------------------------------------------------------------
(* Reads *)

\* f2_journalled_event finds the event.
Journalled(e) == \E i \in DOMAIN journal : journal[i].event = e

\* f2_evidence: the rows that have a status.
Rows(status) == {e \in DOMAIN evidence : evidence[e] = status}

-----------------------------------------------------------------------------
(* commit_transition *)

\* Mutation of KeyConflict: a refresh is taken for a new event.
KeyConflictOnRefresh(snap, e) ==
    \/ EffectsOf(snap, e) \cap DOMAIN outbox # {}
    \/ IsTerminal(NextContext(snap, e)) /\ terminal # {}

\* A unique key of the outbox or of terminal_outcome would be hit twice.
KeyConflict(snap, e) ==
    \/ ~Journalled(e) /\ EffectsOf(snap, e) \cap DOMAIN outbox # {}
    \/ IsTerminal(NextContext(snap, e)) /\ terminal # {}

\* Mutation of CommitOutcome: no compare-and-swap on the revision.
CommitOutcomeWithoutCas(snap, e) ==
    CASE Journalled(e) /\ e \notin Rows("Invalidated") -> "Duplicate"
      [] OTHER -> IF KeyConflict(snap, e) THEN "Corrupt" ELSE "Committed"

\* What f2_commit_transition answers: dedupe first (a redelivery whose evidence
\* row is invalidated is a refresh, any other one a duplicate), then the
\* revision check, then the inserts.
CommitOutcome(snap, e) ==
    CASE Journalled(e) /\ e \notin Rows("Invalidated") -> "Duplicate"
      [] OTHER -> IF snap.revision # ctx.revision THEN "Conflict"
                  ELSE IF KeyConflict(snap, e) THEN "Corrupt"
                  ELSE "Committed"

WithStatus(e, status) ==
    [x \in DOMAIN evidence \cup {e} |-> IF x = e THEN status ELSE evidence[x]]

\* Mutation of WithEffects: a refresh puts its effects back to pending.
WithEffectsReset(effects) ==
    [f \in DOMAIN outbox \cup effects |-> IF f \in effects THEN "Pending" ELSE outbox[f]]

\* Effects already in the outbox (a refresh) keep their row.
WithEffects(effects) ==
    [f \in DOMAIN outbox \cup effects |->
        IF f \in DOMAIN outbox THEN outbox[f] ELSE "Pending"]

\* Mutation of WithRow: the row names the revision it leads to, not the one it expects.
WithRowAhead(snap, e) ==
    Append(journal, [event |-> e, refresh |-> Journalled(e),
                     expected |-> NextContext(snap, e).revision,
                     context |-> NextContext(snap, e)])

\* A refresh is journalled as well, under an event id of its own.
WithRow(snap, e) ==
    Append(journal, [event |-> e, refresh |-> Journalled(e), expected |-> snap.revision,
                     context |-> NextContext(snap, e)])

\* The write set of a commit that succeeds.
CommitTransition(snap, e, cur) ==
    LET next == NextContext(snap, e)
    IN  /\ journal' = WithRow(snap, e)
        /\ ctx' = next
        /\ evidence' = IF CarriesEvidence(e) THEN WithStatus(e, "Applied") ELSE evidence
        /\ cursor' = IF cur = NoCursor THEN cursor ELSE cur
        /\ outbox' = WithEffects(EffectsOf(snap, e))
        /\ terminal' = IF IsTerminal(next)
                       THEN terminal \cup {[outcome |-> next.state, source |-> e,
                                            revision |-> next.revision]}
                       ELSE terminal
        /\ UNCHANGED <<leased, late>>

-----------------------------------------------------------------------------
(* The other evidence writes *)

\* f2_park_evidence: a row that exists, whatever its status, is left alone.
ParkEvidence(e) ==
    /\ evidence' = IF e \in DOMAIN evidence THEN evidence ELSE WithStatus(e, "Parked")
    /\ UNCHANGED <<ctx, journal, outbox, leased, terminal, late, cursor>>

\* f2_reaffirm_evidence: only an invalidated row changes.
ReaffirmEvidence(e) ==
    /\ evidence' = [x \in DOMAIN evidence |->
                       IF x = e /\ evidence[x] = "Invalidated" THEN "Applied"
                                                              ELSE evidence[x]]
    /\ UNCHANGED <<ctx, journal, outbox, leased, terminal, late, cursor>>

\* f2_invalidate_evidence_from: parked rows are invalidated as well.
InvalidateEvidenceFrom(height) ==
    /\ evidence' = [x \in DOMAIN evidence |->
                       IF x.evidence.height >= height THEN "Invalidated" ELSE evidence[x]]
    /\ UNCHANGED <<ctx, journal, outbox, leased, terminal, late, cursor>>

RecordLateEvidence(e) ==
    /\ late' = late \cup {e}
    /\ UNCHANGED <<ctx, journal, evidence, outbox, leased, terminal, cursor>>

-----------------------------------------------------------------------------
(* ingest_event *)

\* Mutation of IngestOutcome: an evidence row is taken for a committed event.
IngestOutcomeByRow(snap, seen, e) ==
    LET known == seen \/ e \in DOMAIN evidence
    IN  CASE known /\ ~CarriesEvidence(e) -> "Duplicate"
          [] known /\ CarriesEvidence(e) /\ ~Accepts(snap, e) -> "Reaffirmed"
          [] Accepts(snap, e) /\ (known => CarriesEvidence(e)) -> CommitOutcome(snap, e)
          [] ~known /\ IsTerminal(snap) -> "Late"
          [] /\ ~known
             /\ Verdict(snap, e) \in {"IllegalEvent", "PreconditionUnsatisfied"}
             /\ CarriesEvidence(e) -> "Parked"
          [] OTHER -> "Rejected"

\* Which arm ingest_event takes for e, having loaded snap and looked e up.
IngestOutcome(snap, seen, e) ==
    CASE seen /\ ~CarriesEvidence(e) -> "Duplicate"
      [] seen /\ CarriesEvidence(e) /\ ~Accepts(snap, e) -> "Reaffirmed"
      [] Accepts(snap, e) /\ (seen => CarriesEvidence(e)) -> CommitOutcome(snap, e)
      [] ~seen /\ IsTerminal(snap) -> "Late"
      [] /\ ~seen
         /\ Verdict(snap, e) \in {"IllegalEvent", "PreconditionUnsatisfied"}
         /\ CarriesEvidence(e) -> "Parked"
      [] OTHER -> "Rejected"

\* The transaction of that arm.
IngestWrite(snap, seen, e, cur) ==
    LET outcome == IngestOutcome(snap, seen, e)
    IN  \/ outcome = "Committed"  /\ CommitTransition(snap, e, cur)
        \/ outcome = "Reaffirmed" /\ ReaffirmEvidence(e)
        \/ outcome = "Late"       /\ RecordLateEvidence(e)
        \/ outcome = "Parked"     /\ ParkEvidence(e)
        \/ outcome \in {"Duplicate", "Conflict", "Corrupt", "Rejected"}
             /\ UNCHANGED storeVars

-----------------------------------------------------------------------------
(* Outbox *)

Pending == {f \in DOMAIN outbox : outbox[f] = "Pending"}

\* f2_ready_outbox: every pending effect without a live lease is claimed.
Ready == Pending \ leased

ClaimReady ==
    /\ leased' = leased \cup Ready
    /\ UNCHANGED <<ctx, journal, evidence, outbox, terminal, late, cursor>>

\* A lease runs out: lease_until_unix_ms <= now.
LeaseExpires(f) ==
    /\ f \in leased
    /\ leased' = leased \ {f}
    /\ UNCHANGED <<ctx, journal, evidence, outbox, terminal, late, cursor>>

\* f2_complete_effect, idempotent.
CompleteEffect(f) ==
    /\ f \in DOMAIN outbox
    /\ outbox' = [outbox EXCEPT ![f] = "Completed"]
    /\ leased' = leased \ {f}
    /\ UNCHANGED <<ctx, journal, evidence, terminal, late, cursor>>

-----------------------------------------------------------------------------
(* What the rows of a healthy database look like *)

\* Every table holds rows of its type; only existing effects are leased.
StoreTypeOK ==
    /\ ctx \in Contexts
    /\ journal \in Seq(JournalRows)
    /\ DOMAIN evidence \subseteq EvidenceEvents
    /\ \A e \in DOMAIN evidence : evidence[e] \in EvidenceStatus
    /\ DOMAIN outbox \subseteq Effects
    /\ \A f \in DOMAIN outbox : outbox[f] \in {"Pending", "Completed"}
    /\ leased \subseteq DOMAIN outbox
    /\ terminal \subseteq TerminalRows
    /\ late \subseteq Events
    /\ cursor \in Anchors \cup {NoCursor}

\* The context the journal holds after its first n rows.
ContextAfter(n) == IF n = 0 THEN NewContext ELSE journal[n].context

\* The checks of SettlementEngine::recover hold: every row of the journal is
\* accepted by the machine where it stands and leaves the context it records,
\* the last one leaves the snapshot, and there is a terminal row exactly when
\* the context is terminal, for that state and revision.  A database where this
\* is false never opens again (RecoveryDivergence has no override).
Recoverable ==
    /\ \A i \in 1 .. Len(journal) :
          /\ journal[i].expected = ContextAfter(i - 1).revision
          /\ Accepts(ContextAfter(i - 1), journal[i].event)
          /\ journal[i].context = NextContext(ContextAfter(i - 1), journal[i].event)
    /\ ctx = ContextAfter(Len(journal))
    /\ terminal = {} <=> ~IsTerminal(ctx)
    /\ \A row \in terminal : row.outcome = ctx.state /\ row.revision = ctx.revision

-----------------------------------------------------------------------------
(* What the store owes, whoever writes to it *)

\* Whatever the interleaving of loads, lookups, invalidations, commits and
\* crashes of the engines on the database, the next SettlementEngine::recover
\* succeeds: the journal replays to the snapshot and agrees with the terminal row.
RecoverySucceeds == Recoverable

\* The store, whoever writes to it and whenever they crash, keeps the promise of
\* module Settlement: the terminal rows are its outcomes and the effects in the
\* outbox, the engine's own RevalidateFrom aside, its orders.
Promise == INSTANCE Settlement WITH
    outcomes <- {row.outcome : row \in terminal},
    ordered <- {f.kind : f \in DOMAIN outbox} \ {"RevalidateFrom"}

KeepsThePromise == Promise!Spec
=============================================================================
