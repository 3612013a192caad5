------------------------- MODULE SettlementMachine -------------------------
(***************************************************************************)
(* The pure settlement machine of kaystra-core (state.rs): the context of  *)
(* one settlement, the events it accepts, and what `transition` answers.   *)
(* `transition` is split into the three things its callers look at: the    *)
(* verdict (Ok or the error), the next context and the effects.            *)
(*                                                                         *)
(* Data abstraction.  An evidence reference is a height and a block anchor *)
(* (the chain, transaction and index play no part in any decision here).   *)
(* An event is its own identifier: derive_event_id is a function of the    *)
(* event, and collisions of the hash are left out.                         *)
(***************************************************************************)
EXTENDS Integers

CONSTANTS Anchors,      \* block anchors (hashes) an observation can name
          MaxHeight     \* highest block height an observation can name

ASSUME MaxHeightAssumption == MaxHeight \in Nat

Heights == 0 .. MaxHeight

\* EvidenceRefV1.
Evidence == [height : Heights, anchor : Anchors]

\* Option<u64>::None of last_observed_height; it lies below every height, so
\* that `is_some_and(|h| h >= from)` is a plain comparison.
NoHeight == -1

States == {"Preparing", "ReadyToFund", "Confirming", "Settling",
           "Settled", "Refunded"}

TerminalStates == {"Settled", "Refunded"}

IsTerminal(ctx) == ctx.state \in TerminalStates

Contexts == [state : States,
             revision : Nat,
             last_observed_height : Heights \cup {NoHeight},
             claim_evidence_verified : BOOLEAN,
             refund_path_armed : BOOLEAN]

NewContext == [state |-> "Preparing",
               revision |-> 0,
               last_observed_height |-> NoHeight,
               claim_evidence_verified |-> FALSE,
               refund_path_armed |-> FALSE]

-----------------------------------------------------------------------------
(* Events *)

EvidenceKinds == {"FundingObserved", "FundingConfirmed", "ClaimEvidenceVerified",
                  "ClaimConfirmed", "RefundConfirmed"}

\* The events that carry an evidence reference (`accepted_evidence`).
EvidenceEvents == [kind : EvidenceKinds, evidence : Evidence]

Events == EvidenceEvents
            \cup [kind : {"RefundArmed", "TimelockExpired"}]
            \cup [kind : {"FundingAbsent"}, revalidation_from : Heights]
            \cup [kind : {"ReorgInvalidated"}, from_height : Heights,
                  old_anchor : Anchors]

CarriesEvidence(e) == e.kind \in EvidenceKinds

-----------------------------------------------------------------------------
(* transition *)

\* The (state, event) pairs that have an arm in the match of `transition`.
LegalKinds(state) ==
    CASE state = "Preparing"   -> {"RefundArmed", "ReorgInvalidated"}
      [] state = "ReadyToFund" -> {"FundingObserved", "ReorgInvalidated"}
      [] state = "Confirming"  -> {"FundingObserved", "FundingAbsent",
                                   "FundingConfirmed", "TimelockExpired",
                                   "RefundConfirmed", "ReorgInvalidated"}
      [] state = "Settling"    -> {"ClaimEvidenceVerified", "ClaimConfirmed",
                                   "TimelockExpired", "RefundConfirmed",
                                   "ReorgInvalidated"}
      [] OTHER                 -> {}

\* Mutation of Verdict: the claim is confirmed without verified evidence.
VerdictWithoutEvidence(ctx, e) ==
    CASE IsTerminal(ctx) -> "TerminalState"
      [] ~IsTerminal(ctx) /\ e.kind \notin LegalKinds(ctx.state) -> "IllegalEvent"
      [] /\ ctx.state = "Confirming"
         /\ e.kind = "FundingConfirmed"
         /\ ctx.last_observed_height # e.evidence.height -> "EvidenceMismatch"
      [] OTHER -> "Ok"

\* Ok, or the error `transition` returns (revision overflow is left out: the
\* revision is a 64-bit counter of accepted transitions).
Verdict(ctx, e) ==
    CASE IsTerminal(ctx) -> "TerminalState"
      [] ~IsTerminal(ctx) /\ e.kind \notin LegalKinds(ctx.state) -> "IllegalEvent"
      [] /\ ctx.state = "Confirming"
         /\ e.kind = "FundingConfirmed"
         /\ ctx.last_observed_height # e.evidence.height -> "EvidenceMismatch"
      [] /\ ctx.state = "Settling"
         /\ e.kind = "ClaimConfirmed"
         /\ ~ctx.claim_evidence_verified -> "PreconditionUnsatisfied"
      [] OTHER -> "Ok"

Accepts(ctx, e) == Verdict(ctx, e) = "Ok"

\* Mutation of Affected: > for >=.
AffectedAbove(ctx, e) ==
    /\ ctx.state \in {"Confirming", "Settling"}
    /\ ctx.last_observed_height > e.from_height

\* Whether a reorg removes the observation the context rests on.
Affected(ctx, e) ==
    /\ ctx.state \in {"Confirming", "Settling"}
    /\ ctx.last_observed_height >= e.from_height

\* The arm of ReorgInvalidated: an affected observation regresses one state.
Regress(ctx, e) ==
    IF Affected(ctx, e)
    THEN [ctx EXCEPT !.state = IF @ = "Settling" THEN "Confirming" ELSE "ReadyToFund",
                     !.last_observed_height = NoHeight,
                     !.claim_evidence_verified = FALSE]
    ELSE ctx

\* Mutation of OnRefundArmed: ready to fund, with no refund path recorded.
OnRefundArmedUnrecorded(ctx) == [ctx EXCEPT !.state = "ReadyToFund"]

OnRefundArmed(ctx) == [ctx EXCEPT !.state = "ReadyToFund", !.refund_path_armed = TRUE]

\* What the arm of an accepted event does to the context, revision aside.
Arm(ctx, e) ==
    CASE e.kind = "RefundArmed"           -> OnRefundArmed(ctx)
      [] e.kind = "FundingObserved" ->
            [ctx EXCEPT !.state = "Confirming",
                        !.last_observed_height = e.evidence.height]
      [] e.kind = "FundingAbsent" ->
            [ctx EXCEPT !.state = "ReadyToFund", !.last_observed_height = NoHeight]
      [] e.kind = "FundingConfirmed"      -> [ctx EXCEPT !.state = "Settling"]
      [] e.kind = "ClaimEvidenceVerified" ->
            [ctx EXCEPT !.claim_evidence_verified = TRUE]
      [] e.kind = "ClaimConfirmed"        -> [ctx EXCEPT !.state = "Settled"]
      [] e.kind = "TimelockExpired"       -> [ctx EXCEPT !.refund_path_armed = TRUE]
      [] e.kind = "RefundConfirmed"       -> [ctx EXCEPT !.state = "Refunded"]
      [] OTHER                            -> Regress(ctx, e)

\* Transition::next of an accepted event.
NextContext(ctx, e) == [Arm(ctx, e) EXCEPT !.revision = ctx.revision + 1]

-----------------------------------------------------------------------------
(* Effects *)

EffectKinds == {"AuthorizeFunding", "RequestClaimConsumption", "ArmRefundPath",
                "RevalidateFrom", "RecordTerminalOutcome"}

\* One outbox entry.  OutboxEffectV1::derive hashes the source event, the kind
\* and the payload; the payload is a function of the other two.
Effects == [kind : EffectKinds, source : Events]

\* Mutation of EffectKindsOf: a refund ends the settlement without recording it.
EffectKindsOfSilent(ctx, e) ==
    CASE e.kind = "RefundArmed"           -> {"AuthorizeFunding"}
      [] e.kind = "ClaimEvidenceVerified" -> {"RequestClaimConsumption"}
      [] e.kind = "TimelockExpired"       -> {"ArmRefundPath"}
      [] e.kind = "ClaimConfirmed"        -> {"RecordTerminalOutcome"}
      [] e.kind = "ReorgInvalidated" ->
            IF Affected(ctx, e) THEN {"RevalidateFrom"} ELSE {}
      [] OTHER -> {}

EffectKindsOf(ctx, e) ==
    CASE e.kind = "RefundArmed"           -> {"AuthorizeFunding"}
      [] e.kind = "ClaimEvidenceVerified" -> {"RequestClaimConsumption"}
      [] e.kind = "TimelockExpired"       -> {"ArmRefundPath"}
      [] e.kind \in {"ClaimConfirmed", "RefundConfirmed"} -> {"RecordTerminalOutcome"}
      [] e.kind = "ReorgInvalidated" ->
            IF Affected(ctx, e) THEN {"RevalidateFrom"} ELSE {}
      [] OTHER -> {}

\* Transition::effects of an accepted event, as outbox entries.
EffectsOf(ctx, e) == {[kind |-> k, source |-> e] : k \in EffectKindsOf(ctx, e)}
=============================================================================
