------------------------ MODULE MCSettlementWriters ------------------------
(***************************************************************************)
(* Bounded instances of SettlementWriters.                                 *)
(***************************************************************************)
EXTENDS SettlementWriters, TLC

At(k, h, a) == [kind |-> k, evidence |-> [height |-> h, anchor |-> a]]
Reorg(h, a) == [kind |-> "ReorgInvalidated", from_height |-> h, old_anchor |-> a]
Plain(k)    == [kind |-> k]

\* Funding and claim on one branch, and the reorg that removes both: enough for
\* a settlement to settle, to regress and to be refreshed.
ClaimEvents == {Plain("RefundArmed"),
                At("FundingObserved", 0, "a"), At("FundingConfirmed", 0, "a"),
                At("ClaimEvidenceVerified", 0, "a"), At("ClaimConfirmed", 0, "a"),
                Reorg(0, "a")}

\* Both ways to end, with the timelock and a withdrawn funding before them.
RaceEvents == {Plain("RefundArmed"), Plain("TimelockExpired"),
               At("FundingObserved", 0, "a"), At("FundingConfirmed", 0, "a"),
               At("ClaimEvidenceVerified", 0, "a"), At("ClaimConfirmed", 0, "a"),
               At("RefundConfirmed", 0, "a"),
               [kind |-> "FundingAbsent", revalidation_from |-> 0]}

\* A claim that a reorg removes and brings back: its event, which has an effect,
\* is committed twice.
RefreshEvents == {Plain("RefundArmed"),
                  At("FundingObserved", 0, "a"), At("FundingConfirmed", 0, "a"),
                  At("ClaimEvidenceVerified", 1, "a"), Reorg(1, "a")}

Symm == Permutations(Writers) \cup Permutations(Dispatchers)
=============================================================================
