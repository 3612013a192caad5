------------------------------- MODULE Escrow -------------------------------
(***************************************************************************)
(* What an on-chain escrow promises to the settlement protocol, whichever  *)
(* chain it lives on: every lock has at most one exit, the secret of a     *)
(* lock is public exactly when the lock was claimed, and no refund happens *)
(* before its deadline.  ClaimExpires tells the two contract families      *)
(* apart: on the EVM the claim window ends where the refund window starts, *)
(* on Solana a claim is accepted for as long as the funds are there.       *)
(***************************************************************************)
EXTENDS Naturals

CONSTANTS Locks,
          Deadline,      \* lock -> the time its refund becomes possible
          ClaimExpires   \* whether a claim needs the deadline ahead

VARIABLES state,      \* lock -> "absent", "open", "claimed" or "refunded"
          revealed,   \* the locks whose secret is public
          time        \* the clock of the chain

evars == <<state, revealed, time>>

Init ==
    /\ state = [l \in Locks |-> "absent"]
    /\ revealed = {}
    /\ time \in Nat

Advance == time' > time /\ time' \in Nat /\ UNCHANGED <<state, revealed>>

Fund(l) ==
    /\ state[l] = "absent"
    /\ state' = [state EXCEPT ![l] = "open"]
    /\ UNCHANGED <<revealed, time>>

Claim(l) ==
    /\ state[l] = "open"
    /\ ClaimExpires => time < Deadline[l]
    /\ state' = [state EXCEPT ![l] = "claimed"]
    /\ revealed' = revealed \cup {l}
    /\ UNCHANGED time

Refund(l) ==
    /\ state[l] = "open"
    /\ time >= Deadline[l]
    /\ state' = [state EXCEPT ![l] = "refunded"]
    /\ UNCHANGED <<revealed, time>>

Next == Advance \/ \E l \in Locks : Fund(l) \/ Claim(l) \/ Refund(l)

Spec == Init /\ [][Next]_evars
=============================================================================
