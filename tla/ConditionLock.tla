---------------------------- MODULE ConditionLock ----------------------------
(***************************************************************************)
(* ConditionLockCoreV2 with its two asset variants: ConditionLockV2 (ETH,  *)
(* native) and ConditionLockERC20V2 (one token).  All locks of an asset    *)
(* share one pooled custody.                                               *)
(*                                                                         *)
(* An entry point that calls the asset or a payout target is two steps:    *)
(* the code up to the external call, which leaves a call frame, and the    *)
(* code after it.  In between, the callee may do anything it is able to:   *)
(* deposit into the contract and call its entry points again.  A frame     *)
(* keeps the state that a revert of the call brings back.                  *)
(*                                                                         *)
(* The asset keeps a true ledger and moves at most what it was asked to    *)
(* move.  It may move less, fail, or refuse to answer balanceOf.           *)
(***************************************************************************)
EXTENDS Integers, Sequences, FiniteSets

CONSTANTS Accounts,
          Locks,      \* lock ids; an id commits to the terms and the funder
          Terms,      \* lock -> [funder, beneficiary, amount, deadline]
          MaxUint,    \* type(uint256).max
          MaxTime     \* bound: block time stops here

ASSUME AccountsAssumption == IsFiniteSet(Accounts)
ASSUME LocksAssumption == Locks # {} /\ IsFiniteSet(Locks)
ASSUME TermsAssumption ==
    Terms \in [Locks -> [funder : Accounts, beneficiary : Accounts,
                         amount : 1 .. MaxUint, deadline : Nat]]
ASSUME MaxUintAssumption == MaxUint \in Nat
ASSUME MaxTimeAssumption == MaxTime \in Nat

VARIABLES
    native,    \* which of the two contracts this is
    now,       \* block.timestamp
    locks,     \* lock -> "absent", "open", "claimed" or "refunded"
    credit,    \* pendingWithdrawals of the asset
    custody,   \* what the asset's ledger says this contract holds
    frames,    \* stack of external calls in progress
    paid,      \* history: account -> value that left custody on its account
    owed,      \* history: what the contract owes to locks, credits and calls
    exact      \* history: no unmeasured push, no deposit in the middle of one

world == <<locks, credit, custody, paid, owed, exact>>
vars  == <<native, now, frames, world>>

Statuses == {"absent", "open", "claimed", "refunded"}

World == [locks |-> locks, credit |-> credit, custody |-> custody,
          paid |-> paid, owed |-> owed, exact |-> exact]

Init ==
    /\ native \in BOOLEAN
    /\ now = 0
    /\ locks = [l \in Locks |-> "absent"]
    /\ credit = [a \in Accounts |-> 0]
    /\ custody = 0
    /\ frames = <<>>
    /\ paid = [a \in Accounts |-> 0]
    /\ owed = 0
    /\ exact = TRUE

-----------------------------------------------------------------------------
(* Helpers *)

\* Bug: the entry points can be entered again from a call they make.
NonReentrantDropped == Len(frames) < 2
NonReentrant == frames = <<>>

\* unchecked add of _addSaturating
AddSaturating(a, b) == IF a + b > MaxUint THEN MaxUint ELSE a + b

Top == frames[Len(frames)]
Pop == SubSeq(frames, 1, Len(frames) - 1)

\* A frame: the operation, whose money it moves, how much, the answer of the
\* balance probe before the call, and the state a revert restores.
Call(op, l, who, n, measured, saved) ==
    frames' = Append(frames, [op |-> op, lock |-> l, who |-> who, amount |-> n,
                              measured |-> measured, saved |-> saved])

\* The EVM rolls back what a reverted call did.
Revert(saved) ==
    /\ locks' = saved.locks
    /\ credit' = saved.credit
    /\ custody' = saved.custody
    /\ paid' = saved.paid
    /\ owed' = saved.owed
    /\ exact' = saved.exact

\* Bug: the whole amount counts as undelivered whenever less than it moved.
DeliverAllOrNothing(before, after, n, measured) ==
    IF before >= after + n THEN n ELSE 0
\* _deliver after a transfer that succeeded: the decrease of the balance, at
\* most the amount; for an unmeasured push, the amount.
Deliver(before, after, n, measured) ==
    IF measured
    THEN IF before <= after THEN 0
         ELSE IF before - after > n THEN n ELSE before - after
    ELSE n

-----------------------------------------------------------------------------
(* open *)

\* The value of a native lock arrives with the call.
OpenNative(l) ==
    /\ native
    /\ custody + Terms[l].amount <= MaxUint
    /\ locks' = [locks EXCEPT ![l] = "open"]
    /\ custody' = custody + Terms[l].amount
    /\ owed' = owed + Terms[l].amount
    /\ UNCHANGED <<credit, frames, paid, exact>>

\* _takeCustody of a token, up to the transferFrom; an asset that cannot be
\* measured is refused.
OpenToken(l) ==
    /\ ~native
    /\ locks' = [locks EXCEPT ![l] = "open"]
    /\ Call("open", l, Terms[l].funder, Terms[l].amount, TRUE, World)
    /\ UNCHANGED <<credit, custody, paid, owed, exact>>

\* Bug: settled locks are forgotten, and the same terms can be opened again.
OpenForgetsSettled(l) ==
    /\ NonReentrant
    /\ Terms[l].deadline > now
    /\ locks[l] # "open"
    /\ OpenNative(l) \/ OpenToken(l)
    /\ UNCHANGED <<native, now>>
Open(l) ==
    /\ NonReentrant
    /\ Terms[l].deadline > now
    /\ locks[l] = "absent"
    /\ OpenNative(l) \/ OpenToken(l)
    /\ UNCHANGED <<native, now>>

\* After the transferFrom: exactly the amount has arrived, or open reverts.
OpenReturns ==
    /\ frames # <<>> /\ Top.op = "open"
    /\ \E moved \in 0 .. Top.amount :
          /\ custody + moved <= MaxUint
          /\ \/ /\ custody + moved = Top.saved.custody + Top.amount
                /\ custody' = custody + moved
                /\ owed' = owed + Top.amount
                /\ UNCHANGED <<locks, credit, paid, exact>>
             \/ /\ custody + moved # Top.saved.custody + Top.amount
                /\ Revert(Top.saved)
    /\ frames' = Pop
    /\ UNCHANGED <<native, now>>

\* The transferFrom fails, or the balance cannot be read after it.
OpenFails ==
    /\ frames # <<>> /\ Top.op = "open"
    /\ Revert(Top.saved)
    /\ frames' = Pop
    /\ UNCHANGED <<native, now>>

-----------------------------------------------------------------------------
(* claim, refund and _payout *)

\* _payout up to the push.  Below the gas floor there is no push.
Payout(l, who, status) ==
    /\ locks' = [locks EXCEPT ![l] = status]
    /\ \/ /\ credit' = [credit EXCEPT ![who] = AddSaturating(@, Terms[l].amount)]
          /\ UNCHANGED frames
       \/ /\ \E measured \in BOOLEAN :
                Call("push", l, who, Terms[l].amount, measured,
                     [World EXCEPT !.locks = [locks EXCEPT ![l] = status]])
          /\ UNCHANGED credit
    /\ UNCHANGED <<native, now, custody, paid, owed, exact>>

\* The beneficiary reveals the secret.
Claim(l) ==
    /\ NonReentrant
    /\ locks[l] = "open"
    /\ now < Terms[l].deadline
    /\ Payout(l, Terms[l].beneficiary, "claimed")

\* Anyone, once the deadline has been reached.
Refund(l) ==
    /\ NonReentrant
    /\ locks[l] = "open"
    /\ now >= Terms[l].deadline
    /\ Payout(l, Terms[l].funder, "refunded")

\* Bug: a push that fails leaves no credit.
PushFailsSilently ==
    /\ frames # <<>> /\ Top.op = "push"
    /\ Revert(Top.saved)
    /\ frames' = Pop
    /\ UNCHANGED <<native, now>>
\* Bug: a push that fails takes the settlement with it.
PushRevertsSettlement ==
    /\ frames # <<>> /\ Top.op = "push"
    /\ Revert([Top.saved EXCEPT !.locks[Top.lock] = "open"])
    /\ frames' = Pop
    /\ UNCHANGED <<native, now>>
\* The push fails: what the call did is undone and the amount is credited.
PushFails ==
    /\ frames # <<>> /\ Top.op = "push"
    /\ Revert([Top.saved EXCEPT !.credit[Top.who] = AddSaturating(@, Top.amount)])
    /\ frames' = Pop
    /\ UNCHANGED <<native, now>>

\* The push succeeds, having moved all, some or nothing; the shortfall is
\* credited.  Ether moves as a whole and is not measured.
PushReturns ==
    /\ frames # <<>> /\ Top.op = "push"
    /\ \E moved \in 0 .. Top.amount, answers \in BOOLEAN :
          LET measured  == Top.measured /\ answers
              delivered == IF native THEN Top.amount
                           ELSE Deliver(Top.saved.custody, custody - moved,
                                        Top.amount, measured)
          IN /\ moved <= custody
             /\ native => moved = Top.amount
             /\ custody' = custody - moved
             /\ paid' = [paid EXCEPT ![Top.who] = @ + moved]
             /\ credit' = [credit EXCEPT ![Top.who] =
                              AddSaturating(@, Top.amount - delivered)]
             /\ owed' = owed - delivered
             /\ exact' = (exact /\ (native \/ measured))
    /\ frames' = Pop
    /\ UNCHANGED <<native, now, locks>>

-----------------------------------------------------------------------------
(* withdraw, withdrawTo and withdrawAmount *)

\* Bug: an instalment is not compared with the credit.
WithdrawUnchecked(a) ==
    /\ NonReentrant
    /\ credit[a] # 0
    /\ \E n \in 1 .. MaxUint, measured \in BOOLEAN :
          /\ credit' = [credit EXCEPT ![a] = @ - n]
          /\ Call("pull", CHOOSE l \in Locks : TRUE, a, n, measured, World)
    /\ UNCHANGED <<native, now, locks, custody, paid, owed, exact>>
\* The whole credit or an instalment; it is reduced before the transfer.
Withdraw(a) ==
    /\ NonReentrant
    /\ credit[a] # 0
    /\ \E n \in 1 .. credit[a], measured \in BOOLEAN :
          /\ credit' = [credit EXCEPT ![a] = @ - n]
          /\ Call("pull", CHOOSE l \in Locks : TRUE, a, n, measured, World)
    /\ UNCHANGED <<native, now, locks, custody, paid, owed, exact>>

\* The transfer has moved exactly what was asked for.
PullReturns ==
    /\ frames # <<>> /\ Top.op = "pull"
    /\ \E moved \in 0 .. Top.amount :
          /\ moved <= custody
          /\ IF native THEN moved = Top.amount
             ELSE /\ Top.measured
                  /\ Deliver(Top.saved.custody, custody - moved, Top.amount, TRUE)
                        = Top.amount
          /\ custody' = custody - moved
          /\ paid' = [paid EXCEPT ![Top.who] = @ + moved]
          /\ owed' = owed - Top.amount
    /\ frames' = Pop
    /\ UNCHANGED <<native, now, locks, credit, exact>>

\* It failed, delivered less or could not be measured: withdraw reverts.
PullFails ==
    /\ frames # <<>> /\ Top.op = "pull"
    /\ Revert(Top.saved)
    /\ frames' = Pop
    /\ UNCHANGED <<native, now>>

-----------------------------------------------------------------------------
(* Environment *)

\* Value sent to the contract outside of open, by anyone at any moment, also
\* by a payout target in the middle of a push.
Deposit ==
    /\ \E n \in 1 .. MaxUint :
          /\ custody + n <= MaxUint
          /\ custody' = custody + n
    /\ exact' = (exact /\ (native \/ frames = <<>>))
    /\ UNCHANGED <<native, now, frames, locks, credit, paid, owed>>

\* Block time stands still inside a transaction.
Tick ==
    /\ frames = <<>>
    /\ now < MaxTime
    /\ now' = now + 1
    /\ UNCHANGED <<native, frames, world>>

CallReturns ==
    \/ OpenReturns \/ OpenFails
    \/ PushReturns \/ PushFails
    \/ PullReturns \/ PullFails

Next ==
    \/ \E l \in Locks : Open(l) \/ Claim(l) \/ Refund(l)
    \/ \E a \in Accounts : Withdraw(a)
    \/ CallReturns
    \/ Deposit
    \/ Tick

Spec == Init /\ [][Next]_vars

\* Block time goes on between transactions, a call that was made comes back,
\* and somebody asks for a refund that is due: refund needs no permission.
\* Nothing is assumed of the beneficiary, of withdrawals or of what the payout
\* target does.
FairSpec ==
    /\ Spec
    /\ SF_vars(Tick)
    /\ WF_vars(CallReturns)
    /\ \A l \in Locks : SF_vars(Refund(l))

-----------------------------------------------------------------------------
(* Properties *)

WorldType ==
    [locks : [Locks -> Statuses], credit : [Accounts -> Nat], custody : Nat,
     paid : [Accounts -> Nat], owed : Int, exact : BOOLEAN]

FrameType ==
    [op : {"open", "push", "pull"}, lock : Locks, who : Accounts,
     amount : Nat, measured : BOOLEAN, saved : WorldType]

\* The contract's state is well formed; in particular no credit ever falls
\* below zero, where the checked subtraction of _withdraw would revert.
TypeOK ==
    /\ native \in BOOLEAN
    /\ now \in Nat
    /\ locks \in [Locks -> Statuses]
    /\ credit \in [Accounts -> Nat]
    /\ custody \in Nat
    /\ frames \in Seq(FrameType)
    /\ paid \in [Accounts -> Nat]
    /\ owed \in Int
    /\ exact \in BOOLEAN

\* The pooled custody covers everything the contract owes, in every state,
\* also in the middle of an external call: no credit or lock is ever honoured
\* out of another lock's funds (the solvency hole that the comment of _payout
\* is about).
Solvent == custody >= owed

-----------------------------------------------------------------------------
(* What the contract promises to the protocol *)

\* A lock counts as funded when open has returned.
OpenInProgress(l) == \E i \in DOMAIN frames : frames[i].op = "open" /\ frames[i].lock = l

Promise == INSTANCE Escrow
           WITH Deadline <- [l \in Locks |-> Terms[l].deadline],
                ClaimExpires <- TRUE,
                state <- [l \in Locks |-> IF OpenInProgress(l) THEN "absent" ELSE locks[l]],
                revealed <- {l \in Locks : locks[l] = "claimed"},
                time <- now

\* One exit per lock, claims strictly before the deadline and refunds from it
\* on, the secret public exactly by a claim, and no failing or reentering
\* payout target undoes any of it (claim, refund, open).
EscrowSpec == Promise!Spec

\* Settlement is never blocked by the payout target (D-002): every lock that was
\* funded reaches an exit that is not undone, whatever its payout target and the
\* asset do.
EveryLockSettles ==
    \A l \in Locks : locks[l] = "open" /\ ~OpenInProgress(l)
                         ~> locks[l] \in {"claimed", "refunded"} /\ frames = <<>>
-----------------------------------------------------------------------------
(* What the contract owes, and to whom *)

\* The sum of f over S: the number of its units.
Total(f, S) == Cardinality(UNION {{x} \X (1 .. f[x]) : x \in S})

Amount == [l \in Locks |-> Terms[l].amount]

\* The open locks whose funds have arrived.
Held == {l \in Locks : locks[l] = "open" /\ ~OpenInProgress(l)}

\* What is on its way out.
Outgoing == [i \in DOMAIN frames |->
                IF frames[i].op = "open" THEN 0 ELSE frames[i].amount]

\* Nothing the contract owes is forgotten or counted twice: the open locks
\* whose funds have arrived, the credits, and what is on its way out.  This is
\* what makes Solvent a statement about the contract's own storage.
OwedIsTheSum ==
    owed = Total(Amount, Held) + Total(credit, Accounts) + Total(Outgoing, DOMAIN frames)

\* The settled locks that have earned an account their amount.
Earned(a) ==
    {l \in Locks : \/ locks[l] = "claimed" /\ Terms[l].beneficiary = a
                   \/ locks[l] = "refunded" /\ Terms[l].funder = a}

\* Between transactions every account has received or is credited exactly what
\* its locks earned it, in whatever pieces the asset moved it, as long as the
\* asset could be measured and nobody deposited in the middle of a push.
NobodyShortChanged ==
    exact /\ frames = <<>> =>
        \A a \in Accounts : paid[a] + credit[a] = Total(Amount, Earned(a))
=============================================================================
