------------------------- MODULE ConditionLockProofs -------------------------
(***************************************************************************)
(* The condition lock is solvent, accounts for every debt, pays everyone   *)
(* their share and keeps the promise of an escrow, for any accounts,       *)
(* locks, terms and width of an integer, for the native and the token      *)
(* contract.                                                               *)
(***************************************************************************)
EXTENDS ConditionLock, TLAPS, FiniteSetTheorems

\* What an external call in progress guarantees: there is only one, nothing
\* has left custody and no debt has appeared since it was made, and a revert
\* brings back the exits as they are (or, for open, as they were before).
CallInv(f) ==
    /\ f.saved.owed = owed
    /\ f.saved.custody >= owed
    /\ f.saved.custody <= custody
    /\ f.op = "open" =>
          /\ ~native
          /\ locks[f.lock] = "open"
          /\ f.amount = Terms[f.lock].amount
          /\ f.saved.locks = [locks EXCEPT ![f.lock] = "absent"]
    /\ f.op # "open" => f.saved.locks = locks

FrameInv == Len(frames) <= 1 /\ \A i \in DOMAIN frames : CallInv(frames[i])

IInv == TypeOK /\ Solvent /\ FrameInv

-----------------------------------------------------------------------------
(* Stacks of at most one frame *)

\* With no call in progress the invariant of the frames is vacuous.
LEMMA NoCall ==
    ASSUME frames' = <<>>
    PROVE  frames' \in Seq(FrameType)' /\ FrameInv'
<1>1. <<>> \in Seq(FrameType) /\ Len(<<>>) = 0 /\ DOMAIN <<>> = {}
  OBVIOUS
<1>2. FrameType' = FrameType
  BY DEF FrameType, WorldType
<1> QED
  BY <1>1, <1>2 DEF FrameInv

\* What is known when a call comes back.
LEMMA TopCall ==
    ASSUME IInv, frames # <<>>
    PROVE  Top \in FrameType /\ CallInv(Top) /\ Pop = <<>>
<1>1. frames \in Seq(FrameType) /\ Len(frames) <= 1
  BY DEF IInv, TypeOK, FrameInv
<1>2. Len(frames) = 1
  <2>1. Len(frames) \in Nat \ {0}
    BY <1>1
  <2>2. \A n \in Nat \ {0} : n <= 1 => n = 1
    OBVIOUS
  <2> QED
    BY <1>1, <2>1, <2>2, Zenon
<1>3. DOMAIN frames = 1 .. 1 /\ frames[1] \in FrameType
  BY <1>1, <1>2
<1>4. Pop = <<>>
  BY <1>2 DEF Pop
<1> QED
  BY <1>2, <1>3, <1>4 DEF IInv, FrameInv, Top

\* What is to be shown when a call is made.
LEMMA NewCall ==
    ASSUME IInv, frames = <<>>, NEW f \in FrameType, frames' = Append(frames, f),
           CallInv(f)'
    PROVE  frames' \in Seq(FrameType)' /\ FrameInv'
<1>1. FrameType' = FrameType
  BY DEF FrameType, WorldType
<1>2. /\ Append(<<>>, f) \in Seq(FrameType)
      /\ Len(Append(<<>>, f)) = 1
      /\ Append(<<>>, f)[1] = f
  <2>1. <<>> \in Seq(FrameType) /\ Len(<<>>) = 0
    OBVIOUS
  <2> QED
    BY <2>1
<1>3. DOMAIN Append(<<>>, f) = 1 .. 1
  BY <1>2
<1>4. frames' \in Seq(FrameType) /\ Len(frames') = 1 /\ DOMAIN frames' = 1 .. 1 /\ frames'[1] = f
  BY <1>2, <1>3
<1>5. \A i \in DOMAIN frames' : i = 1
  BY <1>4
<1> QED
  BY <1>1, <1>4, <1>5 DEF FrameInv

\* The state a call saves for its revert is well typed.
LEMMA WorldHasType == TypeOK => World \in WorldType
  BY DEF TypeOK, World, WorldType

\* The fields of a saved state and of a call are well typed.
LEMMA SavedHasType ==
    ASSUME NEW w \in WorldType
    PROVE  /\ w.locks \in [Locks -> Statuses] /\ w.credit \in [Accounts -> Nat]
           /\ w.custody \in Nat /\ w.paid \in [Accounts -> Nat]
           /\ w.owed \in Int /\ w.exact \in BOOLEAN
  BY DEF WorldType

\* So is a call in progress.
LEMMA CallHasType ==
    ASSUME NEW f \in FrameType
    PROVE  /\ f.lock \in Locks /\ f.who \in Accounts /\ f.saved \in WorldType
           /\ f.measured \in BOOLEAN /\ f.amount \in Nat
           /\ f.op \in {"open", "push", "pull"}
  BY DEF FrameType

\* So are the terms of a lock.
LEMMA TermsHaveType ==
    ASSUME NEW l \in Locks
    PROVE  /\ Terms[l].funder \in Accounts /\ Terms[l].beneficiary \in Accounts
           /\ Terms[l].amount \in 1 .. MaxUint /\ Terms[l].amount \in Nat
           /\ Terms[l].deadline \in Nat
<1>1. Terms[l] \in [funder : Accounts, beneficiary : Accounts,
                    amount : 1 .. MaxUint, deadline : Nat]
  BY TermsAssumption
<1>2. Terms[l].amount \in 1 .. MaxUint
  BY <1>1
<1>3. Terms[l].amount \in Nat
  BY <1>2, MaxUintAssumption
<1> QED
  BY <1>1, <1>2, <1>3

\* A saturating sum is a natural number.
LEMMA SaturatingHasType ==
    ASSUME NEW a \in Nat, NEW b \in Nat
    PROVE  AddSaturating(a, b) \in Nat
  BY MaxUintAssumption DEF AddSaturating

-----------------------------------------------------------------------------
(* The invariant *)

\* The invariant holds when the contract is deployed.
LEMMA InitHolds == Init => IInv
<1> SUFFICES ASSUME Init PROVE IInv
  OBVIOUS
<1>1. frames \in Seq(FrameType) /\ Len(frames) = 0 /\ DOMAIN frames = {}
  BY DEF Init
<1>2. TypeOK
  BY <1>1 DEF Init, TypeOK, Statuses
<1> QED
  BY <1>1, <1>2 DEF Init, IInv, Solvent, FrameInv

\* open keeps it: the liability is recorded with the custody it measured or expects.
LEMMA OpenHolds ==
    ASSUME IInv, NEW l \in Locks, Open(l)
    PROVE  IInv'
<1> USE DEF IInv, TypeOK
<1>1. frames = <<>> /\ locks[l] = "absent" /\ UNCHANGED <<native, now>>
  BY DEF Open, NonReentrant
<1>2. Terms[l].amount \in Nat
  BY TermsHaveType
<1>3. CASE OpenNative(l)
  <2>1. frames' = <<>>
    BY <1>1, <1>3 DEF OpenNative
  <2>2. /\ locks' \in [Locks -> Statuses] /\ custody' \in Nat /\ owed' \in Int
        /\ UNCHANGED <<credit, paid, exact>>
    BY <1>2, <1>3 DEF OpenNative, Statuses
  <2>3. Solvent'
    BY <1>2, <1>3 DEF OpenNative, Solvent
  <2> QED
    BY <1>1, <2>1, <2>2, <2>3, NoCall
<1>4. CASE OpenToken(l)
  <2>1. PICK f \in FrameType :
              f = [op |-> "open", lock |-> l, who |-> Terms[l].funder,
                   amount |-> Terms[l].amount, measured |-> TRUE, saved |-> World]
    BY Zenon, TermsHaveType, WorldHasType DEF FrameType
  <2>2. frames' = Append(frames, f)
    BY <1>4, <2>1 DEF OpenToken, Call
  <2>3. locks' \in [Locks -> Statuses] /\ UNCHANGED <<custody, owed, credit, paid, exact>>
    BY <1>4 DEF OpenToken, Statuses
  <2>4. CallInv(f)'
    <3>1. f.saved.owed = owed /\ f.saved.custody = custody /\ f.saved.locks = locks
      BY <2>1 DEF World
    <3>2. f.saved.owed = owed' /\ f.saved.custody >= owed' /\ f.saved.custody <= custody'
      BY <2>3, <3>1 DEF Solvent
    <3>3. ~native' /\ locks'[l] = "open"
      BY <1>1, <1>4 DEF OpenToken
    <3>4. locks = [locks' EXCEPT ![l] = "absent"]
      BY Zenon, <1>1, <1>4 DEF OpenToken
    <3>5. f.op = "open" /\ f.lock = l /\ f.amount = Terms[l].amount
      BY <2>1
    <3> QED
      BY <3>1, <3>2, <3>3, <3>4, <3>5 DEF CallInv
  <2>5. frames' \in Seq(FrameType)' /\ FrameInv'
    BY <1>1, <2>1, <2>2, <2>4, NewCall
  <2> QED
    BY <1>1, <2>3, <2>5 DEF Solvent
<1> QED
  BY <1>3, <1>4 DEF Open

\* A reverted call leaves the invariant as it found it.
LEMMA RevertHolds ==
    ASSUME IInv, frames # <<>>, NEW w \in WorldType, Revert(w), frames' = Pop,
           w.custody = Top.saved.custody, w.owed = Top.saved.owed,
           UNCHANGED <<native, now>>
    PROVE  IInv'
<1>1. CallInv(Top) /\ frames' = <<>>
  BY TopCall
<1>2. Solvent'
  BY <1>1 DEF Revert, Solvent, CallInv
<1> QED
  BY <1>1, <1>2, NoCall, SavedHasType DEF IInv, TypeOK, Revert

\* So does its return: the amount is checked against what arrived.
LEMMA OpenReturnsHolds ==
    ASSUME IInv, OpenReturns
    PROVE  IInv'
<1>1. frames # <<>> /\ frames' = Pop /\ UNCHANGED <<native, now>>
  BY DEF OpenReturns
<1>2. Top \in FrameType /\ CallInv(Top) /\ Pop = <<>>
  BY <1>1, TopCall
<1>3. Top.amount \in Nat /\ Top.saved.custody \in Nat /\ Top.saved \in WorldType
  BY <1>2, CallHasType, SavedHasType
<1>4. PICK moved \in 0 .. Top.amount :
          \/ /\ custody + moved = Top.saved.custody + Top.amount
             /\ custody' = custody + moved
             /\ owed' = owed + Top.amount
             /\ UNCHANGED <<locks, credit, paid, exact>>
          \/ Revert(Top.saved)
  BY DEF OpenReturns
<1>5. CASE Revert(Top.saved)
  BY <1>1, <1>3, <1>5, RevertHolds
<1>6. CASE ~Revert(Top.saved)
  <2>1. custody' \in Nat /\ owed' \in Int /\ UNCHANGED <<locks, credit, paid, exact>>
    BY <1>3, <1>4, <1>6 DEF IInv, TypeOK
  <2>2. Solvent'
    BY <1>2, <1>3, <1>4, <1>6 DEF IInv, TypeOK, Solvent, CallInv
  <2> QED
    BY <1>1, <1>2, <2>1, <2>2, NoCall DEF IInv, TypeOK
<1> QED
  BY <1>5, <1>6

\* A failing open or pull restores the saved state.
LEMMA CallFailsHolds ==
    ASSUME IInv, OpenFails \/ PullFails
    PROVE  IInv'
<1>1. frames # <<>> /\ frames' = Pop /\ Revert(Top.saved) /\ UNCHANGED <<native, now>>
  BY DEF OpenFails, PullFails
<1>2. Top.saved \in WorldType
  BY <1>1, TopCall, CallHasType
<1> QED
  BY <1>1, <1>2, RevertHolds

\* A failing push turns the payment into a credit of the same amount.
LEMMA PushFailsHolds ==
    ASSUME IInv, PushFails
    PROVE  IInv'
<1> DEFINE w == [Top.saved EXCEPT !.credit[Top.who] = AddSaturating(@, Top.amount)]
<1>1. frames # <<>> /\ frames' = Pop /\ Revert(w) /\ UNCHANGED <<native, now>>
  BY DEF PushFails
<1>2. Top.saved \in WorldType /\ Top.who \in Accounts /\ Top.amount \in Nat
  BY <1>1, TopCall, CallHasType
<1>3. AddSaturating(Top.saved.credit[Top.who], Top.amount) \in Nat
  BY Zenon, <1>2, SavedHasType, SaturatingHasType
<1>4. w \in WorldType /\ w.custody = Top.saved.custody /\ w.owed = Top.saved.owed
  BY <1>2, <1>3 DEF WorldType
<1> HIDE DEF w
<1> QED
  BY <1>1, <1>4, RevertHolds

\* What a push counts as delivered is at most the amount and covers what left.
LEMMA DeliverBounds ==
    ASSUME NEW before \in Nat, NEW after \in Nat, NEW n \in Nat, NEW measured \in BOOLEAN
    PROVE  /\ Deliver(before, after, n, measured) \in 0 .. n
           /\ before - after <= n => after >= before - Deliver(before, after, n, measured)
  BY DEF Deliver

\* claim and refund move a liability from the lock to the payment in progress.
LEMMA PayoutHolds ==
    ASSUME IInv, frames = <<>>, NEW l \in Locks, NEW who \in Accounts,
           NEW status \in Statuses, Payout(l, who, status)
    PROVE  IInv'
<1> USE DEF IInv, TypeOK
<1>1. /\ locks' = [locks EXCEPT ![l] = status]
      /\ UNCHANGED <<native, now, custody, paid, owed, exact>>
  BY DEF Payout
<1>2. locks' \in [Locks -> Statuses] /\ Terms[l].amount \in Nat
  BY <1>1, TermsHaveType
<1>3. CASE /\ credit' = [credit EXCEPT ![who] = AddSaturating(@, Terms[l].amount)]
           /\ UNCHANGED frames
  <2>1. AddSaturating(credit[who], Terms[l].amount) \in Nat
    BY Zenon, <1>2, SaturatingHasType
  <2>2. credit' \in [Accounts -> Nat]
    BY <1>3, <2>1
  <2>3. frames' \in Seq(FrameType)' /\ FrameInv'
    BY <1>3, NoCall
  <2> QED
    BY <1>1, <1>2, <2>2, <2>3 DEF Solvent
<1>4. CASE /\ \E measured \in BOOLEAN :
                 Call("push", l, who, Terms[l].amount, measured,
                      [World EXCEPT !.locks = [locks EXCEPT ![l] = status]])
           /\ UNCHANGED credit
  <2>1. PICK measured \in BOOLEAN :
              Call("push", l, who, Terms[l].amount, measured,
                   [World EXCEPT !.locks = [locks EXCEPT ![l] = status]])
    BY <1>4
  <2>2. PICK w \in WorldType : w = [World EXCEPT !.locks = [locks EXCEPT ![l] = status]]
    BY Zenon, WorldHasType DEF WorldType
  <2>3. PICK f \in FrameType :
              f = [op |-> "push", lock |-> l, who |-> who, amount |-> Terms[l].amount,
                   measured |-> measured, saved |-> w]
    BY Zenon, TermsHaveType DEF FrameType
  <2>4. frames' = Append(frames, f)
    BY <2>1, <2>2, <2>3 DEF Call
  <2>5. CallInv(f)'
    <3>1. f.saved = w /\ f.op = "push"
      BY <2>3
    <3>2. w.owed = owed /\ w.custody = custody /\ w.locks = locks'
      BY <1>1, <2>2 DEF World
    <3>3. w.owed = owed' /\ w.custody >= owed' /\ w.custody <= custody'
      BY <1>1, <3>2 DEF Solvent
    <3> QED
      BY <3>1, <3>2, <3>3 DEF CallInv
  <2>6. frames' \in Seq(FrameType)' /\ FrameInv'
    BY <2>4, <2>5, NewCall
  <2> QED
    BY <1>1, <1>2, <1>4, <2>6 DEF Solvent
<1> QED
  BY Zenon, <1>3, <1>4 DEF Payout

\* A push that returns credits what was not delivered.
LEMMA PushReturnsHolds ==
    ASSUME IInv, PushReturns
    PROVE  IInv'
<1>1. frames # <<>> /\ frames' = Pop /\ UNCHANGED <<native, now, locks>>
  BY DEF PushReturns
<1>2. CallInv(Top) /\ Pop = <<>> /\ Top \in FrameType
  BY <1>1, TopCall
<1>3. /\ Top.amount \in Nat /\ Top.saved.custody \in Nat /\ Top.who \in Accounts
      /\ Top.measured \in BOOLEAN
  BY <1>2, CallHasType, SavedHasType
<1>4. PICK moved \in 0 .. Top.amount, answers \in BOOLEAN :
          LET measured  == Top.measured /\ answers
              delivered == IF native THEN Top.amount
                           ELSE Deliver(Top.saved.custody, custody - moved,
                                        Top.amount, measured)
          IN /\ moved <= custody
             /\ custody' = custody - moved
             /\ paid' = [paid EXCEPT ![Top.who] = @ + moved]
             /\ credit' = [credit EXCEPT ![Top.who] =
                              AddSaturating(@, Top.amount - delivered)]
             /\ owed' = owed - delivered
             /\ exact' = (exact /\ (native \/ measured))
  BY Zenon DEF PushReturns
<1> DEFINE measured  == Top.measured /\ answers
           delivered == IF native THEN Top.amount
                        ELSE Deliver(Top.saved.custody, custody - moved,
                                     Top.amount, measured)
<1>5. moved \in Nat /\ custody \in Nat /\ custody' = custody - moved /\ custody' \in Nat
  BY <1>3, <1>4 DEF IInv, TypeOK
<1>6. measured \in BOOLEAN
  BY <1>3
<1>7. delivered \in 0 .. Top.amount /\ custody' >= Top.saved.custody - delivered
  <2>1. Top.saved.custody - custody' <= Top.amount
    BY <1>2, <1>3, <1>4, <1>5 DEF CallInv
  <2>2. CASE native
    BY <1>3, <1>5, <2>1, <2>2
  <2>3. CASE ~native
    <3> HIDE DEF measured
    <3>1. delivered = Deliver(Top.saved.custody, custody', Top.amount, measured)
      BY <1>5, <2>3
    <3> HIDE DEF delivered
    <3> QED
      BY Zenon, <1>3, <1>5, <1>6, <2>1, <3>1, DeliverBounds
  <2> QED
    BY <2>2, <2>3
<1>8. /\ paid' = [paid EXCEPT ![Top.who] = @ + moved]
      /\ credit' = [credit EXCEPT ![Top.who] = AddSaturating(@, Top.amount - delivered)]
      /\ owed' = owed - delivered
      /\ exact' \in BOOLEAN
  BY <1>3, <1>4 DEF IInv, TypeOK
<1> HIDE DEF measured, delivered
<1>9. paid' \in [Accounts -> Nat] /\ owed' \in Int
  BY SMT, SMTT(30), <1>3, <1>5, <1>7, <1>8 DEF IInv, TypeOK
<1>10. credit' \in [Accounts -> Nat]
  <2>1. Top.amount - delivered \in Nat
    BY <1>3, <1>7
  <2>2. credit \in [Accounts -> Nat] /\ credit[Top.who] \in Nat
    BY <1>3 DEF IInv, TypeOK
  <2>3. AddSaturating(credit[Top.who], Top.amount - delivered) \in Nat
    BY Zenon, <2>1, <2>2, SaturatingHasType
  <2> QED
    BY Zenon, <1>8, <2>2, <2>3
<1>11. Solvent'
  BY <1>2, <1>3, <1>5, <1>7, <1>8 DEF IInv, TypeOK, Solvent, CallInv
<1> QED
  BY <1>1, <1>2, <1>5, <1>8, <1>9, <1>10, <1>11, NoCall DEF IInv, TypeOK

\* withdraw clears the credit before the asset is called.
LEMMA WithdrawHolds ==
    ASSUME IInv, NEW a \in Accounts, Withdraw(a)
    PROVE  IInv'
<1> USE DEF IInv, TypeOK
<1>1. frames = <<>> /\ UNCHANGED <<native, now, locks, custody, paid, owed, exact>>
  BY DEF Withdraw, NonReentrant
<1>2. PICK n \in 1 .. credit[a], measured \in BOOLEAN :
          /\ credit' = [credit EXCEPT ![a] = @ - n]
          /\ Call("pull", CHOOSE l \in Locks : TRUE, a, n, measured, World)
  BY Zenon DEF Withdraw
<1>3. n \in Nat /\ credit' \in [Accounts -> Nat]
  BY <1>2
<1>4. PICK f \in FrameType :
          f = [op |-> "pull", lock |-> CHOOSE l \in Locks : TRUE, who |-> a,
               amount |-> n, measured |-> measured, saved |-> World]
  BY Zenon, <1>3, WorldHasType, LocksAssumption DEF FrameType
<1>5. frames' = Append(frames, f)
  BY <1>2, <1>4 DEF Call
<1>6. CallInv(f)'
  <2>1. f.op = "pull" /\ f.saved.owed = owed /\ f.saved.custody = custody /\ f.saved.locks = locks
    BY <1>4 DEF World
  <2> QED
    BY <1>1, <2>1 DEF CallInv, Solvent
<1>7. frames' \in Seq(FrameType)' /\ FrameInv'
  BY <1>1, <1>5, <1>6, NewCall
<1> QED
  BY <1>1, <1>3, <1>7 DEF Solvent

\* A pull that returns moved no more than the credit it cleared.
LEMMA PullReturnsHolds ==
    ASSUME IInv, PullReturns
    PROVE  IInv'
<1>1. frames # <<>> /\ frames' = Pop /\ UNCHANGED <<native, now, locks, credit, exact>>
  BY DEF PullReturns
<1>2. CallInv(Top) /\ Pop = <<>> /\ Top \in FrameType
  BY <1>1, TopCall
<1>3. Top.amount \in Nat /\ Top.saved.custody \in Nat /\ Top.who \in Accounts
  BY <1>2, CallHasType, SavedHasType
<1>4. PICK moved \in 0 .. Top.amount :
          /\ moved <= custody
          /\ custody' = custody - moved
          /\ paid' = [paid EXCEPT ![Top.who] = @ + moved]
          /\ owed' = owed - Top.amount
  BY Zenon DEF PullReturns
<1>5. custody' \in Nat /\ paid' \in [Accounts -> Nat] /\ owed' \in Int
  BY <1>3, <1>4 DEF IInv, TypeOK
<1>6. Solvent'
  BY <1>2, <1>3, <1>4 DEF IInv, TypeOK, Solvent, CallInv
<1> QED
  BY <1>1, <1>2, <1>5, <1>6, NoCall DEF IInv, TypeOK

\* The frames stay, and what they were promised still holds.
LEMMA CallsGoOn ==
    ASSUME IInv, UNCHANGED <<frames, locks, owed, native>>, custody' \in Nat,
           custody' >= custody
    PROVE  frames' \in Seq(FrameType)' /\ FrameInv' /\ Solvent'
<1>1. FrameType' = FrameType
  BY DEF FrameType, WorldType
<1>2. frames' \in Seq(FrameType)' /\ Solvent'
  BY <1>1 DEF IInv, TypeOK, Solvent
<1>3. ASSUME NEW i \in DOMAIN frames
      PROVE  CallInv(frames[i])'
  <2>1. CallInv(frames[i]) /\ frames[i] \in FrameType
    BY <1>3 DEF IInv, TypeOK, FrameInv
  <2>2. frames[i].saved.custody \in Nat
    BY <2>1, CallHasType, SavedHasType
  <2>3. frames[i].saved.custody <= custody'
    BY <2>1, <2>2 DEF IInv, TypeOK, CallInv
  <2> QED
    BY <2>1, <2>3 DEF CallInv
<1> QED
  BY <1>2, <1>3 DEF IInv, FrameInv

\* Assets sent to the contract from outside only help.
LEMMA DepositHolds ==
    ASSUME IInv, Deposit
    PROVE  IInv'
<1>1. custody' \in Nat /\ custody' >= custody
  BY MaxUintAssumption DEF Deposit, IInv, TypeOK
<1>2. exact' \in BOOLEAN /\ UNCHANGED <<native, now, frames, locks, credit, paid, owed>>
  BY DEF Deposit, IInv, TypeOK
<1> QED
  BY <1>1, <1>2, CallsGoOn DEF IInv, TypeOK

\* Time touches neither custody nor liabilities.
LEMMA QuietHolds ==
    ASSUME IInv, Tick \/ UNCHANGED vars
    PROVE  IInv'
<1>1. now' \in Nat /\ UNCHANGED <<native, frames, world>>
  BY DEF IInv, TypeOK, Tick, vars
<1>2. custody' \in Nat /\ custody' >= custody
  BY <1>1 DEF IInv, TypeOK, world
<1> QED
  BY <1>1, <1>2, CallsGoOn DEF IInv, TypeOK, world

\* Every step keeps the invariant.
LEMMA StepHolds == IInv /\ [Next]_vars => IInv'
<1> SUFFICES ASSUME IInv, [Next]_vars PROVE IInv'
  OBVIOUS
<1>1. ASSUME NEW l \in Locks, Claim(l) PROVE IInv'
  <2>1. Payout(l, Terms[l].beneficiary, "claimed") /\ frames = <<>>
    BY <1>1 DEF Claim, NonReentrant
  <2> QED
    BY <2>1, TermsHaveType, PayoutHolds DEF Statuses
<1>2. ASSUME NEW l \in Locks, Refund(l) PROVE IInv'
  <2>1. Payout(l, Terms[l].funder, "refunded") /\ frames = <<>>
    BY <1>2 DEF Refund, NonReentrant
  <2> QED
    BY <2>1, TermsHaveType, PayoutHolds DEF Statuses
<1>3. CASE CallReturns
  BY <1>3, OpenReturnsHolds, CallFailsHolds, PushReturnsHolds, PushFailsHolds,
     PullReturnsHolds DEF CallReturns
<1> QED
  BY <1>1, <1>2, <1>3, OpenHolds, WithdrawHolds, DepositHolds, QuietHolds DEF Next

\* The contract's state stays well formed and custody covers what is owed,
\* for the native and the token contract, whatever the asset and the payout
\* targets do inside the calls that open, claim, refund and withdraw make.
THEOREM AlwaysSolvent == Spec => [](TypeOK /\ Solvent)
<1>1. IInv => TypeOK /\ Solvent
  BY DEF IInv
<1> QED
  BY <1>1, InitHolds, StepHolds, PTL DEF Spec

\* In particular the state stays well formed: no credit falls below zero, where
\* the checked subtraction of _withdraw would revert.
THEOREM LockTypeCorrect == Spec => []TypeOK
  BY AlwaysSolvent, PTL

-----------------------------------------------------------------------------
(* The contract keeps the promise of an escrow *)

\* What the escrow's state is mapped to.
ExitOf   == [l \in Locks |-> IF OpenInProgress(l) THEN "absent" ELSE locks[l]]
Revealed == {l \in Locks : locks[l] = "claimed"}

\* No lock is being opened when no call is in progress.
LEMMA NothingInProgress ==
    /\ frames = <<>> => \A l \in Locks : ~OpenInProgress(l)
    /\ frames' = <<>> => \A l \in Locks : ~OpenInProgress(l)'
<1>1. DOMAIN <<>> = {}
  OBVIOUS
<1> QED
  BY <1>1 DEF OpenInProgress

\* With one call in progress, the only lock being opened is the call's.
LEMMA TopInProgress ==
    ASSUME IInv, frames # <<>>, NEW l \in Locks
    PROVE  OpenInProgress(l) <=> Top.op = "open" /\ Top.lock = l
<1>1. frames \in Seq(FrameType) /\ Len(frames) <= 1
  BY DEF IInv, TypeOK, FrameInv
<1>2. Len(frames) = 1
  <2>1. Len(frames) \in Nat \ {0}
    BY <1>1
  <2>2. \A n \in Nat \ {0} : n <= 1 => n = 1
    OBVIOUS
  <2> QED
    BY <1>1, <2>1, <2>2, Zenon
<1>3. DOMAIN frames = 1 .. 1
  BY <1>1, <1>2
<1>4. \A i : i \in DOMAIN frames <=> i = 1
  BY <1>3
<1> QED
  BY <1>2, <1>4 DEF OpenInProgress, Top

\* A call that begins opens a lock only if it is the open of that lock.
LEMMA NewInProgress ==
    ASSUME IInv, frames = <<>>, NEW f \in FrameType, frames' = Append(frames, f),
           NEW l \in Locks
    PROVE  OpenInProgress(l)' <=> f.op = "open" /\ f.lock = l
<1>1. <<>> \in Seq(FrameType) /\ Len(<<>>) = 0
  OBVIOUS
<1>2. /\ frames' \in Seq(FrameType) /\ Len(frames') = 1 /\ frames'[1] = f
  BY <1>1
<1>3. DOMAIN frames' = 1 .. 1
  BY <1>2
<1>4. \A i : i \in DOMAIN frames' <=> i = 1
  BY <1>3
<1> QED
  BY <1>2, <1>4 DEF OpenInProgress

\* A step that leaves the exits as they are is invisible.
LEMMA Invisible ==
    ASSUME UNCHANGED <<now, locks>>, \A l \in Locks : OpenInProgress(l)' <=> OpenInProgress(l)
    PROVE  UNCHANGED <<ExitOf, Revealed, now>>
<1>1. \A l \in Locks : (IF OpenInProgress(l)' THEN "absent" ELSE locks'[l])
                     = (IF OpenInProgress(l) THEN "absent" ELSE locks[l])
  OBVIOUS
<1> QED
  BY <1>1 DEF ExitOf, Revealed

\* The step of the escrow that a step of the contract takes, if any.
EscrowStep ==
    \/ Promise!Next
    \/ UNCHANGED <<ExitOf, Revealed, now>>

\* open is invisible to the escrow, or funds the lock at once (native).
LEMMA OpenRefines ==
    ASSUME IInv, NEW l \in Locks, Open(l)
    PROVE  EscrowStep
<1>1. frames = <<>> /\ locks[l] = "absent" /\ now' = now
  BY DEF Open, NonReentrant
<1>2. locks' = [locks EXCEPT ![l] = "open"] /\ locks \in [Locks -> Statuses]
  BY Zenon DEF Open, OpenNative, OpenToken, IInv, TypeOK
<1>3. Revealed' = Revealed
  BY <1>1, <1>2 DEF Revealed
<1>4. \A k \in Locks : ~OpenInProgress(k)
  BY <1>1, NothingInProgress
<1>5. CASE OpenNative(l)
  <2>1. \A k \in Locks : ~OpenInProgress(k)'
    BY <1>1, <1>5, NothingInProgress DEF OpenNative
  <2>2. ExitOf' = [ExitOf EXCEPT ![l] = "open"] /\ ExitOf[l] = "absent"
    BY <1>1, <1>2, <1>4, <2>1 DEF ExitOf
  <2>3. Promise!Fund(l)
    BY <1>1, <1>3, <2>2 DEF Promise!Fund, ExitOf, Revealed
  <2> QED
    BY <2>3 DEF EscrowStep, Promise!Next
<1>6. CASE OpenToken(l)
  <2>1. PICK f \in FrameType :
              f = [op |-> "open", lock |-> l, who |-> Terms[l].funder,
                   amount |-> Terms[l].amount, measured |-> TRUE, saved |-> World]
    BY Zenon, TermsHaveType, WorldHasType DEF FrameType, IInv
  <2>2. frames' = Append(frames, f)
    BY <1>6, <2>1 DEF OpenToken, Call
  <2>3. \A k \in Locks : OpenInProgress(k)' <=> k = l
    BY <1>1, <2>1, <2>2, NewInProgress
  <2>4. ExitOf' = ExitOf
    BY <1>1, <1>2, <1>4, <2>3 DEF ExitOf
  <2> QED
    BY <1>1, <1>3, <2>4 DEF EscrowStep
<1> QED
  BY <1>5, <1>6 DEF Open

\* The return of open funds the lock; its failure leaves it absent.
LEMMA OpenReturnsRefines ==
    ASSUME IInv, OpenReturns \/ OpenFails
    PROVE  EscrowStep
<1>1. frames # <<>> /\ Top.op = "open" /\ frames' = Pop /\ now' = now
  BY DEF OpenReturns, OpenFails
<1>2. CallInv(Top) /\ Pop = <<>> /\ Top.lock \in Locks
  BY <1>1, TopCall, CallHasType
<1>3. \A k \in Locks : (OpenInProgress(k) <=> k = Top.lock) /\ ~OpenInProgress(k)'
  BY <1>1, <1>2, NothingInProgress, TopInProgress
<1>4. locks \in [Locks -> Statuses] /\ locks[Top.lock] = "open"
  BY <1>1, <1>2 DEF CallInv, IInv, TypeOK
<1>5. CASE Revert(Top.saved)
  <2>1. locks' = [locks EXCEPT ![Top.lock] = "absent"]
    BY <1>1, <1>2, <1>5 DEF Revert, CallInv
  <2>2. ExitOf' = ExitOf /\ Revealed' = Revealed
    BY <1>2, <1>3, <1>4, <2>1 DEF ExitOf, Revealed
  <2> QED
    BY <1>1, <2>2 DEF EscrowStep
<1>6. CASE ~Revert(Top.saved)
  <2>1. locks' = locks
    BY <1>6 DEF OpenReturns, OpenFails
  <2>2. ExitOf' = [ExitOf EXCEPT ![Top.lock] = "open"] /\ ExitOf[Top.lock] = "absent"
    BY <1>2, <1>3, <1>4, <2>1 DEF ExitOf
  <2>3. PICK l \in Locks : l = Top.lock
    BY <1>2
  <2>4. Promise!Fund(l)
    BY <1>1, <2>1, <2>2, <2>3 DEF Promise!Fund, ExitOf, Revealed
  <2> QED
    BY <2>4 DEF EscrowStep, Promise!Next
<1> QED
  BY <1>5, <1>6

\* A payout opens no lock.
LEMMA PayoutKeepsProgress ==
    ASSUME IInv, frames = <<>>, NEW l \in Locks, NEW who \in Accounts,
           NEW status \in Statuses, Payout(l, who, status)
    PROVE  \A k \in Locks : ~OpenInProgress(k)'
<1>1. CASE UNCHANGED frames
  BY <1>1, NothingInProgress
<1>2. CASE \E measured \in BOOLEAN :
              Call("push", l, who, Terms[l].amount, measured,
                   [World EXCEPT !.locks = [locks EXCEPT ![l] = status]])
  <2>1. PICK measured \in BOOLEAN :
              Call("push", l, who, Terms[l].amount, measured,
                   [World EXCEPT !.locks = [locks EXCEPT ![l] = status]])
    BY <1>2
  <2>2. PICK w \in WorldType : w = [World EXCEPT !.locks = [locks EXCEPT ![l] = status]]
    BY Zenon, WorldHasType DEF WorldType, IInv, TypeOK
  <2>3. PICK f \in FrameType :
              f = [op |-> "push", lock |-> l, who |-> who, amount |-> Terms[l].amount,
                   measured |-> measured, saved |-> w]
    BY Zenon, TermsHaveType DEF FrameType
  <2>4. frames' = Append(frames, f)
    BY <2>1, <2>2, <2>3 DEF Call
  <2> QED
    BY <2>3, <2>4, NewInProgress
<1> QED
  BY <1>1, <1>2 DEF Payout

\* claim and refund are the exits of the escrow.
LEMMA ExitRefines ==
    ASSUME IInv, NEW l \in Locks, Claim(l) \/ Refund(l)
    PROVE  EscrowStep
<1>1. frames = <<>> /\ locks[l] = "open" /\ now' = now
  BY DEF Claim, Refund, Payout, NonReentrant
<1>2. locks \in [Locks -> Statuses] /\ \A k \in Locks : ~OpenInProgress(k)
  BY <1>1, NothingInProgress DEF IInv, TypeOK
<1>3. CASE Claim(l)
  <2>1. locks' = [locks EXCEPT ![l] = "claimed"] /\ now < Terms[l].deadline
    BY <1>3 DEF Claim, Payout
  <2>2. \A k \in Locks : ~OpenInProgress(k)'
    BY <1>1, <1>3, TermsHaveType, PayoutKeepsProgress DEF Claim, Statuses
  <2>3. ExitOf' = [ExitOf EXCEPT ![l] = "claimed"] /\ ExitOf[l] = "open"
    BY <1>1, <1>2, <2>1, <2>2 DEF ExitOf
  <2>4. Revealed' = Revealed \cup {l}
    BY <1>2, <2>1 DEF Revealed
  <2>5. Promise!Claim(l)
    BY <1>1, <2>1, <2>3, <2>4 DEF Promise!Claim, ExitOf, Revealed
  <2> QED
    BY <2>5 DEF EscrowStep, Promise!Next
<1>4. CASE Refund(l)
  <2>1. locks' = [locks EXCEPT ![l] = "refunded"] /\ now >= Terms[l].deadline
    BY <1>4 DEF Refund, Payout
  <2>2. \A k \in Locks : ~OpenInProgress(k)'
    BY <1>1, <1>4, TermsHaveType, PayoutKeepsProgress DEF Refund, Statuses
  <2>3. ExitOf' = [ExitOf EXCEPT ![l] = "refunded"] /\ ExitOf[l] = "open"
    BY <1>1, <1>2, <2>1, <2>2 DEF ExitOf
  <2>4. Revealed' = Revealed
    BY <1>1, <1>2, <2>1 DEF Revealed
  <2>5. Promise!Refund(l)
    BY <1>1, <2>1, <2>3, <2>4 DEF Promise!Refund, ExitOf, Revealed
  <2> QED
    BY <2>5 DEF EscrowStep, Promise!Next
<1> QED
  BY <1>3, <1>4

\* withdraw is invisible to the escrow.
LEMMA WithdrawRefines ==
    ASSUME IInv, NEW a \in Accounts, Withdraw(a)
    PROVE  EscrowStep
<1>1. frames = <<>> /\ UNCHANGED <<now, locks>>
  BY DEF Withdraw, NonReentrant
<1>2. PICK n \in 1 .. credit[a], measured \in BOOLEAN :
          Call("pull", CHOOSE l \in Locks : TRUE, a, n, measured, World)
  BY Zenon DEF Withdraw
<1>3. n \in Nat
  BY <1>2 DEF IInv, TypeOK
<1>4. PICK f \in FrameType :
          f = [op |-> "pull", lock |-> CHOOSE l \in Locks : TRUE, who |-> a,
               amount |-> n, measured |-> measured, saved |-> World]
  BY Zenon, <1>3, WorldHasType, LocksAssumption DEF FrameType, IInv
<1>5. frames' = Append(frames, f)
  BY <1>2, <1>4 DEF Call
<1>6. \A l \in Locks : ~OpenInProgress(l) /\ ~OpenInProgress(l)'
  BY <1>1, <1>4, <1>5, NothingInProgress, NewInProgress
<1> QED
  BY <1>1, <1>6, Invisible DEF EscrowStep

\* However a push or a pull ends, the escrow does not see it.
LEMMA OutgoingRefines ==
    ASSUME IInv, PushReturns \/ PushFails \/ PullReturns \/ PullFails
    PROVE  EscrowStep
<1>1. frames # <<>> /\ Top.op \in {"push", "pull"} /\ frames' = Pop /\ now' = now
  BY ZenonT(60) DEF PushReturns, PushFails, PullReturns, PullFails
<1>2. CallInv(Top) /\ Pop = <<>> /\ Top.saved \in WorldType
  BY <1>1, TopCall, CallHasType
<1>3. \A l \in Locks : ~OpenInProgress(l) /\ ~OpenInProgress(l)'
  BY <1>1, <1>2, NothingInProgress, TopInProgress
<1>4. Top.saved.locks = locks
  BY <1>1, <1>2 DEF CallInv
<1>5. locks' = locks
  <2>1. CASE PushFails
    <3>1. [Top.saved EXCEPT !.credit[Top.who] = AddSaturating(@, Top.amount)].locks
             = Top.saved.locks
      BY <1>2 DEF WorldType
    <3> QED
      BY <1>4, <2>1, <3>1 DEF PushFails, Revert
  <2>2. CASE PullFails
    BY <1>4, <2>2 DEF PullFails, Revert
  <2>3. CASE PushReturns \/ PullReturns
    BY Zenon, <2>3 DEF PushReturns, PullReturns
  <2> QED
    BY <2>1, <2>2, <2>3
<1> QED
  BY <1>1, <1>3, <1>5, Invisible DEF EscrowStep

\* Time is the time of the escrow.
LEMMA TimeRefines ==
    ASSUME IInv, Deposit \/ Tick \/ UNCHANGED vars
    PROVE  EscrowStep
<1>1. UNCHANGED <<frames, locks>>
  BY DEF Deposit, Tick, vars, world
<1>2. \A l \in Locks : OpenInProgress(l)' <=> OpenInProgress(l)
  BY <1>1 DEF OpenInProgress
<1>3. CASE now' = now
  BY <1>1, <1>2, <1>3, Invisible DEF EscrowStep
<1>4. CASE now' # now
  <2>1. now' > now /\ now' \in Nat
    BY <1>4 DEF Deposit, Tick, vars, world, IInv, TypeOK
  <2>2. ExitOf' = ExitOf /\ Revealed' = Revealed
    BY <1>1, <1>2 DEF ExitOf, Revealed
  <2>3. Promise!Advance
    BY <2>1, <2>2 DEF Promise!Advance, ExitOf, Revealed
  <2> QED
    BY <2>3 DEF EscrowStep, Promise!Next
<1> QED
  BY <1>3, <1>4

\* Every behaviour of the contract is one of the abstract escrow: one exit per
\* lock, claims before the deadline and refunds from it on, for any locks,
\* terms and accounts and any conduct of payout targets and asset.
THEOREM KeepsThePromise == Spec => EscrowSpec
<1>1. Init => Promise!Init
  BY NothingInProgress DEF Init, Promise!Init
<1>2. IInv /\ [Next]_vars => [Promise!Next]_(Promise!evars)
  <2> SUFFICES ASSUME IInv, [Next]_vars PROVE EscrowStep
    BY DEF EscrowStep, Promise!evars, ExitOf, Revealed
  <2> QED
    BY OpenRefines, OpenReturnsRefines, ExitRefines, WithdrawRefines, OutgoingRefines,
       TimeRefines DEF Next, CallReturns
<1> QED
  BY <1>1, <1>2, InitHolds, StepHolds, PTL DEF Spec, EscrowSpec, Promise!Spec
-----------------------------------------------------------------------------
(* Sums *)

\* A set of n units is finite and has n members.
LEMMA UnitsCount ==
    ASSUME NEW x, NEW n \in Nat
    PROVE  IsFiniteSet({x} \X (1 .. n)) /\ Cardinality({x} \X (1 .. n)) = n
<1> DEFINE T == {x} \X (1 .. n)
           b == [i \in 1 .. n |-> <<x, i>>]
<1>1. b \in [1 .. n -> T] /\ \A i, j \in 1 .. n : b[i] = b[j] => i = j
  OBVIOUS
<1>2. \A t \in T : \E i \in 1 .. n : b[i] = t
  OBVIOUS
<1>3. b \in Bijection(1 .. n, T)
  <2> HIDE DEF b, T
  <2> QED
    BY <1>1, <1>2 DEF Bijection, Injection, Surjection, IsInjective
<1>4. IsFiniteSet(1 .. n) /\ Cardinality(1 .. n) = n
  BY FS_Interval
<1> HIDE DEF b, T
<1>5. ExistsBijection(1 .. n, T)
  BY <1>3 DEF ExistsBijection
<1>6. IsFiniteSet(T) /\ Cardinality(T) = n
  BY <1>4, <1>5, FS_Bijection
<1> QED
  BY <1>6 DEF T

\* The units of a finite sum are finitely many.
LEMMA UnitsFinite ==
    ASSUME NEW S, IsFiniteSet(S), NEW f, \A x \in S : f[x] \in Nat
    PROVE  IsFiniteSet(UNION {{x} \X (1 .. f[x]) : x \in S})
<1> DEFINE U == {{x} \X (1 .. f[x]) : x \in S}
           g == [x \in S |-> {x} \X (1 .. f[x])]
<1>1. g \in [S -> U] /\ \A u \in U : \E x \in S : g[x] = u
  BY Zenon
<1>2. \A u \in U : IsFiniteSet(u)
  <2>1. ASSUME NEW x \in S PROVE IsFiniteSet({x} \X (1 .. f[x]))
    <3>1. PICK n \in Nat : n = f[x]
      OBVIOUS
    <3> QED
      BY Zenon, <3>1, UnitsCount
  <2> QED
    BY <2>1, Zenon
<1> HIDE DEF U, g
<1>3. g \in Surjection(S, U)
  BY <1>1 DEF Surjection
<1>4. IsFiniteSet(U)
  BY <1>3, FS_Surjection
<1>5. IsFiniteSet(UNION U)
  BY <1>2, <1>4, FS_UNION
<1> QED
  BY <1>5 DEF U

\* A sum is a natural number, and the empty one is zero.
LEMMA TotalType ==
    ASSUME NEW S, IsFiniteSet(S), NEW f, \A x \in S : f[x] \in Nat
    PROVE  Total(f, S) \in Nat
  BY UnitsFinite, FS_CardinalityType DEF Total

LEMMA TotalEmpty ==
    ASSUME NEW f
    PROVE  Total(f, {}) = 0
<1>1. UNION {{x} \X (1 .. f[x]) : x \in {}} = {}
  BY Zenon
<1> QED
  BY <1>1, FS_EmptySet DEF Total

\* It depends on the values of f on S only.
LEMMA TotalSame ==
    ASSUME NEW S, NEW f, NEW g, \A x \in S : f[x] = g[x]
    PROVE  Total(f, S) = Total(g, S)
<1>1. UNION {{x} \X (1 .. f[x]) : x \in S} = UNION {{x} \X (1 .. g[x]) : x \in S}
  BY Zenon
<1> QED
  BY <1>1 DEF Total

\* A new member adds its value.
LEMMA TotalAdd ==
    ASSUME NEW S, IsFiniteSet(S), NEW f, \A x \in S : f[x] \in Nat,
           NEW y, y \notin S, f[y] \in Nat
    PROVE  Total(f, S \cup {y}) = Total(f, S) + f[y]
<1> DEFINE A == UNION {{x} \X (1 .. f[x]) : x \in S}
           B == {y} \X (1 .. f[y])
<1>1. UNION {{x} \X (1 .. f[x]) : x \in S \cup {y}} = A \cup B
  BY Zenon
<1>2. A \cap B = {}
  <2>1. \A u \in A : u[1] \in S
    OBVIOUS
  <2>2. \A u \in B : u[1] = y
    OBVIOUS
  <2> HIDE DEF A, B
  <2> QED
    BY <2>1, <2>2
<1>3. IsFiniteSet(A)
  BY UnitsFinite
<1>4. IsFiniteSet(B) /\ Cardinality(B) = f[y]
  BY Zenon, UnitsCount
<1>5. Total(f, S) = Cardinality(A) /\ Total(f, S \cup {y}) = Cardinality(A \cup B)
  BY <1>1, Zenon DEF Total
<1> HIDE DEF A, B
<1>6. Cardinality(A \cup B) = Cardinality(A) + Cardinality(B) - Cardinality({})
  BY <1>2, <1>3, <1>4, FS_Union
<1>7. Cardinality({}) = 0 /\ Cardinality(A) \in Nat
  BY <1>3, FS_EmptySet, FS_CardinalityType
<1> QED
  BY <1>4, <1>5, <1>6, <1>7

\* A member that leaves takes its value with it.
LEMMA TotalRemove ==
    ASSUME NEW S, IsFiniteSet(S), NEW f, \A x \in S : f[x] \in Nat, NEW y \in S
    PROVE  /\ IsFiniteSet(S \ {y}) /\ Total(f, S \ {y}) \in Nat
           /\ Total(f, S) = Total(f, S \ {y}) + f[y]
<1>1. PICK R : R = S \ {y}
  BY Zenon
<1>2. IsFiniteSet(R)
  BY <1>1, FS_RemoveElement
<1>3. R \cup {y} = S /\ y \notin R /\ \A x \in R : f[x] \in Nat
  BY <1>1
<1>4. Total(f, R \cup {y}) = Total(f, R) + f[y]
  BY <1>2, <1>3, TotalAdd
<1>5. Total(f, R) \in Nat
  BY <1>2, <1>3, TotalType
<1> QED
  BY Zenon, <1>1, <1>2, <1>3, <1>4, <1>5

\* Changing one value changes the sum by as much.
LEMMA TotalChange ==
    ASSUME NEW S, IsFiniteSet(S), NEW f \in [S -> Nat], NEW g \in [S -> Nat], NEW y \in S,
           \A x \in S \ {y} : g[x] = f[x]
    PROVE  Total(g, S) = Total(f, S) - f[y] + g[y] /\ f[y] <= Total(f, S)
<1>1. PICK R : R = S \ {y}
  BY Zenon
<1>2. Total(f, S) = Total(f, R) + f[y] /\ Total(f, R) \in Nat
  BY <1>1, TotalRemove
<1>3. Total(g, S) = Total(g, R) + g[y]
  BY <1>1, TotalRemove
<1>4. Total(g, R) = Total(f, R)
  BY <1>1, TotalSame
<1> QED
  BY <1>2, <1>3, <1>4

-----------------------------------------------------------------------------
(* What is owed is the sum of the debts *)

\* The amounts of some locks, and of one more.
LEMMA AmountAdd ==
    ASSUME NEW S \in SUBSET Locks, NEW l \in Locks, l \notin S
    PROVE  /\ Total(Amount, S) \in Nat
           /\ Total(Amount, S \cup {l}) = Total(Amount, S) + Terms[l].amount
<1>1. IsFiniteSet(S)
  BY LocksAssumption, FS_Subset
<1>2. \A x \in Locks : Amount[x] = Terms[x].amount /\ Amount[x] \in Nat
  BY TermsHaveType DEF Amount
<1>3. (\A x \in S : Amount[x] \in Nat) /\ Amount[l] \in Nat
  BY <1>2
<1> QED
  BY <1>1, <1>2, <1>3, TotalType, TotalAdd

\* The amounts of some locks are a natural number.
LEMMA AmountType ==
    ASSUME NEW S \in SUBSET Locks
    PROVE  Total(Amount, S) \in Nat
<1>1. IsFiniteSet(S)
  BY LocksAssumption, FS_Subset
<1>2. \A x \in S : Amount[x] \in Nat
  BY TermsHaveType DEF Amount
<1> QED
  BY <1>1, <1>2, TotalType

\* The credits, and what becomes of them when one is changed.
LEMMA CreditChange ==
    ASSUME NEW c \in [Accounts -> Nat], NEW d \in [Accounts -> Nat], NEW a \in Accounts,
           \A x \in Accounts \ {a} : d[x] = c[x]
    PROVE  /\ c[a] <= Total(c, Accounts)
           /\ Total(d, Accounts) = Total(c, Accounts) - c[a] + d[a]
<1>1. IsFiniteSet(Accounts)
  BY AccountsAssumption
<1>2. Total(d, Accounts) = Total(c, Accounts) - c[a] + d[a] /\ c[a] <= Total(c, Accounts)
  BY <1>1, TotalChange
<1> QED
  BY <1>2

\* The sum of the credits is a natural number.
LEMMA CreditType ==
    ASSUME NEW c \in [Accounts -> Nat]
    PROVE  Total(c, Accounts) \in Nat
  BY AccountsAssumption, TotalType

OpenLocks(s) == {l \in Locks : s[l] = "open"}

\* Between transactions every open lock is held and nothing is on its way out.
LEMMA NothingOut ==
    frames = <<>> => Held = OpenLocks(locks) /\ Total(Outgoing, DOMAIN frames) = 0
<1> SUFFICES ASSUME frames = <<>>
             PROVE  Held = OpenLocks(locks) /\ Total(Outgoing, DOMAIN frames) = 0
  OBVIOUS
<1>1. DOMAIN frames = {}
  OBVIOUS
<1>2. Total(Outgoing, DOMAIN frames) = 0
  BY <1>1, TotalEmpty
<1>3. \A l \in Locks : ~OpenInProgress(l)
  BY <1>1 DEF OpenInProgress
<1> QED
  BY <1>2, <1>3 DEF Held, OpenLocks

\* During a call, the lock being opened is not held yet; what a push or a pull
\* moves is on its way out.
LEMMA OneOut ==
    IInv /\ frames # <<>> =>
        /\ Top.op = "open" => /\ Held = OpenLocks(locks) \ {Top.lock}
                              /\ Total(Outgoing, DOMAIN frames) = 0
        /\ Top.op # "open" => /\ Held = OpenLocks(locks)
                              /\ Total(Outgoing, DOMAIN frames) = Top.amount
<1> SUFFICES ASSUME IInv, frames # <<>>
             PROVE  /\ Top.op = "open" => /\ Held = OpenLocks(locks) \ {Top.lock}
                                          /\ Total(Outgoing, DOMAIN frames) = 0
                    /\ Top.op # "open" => /\ Held = OpenLocks(locks)
                                          /\ Total(Outgoing, DOMAIN frames) = Top.amount
  OBVIOUS
<1>1. frames \in Seq(FrameType) /\ Len(frames) <= 1
  BY DEF IInv, TypeOK, FrameInv
<1>2. Len(frames) \in Nat /\ Len(frames) # 0
  BY <1>1
<1>3. Len(frames) = 1
  <2>1. \A n \in Nat : n <= 1 /\ n # 0 => n = 1
    OBVIOUS
  <2> QED
    BY <1>1, <1>2, <2>1, Zenon
<1>4. DOMAIN frames = {1} /\ Top = frames[1] /\ Top.amount \in Nat
  <2>1. DOMAIN frames = 1 .. 1 /\ Top = frames[1]
    BY <1>1, <1>3 DEF Top
  <2>2. Top.amount \in Nat
    BY TopCall, CallHasType
  <2> QED
    BY <2>1, <2>2
<1>5. \A l \in Locks : OpenInProgress(l) <=> (Top.op = "open" /\ Top.lock = l)
  BY <1>4 DEF OpenInProgress
<1>6. Outgoing[1] = IF Top.op = "open" THEN 0 ELSE Top.amount
  BY <1>4 DEF Outgoing
<1>7. Total(Outgoing, {} \cup {1}) = Total(Outgoing, {}) + Outgoing[1]
  <2>1. IsFiniteSet({}) /\ Outgoing[1] \in Nat
    BY <1>4, <1>6, FS_EmptySet
  <2> QED
    BY <2>1, TotalAdd
<1>8. Total(Outgoing, DOMAIN frames) = Outgoing[1]
  <2>1. Total(Outgoing, {}) = 0 /\ {} \cup {1} = {1} /\ Outgoing[1] \in Nat
    BY <1>4, <1>6, TotalEmpty
  <2> QED
    BY <1>4, <1>7, <2>1
<1>9. CASE Top.op = "open"
  <2>1. Held = OpenLocks(locks) \ {Top.lock}
    BY <1>5, <1>9 DEF Held, OpenLocks
  <2> QED
    BY <1>6, <1>8, <1>9, <2>1
<1>10. CASE Top.op # "open"
  <2>1. Held = OpenLocks(locks)
    BY <1>5, <1>10 DEF Held, OpenLocks
  <2> QED
    BY <1>6, <1>8, <1>10, <2>1
<1> QED
  BY <1>9, <1>10

\* What a call in progress may still have to give back: credits and payments are
\* as it found them, but for the credit that a pull has cleared.
CallDebt(f) ==
    /\ f.saved.credit = IF f.op = "pull" THEN [credit EXCEPT ![f.who] = @ + f.amount]
                        ELSE credit
    /\ f.saved.paid = paid
    /\ exact => f.saved.exact /\ (native \/ f.saved.custody = custody)

\* Custody fits an integer, so that no sum of debts can saturate.
DebtInv ==
    /\ custody <= MaxUint
    /\ OwedIsTheSum
    /\ frames # <<>> => CallDebt(Top)

\* The three sums are natural numbers.
LEMMA DebtTypes ==
    ASSUME IInv
    PROVE  /\ Held \in SUBSET Locks /\ Total(Amount, Held) \in Nat
           /\ Total(credit, Accounts) \in Nat
           /\ Total(Outgoing, DOMAIN frames) \in Nat
<1>1. Held \in SUBSET Locks
  BY DEF Held
<1>2. Total(credit, Accounts) \in Nat
  BY CreditType DEF IInv, TypeOK
<1>3. CASE frames = <<>>
  BY <1>1, <1>2, <1>3, AmountType, NothingOut
<1>4. CASE frames # <<>>
  <2>1. Top.amount \in Nat
    BY <1>4, TopCall, CallHasType
  <2> QED
    BY <1>1, <1>2, <1>4, <2>1, AmountType, OneOut
<1> QED
  BY <1>3, <1>4

\* A credit that is part of the debts is added without saturating.
LEMMA NoSaturation ==
    ASSUME IInv, DebtInv, NEW a \in Accounts, NEW n \in Nat,
           n <= Total(Amount, Held) + Total(Outgoing, DOMAIN frames)
    PROVE  AddSaturating(credit[a], n) = credit[a] + n
<1>1. credit \in [Accounts -> Nat] /\ custody \in Nat /\ owed \in Int
  BY DEF IInv, TypeOK
<1>2. credit[a] \in Nat /\ credit[a] <= Total(credit, Accounts)
  BY <1>1, CreditChange
<1>3. owed <= MaxUint
  BY <1>1, MaxUintAssumption DEF IInv, Solvent, DebtInv
<1>4. credit[a] + n <= owed
  BY <1>2, DebtTypes DEF DebtInv, OwedIsTheSum
<1>5. credit[a] + n <= MaxUint
  BY <1>1, <1>2, <1>3, <1>4, MaxUintAssumption
<1> QED
  BY <1>2, <1>5, MaxUintAssumption DEF AddSaturating

\* When a call has come back there is nothing to say of calls.
LEMMA AfterReturn ==
    ASSUME frames' = <<>>
    PROVE  Held' = OpenLocks(locks)' /\ Total(Outgoing, DOMAIN frames)' = 0
<1>1. (frames = <<>> => Held = OpenLocks(locks) /\ Total(Outgoing, DOMAIN frames) = 0)'
  BY NothingOut, PTL
<1> QED
  BY <1>1

\* When a call has been made it is the only one.
LEMMA AfterCall ==
    ASSUME IInv', frames = <<>>, NEW f \in FrameType, frames' = Append(frames, f)
    PROVE  /\ frames' # <<>> /\ Top' = f
           /\ f.op = "open" => /\ Held' = OpenLocks(locks)' \ {f.lock}
                               /\ Total(Outgoing, DOMAIN frames)' = 0
           /\ f.op # "open" => /\ Held' = OpenLocks(locks)'
                               /\ Total(Outgoing, DOMAIN frames)' = f.amount
<1>1. <<>> \in Seq(FrameType) /\ Len(<<>>) = 0
  OBVIOUS
<1>2. Len(frames') = 1 /\ frames'[1] = f
  BY <1>1
<1>3. frames' # <<>> /\ Top' = f
  BY <1>1, <1>2 DEF Top
<1>4. (IInv /\ frames # <<>> =>
          /\ Top.op = "open" => /\ Held = OpenLocks(locks) \ {Top.lock}
                                /\ Total(Outgoing, DOMAIN frames) = 0
          /\ Top.op # "open" => /\ Held = OpenLocks(locks)
                                /\ Total(Outgoing, DOMAIN frames) = Top.amount)'
  BY OneOut, PTL
<1> QED
  BY <1>3, <1>4

\* open of a native lock adds its amount to the debts.
LEMMA OpenNativeOwes ==
    ASSUME IInv, IInv', DebtInv, NEW l \in Locks, frames = <<>>, locks[l] = "absent",
           OpenNative(l)
    PROVE  DebtInv'
<1>1. locks \in [Locks -> Statuses] /\ Terms[l].amount \in Nat /\ owed \in Int
  BY TermsHaveType DEF IInv, TypeOK
<1>2. /\ locks' = [locks EXCEPT ![l] = "open"] /\ frames' = <<>> /\ credit' = credit
      /\ owed' = owed + Terms[l].amount /\ custody' <= MaxUint
  BY DEF OpenNative
<1>3. Held = OpenLocks(locks) /\ Total(Outgoing, DOMAIN frames) = 0
  BY NothingOut
<1>4. Held' = OpenLocks(locks)' /\ Total(Outgoing, DOMAIN frames)' = 0
  BY <1>2, AfterReturn
<1>5. l \notin Held /\ Held' = Held \cup {l}
  BY <1>1, <1>2, <1>3, <1>4 DEF OpenLocks
<1>6. Total(Amount, Held') = Total(Amount, Held) + Terms[l].amount
  BY <1>5, AmountAdd, DebtTypes
<1>7. Total(Amount, Held)' = Total(Amount, Held') /\ Total(credit, Accounts)' = Total(credit, Accounts)
  BY <1>2 DEF Total, Amount
<1>8. OwedIsTheSum'
  BY <1>1, <1>2, <1>3, <1>4, <1>6, <1>7, DebtTypes DEF DebtInv, OwedIsTheSum
<1> QED
  BY <1>2, <1>8 DEF DebtInv

\* open of a token lock owes nothing before the transferFrom has returned.
LEMMA OpenTokenOwes ==
    ASSUME IInv, IInv', DebtInv, NEW l \in Locks, frames = <<>>, locks[l] = "absent",
           OpenToken(l), native' = native
    PROVE  DebtInv'
<1>1. locks \in [Locks -> Statuses]
  BY DEF IInv, TypeOK
<1>2. PICK f \in FrameType :
            f = [op |-> "open", lock |-> l, who |-> Terms[l].funder,
                 amount |-> Terms[l].amount, measured |-> TRUE, saved |-> World]
  BY Zenon, TermsHaveType, WorldHasType DEF FrameType, IInv
<1>3. /\ frames' = Append(frames, f) /\ locks' = [locks EXCEPT ![l] = "open"]
      /\ UNCHANGED <<credit, custody, paid, owed, exact>>
  BY <1>2 DEF OpenToken, Call
<1>4. f.op = "open" /\ f.lock = l /\ f.saved = World
  BY <1>2
<1>5. /\ frames' # <<>> /\ Top' = f
      /\ Held' = OpenLocks(locks)' \ {l} /\ Total(Outgoing, DOMAIN frames)' = 0
  BY Zenon, <1>3, <1>4, AfterCall
<1>6. Held = OpenLocks(locks) /\ Total(Outgoing, DOMAIN frames) = 0
  BY NothingOut
<1>7. Held' = Held
  BY <1>1, <1>3, <1>5, <1>6 DEF OpenLocks
<1>8. Total(Amount, Held)' = Total(Amount, Held) /\ Total(credit, Accounts)' = Total(credit, Accounts)
  BY <1>3, <1>7 DEF Total, Amount
<1>9. OwedIsTheSum'
  BY <1>3, <1>5, <1>6, <1>8 DEF DebtInv, OwedIsTheSum
<1>10. CallDebt(f)'
  <2>1. /\ f.saved.credit = credit' /\ f.saved.paid = paid'
        /\ f.saved.exact = exact' /\ f.saved.custody = custody'
    BY <1>3, <1>4 DEF World
  <2> QED
    BY <1>4, <2>1 DEF CallDebt
<1>11. CallDebt(Top)'
  BY <1>5, <1>10 DEF CallDebt
<1> QED
  BY <1>3, <1>9, <1>11 DEF DebtInv

\* After it, the amount is owed and the lock is held, or nothing is.
LEMMA OpenReturnsOwes ==
    ASSUME IInv, IInv', DebtInv, OpenReturns \/ OpenFails
    PROVE  DebtInv'
<1>1. frames # <<>> /\ Top.op = "open" /\ frames' = <<>> /\ UNCHANGED <<native, now>>
  BY TopCall DEF OpenReturns, OpenFails
<1>2. Top \in FrameType /\ CallInv(Top) /\ CallDebt(Top)
  BY <1>1, TopCall DEF DebtInv
<1>3. /\ Top.lock \in Locks /\ Top.saved.custody \in Nat /\ Top.amount \in Nat
      /\ Top.amount = Terms[Top.lock].amount /\ locks[Top.lock] = "open"
      /\ locks \in [Locks -> Statuses] /\ custody \in Nat /\ owed \in Int
  BY <1>1, <1>2, CallHasType, SavedHasType DEF CallInv, IInv, TypeOK
<1>4. Held = OpenLocks(locks) \ {Top.lock} /\ Total(Outgoing, DOMAIN frames) = 0
  BY <1>1, OneOut
<1>5. Held' = OpenLocks(locks)' /\ Total(Outgoing, DOMAIN frames)' = 0
  BY <1>1, AfterReturn
<1>6. CASE Revert(Top.saved)
  <2>1. /\ locks' = [locks EXCEPT ![Top.lock] = "absent"] /\ credit' = credit
        /\ custody' = Top.saved.custody /\ owed' = owed
    BY <1>1, <1>2, <1>6 DEF Revert, CallInv, CallDebt
  <2>2. Held' = Held
    BY <1>3, <1>4, <1>5, <2>1 DEF OpenLocks
  <2>3. Total(Amount, Held)' = Total(Amount, Held) /\ Total(credit, Accounts)' = Total(credit, Accounts)
    BY <2>1, <2>2 DEF Total, Amount
  <2>4. custody' <= MaxUint
    BY <1>2, <1>3, <2>1, MaxUintAssumption DEF CallInv, DebtInv
  <2> QED
    BY Zenon, <1>1, <1>4, <1>5, <2>1, <2>3, <2>4 DEF DebtInv, OwedIsTheSum
<1>7. CASE ~Revert(Top.saved)
  <2>1. PICK moved \in 0 .. Top.amount :
           /\ custody + moved <= MaxUint
           /\ custody' = custody + moved
           /\ owed' = owed + Top.amount
           /\ UNCHANGED <<locks, credit, paid, exact>>
    BY <1>7 DEF OpenReturns, OpenFails
  <2>2. Top.lock \notin Held /\ Held' = Held \cup {Top.lock}
    BY <1>3, <1>4, <1>5, <2>1 DEF OpenLocks
  <2>3. Total(Amount, Held') = Total(Amount, Held) + Top.amount
    BY <1>3, <2>2, AmountAdd, DebtTypes
  <2>4. Total(Amount, Held)' = Total(Amount, Held') /\ Total(credit, Accounts)' = Total(credit, Accounts)
    BY <2>1 DEF Total, Amount
  <2>5. OwedIsTheSum'
    <3>1. owed = Total(Amount, Held) + Total(credit, Accounts) + 0
      BY <1>4 DEF DebtInv, OwedIsTheSum
    <3>2. owed' = Total(Amount, Held)' + Total(credit, Accounts)' + 0
      BY <1>3, <2>1, <2>3, <2>4, <3>1, DebtTypes
    <3> QED
      BY <1>5, <3>2 DEF OwedIsTheSum
  <2> QED
    BY <1>1, <2>1, <2>5 DEF DebtInv
<1> QED
  BY <1>6, <1>7

\* A payment that becomes a credit stays a debt of the same amount.
LEMMA CreditOwes ==
    ASSUME IInv, DebtInv, NEW a \in Accounts, NEW n \in Nat,
           n <= Total(Amount, Held) + Total(Outgoing, DOMAIN frames),
           credit' = [credit EXCEPT ![a] = AddSaturating(@, n)]
    PROVE  /\ credit' = [credit EXCEPT ![a] = @ + n]
           /\ Total(credit, Accounts)' = Total(credit, Accounts) + n
<1>1. AddSaturating(credit[a], n) = credit[a] + n
  BY NoSaturation
<1>2. credit \in [Accounts -> Nat]
  BY DEF IInv, TypeOK
<1>3. credit' = [credit EXCEPT ![a] = credit[a] + n]
  BY <1>1, Zenon
<1>4. PICK d : d = credit'
  OBVIOUS
<1>5. /\ d \in [Accounts -> Nat] /\ d[a] = credit[a] + n /\ credit[a] \in Nat
      /\ \A x \in Accounts \ {a} : d[x] = credit[x]
  BY <1>2, <1>3, <1>4
<1>6. Total(d, Accounts) = Total(credit, Accounts) - credit[a] + d[a]
  BY <1>2, <1>5, CreditChange
<1>7. Total(credit, Accounts)' = Total(d, Accounts)
  BY <1>4 DEF Total
<1>8. Total(credit, Accounts) \in Nat
  BY DebtTypes
<1>9. Total(credit, Accounts)' = Total(credit, Accounts) + n
  BY <1>5, <1>6, <1>7, <1>8
<1> QED
  BY Zenon, <1>3, <1>9

\* claim and refund turn the lock's amount into a credit or a payment in progress.
LEMMA PayoutOwes ==
    ASSUME IInv, IInv', DebtInv, frames = <<>>, NEW l \in Locks, locks[l] = "open",
           NEW who \in Accounts, NEW status \in {"claimed", "refunded"},
           Payout(l, who, status)
    PROVE  DebtInv'
<1>1. locks \in [Locks -> Statuses] /\ Terms[l].amount \in Nat /\ owed \in Int
  BY TermsHaveType DEF IInv, TypeOK
<1>2. /\ locks' = [locks EXCEPT ![l] = status]
      /\ UNCHANGED <<native, now, custody, paid, owed, exact>>
  BY DEF Payout
<1>3. Held = OpenLocks(locks) /\ Total(Outgoing, DOMAIN frames) = 0
  BY NothingOut
<1>4. PICK H : H = OpenLocks(locks)'
  OBVIOUS
<1>5. H \in SUBSET Locks /\ l \notin H /\ Held = H \cup {l}
  BY <1>1, <1>2, <1>3, <1>4 DEF OpenLocks
<1>6. Total(Amount, H) \in Nat /\ Total(Amount, Held) = Total(Amount, H) + Terms[l].amount
  BY <1>5, AmountAdd
<1>7. owed = Total(Amount, H) + Terms[l].amount + Total(credit, Accounts)
  BY <1>3, <1>6, <1>1, DebtTypes DEF DebtInv, OwedIsTheSum
<1>8. CASE /\ credit' = [credit EXCEPT ![who] = AddSaturating(@, Terms[l].amount)]
           /\ UNCHANGED frames
  <2>1. Held' = H /\ Total(Outgoing, DOMAIN frames)' = 0
    BY <1>4, <1>8, AfterReturn
  <2>2. Total(Amount, Held)' = Total(Amount, H)
    BY <2>1 DEF Total, Amount
  <2>3. Terms[l].amount <= Total(Amount, Held) + Total(Outgoing, DOMAIN frames)
    BY <1>1, <1>3, <1>6
  <2>4. Total(credit, Accounts)' = Total(credit, Accounts) + Terms[l].amount
    BY Zenon, <1>1, <1>8, <2>3, CreditOwes
  <2>5. OwedIsTheSum'
    BY <1>1, <1>2, <1>6, <1>7, <2>1, <2>2, <2>4, DebtTypes DEF OwedIsTheSum
  <2> QED
    BY <1>2, <1>8, <2>5 DEF DebtInv
<1>9. CASE /\ \E measured \in BOOLEAN :
                 Call("push", l, who, Terms[l].amount, measured,
                      [World EXCEPT !.locks = [locks EXCEPT ![l] = status]])
           /\ UNCHANGED credit
  <2>1. PICK measured \in BOOLEAN :
              Call("push", l, who, Terms[l].amount, measured,
                   [World EXCEPT !.locks = [locks EXCEPT ![l] = status]])
    BY <1>9
  <2>2. World \in WorldType /\ [locks EXCEPT ![l] = status] \in [Locks -> Statuses]
    BY <1>1, WorldHasType DEF IInv, Statuses
  <2>3. PICK w \in WorldType : w = [World EXCEPT !.locks = [locks EXCEPT ![l] = status]]
    BY Zenon, <2>2 DEF WorldType
  <2>4. PICK f \in FrameType :
              f = [op |-> "push", lock |-> l, who |-> who, amount |-> Terms[l].amount,
                   measured |-> measured, saved |-> w]
    BY Zenon, <1>1 DEF FrameType
  <2>5. frames' = Append(frames, f)
    BY <2>1, <2>3, <2>4 DEF Call
  <2>6. f.op = "push" /\ f.amount = Terms[l].amount /\ f.saved = w
    BY <2>4
  <2>7. /\ frames' # <<>> /\ Top' = f
        /\ Held' = H /\ Total(Outgoing, DOMAIN frames)' = Terms[l].amount
    BY <1>4, <2>5, <2>6, AfterCall
  <2>8. Total(Amount, Held)' = Total(Amount, H) /\ Total(credit, Accounts)' = Total(credit, Accounts)
    BY <1>9, <2>7 DEF Total, Amount
  <2>9. OwedIsTheSum'
    BY SMT, SMTT(30), <1>1, <1>2, <1>6, <1>7, <2>7, <2>8, DebtTypes DEF OwedIsTheSum
  <2>10. CallDebt(f)'
    <3>1. w.credit = credit' /\ w.paid = paid' /\ w.exact = exact' /\ w.custody = custody'
      BY <1>2, <1>9, <2>3 DEF World
    <3> QED
      BY <2>6, <3>1 DEF CallDebt
  <2>11. CallDebt(Top)'
    BY <2>7, <2>10 DEF CallDebt
  <2> QED
    BY <1>2, <2>9, <2>11 DEF DebtInv
<1> QED
  BY Zenon, <1>8, <1>9 DEF Payout

\* A push that fails becomes a credit.
LEMMA PushFailsOwes ==
    ASSUME IInv, IInv', DebtInv, PushFails
    PROVE  DebtInv'
<1>1. frames # <<>> /\ Top.op = "push" /\ frames' = <<>>
  BY TopCall DEF PushFails
<1>2. Top \in FrameType /\ CallInv(Top) /\ CallDebt(Top)
  BY <1>1, TopCall DEF DebtInv
<1>3. /\ Top.who \in Accounts /\ Top.amount \in Nat /\ Top.saved \in WorldType
      /\ Top.saved.custody \in Nat /\ custody \in Nat /\ owed \in Int
  BY <1>2, CallHasType, SavedHasType DEF IInv, TypeOK
<1>4. Held = OpenLocks(locks) /\ Total(Outgoing, DOMAIN frames) = Top.amount
  BY <1>1, OneOut
<1>5. Held' = OpenLocks(locks)' /\ Total(Outgoing, DOMAIN frames)' = 0
  BY <1>1, AfterReturn
<1>6. /\ locks' = locks /\ custody' = Top.saved.custody /\ owed' = owed
      /\ credit' = [credit EXCEPT ![Top.who] = AddSaturating(@, Top.amount)]
  <2> DEFINE w == [Top.saved EXCEPT !.credit[Top.who] = AddSaturating(@, Top.amount)]
  <2>1. Revert(w)
    BY DEF PushFails
  <2>2. /\ w.locks = Top.saved.locks /\ w.custody = Top.saved.custody
        /\ w.owed = Top.saved.owed
        /\ w.credit = [Top.saved.credit EXCEPT ![Top.who] = AddSaturating(@, Top.amount)]
    BY <1>3 DEF WorldType
  <2>3. Top.saved.locks = locks /\ Top.saved.owed = owed /\ Top.saved.credit = credit
    BY <1>1, <1>2 DEF CallInv, CallDebt
  <2> HIDE DEF w
  <2> QED
    BY <2>1, <2>2, <2>3 DEF Revert
<1>7. Total(credit, Accounts)' = Total(credit, Accounts) + Top.amount
  <2>1. Top.amount <= Total(Amount, Held) + Total(Outgoing, DOMAIN frames)
    BY <1>3, <1>4, DebtTypes
  <2> QED
    BY Zenon, <1>3, <1>6, <2>1, CreditOwes
<1>8. Total(Amount, Held)' = Total(Amount, Held)
  BY <1>4, <1>5, <1>6 DEF Total, Amount, OpenLocks
<1>9. OwedIsTheSum'
  <2>1. owed = Total(Amount, Held) + Total(credit, Accounts) + Top.amount
    BY <1>4 DEF DebtInv, OwedIsTheSum
  <2>2. owed' = Total(Amount, Held)' + Total(credit, Accounts)' + 0
    BY <1>3, <1>6, <1>7, <1>8, <2>1, DebtTypes
  <2> QED
    BY <1>5, <2>2 DEF OwedIsTheSum
<1>10. custody' <= MaxUint
  BY <1>2, <1>3, <1>6, MaxUintAssumption DEF CallInv, DebtInv
<1> QED
  BY <1>1, <1>9, <1>10 DEF DebtInv

\* What is known of a push that returns: what it delivered is paid, the rest is
\* credited, and where the asset can be measured and nobody deposited meanwhile,
\* what was delivered is what moved.
LEMMA PushReturned ==
    ASSUME IInv, DebtInv, PushReturns
    PROVE  /\ frames # <<>> /\ Top.op = "push" /\ frames' = <<>>
           /\ Top \in FrameType /\ CallInv(Top) /\ CallDebt(Top)
           /\ \E moved \in 0 .. Top.amount, delivered \in 0 .. Top.amount :
                 /\ moved <= custody /\ custody' = custody - moved
                 /\ paid' = [paid EXCEPT ![Top.who] = @ + moved]
                 /\ credit' = [credit EXCEPT ![Top.who] =
                                  AddSaturating(@, Top.amount - delivered)]
                 /\ owed' = owed - delivered
                 /\ exact' => exact /\ delivered = moved
           /\ UNCHANGED <<native, now, locks>>
<1>1. frames # <<>> /\ Top.op = "push" /\ frames' = <<>> /\ UNCHANGED <<native, now, locks>>
  BY TopCall DEF PushReturns
<1>2. Top \in FrameType /\ CallInv(Top) /\ CallDebt(Top)
  BY <1>1, TopCall DEF DebtInv
<1>3. /\ Top.amount \in Nat /\ Top.saved.custody \in Nat /\ Top.measured \in BOOLEAN
      /\ custody \in Nat
  BY <1>2, CallHasType, SavedHasType DEF IInv, TypeOK
<1>4. PICK moved \in 0 .. Top.amount, answers \in BOOLEAN :
          LET measured  == Top.measured /\ answers
              delivered == IF native THEN Top.amount
                           ELSE Deliver(Top.saved.custody, custody - moved,
                                        Top.amount, measured)
          IN /\ moved <= custody
             /\ native => moved = Top.amount
             /\ custody' = custody - moved
             /\ paid' = [paid EXCEPT ![Top.who] = @ + moved]
             /\ credit' = [credit EXCEPT ![Top.who] =
                              AddSaturating(@, Top.amount - delivered)]
             /\ owed' = owed - delivered
             /\ exact' = (exact /\ (native \/ measured))
  BY Zenon DEF PushReturns
<1> DEFINE measured  == Top.measured /\ answers
           delivered == IF native THEN Top.amount
                        ELSE Deliver(Top.saved.custody, custody - moved,
                                     Top.amount, measured)
<1>5. moved \in Nat /\ custody - moved \in Nat /\ moved <= Top.amount
  BY <1>3, <1>4
<1>6. measured \in BOOLEAN
  BY <1>3
<1>7. /\ moved <= custody /\ custody' = custody - moved
      /\ paid' = [paid EXCEPT ![Top.who] = @ + moved]
      /\ credit' = [credit EXCEPT ![Top.who] = AddSaturating(@, Top.amount - delivered)]
      /\ owed' = owed - delivered
  BY <1>4
<1>8. exact' = (exact /\ (native \/ measured)) /\ (native => moved = Top.amount)
  BY <1>4, Zenon
<1>9. CASE native
  <2>1. delivered = Top.amount
    BY <1>9
  <2> HIDE DEF measured, delivered
  <2>2. delivered \in 0 .. Top.amount /\ (exact' => exact /\ delivered = moved)
    BY Zenon, <1>3, <1>8, <1>9, <2>1
  <2> QED
    BY Zenon, <1>1, <1>2, <1>7, <2>2
<1>10. CASE ~native
  <2> HIDE DEF measured
  <2>1. delivered = Deliver(Top.saved.custody, custody - moved, Top.amount, measured)
    BY <1>10
  <2>2. PICK after \in Nat : after = custody - moved
    BY <1>5
  <2> HIDE DEF delivered
  <2>3. delivered \in 0 .. Top.amount
    BY Zenon, <1>3, <1>6, <2>1, <2>2, DeliverBounds
  <2>4. ASSUME exact' PROVE exact /\ delivered = moved
    <3>1. exact /\ measured /\ Top.saved.custody = custody
      BY Zenon, <1>2, <1>8, <1>10, <2>4 DEF CallDebt
    <3>2. delivered = Deliver(custody, after, Top.amount, TRUE)
      BY <1>6, <2>1, <2>2, <3>1
    <3>3. Deliver(custody, after, Top.amount, TRUE) = custody - after
      BY <1>3, <1>4, <1>5, <2>2 DEF Deliver
    <3>4. custody - after = moved
      BY <1>3, <1>5, <2>2
    <3> QED
      BY Zenon, <3>1, <3>2, <3>3, <3>4
  <2> QED
    BY Zenon, <1>1, <1>2, <1>7, <2>3, <2>4
<1> QED
  BY <1>9, <1>10

\* The debt shrinks by what was delivered.
LEMMA PushReturnsOwes ==
    ASSUME IInv, IInv', DebtInv, PushReturns
    PROVE  DebtInv'
<1>1. /\ frames # <<>> /\ Top.op = "push" /\ frames' = <<>> /\ Top \in FrameType
      /\ locks' = locks
  BY PushReturned
<1>2. PICK moved \in 0 .. Top.amount, delivered \in 0 .. Top.amount :
          /\ moved <= custody /\ custody' = custody - moved
          /\ credit' = [credit EXCEPT ![Top.who] = AddSaturating(@, Top.amount - delivered)]
          /\ owed' = owed - delivered
  BY PushReturned, Zenon
<1>3. /\ Top.who \in Accounts /\ Top.amount \in Nat /\ custody \in Nat /\ owed \in Int
  BY <1>1, CallHasType DEF IInv, TypeOK
<1>4. Held = OpenLocks(locks) /\ Total(Outgoing, DOMAIN frames) = Top.amount
  BY <1>1, OneOut
<1>5. Held' = OpenLocks(locks)' /\ Total(Outgoing, DOMAIN frames)' = 0
  BY <1>1, AfterReturn
<1>6. PICK n \in Nat : n = Top.amount - delivered
  BY <1>2, <1>3
<1>7. Total(credit, Accounts)' = Total(credit, Accounts) + n
  <2>1. n <= Total(Amount, Held) + Total(Outgoing, DOMAIN frames)
    BY <1>2, <1>3, <1>4, <1>6, DebtTypes
  <2>2. credit' = [credit EXCEPT ![Top.who] = AddSaturating(@, n)]
    BY <1>2, <1>6
  <2> QED
    BY Zenon, <1>3, <2>1, <2>2, CreditOwes
<1>8. Total(Amount, Held)' = Total(Amount, Held)
  BY <1>1, <1>4, <1>5 DEF Total, Amount, OpenLocks
<1>9. OwedIsTheSum'
  <2>1. owed = Total(Amount, Held) + Total(credit, Accounts) + Top.amount
    BY <1>4 DEF DebtInv, OwedIsTheSum
  <2>2. owed' = Total(Amount, Held)' + Total(credit, Accounts)' + 0
    BY <1>2, <1>3, <1>6, <1>7, <1>8, <2>1, DebtTypes
  <2> QED
    BY <1>5, <2>2 DEF OwedIsTheSum
<1>10. custody' <= MaxUint
  BY <1>2, <1>3, MaxUintAssumption DEF DebtInv
<1> QED
  BY <1>1, <1>9, <1>10 DEF DebtInv

\* withdraw moves a credit, or part of it, to the payment in progress.
LEMMA WithdrawOwes ==
    ASSUME IInv, IInv', DebtInv, NEW a \in Accounts, Withdraw(a)
    PROVE  DebtInv'
<1>1. frames = <<>> /\ UNCHANGED <<native, now, locks, custody, paid, owed, exact>>
  BY DEF Withdraw, NonReentrant
<1>2. PICK n \in 1 .. credit[a], measured \in BOOLEAN :
          /\ credit' = [credit EXCEPT ![a] = @ - n]
          /\ Call("pull", CHOOSE l \in Locks : TRUE, a, n, measured, World)
  BY Zenon DEF Withdraw
<1>3. /\ credit \in [Accounts -> Nat] /\ credit' \in [Accounts -> Nat] /\ n \in Nat
      /\ credit[a] \in Nat /\ owed \in Int
  BY <1>2 DEF IInv, TypeOK
<1>4. PICK f \in FrameType :
          f = [op |-> "pull", lock |-> CHOOSE l \in Locks : TRUE, who |-> a,
               amount |-> n, measured |-> measured, saved |-> World]
  BY Zenon, <1>3, WorldHasType, LocksAssumption DEF FrameType, IInv
<1>5. frames' = Append(frames, f)
  BY <1>2, <1>4 DEF Call
<1>6. f.op = "pull" /\ f.who = a /\ f.amount = n /\ f.saved = World
  BY <1>4
<1>7. Held = OpenLocks(locks) /\ Total(Outgoing, DOMAIN frames) = 0
  BY <1>1, NothingOut
<1>8. /\ frames' # <<>> /\ Top' = f
      /\ Held' = OpenLocks(locks)' /\ Total(Outgoing, DOMAIN frames)' = n
  BY <1>1, <1>5, <1>6, AfterCall
<1>9. Total(Amount, Held)' = Total(Amount, Held)
  BY <1>1, <1>7, <1>8 DEF Total, Amount, OpenLocks
<1>10. Total(credit, Accounts)' = Total(credit, Accounts) - n
  <2>1. PICK d : d = credit'
    OBVIOUS
  <2>2. /\ d \in [Accounts -> Nat] /\ d[a] = credit[a] - n
        /\ \A x \in Accounts \ {a} : d[x] = credit[x]
    BY <1>2, <1>3, <2>1
  <2>3. Total(d, Accounts) = Total(credit, Accounts) - credit[a] + d[a]
    BY <1>3, <2>2, CreditChange
  <2>4. Total(credit, Accounts)' = Total(d, Accounts)
    BY <2>1 DEF Total
  <2> QED
    BY <1>3, <2>2, <2>3, <2>4, DebtTypes
<1>11. OwedIsTheSum'
  <2>1. owed = Total(Amount, Held) + Total(credit, Accounts) + 0
    BY <1>7 DEF DebtInv, OwedIsTheSum
  <2>2. owed' = Total(Amount, Held)' + Total(credit, Accounts)' + n
    BY <1>1, <1>3, <1>9, <1>10, <2>1, DebtTypes
  <2> QED
    BY <1>8, <2>2 DEF OwedIsTheSum
<1>12. CallDebt(f)'
  <2>1. credit = [credit' EXCEPT ![a] = @ + n]
    <3>1. credit'[a] + n = credit[a]
      BY <1>2, <1>3
    <3>2. credit = [credit' EXCEPT ![a] = credit[a]]
      BY Zenon, <1>2, <1>3
    <3> QED
      BY <3>1, <3>2
  <2>2. /\ f.saved.credit = credit /\ f.saved.paid = paid'
        /\ f.saved.exact = exact' /\ f.saved.custody = custody'
    BY <1>1, <1>6 DEF World
  <2>3. f.saved.credit = [credit' EXCEPT ![f.who] = @ + f.amount]
    BY <1>6, <2>1, <2>2
  <2> QED
    BY <1>6, <2>2, <2>3 DEF CallDebt
<1>13. CallDebt(Top)'
  BY <1>8, <1>12 DEF CallDebt
<1> QED
  BY <1>1, <1>11, <1>13 DEF DebtInv

\* A pull that returns has moved exactly what was asked for: a deposit meanwhile
\* only makes the measured decrease smaller, so that no shortfall passes.
LEMMA PullReturned ==
    ASSUME IInv, DebtInv, PullReturns
    PROVE  /\ frames # <<>> /\ Top.op = "pull" /\ frames' = <<>>
           /\ Top \in FrameType /\ CallInv(Top) /\ CallDebt(Top)
           /\ Top.amount <= custody /\ custody' = custody - Top.amount
           /\ paid' = [paid EXCEPT ![Top.who] = @ + Top.amount]
           /\ owed' = owed - Top.amount
           /\ UNCHANGED <<native, now, locks, credit, exact>>
<1>1. /\ frames # <<>> /\ Top.op = "pull" /\ frames' = <<>>
      /\ UNCHANGED <<native, now, locks, credit, exact>>
  BY TopCall DEF PullReturns
<1>2. Top \in FrameType /\ CallInv(Top) /\ CallDebt(Top)
  BY <1>1, TopCall DEF DebtInv
<1>3. Top.amount \in Nat /\ Top.saved.custody \in Nat /\ custody \in Nat
  BY <1>2, CallHasType, SavedHasType DEF IInv, TypeOK
<1>4. PICK moved \in 0 .. Top.amount :
          /\ moved <= custody
          /\ IF native THEN moved = Top.amount
             ELSE /\ Top.measured
                  /\ Deliver(Top.saved.custody, custody - moved, Top.amount, TRUE)
                        = Top.amount
          /\ custody' = custody - moved
          /\ paid' = [paid EXCEPT ![Top.who] = @ + moved]
          /\ owed' = owed - Top.amount
  BY Zenon DEF PullReturns
<1>5. moved = Top.amount
  <2>1. CASE native
    BY <1>4, <2>1
  <2>2. CASE ~native
    <3>1. Deliver(Top.saved.custody, custody - moved, Top.amount, TRUE) = Top.amount
      BY Zenon, <1>4, <2>2
    <3>2. Top.saved.custody <= custody /\ moved \in Nat /\ moved <= Top.amount /\ moved <= custody
      BY <1>2, <1>3, <1>4 DEF CallInv
    <3> QED
      BY <1>3, <3>1, <3>2 DEF Deliver
  <2> QED
    BY <2>1, <2>2
<1> QED
  BY <1>1, <1>2, <1>4, <1>5

\* A pull that returns settles the debt it moved.
LEMMA PullReturnsOwes ==
    ASSUME IInv, IInv', DebtInv, PullReturns
    PROVE  DebtInv'
<1>1. /\ frames # <<>> /\ Top.op = "pull" /\ frames' = <<>> /\ Top \in FrameType
      /\ custody' = custody - Top.amount /\ owed' = owed - Top.amount
      /\ locks' = locks /\ credit' = credit
  BY PullReturned
<1>2. Top.amount \in Nat /\ custody \in Nat /\ owed \in Int
  BY <1>1, CallHasType DEF IInv, TypeOK
<1>3. Held = OpenLocks(locks) /\ Total(Outgoing, DOMAIN frames) = Top.amount
  BY <1>1, OneOut
<1>4. Held' = OpenLocks(locks)' /\ Total(Outgoing, DOMAIN frames)' = 0
  BY <1>1, AfterReturn
<1>5. Total(Amount, Held)' = Total(Amount, Held) /\ Total(credit, Accounts)' = Total(credit, Accounts)
  BY <1>1, <1>3, <1>4 DEF Total, Amount, OpenLocks
<1>6. OwedIsTheSum'
  <2>1. owed = Total(Amount, Held) + Total(credit, Accounts) + Top.amount
    BY <1>3 DEF DebtInv, OwedIsTheSum
  <2>2. owed' = Total(Amount, Held)' + Total(credit, Accounts)' + 0
    BY <1>1, <1>2, <1>5, <2>1, DebtTypes
  <2> QED
    BY <1>4, <2>2 DEF OwedIsTheSum
<1>7. custody' <= MaxUint
  BY <1>1, <1>2, MaxUintAssumption DEF DebtInv
<1> QED
  BY <1>1, <1>6, <1>7 DEF DebtInv

\* A pull that fails gives the credit back.
LEMMA PullFailsOwes ==
    ASSUME IInv, IInv', DebtInv, PullFails
    PROVE  DebtInv'
<1>1. frames # <<>> /\ Top.op = "pull" /\ frames' = <<>> /\ Revert(Top.saved)
  BY TopCall DEF PullFails
<1>2. Top \in FrameType /\ CallInv(Top) /\ CallDebt(Top)
  BY <1>1, TopCall DEF DebtInv
<1>3. /\ Top.who \in Accounts /\ Top.amount \in Nat /\ Top.saved.custody \in Nat
      /\ custody \in Nat /\ owed \in Int
      /\ credit \in [Accounts -> Nat] /\ credit' \in [Accounts -> Nat]
  BY <1>2, CallHasType, SavedHasType DEF IInv, TypeOK
<1>4. /\ locks' = locks /\ custody' = Top.saved.custody /\ owed' = owed
      /\ credit' = [credit EXCEPT ![Top.who] = @ + Top.amount]
  BY <1>1, <1>2 DEF Revert, CallInv, CallDebt
<1>5. Held = OpenLocks(locks) /\ Total(Outgoing, DOMAIN frames) = Top.amount
  BY <1>1, OneOut
<1>6. Held' = OpenLocks(locks)' /\ Total(Outgoing, DOMAIN frames)' = 0
  BY <1>1, AfterReturn
<1>7. Total(Amount, Held)' = Total(Amount, Held)
  BY <1>4, <1>5, <1>6 DEF Total, Amount, OpenLocks
<1>8. Total(credit, Accounts)' = Total(credit, Accounts) + Top.amount
  <2>1. PICK d : d = credit'
    OBVIOUS
  <2>2. /\ d \in [Accounts -> Nat] /\ d[Top.who] = credit[Top.who] + Top.amount
        /\ \A x \in Accounts \ {Top.who} : d[x] = credit[x] /\ credit[Top.who] \in Nat
    BY <1>3, <1>4, <2>1
  <2>3. Total(d, Accounts) = Total(credit, Accounts) - credit[Top.who] + d[Top.who]
    BY <1>3, <2>2, CreditChange
  <2>4. Total(credit, Accounts)' = Total(d, Accounts) /\ credit[Top.who] \in Nat
    BY <1>3, <2>1 DEF Total
  <2> QED
    BY <1>3, <2>2, <2>3, <2>4, DebtTypes
<1>9. OwedIsTheSum'
  <2>1. owed = Total(Amount, Held) + Total(credit, Accounts) + Top.amount
    BY <1>5 DEF DebtInv, OwedIsTheSum
  <2>2. owed' = Total(Amount, Held)' + Total(credit, Accounts)' + 0
    BY <1>3, <1>4, <1>7, <1>8, <2>1, DebtTypes
  <2> QED
    BY <1>6, <2>2 DEF OwedIsTheSum
<1>10. custody' <= MaxUint
  BY <1>2, <1>3, <1>4, MaxUintAssumption DEF CallInv, DebtInv
<1> QED
  BY <1>1, <1>9, <1>10 DEF DebtInv

\* Deposits and time change no debt.
LEMMA QuietOwes ==
    ASSUME IInv, DebtInv, Deposit \/ Tick \/ UNCHANGED vars
    PROVE  DebtInv'
<1>1. /\ UNCHANGED <<native, frames, locks, credit, paid, owed>>
      /\ custody' <= MaxUint
      /\ exact' => exact /\ (native \/ frames = <<>> \/ custody' = custody)
  BY DEF Deposit, Tick, vars, world, DebtInv, IInv, TypeOK
<1>2. OwedIsTheSum'
  BY <1>1 DEF DebtInv, OwedIsTheSum, Total, Amount, Held, Outgoing, OpenInProgress
<1>3. frames' # <<>> => CallDebt(Top)'
  <2>1. Top' = Top
    BY <1>1 DEF Top
  <2> QED
    BY <1>1, <2>1 DEF DebtInv, CallDebt
<1> QED
  BY <1>1, <1>2, <1>3 DEF DebtInv

\* No debt when the contract is deployed.
LEMMA DebtInit == Init => DebtInv
<1> SUFFICES ASSUME Init PROVE DebtInv
  OBVIOUS
<1>1. /\ locks = [l \in Locks |-> "absent"] /\ credit = [a \in Accounts |-> 0]
      /\ custody = 0 /\ frames = <<>> /\ owed = 0
  BY DEF Init
<1>2. Held = {} /\ Total(Outgoing, DOMAIN frames) = 0
  BY <1>1, NothingOut DEF OpenLocks
<1>3. Total(Amount, Held) = 0
  BY <1>2, TotalEmpty
<1>4. Total(credit, Accounts) = 0
  <2>1. UNION {{x} \X (1 .. credit[x]) : x \in Accounts} = {}
    <3>1. \A x \in Accounts : 1 .. credit[x] = {}
      BY <1>1
    <3> QED
      BY <3>1
  <2> QED
    BY <2>1, FS_EmptySet DEF Total
<1>5. OwedIsTheSum
  BY <1>1, <1>2, <1>3, <1>4 DEF OwedIsTheSum
<1> QED
  BY <1>1, <1>5, MaxUintAssumption DEF DebtInv

\* Every step keeps the account of the debts.
LEMMA DebtStep == IInv /\ IInv' /\ DebtInv /\ [Next]_vars => DebtInv'
<1> SUFFICES ASSUME IInv, IInv', DebtInv, [Next]_vars PROVE DebtInv'
  OBVIOUS
<1>1. ASSUME NEW l \in Locks, Open(l) PROVE DebtInv'
  <2>1. /\ frames = <<>> /\ locks[l] = "absent" /\ native' = native
        /\ OpenNative(l) \/ OpenToken(l)
    BY <1>1 DEF Open, NonReentrant
  <2> QED
    BY <2>1, OpenNativeOwes, OpenTokenOwes
<1>2. ASSUME NEW l \in Locks, Claim(l) PROVE DebtInv'
  <2>1. Payout(l, Terms[l].beneficiary, "claimed") /\ frames = <<>> /\ locks[l] = "open"
    BY <1>2 DEF Claim, NonReentrant
  <2> QED
    BY <2>1, TermsHaveType, PayoutOwes
<1>3. ASSUME NEW l \in Locks, Refund(l) PROVE DebtInv'
  <2>1. Payout(l, Terms[l].funder, "refunded") /\ frames = <<>> /\ locks[l] = "open"
    BY <1>3 DEF Refund, NonReentrant
  <2> QED
    BY <2>1, TermsHaveType, PayoutOwes
<1>4. CASE CallReturns
  BY <1>4, OpenReturnsOwes, PushReturnsOwes, PushFailsOwes, PullReturnsOwes, PullFailsOwes
  DEF CallReturns
<1> QED
  BY <1>1, <1>2, <1>3, <1>4, WithdrawOwes, QuietOwes DEF Next

\* Every debt is accounted for exactly once, in every state: in a lock that open
\* has funded, in a credit, or in the payment that claim, refund or withdraw have
\* in progress; the saturating addition of credits never loses any.
THEOREM DebtsAddUp == Spec => []OwedIsTheSum
<1>1. DebtInv => OwedIsTheSum
  BY DEF DebtInv
<1> QED
  BY <1>1, InitHolds, StepHolds, DebtInit, DebtStep, PTL DEF Spec

-----------------------------------------------------------------------------
(* Every account gets what its locks earned it *)

\* What is on its way to an account.
Due(a) == IF frames # <<>> /\ Top.op # "open" /\ Top.who = a THEN Top.amount ELSE 0

\* The measurements have been exact, up to the call in progress.
Accurate == IF frames = <<>> THEN exact ELSE Top.saved.exact

ShareInv ==
    Accurate => \A a \in Accounts : paid[a] + credit[a] + Due(a) = Total(Amount, Earned(a))

\* It is enough that what an account has and what it earned grow by as much.
LEMMA ShareStays ==
    ASSUME IInv, ShareInv, Accurate' => Accurate,
           \A a \in Accounts :
              \E g \in Nat :
                 /\ (paid[a] + credit[a] + Due(a))' = paid[a] + credit[a] + Due(a) + g
                 /\ Total(Amount, Earned(a))' = Total(Amount, Earned(a)) + g
    PROVE  ShareInv'
<1> SUFFICES ASSUME Accurate', NEW a \in Accounts
             PROVE  (paid[a] + credit[a] + Due(a))' = Total(Amount, Earned(a))'
  BY DEF ShareInv
<1>1. paid[a] + credit[a] + Due(a) = Total(Amount, Earned(a))
  BY DEF ShareInv
<1> QED
  BY <1>1

\* Nobody earns anything while no lock settles.
LEMMA NothingEarned ==
    ASSUME \A l \in Locks :
              locks'[l] = locks[l] \/ {locks[l], locks'[l]} \subseteq {"absent", "open"},
           NEW a \in Accounts
    PROVE  /\ Total(Amount, Earned(a))' = Total(Amount, Earned(a))
           /\ Total(Amount, Earned(a)) \in Nat
<1>1. Earned(a)' = Earned(a)
  BY DEF Earned
<1>2. Earned(a) \in SUBSET Locks
  BY DEF Earned
<1> QED
  BY <1>1, <1>2, AmountType DEF Total, Amount

\* What an account has, is credited and is due are natural numbers.
LEMMA ShareTypes ==
    ASSUME IInv, NEW a \in Accounts
    PROVE  paid[a] \in Nat /\ credit[a] \in Nat /\ Due(a) \in Nat
<1>1. frames # <<>> => Top.amount \in Nat
  BY TopCall, CallHasType
<1> QED
  BY <1>1 DEF IInv, TypeOK, Due

\* They are in every state of the invariant.
LEMMA ShareTypesAlways == IInv => \A x \in Accounts : credit[x] \in Nat /\ Due(x) \in Nat
  BY ShareTypes

\* A step in which no lock settles and no account gains or loses.
LEMMA ShareKept ==
    ASSUME IInv, ShareInv, Accurate' => Accurate,
           \A l \in Locks :
              locks'[l] = locks[l] \/ {locks[l], locks'[l]} \subseteq {"absent", "open"},
           \A a \in Accounts :
              (paid[a] + credit[a] + Due(a))' = paid[a] + credit[a] + Due(a)
    PROVE  ShareInv'
<1>1. ASSUME NEW a \in Accounts
      PROVE  \E g \in Nat :
                 /\ (paid[a] + credit[a] + Due(a))' = paid[a] + credit[a] + Due(a) + g
                 /\ Total(Amount, Earned(a))' = Total(Amount, Earned(a)) + g
  <2>1. (paid[a] + credit[a] + Due(a))' = paid[a] + credit[a] + Due(a) + 0
    BY ShareTypes
  <2>2. Total(Amount, Earned(a))' = Total(Amount, Earned(a)) + 0
    BY NothingEarned
  <2> QED
    BY <2>1, <2>2
<1> QED
  BY <1>1, ShareStays

\* With no call in progress, or with that of an open, nothing is due.
LEMMA NothingDue ==
    /\ (frames = <<>> \/ Top.op = "open") => \A a \in Accounts : Due(a) = 0
    /\ (frames = <<>> \/ Top.op = "open")' => \A a \in Accounts : Due(a)' = 0
  BY DEF Due

\* open.
LEMMA OpenShares ==
    ASSUME IInv, IInv', DebtInv, ShareInv, NEW l \in Locks, Open(l)
    PROVE  ShareInv'
<1>1. frames = <<>> /\ locks[l] = "absent" /\ locks \in [Locks -> Statuses]
  BY DEF Open, NonReentrant, IInv, TypeOK
<1>2. /\ locks' = [locks EXCEPT ![l] = "open"] /\ UNCHANGED <<credit, paid, exact>>
      /\ \/ frames' = <<>>
         \/ Call("open", l, Terms[l].funder, Terms[l].amount, TRUE, World)
  BY Zenon, <1>1 DEF Open, OpenNative, OpenToken
<1>3. frames' = <<>> \/ (frames' # <<>> /\ Top'.op = "open" /\ Top'.saved = World)
  <2>1. ASSUME frames' # <<>> PROVE Top'.op = "open" /\ Top'.saved = World
    <3>1. PICK f \in FrameType :
                f = [op |-> "open", lock |-> l, who |-> Terms[l].funder,
                     amount |-> Terms[l].amount, measured |-> TRUE, saved |-> World]
      BY Zenon, TermsHaveType, WorldHasType DEF FrameType, IInv
    <3>2. frames' = Append(frames, f)
      BY <1>2, <2>1, <3>1 DEF Call
    <3>3. Top' = f
      BY <1>1, <3>2, AfterCall
    <3> QED
      BY <3>1, <3>3
  <2> QED
    BY <2>1
<1>4. Accurate' => Accurate
  <2>1. World.exact = exact /\ exact' = exact
    BY <1>2 DEF World
  <2>2. Accurate = exact
    BY <1>1 DEF Accurate
  <2>3. Accurate' = exact
    BY Zenon, <1>3, <2>1 DEF Accurate
  <2>. QED BY <2>2, <2>3
<1>5. \A a \in Accounts : Due(a) = 0 /\ Due(a)' = 0
  BY <1>1, <1>3, NothingDue
<1>6. \A a \in Accounts : (paid[a] + credit[a] + Due(a))' = paid[a] + credit[a] + Due(a)
  BY <1>2, <1>5
<1>7. \A x \in Locks :
          locks'[x] = locks[x] \/ {locks[x], locks'[x]} \subseteq {"absent", "open"}
  BY <1>1, <1>2
<1> QED
  BY <1>4, <1>6, <1>7, ShareKept

\* The return of open, and its revert.
LEMMA OpenReturnsShares ==
    ASSUME IInv, IInv', DebtInv, ShareInv, OpenReturns \/ OpenFails
    PROVE  ShareInv'
<1>1. frames # <<>> /\ Top.op = "open" /\ frames' = <<>>
  BY TopCall DEF OpenReturns, OpenFails
<1>2. Top \in FrameType /\ CallInv(Top) /\ CallDebt(Top)
  BY <1>1, TopCall DEF DebtInv
<1>3. Top.lock \in Locks /\ locks[Top.lock] = "open" /\ locks \in [Locks -> Statuses]
  BY <1>1, <1>2, CallHasType DEF CallInv, IInv, TypeOK
<1>4. \/ UNCHANGED <<locks, credit, paid, exact>>
      \/ Revert(Top.saved)
  BY DEF OpenReturns, OpenFails
<1>5. UNCHANGED <<credit, paid>>
  BY <1>1, <1>2, <1>4 DEF Revert, CallDebt
<1>6. Accurate' => Accurate
  <2>1. exact' = exact \/ exact' = Top.saved.exact
    BY <1>4 DEF Revert
  <2>2. exact => Top.saved.exact
    BY <1>2 DEF CallDebt
  <2>3. exact' => Top.saved.exact
    BY <2>1, <2>2, Zenon
  <2> QED
    BY <1>1, <2>3 DEF Accurate
<1>7. \A x \in Locks :
          locks'[x] = locks[x] \/ {locks[x], locks'[x]} \subseteq {"absent", "open"}
  <2>1. CASE locks' = locks
    BY <2>1
  <2>2. CASE locks' = [locks EXCEPT ![Top.lock] = "absent"]
    BY <1>3, <2>2
  <2> QED
    BY <1>1, <1>2, <1>4, <2>1, <2>2 DEF Revert, CallInv
<1>8. \A a \in Accounts : Due(a) = 0 /\ Due(a)' = 0
  BY <1>1, NothingDue
<1>9. \A a \in Accounts : (paid[a] + credit[a] + Due(a))' = paid[a] + credit[a] + Due(a)
  BY <1>5, <1>8
<1> QED
  BY <1>6, <1>7, <1>9, ShareKept

\* claim and refund: one account earns the amount of the lock and is credited it,
\* or it is on its way.
LEMMA PayoutShares ==
    ASSUME IInv, IInv', DebtInv, ShareInv, frames = <<>>, NEW l \in Locks, locks[l] = "open",
           NEW who \in Accounts, NEW status \in {"claimed", "refunded"},
           Payout(l, who, status),
           who = IF status = "claimed" THEN Terms[l].beneficiary ELSE Terms[l].funder
    PROVE  ShareInv'
<1>1. /\ locks \in [Locks -> Statuses] /\ Terms[l].amount \in Nat
      /\ credit \in [Accounts -> Nat]
  BY TermsHaveType DEF IInv, TypeOK
<1>2. locks' = [locks EXCEPT ![l] = status] /\ UNCHANGED <<paid, exact>>
  BY DEF Payout
<1>3. ASSUME NEW a \in Accounts
      PROVE  Total(Amount, Earned(a))' =
                Total(Amount, Earned(a)) + (IF a = who THEN Terms[l].amount ELSE 0)
  <2>1. l \notin Earned(a) /\ Earned(a) \in SUBSET Locks
    BY DEF Earned
  <2>2. PICK E : E = Earned(a)'
    OBVIOUS
  <2>3. E = IF a = who THEN Earned(a) \cup {l} ELSE Earned(a)
    <3>1. \A x \in Locks \ {l} : x \in E <=> x \in Earned(a)
      BY <1>1, <1>2, <2>2 DEF Earned
    <3>2. l \in E <=> a = who
      BY <1>1, <1>2, <2>2 DEF Earned
    <3>3. E \in SUBSET Locks
      BY <2>2 DEF Earned
    <3>4. CASE a = who
      <4>1. E = Earned(a) \cup {l}
        BY <2>1, <3>1, <3>2, <3>3, <3>4
      <4> QED
        BY <3>4, <4>1
    <3>5. CASE a # who
      <4>1. \A x \in Locks : x \in E <=> x \in Earned(a)
        BY <2>1, <3>1, <3>2, <3>5
      <4>2. E = Earned(a)
        BY Zenon, <2>1, <3>3, <4>1
      <4> QED
        BY <3>5, <4>2
    <3> QED
      BY <3>4, <3>5
  <2>4. Total(Amount, Earned(a))' = Total(Amount, E)
    BY <2>2 DEF Total, Amount
  <2>5. CASE a = who
    BY <2>1, <2>3, <2>4, <2>5, AmountAdd
  <2>6. CASE a # who
    <3>1. Total(Amount, Earned(a)) \in Nat
      BY <2>1, AmountType
    <3> QED
      BY <2>3, <2>4, <2>6, <3>1
  <2> QED
    BY <2>5, <2>6
<1>4. /\ Accurate' => Accurate
      /\ \A a \in Accounts : credit'[a] + Due(a)' =
                                credit[a] + (IF a = who THEN Terms[l].amount ELSE 0)
  <2>1. CASE /\ credit' = [credit EXCEPT ![who] = AddSaturating(@, Terms[l].amount)]
             /\ UNCHANGED frames
    <3>1. Held = OpenLocks(locks) /\ Total(Outgoing, DOMAIN frames) = 0
      BY NothingOut
    <3>2. PICK H : H = Held \ {l}
      BY Zenon
    <3>3. H \in SUBSET Locks /\ l \notin H /\ Held = H \cup {l}
      BY <3>1, <3>2 DEF OpenLocks
    <3>4. Terms[l].amount <= Total(Amount, Held) + Total(Outgoing, DOMAIN frames)
      <4>1. Total(Amount, H) \in Nat /\ Total(Amount, Held) = Total(Amount, H) + Terms[l].amount
        BY <3>3, AmountAdd
      <4> QED
        BY <1>1, <3>1, <4>1
    <3>5. credit' = [credit EXCEPT ![who] = @ + Terms[l].amount]
      BY Zenon, <1>1, <2>1, <3>4, CreditOwes
    <3>6. \A a \in Accounts : Due(a)' = 0
      BY <2>1, NothingDue
    <3>7. \A a \in Accounts : credit'[a] + 0 =
                                credit[a] + (IF a = who THEN Terms[l].amount ELSE 0)
      BY <1>1, <3>5
    <3>8. Accurate' => Accurate
      BY <1>2, <2>1 DEF Accurate
    <3> QED
      BY <3>6, <3>7, <3>8
  <2>2. CASE /\ \E measured \in BOOLEAN :
                   Call("push", l, who, Terms[l].amount, measured,
                        [World EXCEPT !.locks = [locks EXCEPT ![l] = status]])
             /\ UNCHANGED credit
    <3>1. PICK measured \in BOOLEAN :
                Call("push", l, who, Terms[l].amount, measured,
                     [World EXCEPT !.locks = [locks EXCEPT ![l] = status]])
      BY <2>2
    <3>2. World \in WorldType /\ [locks EXCEPT ![l] = status] \in [Locks -> Statuses]
      BY <1>1, WorldHasType DEF IInv, Statuses
    <3>3. PICK w \in WorldType : w = [World EXCEPT !.locks = [locks EXCEPT ![l] = status]]
      BY Zenon, <3>2 DEF WorldType
    <3>4. PICK f \in FrameType :
                f = [op |-> "push", lock |-> l, who |-> who, amount |-> Terms[l].amount,
                     measured |-> measured, saved |-> w]
      BY Zenon, <1>1 DEF FrameType
    <3>5. frames' = Append(frames, f)
      BY <3>1, <3>3, <3>4 DEF Call
    <3>6. frames' # <<>> /\ Top' = f
      BY <3>5, AfterCall
    <3>7. f.op = "push" /\ f.who = who /\ f.amount = Terms[l].amount /\ f.saved.exact = exact
      BY <3>3, <3>4 DEF World
    <3>8. Accurate' => Accurate
      BY <3>6, <3>7 DEF Accurate
    <3>9. \A a \in Accounts : Due(a)' = IF a = who THEN Terms[l].amount ELSE 0
      BY <3>6, <3>7 DEF Due
    <3> QED
      BY <2>2, <3>8, <3>9
  <2> QED
    BY Zenon, <2>1, <2>2 DEF Payout
<1>5. ASSUME NEW a \in Accounts
      PROVE  \E g \in Nat :
                 /\ (paid[a] + credit[a] + Due(a))' = paid[a] + credit[a] + Due(a) + g
                 /\ Total(Amount, Earned(a))' = Total(Amount, Earned(a)) + g
  <2>1. PICK g \in Nat : g = IF a = who THEN Terms[l].amount ELSE 0
    BY <1>1
  <2>2. Due(a) = 0 /\ paid[a] \in Nat /\ credit[a] \in Nat
    BY NothingDue, ShareTypes
  <2>3. paid'[a] = paid[a] /\ credit'[a] + Due(a)' = credit[a] + g
    BY <1>2, <1>4, <2>1
  <2>4. credit'[a] \in Nat /\ Due(a)' \in Nat
    <3>1. (IInv => \A x \in Accounts : credit[x] \in Nat /\ Due(x) \in Nat)'
      BY ShareTypesAlways, PTL
    <3> QED
      BY <3>1
  <2>5. (paid[a] + credit[a] + Due(a))' = paid[a] + credit[a] + Due(a) + g
    <3>1. \A p, c, d, n \in Nat : c + d = n + g => p + c + d = p + n + 0 + g
      BY <2>1
    <3>2. credit[a] \in Nat /\ paid[a] \in Nat
      BY <2>2
    <3>3. paid[a] + credit'[a] + Due(a)' = paid[a] + credit[a] + 0 + g
      <4>1. PICK c \in Nat, d \in Nat, p \in Nat, n \in Nat :
                c = credit'[a] /\ d = Due(a)' /\ p = paid[a] /\ n = credit[a]
        BY <2>4, <3>2, Zenon
      <4>2. c + d = n + g
        BY <2>3, <4>1, Zenon
      <4>3. p + c + d = p + n + 0 + g
        BY <4>2
      <4> QED
        BY <4>1, <4>3, Zenon
    <3> QED
      BY <2>2, <2>3, <3>3
  <2>6. Total(Amount, Earned(a))' = Total(Amount, Earned(a)) + g
    BY <1>3, <2>1
  <2> QED
    BY <2>5, <2>6
<1> QED
  BY <1>4, <1>5, ShareStays

\* A push that returns or fails: what was due is paid or credited.
LEMMA PushShares ==
    ASSUME IInv, IInv', DebtInv, ShareInv, PushReturns \/ PushFails
    PROVE  ShareInv'
<1>1. /\ frames # <<>> /\ Top.op = "push" /\ frames' = <<>> /\ locks' = locks
      /\ Top \in FrameType /\ CallDebt(Top)
      /\ exact' => Top.saved.exact
      /\ exact' => \E n \in 0 .. Top.amount :
                      /\ paid' = [paid EXCEPT ![Top.who] = @ + n]
                      /\ credit' = [credit EXCEPT ![Top.who] = AddSaturating(@, Top.amount - n)]
  <2>1. CASE PushReturns
    <3>1. /\ frames # <<>> /\ Top.op = "push" /\ frames' = <<>> /\ locks' = locks
          /\ Top \in FrameType /\ CallDebt(Top)
      BY <2>1, PushReturned
    <3>2. PICK moved \in 0 .. Top.amount, delivered \in 0 .. Top.amount :
              /\ paid' = [paid EXCEPT ![Top.who] = @ + moved]
              /\ credit' = [credit EXCEPT ![Top.who] =
                               AddSaturating(@, Top.amount - delivered)]
              /\ exact' => exact /\ delivered = moved
      BY <2>1, PushReturned, Zenon
    <3>3. exact => Top.saved.exact
      BY <3>1 DEF CallDebt
    <3> QED
      BY <3>1, <3>2, <3>3, Zenon
  <2>2. CASE PushFails
    <3>1. frames # <<>> /\ Top.op = "push" /\ frames' = <<>>
      BY <2>2, TopCall DEF PushFails
    <3>2. Top \in FrameType /\ CallInv(Top) /\ CallDebt(Top)
      BY <3>1, TopCall DEF DebtInv
    <3>3. Top.who \in Accounts /\ Top.amount \in Nat /\ Top.saved \in WorldType
      BY <3>2, CallHasType
    <3> DEFINE w == [Top.saved EXCEPT !.credit[Top.who] = AddSaturating(@, Top.amount)]
    <3>4. Revert(w)
      BY <2>2 DEF PushFails
    <3>5. /\ w.locks = Top.saved.locks /\ w.paid = Top.saved.paid /\ w.exact = Top.saved.exact
          /\ w.credit = [Top.saved.credit EXCEPT ![Top.who] = AddSaturating(@, Top.amount)]
      BY <3>3 DEF WorldType
    <3>6. Top.saved.locks = locks /\ Top.saved.paid = paid /\ Top.saved.credit = credit
      BY <3>1, <3>2 DEF CallInv, CallDebt
    <3> HIDE DEF w
    <3>7. /\ locks' = locks /\ paid' = paid /\ exact' = Top.saved.exact
          /\ credit' = [credit EXCEPT ![Top.who] = AddSaturating(@, Top.amount)]
      BY <3>4, <3>5, <3>6 DEF Revert
    <3>8. paid' = [paid EXCEPT ![Top.who] = @ + 0] /\ Top.amount - 0 = Top.amount
      BY <3>3, <3>7 DEF IInv, TypeOK
    <3>9. 0 \in 0 .. Top.amount
      BY <3>3
    <3>10. credit' = [credit EXCEPT ![Top.who] = AddSaturating(@, Top.amount - 0)]
      BY Zenon, <3>7, <3>8
    <3> QED
      BY <3>1, <3>2, <3>7, <3>8, <3>9, <3>10, Zenon
  <2> QED
    BY <2>1, <2>2
<1>2. SUFFICES ASSUME exact' PROVE ShareInv'
  <2>1. ~exact' => ~Accurate'
    BY <1>1 DEF Accurate
  <2> QED
    BY <2>1 DEF ShareInv
<1>3. Top.who \in Accounts /\ Top.amount \in Nat
  BY <1>1, CallHasType
<1>4. PICK n \in 0 .. Top.amount :
          /\ paid' = [paid EXCEPT ![Top.who] = @ + n]
          /\ credit' = [credit EXCEPT ![Top.who] = AddSaturating(@, Top.amount - n)]
  BY <1>1, <1>2
<1>5. PICK m \in Nat : m = Top.amount - n
  BY <1>3, <1>4
<1>6. credit' = [credit EXCEPT ![Top.who] = @ + m]
  <2>1. Total(Outgoing, DOMAIN frames) = Top.amount
    BY <1>1, OneOut
  <2>2. m <= Total(Amount, Held) + Total(Outgoing, DOMAIN frames)
    BY <1>3, <1>4, <1>5, <2>1, DebtTypes
  <2>3. credit' = [credit EXCEPT ![Top.who] = AddSaturating(@, m)]
    BY <1>4, <1>5
  <2> QED
    BY Zenon, <1>3, <2>2, <2>3, CreditOwes
<1>7. ASSUME NEW a \in Accounts
      PROVE  (paid[a] + credit[a] + Due(a))' = paid[a] + credit[a] + Due(a)
  <2>1. paid \in [Accounts -> Nat] /\ credit \in [Accounts -> Nat]
    BY DEF IInv, TypeOK
  <2>2. Due(a)' = 0 /\ Due(a) = IF a = Top.who THEN Top.amount ELSE 0
    BY <1>1 DEF Due
  <2>3. CASE a = Top.who
    <3>1. paid'[a] = paid[a] + n /\ credit'[a] = credit[a] + m
      BY <1>4, <1>6, <2>1, <2>3
    <3>2. paid[a] \in Nat /\ credit[a] \in Nat /\ n \in Nat /\ n + m = Top.amount
      BY <1>3, <1>4, <1>5, <2>1
    <3>3. paid'[a] + credit'[a] + 0 = paid[a] + credit[a] + Top.amount
      BY <3>1, <3>2
    <3> QED
      BY <2>2, <2>3, <3>3
  <2>4. CASE a # Top.who
    <3>1. paid'[a] = paid[a] /\ credit'[a] = credit[a]
      BY <1>4, <1>6, <2>1, <2>4
    <3> QED
      BY <2>2, <2>4, <3>1
  <2> QED
    BY <2>3, <2>4
<1>8. Accurate' => Accurate
  BY <1>1 DEF Accurate
<1> QED
  BY <1>1, <1>7, <1>8, ShareKept

\* withdraw: what was credited is on its way.
LEMMA WithdrawShares ==
    ASSUME IInv, IInv', DebtInv, ShareInv, NEW b \in Accounts, Withdraw(b)
    PROVE  ShareInv'
<1>1. frames = <<>> /\ UNCHANGED <<locks, paid, exact>>
  BY DEF Withdraw, NonReentrant
<1>2. PICK n \in 1 .. credit[b], measured \in BOOLEAN :
          /\ credit' = [credit EXCEPT ![b] = @ - n]
          /\ Call("pull", CHOOSE l \in Locks : TRUE, b, n, measured, World)
  BY Zenon DEF Withdraw
<1>3. credit \in [Accounts -> Nat] /\ paid \in [Accounts -> Nat] /\ n \in Nat /\ credit[b] \in Nat
  BY SMT, SMTT(30), <1>2 DEF IInv, TypeOK
<1>4. PICK f \in FrameType :
          f = [op |-> "pull", lock |-> CHOOSE l \in Locks : TRUE, who |-> b,
               amount |-> n, measured |-> measured, saved |-> World]
  BY Zenon, <1>3, WorldHasType, LocksAssumption DEF FrameType, IInv
<1>5. frames' = Append(frames, f)
  BY <1>2, <1>4 DEF Call
<1>6. f.op = "pull" /\ f.who = b /\ f.amount = n /\ f.saved.exact = exact
  BY <1>4 DEF World
<1>7. frames' # <<>> /\ Top' = f
  BY <1>1, <1>5, AfterCall
<1>8. Accurate' => Accurate
  BY <1>1, <1>6, <1>7 DEF Accurate
<1>9. ASSUME NEW a \in Accounts
      PROVE  (paid[a] + credit[a] + Due(a))' = paid[a] + credit[a] + Due(a)
  <2>1. Due(a) = 0 /\ Due(a)' = IF a = b THEN n ELSE 0
    BY <1>1, <1>6, <1>7 DEF Due
  <2>2. CASE a = b
    <3>1. credit'[a] = credit[a] - n /\ paid'[a] = paid[a]
      BY <1>1, <1>2, <1>3, <2>2
    <3>2. paid[a] \in Nat /\ credit[a] \in Nat
      BY <1>3
    <3>3. paid'[a] + credit'[a] + n = paid[a] + credit[a] + 0
      BY <1>3, <3>1, <3>2
    <3> QED
      BY <2>1, <2>2, <3>3
  <2>3. CASE a # b
    <3>1. credit'[a] = credit[a] /\ paid'[a] = paid[a]
      BY <1>1, <1>2, <1>3, <2>3
    <3> QED
      BY <2>1, <2>3, <3>1
  <2> QED
    BY <2>2, <2>3
<1> QED
  BY <1>1, <1>8, <1>9, ShareKept

\* A pull that returns or fails: what was due is paid or credited again.
LEMMA PullShares ==
    ASSUME IInv, IInv', DebtInv, ShareInv, PullReturns \/ PullFails
    PROVE  ShareInv'
<1>1. frames # <<>> /\ Top.op = "pull" /\ frames' = <<>>
  BY Zenon, TopCall DEF PullReturns, PullFails
<1>2. Top \in FrameType /\ CallInv(Top) /\ CallDebt(Top)
  BY <1>1, TopCall DEF DebtInv
<1>3. /\ Top.who \in Accounts /\ Top.amount \in Nat
      /\ paid \in [Accounts -> Nat] /\ credit \in [Accounts -> Nat]
  BY <1>2, CallHasType DEF IInv, TypeOK
<1>4. /\ locks' = locks /\ (exact' => Top.saved.exact)
      /\ \/ credit' = credit /\ paid' = [paid EXCEPT ![Top.who] = @ + Top.amount]
         \/ paid' = paid /\ credit' = [credit EXCEPT ![Top.who] = @ + Top.amount]
  <2>1. CASE PullReturns
    <3>1. exact => Top.saved.exact
      BY <1>2 DEF CallDebt
    <3>2. /\ locks' = locks /\ exact' = exact /\ credit' = credit
          /\ paid' = [paid EXCEPT ![Top.who] = @ + Top.amount]
      BY <2>1, PullReturned
    <3> QED
      BY <3>1, <3>2, Zenon
  <2>2. CASE PullFails
    <3>1. Revert(Top.saved)
      BY <2>2 DEF PullFails
    <3>2. /\ Top.saved.locks = locks /\ Top.saved.paid = paid
          /\ Top.saved.credit = [credit EXCEPT ![Top.who] = @ + Top.amount]
      BY <1>1, <1>2 DEF CallInv, CallDebt
    <3> QED
      BY <3>1, <3>2 DEF Revert
  <2> QED
    BY <2>1, <2>2
<1>5. Accurate' => Accurate
  BY <1>1, <1>4 DEF Accurate
<1>6. ASSUME NEW a \in Accounts
      PROVE  (paid[a] + credit[a] + Due(a))' = paid[a] + credit[a] + Due(a)
  <2>1. Due(a)' = 0 /\ Due(a) = IF a = Top.who THEN Top.amount ELSE 0
    BY <1>1 DEF Due
  <2>2. paid[a] \in Nat /\ credit[a] \in Nat
    BY <1>3
  <2>3. CASE a = Top.who
    <3>1. \/ credit'[a] = credit[a] /\ paid'[a] = paid[a] + Top.amount
          \/ paid'[a] = paid[a] /\ credit'[a] = credit[a] + Top.amount
      BY <1>3, <1>4, <2>3
    <3>2. paid'[a] + credit'[a] + 0 = paid[a] + credit[a] + Top.amount
      BY <1>3, <2>2, <3>1
    <3> QED
      BY <2>1, <2>3, <3>2
  <2>4. CASE a # Top.who
    <3>1. credit'[a] = credit[a] /\ paid'[a] = paid[a]
      BY <1>3, <1>4, <2>4
    <3> QED
      BY <2>1, <2>4, <3>1
  <2> QED
    BY <2>3, <2>4
<1> QED
  BY <1>4, <1>5, <1>6, ShareKept

\* Deposits and time.
LEMMA QuietShares ==
    ASSUME IInv, DebtInv, ShareInv, Deposit \/ Tick \/ UNCHANGED vars
    PROVE  ShareInv'
<1>1. UNCHANGED <<frames, locks, credit, paid>> /\ (exact' => exact)
  BY DEF Deposit, Tick, vars, world, IInv, TypeOK
<1>2. Top' = Top
  BY <1>1 DEF Top
<1>3. Accurate' => Accurate
  BY <1>1, <1>2 DEF Accurate
<1>4. \A a \in Accounts : (paid[a] + credit[a] + Due(a))' = paid[a] + credit[a] + Due(a)
  BY <1>1, <1>2 DEF Due
<1> QED
  BY <1>1, <1>3, <1>4, ShareKept

\* Every step keeps the shares.
LEMMA ShareStep == IInv /\ IInv' /\ DebtInv /\ ShareInv /\ [Next]_vars => ShareInv'
<1> SUFFICES ASSUME IInv, IInv', DebtInv, ShareInv, [Next]_vars PROVE ShareInv'
  OBVIOUS
<1>1. ASSUME NEW l \in Locks, Claim(l) PROVE ShareInv'
  <2>1. Payout(l, Terms[l].beneficiary, "claimed") /\ frames = <<>> /\ locks[l] = "open"
    BY <1>1 DEF Claim, NonReentrant
  <2> QED
    BY <2>1, TermsHaveType, PayoutShares
<1>2. ASSUME NEW l \in Locks, Refund(l) PROVE ShareInv'
  <2>1. Payout(l, Terms[l].funder, "refunded") /\ frames = <<>> /\ locks[l] = "open"
    BY <1>2 DEF Refund, NonReentrant
  <2> QED
    BY <2>1, TermsHaveType, PayoutShares
<1>3. CASE CallReturns
  BY <1>3, OpenReturnsShares, PushShares, PullShares DEF CallReturns
<1> QED
  BY <1>1, <1>2, <1>3, OpenShares, WithdrawShares, QuietShares DEF Next

\* Nobody has earned anything when the contract is deployed.
LEMMA ShareInit == Init => ShareInv
<1> SUFFICES ASSUME Init, NEW a \in Accounts
             PROVE  paid[a] + credit[a] + Due(a) = Total(Amount, Earned(a))
  BY DEF ShareInv
<1>1. Earned(a) = {}
  BY DEF Init, Earned
<1>2. Total(Amount, Earned(a)) = 0
  BY <1>1, TotalEmpty
<1>3. paid[a] = 0 /\ credit[a] = 0 /\ Due(a) = 0
  BY DEF Init, Due
<1> QED
  BY <1>2, <1>3

\* Between transactions every account has received or is credited exactly what its
\* claimed and refunded locks earned it, in whatever pieces pushes and withdrawals
\* moved it, as long as the asset could be measured and nobody deposited in the
\* middle of a push.
THEOREM EveryoneGetsTheirShare == Spec => []NobodyShortChanged
<1>1. IInv /\ ShareInv => NobodyShortChanged
  <2> SUFFICES ASSUME IInv, ShareInv, exact, frames = <<>>, NEW a \in Accounts
               PROVE  paid[a] + credit[a] = Total(Amount, Earned(a))
    BY DEF NobodyShortChanged
  <2>1. paid[a] + credit[a] + Due(a) = Total(Amount, Earned(a))
    BY DEF ShareInv, Accurate
  <2>2. Due(a) = 0 /\ paid[a] \in Nat /\ credit[a] \in Nat
    BY NothingDue, ShareTypes
  <2> QED
    BY <2>1, <2>2
<1> QED
  BY <1>1, InitHolds, StepHolds, DebtInit, DebtStep, ShareInit, ShareStep, PTL DEF Spec
=============================================================================
