----------------------------- MODULE RouteProofs -----------------------------
(***************************************************************************)
(* The safety of a route, for any processes and any number of takeovers,   *)
(* crashes and reorganizations.                                            *)
(***************************************************************************)
EXTENDS RouteDriver, TLAPS

-----------------------------------------------------------------------------
(* Types *)

\* An action is a leg and a kind.
LEMMA ActionsAreTuples ==
    /\ \A l \in Legs, k \in Kinds : <<l, k>> \in Actions
    /\ \A a \in Actions : a[1] \in Legs /\ a[2] \in Kinds /\ a = <<a[1], a[2]>>
    /\ \A k \in Kinds : Up(k) \in Actions /\ Down(k) \in Actions
  BY DEF Actions, Legs, Up, Down

\* The kinds, listed.
LEMMA KindsAreKinds == {"funding", "claim", "refund"} = Kinds
  BY DEF Kinds

\* What every event of the reducer and every write of the store keeps.
LEMMA EventTypes ==
    ASSUME TypeOK, NEW a \in Actions, NEW l \in Legs, NEW h \in Healths,
           NEW e \in 0..MaxEpoch, NEW x \in BOOLEAN,
           \/ FreezeTerms \/ ArmRefunds \/ CommitAction(a, e) \/ Reauthorize(a, e)
           \/ CustodyProgressRecorded(a, e, x) \/ ActionExternalized(a, e)
           \/ ActionFinalized(a) \/ ObservationInvalidated(a) \/ SecretObserved
           \/ SetHealth(h) \/ AbortUnfunded \/ DomCompensated(l)
           \/ UNCHANGED route
    PROVE  /\ frozen' \in BOOLEAN /\ armed' \in BOOLEAN
           /\ prog' \in [Actions -> Progress]
           /\ fence' \in [Actions -> 0..MaxEpoch]
           /\ compensated' \in [Legs -> BOOLEAN]
           /\ public' \in BOOLEAN /\ health' \in Healths /\ aborted' \in BOOLEAN
<1> USE DEF TypeOK, Progress, Healths
<1>1. CASE FreezeTerms \/ ArmRefunds \/ SecretObserved \/ AbortUnfunded \/ UNCHANGED route
  BY Zenon, <1>1 DEF FreezeTerms, ArmRefunds, SecretObserved, AbortUnfunded, route
<1>2. CASE CommitAction(a, e) \/ Reauthorize(a, e)
  BY <1>2 DEF CommitAction, Reauthorize
<1>3. CASE CustodyProgressRecorded(a, e, x)
  BY <1>3 DEF CustodyProgressRecorded
<1>4. CASE ActionExternalized(a, e)
  <2>1. 0 \in 0..MaxEpoch
    BY MaxEpochAssumption
  <2> QED
    BY <1>4, <2>1 DEF ActionExternalized
<1>5. CASE ActionFinalized(a) \/ ObservationInvalidated(a)
  BY <1>5 DEF ActionFinalized, ObservationInvalidated
<1>6. CASE SetHealth(h) \/ DomCompensated(l)
  BY Zenon, <1>6 DEF SetHealth, DomCompensated
<1> QED
  BY <1>1, <1>2, <1>3, <1>4, <1>5, <1>6

\* Writing an outbox row keeps the types.
LEMMA OutboxTypes ==
    ASSUME TypeOK, NEW a \in Actions, NEW s \in Rows, WriteRow(a, s)
    PROVE  /\ row' \in [Actions -> Rows]
           /\ holder' \in [Actions -> Owners \cup {Nobody}]
           /\ live' \in [Actions -> BOOLEAN]
  BY DEF TypeOK, WriteRow

\* Idle is a job.
LEMMA IdleIsAJob == Idle \in [step : Steps, act : Actions]
  BY ActionsAreTuples, KindsAreKinds DEF Idle, Steps

\* Ending a drive keeps the types.
LEMMA FinishTypes ==
    ASSUME TypeOK, NEW o \in Owners, Finish(o)
    PROVE  /\ held' \in [Owners -> 0..MaxEpoch]
           /\ job' \in [Owners -> [step : Steps, act : Actions]]
           /\ sent' \in [Actions -> Amounts]
           /\ reorgs' \in 0..MaxReorgs /\ crashes' \in 0..MaxCrashes
  BY IdleIsAJob DEF TypeOK, Finish

\* So do lapsing leases and dispatches and timers falling due,
LEMMA TimePassesTypes == TypeOK /\ TimePasses => TypeOK'
<1> SUFFICES ASSUME TypeOK, TimePasses PROVE TypeOK'
  OBVIOUS
<1> USE DEF TypeOK, route, lease, outbox, clock, driver, Timers
<1>1. CASE LeaseLapses /\ UNCHANGED driver
  BY ZenonT(60), <1>1 DEF LeaseLapses
<1>2. ASSUME NEW a \in Actions, DispatchLapses(a), UNCHANGED driver PROVE TypeOK'
  BY <1>2 DEF DispatchLapses
<1>3. CASE TimerLapses /\ UNCHANGED driver
  BY ZenonT(90), <1>3 DEF TimerLapses
<1>4. CASE TimerFallsDue /\ UNCHANGED driver
  BY <1>4 DEF TimerFallsDue
<1> QED
  BY <1>1, <1>2, <1>3, <1>4 DEF TimePasses

\* acquiring, losing and being fenced off a lease,
LEMMA LeaseTypes ==
    ASSUME TypeOK, NEW o \in Owners, Acquire(o) \/ Crash(o) \/ Fenced(o)
    PROVE  TypeOK'
<1> USE DEF TypeOK, route, lease, outbox, clock
<1>1. CASE Acquire(o)
  <2>1. leaseEpoch' \in 0..MaxEpoch
    BY <1>1, MaxEpochAssumption DEF Acquire, TakeLease
  <2> QED
    BY ZenonT(60), <1>1, <2>1 DEF Acquire, TakeLease
<1>2. ASSUME StartOver(o), crashes' \in 0..MaxCrashes PROVE TypeOK'
  <2>1. 0 \in 0..MaxEpoch
    BY MaxEpochAssumption
  <2> QED
    BY <1>2, <2>1, IdleIsAJob DEF StartOver
<1>3. CASE Crash(o)
  <2>1. crashes' \in 0..MaxCrashes
    BY <1>3, DriverAssumption DEF Crash
  <2> QED
    BY <1>2, <1>3, <2>1 DEF Crash
<1>4. CASE Fenced(o)
  BY <1>2, <1>4 DEF Fenced
<1> QED
  BY <1>1, <1>3, <1>4

\* and the call to the custody port.
LEMMA SendTypes ==
    ASSUME TypeOK, NEW o \in Owners, Send(o) \/ SendRefused(o) \/ CheckCapability(o)
    PROVE  TypeOK'
<1>1. CASE Send(o)
  <2>1. PICK amount \in MaySend(job[o].act) :
            /\ sent' = [sent EXCEPT ![job[o].act] = amount]
            /\ \E answer \in Answers(job[o].act, amount) :
                 job' = [job EXCEPT ![o] = IF answer = "idle" THEN Idle
                                           ELSE Job(answer, job[o].act)]
    BY Zenon, <1>1 DEF Send
  <2>2. PICK answer \in Answers(job[o].act, amount) :
            job' = [job EXCEPT ![o] = IF answer = "idle" THEN Idle
                                      ELSE Job(answer, job[o].act)]
    BY Zenon, <2>1
  <2>3. job[o].act \in Actions
    BY DEF TypeOK
  <2>4. amount \in Amounts
    BY <2>1, <2>3 DEF TypeOK, MaySend, Amounts
  <2>5. answer \in {"idle", "partial", "full"}
    BY <2>2 DEF Answers
  <2>6. Job(answer, job[o].act) \in [step : Steps, act : Actions]
    BY <2>3, <2>5 DEF Job, Steps
  <2> QED
    BY <1>1, <2>1, <2>2, <2>4, <2>6, IdleIsAJob
    DEF TypeOK, Send, route, lease, outbox, clock
<1>2. CASE SendRefused(o)
  BY <1>2, FinishTypes DEF TypeOK, SendRefused, route, lease, outbox, clock
<1>3. CASE CheckCapability(o)
  <2>1. job' \in [Owners -> [step : Steps, act : Actions]]
    BY <1>3 DEF CheckCapability, TypeOK, Steps
  <2> QED
    BY <1>3, <2>1 DEF TypeOK, CheckCapability, route, lease, outbox, clock
<1> QED
  BY <1>1, <1>2, <1>3

\* The part of TypeOK that is the store's.
StoreTypes ==
    /\ frozen \in BOOLEAN /\ armed \in BOOLEAN
    /\ prog \in [Actions -> Progress]
    /\ fence \in [Actions -> 0..MaxEpoch]
    /\ compensated \in [Legs -> BOOLEAN]
    /\ public \in BOOLEAN /\ health \in Healths /\ aborted \in BOOLEAN
    /\ leaseOwner \in Owners \cup {Nobody}
    /\ leaseEpoch \in 0..MaxEpoch /\ leaseLive \in BOOLEAN
    /\ row \in [Actions -> Rows]
    /\ holder \in [Actions -> Owners \cup {Nobody}]
    /\ live \in [Actions -> BOOLEAN]
    /\ timer \in Timers /\ timerHolder \in Owners \cup {Nobody}
    /\ timerLive \in BOOLEAN /\ fired \in BOOLEAN

DriverTypes ==
    /\ held \in [Owners -> 0..MaxEpoch]
    /\ job \in [Owners -> [step : Steps, act : Actions]]
    /\ sent \in [Actions -> Amounts]
    /\ reorgs \in 0..MaxReorgs /\ crashes \in 0..MaxCrashes

\* The events the store applies without touching the outbox keep the types,
LEMMA EventStoreTypes ==
    ASSUME TypeOK, NEW a \in Actions, NEW h \in Healths,
           UNCHANGED <<lease, outbox, clock>>,
           \/ FreezeTerms \/ ArmRefunds \/ ActionFinalized(a)
           \/ ObservationInvalidated(a) \/ SecretObserved
           \/ SetHealth(h) \/ AbortUnfunded
    PROVE  StoreTypes'
<1>1. PICK l \in Legs : TRUE
  BY DEF Legs
<1>2. 0 \in 0..MaxEpoch
  BY MaxEpochAssumption
<1>3. /\ frozen' \in BOOLEAN /\ armed' \in BOOLEAN
      /\ prog' \in [Actions -> Progress]
      /\ fence' \in [Actions -> 0..MaxEpoch]
      /\ compensated' \in [Legs -> BOOLEAN]
      /\ public' \in BOOLEAN /\ health' \in Healths /\ aborted' \in BOOLEAN
  BY Zenon, <1>1, <1>2, EventTypes
<1> QED
  BY <1>3 DEF TypeOK, StoreTypes, lease, outbox, clock

\* and so do those that write an outbox row,
LEMMA ApplyTypes ==
    ASSUME TypeOK, NEW o \in Owners, NEW a \in Actions, NEW e \in 0..MaxEpoch,
           NEW x \in BOOLEAN,
           \/ ApplyCommit(a) \/ ApplyReauthorize(a) \/ ApplyExternalized(a, e)
           \/ ApplyProgress(o, a, e, x)
    PROVE  StoreTypes'
<1>1. PICK l \in Legs : TRUE
  BY DEF Legs
<1>2. PICK h \in Healths : TRUE
  BY DEF Healths
<1>3. leaseEpoch \in 0..MaxEpoch
  BY DEF TypeOK
<1>4. /\ frozen' \in BOOLEAN /\ armed' \in BOOLEAN
      /\ prog' \in [Actions -> Progress]
      /\ fence' \in [Actions -> 0..MaxEpoch]
      /\ compensated' \in [Legs -> BOOLEAN]
      /\ public' \in BOOLEAN /\ health' \in Healths /\ aborted' \in BOOLEAN
  <2>1. CASE ApplyCommit(a)
    <3>1. CommitAction(a, leaseEpoch)
      BY <2>1 DEF ApplyCommit
    <3> QED
      BY <3>1, <1>1, <1>2, <1>3, EventTypes
  <2>2. CASE ApplyReauthorize(a)
    <3>1. Reauthorize(a, leaseEpoch)
      BY <2>2 DEF ApplyReauthorize
    <3> QED
      BY <3>1, <1>1, <1>2, <1>3, EventTypes
  <2>3. CASE ApplyExternalized(a, e)
    <3>1. ActionExternalized(a, e)
      BY <2>3 DEF ApplyExternalized
    <3> QED
      BY <3>1, <1>1, <1>2, EventTypes
  <2>4. CASE ApplyProgress(o, a, e, x)
    <3>1. CustodyProgressRecorded(a, e, x)
      BY <2>4 DEF ApplyProgress
    <3> QED
      BY <3>1, <1>1, <1>2, EventTypes
  <2> QED
    BY <2>1, <2>2, <2>3, <2>4
<1>5. /\ row' \in [Actions -> Rows]
      /\ holder' \in [Actions -> Owners \cup {Nobody}]
      /\ live' \in [Actions -> BOOLEAN]
  <2>1. WriteRow(a, "pending") \/ WriteRow(a, "completed")
    BY DEF ApplyCommit, ApplyReauthorize, ApplyExternalized, ApplyProgress
  <2>2. "pending" \in Rows /\ "completed" \in Rows
    BY DEF Rows
  <2> QED
    BY <2>1, <2>2, OutboxTypes
<1>6. UNCHANGED <<lease, clock>>
  BY DEF ApplyCommit, ApplyReauthorize, ApplyExternalized, ApplyProgress
<1> QED
  BY <1>4, <1>5, <1>6 DEF TypeOK, StoreTypes, lease, clock

\* the compensation, which supersedes the rows of a leg,
LEMMA CompensatedTypes ==
    ASSUME TypeOK, NEW l \in Legs, ApplyCompensated(l)
    PROVE  StoreTypes'
<1>1. PICK h \in Healths : TRUE
  BY DEF Healths
<1>2. 0 \in 0..MaxEpoch
  BY MaxEpochAssumption
<1>3. PICK a \in Actions : TRUE
  BY ActionsAreTuples, KindsAreKinds
<1>4. DomCompensated(l)
  BY DEF ApplyCompensated
<1>5. /\ frozen' \in BOOLEAN /\ armed' \in BOOLEAN
      /\ prog' \in [Actions -> Progress]
      /\ fence' \in [Actions -> 0..MaxEpoch]
      /\ compensated' \in [Legs -> BOOLEAN]
      /\ public' \in BOOLEAN /\ health' \in Healths /\ aborted' \in BOOLEAN
  BY Zenon, <1>1, <1>2, <1>3, <1>4, EventTypes
<1>6. /\ row' \in [Actions -> Rows]
      /\ holder' \in [Actions -> Owners \cup {Nobody}]
      /\ live' \in [Actions -> BOOLEAN]
  BY DEF ApplyCompensated, TypeOK, Rows
<1> QED
  BY <1>5, <1>6 DEF ApplyCompensated, TypeOK, StoreTypes, lease, clock

\* and the timer operations.
LEMMA ClockTypes ==
    ASSUME TypeOK, NEW o \in Owners,
           \/ ApplySchedule \/ ApplyCancel \/ ApplyTimerEvent
           \/ ClaimTimer(o) \/ CompleteTimer(o)
    PROVE  StoreTypes'
<1> USE DEF TypeOK, StoreTypes, route, lease, outbox, Timers
<1>1. CASE ApplySchedule \/ ApplyCancel \/ ClaimTimer(o)
  BY ZenonT(60), <1>1 DEF ApplySchedule, ApplyCancel, ClaimTimer
<1>3. CASE CompleteTimer(o)
  <2>1. /\ timer' \in Timers /\ timerHolder' \in Owners \cup {Nobody}
        /\ timerLive' \in BOOLEAN
    BY Zenon, <1>3 DEF CompleteTimer
  <2> QED
    BY <1>3, <2>1 DEF CompleteTimer
<1>2. CASE ApplyTimerEvent
  <2>1. "recovery_only" \in Healths
    BY DEF Healths
  <2> QED
    BY <1>2, <2>1 DEF ApplyTimerEvent, SetHealth
<1> QED
  BY <1>1, <1>2, <1>3

-----------------------------------------------------------------------------
(***************************************************************************)
(* The steps that the owner of the lease takes, reduced to what they write *)
(* in the store and what the process does next.                            *)
(***************************************************************************)
OwnerStep(o) ==
    Drive(o) \/ OperatorCall(o) \/ RecordCompensation(o) \/ ObserveReorg(o) \/ ObserveSecret(o)

EventOnly ==
    /\ UNCHANGED <<lease, outbox, clock>>
    /\ \/ FreezeTerms \/ ArmRefunds \/ SecretObserved \/ AbortUnfunded
       \/ \E a \in Actions : ActionFinalized(a) \/ ObservationInvalidated(a)
       \/ \E h \in Healths : SetHealth(h)

ClockOnly(o) ==
    ApplySchedule \/ ApplyCancel \/ ApplyTimerEvent \/ ClaimTimer(o) \/ CompleteTimer(o)

StoreOp(o) ==
    \/ EventOnly
    \/ ClockOnly(o)
    \/ \E a \in Actions : Target = a /\ ApplyCommit(a)
    \/ \E a \in Actions : ApplyReauthorize(a)
    \/ \E a \in Actions, e \in 0..MaxEpoch : sent[a] = "full" /\ ApplyExternalized(a, e)
    \/ \E a \in Actions, e \in 0..MaxEpoch, x \in BOOLEAN : ApplyProgress(o, a, e, x)
    \/ \E l \in Legs : ApplyCompensated(l)
    \/ \E a \in Actions : ClaimEffect(o, a)

DriverOp(o) ==
    /\ UNCHANGED <<held, sent, crashes>>
    /\ reorgs' \in 0..MaxReorgs
    /\ \E j \in [step : Steps, act : Actions] :
         /\ job' = [job EXCEPT ![o] = j]
         /\ j.step \in {"send", "checked", "partial", "full"} =>
               j.step = "send" /\ ClaimEffect(o, j.act)

\* A receipt for the whole action is in hand only when all of it was sent.
FullIsSent ==
    \A o \in Owners : job[o].step = "full" => sent[job[o].act] = "full"

\* A step that leaves an idle driver alone has the normal form of a driver step.
LEMMA NoJobChange ==
    ASSUME TypeOK, NEW o \in Owners, job[o] = Idle, UNCHANGED driver
    PROVE  DriverOp(o)
<1>1. job' = [job EXCEPT ![o] = Idle]
  BY DEF driver, TypeOK
<1>2. Idle.step = "idle"
  BY DEF Idle
<1> QED
  BY <1>1, <1>2, IdleIsAJob DEF DriverOp, driver, TypeOK

\* So has the end of a drive.
LEMMA FinishIsDriverOp ==
    ASSUME TypeOK, NEW o \in Owners, Finish(o)
    PROVE  DriverOp(o)
<1>1. Idle.step = "idle"
  BY DEF Idle
<1> QED
  BY Zenon, <1>1, IdleIsAJob DEF DriverOp, Finish, TypeOK

\* The process goes on to a step that is not about a receipt.
LEMMA NextJobIsDriverOp ==
    ASSUME TypeOK, NEW o \in Owners, NEW a \in Actions,
           NEW s \in {"resume", "timer", "ack"},
           job' = [job EXCEPT ![o] = Job(s, a)],
           UNCHANGED <<held, sent, reorgs, crashes>>
    PROVE  DriverOp(o)
<1>1. Job(s, a) \in [step : Steps, act : Actions] /\ Job(s, a).step = s
  BY DEF Job, Steps
<1> QED
  BY ZenonT(60), <1>1 DEF DriverOp, TypeOK

\* One drive is one operation of the store under the lease and one of the driver.
LEMMA DriveForms ==
    ASSUME TypeOK, FullIsSent, NEW o \in Owners, Drive(o)
    PROVE  Holds(o) /\ StoreOp(o) /\ DriverOp(o)
<1>1. ASSUME NEW a \in Stale, Reconcile(o, a)
      PROVE  Holds(o) /\ StoreOp(o) /\ DriverOp(o)
  <2>1. a \in Actions /\ fence[a] \in 0..MaxEpoch
    BY <1>1 DEF Stale, TypeOK
  <2>2. Holds(o) /\ job[o] = Idle
    BY <1>1 DEF Reconcile, Free
  <2>3. CASE /\ sent[a] = "full" /\ ApplyExternalized(a, fence[a]) /\ UNCHANGED driver
    BY <2>1, <2>2, <2>3, NoJobChange DEF StoreOp
  <2>4. CASE ApplyReauthorize(a) /\ UNCHANGED driver
    BY <2>1, <2>2, <2>4, NoJobChange DEF StoreOp
  <2>5. CASE /\ ApplyProgress(o, a, fence[a], TRUE)
             /\ job' = [job EXCEPT ![o] = Job("resume", a)]
             /\ UNCHANGED <<held, sent, reorgs, crashes>>
    <3>1. DriverOp(o)
      BY Zenon, <2>1, <2>5, NextJobIsDriverOp
    <3> QED
      BY Zenon, <2>1, <2>2, <2>5, <3>1 DEF StoreOp
  <2> QED
    BY Zenon, <1>1, <2>3, <2>4, <2>5 DEF Reconcile
<1>2. CASE ResumeCustody(o)
  <2>1. job[o].act \in Actions
    BY DEF TypeOK
  <2> QED
    BY <1>2, <2>1, FinishIsDriverOp DEF ResumeCustody, StoreOp
<1>3. CASE DriveOnce(o)
  <2>1. Holds(o) /\ job[o] = Idle
    BY <1>3 DEF DriveOnce, Free
  <2>2. CASE AdmitRoute \/ ArmBothRefunds
    <3>1. EventOnly /\ UNCHANGED driver
      BY <2>2 DEF AdmitRoute, ArmBothRefunds, EventOnly
    <3> QED
      BY <2>1, <3>1, NoJobChange DEF StoreOp
  <2>3. CASE Target \in Actions /\ DriveAction(o, Target)
    <3>1. PICK a \in Actions : a = Target
      BY <2>3
    <3>2. CASE TakeTimer(o)
      <4>1. DriverOp(o)
        BY Zenon, <3>2, NextJobIsDriverOp, ActionsAreTuples, KindsAreKinds DEF TakeTimer
      <4> QED
        BY <2>1, <3>2, <4>1 DEF TakeTimer, StoreOp, ClockOnly
    <3>3. CASE Authorize(a)
      <4>1. Target = a /\ ApplyCommit(a) /\ UNCHANGED driver
        BY <3>1, <3>3 DEF Authorize
      <4> QED
        BY <2>1, <4>1, NoJobChange DEF StoreOp
    <3>4. CASE Dispatch(o)
      <4>1. PICK b \in Actions : /\ ClaimEffect(o, b)
                                 /\ job' = [job EXCEPT ![o] = Job("send", b)]
                                 /\ UNCHANGED <<held, sent, reorgs, crashes>>
        BY Zenon, <3>4 DEF Dispatch
      <4>2. /\ Job("send", b) \in [step : Steps, act : Actions]
            /\ Job("send", b).step = "send" /\ Job("send", b).act = b
        BY DEF Job, Steps
      <4>3. DriverOp(o)
        BY Zenon, <4>1, <4>2 DEF DriverOp, TypeOK
      <4> QED
        BY <2>1, <4>1, <4>3 DEF StoreOp
    <3>5. CASE ObserveFinality(a)
      <4>1. EventOnly /\ UNCHANGED driver
        BY <3>5 DEF ObserveFinality, EventOnly
      <4> QED
        BY <2>1, <4>1, NoJobChange DEF StoreOp
    <3> QED
      BY <2>3, <3>1, <3>2, <3>3, <3>4, <3>5 DEF DriveAction
  <2> QED
    BY <1>3, <2>2, <2>3 DEF DriveOnce
<1>4. CASE RecordExternalization(o)
  <2>1. job[o].act \in Actions /\ held[o] \in 0..MaxEpoch
    BY DEF TypeOK
  <2>2. sent[job[o].act] = "full"
    BY <1>4 DEF RecordExternalization, FullIsSent
  <2> QED
    BY Zenon, <1>4, <2>1, <2>2, FinishIsDriverOp DEF RecordExternalization, StoreOp
<1>5. CASE RecordProgress(o)
  <2>1. /\ job[o].act \in Actions /\ held[o] \in 0..MaxEpoch
        /\ (job[o].act = Down("claim")) \in BOOLEAN
    BY DEF TypeOK
  <2> QED
    BY Zenon, <1>5, <2>1, FinishIsDriverOp DEF RecordProgress, StoreOp
<1>6. CASE CommitTimerEvent(o)
  <2>1. DriverOp(o)
    BY Zenon, <1>6, NextJobIsDriverOp, ActionsAreTuples, KindsAreKinds DEF CommitTimerEvent
  <2> QED
    BY <1>6, <2>1 DEF CommitTimerEvent, StoreOp, ClockOnly
<1>7. CASE AcknowledgeTimer(o)
  BY <1>7, FinishIsDriverOp DEF AcknowledgeTimer, StoreOp, ClockOnly
<1> QED
  BY <1>1, <1>2, <1>3, <1>4, <1>5, <1>6, <1>7 DEF Drive

\* So is every other step of an owner that holds the lease.
LEMMA OwnerForms ==
    ASSUME TypeOK, FullIsSent, NEW o \in Owners, OwnerStep(o)
    PROVE  Holds(o) /\ StoreOp(o) /\ DriverOp(o)
<1>1. CASE Drive(o)
  BY <1>1, DriveForms
<1>2. CASE OperatorCall(o)
  <2>1. Holds(o) /\ DriverOp(o)
    BY <1>2, NoJobChange DEF OperatorCall, Free
  <2>2. CASE \E h \in HealthTargets : SetHealth(h) /\ UNCHANGED <<lease, outbox, clock>>
    <3>1. EventOnly
      BY <2>2, DriverAssumption DEF EventOnly
    <3> QED
      BY <2>1, <3>1 DEF StoreOp
  <2>3. CASE AbortUnfunded /\ UNCHANGED <<lease, outbox, clock>>
    BY <2>1, <2>3 DEF StoreOp, EventOnly
  <2>4. CASE ApplySchedule \/ ApplyCancel
    BY <2>1, <2>4 DEF StoreOp, ClockOnly
  <2> QED
    BY <1>2, <2>2, <2>3, <2>4 DEF OperatorCall
<1>3. CASE RecordCompensation(o)
  BY <1>3, NoJobChange, DriverAssumption DEF RecordCompensation, Free, StoreOp
<1>4. CASE ObserveReorg(o)
  <2>1. /\ Holds(o) /\ job[o] = Idle /\ reorgs' \in 0..MaxReorgs
        /\ UNCHANGED <<held, job, sent, crashes>>
    BY <1>4, DriverAssumption DEF ObserveReorg, Free, TypeOK
  <2>2. job' = [job EXCEPT ![o] = Idle] /\ Idle.step = "idle"
    BY <2>1 DEF TypeOK, Idle
  <2>3. DriverOp(o)
    BY Zenon, <2>1, <2>2, IdleIsAJob DEF DriverOp
  <2>4. EventOnly
    BY <1>4 DEF ObserveReorg, EventOnly
  <2> QED
    BY <2>1, <2>3, <2>4 DEF StoreOp
<1>5. CASE ObserveSecret(o)
  <2>1. EventOnly
    BY <1>5 DEF ObserveSecret, EventOnly
  <2> QED
    BY <1>5, <2>1, NoJobChange DEF ObserveSecret, Free, StoreOp
<1> QED
  BY <1>1, <1>2, <1>3, <1>4, <1>5 DEF OwnerStep

-----------------------------------------------------------------------------
(* The inductive invariant *)

\* The two exits that must not meet are not even asked for together.
NoSplit == Untouched(Down("claim")) \/ Untouched(Up("refund"))

SentInv ==
    /\ \A a \in Actions : sent[a] # "no" => ~Untouched(a)
    /\ \A a \in Actions : LeftUs(a) => sent[a] = "full"

\* Who has the stores open holds the current epoch, and nobody else has.
LockInv ==
    \A o \in Owners : held[o] # 0 =>
        /\ leaseOwner = o /\ leaseEpoch = held[o]
        /\ \A p \in Owners : p # o => held[p] = 0

\* What the lock keeps true for the call its owner is in, lease or no lease.
JobOK(o) ==
    /\ held[o] = 0 => job[o] = Idle
    /\ job[o].step \in {"send", "checked", "partial", "full"} =>
          /\ prog[job[o].act] = "committed" /\ fence[job[o].act] = held[o]
          /\ row[job[o].act] = "pending" /\ holder[job[o].act] = o
    /\ job[o].step \in {"send", "checked"} => Dispatchable(job[o].act)

JobInv == \A o \in Owners : JobOK(o)

IInv ==
    /\ TypeOK /\ Valid /\ NoSplit /\ OutboxMatchesSnapshot
    /\ SentInv /\ LockInv /\ FullIsSent /\ JobInv

\* The normal forms keep the types.
LEMMA OwnerTypes ==
    ASSUME TypeOK, NEW o \in Owners, StoreOp(o), DriverOp(o)
    PROVE  TypeOK'
<1>1. StoreTypes'
  <2>1. CASE EventOnly
    <3>1. PICK a0 \in Actions : TRUE
      BY ActionsAreTuples, KindsAreKinds
    <3>2. PICK h0 \in Healths : TRUE
      BY DEF Healths
    <3>3. CASE FreezeTerms \/ ArmRefunds \/ SecretObserved \/ AbortUnfunded
      BY <2>1, <3>1, <3>2, <3>3, EventStoreTypes DEF EventOnly
    <3>4. CASE \E a \in Actions : ActionFinalized(a) \/ ObservationInvalidated(a)
      BY <2>1, <3>2, <3>4, EventStoreTypes DEF EventOnly
    <3>5. CASE \E h \in Healths : SetHealth(h)
      BY <2>1, <3>1, <3>5, EventStoreTypes DEF EventOnly
    <3> QED
      BY <2>1, <3>3, <3>4, <3>5 DEF EventOnly
  <2>2. CASE ClockOnly(o)
    BY <2>2, ClockTypes DEF ClockOnly
  <2>3. PICK e0 \in 0..MaxEpoch : TRUE
    BY DEF TypeOK
  <2>4. CASE \E a \in Actions : ApplyCommit(a) \/ ApplyReauthorize(a)
    BY Zenon, <2>3, <2>4, ApplyTypes
  <2>5. CASE \E a \in Actions, e \in 0..MaxEpoch : ApplyExternalized(a, e)
    BY Zenon, <2>5, ApplyTypes
  <2>6. CASE \E a \in Actions, e \in 0..MaxEpoch, x \in BOOLEAN : ApplyProgress(o, a, e, x)
    BY <2>6, ApplyTypes
  <2>7. CASE \E l \in Legs : ApplyCompensated(l)
    BY <2>7, CompensatedTypes
  <2>8. CASE \E a \in Actions : ClaimEffect(o, a)
    BY <2>8 DEF ClaimEffect, TypeOK, StoreTypes, route, lease, clock
  <2> QED
    BY <2>1, <2>2, <2>4, <2>5, <2>6, <2>7, <2>8 DEF StoreOp
<1>2. DriverTypes'
  BY DEF DriverOp, TypeOK, DriverTypes
<1> QED
  BY <1>1, <1>2 DEF TypeOK, StoreTypes, DriverTypes

\* What is read off the route alone does not change while it does not.
LEMMA SameRoute ==
    ASSUME UNCHANGED route
    PROVE  /\ Valid => Valid'
           /\ \A a : Dispatchable(a)' <=> Dispatchable(a)
<1> USE DEF route, Untouched, LeftUs, WasFinal, IsFinal, Exits, IsTerminal, HasOpenFunds,
            OpenFunds, RestrictsToRecovery
<1>1. Valid => Valid'
  BY DEF Valid, ValidLeg
<1>2. \A a : Dispatchable(a)' <=> Dispatchable(a)
  BY DEF Dispatchable
<1> QED
  BY <1>1, <1>2

\* What the events do to the progress of an action: it never starts over, and
\* only an externalization makes it leave.
LEMMA EventForms ==
    ASSUME TypeOK, NEW o \in Owners, StoreOp(o)
    PROVE  /\ Valid => Valid'
           /\ \A a \in Actions : Untouched(a)' => Untouched(a)
           /\ \A a \in Actions : LeftUs(a)' => LeftUs(a) \/ sent[a] = "full"
           /\ \A a \in Actions : ~Untouched(a)' =>
                ~Untouched(a) \/ (Target = a /\ CommitAction(a, leaseEpoch))
<1> USE DEF Untouched, LeftUs
<1>1. CASE UNCHANGED route
  BY <1>1, SameRoute DEF route
<1>2. CASE EventOnly
  BY <1>2 DEF EventOnly, FreezeTerms, ArmRefunds, SecretObserved, AbortUnfunded, ActionFinalized,
              ObservationInvalidated, SetHealth, Reduced, TypeOK, IsFinal
<1>3. CASE ClockOnly(o)
  <2>1. UNCHANGED route \/ (prog' = prog /\ Valid')
    BY <1>3 DEF ClockOnly, ApplySchedule, ApplyCancel, ApplyTimerEvent, ClaimTimer,
                CompleteTimer, SetHealth, Reduced
  <2> QED
    BY <1>1, <2>1
<1>4. ASSUME NEW a \in Actions, Target = a, ApplyCommit(a)
      PROVE  /\ Valid'
             /\ \A b \in Actions : b # a => prog'[b] = prog[b]
             /\ prog'[a] = "committed"
             /\ CommitAction(a, leaseEpoch)
  BY <1>4 DEF ApplyCommit, CommitAction, Reduced, TypeOK
<1>5. CASE \E a \in Actions : Target = a /\ ApplyCommit(a)
  BY ZenonT(60), <1>4, <1>5
<1>6. CASE \E a \in Actions : ApplyReauthorize(a)
  BY ZenonT(60), <1>6 DEF ApplyReauthorize, Reauthorize, Reduced
<1>7. CASE \E a \in Actions, e \in 0..MaxEpoch : sent[a] = "full" /\ ApplyExternalized(a, e)
  BY <1>7 DEF ApplyExternalized, ActionExternalized, Reduced, TypeOK
<1>8. CASE \E a \in Actions, e \in 0..MaxEpoch, x \in BOOLEAN : ApplyProgress(o, a, e, x)
  BY ZenonT(60), <1>8 DEF ApplyProgress, CustodyProgressRecorded, Reduced
<1>9. CASE \E l \in Legs : ApplyCompensated(l)
  BY ZenonT(60), <1>9 DEF ApplyCompensated, DomCompensated, Reduced
<1>10. CASE \E a \in Actions : ClaimEffect(o, a)
  BY <1>1, <1>10 DEF ClaimEffect
<1> QED
  BY ZenonT(60), <1>2, <1>3, <1>5, <1>6, <1>7, <1>8, <1>9, <1>10 DEF StoreOp

\* The refund upstream is never picked once the downstream claim is under way.
LEMMA SplitIsNotPicked ==
    ASSUME TypeOK, Valid, ~Untouched(Down("claim")), Untouched(Up("refund")),
           Untouched(Up("claim")), Target = Up("refund")
    PROVE  FALSE
<1>1. /\ Up("refund") # Stop /\ Up("refund") # Down("claim") /\ Up("refund") # Up("claim")
      /\ Up("refund") # Up("funding") /\ Up("refund") # Down("funding")
      /\ Up("refund") # Admit /\ Up("refund") # Arm
  BY DEF Up, Down, Stop, Admit, Arm
<1>2. prog[Down("claim")] \in Progress
  BY ActionsAreTuples, KindsAreKinds DEF TypeOK
<1>3. RecoveryTarget = Up("refund") => prog[Down("claim")] = "final"
  BY Zenon, <1>1, <1>2 DEF RecoveryTarget, Untouched, Progress
<1>4. ~IsFinal(Up("claim"))
  BY DEF Untouched, IsFinal
<1>5. CASE public
  <2>1. PublicTarget = Up("refund")
    BY <1>1, <1>5 DEF Target
  <2> QED
    BY <2>1, <1>1, <1>4 DEF PublicTarget
<1>6. CASE ~public
  <2>1. PrivateTarget = Up("refund")
    BY <1>1, <1>6 DEF Target
  <2>2. RecoveryTarget = Up("refund")
    BY <2>1, <1>1 DEF PrivateTarget
  <2>3. LeftUs(Down("claim"))
    BY <1>3, <2>2 DEF LeftUs
  <2>4. \E l \in Legs : LeftUs(<<l, "claim">>)
    BY <2>3 DEF Legs, Down
  <2> QED
    BY <1>6, <2>4 DEF Valid
<1> QED
  BY <1>5, <1>6

\* No operation of the store splits the outcome.
LEMMA OwnerNoSplit ==
    ASSUME TypeOK, Valid, NoSplit, NEW o \in Owners, StoreOp(o)
    PROVE  NoSplit'
<1>1. Down("claim") \in Actions /\ Up("refund") \in Actions /\ Up("claim") \in Actions
  BY ActionsAreTuples, KindsAreKinds
<1>2. CASE Untouched(Down("claim"))' \/ Untouched(Up("refund"))'
  BY <1>2 DEF NoSplit
<1>3. CASE ~Untouched(Down("claim"))' /\ ~Untouched(Up("refund"))'
  <2>1. CASE Untouched(Down("claim")) /\ Untouched(Up("refund"))
    <3>1. Target = Down("claim") /\ Target = Up("refund")
      BY <1>1, <1>3, <2>1, EventForms
    <3> QED
      BY <3>1 DEF Up, Down
  <2>2. CASE Untouched(Down("claim")) /\ ~Untouched(Up("refund"))
    <3>1. CommitAction(Down("claim"), leaseEpoch)
      BY <1>1, <1>3, <2>2, EventForms
    <3>2. ClaimPrecondition("downstream")
      BY <3>1 DEF CommitAction, Precondition, Down
    <3> QED
      BY <2>2, <3>2 DEF ClaimPrecondition, Exits, Up
  <2>3. CASE ~Untouched(Down("claim")) /\ Untouched(Up("refund"))
    <3>1. CommitAction(Up("refund"), leaseEpoch) /\ Target = Up("refund")
      BY <1>1, <1>3, <2>3, EventForms
    <3>2. RefundPrecondition("upstream")
      BY <3>1 DEF CommitAction, Precondition, Up
    <3>3. Untouched(Up("claim"))
      BY <3>2 DEF RefundPrecondition, Up
    <3> QED
      BY <2>3, <3>1, <3>3, SplitIsNotPicked
  <2> QED
    BY <2>1, <2>2, <2>3 DEF NoSplit
<1> QED
  BY <1>2, <1>3

\* Every operation of the store writes snapshot and outbox together.
LEMMA OwnerOutbox ==
    ASSUME TypeOK, OutboxMatchesSnapshot, NEW o \in Owners, StoreOp(o)
    PROVE  OutboxMatchesSnapshot'
<1> USE DEF OutboxMatchesSnapshot, TypeOK
<1>1. CASE EventOnly
  <2>1. UNCHANGED <<row, compensated>>
    BY ZenonT(60), <1>1 DEF EventOnly, FreezeTerms, ArmRefunds, SecretObserved, AbortUnfunded,
                ActionFinalized, ObservationInvalidated, SetHealth, outbox
  <2>2. \A a \in Actions : (prog'[a] = "committed") <=> (prog[a] = "committed")
    BY <1>1 DEF EventOnly, FreezeTerms, ArmRefunds, SecretObserved, AbortUnfunded,
                ActionFinalized, ObservationInvalidated, SetHealth, IsFinal
  <2> QED
    BY ZenonT(60), <2>1, <2>2
<1>2. CASE ClockOnly(o)
  <2>1. UNCHANGED <<row, compensated, prog>>
    BY <1>2 DEF ClockOnly, ApplySchedule, ApplyCancel, ApplyTimerEvent, ClaimTimer,
                CompleteTimer, SetHealth, outbox, route
  <2> QED
    BY <2>1
<1>3. CASE \E a \in Actions : ApplyCommit(a)
  <2>1. PICK a \in Actions : ApplyCommit(a)
    BY <1>3
  <2>2. ~compensated[a[1]] /\ UNCHANGED compensated
    BY <2>1 DEF ApplyCommit, CommitAction, Precondition
  <2> QED
    BY <2>1, <2>2 DEF ApplyCommit, CommitAction, WriteRow
<1>4. CASE \E a \in Actions : ApplyReauthorize(a)
  BY <1>4 DEF ApplyReauthorize, Reauthorize, WriteRow
<1>5. CASE \E a \in Actions, e \in 0..MaxEpoch : ApplyExternalized(a, e)
  BY <1>5 DEF ApplyExternalized, ActionExternalized, WriteRow
<1>6. CASE \E a \in Actions, e \in 0..MaxEpoch, x \in BOOLEAN : ApplyProgress(o, a, e, x)
  BY <1>6 DEF ApplyProgress, CustodyProgressRecorded, WriteRow
<1>7. CASE \E l \in Legs : ApplyCompensated(l)
  <2>1. PICK l \in Legs : ApplyCompensated(l)
    BY <1>7
  <2>2. /\ prog' = prog /\ compensated' = [compensated EXCEPT ![l] = TRUE]
        /\ row' = [a \in Actions |-> IF a[1] = l /\ row[a] = "pending"
                                        THEN "superseded" ELSE row[a]]
    BY <2>1 DEF ApplyCompensated, DomCompensated
  <2>3. ASSUME NEW a \in Actions
        PROVE  (row'[a] = "pending") <=> (prog'[a] = "committed" /\ ~compensated'[a[1]])
    BY <2>2, ActionsAreTuples
  <2> QED
    BY ZenonT(60), <2>3
<1>8. CASE \E a \in Actions : ClaimEffect(o, a)
  BY <1>8 DEF ClaimEffect, route
<1> QED
  BY ZenonT(60), <1>1, <1>2, <1>3, <1>4, <1>5, <1>6, <1>7, <1>8 DEF StoreOp

\* No operation of the store moves the lease.
LEMMA OwnerKeepsLease ==
    ASSUME NEW o \in Owners, StoreOp(o)
    PROVE  UNCHANGED lease
  BY ZenonT(60) DEF StoreOp, EventOnly, ClockOnly, ApplySchedule, ApplyCancel, ApplyTimerEvent, ClaimTimer,
         CompleteTimer, ApplyCommit, ApplyReauthorize, ApplyExternalized, ApplyProgress,
         ApplyCompensated, ClaimEffect

\* The job of an owner and the row it dispatches move together.
LEMMA OwnerJob ==
    ASSUME TypeOK, LockInv, JobInv, FullIsSent, NEW o \in Owners, Holds(o), StoreOp(o),
           DriverOp(o)
    PROVE  LockInv' /\ JobInv' /\ FullIsSent'
<1>1. UNCHANGED <<leaseOwner, leaseEpoch, leaseLive, held, sent>>
  BY OwnerKeepsLease DEF lease, DriverOp
<1>2. PICK j \in [step : Steps, act : Actions] :
        /\ job' = [job EXCEPT ![o] = j]
        /\ j.step \in {"send", "checked", "partial", "full"} =>
              j.step = "send" /\ ClaimEffect(o, j.act)
  BY ZenonT(60) DEF DriverOp
<1>3. job'[o] = j /\ \A p \in Owners : p # o => job'[p] = job[p]
  BY <1>2 DEF TypeOK
<1>4. LockInv'
  BY Zenon, <1>1 DEF LockInv
<1>5. held'[o] # 0
  BY <1>1 DEF Holds
<1>6. Idle.step = "idle"
  BY DEF Idle
<1>7. ASSUME NEW p \in Owners, p # o PROVE job'[p] = Idle /\ JobOK(p)'
  <2>1. held[p] = 0 /\ JobOK(p)
    BY <1>1, <1>5, <1>7 DEF LockInv, JobInv
  <2>2. job'[p] = Idle
    BY <1>3, <1>7, <2>1 DEF JobOK
  <2> QED
    BY <1>6, <2>2 DEF JobOK
<1>8. CASE j.step \in {"send", "checked", "partial", "full"}
  <2>1. j.step = "send" /\ ClaimEffect(o, j.act) /\ j.act \in Actions
    BY <1>2, <1>8
  <2>2. /\ fence[j.act] = held[o] /\ row[j.act] = "pending" /\ Dispatchable(j.act)
        /\ UNCHANGED <<route, row>> /\ holder'[j.act] = o
    BY <2>1 DEF ClaimEffect, Claimable, Holds, ValidLease, TypeOK
  <2>3. Dispatchable(j.act)'
    BY <2>2, SameRoute
  <2>4. prog[j.act] = "committed"
    BY ZenonT(60), <2>2 DEF Dispatchable
  <2>5. /\ prog'[j.act] = "committed" /\ fence'[j.act] = held'[o] /\ row'[j.act] = "pending"
    BY Zenon, <1>1, <2>2, <2>4 DEF route
  <2>6. JobOK(o)'
    BY <1>3, <1>5, <2>1, <2>2, <2>3, <2>5 DEF JobOK
  <2>7. FullIsSent'
    BY Zenon, <1>1, <1>3, <2>1 DEF FullIsSent
  <2> QED
    BY <1>4, <1>7, <2>6, <2>7 DEF JobInv
<1>9. CASE j.step \notin {"send", "checked", "partial", "full"}
  <2>1. JobOK(o)'
    BY <1>3, <1>5, <1>9 DEF JobOK
  <2>2. FullIsSent'
    BY Zenon, <1>1, <1>3, <1>9 DEF FullIsSent
  <2> QED
    BY <1>4, <1>7, <2>1, <2>2 DEF JobInv
<1> QED
  BY <1>8, <1>9

\* A step under the lease keeps the invariant.
LEMMA OwnerInv ==
    ASSUME IInv, NEW o \in Owners, OwnerStep(o)
    PROVE  IInv'
<1>1. /\ TypeOK /\ Valid /\ NoSplit /\ OutboxMatchesSnapshot
      /\ SentInv /\ LockInv /\ FullIsSent /\ JobInv
  BY DEF IInv
<1>2. Holds(o) /\ StoreOp(o) /\ DriverOp(o)
  BY <1>1, OwnerForms
<1>3. SentInv'
  <2>1. sent' = sent
    BY <1>2 DEF DriverOp
  <2> QED
    BY <1>1, <1>2, <2>1, EventForms DEF SentInv
<1>4. TypeOK' /\ Valid' /\ NoSplit'
  BY <1>1, <1>2, OwnerTypes, EventForms, OwnerNoSplit
<1>5. OutboxMatchesSnapshot' /\ LockInv' /\ FullIsSent' /\ JobInv'
  <2>1. OutboxMatchesSnapshot'
    BY Zenon, <1>1, <1>2, OwnerOutbox
  <2>2. LockInv' /\ FullIsSent' /\ JobInv'
    BY Zenon, <1>1, <1>2, OwnerJob
  <2> QED
    BY <2>1, <2>2
<1> QED
  BY <1>3, <1>4, <1>5 DEF IInv

-----------------------------------------------------------------------------
(* The steps of the environment and of a process that has no lease *)

\* A step that changes neither the snapshot nor what was sent.
LEMMA QuietStep ==
    ASSUME IInv, UNCHANGED <<route, sent>>
    PROVE  Valid' /\ NoSplit' /\ SentInv'
<1>1. Valid'
  BY SameRoute DEF IInv
<1> QED
  BY <1>1 DEF IInv, NoSplit, SentInv, Untouched, LeftUs, route

\* So does the passing of time,
LEMMA TimeInv == IInv /\ TimePasses => IInv'
<1> SUFFICES ASSUME IInv, TimePasses PROVE IInv'
  OBVIOUS
<1>1. TypeOK'
  BY TimePassesTypes DEF IInv
<1>2. UNCHANGED <<route, row, holder, held, job, sent>>
  BY DEF TimePasses, LeaseLapses, DispatchLapses, TimerLapses, TimerFallsDue, driver, outbox
<1>3. Valid' /\ NoSplit' /\ SentInv'
  BY <1>2, QuietStep
<1>4. UNCHANGED <<leaseOwner, leaseEpoch>>
  BY DEF TimePasses, LeaseLapses, DispatchLapses, TimerLapses, TimerFallsDue, lease
<1>5. OutboxMatchesSnapshot' /\ LockInv' /\ FullIsSent'
  BY ZenonT(60), <1>2, <1>4 DEF IInv, OutboxMatchesSnapshot, LockInv, FullIsSent, route
<1>7. \A a : Dispatchable(a)' <=> Dispatchable(a)
  BY <1>2, SameRoute
<1>8. JobInv'
  BY Zenon, <1>2, <1>7 DEF IInv, JobInv, JobOK, route
<1> QED
  BY <1>1, <1>3, <1>5, <1>8 DEF IInv

\* every change of the lease,
LEMMA LeaseInv ==
    ASSUME IInv, NEW o \in Owners, Acquire(o) \/ Crash(o) \/ Fenced(o)
    PROVE  IInv'
<1>1. TypeOK /\ TypeOK'
  BY LeaseTypes DEF IInv
<1>2. UNCHANGED <<route, row, holder, live, sent>>
  BY DEF Acquire, TakeLease, Crash, Fenced, StartOver, outbox
<1>3. Valid' /\ NoSplit' /\ SentInv'
  BY <1>2, QuietStep
<1>4. OutboxMatchesSnapshot'
  BY <1>2 DEF IInv, OutboxMatchesSnapshot, route
<1>5. \A a : Dispatchable(a)' <=> Dispatchable(a)
  BY <1>2, SameRoute
<1>6. CASE Acquire(o)
  <2>1. /\ held[o] = 0 /\ job[o] = Idle /\ job' = job
        /\ \A p \in Owners : p # o => held'[p] = held[p]
    BY <1>1, <1>6 DEF Acquire, IInv, JobInv, JobOK, TypeOK
  <2>2. leaseOwner' = o /\ held'[o] = leaseEpoch' /\ \A p \in Owners : p # o => held[p] = 0
    BY <1>1, <1>6 DEF Acquire, StoresFree, TakeLease, lease, TypeOK
  <2>4. LockInv'
    BY <2>1, <2>2 DEF LockInv
  <2>5. FullIsSent'
    BY Zenon, <1>2, <2>1 DEF IInv, FullIsSent
  <2>6. Idle.step = "idle"
    BY DEF Idle
  <2>7. JobInv'
    <3> SUFFICES ASSUME NEW p \in Owners PROVE JobOK(p)'
      BY DEF JobInv
    <3>1. CASE p = o
      BY <2>1, <2>6, <3>1 DEF JobOK
    <3>2. CASE p # o
      <4>1. JobOK(p) /\ UNCHANGED <<prog, fence, row, holder>>
        BY Zenon, <1>2 DEF IInv, JobInv, route
      <4> QED
        BY Zenon, <1>5, <2>1, <3>2, <4>1 DEF JobOK
    <3> QED
      BY <3>1, <3>2
  <2> QED
    BY <1>1, <1>3, <1>4, <2>4, <2>5, <2>7 DEF IInv
<1>7. CASE Crash(o) \/ Fenced(o)
  <2>1. /\ held'[o] = 0 /\ job'[o] = Idle /\ UNCHANGED <<leaseOwner, leaseEpoch, leaseLive>>
        /\ \A p \in Owners : p # o => held'[p] = held[p] /\ job'[p] = job[p]
    BY <1>1, <1>7 DEF Crash, Fenced, StartOver, lease, TypeOK
  <2>2. Idle.step = "idle"
    BY DEF Idle
  <2>3. LockInv'
    BY <2>1 DEF IInv, LockInv
  <2>4. FullIsSent'
    <3> SUFFICES ASSUME NEW p \in Owners, job'[p].step = "full"
                 PROVE  sent'[job'[p].act] = "full"
      BY DEF FullIsSent
    <3>0. Idle.step = "idle"
      BY DEF Idle
    <3>1. p # o
      BY <2>1, <3>0
    <3> QED
      BY Zenon, <1>2, <2>1, <3>1 DEF IInv, FullIsSent
  <2>5. JobInv'
    <3> SUFFICES ASSUME NEW p \in Owners PROVE JobOK(p)'
      BY DEF JobInv
    <3>1. CASE p = o
      BY <2>1, <2>2, <3>1 DEF JobOK
    <3>2. CASE p # o
      <4>1. JobOK(p) /\ UNCHANGED <<prog, fence, row, holder>>
        BY Zenon, <1>2 DEF IInv, JobInv, route
      <4> QED
        BY Zenon, <1>5, <2>1, <3>2, <4>1 DEF JobOK
    <3> QED
      BY <3>1, <3>2
  <2> QED
    BY <1>1, <1>3, <1>4, <2>3, <2>4, <2>5 DEF IInv
<1> QED
  BY <1>6, <1>7

\* Whoever sends has the stores, and sends the effect that stands.
LEMMA SenderHolds ==
    ASSUME IInv, NEW o \in Owners, Send(o)
    PROVE  /\ held[o] # 0 /\ job[o].step = "checked" /\ Dispatchable(job[o].act)
           /\ job[o].act \in Actions /\ prog[job[o].act] = "committed"
           /\ fence[job[o].act] = leaseEpoch
<1>1. job[o].act \in Actions /\ job[o].step = "checked" /\ JobOK(o)
  BY DEF IInv, TypeOK, Send, JobInv
<1>2. held[o] # 0
  <2>1. Idle.step = "idle"
    BY DEF Idle
  <2>2. job[o] # Idle
    BY <1>1, <2>1
  <2> QED
    BY Zenon, <1>1, <2>2 DEF JobOK
<1>3. leaseEpoch = held[o]
  BY Zenon, <1>2 DEF IInv, LockInv
<1> QED
  BY Zenon, <1>1, <1>2, <1>3 DEF JobOK

\* a send,
LEMMA SendInv ==
    ASSUME IInv, NEW o \in Owners, Send(o)
    PROVE  IInv'
<1>1. TypeOK /\ TypeOK'
  BY SendTypes DEF IInv
<1>2. UNCHANGED <<route, lease, outbox, held>>
  BY Zenon DEF Send
<1>3. PICK a \in Actions : a = job[o].act
  BY <1>1 DEF TypeOK
<1>4. PICK amount \in MaySend(a) :
        /\ sent' = [sent EXCEPT ![a] = amount]
        /\ \E answer \in Answers(a, amount) :
             job' = [job EXCEPT ![o] = IF answer = "idle" THEN Idle ELSE Job(answer, a)]
  BY Zenon, <1>3 DEF Send
<1>5. PICK answer \in Answers(a, amount) :
        job' = [job EXCEPT ![o] = IF answer = "idle" THEN Idle ELSE Job(answer, a)]
  BY Zenon, <1>4
<1>6. /\ answer \in {"idle", "partial", "full"}
      /\ answer = "full" => amount = "full"
  BY <1>5 DEF Answers
<1>7. /\ sent[a] = "full" => amount = "full"
      /\ sent'[a] = amount /\ \A b \in Actions : b # a => sent'[b] = sent[b]
  BY ZenonT(60), <1>1, <1>4 DEF MaySend, TypeOK
<1>8. /\ job'[o] = IF answer = "idle" THEN Idle ELSE Job(answer, a)
      /\ \A p \in Owners : p # o => job'[p] = job[p]
  BY <1>1, <1>5 DEF TypeOK
<1>9. /\ held[o] # 0 /\ prog[a] = "committed" /\ job[o].step = "checked"
      /\ fence[a] = held[o] /\ row[a] = "pending" /\ holder[a] = o
  BY ZenonT(60), <1>3, SenderHolds DEF IInv, JobInv, JobOK
<1>10. /\ Valid' /\ NoSplit' /\ OutboxMatchesSnapshot' /\ LockInv'
  <2>1. Valid'
    BY <1>2, SameRoute DEF IInv
  <2> QED
    BY Zenon, <1>2, <2>1 DEF IInv, NoSplit, OutboxMatchesSnapshot, LockInv, Untouched, route, lease, outbox
<1>11. SentInv'
  BY <1>2, <1>7, <1>9 DEF IInv, SentInv, Untouched, LeftUs, route
<1>12. FullIsSent'
  <2>1. ASSUME NEW p \in Owners, job'[p].step = "full"
        PROVE  sent'[job'[p].act] = "full"
    <3>1. CASE p = o
      BY <1>6, <1>7, <1>8, <2>1, <3>1 DEF Idle, Job
    <3>2. CASE p # o
      <4>1. sent[job[p].act] = "full" /\ job[p].act \in Actions
        BY ZenonT(60), <1>1, <1>8, <2>1, <3>2 DEF IInv, FullIsSent, TypeOK
      <4> QED
        BY ZenonT(60), <1>7, <1>8, <3>2, <4>1
    <3> QED
      BY <3>1, <3>2
  <2> QED
    BY <2>1 DEF FullIsSent
<1>13. JobInv'
  <2>1. \A a1 : Dispatchable(a1)' <=> Dispatchable(a1)
    BY <1>2, SameRoute
  <2>3. job'[o].step \notin {"send", "checked"} /\ (job'[o].step \in {"partial", "full"} => job'[o].act = a)
    <3>1. CASE answer = "idle"
      <4>1. Idle.step = "idle"
        BY DEF Idle
      <4>2. job'[o] = Idle
        BY Zenon, <1>8, <3>1
      <4> QED
        BY <4>1, <4>2
    <3>2. CASE answer # "idle"
      <4>1. Job(answer, a).step = answer /\ Job(answer, a).act = a
        BY DEF Job
      <4>2. job'[o] = Job(answer, a)
        BY Zenon, <1>8, <3>2
      <4> QED
        BY <1>6, <3>2, <4>1, <4>2
    <3> QED
      BY <3>1, <3>2
  <2>5. UNCHANGED <<held, prog, fence, row, holder>>
    BY <1>2 DEF route, outbox
  <2> SUFFICES ASSUME NEW p \in Owners PROVE JobOK(p)'
    BY DEF JobInv
  <2>6. CASE p = o
    BY <1>9, <2>3, <2>5, <2>6 DEF JobOK
  <2>7. CASE p # o
    <3>1. JobOK(p)
      BY DEF IInv, JobInv
    <3> QED
      BY Zenon, <1>8, <2>1, <2>5, <2>7, <3>1 DEF JobOK
  <2> QED
    BY <2>6, <2>7
<1> QED
  BY <1>1, <1>10, <1>11, <1>12, <1>13 DEF IInv

\* and a capability that custody refuses or accepts.
LEMMA CheckedInv ==
    ASSUME IInv, NEW o \in Owners, SendRefused(o) \/ CheckCapability(o)
    PROVE  IInv'
<1>1. TypeOK /\ TypeOK'
  BY SendTypes DEF IInv
<1>2. UNCHANGED <<route, lease, outbox, held, sent>>
  BY DEF SendRefused, CheckCapability, Finish
<1>3. /\ \A p \in Owners : p # o => job'[p] = job[p]
      /\ \/ job'[o] = Idle
         \/ /\ job[o].step = "send" /\ job'[o].step = "checked"
            /\ job'[o].act = job[o].act
  BY <1>1 DEF SendRefused, CheckCapability, Finish, TypeOK
<1>4. Valid' /\ NoSplit' /\ SentInv'
  BY <1>2, QuietStep
<1>5. OutboxMatchesSnapshot' /\ LockInv'
  BY Zenon, <1>2 DEF IInv, OutboxMatchesSnapshot, LockInv, route, lease, outbox
<1>6. Idle.step = "idle"
  BY DEF Idle
<1>7. \A a : Dispatchable(a)' <=> Dispatchable(a)
  BY <1>2, SameRoute
<1>8. FullIsSent'
  BY <1>2, <1>3, <1>6 DEF IInv, FullIsSent
<1>9. JobInv'
  <2>1. UNCHANGED <<held, prog, fence, row, holder>>
    BY <1>2 DEF route, outbox
  <2> SUFFICES ASSUME NEW p \in Owners PROVE JobOK(p)'
    BY DEF JobInv
  <2>2. JobOK(p)
    BY DEF IInv, JobInv
  <2>3. CASE job'[p] = Idle
    BY <1>6, <2>3 DEF JobOK
  <2>4. CASE p = o /\ job'[p] # Idle
    BY <1>3, <1>6, <1>7, <2>1, <2>2, <2>4 DEF JobOK
  <2>5. CASE p # o
    BY Zenon, <1>3, <1>7, <2>1, <2>2, <2>5 DEF JobOK
  <2> QED
    BY <2>3, <2>4, <2>5
<1> QED
  BY <1>1, <1>4, <1>5, <1>8, <1>9 DEF IInv

\* The invariant holds of a new route.
LEMMA InitInv == RouteInit => IInv
<1> SUFFICES ASSUME RouteInit PROVE IInv
  OBVIOUS
<1>1. TypeOK
  <2>1. 0 \in 0..MaxEpoch /\ 0 \in 0..MaxReorgs /\ 0 \in 0..MaxCrashes
    BY MaxEpochAssumption, DriverAssumption
  <2> QED
    BY Zenon, <2>1, IdleIsAJob
    DEF RouteInit, StoreInit, Init, TypeOK, Progress, Healths, Rows, Timers, Amounts
<1>2. \A a \in Actions : prog[a] = "none"
  BY DEF RouteInit, StoreInit, Init
<1>3. \A l \in Legs, k \in Kinds : prog[<<l, k>>] = "none"
  BY <1>2, ActionsAreTuples
<1>4. Valid
  BY <1>2, <1>3, ActionsAreTuples, KindsAreKinds
  DEF RouteInit, StoreInit, Init, Valid, ValidLeg, Untouched, LeftUs, WasFinal, IsFinal, Exits,
      OpenFunds, HasOpenFunds, Up, Down, Legs
<1>5. NoSplit /\ SentInv /\ OutboxMatchesSnapshot
  BY <1>2, ActionsAreTuples, KindsAreKinds
  DEF RouteInit, StoreInit, NoSplit, SentInv, OutboxMatchesSnapshot, Untouched, LeftUs
<1>6. LockInv /\ FullIsSent /\ JobInv
  BY DEF RouteInit, StoreInit, LockInv, FullIsSent, JobInv, JobOK, Idle
<1> QED
  BY <1>1, <1>4, <1>5, <1>6 DEF IInv

\* Every step keeps it.
LEMMA StepInv == IInv /\ [Next]_vars => IInv'
<1> SUFFICES ASSUME IInv, [Next]_vars PROVE IInv'
  OBVIOUS
<1>1. ASSUME NEW o \in Owners, Acquire(o) \/ Crash(o) \/ Fenced(o) PROVE IInv'
  BY <1>1, LeaseInv
<1>2. ASSUME NEW o \in Owners, OwnerStep(o) PROVE IInv'
  BY <1>2, OwnerInv
<1>3. ASSUME NEW o \in Owners, Send(o) \/ SendRefused(o) \/ CheckCapability(o) PROVE IInv'
  BY <1>3, SendInv, CheckedInv
<1>4. CASE TimePasses
  BY <1>4, TimeInv
<1>5. CASE UNCHANGED vars
  <2>1. UNCHANGED <<route, lease, outbox, clock, held, job, sent, reorgs, crashes>>
    BY <1>5 DEF vars, driver
  <2>2. Valid' /\ NoSplit' /\ SentInv'
    BY <2>1, QuietStep
  <2>3. TypeOK'
    BY <2>1 DEF IInv, TypeOK, route, lease, outbox, clock
  <2>4. OutboxMatchesSnapshot' /\ LockInv' /\ FullIsSent'
    BY Zenon, <2>1 DEF IInv, OutboxMatchesSnapshot, LockInv, FullIsSent, route, lease, outbox
  <2>5. \A a : Dispatchable(a)' <=> Dispatchable(a)
    BY <2>1, SameRoute
  <2>6. JobInv'
    BY Zenon, <2>1, <2>5 DEF IInv, JobInv, JobOK, route, outbox
  <2> QED
    BY <2>2, <2>3, <2>4, <2>6 DEF IInv
<1> QED
  BY <1>1, <1>2, <1>3, <1>4, <1>5 DEF Next, OwnerStep

\* The inductive invariant of the route: types, validate() of the snapshot, no
\* split outcome, outbox and snapshot in step, and one process with the stores
\* open, whose dispatch stands (apply_event, claim_next_effect,
\* acquire_process_lock).
THEOREM Inductive == Spec => []IInv
  BY InitInv, StepInv, PTL DEF Spec

\* The snapshot, the outbox, the lease and the drivers' locals stay well formed
\* (RouteSnapshot, RouteEffect, the driver's phases).
THEOREM RouteTypeCorrect == Spec => []TypeOK
<1>1. IInv => TypeOK
  BY DEF IInv
<1> QED
  BY <1>1, Inductive, PTL

-----------------------------------------------------------------------------
(***************************************************************************)
(* A leg leaves by one door (validate_leg).                                *)
(***************************************************************************)
THEOREM LegsLeaveByOneDoor == Spec => []OneExitPerLeg
<1>1. IInv => OneExitPerLeg
  <2> SUFFICES ASSUME IInv, NEW l \in Legs PROVE \E a \in Exits(l) : sent[a] = "no"
    BY DEF OneExitPerLeg
  <2>1. Untouched(<<l, "claim">>) \/ Untouched(<<l, "refund">>)
    BY Zenon DEF IInv, Valid, ValidLeg
  <2>2. <<l, "claim">> \in Actions /\ <<l, "refund">> \in Actions
    BY ActionsAreTuples, KindsAreKinds
  <2> QED
    BY <2>1, <2>2 DEF IInv, SentInv, Exits
<1> QED
  BY <1>1, Inductive, PTL

(***************************************************************************)
(* The secret is not given away downstream by a route that takes its money *)
(* back upstream (drive_recovery_once).                                    *)
(***************************************************************************)
THEOREM OutcomeIsNotSplit == Spec => []NoSplitOutcome
<1>1. IInv => NoSplitOutcome
  BY ActionsAreTuples, KindsAreKinds DEF IInv, NoSplit, SentInv, NoSplitOutcome
<1> QED
  BY <1>1, Inductive, PTL

(***************************************************************************)
(* What custody has sent was committed first, and in the order of the legs *)
(* (validate_action_preconditions, validate).                              *)
(***************************************************************************)
THEOREM CustodyFollowsTheJournal == Spec => []CustodyIsBehind
<1>1. IInv => CustodyIsBehind
  <2> SUFFICES ASSUME IInv PROVE CustodyIsBehind
    OBVIOUS
  <2>1. \A a \in Actions : sent[a] # "no" => ~Untouched(a)
    BY DEF IInv, SentInv
  <2>2. sent[Down("funding")] # "no" => WasFinal(Up("funding"))
    BY <2>1, ActionsAreTuples, KindsAreKinds DEF IInv, Valid
  <2>3. sent[Down("claim")] # "no" => WasFinal(Down("funding")) /\ WasFinal(Up("funding"))
    <3>1. SUFFICES ASSUME ~Untouched(Down("claim"))
                   PROVE  WasFinal(Down("funding")) /\ WasFinal(Up("funding"))
      BY <2>1, ActionsAreTuples, KindsAreKinds
    <3>2. WasFinal(Down("funding"))
      BY <3>1 DEF IInv, Valid, ValidLeg, Legs, Down
    <3> QED
      BY <3>2 DEF IInv, Valid, WasFinal, Untouched
  <2> QED
    BY <2>1, <2>2, <2>3 DEF IInv, SentInv, CustodyIsBehind
<1> QED
  BY <1>1, Inductive, PTL

(***************************************************************************)
(* The outbox is what the snapshot says it is (apply_event).               *)
(***************************************************************************)
THEOREM OutboxIsConsistent == Spec => []OutboxMatchesSnapshot
<1>1. IInv => OutboxMatchesSnapshot
  BY DEF IInv
<1> QED
  BY <1>1, Inductive, PTL

(***************************************************************************)
(* No receipt is lost to a stale row (reconcile_externalized_effect,       *)
(* reconcile_partial_custody_progress).                                    *)
(***************************************************************************)
THEOREM ReceiptsAreNotRefused == Spec => []ReceiptsAreAccepted
<1>1. IInv => ReceiptsAreAccepted
  BY DEF IInv, JobInv, JobOK, ReceiptsAreAccepted
<1> QED
  BY <1>1, Inductive, PTL

(***************************************************************************)
(* What was checked when a row was claimed still holds when custody sends  *)
(* it, though the lease, the claim and the capability may have run out     *)
(* since custody looked at the clock: the process lock lets nobody take    *)
(* over meanwhile (effect_is_dispatchable, externalize_custodied_action,   *)
(* acquire_process_lock).                                                  *)
(***************************************************************************)
THEOREM StaleWorkIsNotSent == Spec => SendsOnlyWhatStands
<1>1. IInv /\ [Next]_vars => [SentStands]_vars
  <2> SUFFICES ASSUME IInv, Next, NEW a \in Actions, sent'[a] # sent[a]
               PROVE  fence[a] = leaseEpoch /\ Dispatchable(a)
    BY DEF SentStands
  <2>1. ASSUME NEW o \in Owners, Send(o)
        PROVE  fence[a] = leaseEpoch /\ Dispatchable(a)
    <3>1. a = job[o].act
      BY Zenon, <2>1, SenderHolds DEF Send, IInv, TypeOK
    <3> QED
      BY <2>1, <3>1, SenderHolds
  <2>2. ASSUME NEW o \in Owners, OwnerStep(o) PROVE FALSE
    <3>1. DriverOp(o)
      BY <2>2, OwnerForms DEF IInv
    <3> QED
      BY <3>1 DEF DriverOp
  <2>3. ASSUME NEW o \in Owners,
               Acquire(o) \/ Crash(o) \/ Fenced(o) \/ SendRefused(o) \/ CheckCapability(o)
        PROVE  FALSE
    BY <2>3 DEF Acquire, Crash, Fenced, StartOver, SendRefused, CheckCapability, Finish
  <2>4. CASE TimePasses
    BY Zenon, <2>4 DEF TimePasses, driver
  <2> QED
    BY ZenonT(60), <2>1, <2>2, <2>3, <2>4 DEF Next, OwnerStep
<1> QED
  BY <1>1, Inductive, PTL DEF Spec, SendsOnlyWhatStands

-----------------------------------------------------------------------------
(* The route keeps the promise of module Swap *)

\* What has not been asked for is not on a chain, and what has left us is there in full.
LEMMA ChainsFollow ==
    ASSUME IInv, NEW l \in Legs, NEW k \in Kinds
    PROVE  /\ Untouched(<<l, k>>) => Promise!Unsent(l, k)
           /\ LeftUs(<<l, k>>) => sent[<<l, k>>] = "full"
<1>1. <<l, k>> \in Actions
  BY DEF Actions
<1> QED
  BY <1>1 DEF IInv, SentInv, Promise!Unsent

\* Both legs and every kind, for citing.
LEMMA LegsAndKinds ==
    /\ "upstream" \in Legs /\ "downstream" \in Legs
    /\ "funding" \in Kinds /\ "claim" \in Kinds /\ "refund" \in Kinds
BY DEF Legs, Kinds

\* Custody funds a leg that has no exit yet, downstream only over a funded upstream
\* leg (effect_is_dispatchable, validate_leg).
LEMMA FundingIsPromised ==
    ASSUME IInv, NEW l \in Legs, Dispatchable(<<l, "funding">>)
    PROVE  Promise!MayFund(l)
<1>1. prog[<<l, "funding">>] = "committed"
  BY DEF Dispatchable
<1>2. Untouched(<<l, "claim">>) /\ Untouched(<<l, "refund">>)
  BY <1>1 DEF IInv, Valid, ValidLeg, LeftUs, WasFinal
<1>3. Promise!NoExit(l)
  BY <1>2, ChainsFollow, LegsAndKinds DEF Promise!NoExit
<1>4. ASSUME l = "downstream" PROVE Promise!Funded("upstream") /\ Promise!NoExit("upstream")
  <2>1. IsFinal(Up("funding")) /\ Untouched(Up("claim")) /\ Untouched(Up("refund"))
    BY <1>4 DEF Dispatchable, Exits, Up
  <2> QED
    BY <2>1, ChainsFollow, LegsAndKinds DEF Promise!NoExit, Promise!Funded, IsFinal, LeftUs, Up
<1> QED
  BY <1>3, <1>4 DEF Promise!MayFund

\* Custody claims downstream only with both legs funded and none on its way back, and
\* upstream only with a public secret (effect_is_dispatchable, validate_leg).
LEMMA ClaimIsPromised ==
    ASSUME IInv, NEW l \in Legs, Dispatchable(<<l, "claim">>)
    PROVE  Promise!MayClaim(l)
<1>1. prog[<<l, "claim">>] = "committed"
  BY DEF Dispatchable
<1>2. Untouched(<<l, "refund">>)
  BY <1>1 DEF IInv, Valid, ValidLeg, Untouched
<1>3. Promise!Unsent(l, "refund")
  BY <1>2, ChainsFollow, LegsAndKinds
<1>4. CASE l = "downstream"
  <2>1. IsFinal(Up("funding")) /\ IsFinal(Down("funding")) /\ Untouched(Up("refund"))
    BY <1>4 DEF Dispatchable, Down
  <2>2. LeftUs(Up("funding")) /\ LeftUs(Down("funding"))
    BY <2>1 DEF IsFinal, LeftUs
  <2> QED
    BY <1>3, <1>4, <2>1, <2>2, ChainsFollow, LegsAndKinds DEF Promise!MayClaim, Promise!Funded, Up, Down
<1>5. CASE l = "upstream"
  <2>1. public /\ LeftUs(Up("funding"))
    BY <1>5 DEF Dispatchable, Up, WasFinal, LeftUs
  <2> QED
    BY <1>3, <1>5, <2>1, ChainsFollow, LegsAndKinds DEF Promise!MayClaim, Promise!Funded, Up
<1> QED
  BY <1>4, <1>5 DEF Legs

\* Custody refunds a funded leg that is not claimed, upstream only if the secret was not
\* given away downstream (validate_leg, drive_recovery_once).
LEMMA RefundIsPromised ==
    ASSUME IInv, NEW l \in Legs, Dispatchable(<<l, "refund">>)
    PROVE  Promise!MayRefund(l)
<1>1. prog[<<l, "refund">>] = "committed" /\ LeftUs(<<l, "funding">>)
  BY DEF Dispatchable
<1>2. Untouched(<<l, "claim">>)
  BY <1>1 DEF IInv, Valid, ValidLeg, Untouched
<1>3. Promise!Unsent(l, "claim") /\ Promise!Funded(l)
  BY <1>1, <1>2, ChainsFollow, LegsAndKinds DEF Promise!Funded
<1>4. ASSUME l = "upstream" PROVE Promise!Unsent("downstream", "claim")
  <2>1. Untouched(Down("claim"))
    BY <1>1, <1>4 DEF IInv, NoSplit, Untouched, Up
  <2> QED
    BY <2>1, ChainsFollow, LegsAndKinds DEF Down
<1> QED
  BY <1>3, <1>4 DEF Promise!MayRefund

\* What custody sends is what Swap allows to be sent.
LEMMA SendIsPromised ==
    ASSUME IInv, NEW o \in Owners, Send(o)
    PROVE  [Promise!Next]_(Promise!wvars)
<1>1. PICK l \in Legs, k \in Kinds : job[o].act = <<l, k>>
  BY SenderHolds DEF Actions
<1>2. Dispatchable(<<l, k>>)
  BY <1>1, SenderHolds
<1>3. Promise!May(l, k)
  BY <1>2, FundingIsPromised, ClaimIsPromised, RefundIsPromised DEF Promise!May, Kinds
<1>4. PICK amount \in MaySend(<<l, k>>) : sent' = [sent EXCEPT ![<<l, k>>] = amount]
  BY Zenon, <1>1 DEF Send
<1>5. UNCHANGED public
  BY DEF Send, route
<1>6. sent[<<l, k>>] \in Amounts /\ sent \in [Actions -> Amounts] /\ <<l, k>> \in Actions
  BY DEF IInv, TypeOK, Actions
<1>7. CASE amount = sent[<<l, k>>]
  <2>1. sent' = sent
    BY <1>4, <1>6, <1>7
  <2> QED
    BY <1>5, <2>1 DEF Promise!wvars
<1>8. CASE amount # sent[<<l, k>>]
  <2>1. /\ sent[<<l, k>>] # "full" /\ amount \in {"part", "full"}
        /\ k = "claim" /\ sent[<<l, k>>] = "no" => amount = "part"
    BY <1>6, <1>8 DEF MaySend, Amounts
  <2>2. Promise!Send(l, k)
    BY Zenon, <1>3, <1>4, <1>5, <2>1 DEF Promise!Send, Promise!Unsent
  <2>3. l \in Promise!Legs /\ k \in Promise!Kinds
    BY DEF Promise!Legs, Promise!Kinds, Legs, Kinds
  <2> QED
    BY Zenon, <2>2, <2>3 DEF Promise!Next
<1> QED
  BY <1>7, <1>8

\* A receipt in hand, for all of an action or for a part, answers something that was sent.
PartIsSent ==
    \A o \in Owners : job[o].step = "partial" => sent[job[o].act] # "no"

\* Receipts come from a send, and nothing that was sent is taken back.
LEMMA PartStays == IInv /\ PartIsSent /\ [Next]_vars => PartIsSent'
<1> SUFFICES ASSUME IInv, PartIsSent, [Next]_vars, NEW p \in Owners, job'[p].step = "partial"
             PROVE  sent'[job'[p].act] # "no"
  BY DEF PartIsSent
<1>0. job \in [Owners -> [step : Steps, act : Actions]] /\ sent \in [Actions -> Amounts]
  BY DEF IInv, TypeOK
<1>1. ASSUME UNCHANGED <<job, sent>> PROVE sent'[job'[p].act] # "no"
  BY <1>1 DEF PartIsSent
<1>2. Idle.step = "idle"
  BY DEF Idle
<1>3. ASSUME NEW o \in Owners, Acquire(o) \/ Crash(o) \/ Fenced(o) \/ SendRefused(o)
      PROVE  sent'[job'[p].act] # "no"
  <2>1. sent' = sent /\ (job' = job \/ job' = [job EXCEPT ![o] = Idle])
    BY <1>3 DEF Acquire, Crash, Fenced, StartOver, SendRefused, Finish
  <2>2. job'[p] = job[p]
    BY <1>0, <1>2, <2>1
  <2> QED
    BY <2>1, <2>2 DEF PartIsSent
<1>4. ASSUME NEW o \in Owners, OwnerStep(o) PROVE sent'[job'[p].act] # "no"
  <2>1. DriverOp(o)
    BY <1>4, OwnerForms DEF IInv
  <2>2. PICK j \in [step : Steps, act : Actions] :
           job' = [job EXCEPT ![o] = j] /\ j.step # "partial"
    BY <2>1 DEF DriverOp
  <2>3. sent' = sent /\ job'[p] = job[p]
    BY <1>0, <2>1, <2>2 DEF DriverOp
  <2> QED
    BY <2>3 DEF PartIsSent
<1>7. ASSUME NEW o \in Owners, CheckCapability(o) PROVE sent'[job'[p].act] # "no"
  <2>1. sent' = sent /\ job'[p] = job[p]
    BY <1>0, <1>7 DEF CheckCapability
  <2> QED
    BY <2>1 DEF PartIsSent
<1>5. ASSUME NEW o \in Owners, Send(o) PROVE sent'[job'[p].act] # "no"
  <2> DEFINE a == job[o].act
  <2>0. PICK amount \in MaySend(a) :
           /\ sent' = [sent EXCEPT ![a] = amount]
           /\ \E answer \in Answers(a, amount) :
                job' = [job EXCEPT ![o] = IF answer = "idle" THEN Idle ELSE Job(answer, a)]
    BY Zenon, <1>5 DEF Send
  <2>1. PICK answer \in Answers(a, amount) :
           /\ sent' = [sent EXCEPT ![a] = amount]
           /\ job' = [job EXCEPT ![o] = IF answer = "idle" THEN Idle ELSE Job(answer, a)]
    BY Zenon, <2>0
  <2>2. a \in Actions
    BY <1>0
  <2>3. answer = "partial" => amount # "no"
    BY <2>1 DEF Answers
  <2>4. amount = "no" => sent[a] = "no"
    BY <2>1 DEF MaySend
  <2>5. /\ p # o => job'[p] = job[p]
        /\ p = o => job'[p] = IF answer = "idle" THEN Idle ELSE Job(answer, a)
    BY <1>0, <2>1
  <2> HIDE DEF a
  <2>6. CASE p = o
    <3>1. answer = "partial" /\ job'[p].act = a
      BY <1>2, <2>5, <2>6 DEF Job
    <3> QED
      BY <1>0, <2>1, <2>2, <2>3, <3>1
  <2>7. CASE p # o
    <3>1. job'[p] = job[p] /\ sent[job[p].act] # "no" /\ job[p].act \in Actions
      BY <1>0, <2>5, <2>7 DEF PartIsSent
    <3> QED
      BY <1>0, <2>1, <2>2, <2>4, <3>1
  <2> QED
    BY <2>6, <2>7
<1>6. CASE TimePasses \/ UNCHANGED vars
  BY <1>1, <1>6 DEF TimePasses, vars, driver
<1> QED
  BY <1>3, <1>4, <1>5, <1>6, <1>7 DEF Next, OwnerStep

\* An externalized action makes the secret public only as the downstream claim.
LEMMA ExternalizedPublishes ==
    ASSUME IInv, NEW a \in Actions, NEW e, ApplyExternalized(a, e), public' # public
    PROVE  a = Down("claim")
<1>1. prog[a] = "committed" /\ a[2] = "claim" /\ ~public
  BY DEF ApplyExternalized, ActionExternalized, IInv, TypeOK
<1>2. a # Up("claim")
  BY <1>1 DEF IInv, Valid, Untouched
<1> QED
  BY <1>1, <1>2, ActionsAreTuples DEF Legs, Up, Down

\* A driver makes the secret public only after a part of the downstream claim was sent.
LEMMA DrivePublishes ==
    ASSUME IInv, PartIsSent, NEW o \in Owners, Drive(o), public' # public
    PROVE  sent[Down("claim")] # "no"
<1>1. ASSUME NEW a \in Stale, Reconcile(o, a) PROVE sent[Down("claim")] # "no"
  <2>1. a \in Actions
    BY DEF Stale
  <2>2. CASE sent[a] = "full" /\ ApplyExternalized(a, fence[a])
    BY <2>1, <2>2, ExternalizedPublishes
  <2>3. CASE ApplyReauthorize(a)
    BY <2>3 DEF ApplyReauthorize, Reauthorize
  <2>4. CASE Exposed(a)
    BY <2>4 DEF Exposed
  <2> QED
    BY <1>1, <2>2, <2>3, <2>4 DEF Reconcile
<1>2. CASE ResumeCustody(o)
  BY <1>2 DEF ResumeCustody, ApplyReauthorize, Reauthorize
<1>3. CASE DriveOnce(o)
  <2>1. UNCHANGED public
    <3>1. CASE AdmitRoute \/ ArmBothRefunds
      BY <3>1 DEF AdmitRoute, ArmBothRefunds, FreezeTerms, ArmRefunds
    <3>2. CASE TakeTimer(o) \/ Dispatch(o)
      BY <3>2 DEF TakeTimer, ClaimTimer, Dispatch, ClaimEffect, route
    <3>3. ASSUME NEW a, Authorize(a) \/ ObserveFinality(a) PROVE UNCHANGED public
      BY <3>3 DEF Authorize, ApplyCommit, CommitAction, ObserveFinality, ActionFinalized
    <3> QED
      BY <1>3, <3>1, <3>2, <3>3 DEF DriveOnce, DriveAction
  <2> QED
    BY <2>1
<1>4. CASE RecordExternalization(o)
  <2>1. job[o].act \in Actions
    BY DEF IInv, TypeOK
  <2>2. sent[job[o].act] = "full" /\ ApplyExternalized(job[o].act, held[o])
    BY <1>4 DEF RecordExternalization, IInv, FullIsSent
  <2> QED
    BY <2>1, <2>2, ExternalizedPublishes
<1>5. CASE RecordProgress(o)
  <2>1. job[o].act = Down("claim")
    BY <1>5 DEF RecordProgress, ApplyProgress, CustodyProgressRecorded, IInv, TypeOK
  <2> QED
    BY <1>5, <2>1 DEF RecordProgress, PartIsSent
<1>6. CASE CommitTimerEvent(o) \/ AcknowledgeTimer(o)
  BY <1>6 DEF CommitTimerEvent, ApplyTimerEvent, SetHealth, AcknowledgeTimer, CompleteTimer, route
<1> QED
  BY <1>1, <1>2, <1>3, <1>4, <1>5, <1>6 DEF Drive

\* Whoever makes the secret public has seen it exposed, unless others publish it.
LEMMA OwnerPublishes ==
    ASSUME IInv, PartIsSent, NEW o \in Owners, OwnerStep(o), public' # public
    PROVE  /\ public' = TRUE /\ UNCHANGED sent
           /\ Leaks \/ sent[Down("claim")] # "no"
<1>1. Holds(o) /\ StoreOp(o) /\ DriverOp(o)
  BY OwnerForms DEF IInv
<1>2. TypeOK /\ TypeOK'
  BY <1>1, OwnerTypes DEF IInv
<1>3. public => public'
  <2>1. CASE EventOnly \/ ClockOnly(o)
    BY <2>1 DEF EventOnly, FreezeTerms, ArmRefunds, SecretObserved, AbortUnfunded, ActionFinalized,
                ObservationInvalidated, SetHealth, ClockOnly, ApplySchedule, ApplyCancel,
                ApplyTimerEvent, ClaimTimer, CompleteTimer, route
  <2>2. CASE ~(EventOnly \/ ClockOnly(o))
    BY <1>1, <2>2 DEF StoreOp, ApplyCommit, CommitAction, ApplyReauthorize, Reauthorize,
                      ApplyExternalized, ActionExternalized, ApplyProgress, CustodyProgressRecorded,
                      ApplyCompensated, DomCompensated, ClaimEffect, route
  <2> QED
    BY <2>1, <2>2
<1>4. public' = TRUE /\ UNCHANGED sent
  BY <1>1, <1>2, <1>3 DEF TypeOK, DriverOp
<1>5. CASE Drive(o)
  BY <1>4, <1>5, DrivePublishes
<1>6. CASE OperatorCall(o) \/ RecordCompensation(o) \/ ObserveReorg(o)
  <2>1. UNCHANGED public
    BY <1>6 DEF OperatorCall, SetHealth, AbortUnfunded, ApplySchedule, ApplyCancel, RecordCompensation,
                ApplyCompensated, DomCompensated, ObserveReorg, ObservationInvalidated, route
  <2> QED
    BY <2>1
<1>7. CASE ObserveSecret(o)
  BY <1>4, <1>7 DEF ObserveSecret, Exposed
<1> QED
  BY <1>5, <1>6, <1>7 DEF OwnerStep

\* Every step of the route is a step of Swap, or shows nothing to the chains.
LEMMA StepIsPromised ==
    ASSUME IInv, PartIsSent, [Next]_vars
    PROVE  [Promise!Next]_(Promise!wvars)
<1> USE DEF Promise!wvars
<1>1. ASSUME NEW o \in Owners, OwnerStep(o) PROVE [Promise!Next]_(Promise!wvars)
  <2>1. sent' = sent
    BY <1>1, OwnerForms DEF DriverOp, IInv
  <2>2. CASE public' = public
    BY <2>1, <2>2
  <2>3. CASE public' # public
    <3>1. Promise!Publish
      BY <1>1, <2>3, OwnerPublishes DEF Promise!Publish, Promise!Unsent, Down
    <3> QED
      BY <3>1 DEF Promise!Next
  <2> QED
    BY <2>2, <2>3
<1>2. ASSUME NEW o \in Owners,
             Acquire(o) \/ Crash(o) \/ Fenced(o) \/ SendRefused(o) \/ CheckCapability(o)
      PROVE  UNCHANGED <<sent, public>>
  BY <1>2 DEF Acquire, TakeLease, Crash, Fenced, StartOver, SendRefused, CheckCapability, Finish,
              route
<1>3. TimePasses \/ UNCHANGED vars => UNCHANGED <<sent, public>>
  BY DEF TimePasses, LeaseLapses, DispatchLapses, TimerLapses, TimerFallsDue, vars, driver, route
<1> QED
  BY <1>1, <1>2, <1>3, SendIsPromised DEF Next, OwnerStep

(***************************************************************************)
(* For any number of processes, takeovers, crashes, lost answers, health   *)
(* changes, compensations and reorganizations, what reaches the chains     *)
(* does so in the order of Swap: no secret given away before both legs are *)
(* funded, no upstream claim before the secret is out, no refund of a leg  *)
(* whose secret is (reduce_route_v1, apply_event, drive_route_once_v1).    *)
(***************************************************************************)
THEOREM RouteKeepsThePromise == Spec => SwapSpec
<1>1. RouteInit => Promise!Init /\ PartIsSent
  BY DEF RouteInit, StoreInit, Init, Promise!Init, Promise!Legs, Promise!Kinds, Actions, Legs, Kinds,
         PartIsSent, Idle
<1>2. IInv /\ PartIsSent /\ [Next]_vars => [Promise!Next]_(Promise!wvars)
  BY StepIsPromised
<1> QED
  BY <1>1, <1>2, PartStays, Inductive, PTL DEF Spec, SwapSpec, Promise!Spec

=============================================================================
