-------------------------- MODULE ChildPortsProofs --------------------------
(***************************************************************************)
(* Proofs about the settlement bridge, for every pool, quorum, height and  *)
(* plan: bytes do not leave unrecorded, the plan admits every exposure,    *)
(* finality is the cluster's, and (with the queries the route driver puts) *)
(* the store writes no plan its own audit refuses.                         *)
(***************************************************************************)
EXTENDS ChildPorts, TLAPS, FiniteSetTheorems

CallSteps      == {"call", "send", "called"}
ReconcileSteps == {"reconcile", "expiry", "conclude", "reconciled"}
ObserveSteps   == {"observe", "note", "observed"}
Materializing  == {"materialize", "materialized"}

\* The order of the children and the state of the secret: the part of the
\* audit that holds whatever is observed.
Ordered ==
    /\ stage[1] # "deferred"
    /\ stage[2] \in {"pending", "externalized", "final", "invalidated"} => Left(1)
    /\ Staged /\ stage[2] # "deferred" => Left(1)
    /\ ~Staged => stage[2] # "deferred"
    /\ agg = "active" <=> ~Left(2)

SecretAudit == secret = ExpectedSecret

\* The job in progress is about a child in the stage it was started from.
JobStage ==
    /\ job.op \in CallSteps \cup ReconcileSteps => stage[job.child] = "pending"
    /\ job.op \in ObserveSteps => Left(job.child) /\ agg # "active"
    /\ job.op \in Materializing => Staged /\ stage[2] = "deferred" /\ Left(1)
    /\ job.op = "send" => job.child = Counterparty
    /\ job.op \in {"expiry", "conclude", "note"} => OnSolana(job.child)

\* The bytes of a Monero sweep may be out, but not behind the back of its row.
Admitted(c) == PortOf(c) = "xmr" /\ row \notin {"none", "signed"}

\* No bytes are out where a not-sent record is about to be or was written.
Sends ==
    /\ row \in {"none", "signed"} => ~sent /\ world[Counterparty] = "held"
    /\ job.op = "send" => row = "attempted"
    /\ job.op = "conclude" /\ job.got = "absent" => root > LastValid
    /\ job.op \in {"called", "reconciled"} /\ job.got = "not_externalized" =>
          \A c \in Children : c = job.child => ~Out(c) \/ Admitted(c)
    /\ NothingLeavesUnrecorded

\* Executed successfully in a block the cluster finalized.
Executed == at \in 1..root /\ ok

Finality ==
    /\ \A n \in Nodes : height[n] <= root
    /\ row = "final" => Executed
    /\ job.op \in {"conclude", "note"} /\ job.got = "finalized" => Executed
    /\ job.op = "observed" /\ OnSolana(job.child) /\ job.got = "final" => Executed
    /\ FinalIsFinalized

IInv == TypeOK /\ Ordered /\ SecretAudit /\ JobStage /\ Sends /\ Finality

\* The aggregate's stage, when only finality is asked for.
Aggregate ==
    /\ agg = "active" => stage[1] \notin {"final", "invalidated"}
    /\ agg = "externalized" => /\ \E c \in Children : stage[c] # "final"
                              /\ \A c \in Children : stage[c] # "invalidated"
    /\ agg = "final" => \A c \in Children : stage[c] = "final"
    /\ agg = "invalidated" => \E c \in Children :
                                 /\ stage[c] = "invalidated"
                                 /\ \A d \in Children \ {c} : stage[d] = "final"
    /\ job.op \in ObserveSteps => \/ stage[job.child] # "final"
                                  \/ \A d \in Children : stage[d] = "final"

-----------------------------------------------------------------------------
(***************************************************************************)
(* Facts the steps share.                                                  *)
(***************************************************************************)

\* A call in progress has a child and a result.
LEMMA InProgress ==
    ASSUME TypeOK, job.op # "idle"
    PROVE  /\ job \in [op : Steps, child : Children, got : Results]
           /\ job.child \in Children
  BY DEF TypeOK, Idle

\* Goto keeps the child.
LEMMA GotoFields ==
    ASSUME TypeOK, job.op # "idle", NEW op, NEW got, Goto(op, got)
    PROVE  job'.op = op /\ job'.got = got /\ job'.child = job.child
  BY InProgress DEF Goto

\* Goto keeps the type of the job.
LEMMA GotoType ==
    ASSUME TypeOK, job.op # "idle", NEW op \in Steps, NEW got \in Results, Goto(op, got)
    PROVE  job' \in [op : Steps, child : Children, got : Results]
  BY Zenon, InProgress DEF Goto

\* A status quorum that is not empty has a voter: what the pool believes about
\* the transaction is true of the cluster.
LEMMA StatusIsTrue ==
    ASSUME TypeOK, Finality, "finalized" \in Status
    PROVE  Executed
  <1>1. Cardinality({n \in Nodes : "finalized" \in Answers(n)}) >= PoolQuorum /\ ok
    BY Zenon DEF Status
  <1>2. PICK n \in Nodes : "finalized" \in Answers(n)
    <2>1. SUFFICES ASSUME {n \in Nodes : "finalized" \in Answers(n)} = {} PROVE FALSE
      OBVIOUS
    <2>2. Cardinality({n \in Nodes : "finalized" \in Answers(n)}) = 0
      BY <2>1, FS_EmptySet
    <2>3. PoolQuorum >= 1
      BY PoolAssumption, FS_CardinalityType
    <2> QED BY <1>1, <2>2, <2>3, PoolAssumption, FS_CardinalityType
  <1>3. at # 0 /\ at <= height[n]
    <2>1. at \in Int /\ height[n] \in Int
      BY PoolAssumption DEF TypeOK, ActuatorType
    <2>2. CASE at = 0
      BY <1>2, <2>2 DEF Answers
    <2>3. CASE at # 0 /\ ~(at <= height[n])
      <3>1. Answers(n) = {"absent", "confirmed"}
        BY <2>1, <2>3 DEF Answers
      <3> QED BY <1>2, <3>1
    <2> QED BY <2>1, <2>2, <2>3
  <1> QED BY <1>1, <1>3, PoolAssumption DEF TypeOK, ActuatorType, Finality, Executed

\* The statuses are among the four the closures know.
LEMMA StatusType == Status \subseteq {"absent", "confirmed", "finalized", "failed"}
  BY Zenon DEF Status

\* A floor is at most the cluster's finalized height.
LEMMA FloorIsReached ==
    ASSUME TypeOK, Finality, NEW floor \in Floors
    PROVE  floor \in Nat /\ floor <= root
  BY PoolAssumption DEF Floors, TypeOK, ActuatorType, Finality

\* The steps of the ports, by what they do.
RowSends     == Externalize \/ ExternalizeEvm \/ ExternalizeBtc \/ ExternalizeXmr
Offers       == SendExact \/ ExternalizeDom \/ ReconcileDom
RowAnswering == ReconcileEvm \/ ReconcileBtc
Observes     == ObserveDom \/ ObserveEvm \/ ObserveBtc \/ ObserveXmr
Refusals     == \/ ExternalizeRefused \/ ReconcileRefused \/ ConcludeRefused
                \/ ObserveRefused \/ NoteRefused \/ Fail

\* The steps that leave the coordinator's rows alone.
Quiet ==
    \/ RowSends \/ Send \/ Offers
    \/ RowAnswering \/ ReconcileXmr \/ ReconcileSigned \/ ReconcileStatus \/ Expiry
    \/ Conclude \/ Materialize \/ Observes \/ ObserveStatus \/ Note
    \/ Refusals
    \/ \E c \in Children : ChainFinal(c) \/ ChainReorg(c)
    \/ Cluster

\* The steps that write them.
Writing ==
    \/ AcknowledgeProgress
    \/ \E c \in Children : StartCall(c) \/ StartReconciliation(c) \/ StartObservation(c)
    \/ StartMaterialization
    \/ Fences
    \/ Called \/ Reconciled \/ Materialized \/ Observed

\* Every step is one or the other.
LEMMA QuietOrWriting == ASSUME Next PROVE Quiet \/ Writing
  BY DEF Next, Process, Quiet, Writing, RowSends, Offers, RowAnswering, Observes, Refusals

\* Only the counterparty has a row, and only DOM has none.
LEMMA PortFacts ==
    ASSUME TypeOK, NEW c
    PROVE  /\ PortOf(c) # "dom" <=> c = Counterparty
           /\ c = Counterparty => PortOf(c) = port
           /\ OnSolana(c) <=> PortOf(c) = "solana"
  BY DEF PortOf, OnSolana, TypeOK, Ports

\* Every counterparty's call records the send first.
LEMMA RowSendsFacts ==
    ASSUME TypeOK, RowSends
    PROVE  /\ job.op = "call" /\ job.child = Counterparty
           /\ row' = "attempted" /\ Goto("send", "nothing")
           /\ InJob /\ UNCHANGED <<noted, cluster, world>>
  BY PortFacts DEF RowSends, Externalize, ExternalizeEvm, ExternalizeBtc, ExternalizeXmr,
                   RecordSend, At, PortIs

\* Bytes are offered after a recorded send, or by the DOM authority.
LEMMA OffersFacts ==
    ASSUME TypeOK, Offers
    PROVE  /\ ~OnSolana(job.child)
           /\ job.op \in {"send", "call", "reconcile"}
           /\ job.op # "send" => job.child # Counterparty
           /\ Offer(IF job.op = "reconcile" THEN "reconciled" ELSE "called")
  <1>1. CASE SendExact
    BY <1>1 DEF SendExact, At
  <1>2. CASE ExternalizeDom
    BY <1>2, PortFacts DEF ExternalizeDom, At, PortIs
  <1>3. CASE ReconcileDom
    BY <1>3, PortFacts DEF ReconcileDom, At, PortIs
  <1> QED BY <1>1, <1>2, <1>3 DEF Offers

\* The answers of the EVM and the Bitcoin row.
LEMMA RowAnsweringFacts ==
    ASSUME TypeOK, RowAnswering
    PROVE  /\ job.op = "reconcile" /\ job.child = Counterparty /\ ~OnSolana(job.child)
           /\ \E got \in RowAnswers : Goto("reconciled", got)
           /\ InJob /\ UNCHANGED <<actuator, cluster, world>>
  <1>1. CASE ReconcileEvm
    BY <1>1, PortFacts DEF ReconcileEvm, At, PortIs
  <1>2. CASE ReconcileBtc
    BY <1>2, PortFacts DEF ReconcileBtc, At, PortIs
  <1> QED BY <1>1, <1>2 DEF RowAnswering

\* An observation of a chain other than Solana changes only the job.
LEMMA ObservesFacts ==
    ASSUME TypeOK, Observes
    PROVE  /\ job.op = "observe" /\ ~OnSolana(job.child)
           /\ Goto("observed", ChainAnswer) /\ ChainAnswer \in {"final", "invalidated", "pending"}
           /\ InJob /\ UNCHANGED <<actuator, cluster, world>>
  <1>1. ChainAnswer \in {"final", "invalidated", "pending"}
    BY DEF ChainAnswer
  <1> QED BY <1>1, PortFacts DEF Observes, ObserveDom, ObserveEvm, ObserveBtc, ObserveXmr,
                                 ObserveChain, At, PortIs

\* A refusal ends the job and changes nothing else.
LEMMA RefusalsFacts ==
    ASSUME Refusals
    PROVE  job' = Idle /\ InJob /\ UNCHANGED <<actuator, cluster, world>>
  BY DEF Refusals, ExternalizeRefused, ReconcileRefused, ConcludeRefused, ObserveRefused,
         NoteRefused, Fail, Refused

\* The Monero port: not sent by the row, absent at this moment, or found.
LEMMA XmrFacts ==
    ASSUME TypeOK, ReconcileXmr
    PROVE  /\ job.op = "reconcile" /\ job.child = Counterparty /\ PortOf(job.child) = "xmr"
           /\ port = "xmr" /\ InJob /\ UNCHANGED <<cluster, world>>
           /\ \E got \in {"unknown", "not_externalized", "externalized"} : Goto("reconciled", got)
           /\ row' = row \/ (row' \in {"attempted", "reconciled"} /\ row \notin {"none", "signed", "final"})
           /\ noted' \in {noted, noted \cup {"reconcile"}}
  <1>1. /\ job.op = "reconcile" /\ PortOf(job.child) = "xmr"
        /\ InJob /\ UNCHANGED <<cluster, world>>
    BY DEF ReconcileXmr, At, PortIs
  <1>2. /\ \E got \in {"unknown", "not_externalized", "externalized"} : Goto("reconciled", got)
        /\ row' = row \/ (row' \in {"attempted", "reconciled"} /\ row \notin {"none", "signed", "final"})
        /\ noted' \in {noted, noted \cup {"reconcile"}}
    BY DEF ReconcileXmr, RowAnswers, ApplyMutation, actuator
  <1> QED BY <1>1, <1>2, PortFacts

\* A quiet step changes no row of the coordinator and no port.
LEMMA QuietKeeps == ASSUME TypeOK, Quiet PROVE UNCHANGED <<coordinator, port>>
  <1>1. CASE RowSends \/ Offers \/ RowAnswering \/ ReconcileXmr \/ Observes \/ Refusals
    BY <1>1, RowSendsFacts, OffersFacts, RowAnsweringFacts, XmrFacts, ObservesFacts,
       RefusalsFacts DEF Offer, InJob
  <1>2. CASE ~(RowSends \/ Offers \/ RowAnswering \/ ReconcileXmr \/ Observes \/ Refusals)
    BY <1>2 DEF Quiet, Send, ReconcileSigned, ReconcileStatus, Expiry, Conclude, Materialize,
                ObserveStatus, Note, ChainFinal, ChainReorg, Cluster, InJob
  <1> QED BY <1>1, <1>2

\* A writing step sends nothing and leaves the cluster alone.
LEMMA WritingKeeps == ASSUME Writing PROVE UNCHANGED <<row, cluster, port, world>>
  BY DEF Writing, AcknowledgeProgress, StartCall, StartReconciliation, StartObservation,
         StartMaterialization, Fences, Called, Reconciled, Materialized, Observed, Refused,
         InJob, Calls, actuator

-----------------------------------------------------------------------------
(***************************************************************************)
(* The type invariant.                                                     *)
(***************************************************************************)

\* The steps that write the coordinator's rows keep the type.
LEMMA WritingType == ASSUME IInv, Writing PROVE TypeOK'
  <1> USE DEF Children
  <1>0. TypeOK /\ UNCHANGED <<row, cluster, port, world>>
    BY WritingKeeps DEF IInv
  <1>1. ActuatorType' /\ port' \in Ports /\ world' \in [Children -> Worlds]
    <2>1. noted' \in SUBSET Attempts
      BY <1>0 DEF TypeOK, ActuatorType, Writing, AcknowledgeProgress, StartCall,
                  StartReconciliation, StartObservation, StartMaterialization, Fences, Called,
                  Reconciled, Materialized, Observed, Refused, actuator
    <2> QED BY <1>0, <2>1 DEF TypeOK, ActuatorType, cluster
  <1>2. job' \in [op : Steps, child : Children, got : Results] \cup {Idle}
    BY <1>0 DEF TypeOK, Writing, AcknowledgeProgress, StartCall, StartReconciliation,
                StartObservation, StartMaterialization, Fences, Called, Reconciled,
                Materialized, Observed, Refused, Begin, Steps, Results
  <1>3. CoordinatorType'
    <2> USE <1>0 DEF TypeOK, CoordinatorType
    <2>1. CASE AcknowledgeProgress
      BY <2>1 DEF AcknowledgeProgress
    <2>2. ASSUME NEW c \in Children, StartCall(c) PROVE CoordinatorType'
      BY Zenon, <2>2 DEF StartCall, PrepareNextChildCall, ChildStages, SecretStates, Requests
    <2>3. ASSUME NEW c \in Children, StartReconciliation(c) PROVE CoordinatorType'
      BY Zenon, <2>3 DEF StartReconciliation, PrepareReconciliation, Requests
    <2>4. ASSUME NEW c \in Children, StartObservation(c) PROVE CoordinatorType'
      BY <2>4 DEF StartObservation, PrepareObservation
    <2>5. CASE StartMaterialization
      BY <2>5 DEF StartMaterialization, PrepareDeferredChild
    <2>6. CASE Fences
      BY Zenon, <2>6 DEF Fences, AcquireTakeoverLease, RenewLease, AcquireObservationLease,
                  RefencePlan, Superseded, Requests
    <2>7. ASSUME NEW c \in Children, NEW outcome, RecordOutcome(c, outcome)
          PROVE  CoordinatorType'
      BY ZenonT(60), <2>7 DEF RecordOutcome, ClearPendingChild, PersistChildExternalized, ChildStages,
                  AggregateStages, SecretStates, Requests
    <2>8. CASE Called
      BY <2>7, <2>8, InProgress DEF Called, At, CompleteChildCall
    <2>9. CASE Reconciled
      BY <2>7, <2>9, InProgress DEF Reconciled, At, CompleteReconciliation
    <2>10. CASE Materialized
      BY Zenon, <2>10 DEF Materialized, InsertDeferredChild, Refused, InJob, coordinator, ChildStages
    <2>11. CASE Observed
      <3>1. job.child \in Children
        BY <2>11, InProgress DEF Observed, At
      <3>2. agg' \in AggregateStages
        BY <2>11, <3>1 DEF Observed, CompleteObservation, AggregateFinality, AggregateStages
      <3>3. stage' \in [Children -> ChildStages]
        BY <2>11, <3>1 DEF Observed, CompleteObservation, ChildStages
      <3> QED BY Zenon, <2>11, <3>2, <3>3 DEF Observed, CompleteObservation
    <2> QED BY <2>1, <2>2, <2>3, <2>4, <2>5, <2>6, <2>8, <2>9, <2>10, <2>11 DEF Writing
  <1> QED BY <1>1, <1>2, <1>3 DEF TypeOK

\* So do the quiet ones.
LEMMA QuietType == ASSUME IInv, Quiet PROVE TypeOK'
  <1>0. TypeOK /\ UNCHANGED <<coordinator, port>>
    BY QuietKeeps DEF IInv
  <1>1. CoordinatorType' /\ port' \in Ports
    BY <1>0 DEF TypeOK, CoordinatorType, coordinator
  <1>2. job' \in [op : Steps, child : Children, got : Results] \cup {Idle}
    <2> USE <1>0, GotoType DEF At, Steps, Results

    <2>1. CASE RowSends
      BY <2>1, RowSendsFacts
    <2>2. CASE Offers
      BY <2>2, OffersFacts DEF Offer
    <2>3. CASE Send
      BY <2>3 DEF Send
    <2>4. CASE RowAnswering
      BY <2>4, RowAnsweringFacts DEF RowAnswers
    <2>5. CASE ReconcileSigned
      BY <2>5 DEF ReconcileSigned
    <2>6. CASE ReconcileStatus
      BY <2>6, StatusType DEF ReconcileStatus
    <2>7. CASE Expiry
      BY <2>7 DEF Expiry
    <2>8. CASE Conclude
      BY <2>8 DEF Conclude
    <2>9. CASE Materialize
      BY <2>9 DEF Materialize
    <2>10. CASE Observes
      BY <2>10, ObservesFacts
    <2>11. CASE ObserveStatus
      BY <2>11, StatusType DEF ObserveStatus, Observation
    <2>12. CASE Note
      BY <2>12 DEF Note, Observation
    <2>13. CASE Refusals
      BY <2>13, RefusalsFacts
    <2>14. CASE Cluster \/ \E c \in Children : ChainFinal(c) \/ ChainReorg(c)
      BY <2>14 DEF Cluster, ChainFinal, ChainReorg, TypeOK
    <2>15. CASE ReconcileXmr
      BY <2>15, XmrFacts
    <2> QED BY <2>1, <2>2, <2>3, <2>4, <2>5, <2>6, <2>7, <2>8, <2>9, <2>10, <2>11, <2>12, <2>13,
               <2>14, <2>15 DEF Quiet
  <1>3. world' \in [Children -> Worlds]
    <2> USE <1>0 DEF TypeOK, Worlds
    <2>1. CASE Offers
      BY <2>1, OffersFacts, InProgress DEF Offer
    <2>2. ASSUME NEW c \in Children, ChainFinal(c) \/ ChainReorg(c)
          PROVE  world' \in [Children -> Worlds]
      BY <2>2 DEF ChainFinal, ChainReorg
    <2>3. CASE UNCHANGED world
      BY <2>3
    <2>4. CASE RowSends \/ RowAnswering \/ ReconcileXmr \/ Observes \/ Refusals
      BY <2>3, <2>4, RowSendsFacts, RowAnsweringFacts, XmrFacts, ObservesFacts, RefusalsFacts
    <2> QED BY <2>1, <2>2, <2>3, <2>4
            DEF Quiet, Send, ReconcileSigned, ReconcileStatus, Expiry, Conclude, Materialize,
                ObserveStatus, Note, Cluster
  <1>4. ActuatorType'
    <2> USE <1>0, PoolAssumption DEF TypeOK, ActuatorType
    <2>1. CASE Cluster
      <3>1. ASSUME NEW h \in 1..LastValid, NEW success \in BOOLEAN, Land(h, success)
            PROVE  ActuatorType'
        BY <3>1 DEF Land, actuator
      <3>2. CASE Drop
        BY <3>2 DEF Drop, actuator
      <3>3. CASE Finalize
        BY <3>3 DEF Finalize, actuator
      <3>4. ASSUME NEW n \in Nodes, CatchUp(n) PROVE ActuatorType'
        BY <3>4 DEF CatchUp, actuator
      <3> QED BY <2>1, <3>1, <3>2, <3>3, <3>4 DEF Cluster
    <2>2. CASE Send
      BY <2>2 DEF Send, actuator
    <2>3. CASE RowSends
      BY <2>3, RowSendsFacts DEF Stages, cluster
    <2>4. CASE Conclude
      BY <2>4 DEF Conclude, ApplyMutation, After, Stages, Attempts, cluster, actuator
    <2>5. CASE Note
      BY <2>5 DEF Note, ApplyMutation, After, Stages, Attempts, cluster, actuator
    <2>6. CASE Materialize
      BY <2>6 DEF Materialize, PrepareSigned, Stages, cluster
    <2>7. CASE UNCHANGED <<actuator, cluster>>
      BY <2>7 DEF actuator, cluster
    <2>8. CASE ReconcileXmr
      BY <2>8, XmrFacts DEF Stages, Attempts, cluster
    <2>9. CASE Offers \/ RowAnswering \/ Observes \/ Refusals
      BY <2>7, <2>9, OffersFacts, RowAnsweringFacts, ObservesFacts, RefusalsFacts DEF Offer
    <2> QED BY <2>1, <2>2, <2>3, <2>4, <2>5, <2>6, <2>7, <2>8, <2>9
            DEF Quiet, ReconcileSigned, ReconcileStatus, Expiry, ObserveStatus, ChainFinal,
                ChainReorg
  <1> QED BY <1>1, <1>2, <1>3, <1>4 DEF TypeOK

-----------------------------------------------------------------------------
(***************************************************************************)
(* Order of the children, and the secret.                                  *)
(***************************************************************************)

\* The prefix of children that left only grows, and the secret state follows it.
LEMMA OrderedStep == ASSUME IInv, Next PROVE Ordered' /\ SecretAudit'
  <1> USE DEF Children
  <1>0. TypeOK /\ CoordinatorType /\ Ordered /\ SecretAudit /\ JobStage
    BY DEF IInv, TypeOK
  <1>1. CASE Quiet
    BY <1>0, <1>1, QuietKeeps
       DEF Ordered, SecretAudit, ExpectedSecret, Staged, Left, coordinator
  <1>2. ASSUME UNCHANGED <<requirement, agg, stage, secret>> PROVE Ordered' /\ SecretAudit'
    BY <1>0, <1>2 DEF Ordered, SecretAudit, ExpectedSecret, Staged, Left
  <1>3. CASE AcknowledgeProgress \/ StartMaterialization \/ Fences
    BY Zenon, <1>2, <1>3 DEF AcknowledgeProgress, StartMaterialization, PrepareDeferredChild, Fences,
                      AcquireTakeoverLease, RenewLease, AcquireObservationLease, RefencePlan
  <1>4. ASSUME NEW c \in Children, StartReconciliation(c) \/ StartObservation(c)
        PROVE  Ordered' /\ SecretAudit'
    BY Zenon, <1>2, <1>4 DEF StartReconciliation, PrepareReconciliation, StartObservation,
                      PrepareObservation
  <1>5. ASSUME NEW c \in Children, StartCall(c) PROVE Ordered' /\ SecretAudit'
    BY <1>0, <1>5 DEF CoordinatorType, StartCall, PrepareNextChildCall, Exposure, Requirements,
                      Ordered, SecretAudit, ExpectedSecret, Staged, Left
  <1>6. ASSUME NEW c \in Children, stage[c] = "pending", NEW outcome, RecordOutcome(c, outcome)
        PROVE  Ordered' /\ SecretAudit'
    <2>1. CASE outcome = "not_externalized"
      BY <1>0, <1>6, <2>1
         DEF CoordinatorType, RecordOutcome, ClearPendingChild, Exposure, Requirements,
             Ordered, SecretAudit, ExpectedSecret, Staged, Left
    <2>2. CASE outcome = "externalized"
      BY <1>0, <1>6, <2>2
         DEF CoordinatorType, RecordOutcome, PersistChildExternalized, Exposure, Requirements,
             Ordered, SecretAudit, ExpectedSecret, Staged, Left
    <2>3. CASE outcome \notin {"not_externalized", "externalized"}
      BY <1>2, <1>6, <2>3 DEF RecordOutcome
    <2> QED BY <2>1, <2>2, <2>3
  <1>7. CASE Called
    BY <1>0, <1>6, <1>7, InProgress DEF Called, At, CompleteChildCall
  <1>8. CASE Reconciled
    BY <1>0, <1>6, <1>8, InProgress DEF Reconciled, At, CompleteReconciliation
  <1>9. CASE Materialized
    <2>1. stage[2] = "deferred" /\ Left(1) /\ Staged
      BY <1>0, <1>9 DEF JobStage, Materialized, At, Materializing
    <2> QED BY <1>0, <1>9, <2>1
            DEF CoordinatorType, Materialized, InsertDeferredChild, Refused, InJob, coordinator,
                Ordered, SecretAudit, ExpectedSecret, Staged, Left
  <1>10. CASE Observed
    <2>1. job.child \in Children /\ Left(job.child) /\ agg # "active"
      BY <1>0, <1>10, InProgress DEF JobStage, Observed, At, ObserveSteps
    <2>2. /\ \A d \in Children : Left(d)' = Left(d)
          /\ UNCHANGED <<requirement, secret>>
          /\ stage' = stage \/ \A d \in Children : stage[d] # "pending" /\ stage'[d] # "pending"
          /\ stage'[1] # "deferred" /\ (stage'[2] = "deferred" => stage[2] = "deferred")
          /\ (stage[2] = "deferred" => stage'[2] = "deferred")
          /\ (stage'[2] = "pending" => stage[2] = "pending")
          /\ (stage'[1] = "pending" <=> stage[1] = "pending")
      BY <1>0, <1>10, <2>1 DEF CoordinatorType, Observed, CompleteObservation, Ordered, Left
    <2>3. agg' # "active" /\ Left(2)
      BY <1>0, <1>10, <2>1 DEF Observed, CompleteObservation, AggregateFinality, Ordered
    <2> QED BY <1>0, <2>1, <2>2, <2>3 DEF Ordered, SecretAudit, ExpectedSecret, Staged, Left
  <1> QED BY <1>1, <1>3, <1>4, <1>5, <1>7, <1>8, <1>9, <1>10, QuietOrWriting DEF Writing

-----------------------------------------------------------------------------
(***************************************************************************)
(* The job and the stage of its child.                                     *)
(***************************************************************************)

\* A call is completed in the stage it was started from: nothing else writes
\* the coordinator while it is in progress.
LEMMA JobStageStep == ASSUME IInv, Next PROVE JobStage'
  <1> USE DEF CallSteps, ReconcileSteps, ObserveSteps, Materializing
  <1>0. TypeOK /\ CoordinatorType /\ Ordered /\ JobStage
    BY DEF IInv, TypeOK
  <1>1. ASSUME job' = Idle PROVE JobStage'
    BY <1>1 DEF JobStage, Idle
  <1>2. ASSUME UNCHANGED <<coordinator, port, job>> PROVE JobStage'
    BY <1>0, <1>2 DEF JobStage, coordinator, Left, OnSolana, Counterparty, Staged
  <1>3. CASE Called \/ Reconciled \/ Materialized \/ Observed \/ Refusals
    BY <1>1, <1>3, RefusalsFacts DEF Called, Reconciled, Materialized, Observed, Refused
  <1>4. CASE Cluster \/ \E c \in Children : ChainFinal(c) \/ ChainReorg(c)
    BY <1>2, <1>4 DEF Cluster, ChainFinal, ChainReorg
  <1>5. CASE AcknowledgeProgress \/ Fences
    <2>1. job = Idle /\ job' = job
      BY <1>5 DEF AcknowledgeProgress, Fences, Free
    <2> QED BY <1>1, <2>1
  <1>6. ASSUME NEW c \in Children,
               StartCall(c) \/ StartReconciliation(c) \/ StartObservation(c)
        PROVE  JobStage'
    <2>1. CASE StartCall(c)
      <3>1. job'.op = "call" /\ job'.child = c /\ stage'[c] = "pending"
        BY <1>0, <2>1 DEF CoordinatorType, StartCall, PrepareNextChildCall, Begin
      <3> QED BY <3>1 DEF JobStage
    <2>2. CASE StartReconciliation(c)
      <3>1. job'.op = "reconcile" /\ job'.child = c /\ stage'[c] = "pending"
        BY <2>2 DEF StartReconciliation, PrepareReconciliation, Begin
      <3> QED BY <3>1 DEF JobStage
    <2>3. CASE StartObservation(c)
      <3>1. job'.op = "observe" /\ job'.child = c /\ Left(c)' /\ agg' # "active"
        BY <2>3 DEF StartObservation, PrepareObservation, Begin, Left
      <3> QED BY <3>1 DEF JobStage, Left
    <2> QED BY <1>6, <2>1, <2>2, <2>3
  <1>7. CASE StartMaterialization
    BY <1>7 DEF JobStage, StartMaterialization, PrepareDeferredChild, Begin, Left, Staged
  <1>8. ASSUME NEW op, NEW got, Goto(op, got), job.op # "idle", UNCHANGED <<coordinator, port>>,
               \/ job.op \in CallSteps /\ op \in CallSteps
               \/ job.op \in ReconcileSteps /\ op \in ReconcileSteps
               \/ job.op \in ObserveSteps /\ op \in ObserveSteps
               \/ job.op \in Materializing /\ op \in Materializing,
               op = "send" => job.child = Counterparty,
               op \in {"expiry", "conclude", "note"} => OnSolana(job.child)
        PROVE  JobStage'
    BY <1>0, <1>8, GotoFields DEF JobStage, coordinator, Left, OnSolana, Counterparty, Staged
  <1>9. CASE RowSends \/ Send
    BY <1>0, <1>8, <1>9, RowSendsFacts DEF Send, At, InJob
  <1>10. CASE Offers
    BY <1>0, <1>8, <1>10, OffersFacts DEF Offer, InJob
  <1>11. CASE RowAnswering \/ ReconcileXmr
    BY <1>0, <1>8, <1>11, RowAnsweringFacts, XmrFacts DEF InJob
  <1>17. CASE ReconcileSigned \/ Conclude
    BY <1>8, <1>17 DEF ReconcileSigned, Conclude, At, InJob
  <1>12. CASE ReconcileStatus
    BY <1>8, <1>12 DEF ReconcileStatus, At, InJob
  <1>13. CASE Expiry
    BY <1>0, <1>8, <1>13 DEF Expiry, At, InJob, JobStage
  <1>14. CASE Materialize
    BY <1>8, <1>14 DEF Materialize, At, InJob
  <1>15. CASE Observes \/ Note
    BY <1>0, <1>8, <1>15, ObservesFacts DEF Note, At, InJob
  <1>16. CASE ObserveStatus
    BY <1>8, <1>16 DEF ObserveStatus, At, InJob
  <1> QED BY <1>3, <1>4, <1>5, <1>6, <1>7, <1>9, <1>10, <1>11, <1>12, <1>13, <1>14, <1>15,
             <1>16, <1>17, QuietOrWriting DEF Quiet, Writing

-----------------------------------------------------------------------------
(***************************************************************************)
(* What left, and what is recorded.                                        *)
(***************************************************************************)

\* A step that writes the coordinator moves no bytes and begins or ends a job.
LEMMA WritingFacts ==
    ASSUME IInv, Writing
    PROVE  /\ UNCHANGED <<requirement, row, sent, at, ok, root, height, port, world>>
           /\ job'.op \in {"idle", "call", "reconcile", "observe", "materialize"}
           /\ Counterparty' = Counterparty
           /\ \A c \in Children : /\ OnSolana(c)' = OnSolana(c) /\ Out(c)' = Out(c)
                                 /\ PortOf(c)' = PortOf(c)
  <1>1. UNCHANGED <<row, sent, at, ok, root, height, port, world>>
    BY WritingKeeps DEF cluster
  <1>2. UNCHANGED requirement
    BY Zenon DEF Writing, AcknowledgeProgress, StartCall, PrepareNextChildCall, StartReconciliation,
           PrepareReconciliation, StartObservation, PrepareObservation, StartMaterialization,
           PrepareDeferredChild, Fences, AcquireTakeoverLease, RenewLease,
           AcquireObservationLease, RefencePlan, Called, CompleteChildCall, Reconciled,
           CompleteReconciliation, RecordOutcome, Materialized, InsertDeferredChild, Refused,
           InJob, coordinator, Observed, CompleteObservation
  <1>3. job'.op \in {"idle", "call", "reconcile", "observe", "materialize"}
    BY DEF Writing, AcknowledgeProgress, StartCall, StartReconciliation, StartObservation,
           StartMaterialization, Fences, Free, Called, Reconciled, Materialized, Refused,
           Observed, Begin, Idle
  <1> QED BY <1>1, <1>2, <1>3 DEF OnSolana, PortOf, Counterparty, Out, Staged

\* A quiet step leaves the plan, hence which port a child has, alone.
LEMMA QuietFacts ==
    ASSUME TypeOK, Quiet
    PROVE  /\ UNCHANGED <<requirement, agg, stage, port>>
           /\ Counterparty' = Counterparty
           /\ \A c \in Children : OnSolana(c)' = OnSolana(c) /\ PortOf(c)' = PortOf(c)
  BY QuietKeeps DEF coordinator, OnSolana, PortOf, Counterparty, Staged

\* What a step of RecordOutcome clears was proven not to be out.
LEMMA SendsWriting == ASSUME IInv, Writing PROVE Sends'
  <1> USE DEF Children
  <1>0. TypeOK /\ CoordinatorType /\ JobStage /\ Sends
    BY DEF IInv, TypeOK
  <1>1. ASSUME NEW c \in Children, stage'[c] \in {"deferred", "planned"}
        PROVE  /\ ~Out(c) \/ Admitted(c)
               /\ stage'[c] = "deferred" => ~Out(c)
    <2>1. CASE stage'[c] = stage[c] \/ (stage[c] = "deferred" /\ stage'[c] = "planned")
      BY <1>0, <1>1, <2>1 DEF Sends, NothingLeavesUnrecorded, Admitted
    <2>2. ASSUME stage'[c] # stage[c], stage[c] # "deferred" \/ stage'[c] # "planned"
          PROVE  /\ Called \/ Reconciled
                 /\ job.got = "not_externalized" /\ job.child = c /\ stage'[c] = "planned"
      <3>1. stage' # stage
        BY <1>1, <2>2
      <3>2. \A d \in Children : ~StartReconciliation(d) /\ ~StartObservation(d)
        BY Zenon, <3>1 DEF StartReconciliation, PrepareReconciliation, StartObservation,
                    PrepareObservation
      <3>3. \A d \in Children : ~StartCall(d)
        BY <1>0, <1>1, <2>2 DEF CoordinatorType, StartCall, PrepareNextChildCall
      <3>4. ~AcknowledgeProgress /\ ~StartMaterialization /\ ~Fences
        BY Zenon, <3>1 DEF AcknowledgeProgress, StartMaterialization, PrepareDeferredChild, Fences,
                    AcquireTakeoverLease, RenewLease, AcquireObservationLease, RefencePlan
      <3>5. ~Materialized
        BY <1>0, <1>1, <2>2
           DEF CoordinatorType, JobStage, Materialized, At, Materializing, InsertDeferredChild,
               Refused, InJob, coordinator
      <3>6. ~Observed
        BY <1>0, <1>1, <2>2 DEF CoordinatorType, Observed, CompleteObservation
      <3>7. ASSUME NEW d \in Children, NEW outcome, RecordOutcome(d, outcome)
            PROVE  outcome = "not_externalized" /\ d = c /\ stage'[c] = "planned"
        BY <1>0, <1>1, <2>2, <3>7 DEF CoordinatorType, RecordOutcome, ClearPendingChild,
                                      PersistChildExternalized
      <3>8. CASE Called
        BY <1>0, <3>7, <3>8, InProgress DEF Called, At, CompleteChildCall
      <3>9. CASE Reconciled
        BY <1>0, <3>7, <3>9, InProgress DEF Reconciled, At, CompleteReconciliation
      <3> QED BY <3>2, <3>3, <3>4, <3>5, <3>6, <3>8, <3>9 DEF Writing
    <2>3. CASE stage'[c] # stage[c] /\ (stage[c] # "deferred" \/ stage'[c] # "planned")
      BY <1>0, <2>2, <2>3 DEF Sends, Called, Reconciled, At
    <2> QED BY <2>1, <2>3
  <1>2. NothingLeavesUnrecorded'
    BY <1>1, WritingFacts DEF NothingLeavesUnrecorded, Admitted
  <1> QED BY <1>0, <1>2, WritingFacts DEF Sends

\* Bytes go out only inside a call, and a verdict of not-sent is proven.
LEMMA SendsQuiet == ASSUME IInv, Quiet PROVE Sends'
  <1> USE DEF Children
  <1>0. /\ TypeOK /\ ActuatorType /\ JobStage /\ Sends /\ Finality
        /\ UNCHANGED <<requirement, agg, stage, port>>
        /\ Counterparty' = Counterparty /\ Counterparty \in Children
        /\ \A c \in Children : OnSolana(c)' = OnSolana(c) /\ PortOf(c)' = PortOf(c)
    BY QuietFacts DEF IInv, TypeOK, Counterparty
  <1>1. ASSUME \A c \in Children : Out(c)' => Out(c),
               row' \in {"none", "signed"} => row \in {"none", "signed"},
               row' \in {"none", "signed"} => ~sent' /\ world'[Counterparty] = "held",
               job'.op = "send" => row' = "attempted",
               job'.op = "conclude" /\ job'.got = "absent" => root' > LastValid,
               job'.op \in {"called", "reconciled"} /\ job'.got = "not_externalized"
                  => \A c \in Children : c = job'.child => ~Out(c)' \/ Admitted(c)
        PROVE  Sends'
    BY <1>0, <1>1 DEF Sends, NothingLeavesUnrecorded, Admitted
  <1>2. ASSUME UNCHANGED <<row, cluster, world>>,
               job'.op # "send",
               job'.op = "conclude" /\ job'.got = "absent" => root > LastValid,
               job'.op \in {"called", "reconciled"} /\ job'.got = "not_externalized"
                  => \A c \in Children : c = job'.child => ~Out(c)
        PROVE  Sends'
    <2>1. \A c \in Children : Out(c)' = Out(c)
      BY <1>0, <1>2 DEF Out, cluster
    <2> QED BY <1>0, <1>1, <1>2, <2>1 DEF Sends, cluster
  <1>3. CASE Refusals
    BY <1>2, <1>3, RefusalsFacts DEF Idle, actuator
  <1>4. CASE Offers
    <2>0. /\ job.op \in {"send", "call", "reconcile"} /\ ~OnSolana(job.child)
          /\ job.child \in Children /\ stage[job.child] = "pending"
          /\ job.op # "send" => job.child # Counterparty
          /\ job.op = "send" => row = "attempted"
      BY <1>0, <1>4, OffersFacts, InProgress DEF JobStage, CallSteps, ReconcileSteps, Sends
    <2>1. PICK w \in {world[job.child], "sent"}, got \in {"unknown", "externalized"} :
             /\ world' = [world EXCEPT ![job.child] = w]
             /\ Goto(IF job.op = "reconcile" THEN "reconciled" ELSE "called", got)
      BY Zenon, <1>0, <1>4, OffersFacts DEF Offer
    <2>2. /\ UNCHANGED <<row, cluster, noted>>
          /\ job'.op \in {"called", "reconciled"} /\ job'.got # "not_externalized"
      BY <1>0, <1>4, <2>0, <2>1, OffersFacts, GotoFields DEF Offer, actuator
    <2>3. \A c \in Children : c # job.child => Out(c)' = Out(c)
      BY <1>0, <2>0, <2>1, <2>2 DEF Out, cluster, TypeOK
    <2>4. row \in {"none", "signed"} => ~sent' /\ world'[Counterparty] = "held"
      BY <1>0, <2>0, <2>1, <2>2 DEF Sends, cluster, TypeOK
    <2>5. NothingLeavesUnrecorded'
      BY <1>0, <2>0, <2>2, <2>3 DEF Sends, NothingLeavesUnrecorded
    <2> QED BY <1>0, <2>2, <2>4, <2>5 DEF Sends, cluster
  <1>5. CASE RowSends
    <2>1. job'.op = "send" /\ row' = "attempted" /\ UNCHANGED <<cluster, world>>
      BY <1>0, <1>5, RowSendsFacts, GotoFields
    <2>2. \A c \in Children : Out(c)' = Out(c)
      BY <1>0, <2>1 DEF Out, cluster
    <2> QED BY <1>1, <2>1, <2>2
  <1>6. CASE Send
    <2>1. /\ job.op = "send" /\ row = "attempted" /\ UNCHANGED <<row, root, world>>
          /\ job.child \in Children /\ OnSolana(job.child) /\ stage[job.child] = "pending"
      BY <1>0, <1>6, InProgress DEF Send, At, Sends, JobStage, CallSteps, actuator
    <2>2. job'.op = "called" /\ job'.got # "not_externalized"
      BY <1>0, <1>6, <2>1, GotoFields DEF Send
    <2>3. \A c \in Children : c # job.child => Out(c)' = Out(c)
      BY <1>0, <2>1 DEF Out, OnSolana
    <2>4. NothingLeavesUnrecorded'
      BY <1>0, <2>1, <2>3 DEF Sends, NothingLeavesUnrecorded
    <2> QED BY <1>0, <2>1, <2>2, <2>4 DEF Sends
  <1>7. CASE RowAnswering
    <2>1. job.child \in Children /\ job.op = "reconcile" /\ job.child = Counterparty
      BY <1>0, <1>7, RowAnsweringFacts, InProgress
    <2>2. /\ job'.op = "reconciled" /\ job'.child = job.child
          /\ job'.got = "not_externalized" => row = "signed"
      BY <1>0, <1>7, <2>1, RowAnsweringFacts, GotoFields DEF RowAnswers
    <2>3. row = "signed" => ~Out(job.child)
      BY <1>0, <1>7, <2>1, RowAnsweringFacts DEF Sends, Out
    <2> QED BY <1>0, <1>2, <1>7, <2>1, <2>2, <2>3, RowAnsweringFacts DEF actuator
  <1>17. CASE ReconcileXmr
    <2>1. /\ job.child \in Children /\ job.op = "reconcile" /\ job.child = Counterparty
          /\ PortOf(job.child) = "xmr" /\ ~OnSolana(job.child) /\ UNCHANGED <<cluster, world>>
      BY <1>0, <1>17, XmrFacts, InProgress DEF OnSolana
    <2>2. job'.op = "reconciled" /\ job'.child = job.child
      BY <1>0, <1>17, <2>1, XmrFacts, GotoFields
    <2>3. job'.got = "not_externalized" => row # "none"
      BY <1>0, <1>17, <2>1, GotoFields DEF ReconcileXmr, RowAnswers
    <2>4. row = "signed" => ~Out(job.child)
      BY <1>0, <2>1 DEF Sends, Out
    <2>5. \A c \in Children : Out(c)' = Out(c)
      BY <1>0, <2>1 DEF Out, cluster
    <2>6. row' \in {"none", "signed"} => row' = row
      BY <1>0, <1>17, XmrFacts
    <2>7. row # "none" => ~Out(job.child) \/ Admitted(job.child)
      BY <2>1, <2>4 DEF Admitted
    <2> QED BY <1>0, <1>1, <2>1, <2>2, <2>3, <2>5, <2>6, <2>7 DEF Sends, cluster
  <1>8. CASE ReconcileSigned
    <2>1. job.child \in Children /\ job.op = "reconcile"
      BY <1>0, <1>8, InProgress DEF ReconcileSigned, At
    <2>2. job'.op = "reconciled" /\ job'.child = job.child
      BY <1>0, <1>8, <2>1, GotoFields DEF ReconcileSigned
    <2>3. ~Out(job.child)
      BY <1>0, <1>8 DEF ReconcileSigned, Sends, Out
    <2> QED BY <1>2, <1>8, <2>1, <2>2, <2>3 DEF ReconcileSigned, actuator
  <1>9. CASE ReconcileStatus
    <2>1. /\ job'.op \in {"expiry", "conclude"}
          /\ job'.op = "conclude" => job'.got # "absent"
      BY <1>0, <1>9, GotoFields DEF ReconcileStatus, At
    <2> QED BY <1>2, <1>9, <2>1 DEF ReconcileStatus, actuator
  <1>10. CASE Expiry
    <2>1. PICK floor \in Floors :
             IF floor <= LastValid THEN Goto("reconciled", "unknown")
                                   ELSE Goto("conclude", "absent")
      BY <1>10 DEF Expiry
    <2>2. floor \in Nat /\ floor <= root
      BY <1>0, FloorIsReached
    <2>3. /\ job'.op = "reconciled" => job'.got = "unknown"
          /\ job'.op = "conclude" => ~(floor <= LastValid)
          /\ job'.op \in {"reconciled", "conclude"}
      BY <1>0, <1>10, <2>1, GotoFields DEF Expiry, At
    <2>4. job'.op = "conclude" => root > LastValid
      BY SMT, SMTT(30), <1>0, <2>2, <2>3, PoolAssumption DEF ActuatorType
    <2> QED BY <1>2, <1>10, <2>3, <2>4 DEF Expiry, actuator
  <1>11. CASE Conclude
    <2>1. job.op = "conclude" /\ job.child \in Children /\ OnSolana(job.child)
      BY <1>0, <1>11, InProgress DEF Conclude, At, JobStage
    <2>2. /\ job'.op = "reconciled" /\ job'.child = job.child
          /\ job'.got = "not_externalized" => job.got = "absent"
      BY <1>0, <1>11, <2>1, GotoFields DEF Conclude
    <2>3. \A c \in Children : Out(c)' = Out(c)
      BY <1>0, <1>11 DEF Conclude, Out, cluster
    <2>4. job.got = "absent" => ~Out(job.child)
      BY <1>0, <2>1, PoolAssumption DEF Sends, Out, ActuatorType
    <2>5. row' = row \/ row' \in {"invalidated", "final", "observed", "reconciled"}
      BY <1>11 DEF Conclude, ApplyMutation, After, actuator
    <2> QED BY <1>0, <1>1, <1>11, <2>1, <2>2, <2>3, <2>4, <2>5 DEF Conclude, Sends, cluster
  <1>12. CASE Note
    <2>1. job'.op = "observed"
      BY <1>0, <1>12, GotoFields DEF Note, At
    <2>2. \A c \in Children : Out(c)' = Out(c)
      BY <1>0, <1>12 DEF Note, Out, cluster
    <2>3. row' = row \/ row' \in {"invalidated", "final", "observed", "reconciled"}
      BY <1>12 DEF Note, ApplyMutation, After, actuator
    <2> QED BY <1>0, <1>1, <1>12, <2>1, <2>2, <2>3 DEF Note, Sends, cluster
  <1>13. CASE Materialize
    <2>1. job'.op = "materialized"
      BY <1>0, <1>13, GotoFields DEF Materialize, At
    <2>2. \A c \in Children : Out(c)' = Out(c)
      BY <1>0, <1>13 DEF Materialize, Out, cluster
    <2>3. row' = row \/ row = "none"
      BY <1>13 DEF Materialize, PrepareSigned
    <2> QED BY <1>0, <1>1, <1>13, <2>1, <2>2, <2>3 DEF Materialize, Sends, cluster
  <1>14. CASE Observes \/ ObserveStatus
    <2>1. job'.op \in {"observed", "note"} /\ UNCHANGED <<row, cluster, world>>
      BY <1>0, <1>14, ObservesFacts, GotoFields DEF ObserveStatus, At, actuator
    <2> QED BY <1>2, <2>1
  <1>15. ASSUME NEW c \in Children, ChainFinal(c) \/ ChainReorg(c) PROVE Sends'
    <2>1. UNCHANGED <<row, cluster, job>>
      BY <1>15 DEF ChainFinal, ChainReorg, actuator
    <2>2. \A d \in Children : Out(d)' = Out(d)
      BY <1>0, <1>15, <2>1 DEF ChainFinal, ChainReorg, Out, cluster, TypeOK
    <2>3. job.op \in {"called", "reconciled"} => job.child \in Children
      BY <1>0, InProgress
    <2>4. \A d \in Children : world[d] = "held" => world'[d] = "held"
      BY <1>0, <1>15 DEF ChainFinal, ChainReorg, TypeOK
    <2> QED BY <1>0, <1>1, <2>1, <2>2, <2>3, <2>4 DEF Sends, cluster
  <1>16. CASE Cluster
    <2>1. UNCHANGED <<row, sent, world, job>>
      BY <1>16 DEF Cluster, Land, Drop, Finalize, CatchUp, actuator
    <2>2. root' \in Int /\ root' >= root
      BY <1>0, <1>16, PoolAssumption
         DEF Cluster, Land, Drop, Finalize, CatchUp, ActuatorType
    <2>3. \A c \in Children : Out(c)' => Out(c)
      BY <1>0, <2>1, <2>2, PoolAssumption DEF Out, ActuatorType
    <2>4. job.op \in {"called", "reconciled"} => job.child \in Children
      BY <1>0, InProgress
    <2>5. root > LastValid => root' > LastValid
      BY <1>0, <2>2, PoolAssumption DEF ActuatorType
    <2> QED BY <1>0, <1>1, <2>1, <2>3, <2>4, <2>5 DEF Sends
  <1> QED BY <1>3, <1>4, <1>5, <1>6, <1>7, <1>8, <1>9, <1>10, <1>11, <1>12, <1>13, <1>14,
             <1>15, <1>16, <1>17 DEF Quiet

-----------------------------------------------------------------------------
(***************************************************************************)
(* Finality.                                                               *)
(***************************************************************************)

\* Only the cluster moves the cluster; a send adds a transaction to it.
LEMMA ClusterMoves ==
    ASSUME TypeOK, Quiet, ~Cluster PROVE UNCHANGED <<at, ok, root, height>>
  <1>1. CASE RowSends \/ Offers \/ RowAnswering \/ ReconcileXmr \/ Observes \/ Refusals
    BY <1>1, RowSendsFacts, OffersFacts, RowAnsweringFacts, XmrFacts, ObservesFacts,
       RefusalsFacts DEF Offer, cluster
  <1>2. CASE ~(RowSends \/ Offers \/ RowAnswering \/ ReconcileXmr \/ Observes \/ Refusals)
    BY Zenon, <1>2 DEF Quiet, Send, ReconcileSigned, ReconcileStatus, Expiry, Conclude,
                Materialize, ObserveStatus, Note, ChainFinal, ChainReorg, cluster
  <1> QED BY <1>1, <1>2

\* A finalized execution is never undone.
LEMMA ExecutedIsStable == ASSUME TypeOK, Finality, Next, Executed PROVE Executed'
  <1>1. CASE UNCHANGED <<at, ok, root>>
    BY <1>1 DEF Executed
  <1>2. CASE Cluster
    <2>0. at \in Int /\ root \in Int /\ at >= 1 /\ at <= root /\ ok
      BY PoolAssumption DEF Executed, TypeOK, ActuatorType
    <2>1. ASSUME NEW h, NEW success, Land(h, success) PROVE FALSE
      BY <2>0, <2>1 DEF Land
    <2>2. ~(at > root)
      BY <2>0
    <2>3. CASE Finalize
      BY <2>0, <2>3 DEF Finalize, Executed
    <2>4. ASSUME NEW n \in Nodes, CatchUp(n) PROVE Executed'
      BY <1>1, <2>4 DEF CatchUp
    <2> QED BY <1>2, <2>1, <2>2, <2>3, <2>4 DEF Cluster, Drop
  <1>3. CASE Writing
    BY <1>1, <1>3, WritingKeeps DEF cluster
  <1>4. CASE Quiet /\ ~Cluster
    BY <1>1, <1>4, ClusterMoves
  <1> QED BY <1>2, <1>3, <1>4, QuietOrWriting

\* No node runs ahead of the cluster.
LEMMA HeightsFollow ==
    ASSUME TypeOK, Finality, Next PROVE \A n \in Nodes : height'[n] <= root'
  <1>1. CASE UNCHANGED <<root, height>>
    BY <1>1 DEF Finality
  <1>2. CASE Cluster
    BY <1>2, PoolAssumption DEF Cluster, Land, Drop, Finalize, CatchUp, Finality, TypeOK,
                                ActuatorType
  <1>3. CASE Writing
    BY <1>1, <1>3, WritingKeeps DEF cluster
  <1>4. CASE Quiet /\ ~Cluster
    BY <1>1, <1>4, ClusterMoves
  <1> QED BY <1>2, <1>3, <1>4, QuietOrWriting

\* Only a child whose observation answered final becomes final.
LEMMA FinalityWriting == ASSUME IInv, Next, Writing PROVE Finality'
  <1> USE DEF Children
  <1>0. TypeOK /\ CoordinatorType /\ Finality
    BY DEF IInv, TypeOK
  <1>1. \A n \in Nodes : height'[n] <= root'
    BY <1>0, HeightsFollow
  <1>2. row' = "final" => Executed'
    BY <1>0, WritingFacts, ExecutedIsStable DEF Finality
  <1>3. job'.op \notin {"conclude", "note", "observed"}
    BY WritingFacts
  <1>4. ASSUME NEW c \in Children, OnSolana(c), stage'[c] = "final" PROVE Executed
    <2>1. CASE stage[c] = "final"
      BY <1>0, <1>4, <2>1 DEF Finality, FinalIsFinalized, Executed
    <2>2. ASSUME stage[c] # "final" PROVE Observed /\ job.got = "final" /\ job.child = c
      <3>1. stage' # stage
        BY <1>4, <2>2
      <3>2. \A d \in Children : ~StartReconciliation(d) /\ ~StartObservation(d)
        BY Zenon, <3>1 DEF StartReconciliation, PrepareReconciliation, StartObservation,
                    PrepareObservation
      <3>3. \A d \in Children : ~StartCall(d)
        BY <1>0, <1>4, <2>2 DEF CoordinatorType, StartCall, PrepareNextChildCall
      <3>4. ~AcknowledgeProgress /\ ~StartMaterialization /\ ~Fences
        BY Zenon, <3>1 DEF AcknowledgeProgress, StartMaterialization, PrepareDeferredChild, Fences,
                    AcquireTakeoverLease, RenewLease, AcquireObservationLease, RefencePlan
      <3>5. ~Materialized
        BY <1>0, <1>4, <2>2 DEF CoordinatorType, Materialized, InsertDeferredChild, Refused,
                                InJob, coordinator
      <3>6. ASSUME NEW d \in Children, NEW outcome PROVE ~RecordOutcome(d, outcome)
        BY <1>0, <1>4, <2>2 DEF CoordinatorType, RecordOutcome, ClearPendingChild,
                                PersistChildExternalized
      <3>7. ~Called
        BY <1>0, <3>6, InProgress DEF Called, At, CompleteChildCall
      <3>8. ~Reconciled
        BY <1>0, <3>6, InProgress DEF Reconciled, At, CompleteReconciliation
      <3>9. Observed
        BY <3>2, <3>3, <3>4, <3>5, <3>7, <3>8 DEF Writing
      <3>10. job.child \in Children
        BY <1>0, <3>9, InProgress DEF Observed, At
      <3> QED BY <1>0, <1>4, <2>2, <3>9, <3>10 DEF CoordinatorType, Observed,
                                                    CompleteObservation
    <2>3. CASE stage[c] # "final"
      BY <1>0, <1>4, <2>2, <2>3 DEF Finality, Observed, At
    <2> QED BY <2>1, <2>3
  <1>5. FinalIsFinalized'
    <2>1. SUFFICES ASSUME NEW c \in Children, OnSolana(c)', stage'[c] = "final" PROVE Executed'
      BY DEF FinalIsFinalized, Executed
    <2>2. Executed
      BY <1>4, <2>1, WritingFacts
    <2> QED BY <1>0, <2>2, ExecutedIsStable
  <1> QED BY <1>1, <1>2, <1>3, <1>5 DEF Finality

\* The row is final only when a quorum reported a finalized execution.
LEMMA FinalityQuiet == ASSUME IInv, Next, Quiet PROVE Finality'
  <1> USE DEF Children
  <1>0. /\ TypeOK /\ JobStage /\ Finality
        /\ UNCHANGED <<requirement, agg, stage, port>>
        /\ \A c \in Children : OnSolana(c)' = OnSolana(c)
        /\ Counterparty' = Counterparty
    BY QuietFacts DEF IInv
  <1>1. Executed => Executed'
    BY <1>0, ExecutedIsStable
  <1>2. /\ \A n \in Nodes : height'[n] <= root'
        /\ FinalIsFinalized'
    BY <1>0, <1>1, HeightsFollow DEF Finality, FinalIsFinalized, Executed
  <1>3. ASSUME row' = "final" => Executed,
               job'.op \in {"conclude", "note"} /\ job'.got = "finalized" => Executed,
               job'.op = "observed" /\ job'.got = "final" =>
                  Executed \/ \E c \in Children : c = job'.child /\ ~OnSolana(c)
        PROVE  Finality'
    <2>1. job'.op = "observed" /\ OnSolana(job.child)' /\ job'.got = "final" => Executed
      BY <1>0, <1>3 DEF OnSolana
    <2> QED BY <1>1, <1>2, <1>3, <2>1 DEF Finality
  <1>4. CASE Refusals
    <2>1. job'.op = "idle" /\ UNCHANGED row
      BY <1>4, RefusalsFacts DEF Idle, actuator
    <2> QED BY <1>0, <1>3, <2>1 DEF Finality
  <1>5. CASE RowSends \/ Send \/ Offers \/ RowAnswering \/ ReconcileXmr \/ ReconcileSigned
             \/ Materialize
    <2>1. job'.op \in {"called", "send", "reconciled", "materialized"}
      <3>1. CASE RowSends \/ Offers
        BY <1>0, <3>1, RowSendsFacts, OffersFacts, GotoFields DEF Offer
      <3>2. CASE RowAnswering \/ ReconcileXmr
        BY <1>0, <3>2, RowAnsweringFacts, XmrFacts, GotoFields
      <3>3. CASE Send \/ ReconcileSigned \/ Materialize
        BY <1>0, <3>3, GotoFields DEF Send, ReconcileSigned, Materialize, At
      <3> QED BY <1>5, <3>1, <3>2, <3>3
    <2>2. row' = "final" => row = "final"
      <3>1. CASE RowSends \/ Offers \/ RowAnswering \/ ReconcileXmr
        BY <1>0, <3>1, RowSendsFacts, OffersFacts, RowAnsweringFacts, XmrFacts
           DEF Offer, actuator
      <3>2. CASE Send \/ ReconcileSigned \/ Materialize
        BY <3>2 DEF Send, ReconcileSigned, Materialize, PrepareSigned, actuator
      <3> QED BY <1>5, <3>1, <3>2
    <2> QED BY <1>0, <1>3, <2>1, <2>2 DEF Finality
  <1>6. CASE ReconcileStatus
    <2>1. /\ job'.op \in {"expiry", "conclude"}
          /\ job'.got \in Status
          /\ UNCHANGED row
      BY <1>0, <1>6, GotoFields DEF ReconcileStatus, At, actuator
    <2> QED BY <1>0, <1>3, <2>1, StatusIsTrue DEF Finality
  <1>7. CASE Expiry
    <2>1. /\ job'.got \in {"absent", "unknown"} /\ job'.op \in {"reconciled", "conclude"}
          /\ UNCHANGED row
      BY <1>0, <1>7, GotoFields DEF Expiry, At, actuator
    <2> QED BY <1>0, <1>3, <2>1 DEF Finality
  <1>8. CASE Conclude
    <2>1. job.op = "conclude" /\ job'.op = "reconciled"
      BY <1>0, <1>8, GotoFields DEF Conclude, At
    <2>2. row' = row \/ row' = After(job.got)
      BY <1>8 DEF Conclude, ApplyMutation, actuator
    <2>3. After(job.got) = "final" => job.got = "finalized"
      BY DEF After
    <2> QED BY <1>0, <1>3, <2>1, <2>2, <2>3 DEF Finality
  <1>9. CASE Observes
    <2>1. /\ job'.op = "observed" /\ job'.child = job.child /\ UNCHANGED row
          /\ ~OnSolana(job.child) /\ job.child \in Children
      BY <1>0, <1>9, ObservesFacts, GotoFields, InProgress DEF actuator
    <2> QED BY <1>0, <1>3, <2>1 DEF Finality
  <1>10. CASE ObserveStatus
    <2>1. PICK v \in Status :
             Goto(IF v = "absent" THEN "observed" ELSE "note",
                  IF v = "absent" THEN Observation(row) ELSE v)
      BY <1>10 DEF ObserveStatus
    <2>2. UNCHANGED row /\ job.op = "observe"
      BY <1>10 DEF ObserveStatus, At, actuator
    <2>3. CASE v = "absent"
      <3>1. job'.op = "observed" /\ job'.got = Observation(row)
        BY <1>0, <2>1, <2>2, <2>3, GotoFields
      <3> QED BY <1>0, <1>3, <2>2, <3>1 DEF Finality, Observation
    <2>4. CASE v # "absent"
      <3>1. job'.op = "note" /\ job'.got = v
        BY <1>0, <2>1, <2>2, <2>4, GotoFields
      <3> QED BY <1>0, <1>3, <2>1, <2>2, <3>1, StatusIsTrue DEF Finality
    <2> QED BY <2>3, <2>4
  <1>11. CASE Note
    <2>1. job.op = "note" /\ job'.op = "observed" /\ job'.got = Observation(row')
      BY <1>0, <1>11, GotoFields DEF Note, At
    <2>2. row' = row \/ row' = After(job.got)
      BY <1>11 DEF Note, ApplyMutation, actuator
    <2>3. After(job.got) = "final" => job.got = "finalized"
      BY DEF After
    <2>4. row' = "final" => Executed
      BY <1>0, <2>1, <2>2, <2>3 DEF Finality
    <2>5. Observation(row') = "final" => row' = "final"
      BY DEF Observation
    <2> QED BY <1>3, <2>1, <2>4, <2>5
  <1>12. CASE Cluster \/ \E c \in Children : ChainFinal(c) \/ ChainReorg(c)
    <2>1. UNCHANGED <<row, job>>
      BY <1>12 DEF Cluster, Land, Drop, Finalize, CatchUp, ChainFinal, ChainReorg, actuator
    <2>2. OnSolana(job.child)' => OnSolana(job.child)
      BY <1>0, <2>1 DEF OnSolana
    <2> QED BY <1>0, <1>1, <1>2, <2>1, <2>2 DEF Finality
  <1> QED BY <1>4, <1>5, <1>6, <1>7, <1>8, <1>9, <1>10, <1>11, <1>12 DEF Quiet

-----------------------------------------------------------------------------
(***************************************************************************)
(* The invariant, and the theorems.                                        *)
(***************************************************************************)

\* The invariant holds of every plan as it is installed.
LEMMA InitIInv == ASSUME Init PROVE IInv
  <1> USE DEF Children
  <1>1. requirement \in Requirements /\ port \in Ports
    BY PlansAssumption DEF Init
  <1>2. TypeOK
    <2>1. CoordinatorType
      BY Zenon, <1>1 DEF Init, CoordinatorInit, CoordinatorType, Staged, AggregateStages, ChildStages,
                  SecretStates, Requests
    <2>2. ActuatorType
      <3>1. row \in Stages
        BY DEF Init, Stages
      <3>2. 0 \in 0..LastValid /\ 0 \in 0..MaxHeight
        BY PoolAssumption
      <3> QED BY Zenon, <3>1, <3>2 DEF Init, ClusterInit, ActuatorType
    <2> QED BY <1>1, <2>1, <2>2 DEF Init, TypeOK, Worlds
  <1>3. Ordered /\ SecretAudit
    BY <1>1 DEF Init, CoordinatorInit, Ordered, SecretAudit, ExpectedSecret, Requirements,
                Staged, Left
  <1>4. JobStage
    BY DEF Init, JobStage, Idle, CallSteps, ReconcileSteps, ObserveSteps, Materializing
  <1>5. Sends
    BY DEF Init, ClusterInit, Sends, NothingLeavesUnrecorded, Out, Idle, Counterparty
  <1>6. Finality
    BY PoolAssumption DEF Init, CoordinatorInit, ClusterInit, Finality, FinalIsFinalized, Idle
  <1> QED BY <1>2, <1>3, <1>4, <1>5, <1>6 DEF IInv

\* Every step preserves it.
LEMMA StepIInv == ASSUME IInv, [Next]_vars PROVE IInv'
  <1>1. CASE Next
    BY <1>1, QuietOrWriting, QuietType, WritingType, OrderedStep, JobStageStep, SendsQuiet,
       SendsWriting, FinalityQuiet, FinalityWriting DEF IInv
  <1>2. CASE UNCHANGED vars
    <2> USE <1>2 DEF vars, coordinator, actuator, cluster
    <2>1. TypeOK'
      BY DEF IInv, TypeOK, CoordinatorType, ActuatorType
    <2>2. Ordered' /\ SecretAudit' /\ JobStage'
      BY DEF IInv, Ordered, SecretAudit, ExpectedSecret, JobStage, Staged, Left, OnSolana,
                   Counterparty
    <2>3. Sends'
      BY DEF IInv, Sends, NothingLeavesUnrecorded, Admitted, Out, PortOf, OnSolana, Counterparty,
             Staged
    <2>4. Finality'
      BY DEF IInv, Finality, FinalIsFinalized, Executed, OnSolana, Counterparty, Staged
    <2> QED BY <2>1, <2>2, <2>3, <2>4 DEF IInv
  <1> QED BY <1>1, <1>2

\* The inductive invariant of the bridge: types, order of the children, secret,
\* the stage behind each call in progress, what is out and what is finalized.
THEOREM BridgeInvariant == Spec => []IInv
  BY InitIInv, StepIInv, PTL DEF Spec

\* The plan's stages, the calls in progress and the clusters stay well formed.
THEOREM BridgeTypeCorrect == Spec => []TypeOK
  <1>1. IInv => TypeOK
    BY DEF IInv
  <1> QED BY <1>1, BridgeInvariant, PTL

\* No bytes that can still take effect are out for a child the plan holds to be
\* unsent, for every pool, quorum and lag, and any crash or takeover between
\* the steps of a call (prepare_next_child_call before the port is called,
\* SendAttempted before a node is, expiry before ProvenNotExternalized).  A
\* Monero sweep reported absent may be on its way, and its row says so.
THEOREM UnsentIsUnsent == Spec => []NothingLeavesUnrecorded
  <1>1. IInv => NothingLeavesUnrecorded
    BY DEF IInv, Sends
  <1> QED BY <1>1, BridgeInvariant, PTL

\* The plan admits a possible exposure before the secret leaves, and the second
\* claim exists only once the secret is public (audit_aggregate_state).
THEOREM ExposureIsAdmitted == Spec => []ExposureIsRecorded
  <1>1. ASSUME IInv PROVE ExposureIsRecorded
    <2> USE DEF Children
    <2>1. SUFFICES ASSUME Staged
                   PROVE  /\ Out(1) => secret # "private"
                          /\ stage[2] # "deferred" \/ Out(2) => secret = "public"
      BY DEF ExposureIsRecorded
    <2>2. /\ TypeOK /\ CoordinatorType /\ Ordered /\ SecretAudit
          /\ NothingLeavesUnrecorded
      BY <1>1 DEF IInv, TypeOK, Sends
    <2>3. Out(1) => stage[1] \notin {"deferred", "planned"}
      BY <2>1, <2>2 DEF NothingLeavesUnrecorded, PortOf, Counterparty
    <2>4. Out(2) => stage[2] # "deferred"
      BY <2>2 DEF NothingLeavesUnrecorded
    <2>5. stage[2] # "deferred" => Left(1)
      BY <2>1, <2>2 DEF Ordered
    <2>6. Left(1) => secret = "public"
      BY <2>1, <2>2 DEF SecretAudit, ExpectedSecret, Staged, Left
    <2>7. stage[1] \notin {"deferred", "planned"} => stage[1] = "pending" \/ Left(1)
      BY <2>2 DEF CoordinatorType, ChildStages, Left
    <2>8. stage[1] = "pending" => secret = "possible"
      BY <2>1, <2>2 DEF SecretAudit, ExpectedSecret, Staged, Left
    <2> QED BY <2>3, <2>4, <2>5, <2>6, <2>7, <2>8
  <1> QED BY <1>1, BridgeInvariant, PTL

\* A Solana child the plan records as final was executed successfully in a
\* finalized block, whatever quorum of truthful nodes answered (promote_final).
THEOREM FinalityIsReal == Spec => []FinalIsFinalized
  <1>1. IInv => FinalIsFinalized
    BY DEF IInv, Finality
  <1> QED BY <1>1, BridgeInvariant, PTL

-----------------------------------------------------------------------------
(***************************************************************************)
(* The audit, when only finality is asked for.                             *)
(***************************************************************************)

\* The aggregate follows its children: a child is invalidated only when both
\* were final, since a finality query selects the first that is not.
LEMMA AggregateStep ==
    ASSUME Queries \subseteq {"finality"}, IInv, Aggregate, Next
    PROVE  Aggregate'
  <1> USE DEF Children, ObserveSteps
  <1>0. TypeOK /\ CoordinatorType /\ Ordered /\ JobStage
    BY DEF IInv, TypeOK
  <1>1. ASSUME UNCHANGED <<agg, stage>>,
               job'.op \in ObserveSteps =>
                  \/ job.op \in ObserveSteps /\ job'.child = job.child
                  \/ stage[job'.child] # "final"
                  \/ \A d \in Children : stage[d] = "final"
        PROVE  Aggregate'
    BY <1>1 DEF Aggregate
  <1>2. CASE Quiet
    <2>1. UNCHANGED <<agg, stage>>
      BY <1>0, <1>2, QuietFacts
    <2>2. job'.op \in ObserveSteps => job.op \in ObserveSteps /\ job'.child = job.child
      <3>1. CASE RowSends \/ Offers
        BY <1>0, <3>1, RowSendsFacts, OffersFacts, GotoFields DEF Offer
      <3>2. CASE ReconcileStatus \/ Expiry
        BY <1>0, <3>2, GotoFields DEF ReconcileStatus, Expiry, At
      <3>3. CASE Observes \/ ObserveStatus \/ Note
        BY <1>0, <3>3, ObservesFacts, GotoFields DEF ObserveStatus, Note, At
      <3>4. CASE Refusals
        BY <3>4, RefusalsFacts DEF Idle
      <3>6. CASE RowAnswering \/ ReconcileXmr
        BY <1>0, <3>6, RowAnsweringFacts, XmrFacts, GotoFields
      <3>7. CASE Send \/ ReconcileSigned \/ Conclude \/ Materialize
        BY <1>0, <3>7, GotoFields DEF Send, ReconcileSigned, Conclude, Materialize, At
      <3>5. CASE Cluster \/ \E c \in Children : ChainFinal(c) \/ ChainReorg(c)
        BY <3>5 DEF Cluster, ChainFinal, ChainReorg
      <3> QED BY <1>2, <3>1, <3>2, <3>3, <3>4, <3>5, <3>6, <3>7 DEF Quiet
    <2> QED BY <1>1, <2>1, <2>2
  <1>3. CASE AcknowledgeProgress \/ StartMaterialization \/ Fences
    <2>1. job'.op \notin ObserveSteps
      BY <1>3 DEF AcknowledgeProgress, StartMaterialization, Fences, Free, Begin, Idle
    <2> QED BY Zenon, <1>1, <1>3, <2>1
            DEF AcknowledgeProgress, StartMaterialization, PrepareDeferredChild, Fences,
                AcquireTakeoverLease, RenewLease, AcquireObservationLease, RefencePlan
  <1>4. ASSUME NEW c \in Children, StartReconciliation(c) PROVE Aggregate'
    BY <1>1, <1>4 DEF StartReconciliation, PrepareReconciliation, Begin
  <1>5. ASSUME NEW c \in Children, StartObservation(c) PROVE Aggregate'
    <2>1. stage[c] # "final" \/ \A d \in Children : stage[d] = "final"
      BY <1>5 DEF StartObservation, PrepareObservation, Selected
    <2> QED BY <1>1, <1>5, <2>1 DEF StartObservation, PrepareObservation, Begin
  <1>6. ASSUME NEW c \in Children, StartCall(c) PROVE Aggregate'
    BY <1>0, <1>6 DEF Aggregate, CoordinatorType, StartCall, PrepareNextChildCall, Begin
  <1>7. ASSUME NEW c \in Children, stage[c] = "pending", NEW outcome, RecordOutcome(c, outcome),
               job' = Idle
        PROVE  Aggregate'
    <2>1. agg = "active" /\ stage[1] \notin {"final", "invalidated"}
      BY <1>0, <1>7 DEF Aggregate, Ordered, Left
    <2>2. CASE outcome = "not_externalized"
      BY <1>0, <1>7, <2>1, <2>2 DEF Aggregate, CoordinatorType, RecordOutcome,
                                    ClearPendingChild, Idle
    <2>3. CASE outcome = "externalized"
      <3>1. /\ stage' = [stage EXCEPT ![c] = "externalized"] /\ job'.op = "idle"
            /\ agg' = IF \A d \in Children \ {c} : Left(d) THEN "externalized" ELSE "active"
        BY <1>7, <2>1, <2>3 DEF RecordOutcome, PersistChildExternalized, Idle
      <3>2. CASE c = 1
        BY <1>0, <2>1, <3>1, <3>2 DEF Aggregate, CoordinatorType, Ordered, Left
      <3>3. CASE c = 2
        BY <1>0, <1>7, <2>1, <3>1, <3>3 DEF Aggregate, CoordinatorType, Ordered, Left
      <3> QED BY <3>2, <3>3
    <2>4. CASE outcome \notin {"not_externalized", "externalized"}
      BY <1>1, <1>7, <2>4 DEF RecordOutcome, Idle
    <2> QED BY <2>2, <2>3, <2>4
  <1>8. CASE Called
    BY <1>0, <1>7, <1>8, InProgress DEF Called, At, CompleteChildCall
  <1>9. CASE Reconciled
    BY <1>0, <1>7, <1>9, InProgress DEF Reconciled, At, CompleteReconciliation
  <1>10. CASE Materialized
    <2>1. /\ UNCHANGED agg /\ job' = Idle
          /\ stage' = stage \/ stage' = [stage EXCEPT ![2] = "planned"]
          /\ stage[2] = "deferred" /\ agg = "active"
      BY <1>0, <1>10 DEF JobStage, Ordered, Left, Materializing, Materialized, At,
                         InsertDeferredChild, Refused, InJob, coordinator
    <2> QED BY <1>0, <2>1 DEF Aggregate, CoordinatorType, Idle
  <1>11. CASE Observed
    <2>1. /\ job.op = "observed" /\ job.child \in Children /\ job' = Idle
          /\ agg # "active" /\ \A d \in Children : Left(d)
      BY <1>0, <1>11, InProgress DEF Observed, At, JobStage, Ordered, Left
    <2>2. stage[job.child] # "final" \/ \A d \in Children : stage[d] = "final"
      BY <2>1 DEF Aggregate
    <2>3. CompleteObservation(job.child, job.got)
      BY <1>11 DEF Observed
    <2>4. CASE job.got = "pending"
      BY <1>1, <2>1, <2>3, <2>4 DEF CompleteObservation, Idle
    <2>5. CASE job.got = "final"
      BY <1>0, <2>1, <2>2, <2>3, <2>5 DEF Aggregate, CoordinatorType, AggregateStages,
                                          CompleteObservation, AggregateFinality, Idle
    <2>6. CASE job.got = "invalidated"
      BY <1>0, <2>1, <2>2, <2>3, <2>6 DEF Aggregate, CoordinatorType, CompleteObservation, Idle
    <2> QED BY <2>3, <2>4, <2>5, <2>6 DEF CompleteObservation
  <1> QED BY <1>2, <1>3, <1>4, <1>5, <1>6, <1>8, <1>9, <1>10, <1>11, QuietOrWriting DEF Writing

\* With the finality queries the route driver puts, the store never writes a
\* plan that the audit of a later load (audit_aggregate_state) refuses.
THEOREM AuditNeverRefuses ==
    ASSUME Queries \subseteq {"finality"}
    PROVE  Spec => []AuditAccepts
  <1>1. Init => Aggregate
    BY DEF Init, CoordinatorInit, Aggregate, Staged, Children, Idle, ObserveSteps
  <1>2. ASSUME IInv, Aggregate, [Next]_vars PROVE Aggregate'
    <2>1. CASE Next
      BY <1>2, <2>1, AggregateStep
    <2>2. CASE UNCHANGED vars
      BY <1>2, <2>2 DEF Aggregate, vars, coordinator
    <2> QED BY <1>2, <2>1, <2>2
  <1>3. IInv /\ Aggregate => AuditAccepts
    BY DEF IInv, Aggregate, Ordered, SecretAudit, AuditAccepts, Audited, Left
  <1> QED BY <1>1, <1>2, <1>3, BridgeInvariant, PTL DEF Spec
=============================================================================
