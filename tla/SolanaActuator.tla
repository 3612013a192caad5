--------------------------- MODULE SolanaActuator ---------------------------
(***************************************************************************)
(* The durable Solana actuator, its quorum pool of RPC nodes, and the      *)
(* cluster they report on.                                                 *)
(*                                                                         *)
(* One operation row retains one signed transaction for good; only its     *)
(* stage moves.  The pool believes what at least Quorum nodes say alike.   *)
(* The cluster (external) may execute the bytes at a height up to the      *)
(* blockhash's last valid one, drop them with an unfinalized fork, and     *)
(* execute them again.  Nodes are truthful, may fail to answer, and lag.   *)
(***************************************************************************)
EXTENDS Integers, FiniteSets

CONSTANTS
    Nodes,          \* the configured nodes of the pool
    PoolQuorum,     \* quorum
    LastValid,      \* last_valid_block_height of the retained bytes
    MaxHeight,      \* bound: the highest finalized height considered
    MaxSpread       \* MAX_QUORUM_HEIGHT_SPREAD_V1

\* SolanaRpcPool::new, and a blockhash that was valid when it was fetched.
ASSUME PoolAssumption ==
    /\ IsFiniteSet(Nodes)
    /\ PoolQuorum \in 1..Cardinality(Nodes)
    /\ LastValid \in Nat \ {0}
    /\ MaxHeight \in Nat
    /\ MaxSpread \in Nat

VARIABLES
    row,        \* stage of the operation row, "none" before it is signed
    noted,      \* the open attempts whose mutation is already recorded
    sent,       \* some node was offered the bytes
    at,         \* height the bytes are executed at, 0 if they are not
    ok,         \* the execution succeeded
    root,       \* the cluster's finalized height
    height      \* the finalized height each node reports

actuator == <<row, noted>>
cluster  == <<sent, at, ok, root, height>>

Stages   == {"none", "signed", "attempted", "observed", "final", "reconciled", "invalidated"}
Attempts == {"reconcile", "observe"}

ActuatorType ==
    /\ row \in Stages
    /\ noted \in SUBSET Attempts
    /\ sent \in BOOLEAN
    /\ at \in 0..LastValid
    /\ ok \in BOOLEAN
    /\ root \in 0..MaxHeight
    /\ height \in [Nodes -> 0..MaxHeight]

ClusterInit ==
    /\ noted = {}
    /\ sent = FALSE
    /\ at = 0
    /\ ok = FALSE
    /\ root = 0
    /\ height = [n \in Nodes |-> 0]

-----------------------------------------------------------------------------
(***************************************************************************)
(* The cluster.                                                            *)
(***************************************************************************)

Land(h, success) ==
    /\ sent
    /\ at = 0
    /\ h \in (root + 1)..LastValid
    /\ at' = h
    /\ ok' = success
    /\ UNCHANGED <<actuator, sent, root, height>>

Drop ==
    /\ at > root
    /\ at' = 0
    /\ UNCHANGED <<actuator, sent, ok, root, height>>

Finalize ==
    /\ row # "none"
    /\ root < MaxHeight
    /\ root' = root + 1
    /\ UNCHANGED <<actuator, sent, at, ok, height>>

CatchUp(n) ==
    /\ height[n] < root
    /\ height' = [height EXCEPT ![n] = root]
    /\ UNCHANGED <<actuator, sent, at, ok, root>>

-----------------------------------------------------------------------------
(***************************************************************************)
(* The pool.                                                               *)
(***************************************************************************)

\* get_signature_status of one node that answers.
Answers(n) ==
    CASE at = 0               -> {"absent"}
      [] at \in 1..height[n]  -> {"finalized"}
      [] OTHER                -> {"absent", "confirmed"}

\* signature_status: what Quorum nodes can agree on; "failed" at any level.
Status ==
    {IF v # "absent" /\ ~ok THEN "failed" ELSE v :
        v \in {w \in {"absent", "confirmed", "finalized"} :
                  Cardinality({n \in Nodes : w \in Answers(n)}) >= PoolQuorum}}

\* finalized_block_height_floor: the lowest of Quorum heights that are within
\* MaxSpread of each other, whichever nodes answer.
Floors ==
    {height[n] : n \in {m \in Nodes :
        \E Q \in SUBSET Nodes :
            /\ m \in Q
            /\ Cardinality(Q) = PoolQuorum
            /\ \A k \in Q : height[k] \in height[m]..(height[m] + MaxSpread)}}

-----------------------------------------------------------------------------
(***************************************************************************)
(* The row's transitions.  ObserveFrom(v) and ReconcileFrom(v) are the     *)
(* stages from which the closure for vote v accepts; the rest is Conflict. *)
(***************************************************************************)

PrepareSigned == row' = IF row = "none" THEN "signed" ELSE row

MayBroadcast == row \in {"signed", "attempted"}

ObserveFrom(v) ==
    CASE v = "failed"    -> Stages \ {"invalidated"}
      [] v = "finalized" -> Stages \ {"invalidated"}
      [] OTHER           -> {"signed", "attempted"}

\* Mutant: finality is accepted only while the row's rank is below it.
ReconcileFromBelow(v) ==
    CASE v = "failed" -> Stages \ {"invalidated"}
      [] v \in {"finalized", "confirmed"} -> {"signed", "attempted", "observed"}
      [] OTHER -> {"signed", "attempted"}

ReconcileFrom(v) ==
    CASE v = "failed"    -> Stages \ {"invalidated"}
      [] v = "finalized" -> Stages \ {"invalidated"}
      [] v = "confirmed" -> {"signed", "attempted", "observed"}
      [] OTHER           -> {"signed", "attempted"}

\* Mutant: a confirmed transaction counts as final.
AfterEager(v) ==
    CASE v = "failed" -> "invalidated"
      [] v \in {"finalized", "confirmed"} -> "final"
      [] OTHER -> "reconciled"

After(v) ==
    CASE v = "failed"    -> "invalidated"
      [] v = "finalized" -> "final"
      [] v = "confirmed" -> "observed"
      [] OTHER           -> "reconciled"

\* apply_mutation: a replayed attempt returns the row as it is.
ApplyMutation(kind, from, to) ==
    \/ /\ kind \in noted
       /\ UNCHANGED actuator
    \/ /\ kind \notin noted
       /\ row \in from
       /\ row' = to
       /\ noted' = noted \cup {kind}

Conflicts(kind, from) == kind \notin noted /\ row \notin from
=============================================================================
