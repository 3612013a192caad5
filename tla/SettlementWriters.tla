------------------------- MODULE SettlementWriters -------------------------
(***************************************************************************)
(* Several engine processes on the database of one settlement.  A writer   *)
(* runs SettlementEngine::ingest on one event at a time, each of its store *)
(* calls a transaction of its own; a dispatcher runs the outbox half of a  *)
(* tick.  Both may crash between any two transactions, and leases run out  *)
(* under a dispatcher that is still working.                               *)
(*                                                                         *)
(* What is delivered, and in what order, is left to the environment: any   *)
(* event of Deliverable, any number of times.  That covers every scan,     *)
(* redelivery, reordering and policy decision of an engine.                *)
(***************************************************************************)
EXTENDS SettlementStore

CONSTANTS Writers,
          Dispatchers,
          Deliverable,   \* the events the environment delivers
          MaxJournal     \* bound: no delivery once the journal has this many rows

ASSUME DeliverableAssumption == Deliverable \subseteq Events
ASSUME MaxJournalAssumption  == MaxJournal \in Nat

VARIABLES
    pc,        \* writer -> the store call it makes next, or "idle"
    env,       \* writer -> the event it ingests
    snap,      \* writer -> the snapshot it loaded
    seen,      \* writer -> whether committed_event found the event
    attempt,   \* writer -> 0 or 1, the attempt of SettlementEngine::ingest
    claimed,   \* dispatcher -> effects claimed and not executed yet
    executed,  \* dispatcher -> effects executed and not completed yet
    external   \* effects some sink has executed

writerVars     == <<pc, env, snap, seen, attempt>>
dispatcherVars == <<claimed, executed, external>>
vars == <<storeVars, writerVars, dispatcherVars>>

PCs == {"idle", "load", "lookup", "invalidate_again", "commit"}

AnyEvent == [kind |-> "RefundArmed"]

Init ==
    /\ StoreInit
    /\ pc = [w \in Writers |-> "idle"]
    /\ env = [w \in Writers |-> AnyEvent]
    /\ snap = [w \in Writers |-> NewContext]
    /\ seen = [w \in Writers |-> FALSE]
    /\ attempt = [w \in Writers |-> 0]
    /\ claimed = [d \in Dispatchers |-> {}]
    /\ executed = [d \in Dispatchers |-> {}]
    /\ external = {}

-----------------------------------------------------------------------------
(* Writers *)

\* The writer forgets what it was doing: end of ingest, or a crash.
Forget(w) ==
    /\ pc' = [pc EXCEPT ![w] = "idle"]
    /\ env' = [env EXCEPT ![w] = AnyEvent]
    /\ snap' = [snap EXCEPT ![w] = NewContext]
    /\ seen' = [seen EXCEPT ![w] = FALSE]
    /\ attempt' = [attempt EXCEPT ![w] = 0]

\* A delivered event starts with the load of the snapshot.
Begin(w) ==
    /\ pc[w] = "idle"
    /\ Len(journal) < MaxJournal
    /\ \E e \in Deliverable :
          /\ e.kind # "ReorgInvalidated"
          /\ env' = [env EXCEPT ![w] = e]
    /\ snap' = [snap EXCEPT ![w] = ctx]
    /\ pc' = [pc EXCEPT ![w] = "lookup"]
    /\ UNCHANGED <<storeVars, seen, attempt, dispatcherVars>>

\* A reorg record starts with the invalidation of the rows it covers.
BeginReorg(w) ==
    /\ pc[w] = "idle"
    /\ Len(journal) < MaxJournal
    /\ \E e \in Deliverable :
          /\ e.kind = "ReorgInvalidated"
          /\ env' = [env EXCEPT ![w] = e]
          /\ InvalidateEvidenceFrom(e.from_height)
    /\ pc' = [pc EXCEPT ![w] = "load"]
    /\ UNCHANGED <<snap, seen, attempt, dispatcherVars>>

Load(w) ==
    /\ pc[w] = "load"
    /\ snap' = [snap EXCEPT ![w] = ctx]
    /\ pc' = [pc EXCEPT ![w] = "lookup"]
    /\ UNCHANGED <<storeVars, env, seen, attempt, dispatcherVars>>

\* ingest_event invalidates once more before it commits a new reorg.
Lookup(w) ==
    /\ pc[w] = "lookup"
    /\ seen' = [seen EXCEPT ![w] = Journalled(env[w])]
    /\ pc' = [pc EXCEPT ![w] =
                 IF /\ env[w].kind = "ReorgInvalidated"
                    /\ ~Journalled(env[w])
                    /\ Accepts(snap[w], env[w])
                 THEN "invalidate_again" ELSE "commit"]
    /\ UNCHANGED <<storeVars, env, snap, attempt, dispatcherVars>>

InvalidateAgain(w) ==
    /\ pc[w] = "invalidate_again"
    /\ InvalidateEvidenceFrom(env[w].from_height)
    /\ pc' = [pc EXCEPT ![w] = "commit"]
    /\ UNCHANGED <<env, snap, seen, attempt, dispatcherVars>>

\* The cursor that comes with the event: an observation moves it to its block.
CursorOf(e) ==
    IF e.kind \in {"FundingObserved", "ClaimEvidenceVerified"}
    THEN e.evidence.anchor ELSE NoCursor

\* A lost CAS is retried once, from the load.
Retries(w) ==
    /\ IngestOutcome(snap[w], seen[w], env[w]) = "Conflict"
    /\ attempt[w] = 0

\* The transaction of the chosen arm.
Commit(w) ==
    /\ pc[w] = "commit"
    /\ IngestWrite(snap[w], seen[w], env[w], CursorOf(env[w]))
    /\ IF Retries(w)
       THEN /\ pc' = [pc EXCEPT ![w] = "load"]
            /\ attempt' = [attempt EXCEPT ![w] = @ + 1]
            /\ UNCHANGED <<env, snap, seen>>
       ELSE Forget(w)
    /\ UNCHANGED dispatcherVars

WriterCrash(w) ==
    /\ pc[w] # "idle"
    /\ Forget(w)
    /\ UNCHANGED <<storeVars, dispatcherVars>>

-----------------------------------------------------------------------------
(* Dispatchers *)

Claim(d) ==
    /\ claimed[d] = {}
    /\ executed[d] = {}
    /\ Ready # {}
    /\ claimed' = [claimed EXCEPT ![d] = Ready]
    /\ ClaimReady
    /\ UNCHANGED <<executed, external, writerVars>>

\* The sink did the work (Completed); complete_effect is a later transaction.
Execute(d) ==
    /\ executed[d] = {}
    /\ \E f \in claimed[d] :
          /\ claimed' = [claimed EXCEPT ![d] = @ \ {f}]
          /\ executed' = [executed EXCEPT ![d] = {f}]
          /\ external' = external \cup {f}
    /\ UNCHANGED <<storeVars, writerVars>>

\* RetryLater or Rejected: the row stays pending under its lease.
Decline(d) ==
    /\ executed[d] = {}
    /\ \E f \in claimed[d] : claimed' = [claimed EXCEPT ![d] = @ \ {f}]
    /\ UNCHANGED <<storeVars, writerVars, executed, external>>

Complete(d) ==
    /\ \E f \in executed[d] : CompleteEffect(f)
    /\ executed' = [executed EXCEPT ![d] = {}]
    /\ UNCHANGED <<writerVars, claimed, external>>

DispatcherCrash(d) ==
    /\ claimed[d] \cup executed[d] # {}
    /\ claimed' = [claimed EXCEPT ![d] = {}]
    /\ executed' = [executed EXCEPT ![d] = {}]
    /\ UNCHANGED <<storeVars, writerVars, external>>

Expire ==
    /\ \E f \in leased : LeaseExpires(f)
    /\ UNCHANGED <<writerVars, dispatcherVars>>

-----------------------------------------------------------------------------
Next ==
    \/ \E w \in Writers : \/ Begin(w) \/ BeginReorg(w) \/ Load(w) \/ Lookup(w)
                          \/ InvalidateAgain(w) \/ Commit(w) \/ WriterCrash(w)
    \/ \E d \in Dispatchers : \/ Claim(d) \/ Execute(d) \/ Decline(d)
                              \/ Complete(d) \/ DispatcherCrash(d)
    \/ Expire

Spec == Init /\ [][Next]_vars

-----------------------------------------------------------------------------
(* Properties *)

\* Every variable has its type; in particular a writer that lost the compare-and-
\* swap of its revision retries at most once.
TypeOK ==
    /\ StoreTypeOK
    /\ pc \in [Writers -> PCs]
    /\ env \in [Writers -> Events]
    /\ snap \in [Writers -> Contexts]
    /\ seen \in [Writers -> BOOLEAN]
    /\ attempt \in [Writers -> {0, 1}]
    /\ claimed \in [Dispatchers -> SUBSET Effects]
    /\ executed \in [Dispatchers -> SUBSET Effects]
    /\ external \subseteq Effects

\* No commit ever reaches the inserts with an outbox or terminal key that is
\* already there ("a PK conflict here is corruption").
NoKeyConflict ==
    \A w \in Writers :
        pc[w] = "commit" => IngestOutcome(snap[w], seen[w], env[w]) # "Corrupt"

\* An evidence row is Applied only if the event it belongs to was committed:
\* no redelivery, reaffirmation or reorg promotes a row that was only parked.
\* The policy derives confirmations from Applied rows.
AppliedWasCommitted == \A e \in Rows("Applied") : Journalled(e)

\* Persist before effect: whatever a sink executed is the effect of a journalled
\* event, in the context that event was accepted in, and funding is authorised
\* only in a settlement whose refund path is armed.
EffectsFollowTheJournal ==
    \A f \in external :
        /\ \E i \in DOMAIN journal : /\ journal[i].event = f.source
                                     /\ f \in EffectsOf(ContextAfter(i - 1), f.source)
        /\ f.kind = "AuthorizeFunding" => ctx.refund_path_armed

\* Once a terminal row is durable, no step of any process changes the context,
\* the journal, the terminal row or the outbox's set of effects: late evidence
\* and stale writers have no economic effect.
TerminalIsFinal ==
    [][terminal # {} => /\ UNCHANGED <<ctx, journal, terminal, cursor>>
                        /\ DOMAIN outbox' = DOMAIN outbox]_vars

\* An effect that was completed is never pending again, though the event that
\* produced it may be committed a second time as a refresh.
CompletedStaysCompleted ==
    [][\A f \in DOMAIN outbox :
          outbox[f] = "Completed" => f \in DOMAIN outbox' /\ outbox'[f] = "Completed"]_vars
=============================================================================
