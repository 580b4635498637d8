------------------------------ MODULE Runtime ------------------------------
(***************************************************************************)
(* ResolutionRuntime of li-runtime over the ledger, the hot workspace and  *)
(* the host graph.  process_batch commits a batch of evidence, infers and  *)
(* decides, commits the resolutions and the host writes they imply, brings *)
(* the workspace up to date and delivers the writes, each confirmed by a   *)
(* receipt.  retry_materialization delivers one that was left pending.     *)
(*                                                                         *)
(* The runtime owns the ledger and its calls take &mut self: one call runs *)
(* at a time.  A restart keeps the ledger and the host and loses the rest. *)
(***************************************************************************)
EXTENDS LedgerProperties, HostGraph

CONSTANTS
    Batch,            \* the batches callers may submit, sequences of evidence
    Outcome,          \* the actions providers, solver and policy may come to
    LastId,           \* where each identifier sequence ends (u64::MAX, all of them)
    HistoryCapacity,  \* the observations a hot identity remembers
    MaxRestarts       \* bound: how often the process is started again

ASSUME RuntimeAssumption ==
    /\ LastId \in
          [{"transactions", "inferences", "decisions", "identities", "materializations"} ->
               Nat \ {0}]
    /\ HistoryCapacity \in Nat /\ MaxRestarts \in Nat
    /\ Outcome \subseteq Action

(* An identifier, and a key, is a number the pool gives out. *)
ASSUME PoolAssumption ==
    /\ 1..(LastId.transactions - 1) \subseteq Transaction \cap Key
    /\ 1..(LastId.inferences - 1) \subseteq Inference
    /\ 1..(LastId.decisions - 1) \subseteq Decision
    /\ 1..(LastId.identities - 1) \subseteq Identity
    /\ 1..(LastId.materializations - 1) \subseteq Materialization

(* Batches hold observations that Observation::new has let through. *)
ASSUME BatchAssumption ==
    \A b \in Batch :
        /\ b \in Seq([observation: Observation, supersedes: Observation \cup {None}])
        /\ \A i \in DOMAIN b : b[i].supersedes # b[i].observation

VARIABLES
    ids,        \* the pool: the next number of each sequence
    call,       \* the call that is running; its phase is "idle" if none is
    workspace,  \* identity -> the version applied and the history
    result,     \* what the last call returned
    restarts

runtimevars == <<ids, call, workspace, result, restarts>>
allvars == <<vars, hostvars, runtimevars>>

FreshIds == [s \in DOMAIN LastId |-> 1]

NoCall ==
    [phase |-> "idle",
     since |-> 0,           \* the ledger version when the call began
     batch |-> <<>>,        \* process_batch: its observations
     retried |-> None,      \* retry_materialization: its argument
     persistence |-> None,  \* the transaction that persists the batch
     reached |-> 0,         \* phase.version: the last version committed
     provenance |-> FALSE,  \* there are providers to sign the inferences
     decisions |-> <<>>,    \* the decisions so far
     commands |-> <<>>,     \* the commands so far
     associations |-> <<>>, \* what the workspace has to apply
     writes |-> <<>>,       \* the host writes to deliver
     pending |-> <<>>]      \* the host writes that failed

NoResult ==
    [answer |-> "None", since |-> 0, batch |-> <<>>, retried |-> None,
     decisions |-> <<>>, pending |-> <<>>]

RuntimeInit ==
    /\ Init /\ HostInit
    /\ ids = FreshIds /\ call = NoCall /\ workspace = EmptyMap
    /\ result = NoResult /\ restarts = 0

-----------------------------------------------------------------------------
(* Sequence::next, for a list of sequences in turn: the first that is at   *)
(* its end is an error, and those before it have given out a number.       *)
Exhausted(names) == \E i \in DOMAIN names : ids[names[i]] = LastId[names[i]]

Drawn(names) ==
    [s \in DOMAIN ids |->
        IF \E i \in DOMAIN names :
              names[i] = s /\ \A j \in 1..i : ids[names[j]] < LastId[names[j]]
        THEN ids[s] + 1 ELSE ids[s]]

(* IdPool::envelope: the idempotency key is made from the transaction.     *)
NextEnvelope(expected, depends_on, body) ==
    [transaction |-> ids.transactions, expected_version |-> expected,
     idempotency |-> ids.transactions, depends_on |-> depends_on, commands |-> body]

(* commit_envelope is called: prepare answers or accepts. *)
Submit(e) == Answered(e) \/ Accept(e)

Return(answer, decided, undelivered) ==
    /\ call' = NoCall
    /\ result' = [answer |-> answer, since |-> call.since, batch |-> call.batch,
                  retried |-> call.retried, decisions |-> decided, pending |-> undelivered]

Fail(error) == Return(error, <<>>, <<>>)

InPhase(phase) == call.phase = phase /\ Settled
Granted == outcome.result \in {"Committed", "Replayed"}

(* The envelope the call has submitted is committed. *)
LedgerStep ==
    /\ Apply \/ Publish
    /\ UNCHANGED <<hostvars, runtimevars>>

(* `?' on the answer of commit_envelope. *)
Refused ==
    /\ \E phase \in {"evidence", "resolution", "receipt"} : InPhase(phase)
    /\ ~Granted
    /\ Fail(outcome.result)
    /\ UNCHANGED <<vars, hostvars, ids, workspace, restarts>>

-----------------------------------------------------------------------------
(* process_batch *)

Observations(b) == [i \in DOMAIN b |-> b[i].observation]

Persist(b) ==
    [i \in DOMAIN b |-> [kind |-> "PersistObservation", observation |-> b[i].observation,
                         supersedes |-> b[i].supersedes]]

Begin(b) ==
    /\ InPhase("idle")
    /\ b # <<>> /\ ~Exhausted(<<"transactions">>)
    /\ Submit(NextEnvelope(version, {}, Persist(b)))
    /\ ids' = Drawn(<<"transactions">>)
    /\ call' = [NoCall EXCEPT !.phase = "evidence", !.since = version,
                              !.batch = Observations(b), !.persistence = ids.transactions]
    /\ result' = NoResult
    /\ UNCHANGED <<hostvars, workspace, restarts>>

BeginFails(b) ==
    /\ InPhase("idle")
    /\ b = <<>> \/ Exhausted(<<"transactions">>)
    /\ result' = [NoResult EXCEPT !.answer = IF b = <<>> THEN "EmptyBatch" ELSE "IdExhausted",
                                  !.since = version, !.batch = Observations(b)]
    /\ UNCHANGED <<vars, hostvars, ids, call, workspace, restarts>>

EvidenceCommitted ==
    /\ InPhase("evidence") /\ Granted
    /\ call' = [call EXCEPT !.phase = "inference", !.reached = outcome.version]
    /\ UNCHANGED <<vars, hostvars, ids, workspace, result, restarts>>

(* Candidates, factors and the posterior: code outside this module. *)
Infer ==
    /\ InPhase("inference")
    /\ call.reached < MaxVersion
    /\ \E provenance \in BOOLEAN :
          call' = [call EXCEPT !.phase = "deciding", !.provenance = provenance]
    /\ UNCHANGED <<vars, hostvars, ids, workspace, result, restarts>>

(* A provider or the solver fails, or there is no version left to resolve  *)
(* the batch at.                                                           *)
InferenceFails ==
    /\ InPhase("inference")
    /\ Fail("Inference")
    /\ UNCHANGED <<vars, hostvars, ids, workspace, restarts>>

Undecided == InPhase("deciding") /\ Len(call.decisions) < Len(call.batch)

(* Fault: the resolution is committed before the whole batch is decided. *)
SomeDecided == InPhase("deciding") /\ call.decisions # <<>>

AllDecided == InPhase("deciding") /\ Len(call.decisions) = Len(call.batch)

DrawnFor(action, relation) ==
    <<"inferences", "decisions">>
        \o (IF action.name = "CreateIdentity" THEN <<"identities">> ELSE <<>>)
        \o (IF relation # None THEN <<"materializations">> ELSE <<>>)

(* The identity an accepted action associates the observation with. *)
Associated(action) ==
    CASE action.name = "CreateIdentity" -> {ids.identities}
      [] action.name = "AssignLatent"   -> {action.identity}
      [] OTHER                          -> {}

Resolution(o, action) ==
    [kind |-> "CommitResolution",
     inference |-> [id |-> ids.inferences, observation |-> o, begin |-> call.reached + 1],
     decision |-> [id |-> ids.decisions, inference |-> ids.inferences,
                   begin |-> call.reached + 1, action |-> action],
     provenance |-> call.provenance,
     created |-> IF action.name = "CreateIdentity" THEN ids.identities ELSE None]

Planned(relation) ==
    [materialization |-> ids.materializations, decision |-> ids.decisions,
     relation |-> relation]

Enqueue(write) ==
    [kind |-> "EnqueueMaterialization", materialization |-> write.materialization,
     decision |-> write.decision, relation |-> write.relation]

(* One turn of the loop over the posterior: policy, records, association   *)
(* and the planner, which may see no host fact in the action.              *)
Decide(action, relation) ==
    LET o == call.batch[Len(call.decisions) + 1]
        writes == IF relation = None THEN <<>> ELSE <<Planned(relation)>>
    IN  /\ Undecided /\ ~Exhausted(DrawnFor(action, relation))
        /\ ids' = Drawn(DrawnFor(action, relation))
        /\ call' = [call EXCEPT
              !.decisions = Append(@, ids.decisions),
              !.commands = Append(@, Resolution(o, action))
                               \o [i \in DOMAIN writes |-> Enqueue(writes[i])],
              !.associations = @ \o [i \in 1..Cardinality(Associated(action)) |->
                  [observation |-> o, version |-> call.reached + 1,
                   identity |-> CHOOSE id \in Associated(action) : TRUE]],
              !.writes = @ \o writes]
        /\ UNCHANGED <<vars, hostvars, workspace, result, restarts>>

DecideExhausted(action, relation) ==
    /\ Undecided /\ Exhausted(DrawnFor(action, relation))
    /\ ids' = Drawn(DrawnFor(action, relation))
    /\ Fail("IdExhausted")
    /\ UNCHANGED <<vars, hostvars, workspace, restarts>>

CommitResolutions ==
    /\ AllDecided /\ ~Exhausted(<<"transactions">>)
    /\ Submit(NextEnvelope(call.reached, {call.persistence}, call.commands))
    /\ ids' = Drawn(<<"transactions">>)
    /\ call' = [call EXCEPT !.phase = "resolution"]
    /\ UNCHANGED <<hostvars, workspace, result, restarts>>

ResolutionCommitted ==
    /\ InPhase("resolution") /\ Granted
    /\ call' = [call EXCEPT !.phase = "caching", !.reached = outcome.version]
    /\ UNCHANGED <<vars, hostvars, ids, workspace, result, restarts>>

(* apply_committed takes an update that advances the entry's version. *)
Fresher(association, entry) == association.version > entry.applied

(* Fault: a full history does not take a new entry. *)
PushIfRoom(history, o) ==
    IF Len(history) < HistoryCapacity THEN Append(history, o) ELSE history

(* BoundedHistory::push *)
Push(history, o) ==
    IF HistoryCapacity = 0 THEN <<>>
    ELSE IF Len(history) < HistoryCapacity THEN Append(history, o)
    ELSE Append(Tail(history), o)

Cached == Lookup(workspace, Head(call.associations).identity, [applied |-> 0, history |-> <<>>])

Cache ==
    /\ InPhase("caching") /\ call.associations # <<>>
    /\ LET a == Head(call.associations)
       IN  /\ Fresher(a, Cached)
           /\ workspace' = Insert(workspace, a.identity,
                  [applied |-> a.version, history |-> Push(Cached.history, a.observation)])
    /\ call' = [call EXCEPT !.associations = Tail(@)]
    /\ UNCHANGED <<vars, hostvars, ids, result, restarts>>

StaleCommit ==
    /\ InPhase("caching") /\ call.associations # <<>>
    /\ ~Fresher(Head(call.associations), Cached)
    /\ Fail("StaleCommit")
    /\ UNCHANGED <<vars, hostvars, ids, workspace, restarts>>

CacheDone ==
    /\ InPhase("caching") /\ call.associations = <<>>
    /\ call' = [call EXCEPT !.phase = "delivering"]
    /\ UNCHANGED <<vars, hostvars, ids, workspace, result, restarts>>

-----------------------------------------------------------------------------
(* Host writes, their receipts and their retries. *)
write == Head(call.writes)

(* Fault: the write is made for the version of the evidence. *)
WrittenEdgeEarly == Edge(write.relation, write.decision, call.since + 1)

WrittenEdge == Edge(write.relation, write.decision, call.reached)

Deliver ==
    /\ InPhase("delivering") \/ InPhase("retrying")
    /\ call.writes # <<>>
    /\ Materialize(write.materialization, WrittenEdge)
    /\ call' = [call EXCEPT !.phase = "confirming"]
    /\ UNCHANGED <<vars, ids, workspace, result, restarts>>

(* Fault: a write that failed is not reported. *)
DeliverFailsUnreported ==
    /\ InPhase("delivering") /\ call.writes # <<>>
    /\ MaterializeFails(write.materialization, WrittenEdge)
    /\ call' = [call EXCEPT !.writes = Tail(@)]
    /\ UNCHANGED <<vars, ids, workspace, result, restarts>>

(* Fault: a write that failed is made again until it succeeds. *)
DeliverFailsAgain ==
    /\ InPhase("delivering") /\ call.writes # <<>>
    /\ MaterializeFails(write.materialization, WrittenEdge)
    /\ UNCHANGED <<vars, ids, call, workspace, result, restarts>>

DeliverFails ==
    /\ InPhase("delivering") /\ call.writes # <<>>
    /\ MaterializeFails(write.materialization, WrittenEdge)
    /\ call' = [call EXCEPT !.writes = Tail(@), !.pending = Append(@, write.materialization)]
    /\ UNCHANGED <<vars, ids, workspace, result, restarts>>

(* commit_receipt *)
Confirm ==
    /\ InPhase("confirming") /\ ~Exhausted(<<"transactions">>)
    /\ Submit(NextEnvelope(version, {},
           <<[kind |-> "Materialized", materialization |-> write.materialization,
              decision |-> write.decision]>>))
    /\ ids' = Drawn(<<"transactions">>)
    /\ call' = [call EXCEPT !.phase = "receipt"]
    /\ UNCHANGED <<hostvars, workspace, result, restarts>>

ReceiptCommitted ==
    /\ InPhase("receipt") /\ Granted
    /\ call' = [call EXCEPT !.phase = "delivering", !.writes = Tail(@)]
    /\ UNCHANGED <<vars, hostvars, ids, workspace, result, restarts>>

(* The transaction of the resolution or of a receipt cannot be numbered.   *)
TransactionsExhausted ==
    /\ AllDecided \/ InPhase("confirming")
    /\ Exhausted(<<"transactions">>)
    /\ Fail("IdExhausted")
    /\ UNCHANGED <<vars, hostvars, ids, workspace, restarts>>

Finish ==
    /\ InPhase("delivering") /\ call.writes = <<>>
    /\ Return("Ok", call.decisions, call.pending)
    /\ UNCHANGED <<vars, hostvars, ids, workspace, restarts>>

RetryAnswered(m) ==
    /\ InPhase("idle")
    /\ m \in DOMAIN outbox => outbox[m].completed
    /\ result' = [NoResult EXCEPT
                     !.answer = IF m \in DOMAIN outbox THEN "Ok" ELSE "MissingOutbox",
                     !.since = version, !.retried = m]
    /\ UNCHANGED <<vars, hostvars, ids, call, workspace, restarts>>

Retry(m) ==
    /\ InPhase("idle")
    /\ m \in DOMAIN outbox /\ ~outbox[m].completed
    /\ call' = [NoCall EXCEPT
           !.phase = "retrying", !.since = version, !.retried = m,
           !.reached = outbox[m].commit,
           !.writes = <<[materialization |-> m, decision |-> outbox[m].decision,
                         relation |-> outbox[m].relation]>>]
    /\ result' = NoResult
    /\ UNCHANGED <<vars, hostvars, ids, workspace, restarts>>

RetryFails ==
    /\ InPhase("retrying")
    /\ MaterializeFails(write.materialization, WrittenEdge)
    /\ Fail("Materialization")
    /\ UNCHANGED <<vars, ids, workspace, restarts>>

-----------------------------------------------------------------------------
(* The process ends at any point of a call and is started again over the   *)
(* same ledger.  An end within commit_envelope is one before or after it,  *)
(* see DurableLedger.  The pool of the new runtime starts at 1.            *)
Restart ==
    /\ Settled /\ restarts < MaxRestarts
    /\ restarts' = restarts + 1
    /\ ids' = FreshIds /\ call' = NoCall /\ workspace' = EmptyMap /\ result' = NoResult
    /\ outcome' = Answer("None", 0, None)
    /\ UNCHANGED <<state, inflight, cursor, targets, hostvars>>

HostStep == \E node \in HostNode : AddNode(node) /\ UNCHANGED <<vars, runtimevars>>

Calls ==
    \/ \E b \in Batch : Begin(b) \/ BeginFails(b)
    \/ \E m \in Materialization : Retry(m) \/ RetryAnswered(m)

Running ==
    \/ LedgerStep \/ Refused
    \/ EvidenceCommitted \/ Infer \/ InferenceFails
    \/ \E action \in Outcome, relation \in Relation \cup {None} :
          Decide(action, relation) \/ DecideExhausted(action, relation)
    \/ CommitResolutions \/ ResolutionCommitted \/ TransactionsExhausted
    \/ Cache \/ StaleCommit \/ CacheDone
    \/ Deliver \/ DeliverFails \/ Confirm \/ ReceiptCommitted \/ Finish \/ RetryFails

RuntimeNext == Calls \/ Running \/ Restart \/ HostStep

RuntimeSpec == RuntimeInit /\ [][RuntimeNext]_allvars

(* A call is straight-line code over bounded loops: it runs to its end.    *)
FairRuntimeSpec == RuntimeSpec /\ WF_allvars(Running)
=============================================================================
