------------------------------- MODULE Ledger -------------------------------
(***************************************************************************)
(* MemoryLedger of li-storage: the append-only transactional ledger of     *)
(* identity resolution.  A client submits an envelope of commands; the     *)
(* ledger answers a replay, refuses the envelope, or accepts it, applies   *)
(* its commands in order and appends the transaction record.               *)
(*                                                                         *)
(* commit takes &mut self, so nothing runs between the steps of one        *)
(* commit: `inflight' holds the accepted envelope, one action stands for   *)
(* each arm of apply, and the state is observable when inflight is None.   *)
(***************************************************************************)
EXTENDS LedgerValidation

-----------------------------------------------------------------------------
(***************************************************************************)
(* prepare: the answers that change nothing.  The idempotency key is       *)
(* looked up first; then come the snapshot version, the transaction id,    *)
(* the version space, the dependencies and the commands, in this order.    *)
(***************************************************************************)

(* Fault: a known key is a replay whatever the payload. *)
RecordedAnyPayload(e) == TRUE

Recorded(e) ==
    LET t == idempotency[e.idempotency].transaction
    IN  transactions[transaction_indexes[t]].envelope = e

FreshKey(e) == e.idempotency \notin DOMAIN idempotency
SnapshotCurrent(e) == e.expected_version = version

(* Fault: a transaction identifier may be used again. *)
NewTransactionUnchecked(e) == TRUE

NewTransaction(e) == e.transaction \notin DOMAIN transaction_indexes

VersionLeft == version < MaxVersion
DependenciesActive(e) == \A t \in e.depends_on : IsActive(t)
CommandsValid(e) == \A i \in DOMAIN e.commands : ValidCommand(e, i)

Refuse(error) ==
    /\ inflight = None
    /\ outcome' = Answer(error, 0, None)
    /\ UNCHANGED <<state, inflight, cursor, targets>>

Replay(e) ==
    /\ inflight = None
    /\ ~FreshKey(e) /\ Recorded(e)
    /\ outcome' = Answer("Replayed", idempotency[e.idempotency].version, e)
    /\ UNCHANGED <<state, inflight, cursor, targets>>

IdempotencyCollision(e) ==
    ~FreshKey(e) /\ ~Recorded(e) /\ Refuse("IdempotencyCollision")

VersionConflict(e) ==
    FreshKey(e) /\ ~SnapshotCurrent(e) /\ Refuse("VersionConflict")

DuplicateTransaction(e) ==
    /\ FreshKey(e) /\ SnapshotCurrent(e)
    /\ ~NewTransaction(e)
    /\ Refuse("DuplicateTransaction")

VersionExhausted(e) ==
    /\ FreshKey(e) /\ SnapshotCurrent(e) /\ NewTransaction(e)
    /\ ~VersionLeft
    /\ Refuse("VersionExhausted")

MissingDependency(e) ==
    /\ FreshKey(e) /\ SnapshotCurrent(e) /\ NewTransaction(e) /\ VersionLeft
    /\ ~DependenciesActive(e)
    /\ Refuse("MissingDependency")

(* The error of the first command validate finds wrong; which one it is is *)
(* left out.                                                               *)
InvalidCommand(e) ==
    /\ FreshKey(e) /\ SnapshotCurrent(e) /\ NewTransaction(e) /\ VersionLeft
    /\ DependenciesActive(e)
    /\ ~CommandsValid(e)
    /\ Refuse("InvalidCommand")

Valid(e) ==
    /\ FreshKey(e) /\ SnapshotCurrent(e) /\ NewTransaction(e) /\ VersionLeft
    /\ DependenciesActive(e)
    /\ CommandsValid(e)

(* The valid envelope is the one that is applied next. *)
Start(e) ==
    /\ inflight = None
    /\ Valid(e)
    /\ inflight' = e /\ cursor' = 1
    /\ UNCHANGED <<state, targets>>

Accept(e) == Start(e) /\ outcome' = Answer("Pending", 0, None)

-----------------------------------------------------------------------------
(***************************************************************************)
(* apply, one action per arm of its match.                                 *)
(***************************************************************************)
command == inflight.commands[cursor]

Applying(kind) ==
    /\ inflight # None /\ targets = {}
    /\ cursor \in DOMAIN inflight.commands
    /\ command.kind = kind

Advance == cursor' = cursor + 1 /\ UNCHANGED <<inflight, targets, outcome>>

PersistObservation ==
    /\ Applying("PersistObservation")
    /\ observations' = Insert(observations, command.observation, command.supersedes)
    /\ observation_commits' = Insert(observation_commits, command.observation, next_version)
    /\ Advance
    /\ UNCHANGED <<lineage, identity_index, delivery, log>>

(* Fault: the superseded record ends one version late. *)
CloseCurrentLate(records, current, S) ==
    [id \in DOMAIN records |->
        IF \E o \in S \cap DOMAIN current : current[o] = id
        THEN [records[id] EXCEPT !.validity = EndAt(@, next_version + 1)]
        ELSE records[id]]

(* close_current: ends the record a current pointer names; S is the set of *)
(* the observations it is called for.                                      *)
CloseCurrent(records, current, S) ==
    [id \in DOMAIN records |->
        IF \E o \in S \cap DOMAIN current : current[o] = id
        THEN [records[id] EXCEPT !.validity = EndAt(@, next_version)]
        ELSE records[id]]

(* Fault: a new identity gets no class. *)
InsertCanonicalNot(id) == canonical

(* insert_canonical *)
InsertCanonical(id) == Insert(canonical, id, id)

CommitResolution ==
    /\ Applying("CommitResolution")
    /\ LET o == command.inference.observation
           i == command.inference.id
           d == command.decision.id
           id == command.created
       IN  /\ inferences' = Insert(CloseCurrent(inferences, current_inference, {o}), i,
                  [observation |-> o, validity |-> Current(command.inference.begin)])
           /\ decisions' = Insert(CloseCurrent(decisions, current_decision, {o}), d,
                  [inference |-> i, validity |-> Current(command.decision.begin)])
           /\ current_inference' = Insert(current_inference, o, i)
           /\ current_decision' = Insert(current_decision, o, d)
           /\ IF id = None THEN UNCHANGED <<identities, canonical>>
              ELSE /\ identities' = Insert(identities, id, "Active")
                   /\ canonical' = InsertCanonical(id)
    /\ Advance
    /\ UNCHANGED <<evidence, promotions, merges, delivery, log>>

CreateIdentity ==
    /\ Applying("CreateIdentity")
    /\ identities' = Insert(identities, command.identity, "Active")
    /\ canonical' = InsertCanonical(command.identity)
    /\ Advance
    /\ UNCHANGED <<evidence, lineage, promotions, merges, delivery, log>>

Promote ==
    /\ Applying("Promote")
    /\ identities' = Insert(identities, command.identity, "Resolved")
    /\ promotions' = Insert(promotions, command.identity, command.target)
    /\ Advance
    /\ UNCHANGED <<evidence, lineage, merges, canonical, delivery, log>>

(* Dormant, Reactivate and Retire differ in the status they leave. *)
ChangeStatus(kind) ==
    /\ Applying(kind)
    /\ identities' = Insert(identities, command.identity, WrittenStatus(kind))
    /\ Advance
    /\ UNCHANGED <<evidence, lineage, promotions, merges, canonical, delivery, log>>

(* Fault: only the replaced representative moves, not its class. *)
UnionOfMinima(classes, left, right) ==
    [classes EXCEPT ![Greatest({classes[left], classes[right]})] =
        Least({classes[left], classes[right]})]

(* union_canonical: the two classes get the smaller representative. *)
Union(classes, left, right) ==
    LET minimum == Least({classes[left], classes[right]})
        replaced == Greatest({classes[left], classes[right]})
    IN  [id \in DOMAIN classes |-> IF classes[id] = replaced THEN minimum ELSE classes[id]]

(* Fault: the status of the wrong side is changed. *)
UnionStatusesSwapped(statuses, minimum, replaced) ==
    [statuses EXCEPT ![minimum] = "Merged"]

(* The statuses after a union of two different classes: the representative *)
(* that lost is Merged, and the one that won is Active if it was Merged.   *)
UnionStatuses(statuses, minimum, replaced) ==
    [id \in DOMAIN statuses |->
        CASE id = replaced -> "Merged"
          [] id = minimum /\ statuses[id] = "Merged" -> "Active"
          [] OTHER -> statuses[id]]

Merge ==
    /\ Applying("Merge")
    /\ LET left == canonical[command.left]
           right == canonical[command.right]
       IN  /\ merges' = Insert(merges, command.decision,
                  [left |-> command.left, right |-> command.right,
                   validity |-> Current(next_version),
                   transaction |-> inflight.transaction])
           /\ canonical' = Union(canonical, command.left, command.right)
           /\ identities' = IF left = right THEN identities
                            ELSE UnionStatuses(identities, Least({left, right}),
                                               Greatest({left, right}))
    /\ Advance
    /\ UNCHANGED <<evidence, lineage, promotions, delivery, log>>

(* rebuild_canonical: every identity alone, then one union per open merge; *)
(* an identity that does not represent its class becomes Merged.           *)
OpenEdges(records) ==
    LET open == {d \in DOMAIN records : IsOpen(records[d].validity)}
    IN  {<<records[d].left, records[d].right>> : d \in open}
            \cup {<<records[d].right, records[d].left>> : d \in open}

RebuildClasses(records) ==
    [id \in DOMAIN identities |-> Least(Reachable(id, OpenEdges(records)))]

RebuildStatuses(statuses, classes) ==
    [id \in DOMAIN statuses |-> IF classes[id] # id THEN "Merged" ELSE statuses[id]]

(* Fault: only the first merge of the list is closed. *)
CloseMergesFirst(S) ==
    [d \in DOMAIN merges |->
        IF S # {} /\ d = Least(S) THEN [merges[d] EXCEPT !.validity = EndAt(@, next_version)]
                                  ELSE merges[d]]

CloseMerges(S) ==
    [d \in DOMAIN merges |->
        IF d \in S THEN [merges[d] EXCEPT !.validity = EndAt(@, next_version)]
                   ELSE merges[d]]

Split ==
    /\ Applying("Split")
    /\ LET named == {p.identity : p \in command.partitions}
           statuses == [id \in DOMAIN identities |->
                            IF id \in named THEN "Active" ELSE identities[id]]
       IN  /\ merges' = CloseMerges(command.close_merges)
           /\ canonical' = RebuildClasses(merges')
           /\ identities' = RebuildStatuses(statuses, canonical')
    /\ Advance
    /\ UNCHANGED <<evidence, lineage, promotions, delivery, log>>

(* revert_targets: the transaction itself, and for a cascade every         *)
(* transaction that depends on it directly or through others.              *)
Dependence == UNION {{<<t, d>> : d \in dependents[t]} : t \in DOMAIN dependents}

(* Fault: a cascade stops at the direct dependents. *)
RevertTargetsDirect(t, mode) ==
    IF mode = "Cascade" THEN {t} \cup Lookup(dependents, t, {}) ELSE {t}

RevertTargets(t, mode) ==
    IF mode = "Cascade" THEN Reachable(t, Dependence) ELSE {t}

Revert ==
    /\ Applying("Revert")
    /\ IF command.mode = "Compensating"
       THEN Advance
       ELSE /\ targets' = RevertTargets(command.transaction, command.mode)
            /\ UNCHANGED <<inflight, cursor, outcome>>
    /\ UNCHANGED state

(* The order in which revert_targets finds them. *)
NextTarget ==
    LET order == BreadthFirst(command.transaction, dependents, transaction_indexes,
                              Len(transactions))
    IN  order[Least({n \in DOMAIN order : order[n] \in targets})]

(* deactivate_transaction *)
Commands(t, kind) ==
    LET e == transactions[transaction_indexes[t]].envelope
    IN  {c \in {e.commands[i] : i \in DOMAIN e.commands} : c.kind = kind}

(* Fault: deactivation toggles the flag. *)
InactiveToggled(record) == [record EXCEPT !.active = ~@]

Inactive(record) == [record EXCEPT !.active = FALSE]

Resolved(t) == {c.inference.observation : c \in Commands(t, "CommitResolution")}
Decided(t) == {c.decision.id : c \in Commands(t, "CommitResolution")}

(* Fault: the current pointer goes whoever set it. *)
WithdrawnAll(t) == Resolved(t) \cap DOMAIN current_inference

(* The observations whose current interpretation is one of t's. *)
Withdrawn(t) ==
    {c.inference.observation : c \in
        {r \in Commands(t, "CommitResolution") :
            /\ r.inference.observation \in DOMAIN current_inference
            /\ current_inference[r.inference.observation] = r.inference.id}}

(* Every decision of t is ended again, those that ended earlier included. *)
EndDecisions(records, S) ==
    [d \in DOMAIN records |->
        IF d \in S THEN [records[d] EXCEPT !.validity = EndAt(@, next_version)]
                   ELSE records[d]]

(* Fault: merges that were closed before are closed again. *)
OpenMergesOfAll(t) == {c.decision : c \in Commands(t, "Merge")}

OpenMergesOf(t) ==
    {d \in {c.decision : c \in Commands(t, "Merge")} : IsOpen(merges[d].validity)}

(* Fault: the outbox entries of a reverted transaction are kept. *)
EnqueuedKept(t) == {}

Enqueued(t) == {c.materialization : c \in Commands(t, "EnqueueMaterialization")}

Deactivate(t) ==
    /\ t \in targets /\ t = NextTarget
    /\ transactions' = [transactions EXCEPT ![transaction_indexes[t]] = Inactive(@)]
    /\ inferences' = CloseCurrent(inferences, current_inference, Withdrawn(t))
    /\ decisions' = EndDecisions(CloseCurrent(decisions, current_decision, Withdrawn(t)),
                                 Decided(t))
    /\ current_inference' = Remove(current_inference, Withdrawn(t))
    /\ current_decision' = Remove(current_decision, Withdrawn(t))
    /\ merges' = CloseMerges(OpenMergesOf(t))
    /\ canonical' = RebuildClasses(merges')
    /\ identities' = RebuildStatuses(identities, canonical')
    /\ outbox' = Remove(outbox, Enqueued(t))
    /\ targets' = targets \ {t}
    /\ cursor' = IF targets' = {} THEN cursor + 1 ELSE cursor
    /\ UNCHANGED <<evidence, promotions, receipts, version, transaction_indexes,
                   dependents, idempotency, inflight, outcome>>

EnqueueMaterialization ==
    /\ Applying("EnqueueMaterialization")
    /\ outbox' = Insert(outbox, command.materialization,
           [decision |-> command.decision, relation |-> command.relation,
            commit |-> next_version, completed |-> FALSE])
    /\ Advance
    /\ UNCHANGED <<evidence, lineage, identity_index, receipts, log>>

Complete(m) == [k \in DOMAIN outbox |-> [outbox[k] EXCEPT !.completed = @ \/ k = m]]

Materialized ==
    /\ Applying("Materialized")
    /\ outbox' = Complete(command.materialization)
    /\ receipts' = Append(receipts,
           [materialization |-> command.materialization, decision |-> command.decision,
            commit |-> next_version])
    /\ Advance
    /\ UNCHANGED <<evidence, lineage, identity_index, log>>

(* Fault: a new dependent replaces the ones before it. *)
RecordDependentsLast(e) ==
    [t \in DOMAIN dependents \cup e.depends_on |->
        IF t \in e.depends_on THEN {e.transaction} ELSE dependents[t]]

(* The end of apply: the transaction enters the log and its indexes. *)
RecordDependents(e) ==
    [t \in DOMAIN dependents \cup e.depends_on |->
        IF t \in e.depends_on THEN Lookup(dependents, t, {}) \cup {e.transaction}
                              ELSE dependents[t]]

Record ==
    /\ inflight # None /\ targets = {}
    /\ cursor = Len(inflight.commands) + 1
    /\ dependents' = RecordDependents(inflight)
    /\ transactions' = Append(transactions,
           [version |-> next_version, envelope |-> inflight, active |-> TRUE])
    /\ transaction_indexes' =
           Insert(transaction_indexes, inflight.transaction, Len(transactions) + 1)
    /\ idempotency' = Insert(idempotency, inflight.idempotency,
           [version |-> next_version, transaction |-> inflight.transaction])
    /\ version' = next_version
    /\ inflight' = None /\ cursor' = 0
    /\ UNCHANGED <<evidence, lineage, identity_index, delivery, targets>>

Publish == Record /\ outcome' = Answer("Committed", next_version, inflight)

(* prepare answers by itself: a replay or an error. *)
Answered(e) ==
    \/ Replay(e) \/ IdempotencyCollision(e) \/ VersionConflict(e)
    \/ DuplicateTransaction(e) \/ VersionExhausted(e)
    \/ MissingDependency(e) \/ InvalidCommand(e)

Prepare == \E e \in Envelope : Answered(e)

Apply ==
    \/ PersistObservation \/ CommitResolution \/ CreateIdentity \/ Promote
    \/ ChangeStatus("Dormant") \/ ChangeStatus("Reactivate") \/ ChangeStatus("Retire")
    \/ Merge \/ Split \/ Revert \/ (\E t \in targets : Deactivate(t))
    \/ EnqueueMaterialization \/ Materialized

Next ==
    \/ Prepare
    \/ \E e \in Envelope : Accept(e)
    \/ Apply
    \/ Publish

Spec == Init /\ [][Next]_vars
=============================================================================
