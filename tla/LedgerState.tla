---------------------------- MODULE LedgerState -----------------------------
(***************************************************************************)
(* The state of MemoryLedger, and the command envelopes it is changed by.  *)
(***************************************************************************)
EXTENDS Indexes, Sequences, FiniteSets

CONSTANTS
    Observation, Inference, Decision, Materialization, Transaction, Key,
    Identity,     \* numbers: the representative of a class is its least one
    Target,       \* host entities an identity is promoted to
    Relation,     \* host relations an outbox entry asks for
    Envelope,     \* the envelopes clients may submit
    MaxVersion,   \* the last CommitVersion (u64::MAX)
    None          \* Option::None

-----------------------------------------------------------------------------
(* Commands and envelopes. *)

Action ==
    [name: {"CreateIdentity", "AssignKnown", "RejectNoise", "Abstain"},
     identity: {None}]
        \cup [name: {"AssignLatent"}, identity: Identity]

RevertMode == {"Strict", "Cascade", "Compensating"}

\* Observation::new refuses a correction of itself.
Command ==
    {c \in [kind: {"PersistObservation"}, observation: Observation,
            supersedes: Observation \cup {None}] : c.supersedes # c.observation}
    \cup
    [kind: {"CommitResolution"},
     inference: [id: Inference, observation: Observation, begin: Nat],
     decision: [id: Decision, inference: Inference, begin: Nat, action: Action],
     provenance: BOOLEAN, created: Identity \cup {None}]
    \cup [kind: {"CreateIdentity", "Dormant", "Reactivate", "Retire"}, identity: Identity]
    \cup [kind: {"Promote"}, identity: Identity, target: Target]
    \cup [kind: {"Merge"}, decision: Decision, left: Identity, right: Identity,
          support: SUBSET Decision]
    \cup [kind: {"Split"}, close_merges: SUBSET Decision,
          partitions: SUBSET [identity: Identity, observations: SUBSET Observation],
          invalidate_dependents: SUBSET Transaction]
    \cup [kind: {"Revert"}, transaction: Transaction, mode: RevertMode]
    \cup [kind: {"EnqueueMaterialization"}, materialization: Materialization,
          decision: Decision, relation: Relation]
    \cup [kind: {"Materialized"}, materialization: Materialization, decision: Decision]

CommandEnvelope ==
    [transaction: Transaction, expected_version: Nat, idempotency: Key,
     depends_on: SUBSET Transaction, commands: Seq(Command) \ {<<>>}]

ASSUME LedgerAssumption ==
    /\ MaxVersion \in Nat
    /\ Identity \subseteq Nat
    /\ Envelope \subseteq CommandEnvelope
    /\ None \notin CommandEnvelope /\ None \notin Observation /\ None \notin Identity

-----------------------------------------------------------------------------
VARIABLES
    observations,         \* observation -> the observation it supersedes, or None
    observation_commits,  \* observation -> version that persisted it
    inferences,           \* inference -> its observation and validity
    decisions,            \* decision -> its inference and validity
    current_inference,    \* observation -> inference
    current_decision,     \* observation -> decision
    identities,           \* identity -> status
    promotions,           \* identity -> host entity
    merges,               \* decision -> merge record
    canonical,            \* identity -> representative of its merge class
    outbox,               \* materialization -> outbox entry
    receipts,             \* materialization receipts in order
    version,
    transactions,         \* the log
    transaction_indexes,  \* transaction -> its place in the log
    dependents,           \* transaction -> the transactions that depend on it
    idempotency,          \* key -> version and transaction of its envelope
    inflight,             \* the envelope being applied, or None
    cursor,               \* the command being applied
    targets,              \* transactions the running Revert has still to deactivate
    outcome               \* the answer to the last submission

evidence == <<observations, observation_commits>>
lineage == <<inferences, decisions, current_inference, current_decision>>
identity_index == <<identities, promotions, merges, canonical>>
delivery == <<outbox, receipts>>
log == <<version, transactions, transaction_indexes, dependents, idempotency>>
control == <<inflight, cursor, targets, outcome>>
state == <<evidence, lineage, identity_index, delivery, log>>
vars == <<state, control>>

Open == MaxVersion + 1
Current(begin) == Interval(begin, Open)
IsOpen(validity) == validity.end = Open
next_version == version + 1

\* No commit is under way: the state is one that clients can observe.
Settled == inflight = None

Validity == [begin: 1..MaxVersion, end: 1..Open]
Status == {"Active", "Dormant", "Resolved", "Merged", "Retired"}
Result == {"None", "Pending", "Committed", "Replayed", "IdempotencyCollision",
           "VersionConflict", "DuplicateTransaction", "VersionExhausted",
           "MissingDependency", "InvalidCommand", "Storage"}
Answer(result, v, e) == [result |-> result, version |-> v, envelope |-> e]

EvidenceTypeOK ==
    /\ observations \in [DOMAIN observations -> Observation \cup {None}]
    /\ DOMAIN observations \subseteq Observation
    /\ observation_commits \in [DOMAIN observations -> 1..MaxVersion]

LineageTypeOK ==
    /\ inferences \in [DOMAIN inferences -> [observation: Observation, validity: Validity]]
    /\ DOMAIN inferences \subseteq Inference
    /\ decisions \in [DOMAIN decisions -> [inference: Inference, validity: Validity]]
    /\ DOMAIN decisions \subseteq Decision
    /\ current_inference \in [DOMAIN current_inference -> DOMAIN inferences]
    /\ DOMAIN current_inference \subseteq DOMAIN observations
    /\ current_decision \in [DOMAIN current_inference -> DOMAIN decisions]

IdentityTypeOK ==
    /\ identities \in [DOMAIN identities -> Status]
    /\ DOMAIN identities \subseteq Identity
    /\ promotions \in [DOMAIN promotions -> Target]
    /\ DOMAIN promotions \subseteq DOMAIN identities
    /\ merges \in [DOMAIN merges ->
           [left: DOMAIN identities, right: DOMAIN identities,
            validity: Validity, transaction: Transaction]]
    /\ DOMAIN merges \subseteq Decision
    /\ canonical \in [DOMAIN identities -> DOMAIN identities]

DeliveryTypeOK ==
    /\ outbox \in [DOMAIN outbox ->
           [decision: Decision, relation: Relation, commit: 1..MaxVersion,
            completed: BOOLEAN]]
    /\ DOMAIN outbox \subseteq Materialization
    /\ receipts \in Seq([materialization: Materialization, decision: Decision,
                         commit: 1..MaxVersion])

LogTypeOK ==
    /\ version \in 0..MaxVersion
    /\ transactions \in Seq([version: 1..MaxVersion, envelope: CommandEnvelope, active: BOOLEAN])
    /\ transaction_indexes \in [DOMAIN transaction_indexes -> DOMAIN transactions]
    /\ DOMAIN transaction_indexes \subseteq Transaction
    /\ dependents \in [DOMAIN dependents -> SUBSET DOMAIN transaction_indexes]
    /\ DOMAIN dependents \subseteq DOMAIN transaction_indexes
    /\ idempotency \in [DOMAIN idempotency ->
           [version: 1..MaxVersion, transaction: DOMAIN transaction_indexes]]
    /\ DOMAIN idempotency \subseteq Key

ControlTypeOK ==
    /\ inflight \in CommandEnvelope \cup {None}
    /\ cursor \in Nat
    /\ targets \subseteq DOMAIN transaction_indexes
    /\ outcome \in [result: Result, version: 0..MaxVersion, envelope: CommandEnvelope \cup {None}]

(* Every record lies in its table under an identifier of its kind, every   *)
(* pointer from one table into another leads to a record, and versions lie *)
(* between 1 and the last one.                                             *)
TypeOK ==
    /\ EvidenceTypeOK /\ LineageTypeOK /\ IdentityTypeOK
    /\ DeliveryTypeOK /\ LogTypeOK /\ ControlTypeOK

Empty ==
    /\ observations = EmptyMap /\ observation_commits = EmptyMap
    /\ inferences = EmptyMap /\ decisions = EmptyMap
    /\ current_inference = EmptyMap /\ current_decision = EmptyMap
    /\ identities = EmptyMap /\ promotions = EmptyMap
    /\ merges = EmptyMap /\ canonical = EmptyMap
    /\ outbox = EmptyMap /\ receipts = <<>>
    /\ version = 0 /\ transactions = <<>>
    /\ transaction_indexes = EmptyMap /\ dependents = EmptyMap
    /\ idempotency = EmptyMap
    /\ inflight = None /\ cursor = 0 /\ targets = {}

Init == Empty /\ outcome = Answer("None", 0, None)
=============================================================================
