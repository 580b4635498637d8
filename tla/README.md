# Verification of LI-ESKG

TLA+ models of the entity-resolution system in `src/`, checked with TLC, and
theorems about its ledgers, runtime, workspace, intake, inference and evidence proved with
TLAPS. The reference is the Rust code. Where a comment or a test says something else,
section 6 names the disagreement: four times with a run that shows it, and otherwise as a
note.

## 1. The system

Observations about the world are persisted as evidence. Providers propose
candidate identities and score them, a solver turns the scores into a
distribution per observation, and a policy turns each distribution into a
decision. Decisions are committed to an append-only ledger from which they can
be superseded, reverted or merged, and the relations they imply are written to
an authoritative host graph, with an outbox and receipts in the ledger.

| part | state it keeps | operations | hard behaviour | what makes it correct |
|---|---|---|---|---|
| `MemoryLedger` (`li-storage/src/ledger.rs`) | evidence, inferences, decisions, current pointers, identities, merges, canonical representatives, outbox, receipts, the log and its indexes | `commit_envelope` of twelve commands, queries | an unchecked `apply` after a separate `validate`; reverts that cascade through an index kept by hand; merge classes kept incrementally and rebuilt | log append-only and consistent with its indexes, evidence immutable, one current interpretation, classes as the open merges define them, outbox as the active transactions ask for it |
| `DurableLedger` (same file, `backend/*`, `keys.rs`, `postcard_adapter.rs`) | a `MemoryLedger` and a key-value store | `open`, `commit_envelope` | write failures, crashes between the write and the memory update, replay | an acknowledged commit survives, reopening rebuilds the state |
| commands (`li-core/src/command.rs`) | none | constructors of commands and envelopes | - | what the constructors refuse never reaches the ledger |
| versions, intervals, inference records (`li-core/src/ids.rs`, `inference.rs`) | none | `checked_next`, `VersionInterval` | the last version, empty intervals | half-open intervals that end once |
| `ResolutionRuntime` (`li-runtime/src/pipeline.rs`) | the ledger it owns, identifier pool, providers and snapshot (published), hot workspace, scratch buffers | `process_batch`, `retry_materialization`, `publish` | several commits and host writes in one call, each of which may fail; restarts; publishers that share the runtime | a batch is resolved once and as a whole, the host holds what the outbox planned, the result tells the truth |
| `HotWorkspace` (`li-workspace/src/hot.rs`, `li-core/src/history.rs`) | identity -> applied version, bounded history, summaries | `insert`, `get`, `apply_committed`, `evict_before` | entries evicted, begun anew, and replaced by older copies, beside a ledger that goes on | contents justified by the log, gaps only where an insert made them |
| host graph (`li-model/src/host_graph.rs`) | nodes, edges, materialization -> edge | `add_node`, `materialize` | delivery is at least once | one edge per materialization, endpoints exist |
| providers and buffers (`li-factors/src/provider.rs`) | candidate ranges, factor tables | `push_observation`, `FactorTable::new` | index ranges, table sizes that overflow | ranges disjoint and sorted, tables of the right shape |
| solver (`li-inference/src/solver.rs`) | messages, topology | `solve` | cycles, choice of schedule, iteration bound | topology right, normalised output |
| policy (`li-core/src/decision.rs`) | none | `decide` | ties, non-finite losses | least loss, ties by rank |
| ingress (`BoundedIngress`, `pipeline.rs`) | a bounded queue | `try_send`, `try_recv` | several producers, a full queue | what was accepted is processed once, in order |
| evidence, probabilities, scores, distributions, decision records (`li-core`) | none | constructors, checked and saturating | NaN, infinities, open-world outcomes that are missing | the two kinds of constructor agree; what one accepts the others can use |
| spatial model (`li-model/src/spatial.rs`) | none | constructors, distances, log-likelihoods | overflow, malformed public fields, singular covariances | malformed evidence is never preferred; the likelihood is symmetric and best at the same place |
| interoperability (`li-model/src/interoperability.rs`) | none; a buffer of the caller | `project_decision`, `project_nanopublication`, `write_shacl` | a buffer that is used again, refused records | a document is that of its records alone and conforms to the shapes |
| identity typestate, host references, quality metadata (`li-core`) | none | constructors | - | field checks |
| benchmarks, Python binding | none | - | - | - |

The runtime owns its ledger and calls it through `&mut self`, so a commit is
atomic for every other caller. It calls providers, solver, policy, planner and
host adapter synchronously. Only `publish` takes `&self`, so that two of its
calls may overlap, though never with a batch.

`PROJECT.json` lists every component with its status, the hazards at their
lines with the properties aimed at them, and the lines each definition models.

## 2. Modules

| module | models |
|---|---|
| `Indexes` | maps, validity intervals (`VersionInterval`) and reachability: the pure operators the rest is built from. `Reachable(x, R)` is the least set closed under `R` that holds `x`, not a recursive search; `BreadthFirst` lists the same nodes in the order in which a cascade deactivates them |
| `LedgerState` | commands, envelopes and the fields of `MemoryLedger`; `TypeOK`, `Init` |
| `LedgerValidation` | `MemoryLedger::validate`, one operator per command, with the identity overlay and the pending sets |
| `Ledger` | `prepare` with its refusals in the order of the code, and `apply` with one action per arm of its match. A commit is several steps (`Accept`, one per command and per deactivated transaction, `Publish`) with the envelope in `inflight`, so that properties can speak about what holds between two commands; nothing else runs in between, as in the code |
| `AppendOnlyLog` | abstract: what a ledger promises clients, without indexes |
| `LedgerProperties` | the properties of the ledger, and `ImplementsLog` |
| `KeyValue` | the backends: a table in the order of its keys, atomic batches, the prefix scan; and the keys of the ledger, as strings of `Digits` digits to base `Radix` (8 and 256 in the code) |
| `DurableLedger` | the write-ahead put, its failures, crashes and `open` around `Ledger` over `KeyValue`; refines `AppendOnlyLog` with what a scan of the disk returns as the log |
| `HostGraph` | `add_node` and `materialize` with replay, collision, missing endpoint, and answers that get lost |
| `Runtime` | the two calls of `ResolutionRuntime` over `Ledger` and `HostGraph`, the identifier pool, the hot workspace, restarts |
| `RuntimeProperties` | properties of the composition |
| `Candidates` | `CandidateBuffer` and `FactorTable::new`: the ranges and shapes providers hand to the solver |
| `Collective` | the inference of one batch after another: gating over several providers into reused scratch buffers, compilation of the factor graph, union-find one edge per step, the choice of schedule, synchronous message passes, the stopping reason, and the decision. It details what `Runtime` takes as one nondeterministic step |
| `CollectiveProperties` | its properties, with components (the least sets of nodes that no edge leaves) and forests defined without union-find |
| `Workspace` | `HotWorkspace` over a log it follows: entries begun anew, associations applied and refused, summaries, evictions, copies an owner keeps and inserts, also over newer entries, and an owner that resumes from an earlier place |
| `Intake` | `BoundedIngress` with several producers, `publish` as the two stores it is with several publishers, and the two loads of a batch |
| `Floats`, `Spatial`, `Evidence`, `Interoperability` | operators only: numbers with overflow, infinities and NaN; points, components and Gaussians; probabilities, scores, distributions and decisions; the statements of a document and the SHACL shapes |
| `EvidencePath` | their composition: a reading is measured by one of three ways, scored, recorded with a distribution and a decision, and exported into a buffer that held the document before |
| `MC*` | small constants for TLC |
| `LedgerProofs` | the ledger's types, the contract between `validate` and `apply`; its log: consistency, history, the refinement of `AppendOnlyLog`, dependents and reverts; corrections, merge classes and their members |
| `LedgerViewProofs` | its tables as views of the log: open merges, current interpretations, the timeline, outbox and receipts |
| `DurableProofs` | keys and scans, the refinement of `AppendOnlyLog` by the durable ledger, what it keeps of the memory ledger, and that replay is deterministic and never fails |
| `RuntimeProofs` | the runtime over its ledger and its host: answers, coverage, delivery, results, workspace |
| `CollectiveProofs` | gating, from the buffers of the providers to the domain; the decision; the union-find and the passes, on trees and forests of any size |
| `EvidenceProofs` | likelihoods, constructors and documents |
| `WorkspaceProofs`, `IntakeProofs` | theorems of `Workspace` and `Intake` |

Variables have the names of the fields. `control` (`inflight`, `cursor`,
`targets`, `outcome`) stands for the locals of `commit_envelope` and its
answer; `staged` in `DurableLedger` for the envelope between `prepare` and the
answer of the backend, and `Waiting` for a ledger that can be called; `call` for the locals of `process_batch`, its `phase` for
`BatchPhase`; `result` for what a call returned.

Definitions whose comment begins with "Fault:" are not part of any
specification. Each is the mutated form of the definition after it and serves
to show that a property notices the bug (`mutants` in `PROJECT.json`).

### What is abstracted

- In the ledger: payloads, timestamps, distributions, contributions and
  diagnostics; an observation is its identifier and what it supersedes, an
  action its name and identity, provenance is whether there is a provider.
  `ObservationsAsOf` is the query for all event times.
- In `KeyValue`: values are the envelopes themselves (postcard is taken to
  decode what it encoded), and the one column family is the table. A scan is
  defined by counting the smaller keys, which the runs can afford with three
  binary digits: the order of versions then differs from the order of
  little-endian keys, and carries happen.
- In `Spatial`: angles are quarter turns and distances quarters of a great
  circle, where sines, cosines and arc tangents are whole numbers; the poles,
  the antimeridian and antipodes are all on that grid. `f64::EPSILON` as the
  bound for "no distance" is exactly zero there. Rounding between the
  grid points is not modelled, overflow is.
- In `Interoperability`: a statement is a triple and a document a set of them;
  escaping and prefixes are layout. A value is printed to the nearest of
  fewer numbers, as `{:.17}` is for small values.
- In `Intake`: what an item or a snapshot holds. The providers' cell and the
  snapshot's are atomic, as `ArcSwap` is.
- In `Workspace`: one provider and schema is one key; the bytes of a summary
  are the version it was made at. What the owner inserts is a new entry at version
  zero or a copy of one it was handed for that identity (by `get`, an eviction or an
  `insert`), with a further summary or without: `HotIdentity` has public fields, and
  an entry made up from nothing could say anything. `held` keeps every entry the
  owner was ever handed, so a copy of any age may be inserted. That it begins an
  entry anew when there is none (`Reconstruct`) is what `process_batch` does.
- Which of several validation errors an invalid envelope gets
  (`InvalidCommand`). Which error `prepare` gives before that is kept.
- Inference in `Runtime`: any action of `Outcome` for each observation, or a
  failure; `Collective` is where it is modelled. The planner: a relation or
  none.
- Numbers in `Collective`. A message is a sum of log priors and log potentials,
  marginalised; the model keeps how often each of them occurs in it. Whether
  the residual is within the tolerance is left open after every iteration, and
  a message may lose its support at any time. (On a tree too: potentials are
  finite, but `damp_and_residual` refuses a probability that underflows to
  zero.) The distribution a decision sees is any with masses that are
  multiples of `1 / Mass`, so that ties are exact. The message layout
  (`message_offset`, strides, `CapacityOverflow` in `usize`) is left out.
- `LastId` stands for `u64::MAX` in `Sequence::next`, and `MaxVersion` for
  the last `CommitVersion`. Both ends are reached by the runs.
- The host adapter: a failure may come before or after the write was made.
- A crash within `commit_envelope` is left to `DurableLedger`, where it is
  shown to be one before or after it; `Runtime.Restart` therefore happens
  between commits, at any other point of a call.
- `Restart` keeps ledger and host and starts pool and workspace afresh, as a
  caller does that opens a `DurableLedger` and passes it to
  `ResolutionRuntime::new`. Identifiers then collide with those in the ledger,
  which is what happens in the code.

## 3. Runs

| run | distinct states | constants | question |
|---|---|---|---|
| `lineage` | 114,512 | 4 versions, 5 transactions and keys, 2 observations that are resolved and corrected and 3 more, resolutions valid and late, dependencies, all revert modes | log and indexes agree, no orphans, clients see an append-only log, evidence never changes, the queries for the present and the past tell one story |
| `identity` | 179,918 | 5 versions, 3 identities, all lifecycle commands | representatives are least members of the classes of the open merges; merge history is frozen |
| `durable` | 105,927 | 5 versions, keys of 3 binary digits, 2 materializations, one kind of envelope per kind of record | crashes at every step, failing writes and scans: nothing acknowledged is lost, replay never fails, calls end; outbox entries belong to active transactions, and receipts match them, after a recovery too |
| `runtime` | 421,419 | 4 versions, a batch of one and one of two, one restart, one host node, history of one | batches resolved once and whole, host writes match the outbox, results tell the truth, calls end |
| `collective` | 49,666 | batches of two with candidates and of four without, 0 to 2 providers, up to 3 factor tables of 10 shapes, 2 iterations on cyclic graphs | domains are what this batch's providers proposed, union-find knows the cycles, exact answers have every message, decisions have the least risk |
| `workspace` | 3,178,695 | 2 identities, 3 associations in up to 3 versions at 2 times, history of two, two turns of the owner (resuming, cloning, inserting) | what the cache remembers is a part of the log without gaps but those an insert made, and nothing leaves it but to the owner, as it was |
| `intake` | 34,851 | 2 producers of 2 items each, an ingress of two, batches of two, 2 publishers, 3 publications | accepted items are processed once and in order; a batch sees the newest complete publication |
| `evidence` | 113,175 | 15 points and 6 malformed ones, accuracies up to the largest number, some 960 pairs of Gaussians, 5 distributions, 3 residuals | malformed evidence is never preferred, constructors agree, documents are those of their records alone |

Four more runs each look for a violation, see section 6.

### Bounds

The versions are what bounds a run. Four hold the longest story the
properties tell apart on the log: an observation, its resolution, a second
resolution and a revert of the first; `identity` and `durable` have five, for a
scene and then merge, split, merge again and revert, or enqueue, revert,
enqueue again, receipt. Each run of a ledger submits a further envelope at the end so
that `VersionExhausted` occurs. Two observations suffice for properties that are
stated per observation or relate one to the one it supersedes; three
identities are the least with a class that is not a pair, where the incremental
and the rebuilt representatives could differ. The runtime needs four versions
for two calls of evidence and resolution, or one with two receipts; a batch of
two is the least in which one observation succeeds and the next fails, and
`HistoryCapacity = 1` makes every second association drop an old one. One
restart is enough for identifiers to collide with those of the earlier process.
In `collective`, four variables and three factors are the least with a cycle
through three factors, two trees of different sizes and two scopes that share
two variables; two providers, two observations and one failed batch before are
what the scratch buffers can mix up; a buffer of three candidates overflows.
In `workspace`, two observations fit a history of two and the third drops the
first. Three versions and two turns are the least for the longest story: an
entry is evicted or cloned at the first version, another applies the second, the
copy is inserted over it, and the third is applied with a gap before it; or it
is inserted and the log is delivered again from an earlier place.
In `intake`, three publications by two publishers are the least in which two
overlap and a third is complete before or after both; an ingress of two with
four items is full and empty in turn.
`evidence` reads any pair first and one fixed pair after it: what matters about
a second document is only that there was one before.
Symmetry is used in `workspace` alone, whose identities nothing compares; in
the ledger identities are numbers that are compared, and versions, transactions
and records are tied together by number.

The envelopes of a run are a chosen set, for in every state any of them may be
submitted, sensible or not: with a wrong snapshot, a key or a record in use, a
dependency that was reverted. Those that are wrong whatever the state are left
to the constructors in `command.rs`.

### Fairness

`Spec` (ledger) has none: its properties are safety. `FairDurableSpec` assumes
weak fairness of a commit that is under way and of `open`: both are
straight-line code over finite loops, and a crash is always possible and never
required. `FairRuntimeSpec` assumes weak fairness of a running call. It rests
on code that returns: providers, the host adapter, and a solver that is bounded
by `max_iterations`. The others have none. Nothing is assumed about callers
submitting anything.

Deadlock is checked in every run.

## 4. Properties worth a word

- `ValidationHolds` is the contract between `validate` and `apply`. The
  pending sets and the overlay see a fraction of what the earlier commands of
  the envelope do; the invariant says that what `validate` found is still
  there when `apply` comes to the command.
- `CurrentIsLatest`, `OpenMergesJustified`, `OutboxJustified` and
  `ReceiptsMatch` define an index anew from the log and compare. They
  hold between commits only, since `Deactivate` goes target by target.
- `TimelineConsistent` relates three queries of the ledger: the current
  decision, the decision as of a version and the observations as of one.
- `NoOrphans` exempts transactions that contain a revert. `validate` checks a
  strict revert against the dependents in the log; an envelope that depends on
  the very transaction it reverts strictly is accepted
  (`ledger.rs:801`) and left active without its dependency.
- `MembersAreMerged` exempts a log with an envelope that changes a status after
  a merge (`Misled`): the overlay (`ledger.rs:194`) does not see merges, so the
  later command is accepted and leaves a member Active or Dormant. After a
  split that names the identity it does the same: the overlay takes the
  identity for Active (`ledger.rs:730`), although the rebuild
  (`ledger.rs:1152`) may leave it in a class by another merge.
- `AcceptedInOrder` is about the line an item stands in: the items processed,
  followed by those of the running batch and those in the queue. It holds
  every accepted item once, and those of one producer in order.
- `TimelineConsistent` exempts observations that one envelope resolves twice,
  `ReceiptsMatch` receipts of one envelope (see section 6).
- `WorkspaceFollowsLog` compares between calls only when no resolution
  associated two observations with one identity (finding 3).
- `NeverReplayed` says that the colliding keys of a restarted pool always lead
  to `IdempotencyCollision` and never to a grant: the envelope under the key
  was built from another version of the log.
- `TopologyRight` leans on `FactorTable::new`: a scope that named a variable
  twice would make a double edge, which the solver counts as a cycle.
- `ExactIsExact` does not ask whether the limit is the least possible. It is
  the number of edges of the largest component plus one, which is more than
  the longest path needs.
- `HostMatchesOutbox` says that delivery, retry and receipt write every planned
  relation once, and none is confirmed that was not written: at least once is
  the protocol's, at most once the host's replay check, and both need the
  commit version in the edge to be the outbox entry's.
- `HistoryFollowsLog` speaks of every entry in the cache and in the owner's hands. An
  entry begun anew takes the log from where the owner is, without gaps. `insert`
  over a newer entry is different: the versions the newer one had and the older one
  lacks are not delivered again, and `apply_committed`, which asks for a later version
  only, leaves them out. `lost` remembers these versions, and the property says that
  no others are missing. What it does not say is that two copies of an entry agree.
- `NothingLost` says that an entry is only ever continued or handed to the owner as it
  was, by an eviction, of what is older than the cutoff, or by an `insert` in its place.
- `LeastRisk` includes the order of ties that the code has: a new identity, the candidates
  in canonical order, noise, abstention. The comment of `decide` has another one
  (section 6).
- `BatchSeesNewest` is what remains of "atomically" (finding 4): a batch may
  see two publications, if they overlapped, and never one that was replaced
  before another publication that it also sees began.
- `LikelihoodSound` is the comment at `spatial.rs:225` with what a policy needs
  beside it: never NaN, the same from both sides, and not less for the nearer
  of two equally accurate candidates. The quotients are compared as rounded
  whole numbers, which is why the last is stated with "not less".
- `LikelihoodSound` lets the sum of two covariances overflow (`NonFiniteCovariance`)
  but never be invalid; rounding, which could make a nearly singular sum
  indefinite, is not modelled.
- `ExportFaithful` compares whole documents, with the graphs of a nanopublication, with
  those of all records that differ in one part. Records have one document if and only if
  they agree in what `Told` keeps. `Told` leaves out the target of an assignment, the
  snapshot of a host entity, the residual mass and the digits past those printed. That
  is one direction too many for "lossless", the word of the comment (section 6).
- `CallsTerminate` is about commits and openings, step by step, with one step per
  transaction that a cascade deactivates. The search for these transactions is a set
  (`RevertTargets`) and not the worklist of `revert_targets`, so the end of that loop
  is not shown; it lets every transaction in once.
- `Recovered` is about crashes between two commits. One in the middle of `apply` leaves no
  memory to compare with: that the commit is then there as a whole, and a
  resubmission answered with its version, is `ImplementsDurableLog`.

## 5. Theorems

All for every value of the constants. The theorems of the ledger assume
`LedgerAssumption`: `MaxVersion` is a natural number, identities are numbers,
the envelopes are what the constructors let through (`CommandEnvelope`; an
observation that supersedes itself, say, is refused by `Observation::new`),
`None` is none of them. Those of the durable ledger assume `KeyValueAssumption`, that a key has at least one digit to a base
of at least two, and `KeysAssumption`, that `MaxVersion` fits into the digits,
as a `u64` does into eight bytes. `WorkspaceAssumption` and
`IntakeAssumption` say that times are numbers and what range each capacity and
bound is from. Those of the runtime assume, beside `LedgerAssumption`, that each
sequence of the pool has a last number (`RuntimeAssumption`), that the numbers
it gives out are identifiers of their kind (`PoolAssumption`), and that a batch
holds observations that `Observation::new` let through (`BatchAssumption`).
Nothing is assumed about which batches there are, how large they are or how
often the process restarts. `CollectiveAssumption` says that the lengths of batches
are a finite set of positive numbers, that what is proposed are sequences of
candidates, that what is emitted are tables of numbers (an emitted table need not be
one that `FactorTable::new` accepts) and that losses and probabilities are whole
multiples of a unit; there may be any number of providers, candidates and tables. Those of the evidence path
assume that the arguments of the constructors are numbers, infinities and NaN of
the right shape (`PathAssumption`), and that half a turn and the probability 1 are
finite (`SpatialAssumption`, `EvidenceAssumption`); `Scale`, `Digit` and the largest number
are any. TLC evaluates the assumptions in the runs.

| theorem | statement |
|---|---|
| `TypeCorrect` | `Spec => []TypeOK`: every pointer between tables leads to a record |
| `ApplyNeverSurprised` | `Spec => []ValidationHolds` |
| `LogIsConsistent` | `Spec => []LogConsistent` |
| `LogOnlyGrows` | `Spec => LogAppendOnly` |
| `LedgerImplementsLog` | `Spec => ImplementsLog`: the ledger refines `AppendOnlyLog` |
| `DependentsAreInverse` | `Spec => []DependentsInverse` |
| `RevertsLeaveNoOrphans` | `Spec => []NoOrphans` |
| `CorrectionsAcyclic` | `Spec => []SupersessionAcyclic` |
| `CanonicalIsRight` | `Spec => []CanonicalIsLeast`: the union-find and its rebuild agree |
| `MembersStayMerged` | `Spec => []MembersAreMerged` |
| `MergesAreJustified` | `Spec => []OpenMergesJustified` |
| `CurrentFollowsLog` | `Spec => []CurrentIsLatest` |
| `TimelineIsConsistent` | `Spec => []TimelineConsistent` |
| `OutboxIsJustified` | `Spec => []OutboxJustified` |
| `ReceiptsAreMatched` | `Spec => []ReceiptsMatch` |
| `EvidenceIsImmutable` | `Spec => EvidenceImmutable` |
| `MergesAreHistory` | `Spec => MergeHistoryFrozen` |
| `InferencesAreHistory` | `Spec => InferenceHistoryFrozen` |
| `HistoryIsAView` | `Spec => []HistoryFollowsLog` (of `Workspace`): with evictions, inserts over any entry, and resumptions |
| `EvictionKeepsAll` | `Spec => NothingLost` (of `Workspace`): what is evicted or replaced is handed over as it was |
| `DurableImplementsLog` | `DurableSpec => ImplementsDurableLog`: with crashes, failing writes and replays too, what is stored is an append-only log, and every answer is true of it |
| `DurableOutboxIsJustified` | `DurableSpec => []OutboxJustified` |
| `DurableReceiptsMatch` | `DurableSpec => []ReceiptsMatch` |
| `ReplayNeverFails` | `DurableSpec => []NeverCorrupt`: what was stored can be replayed, in every order of crashes, failing writes and openings |
| `RestartRecovers` | `DurableSpec => []Recovered`: a restart rebuilds every table a crash between two commits lost |
| `NoOldAnswer` | `RuntimeSpec => []NeverReplayed` |
| `HostFollowsOutbox` | `RuntimeSpec => []HostMatchesOutbox`: with lost answers, retries and restarts |
| `EvidenceIsCovered` | `RuntimeSpec => []ResolutionCoversEvidence` |
| `NothingResolvedTwice` | `RuntimeSpec => []ResolvedOnce` |
| `ResultIsTrue` | `RuntimeSpec => []ResultHolds` |
| `WorkspaceIsAView` | `RuntimeSpec => []WorkspaceFollowsLog`: with evictions, refusals and restarts |
| `DomainsAreGated` | `CollectiveSpec => []DomainsGated` |
| `DecisionsAreLeast` | `CollectiveSpec => []LeastRisk`: the least risk, and the first such action in the order of the code |
| `TopologyIsRight` | `CollectiveSpec => []TopologyRight`: for any scopes, the union-find keeps the components and their sizes, and `acyclic` is the truth |
| `ExactAnswersAreExact` | `CollectiveSpec => []ExactIsExact`: an answer is called exact when there is no cycle, and its passes have brought every prior and potential of a component to each of its variables once |
| `LikelihoodsAreSound` | `Spec => []LikelihoodSound` (of `EvidencePath`) |
| `ConstructorsAlwaysAgree` | `Spec => []ConstructorsAgree` (of `EvidencePath`) |
| `ExportsAreFaithful` | `Spec => []ExportFaithful` (of `EvidencePath`): whatever the buffer held, a document is that of the last records, and records have one document if and only if the same is told of them |
| `NewestPublication` | `Spec => []BatchSeesNewest` (of `Intake`) |
| `IngressKeepsOrder` | `Spec => []AcceptedInOrder` (of `Intake`) |

`TypeOK` is not inductive: `apply` checks nothing, so that `Merge`, say, keeps
`canonical` a function on the known identities only because `validate` saw both
ends. The inductive invariant is `LedgerInv == TypeOK /\ ValidationHolds`.
`ValidationHolds` is stated relative to the commands that are left: what
command `i` needs is in the state or written by a command between the cursor
and `i`. `StartHolds` establishes it from `CommandsValid`; each arm then moves
what it wrote from "left" to "in the state" (`ApplyAdds`, `HoldsKept`), and the
only commands that take something away are those that close merges
(`SplitStillHolds`: a merge that a later `Split` names may be closed meanwhile,
at this very version).

`LogConsistent` is inductive with `LedgerInv`: `LogKept` covers the steps that
leave the log alone, `DeactivateLog` the change of one flag, `LogExtended` the
append. The action properties follow per action; for inferences one more
invariant is needed, `CurrentOpen`: a current pointer names an open inference
of its own observation, or `CloseCurrent` could move the end of a record that
ended before. For merges the corresponding fact is part of
`ValidationHolds`.

`LedgerImplementsLog` maps the steps of a commit to the log: all but the last
change nothing a client sees, `Publish` appends, an answer is an answer. What
the log asks of an append (a new transaction and key, the next version,
dependencies that are recorded) was found by `prepare` at `Accept`, several
steps earlier; `HeadHolds` carries it to `Publish`. A replay is answered from the
index of keys, which `LogConsistent` ties to the log. Of the liveness of the
log nothing is claimed. `DependentsAreInverse` needs that dependencies are
recorded transactions, or a later transaction could turn out to have had
dependents before it existed. `RevertsLeaveNoOrphans` builds on it: while a
cascade is under way its targets hold every active dependent of a target
(`TargetsClosed`), and no other transaction depends on an inactive one
(`NoneLeftBehind`). A strict revert has no active dependents, which `validate`
found and `StrictHolds` carries past the earlier commands of the envelope.

`CanonicalIsRight` is about connectivity. `ReachableUnion` says what an edge
both ways does to the classes of a symmetric graph, from minimality alone
(`ReachableLeast`); with it `MergeClasses` shows that replacing the greater
representative by the lesser is right when both are least members of their
classes. That a new identity is connected to nothing needs that it is created
once, which `validate` found in its overlay: `RestHolds` carries that, and that
the superseded observation of a correction is there, to the command's turn, as
`ValidationHolds` does for the rest. The circle of corrections is excluded by
the versions, except within one envelope, where the order of its commands does
it.

`HistoryFollowsLog` is not inductive: to append an association without leaving
one out, an entry that remembers anything must have applied the newest version
of its identity that was delivered before, or lack only versions that are in `lost`
(`UpToDate`). The bridge is `newest`, the newest version ever applied to the
identity: an `insert` adds to `lost` all between the copy's version and it. What the
owner holds has to follow the log as well (`HeldOK`), since any of it may be inserted,
but need not be up to date.
`BatchSeesNewest` rests on the order of the two stores: a publication that
finds the one in a cell complete still has its own store into that cell before
it (`ProvidersDue`, `SnapshotDue`), and nothing publishes while a batch runs.

`MembersStayMerged` adds that of each envelope the lifecycle commands that
validation accepted concern identities that represent themselves, unless a merge
or split came before them in the envelope.

The tables as views of the log (`LedgerViewProofs`) share one argument. The
properties speak of the time between commits; what is inductive speaks of the
commands *applied*: those of the log, and of the envelope in flight those
before the cursor (`DoneAt`), with the transaction in flight active. Each view
has an invariant that says the table is what these commands make it, and
`HistorySteps` lists once how a step moves them: a command is applied, a
transaction deactivated, or the envelope recorded, which changes nothing. All
of it is stated for `TableStep`, a step as the tables see it, whatever it
answers; that is what the durable ledger, which answers otherwise, can use
again.

- Open merges: a merge is open as long as its transaction is active and no
  split has closed it; what a split ended was ended at the split's version.
- Current interpretations: the pointer leads to the last decision applied for
  its observation if that is active, and nowhere otherwise. A cascade removes
  exactly the pointers of its target.
- The timeline needs that a record that is not current has ended (`OnlyCurrentOpen`),
  that records of one observation do not overlap, and that evidence comes before
  what is inferred from it.
- Outbox and receipts: an entry carries the transaction and version that
  enqueued it. Of the envelope in flight one needs what `validate` found of the
  commands that are left (`EnqueuesLater`, `ReceiptsLater`), as above.

`DurableImplementsLog` has three parts. Keys: `ShiftedOrder` and `KeysAreOrdered`
show that the digits of a smaller version come first in the order of the
keys; `Numbered`, about ranks of finite sets, then gives `ScanInOrder`: whatever
the table, if it holds the keys of versions 1 to m and no others, the scan
returns the mth record at place m. The store: `DiskInv` says that the disk holds
exactly the versions of the log and the envelope that is in flight while
running, and while opening at least those replayed, and that what it holds at
each version was valid there. Every step of the durable ledger is either a
`TableStep` or makes the memory what it was at the start (`DurableTables`), so
that each invariant of the memory ledger carries over, through a crash and
the replay after it. The contract: the put is the append (`WriteIsAdd`), all
that follows is invisible, and an answer is about a record that is stored.

`ReplayNeverFails` and `RestartRecovers` compare the memory of a process with one
that is gone, so the proof makes memories values. `Memory` is the record of all
tables, `At(s)` is the module `Ledger` read at the memory `s`, and `Step(s, E)`
is the one memory that follows `s` when the records `E` are replayed. Each arm of
`apply`, the beginning of a commit and its end take `Memory` to
`Step(Memory, Stored)` (`ApplyIsStep`, `StartIsStep`, `RecordIsStep`); that there
is one successor needs the order of a cascade's targets, since the representative
whose status a rebuild changes can depend on it. A `Run` is a sequence of such
steps from the blank memory, and two runs on the same records agree
(`RunsAgree`), so between commits there is one memory for each version
(`OneMemory`). `ReplayInv` says that the process is on such a run, whether it
wrote the records or replays them, that each record is valid at the memory of its
predecessors, and that a crash lost the memory to which all records lead. Records
that are added later do not change a run (`LeadsAppended`), so a write keeps
this for those before it. With `KeyIsDecoded`, that the digits of a version are
read back as that version, the next record of an opening is always accepted.

The runtime (`RuntimeProofs`) steps through the ledger that it owns, so that the
invariants of the ledger hold of it once each envelope it can submit is shown to
be a `CommandEnvelope` (`PhaseHolds`). `WorkInv` adds what the locals of a call
mean in each phase: what was submitted is what the phase says and was computed
from the version the call last saw (`SubmissionHolds`), the evidence of a batch
that is being resolved is the newest record (`EvidenceThere`), each decision
made so far leads to a command and its writes (`DecidedInv`), and nothing is ever
reverted (`OnlyForward`; the runtime has no such command). The theorems:

- `NoOldAnswer`: an envelope with the key of an earlier process was computed
  from an earlier version, so it differs from the one submitted, and `prepare`
  answers with a collision.
- `EvidenceIsCovered`: as the ledger is owned, the resolution of a batch is the
  record right after its evidence, and lists its observations in the order of
  the batch.
- `NothingResolvedTwice`: an observation is persisted by one record
  (`PersistRecorded`), a resolution is the record after it (`OneResolution`), and
  covers it once.
- `HostFollowsOutbox`: what a call wants to write is in the outbox at the version
  it carries (`WritesStand`), an entry is never removed or rewritten, and one
  that is enqueued is new (`EnqueueFresh`), so an edge stays the edge of its
  entry; a receipt is submitted for what has been written only (`Written`).
- `ResultIsTrue`: what a call returns is what it still owes. `BatchOwed` says of
  each phase that the writes put aside as pending and those without a receipt
  are together the entries of its decisions that are not completed. It begins to hold
  when the resolution is committed: the writes planned from the decisions are
  the commands that enqueued the entries (`WritesPlanned`, `EnqueuesPlanned`), and
  none has a receipt yet. From then on a receipt takes one write from both
  sides, though the tables have it before the log does (`Received`). A retry is
  of one write (`RetryOwed`).
- `WorkspaceIsAView`: while a batch is decided, each association belongs to a
  resolution of its own and carries the next version (`AssociationsPlanned`,
  `ReachedHolds`). When the resolution is committed they are associations of the
  newest record (`AssociationsCached`; that their identities are known is
  `AssignedKnown`, from `validate`), and every entry is at an older version
  (`AppliedPast`). An entry is thus behind the log by what is still to be cached
  only (`NotBehind`): caching takes one association from that, a restart takes all
  entries with it, and a refusal (`StaleCommit`) needs a record that names an
  identity twice (`RefusedTwice`).

The inference (`CollectiveProofs`). `push_observation` extends a buffer by a range in
order and leaves the ranges before it (`PushAddsGroup`, from `CanonicalSorts`: a
finite set of numbers can be put in order, by induction on its size as a least
counterexample). `GatingInv` says where in the scratch space the proposals of an
observation are: in the solver's buffer when there is one provider, in the groups
and the buffer of the running provider when there are several, in one of both while
the groups are drained. It holds from `Begin` on, because `reset` empties the groups of
as many observations as the batch has. A batch that fails makes it hold
vacuously. `DecisionsAreLeast` rests on `BestIsFirstLeast`, that the loop over any
sequence of actions ends with the first of those with the least risk, and on
`AllConsidered`, that the sequence in `decide` holds every action and in which place.

`TopologyIsRight` needs to know that chains of parents end. `IsForest` says so with
two functions the code does not have: the root of every node, and a rank that falls
along the chain, whose existence is the invariant (`Unified`). From them `Root`,
which is a recursion, is that function (`EndsAreRoots`); compression keeps both
(`CompressedForest`), and hanging one root below another changes them in one
tree (`LinkedForest`). `Joins` says that nodes with one root are in the same closed
sets and the ends of an edge have one root, so that the classes of the roots are the
components (`RootsTellComponents`). `Counted` says that edges and roots together
are at least as many as the nodes, and as many only while `acyclic` holds: an edge
in a tree is one more, an edge between two trees costs a root. That no pair of nodes
is counted twice rests on `FactorTable::new`, through the concatenation in `compile`
(`EdgesListed`, `FlattenKeepsApart`).

`ExactAnswersAreExact` needs more of a forest than its number of edges. `IsTree` says
that each edge is a cut: there is a set of nodes that only this edge leaves. Uniting
two components keeps this for all edges (`TreeGrows`). It follows that the parts
behind two edges of a node have nothing in common (`BehindApart`), that together
with the node they are all that is reached from it (`ReachIsBehind`), and that
there are fewer edges in each of them (`LessBehind`). So the sum a node forms has each
term at most once (`SumCarries`, `SumOfIndicators`), and a pass brings a message one
edge further (`PassInforms`). The invariant (`MessagesHold`) says of the message over
an edge that it counts nothing twice and nothing from the other side at any time, and
that it is complete once there were more passes than there are edges on its side.
`LimitIs` compares these with the edges of a component, whose nodes are those that
are reached from the variable (`ReachIsBelow`).

The evidence path (`EvidenceProofs`). Most of `LikelihoodsAreSound` is arithmetic of all
integers, where tests and runs have samples. A combined covariance is positive semidefinite if
both are (`SumOfCovariances`, from `TwiceProduct`: 2x is at most u + w if the square
of x is at most uw), so neither its determinant nor the quadratic form
(`QuadraticForm`) is negative and `InvalidCovariance` is never the answer to two
Gaussians that `try_new` accepted. `Distances` compares the haversine of all places
of the grid with the sphere. `ConstructorsAlwaysAgree` goes coordinate by
coordinate. For `ExportsAreFaithful`, an operator `Makes` says that a document
makes a statement, and one lemma for each part of a document lists its
statements (`InObservation` to `InNanopublication`). Nodes of different kinds are
different subjects (`AboutNodes`), so each property of a node has the one value its record
gives it (`DecisionValues` to `AlternativeValues`), which is what the shapes ask, and
two records with one document have the same values (`Determined`). The other way
(`SameStatements`), what is told of records is all that their statements and graphs
are made of. The inductive part, `ExportInv`, says that the buffer holds the document of the records that were
exported last and nothing else.

`IngressKeepsOrder` follows from an invariant of the same form about the line and
the counters.

Not proved, model-checked only:

- the liveness properties (`CallsTerminate`, `CallTerminates`), which with `ENABLED` are
  beyond the prover.

Every invariant and every action property of the passing runs is a theorem. The
runs that find a violation (section 6) state what is not so.

## 6. Where the code does something else

Each of these four is a run that is expected to end in a violation.

1. `ambiguous_history`. Reverting a resolution that was superseded ends its
   decision again, at the later version, and `decision_as_of` then finds two
   decisions for one version (`ledger.rs:1120`).
2. `lost_delivery`. A cascade deactivates dependents that are inactive already
   and removes outbox entries by identifier: one that an active transaction
   has enqueued since goes too (`ledger.rs:1140`).
3. `late_error`. A batch that associates two observations with one identity is
   committed and then answered with `StaleCommit` (`pipeline.rs:638`), while
   the documentation promises errors before the resolution commit.
4. `torn_publication`. `publish` "atomically publishes" with two stores
   (`pipeline.rs:369-370`) and takes `&self`: of two publishers one can leave
   its providers and the other its snapshot, and the next batch loads that
   pair. A batch that is running is not exposed, since `process_batch` takes
   `&mut self`.

Noted while modelling, and not runs:

- An envelope that resolves an observation twice is accepted. The interval of
  the first records would be empty, `close_current` ignores the error
  (`ledger.rs:1047`), and both decisions stay open, where a test
  (`v2_invariants.rs:204`) says that only one is current.
- No step takes the status Merged away from an identity whose only merge was
  reverted (`ledger.rs:1167`), though `identity.rs:71` calls it a member of an
  active class; it can never be assigned or changed again, unless a split names
  it.
- Two receipts for one entry in one envelope are both recorded
  (`ledger.rs:843`), though `ledger.rs:112` asks for a pending entry.
- `decide` documents (`decision.rs:147`) that assignments come before a new
  identity in a tie; it starts with `CreateIdentity`, which then keeps every
  tie (`decision.rs:154`), as `LeastRisk` says.
- `project_decision` "writes a lossless projection" (`interoperability.rs:65`), but
  an assignment is written without its target (`interoperability.rs:367`), and the
  assertion graph of a nanopublication, which "records the selected action" (line
  173), names the decision alone: decisions for different candidates have one
  document. The residual mass and the snapshot of a host entity are not written
  either: two entries for one entity at two snapshots come out as two
  alternatives with the same term. `ExportFaithful` states this loss.
- After a refusal of `project_decision` the buffer still holds the document
  written before.
- Two accuracies that `SpatialComponent::try_new` accepts may have a combined
  deviation that overflows; it is then infinite, and every distance has
  log-likelihood zero, the best there is.
- `SplitPlan::invalidate_dependents` (`command.rs:81`) is read by nothing
  (`ledger.rs:946`).
- A split makes every identity it names Active, Resolved and Retired ones
  included (`ledger.rs:957`).
- An identifier used by a merge may be used by a later decision: the check
  looks in the decisions only.
- A revert removes outbox entries that are completed; the host write stays.
- After a restart `process_batch` fails until the pool has passed the numbers in
  use: with `IdempotencyCollision` first, and when the transactions are past
  but the inferences are not, after its evidence was committed.
- `HotWorkspace::insert` (`hot.rs:135`) replaces an entry by an older copy without a
  word; the next association then leaves a gap in the history, and
  `apply_committed` reports nothing (`lost` in `Workspace`).
- Evidence whose inference failed can never be resolved by `process_batch`,
  which persists it again and is refused.

## 7. Not modelled, and the plan

Floating point inside the solver (message values, damping, residuals, rounding)
is out of reach. Logarithms of probabilities, quality metadata and host
references are checks of single fields; typestate wrappers, benchmarks and the
Python stub hold no protocol. What would follow, in order:

1. Maintenance commits (merges, reverts) between the calls of `Runtime`, which
   `retry_materialization` and the workspace then meet.
2. An abstract exactly-once delivery that `Runtime` and `HostGraph` implement,
   and `Collective` shown to implement the inference step of `Runtime`.
3. The host's schema profile.
