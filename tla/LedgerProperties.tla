-------------------------- MODULE LedgerProperties --------------------------
(***************************************************************************)
(* What makes the ledger correct: its log, the history of its evidence and *)
(* interpretations, its merge classes and its outbox.  The last section    *)
(* states what the documentation says and the code does not do.            *)
(***************************************************************************)
EXTENDS Ledger

-----------------------------------------------------------------------------
(***************************************************************************)
(* The log.                                                                *)
(***************************************************************************)
Committed(t) == transactions[transaction_indexes[t]].envelope

(* The log and its indexes agree: record n was computed from version n - 1 *)
(* and published as version n, and transaction_indexes and idempotency     *)
(* lead to exactly the records there are.                                  *)
LogConsistent ==
    /\ version = Len(transactions)
    /\ \A n \in DOMAIN transactions :
          LET e == transactions[n].envelope
          IN  /\ transactions[n].version = n /\ e.expected_version = n - 1
              /\ e.transaction \in DOMAIN transaction_indexes
              /\ transaction_indexes[e.transaction] = n
              /\ e.idempotency \in DOMAIN idempotency
              /\ idempotency[e.idempotency] = [version |-> n, transaction |-> e.transaction]
    /\ \A t \in DOMAIN transaction_indexes : Committed(t).transaction = t
    /\ \A k \in DOMAIN idempotency : Committed(idempotency[k].transaction).idempotency = k

(* `dependents' is the inverse of depends_on over the log, and a           *)
(* transaction only depends on earlier ones, so the search of              *)
(* revert_targets neither misses a dependent nor runs in a circle.         *)
DependentsInverse ==
    /\ \A t \in DOMAIN transaction_indexes :
          Lookup(dependents, t, {}) =
              {u \in DOMAIN transaction_indexes : t \in Committed(u).depends_on}
    /\ \A t \in DOMAIN dependents : \A u \in dependents[t] :
          transaction_indexes[t] < transaction_indexes[u]

Reverts(e) == \E i \in DOMAIN e.commands :
                 e.commands[i].kind = "Revert" /\ e.commands[i].mode # "Compensating"

(* No orphans: what an active transaction depends on is active, unless the *)
(* transaction reverted something itself.  Strict refuses while there are  *)
(* active dependents and Cascade takes all of them along.                  *)
NoOrphans ==
    Settled =>
        \A n \in DOMAIN transactions :
            LET e == transactions[n].envelope
            IN  transactions[n].active /\ ~Reverts(e) => DependenciesActive(e)

(* The log is append-only: a step keeps every record with its version and  *)
(* its envelope, and a transaction that was deactivated stays inactive.    *)
LogAppendOnly ==
    [][\A n \in DOMAIN transactions :
          /\ n \in DOMAIN transactions'
          /\ transactions'[n].version = transactions[n].version
          /\ transactions'[n].envelope = transactions[n].envelope
          /\ transactions'[n].active => transactions[n].active]_vars

(* The ledger seen by its clients is an append-only log: see AppendOnlyLog. *)
Contract == INSTANCE AppendOnlyLog WITH
    entries <- [n \in DOMAIN transactions |-> transactions[n].envelope],
    reply <- outcome

(* The memory ledger implements that log: a replay answers the version the *)
(* very same envelope was committed at, whatever was reverted since.       *)
ImplementsLog == Contract!Spec

-----------------------------------------------------------------------------
(***************************************************************************)
(* Evidence and its interpretation.                                        *)
(***************************************************************************)

(* Evidence is immutable: a step keeps every observation with its content  *)
(* and the version that persisted it, reverts included.                    *)
EvidenceImmutable ==
    [][\A o \in DOMAIN observations :
          /\ o \in DOMAIN observations'
          /\ observations'[o] = observations[o]
          /\ observation_commits'[o] = observation_commits[o]]_vars

(* Corrections never form a circle: an observation supersedes one that was *)
(* persisted before it, or earlier in the same envelope.                   *)
Supersession == {<<o, observations[o]>> : o \in {p \in DOMAIN observations : observations[p] # None}}

SupersessionAcyclic ==
    \A edge \in Supersession :
        /\ edge[2] \in DOMAIN observations
        /\ observation_commits[edge[2]] <= observation_commits[edge[1]]
        /\ edge[1] \notin Reachable(edge[2], Supersession)

(* The resolutions of an observation, by their place in the log. *)
Resolutions(o) ==
    {p \in UNION {{n} \X DOMAIN transactions[n].envelope.commands : n \in DOMAIN transactions} :
        LET c == transactions[p[1]].envelope.commands[p[2]]
        IN  c.kind = "CommitResolution" /\ c.inference.observation = o}

Latest(P) == CHOOSE p \in P : \A q \in P : q[1] < p[1] \/ (q[1] = p[1] /\ q[2] <= p[2])

(* The current pointers are a view of the log: they name the records of    *)
(* the last resolution of the observation when its transaction is active,  *)
(* and there are none when it was reverted or never was.                   *)
CurrentIsLatest ==
    Settled =>
        \A o \in Observation :
            LET P == Resolutions(o)
                last == Latest(P)
                c == transactions[last[1]].envelope.commands[last[2]]
                current == P # {} /\ transactions[last[1]].active
            IN  /\ (o \in DOMAIN current_inference) <=> current
                /\ current => /\ current_inference[o] = c.inference.id
                              /\ current_decision[o] = c.decision.id

(* Two resolutions of one observation in one envelope: the records of the  *)
(* first cannot be closed, since their interval would be empty.            *)
ResolvedTwice(o) == \E p, q \in Resolutions(o) : p[1] = q[1] /\ p[2] # q[2]

InferencesOf(o) == {i \in DOMAIN inferences : inferences[i].observation = o}
DecisionsOf(o) == {d \in DOMAIN decisions : decisions[d].inference \in InferencesOf(o)}

(* What decision_as_of may answer: `find' takes any decision of the map.    *)
DecisionAsOf(o, v) == {d \in DecisionsOf(o) : Contains(decisions[d].validity, v)}

(* observations_as_of, for all event times. *)
ObservationsAsOf(v) == {o \in DOMAIN observations : observation_commits[o] <= v}

(* current_decision, or none. *)
CurrentDecision(o) ==
    {current_decision[p] : p \in DOMAIN current_decision \cap {o}} \cap DOMAIN decisions

Overlap(a, b) == a.begin < b.end /\ b.begin < a.end

(* The queries tell one story.  An observation has no open inference but   *)
(* the current one, and decision_as_of for the last version answers the    *)
(* current decision or none.  Its inferences follow one another in         *)
(* disjoint intervals, whatever is superseded and reverted, and none       *)
(* begins at a version whose observations_as_of leaves its evidence out.   *)
TimelineConsistent ==
    Settled =>
        \A o \in Observation : ~ResolvedTwice(o) =>
            /\ {i \in InferencesOf(o) : IsOpen(inferences[i].validity)} =
                  {current_inference[p] : p \in DOMAIN current_inference \cap {o}}
            /\ DecisionAsOf(o, version) = CurrentDecision(o)
            /\ \A i, j \in InferencesOf(o) :
                  i # j => ~Overlap(inferences[i].validity, inferences[j].validity)
            /\ \A i \in InferencesOf(o) :
                  o \in ObservationsAsOf(inferences[i].validity.begin)

(* The history of inferences is frozen: a record keeps its observation and *)
(* its beginning, and once it has ended it keeps its end.                  *)
InferenceHistoryFrozen ==
    [][\A i \in DOMAIN inferences :
          LET before == inferences[i]
              after == inferences'[i]
          IN  /\ i \in DOMAIN inferences'
              /\ after.observation = before.observation
              /\ after.validity.begin = before.validity.begin
              /\ ~IsOpen(before.validity) => after = before]_vars

-----------------------------------------------------------------------------
(***************************************************************************)
(* Identities, merge classes and their representatives.                    *)
(***************************************************************************)

(* The representatives kept up incrementally by Merge are those the open   *)
(* merges define: each identity is represented by the least one it is      *)
(* connected to.  Holds between any two commands of a commit, too.         *)
CanonicalIsLeast ==
    /\ DOMAIN canonical = DOMAIN identities
    /\ \A id \in DOMAIN identities :
          canonical[id] = Least(Reachable(id, OpenEdges(merges)))

(* A lifecycle command that the overlay misleads: it follows a Merge in    *)
(* its envelope, which leaves no status there, or a Split that names its   *)
(* identity, which leaves Active although the identity may stay in its     *)
(* class.                                                                  *)
Misled(e) ==
    \E i, j \in DOMAIN e.commands :
        LET before == e.commands[i]
            c == e.commands[j]
        IN  /\ i < j /\ c.kind \in {"Promote", "Dormant", "Reactivate", "Retire"}
            /\ \/ before.kind = "Merge"
               \/ before.kind = "Split" /\ Writes(before, c.identity)

(* Whoever does not represent its merge class is Merged, so that no        *)
(* lifecycle command and no assignment reaches it.                         *)
MembersAreMerged ==
    Settled => \/ \E n \in DOMAIN transactions : Misled(transactions[n].envelope)
               \/ \A id \in DOMAIN identities :
                      canonical[id] # id => identities[id] = "Merged"

(* The Split commands of the log. *)
Splits == {c \in UNION {{transactions[n].envelope.commands[i] :
                             i \in DOMAIN transactions[n].envelope.commands} :
                            n \in DOMAIN transactions} : c.kind = "Split"}

(* The merge classes are a view of the log: a merge is open exactly when   *)
(* its transaction is active and no committed Split closed it.             *)
OpenMergesJustified ==
    Settled =>
        \A d \in DOMAIN merges :
            IsOpen(merges[d].validity) <=>
                IsActive(merges[d].transaction) /\ \A c \in Splits : d \notin c.close_merges

(* Splits and reverts destroy nothing: a merge record is never removed,    *)
(* keeps its endpoints and its beginning, and once closed stays closed at  *)
(* the version that closed it.                                             *)
MergeHistoryFrozen ==
    [][\A d \in DOMAIN merges :
          LET before == merges[d]
              after == merges'[d]
          IN  /\ d \in DOMAIN merges'
              /\ after = [before EXCEPT !.validity = after.validity]
              /\ after.validity.begin = before.validity.begin
              /\ ~IsOpen(before.validity) => after = before]_vars

-----------------------------------------------------------------------------
(***************************************************************************)
(* The outbox and the receipts.                                            *)
(***************************************************************************)
Enqueues(e, m, d) ==
    \E i \in DOMAIN e.commands :
        /\ e.commands[i].kind = "EnqueueMaterialization"
        /\ e.commands[i].materialization = m /\ e.commands[i].decision = d

(* An outbox entry stands for the command of an active transaction, the    *)
(* one committed at the entry's version: a reverted write is not delivered. *)
(* Its decision, of a resolution or of a merge, was not recorded after it.  *)
OutboxJustified ==
    Settled =>
        \A m \in DOMAIN outbox :
            LET d == outbox[m].decision
            IN  /\ outbox[m].commit \in DOMAIN transactions
                /\ transactions[outbox[m].commit].active
                /\ Enqueues(transactions[outbox[m].commit].envelope, m, d)
                /\ \/ d \in DOMAIN decisions /\ decisions[d].validity.begin <= outbox[m].commit
                   \/ d \in DOMAIN merges /\ merges[d].validity.begin <= outbox[m].commit

(* Receipts and entries match.  An entry is completed exactly when a       *)
(* receipt came after it was enqueued: receipts for an earlier use of its  *)
(* identifier do not count.  A receipt names a materialization and the     *)
(* decision that an earlier transaction enqueued it for, and two receipts  *)
(* for one entry came in one envelope: only there is the second accepted.  *)
ReceiptsMatch ==
    Settled =>
        /\ \A m \in DOMAIN outbox :
               outbox[m].completed <=>
                   \E n \in DOMAIN receipts : receipts[n].materialization = m
                                               /\ receipts[n].commit > outbox[m].commit
        /\ \A n \in DOMAIN receipts : \E k \in DOMAIN transactions :
               /\ k < receipts[n].commit
               /\ Enqueues(transactions[k].envelope, receipts[n].materialization,
                           receipts[n].decision)
        /\ \A m \in DOMAIN outbox : \A n1, n2 \in DOMAIN receipts :
               /\ {receipts[n1].materialization, receipts[n2].materialization} = {m}
               /\ receipts[n1].commit > outbox[m].commit
               /\ receipts[n2].commit > outbox[m].commit
               => receipts[n1].commit = receipts[n2].commit

-----------------------------------------------------------------------------
(***************************************************************************)
(* Between validation and the end of apply.                                *)
(***************************************************************************)

(* The commands that are left to apply before command i. *)
Left(i) == {inflight.commands[j] : j \in cursor..(i - 1)}

Uses(c, id) ==
    \/ c.kind = "Merge" /\ id \in {c.left, c.right}
    \/ c.kind \in {"Promote", "Dormant", "Reactivate", "Retire"} /\ c.identity = id
    \/ c.kind = "Split" /\ \E p \in c.partitions : p.identity = id

HeadHolds ==
    /\ cursor \in 1..(Len(inflight.commands) + 1)
    /\ SnapshotCurrent(inflight) /\ VersionLeft
    /\ NewTransaction(inflight) /\ FreshKey(inflight)
    /\ inflight.depends_on \subseteq DOMAIN transaction_indexes

EvidenceHolds(i) ==
    LET c == inflight.commands[i]
        planned == {b.observation : b \in {b \in Left(i) : b.kind = "PersistObservation"}}
    IN  /\ c.kind = "PersistObservation" =>
               c.observation \notin DOMAIN observations \cup planned
        /\ c.kind = "CommitResolution" =>
               c.inference.observation \in DOMAIN observations \cup planned

ResolutionHolds(i) ==
    LET c == inflight.commands[i]
        planned == {b \in Left(i) : b.kind = "CommitResolution"}
    IN  c.kind = "CommitResolution" =>
            /\ c.inference.id \notin DOMAIN inferences \cup {b.inference.id : b \in planned}
            /\ c.decision.id \notin DOMAIN decisions \cup {b.decision.id : b \in planned}
            /\ c.decision.inference = c.inference.id
            /\ c.inference.begin = next_version /\ c.decision.begin = next_version

IdentityHolds(i) ==
    \A id \in Identity : Uses(inflight.commands[i], id) =>
        id \in DOMAIN identities \/ \E b \in Left(i) : Writes(b, id)

MergeHolds(i) ==
    LET c == inflight.commands[i]
    IN  c.kind = "Merge" =>
            /\ c.decision \notin DOMAIN merges
            /\ \A b \in Left(i) : b.kind = "Merge" => b.decision # c.decision

SplitHolds(i) ==
    LET c == inflight.commands[i]
    IN  c.kind = "Split" => \A d \in c.close_merges :
            /\ d \in DOMAIN merges
            /\ IsOpen(merges[d].validity) \/ merges[d].validity.end = next_version

RevertHolds(i) ==
    LET c == inflight.commands[i]
    IN  c.kind = "Revert" => c.transaction \in DOMAIN transaction_indexes

(* What validate found of an envelope as a whole still holds of the        *)
(* commands that are left whenever apply comes to the next one, although   *)
(* nothing is checked again: no command, and no transaction a Revert       *)
(* deactivates, takes away what a later command of the envelope needs.     *)
ValidationHolds ==
    /\ inflight # None =>
           /\ HeadHolds
           /\ \A i \in cursor..Len(inflight.commands) :
                 /\ EvidenceHolds(i) /\ ResolutionHolds(i)
                 /\ IdentityHolds(i) /\ MergeHolds(i) /\ SplitHolds(i) /\ RevertHolds(i)
    /\ targets # {} =>
           /\ inflight # None /\ cursor \in DOMAIN inflight.commands
           /\ command.kind = "Revert"

-----------------------------------------------------------------------------
(***************************************************************************)
(* What comments and tests of the repository say and the code does not do. *)
(***************************************************************************)

(* decision_as_of: "the decision valid at one historical commit version".  *)
(* Not so after an old resolution is reverted: deactivate_transaction ends *)
(* its decision a second time, later, over its successor's interval.       *)
DecisionAsOfUnique ==
    Settled => \A o \in Observation, v \in 1..version : ~ResolvedTwice(o) =>
        Cardinality(DecisionAsOf(o, v)) <= 1

(* TransactionRecord::active: "Whether later reversion leaves its          *)
(* interpretation current".  A cascade deactivates transactions that were  *)
(* inactive before, and takes the outbox entry that an active transaction  *)
(* has enqueued under the same identifier since.                           *)
ActiveEnqueuesKept ==
    Settled =>
        \A n \in DOMAIN transactions : \A m \in Materialization, d \in Decision :
            transactions[n].active /\ Enqueues(transactions[n].envelope, m, d)
                => m \in DOMAIN outbox
=============================================================================
