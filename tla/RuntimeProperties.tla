------------------------- MODULE RuntimeProperties -------------------------
(***************************************************************************)
(* What makes the runtime correct: its calls against the log, the host     *)
(* writes against the outbox, the workspace against the log.               *)
(***************************************************************************)
EXTENDS Runtime

-----------------------------------------------------------------------------
(* Nothing reaches the host that the ledger has not planned, and a key     *)
(* stands for one write for ever: the edge of a materialization is the one *)
(* its outbox entry asks for, whoever delivered it, after restarts too.    *)
(* The retry of a write that was made is then a replay for the host.  And  *)
(* no receipt is early: what is completed has been written.                *)
HostMatchesOutbox ==
    /\ \A m \in DOMAIN edges :
          /\ m \in DOMAIN outbox
          /\ edges[m] = Edge(outbox[m].relation, outbox[m].decision, outbox[m].commit)
    /\ \A m \in DOMAIN outbox : outbox[m].completed => m \in DOMAIN edges

(* A batch that is submitted again, in the same process or after a         *)
(* restart, is not resolved a second time.                                 *)
ResolvedOnce == \A o \in Observation : Cardinality(Resolutions(o)) <= 1

PositionsOf(e, kind) == {i \in DOMAIN e.commands : e.commands[i].kind = kind}

(* Envelope e resolves what envelope d persisted, one by one and in order. *)
Covers(e, d) ==
    LET resolved == PositionsOf(e, "CommitResolution")
        persisted == PositionsOf(d, "PersistObservation")
        Match(i, p) == e.commands[i].inference.observation = d.commands[p].observation
    IN  /\ \A i \in resolved : \E p \in persisted : Match(i, p)
        /\ \A p \in persisted : \E i \in resolved : Match(i, p)
        /\ \A i, j \in resolved : \A p, q \in persisted :
               i < j /\ Match(i, p) /\ Match(j, q) => p < q

(* A batch is resolved as a whole: a resolution depends on one transaction *)
(* and resolves what that one persisted, observation by observation.       *)
ResolutionCoversEvidence ==
    \A n \in DOMAIN transactions :
        LET e == transactions[n].envelope
        IN  PositionsOf(e, "CommitResolution") # {} =>
                \E k \in 1..(n - 1) :
                    LET d == transactions[k].envelope
                    IN  e.depends_on = {d.transaction} /\ Covers(e, d)

(* An answer of the ledger is never that to an earlier envelope: although  *)
(* the pool of a new process starts again at the numbers, and so the keys, *)
(* of the one before, it never takes an old commit for its own.            *)
NeverReplayed == outcome.result # "Replayed"

-----------------------------------------------------------------------------
(* The versions at which observations were associated with an identity. *)
Assigns(c, id) ==
    /\ c.kind = "CommitResolution"
    /\ \/ c.created = id
       \/ c.decision.action.name = "AssignLatent" /\ c.decision.action.identity = id

AssignedAt(o, id) ==
    {n \in DOMAIN transactions : \E i \in DOMAIN transactions[n].envelope.commands :
        LET c == transactions[n].envelope.commands[i]
        IN  Assigns(c, id) /\ c.inference.observation = o}

(* A resolution that associates two observations with one identity: the    *)
(* workspace refuses the second, and what comes after it in the batch.     *)
AssignsTwice(n) ==
    \E id \in DOMAIN identities, i, j \in DOMAIN transactions[n].envelope.commands :
        /\ i # j
        /\ Assigns(transactions[n].envelope.commands[i], id)
        /\ Assigns(transactions[n].envelope.commands[j], id)

(* The workspace never runs ahead of the ledger: a hot identity remembers  *)
(* committed associations only, and the newest is the one at the version   *)
(* it has applied.  Between calls it has not fallen behind either, unless  *)
(* a resolution associated two observations with one identity.             *)
WorkspaceFollowsLog ==
    \A id \in DOMAIN workspace :
        LET entry == workspace[id]
        IN  /\ \A i \in DOMAIN entry.history : AssignedAt(entry.history[i], id) # {}
            /\ entry.history # <<>> =>
                   entry.applied \in AssignedAt(entry.history[Len(entry.history)], id)
            /\ InPhase("idle") /\ (\A n \in DOMAIN transactions : ~AssignsTwice(n)) =>
                   \A o \in DOMAIN observations : \A n \in AssignedAt(o, id) : n <= entry.applied

(* What a call returned is so: the decisions of a processed batch are the  *)
(* current ones, the writes it left pending are exactly those without a    *)
(* receipt, and a write that was retried with success has one.             *)
ResultHolds ==
    result.answer = "Ok" =>
        /\ Len(result.decisions) = Len(result.batch)
        /\ \A i \in DOMAIN result.batch :
              /\ result.batch[i] \in DOMAIN current_decision
              /\ current_decision[result.batch[i]] = result.decisions[i]
        /\ {result.pending[i] : i \in DOMAIN result.pending} =
              {m \in DOMAIN outbox : /\ ~outbox[m].completed
                                     /\ \E i \in DOMAIN result.decisions :
                                           outbox[m].decision = result.decisions[i]}
        /\ result.retried # None => outbox[result.retried].completed

(* Every call returns, or its process ends. *)
CallTerminates == call.phase # "idle" ~> call.phase = "idle"

-----------------------------------------------------------------------------
(* process_batch: "Returns PipelineError before resolution commit".  Not   *)
(* so when a batch associates two observations with one identity: the      *)
(* workspace refuses the second with StaleCommit, and the caller gets an   *)
(* error for a batch that is resolved, and no pending writes.              *)
ErrorBeforeResolution ==
    result.answer \notin {"None", "Ok"} /\ result.batch # <<>> =>
        \A n \in DOMAIN transactions :
            n > result.since => PositionsOf(transactions[n].envelope, "CommitResolution") = {}
=============================================================================
