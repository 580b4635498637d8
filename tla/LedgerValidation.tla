-------------------------- MODULE LedgerValidation --------------------------
(***************************************************************************)
(* MemoryLedger::validate.  Command i of envelope e is checked against the *)
(* committed state and against what the commands before it will add: the   *)
(* pending identifiers and the identity overlay.  Nothing else of the      *)
(* earlier commands' effects is seen.                                      *)
(***************************************************************************)
EXTENDS LedgerState

IsActive(t) ==
    t \in DOMAIN transaction_indexes /\ transactions[transaction_indexes[t]].active

Earlier(e, i, kinds) ==
    {c \in {e.commands[j] : j \in 1..(i - 1)} : c.kind \in kinds}

PendingObservations(e, i) ==
    {c.observation : c \in Earlier(e, i, {"PersistObservation"})}
PendingInferences(e, i) ==
    {c.inference.id : c \in Earlier(e, i, {"CommitResolution"})}
PendingDecisions(e, i) ==
    {c.decision.id : c \in Earlier(e, i, {"CommitResolution"})}
        \cup {c.decision : c \in Earlier(e, i, {"Merge"})}
PendingMaterializations(e, i) ==
    {c.materialization : c \in Earlier(e, i, {"EnqueueMaterialization"})}

KnownObservation(e, i, o) == o \in DOMAIN observations \cup PendingObservations(e, i)
KnownDecision(e, i, d) == d \in DOMAIN decisions \cup PendingDecisions(e, i)

(* The status a command leaves in the overlay.  Merge leaves none. *)
Writes(c, id) ==
    \/ c.kind = "CommitResolution" /\ c.created = id
    \/ /\ c.kind \in {"CreateIdentity", "Promote", "Dormant", "Reactivate", "Retire"}
       /\ c.identity = id
    \/ c.kind = "Split" /\ \E p \in c.partitions : p.identity = id

WrittenStatus(kind) ==
    CASE kind = "Promote" -> "Resolved"
      [] kind = "Dormant" -> "Dormant"
      [] kind = "Retire"  -> "Retired"
      [] OTHER            -> "Active"

OverlayStatus(e, i, id) ==
    LET writers == {j \in 1..(i - 1) : Writes(e.commands[j], id)}
    IN  IF writers # {} THEN WrittenStatus(e.commands[Greatest(writers)].kind)
                        ELSE Lookup(identities, id, "Absent")

(* Fault: the evidence that a correction supersedes is not looked up. *)
ValidPersistUnlinked(e, i) == ~KnownObservation(e, i, e.commands[i].observation)

(* Fault: freshness is only checked within the envelope. *)
ValidPersistOverwrites(e, i) ==
    LET c == e.commands[i]
    IN  /\ c.observation \notin PendingObservations(e, i)
        /\ c.supersedes = None \/ KnownObservation(e, i, c.supersedes)

ValidPersist(e, i) ==
    LET c == e.commands[i]
    IN  /\ ~KnownObservation(e, i, c.observation)
        /\ \/ c.supersedes = None
           \/ KnownObservation(e, i, c.supersedes)
           \/ c.supersedes = c.observation

ValidAction(e, i) ==
    LET c == e.commands[i]
        action == c.decision.action
    IN  CASE action.name = "CreateIdentity" ->
               c.created # None /\ OverlayStatus(e, i, c.created) = "Absent"
          [] action.name = "AssignLatent" ->
               /\ c.created = None
               /\ OverlayStatus(e, i, action.identity) \in {"Active", "Dormant"}
          [] OTHER -> c.created = None

(* Fault: record identifiers need only be fresh within the envelope. *)
ValidResolutionReused(e, i) ==
    LET c == e.commands[i]
    IN  /\ KnownObservation(e, i, c.inference.observation)
        /\ c.inference.id \notin PendingInferences(e, i)
        /\ c.decision.id \notin PendingDecisions(e, i)
        /\ c.decision.inference = c.inference.id
        /\ c.inference.begin = next_version /\ c.decision.begin = next_version
        /\ c.provenance
        /\ ValidAction(e, i)

ValidResolution(e, i) ==
    LET c == e.commands[i]
    IN  /\ KnownObservation(e, i, c.inference.observation)
        /\ c.inference.id \notin DOMAIN inferences \cup PendingInferences(e, i)
        /\ c.decision.id \notin DOMAIN decisions \cup PendingDecisions(e, i)
        /\ c.decision.inference = c.inference.id
        /\ c.inference.begin = next_version /\ c.decision.begin = next_version
        /\ c.provenance
        /\ ValidAction(e, i)

ValidMerge(e, i) ==
    LET c == e.commands[i]
    IN  /\ c.left # c.right
        /\ c.decision \notin DOMAIN decisions \cup DOMAIN merges \cup PendingDecisions(e, i)
        /\ \A id \in {c.left, c.right} :
               OverlayStatus(e, i, id) \in {"Active", "Dormant", "Merged"}
        /\ \A d \in c.support : KnownDecision(e, i, d) \/ d = c.decision

(* Fault: a merge that is closed already may be closed again. *)
ValidSplitAgain(e, i) ==
    LET c == e.commands[i]
    IN  /\ c.close_merges \subseteq DOMAIN merges
        /\ \A p \in c.partitions :
               /\ OverlayStatus(e, i, p.identity) # "Absent"
               /\ \A o \in p.observations : KnownObservation(e, i, o)

ValidSplit(e, i) ==
    LET c == e.commands[i]
    IN  /\ \A d \in c.close_merges : d \in DOMAIN merges /\ IsOpen(merges[d].validity)
        /\ \A p \in c.partitions :
               /\ OverlayStatus(e, i, p.identity) # "Absent"
               /\ \A o \in p.observations : KnownObservation(e, i, o)

ActiveDependents(t) == {d \in Lookup(dependents, t, {}) : IsActive(d)}

ValidRevert(e, i) ==
    LET c == e.commands[i]
    IN  /\ IsActive(c.transaction)
        /\ c.mode = "Strict" => ActiveDependents(c.transaction) = {}

ValidEnqueue(e, i) ==
    LET c == e.commands[i]
    IN  /\ c.materialization \notin DOMAIN outbox \cup PendingMaterializations(e, i)
        /\ KnownDecision(e, i, c.decision)

(* Fault: the decision of the receipt is not compared with the entry's. *)
ValidReceiptAnyDecision(e, i) ==
    LET m == e.commands[i].materialization
    IN  m \in DOMAIN outbox /\ ~outbox[m].completed

ValidReceipt(e, i) ==
    LET c == e.commands[i]
    IN  /\ c.materialization \in DOMAIN outbox
        /\ ~outbox[c.materialization].completed
        /\ outbox[c.materialization].decision = c.decision

ValidCommand(e, i) ==
    LET c == e.commands[i]
        StatusIn(allowed) == OverlayStatus(e, i, c.identity) \in allowed
    IN  CASE c.kind = "PersistObservation"     -> ValidPersist(e, i)
          [] c.kind = "CommitResolution"       -> ValidResolution(e, i)
          [] c.kind = "CreateIdentity"         -> StatusIn({"Absent"})
          [] c.kind = "Promote"                -> StatusIn({"Active", "Dormant"})
          [] c.kind = "Merge"                  -> ValidMerge(e, i)
          [] c.kind = "Split"                  -> ValidSplit(e, i)
          [] c.kind = "Dormant"                -> StatusIn({"Active"})
          [] c.kind = "Reactivate"             -> StatusIn({"Dormant"})
          [] c.kind = "Retire"                 -> StatusIn({"Active", "Dormant"})
          [] c.kind = "Revert"                 -> ValidRevert(e, i)
          [] c.kind = "EnqueueMaterialization" -> ValidEnqueue(e, i)
          [] c.kind = "Materialized"           -> ValidReceipt(e, i)
=============================================================================
