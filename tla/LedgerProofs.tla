---------------------------- MODULE LedgerProofs ----------------------------
(***************************************************************************)
(* Proofs about the memory ledger for every set of envelopes, every number *)
(* of identifiers and every last version.                                  *)
(***************************************************************************)
EXTENDS LedgerProperties, WellFoundedInduction, SequenceTheorems, TLAPS

-----------------------------------------------------------------------------
(***************************************************************************)
(* Least elements and reachability.                                        *)
(***************************************************************************)

(* The least element of a set of numbers is one of its elements, and no    *)
(* element is below it: the representative union-find picks for a class.   *)
LEMMA LeastIsMember ==
    ASSUME NEW S \in SUBSET Nat, S # {}
    PROVE  Least(S) \in S /\ \A n \in S : Least(S) <= n
<1> DEFINE less == {p \in Nat \X Nat : p[1] < p[2]}
<1>1. IsWellFoundedOn(less, Nat)
  BY NatLessThanWellFounded, Zenon DEF OpToRel
<1>2. PICK m \in S : \A n \in S : <<n, m>> \notin less
  BY <1>1, WFMin
<1>3. SUFFICES ASSUME NEW n \in S, ~(m <= n) PROVE FALSE
  BY DEF Least
<1>4. n \in Nat /\ m \in Nat /\ n < m
  BY <1>3
<1>5. <<n, m>> \in less
  BY <1>4
<1> QED
  BY <1>2, <1>5

(* A node is reached from itself, and whatever else is reached is the end  *)
(* of an edge.                                                             *)
LEMMA ReachableNodes ==
    ASSUME NEW x, NEW R
    PROVE  /\ x \in Reachable(x, R)
           /\ Reachable(x, R) \subseteq {x} \cup {edge[2] : edge \in R}
BY DEF Reachable

(* What a search reaches is closed: it follows every edge to its end.      *)
LEMMA ReachableClosed ==
    ASSUME NEW x, NEW R, NEW edge \in R, edge[1] \in Reachable(x, R)
    PROVE  edge[2] \in Reachable(x, R)
BY DEF Reachable

(* The search reaches no more than any closed set that holds its start.    *)
LEMMA ReachableLeast ==
    ASSUME NEW x, NEW R, NEW S, x \in S,
           \A edge \in R : edge[1] \in S => edge[2] \in S
    PROVE  Reachable(x, R) \subseteq S
<1> DEFINE nodes == {x} \cup {edge[2] : edge \in R}
<1>1. S \cap nodes \in SUBSET nodes
  OBVIOUS
<1>2. x \in S \cap nodes /\ \A edge \in R : edge[1] \in S \cap nodes => edge[2] \in S \cap nodes
  OBVIOUS
<1> QED
  BY <1>1, <1>2 DEF Reachable

(* More edges reach more.                                                  *)
LEMMA ReachableMonotone ==
    ASSUME NEW x, NEW R, NEW R2, R \subseteq R2
    PROVE  Reachable(x, R) \subseteq Reachable(x, R2)
<1>1. x \in Reachable(x, R2)
  BY ReachableNodes
<1>2. \A edge \in R : edge[1] \in Reachable(x, R2) => edge[2] \in Reachable(x, R2)
  BY ReachableClosed
<1> QED
  BY <1>1, <1>2, ReachableLeast

(* What is reached from a node that is reached, is reached.                *)
LEMMA ReachableTransitive ==
    ASSUME NEW x, NEW R, NEW y \in Reachable(x, R)
    PROVE  Reachable(y, R) \subseteq Reachable(x, R)
<1>1. \A edge \in R : edge[1] \in Reachable(x, R) => edge[2] \in Reachable(x, R)
  BY ReachableClosed
<1> QED
  BY <1>1, ReachableLeast

(* An edge from a node that no edge leads to changes nothing for others.   *)
LEMMA ReachableFromFresh ==
    ASSUME NEW x, NEW R, NEW o, NEW s, x # o, \A edge \in R : edge[2] # o
    PROVE  Reachable(x, R \cup {<<o, s>>}) \subseteq Reachable(x, R)
<1>1. o \notin Reachable(x, R) /\ x \in Reachable(x, R)
  BY ReachableNodes
<1>2. \A edge \in R : edge[1] \in Reachable(x, R) => edge[2] \in Reachable(x, R)
  BY ReachableClosed
<1>3. \A edge \in R \cup {<<o, s>>} :
          edge[1] \in Reachable(x, R) => edge[2] \in Reachable(x, R)
  BY <1>1, <1>2
<1> QED
  BY <1>1, <1>3, ReachableLeast

(* Along edges that go both ways, a node reaches what reaches it: what     *)
(* they reach are the classes of an equivalence.                           *)
LEMMA ReachableSymmetric ==
    ASSUME NEW x, NEW R, \A edge \in R : <<edge[2], edge[1]>> \in R, NEW y \in Reachable(x, R)
    PROVE  Reachable(y, R) = Reachable(x, R)
<1> DEFINE S == {z \in Reachable(x, R) : x \in Reachable(z, R)}
<1>1. x \in S
  BY ReachableNodes
<1>2. ASSUME NEW edge \in R, edge[1] \in S PROVE edge[2] \in S
  <2>1. edge[2] \in Reachable(x, R)
    BY <1>2, ReachableClosed
  <2> DEFINE back == <<edge[2], edge[1]>>
  <2>2. back \in R /\ back[1] = edge[2] /\ back[2] = edge[1]
    OBVIOUS
  <2> HIDE DEF back
  <2>3. edge[1] \in Reachable(edge[2], R)
    BY <2>2, ReachableNodes, ReachableClosed
  <2>4. Reachable(edge[1], R) \subseteq Reachable(edge[2], R)
    BY <2>3, ReachableTransitive
  <2> QED
    BY <1>2, <2>1, <2>4
<1> HIDE DEF S
<1>3. Reachable(x, R) \subseteq S
  BY <1>1, <1>2, ReachableLeast
<1>4. x \in Reachable(y, R)
  BY <1>3 DEF S
<1> QED
  BY <1>4, ReachableTransitive

(* An edge both ways between two nodes joins their classes and leaves the  *)
(* others: what union_canonical has to bring about.                        *)
LEMMA ReachableUnion ==
    ASSUME NEW R, \A edge \in R : <<edge[2], edge[1]>> \in R, NEW l, NEW r, NEW x
    PROVE  Reachable(x, R \cup {<<l, r>>, <<r, l>>}) =
               IF x \in Reachable(l, R) \cup Reachable(r, R)
                   THEN Reachable(l, R) \cup Reachable(r, R) ELSE Reachable(x, R)
<1> DEFINE both == R \cup {<<l, r>>, <<r, l>>}
           joined == Reachable(l, R) \cup Reachable(r, R)
<1>1. l \in Reachable(l, R) /\ r \in Reachable(r, R) /\ R \subseteq both
  BY ReachableNodes
<1>2. ASSUME NEW z, NEW edge \in R, edge[1] \in Reachable(z, R) PROVE edge[2] \in Reachable(z, R)
  BY <1>2, ReachableClosed
<1>3. CASE x \in joined
  <2>1. \A edge \in both : edge[1] \in joined => edge[2] \in joined
    BY <1>1, <1>2
  <2>2. Reachable(x, both) \subseteq joined
    <3> HIDE DEF both, joined
    <3> QED
      BY <1>3, <2>1, ReachableLeast
  <2>3. <<l, r>> \in both /\ <<r, l>> \in both
    OBVIOUS
  <2> HIDE DEF both
  <2>4. l \in Reachable(x, both) <=> r \in Reachable(x, both)
    <3>1. <<l, r>>[1] = l /\ <<l, r>>[2] = r /\ <<r, l>>[1] = r /\ <<r, l>>[2] = l
      OBVIOUS
    <3> QED
      BY <2>3, <3>1, ReachableClosed
  <2>5. l \in Reachable(x, both) /\ r \in Reachable(x, both)
    <3>1. CASE x \in Reachable(l, R)
      <4>1. l \in Reachable(x, R)
        BY <1>1, <3>1, ReachableSymmetric
      <4> QED
        BY <1>1, <2>4, <4>1, ReachableMonotone
    <3>2. CASE x \in Reachable(r, R)
      <4>1. r \in Reachable(x, R)
        BY <1>1, <3>2, ReachableSymmetric
      <4> QED
        BY <1>1, <2>4, <4>1, ReachableMonotone
    <3> QED
      BY <1>3, <3>1, <3>2
  <2>6. /\ Reachable(l, both) \subseteq Reachable(x, both)
        /\ Reachable(r, both) \subseteq Reachable(x, both)
    BY <2>5, ReachableTransitive
  <2>7. Reachable(l, R) \subseteq Reachable(l, both) /\ Reachable(r, R) \subseteq Reachable(r, both)
    BY <1>1, ReachableMonotone
  <2> QED
    BY <1>3, <2>2, <2>6, <2>7 DEF both
<1>4. CASE x \notin joined
  <2>1. x \in Reachable(x, R)
    BY ReachableNodes
  <2>2. l \notin Reachable(x, R) /\ r \notin Reachable(x, R)
    BY <1>4, <2>1, ReachableSymmetric
  <2>3. \A edge \in both : edge[1] \in Reachable(x, R) => edge[2] \in Reachable(x, R)
    BY <1>2, <2>2
  <2> HIDE DEF both
  <2>4. Reachable(x, both) \subseteq Reachable(x, R)
    BY <2>1, <2>3, ReachableLeast
  <2>5. Reachable(x, R) \subseteq Reachable(x, both)
    BY <1>1, ReachableMonotone
  <2> QED
    BY <1>4, <2>4, <2>5 DEF both
<1> QED
  BY <1>3, <1>4


-----------------------------------------------------------------------------
(* What the parts of an envelope are. *)

(* The fields of a command have the types of its kind.                     *)
LEMMA CommandFields ==
    ASSUME NEW c \in Command
    PROVE  /\ c.kind = "PersistObservation" =>
                  c.observation \in Observation /\ c.supersedes \in Observation \cup {None}
           /\ c.kind = "CommitResolution" =>
                  /\ c.inference.id \in Inference /\ c.inference.observation \in Observation
                  /\ c.decision.id \in Decision /\ c.decision.inference \in Inference
                  /\ c.created \in Identity \cup {None}
           /\ c.kind \in {"CreateIdentity", "Promote", "Dormant", "Reactivate", "Retire"} =>
                  c.identity \in Identity
           /\ c.kind = "Promote" => c.target \in Target
           /\ c.kind = "Merge" =>
                  c.decision \in Decision /\ c.left \in Identity /\ c.right \in Identity
           /\ c.kind = "Split" =>
                  /\ c.close_merges \subseteq Decision
                  /\ \A p \in c.partitions : p.identity \in Identity
           /\ c.kind = "Revert" => c.transaction \in Transaction /\ c.mode \in RevertMode
           /\ c.kind = "EnqueueMaterialization" =>
                  /\ c.materialization \in Materialization
                  /\ c.decision \in Decision /\ c.relation \in Relation
           /\ c.kind = "Materialized" =>
                  c.materialization \in Materialization /\ c.decision \in Decision
BY DEF Command

(* An envelope has at least one command.                                   *)
LEMMA EnvelopeFields ==
    ASSUME NEW e \in CommandEnvelope
    PROVE  /\ e.transaction \in Transaction /\ e.idempotency \in Key
           /\ e.expected_version \in Nat
           /\ e.depends_on \subseteq Transaction
           /\ e.commands \in Seq(Command)
           /\ Len(e.commands) \in Nat /\ DOMAIN e.commands = 1..Len(e.commands)
           /\ \A i \in 1..Len(e.commands) : e.commands[i] \in Command
           /\ e # None
<1>1. e \in CommandEnvelope /\ e # None
  BY LedgerAssumption
<1>2. e.commands \in Seq(Command)
  BY <1>1 DEF CommandEnvelope
<1> QED
  BY <1>1, <1>2 DEF CommandEnvelope

-----------------------------------------------------------------------------
(* The command that is being applied.                                      *)
LEMMA InFlight ==
    ASSUME TypeOK, ValidationHolds, inflight # None, cursor \in DOMAIN inflight.commands
    PROVE  /\ inflight \in CommandEnvelope
           /\ cursor \in 1..Len(inflight.commands)
           /\ command \in Command
           /\ Left(cursor) = {}
           /\ version \in 0..(MaxVersion - 1)
           /\ next_version \in 1..MaxVersion
           /\ MaxVersion \in Nat
           /\ EvidenceHolds(cursor) /\ ResolutionHolds(cursor) /\ IdentityHolds(cursor)
           /\ MergeHolds(cursor) /\ SplitHolds(cursor) /\ RevertHolds(cursor)
<1>1. inflight \in CommandEnvelope
  BY DEF TypeOK, ControlTypeOK
<1>2. cursor \in 1..Len(inflight.commands) /\ Len(inflight.commands) \in Nat
  BY <1>1, EnvelopeFields
<1>3. command \in Command
  BY <1>1, <1>2, EnvelopeFields DEF command
<1>4. Left(cursor) = {}
  BY <1>2 DEF Left
<1>5. version \in 0..(MaxVersion - 1) /\ next_version \in 1..MaxVersion
  BY LedgerAssumption DEF TypeOK, LogTypeOK, ValidationHolds, HeadHolds, VersionLeft, next_version
<1> QED
  BY <1>1, <1>2, <1>3, <1>4, <1>5, LedgerAssumption DEF ValidationHolds

(* Ending an interval leaves it an interval that begins where it began.    *)
LEMMA EndAtType ==
    ASSUME NEW validity \in Validity, NEW n \in 1..MaxVersion
    PROVE  EndAt(validity, n) \in Validity /\ EndAt(validity, n).begin = validity.begin
BY LedgerAssumption DEF EndAt, Validity, Open

(* A record that begins with the next version has a well-formed interval.  *)
LEMMA CurrentType ==
    ASSUME NEW n \in 1..MaxVersion
    PROVE  Current(n) \in Validity
BY LedgerAssumption DEF Current, Interval, Validity, Open

(* Closing current inferences leaves inferences.                           *)
LEMMA CloseInferencesType ==
    ASSUME LineageTypeOK, next_version \in 1..MaxVersion, NEW S
    PROVE  CloseCurrent(inferences, current_inference, S)
               \in [DOMAIN inferences -> [observation: Observation, validity: Validity]]
BY EndAtType DEF LineageTypeOK, CloseCurrent

(* Closing current decisions leaves decisions.                             *)
LEMMA CloseDecisionsType ==
    ASSUME LineageTypeOK, next_version \in 1..MaxVersion, NEW S
    PROVE  CloseCurrent(decisions, current_decision, S)
               \in [DOMAIN decisions -> [inference: Inference, validity: Validity]]
BY EndAtType DEF LineageTypeOK, CloseCurrent

(* Ending the decisions of a transaction leaves decisions.                 *)
LEMMA EndDecisionsType ==
    ASSUME NEW D, NEW records \in [D -> [inference: Inference, validity: Validity]],
           next_version \in 1..MaxVersion, NEW S
    PROVE  EndDecisions(records, S) \in [D -> [inference: Inference, validity: Validity]]
BY EndAtType DEF EndDecisions

(* Closing merges leaves merge records between the same identities.        *)
LEMMA CloseMergesType ==
    ASSUME IdentityTypeOK, next_version \in 1..MaxVersion, NEW S
    PROVE  CloseMerges(S) \in [DOMAIN merges ->
               [left: DOMAIN identities, right: DOMAIN identities,
                validity: Validity, transaction: Transaction]]
BY EndAtType DEF IdentityTypeOK, CloseMerges

(* The representative of a rebuilt class is an identity.                   *)
LEMMA RebuildClassesType ==
    ASSUME DOMAIN identities \subseteq Identity, NEW D,
           NEW records \in [D -> [left: DOMAIN identities, right: DOMAIN identities,
                                  validity: Validity, transaction: Transaction]]
    PROVE  RebuildClasses(records) \in [DOMAIN identities -> DOMAIN identities]
<1> SUFFICES ASSUME NEW id \in DOMAIN identities
             PROVE  Least(Reachable(id, OpenEdges(records))) \in DOMAIN identities
  BY DEF RebuildClasses
<1> DEFINE class == Reachable(id, OpenEdges(records))
<1>1. \A edge \in OpenEdges(records) : edge[2] \in DOMAIN identities
  BY DEF OpenEdges
<1>2. class \subseteq DOMAIN identities /\ class # {}
  BY <1>1, ReachableNodes
<1>3. class \in SUBSET Nat
  BY <1>2, LedgerAssumption
<1> QED
  BY <1>2, <1>3, LeastIsMember

(* The statuses after a rebuild are statuses of the same identities.       *)
LEMMA RebuildStatusesType ==
    ASSUME NEW D, NEW statuses \in [D -> Status], NEW classes
    PROVE  RebuildStatuses(statuses, classes) \in [D -> Status]
BY DEF RebuildStatuses, Status

-----------------------------------------------------------------------------
(* Type correctness, one arm of apply after the other. *)

(* Persisting evidence keeps the types.                                    *)
LEMMA PersistObservationType ==
    ASSUME TypeOK, ValidationHolds, PersistObservation
    PROVE  TypeOK'
<1>1. inflight # None /\ cursor \in DOMAIN inflight.commands
      /\ command.kind = "PersistObservation" /\ cursor \in Nat
  BY DEF PersistObservation, Applying, TypeOK, ControlTypeOK
<1>2. command \in Command /\ next_version \in 1..MaxVersion
  BY <1>1, InFlight
<1>3. command.observation \in Observation /\ command.supersedes \in Observation \cup {None}
  BY <1>1, <1>2, CommandFields
<1>4. EvidenceTypeOK'
  BY <1>2, <1>3 DEF TypeOK, EvidenceTypeOK, PersistObservation, Insert
<1>5. LineageTypeOK'
  BY <1>3 DEF TypeOK, EvidenceTypeOK, LineageTypeOK, PersistObservation, lineage, Insert
<1>6. IdentityTypeOK' /\ DeliveryTypeOK'
  BY DEF TypeOK, IdentityTypeOK, DeliveryTypeOK, PersistObservation, identity_index, delivery
<1>7. LogTypeOK' /\ ControlTypeOK'
  BY <1>1 DEF TypeOK, LogTypeOK, ControlTypeOK, PersistObservation, Advance, log
<1> QED
  BY <1>4, <1>5, <1>6, <1>7 DEF TypeOK

(* Committing a resolution keeps the types.                                *)
LEMMA CommitResolutionType ==
    ASSUME TypeOK, ValidationHolds, CommitResolution
    PROVE  TypeOK'
<1> DEFINE o == command.inference.observation
           i == command.inference.id
           d == command.decision.id
           id == command.created
<1>1. inflight # None /\ cursor \in DOMAIN inflight.commands
      /\ command.kind = "CommitResolution" /\ cursor \in Nat
  BY DEF CommitResolution, Applying, TypeOK, ControlTypeOK
<1>2. command \in Command /\ next_version \in 1..MaxVersion /\ Left(cursor) = {}
      /\ EvidenceHolds(cursor) /\ ResolutionHolds(cursor)
  BY <1>1, InFlight
<1>3. /\ i \in Inference /\ o \in Observation /\ d \in Decision
      /\ command.decision.inference = i /\ id \in Identity \cup {None}
      /\ command.inference.begin = next_version /\ command.decision.begin = next_version
  BY <1>1, <1>2, CommandFields DEF ResolutionHolds, command
<1>4. o \in DOMAIN observations
  BY <1>1, <1>2 DEF EvidenceHolds, command
<1>5. Current(next_version) \in Validity
  BY <1>2, CurrentType
<1>6. LineageTypeOK'
  <2> DEFINE I == [observation: Observation, validity: Validity]
             D == [inference: Inference, validity: Validity]
             closed == CloseCurrent(inferences, current_inference, {o})
             ended == CloseCurrent(decisions, current_decision, {o})
  <2>1. closed \in [DOMAIN inferences -> I] /\ ended \in [DOMAIN decisions -> D]
    BY <1>2, CloseInferencesType, CloseDecisionsType DEF TypeOK
  <2>2. inferences' = Insert(closed, i, [observation |-> o, validity |-> Current(next_version)])
        /\ decisions' = Insert(ended, d, [inference |-> i, validity |-> Current(next_version)])
        /\ current_inference' = Insert(current_inference, o, i)
        /\ current_decision' = Insert(current_decision, o, d)
        /\ observations' = observations
    BY <1>3 DEF CommitResolution, evidence
  <2>3. [observation |-> o, validity |-> Current(next_version)] \in I
        /\ [inference |-> i, validity |-> Current(next_version)] \in D
    BY <1>3, <1>5
  <2> HIDE DEF closed, ended, I, D
  <2>4. inferences' \in [DOMAIN inferences \cup {i} -> I]
        /\ decisions' \in [DOMAIN decisions \cup {d} -> D]
    BY <2>1, <2>2, <2>3 DEF Insert
  <2>5. DOMAIN inferences' = DOMAIN inferences \cup {i}
        /\ DOMAIN decisions' = DOMAIN decisions \cup {d}
    BY <2>4
  <2>6. current_inference' \in [DOMAIN current_inference \cup {o} -> DOMAIN inferences']
    BY <2>2, <2>5 DEF TypeOK, LineageTypeOK, Insert
  <2>7. current_decision' \in [DOMAIN current_inference \cup {o} -> DOMAIN decisions']
    BY <2>2, <2>5 DEF TypeOK, LineageTypeOK, Insert
  <2>8. DOMAIN inferences' \subseteq Inference /\ DOMAIN decisions' \subseteq Decision
        /\ DOMAIN current_inference' = DOMAIN current_inference \cup {o}
        /\ DOMAIN current_inference \cup {o} \subseteq DOMAIN observations'
    BY <1>3, <1>4, <2>2, <2>5, <2>6 DEF TypeOK, LineageTypeOK
  <2> QED
    BY <2>4, <2>5, <2>6, <2>7, <2>8 DEF LineageTypeOK, I, D
<1>7. IdentityTypeOK'
  <2>1. merges' = merges /\ promotions' = promotions
    BY DEF CommitResolution
  <2>2. CASE id = None
    <3>1. identities' = identities /\ canonical' = canonical
      BY <2>2 DEF CommitResolution
    <3> QED
      BY <2>1, <3>1 DEF TypeOK, IdentityTypeOK
  <2>3. CASE id # None
    <3>1. identities' = Insert(identities, id, "Active") /\ canonical' = Insert(canonical, id, id)
          /\ id \in Identity
      BY <2>3, <1>3 DEF CommitResolution, InsertCanonical
    <3> QED
      BY <2>1, <3>1 DEF TypeOK, IdentityTypeOK, Insert, Status
  <2> QED
    BY <2>2, <2>3
<1>8. EvidenceTypeOK' /\ DeliveryTypeOK'
  BY DEF TypeOK, EvidenceTypeOK, DeliveryTypeOK, CommitResolution, evidence, delivery
<1>9. LogTypeOK'
  BY DEF TypeOK, LogTypeOK, CommitResolution, log
<1>10. ControlTypeOK'
  BY <1>1 DEF TypeOK, LogTypeOK, ControlTypeOK, CommitResolution, Advance, log
<1> QED
  BY <1>6, <1>7, <1>8, <1>9, <1>10 DEF TypeOK

(* Creating an identity keeps the types.                                   *)
LEMMA CreateIdentityType ==
    ASSUME TypeOK, ValidationHolds, CreateIdentity
    PROVE  TypeOK'
<1>1. inflight # None /\ cursor \in DOMAIN inflight.commands
      /\ command.kind = "CreateIdentity" /\ cursor \in Nat
  BY DEF CreateIdentity, Applying, TypeOK, ControlTypeOK
<1>2. command.identity \in Identity
  BY <1>1, InFlight, CommandFields
<1>3. IdentityTypeOK'
  BY <1>2 DEF TypeOK, IdentityTypeOK, CreateIdentity, InsertCanonical, Insert, Status
<1>4. EvidenceTypeOK' /\ LineageTypeOK' /\ DeliveryTypeOK'
  BY DEF TypeOK, EvidenceTypeOK, LineageTypeOK, DeliveryTypeOK, CreateIdentity, evidence,
         lineage, delivery
<1>5. LogTypeOK' /\ ControlTypeOK'
  BY <1>1 DEF TypeOK, LogTypeOK, ControlTypeOK, CreateIdentity, Advance, log
<1> QED
  BY <1>3, <1>4, <1>5 DEF TypeOK

(* A command that uses an identity finds it: nothing before it in the      *)
(* envelope is left that would have to create it.                          *)
LEMMA UsedIsKnown ==
    ASSUME TypeOK, ValidationHolds, inflight # None, cursor \in DOMAIN inflight.commands,
           NEW id \in Identity, Uses(command, id)
    PROVE  id \in DOMAIN identities
BY InFlight DEF IdentityHolds, command

(* Promoting an identity that exists keeps the types.                      *)
LEMMA PromoteType ==
    ASSUME TypeOK, ValidationHolds, Promote
    PROVE  TypeOK'
<1>1. inflight # None /\ cursor \in DOMAIN inflight.commands
      /\ command.kind = "Promote" /\ cursor \in Nat
  BY DEF Promote, Applying, TypeOK, ControlTypeOK
<1>2. command.identity \in Identity /\ command.target \in Target
  BY <1>1, InFlight, CommandFields
<1>3. command.identity \in DOMAIN identities
  BY <1>1, <1>2, UsedIsKnown DEF Uses
<1>4. IdentityTypeOK'
  BY <1>2, <1>3 DEF TypeOK, IdentityTypeOK, Promote, Insert, Status
<1>5. EvidenceTypeOK' /\ LineageTypeOK' /\ DeliveryTypeOK' /\ LogTypeOK' /\ ControlTypeOK'
  BY <1>1 DEF TypeOK, EvidenceTypeOK, LineageTypeOK, DeliveryTypeOK, LogTypeOK, ControlTypeOK,
              Promote, Advance, evidence, lineage, delivery, log
<1> QED
  BY <1>4, <1>5 DEF TypeOK

(* A lifecycle command on an identity that exists keeps the types.         *)
LEMMA ChangeStatusType ==
    ASSUME TypeOK, ValidationHolds, NEW kind \in {"Dormant", "Reactivate", "Retire"},
           ChangeStatus(kind)
    PROVE  TypeOK'
<1>1. inflight # None /\ cursor \in DOMAIN inflight.commands
      /\ command.kind = kind /\ cursor \in Nat
  BY DEF ChangeStatus, Applying, TypeOK, ControlTypeOK
<1>2. command.identity \in Identity
  BY <1>1, InFlight, CommandFields
<1>3. command.identity \in DOMAIN identities
  BY <1>1, <1>2, UsedIsKnown DEF Uses
<1>4. WrittenStatus(kind) \in Status
  BY DEF WrittenStatus, Status
<1>5. IdentityTypeOK'
  BY <1>2, <1>3, <1>4 DEF TypeOK, IdentityTypeOK, ChangeStatus, Insert
<1>6. EvidenceTypeOK' /\ LineageTypeOK' /\ DeliveryTypeOK' /\ LogTypeOK' /\ ControlTypeOK'
  BY <1>1 DEF TypeOK, EvidenceTypeOK, LineageTypeOK, DeliveryTypeOK, LogTypeOK, ControlTypeOK,
              ChangeStatus, Advance, evidence, lineage, delivery, log
<1> QED
  BY <1>5, <1>6 DEF TypeOK

(* Uniting two classes gives them one of their two representatives.        *)
LEMMA UnionType ==
    ASSUME IdentityTypeOK, NEW left \in DOMAIN identities, NEW right \in DOMAIN identities
    PROVE  /\ Union(canonical, left, right) \in [DOMAIN identities -> DOMAIN identities]
           /\ UnionStatuses(identities, Least({canonical[left], canonical[right]}),
                            Greatest({canonical[left], canonical[right]}))
                  \in [DOMAIN identities -> Status]
<1> DEFINE roots == {canonical[left], canonical[right]}
<1>1. roots \in SUBSET Nat /\ roots # {} /\ roots \subseteq DOMAIN identities
  BY LedgerAssumption DEF IdentityTypeOK
<1>2. Least(roots) \in DOMAIN identities
  BY <1>1, LeastIsMember
<1>3. Union(canonical, left, right) \in [DOMAIN identities -> DOMAIN identities]
  BY <1>2 DEF Union, IdentityTypeOK
<1>4. \A m, r : UnionStatuses(identities, m, r) \in [DOMAIN identities -> Status]
  BY DEF UnionStatuses, IdentityTypeOK, Status
<1> QED
  BY <1>3, <1>4

(* Merging two identities that exist keeps the types.                      *)
LEMMA MergeType ==
    ASSUME TypeOK, ValidationHolds, Merge
    PROVE  TypeOK'
<1>1. inflight # None /\ cursor \in DOMAIN inflight.commands
      /\ command.kind = "Merge" /\ cursor \in Nat
  BY DEF Merge, Applying, TypeOK, ControlTypeOK
<1>2. /\ command.decision \in Decision /\ command.left \in Identity /\ command.right \in Identity
      /\ next_version \in 1..MaxVersion /\ inflight.transaction \in Transaction
  BY <1>1, InFlight, CommandFields, EnvelopeFields
<1>3. command.left \in DOMAIN identities /\ command.right \in DOMAIN identities
  BY <1>1, <1>2, UsedIsKnown DEF Uses
<1>4. Current(next_version) \in Validity
  BY <1>2, CurrentType
<1>5. canonical' \in [DOMAIN identities -> DOMAIN identities]
      /\ identities' \in [DOMAIN identities -> Status]
  BY <1>3, UnionType DEF Merge, TypeOK, IdentityTypeOK
<1>6. [left |-> command.left, right |-> command.right, validity |-> Current(next_version),
       transaction |-> inflight.transaction]
          \in [left: DOMAIN identities, right: DOMAIN identities,
              validity: Validity, transaction: Transaction]
  BY <1>2, <1>3, <1>4
<1>7. merges' \in [DOMAIN merges \cup {command.decision} ->
          [left: DOMAIN identities, right: DOMAIN identities,
           validity: Validity, transaction: Transaction]]
  BY <1>6 DEF Merge, Insert, TypeOK, IdentityTypeOK
<1>8. IdentityTypeOK'
  BY <1>2, <1>5, <1>7 DEF TypeOK, IdentityTypeOK, Merge
<1>9. EvidenceTypeOK' /\ LineageTypeOK' /\ DeliveryTypeOK' /\ LogTypeOK' /\ ControlTypeOK'
  BY <1>1 DEF TypeOK, EvidenceTypeOK, LineageTypeOK, DeliveryTypeOK, LogTypeOK, ControlTypeOK,
              Merge, Advance, evidence, lineage, delivery, log
<1> QED
  BY <1>8, <1>9 DEF TypeOK

(* Splitting merges that exist keeps the types.                            *)
LEMMA SplitType ==
    ASSUME TypeOK, ValidationHolds, Split
    PROVE  TypeOK'
<1>1. inflight # None /\ cursor \in DOMAIN inflight.commands
      /\ command.kind = "Split" /\ cursor \in Nat
  BY DEF Split, Applying, TypeOK, ControlTypeOK
<1>2. next_version \in 1..MaxVersion
  BY <1>1, InFlight
<1>3. merges' \in [DOMAIN merges ->
          [left: DOMAIN identities, right: DOMAIN identities,
           validity: Validity, transaction: Transaction]]
  BY <1>2, CloseMergesType DEF Split, TypeOK
<1>4. canonical' \in [DOMAIN identities -> DOMAIN identities]
  BY <1>3, RebuildClassesType DEF Split, TypeOK, IdentityTypeOK
<1>5. identities' \in [DOMAIN identities -> Status]
  <2> DEFINE named == {p.identity : p \in command.partitions}
             statuses == [id \in DOMAIN identities |->
                              IF id \in named THEN "Active" ELSE identities[id]]
  <2>1. statuses \in [DOMAIN identities -> Status]
    BY DEF TypeOK, IdentityTypeOK, Status
  <2> QED
    BY <2>1, RebuildStatusesType DEF Split
<1>6. IdentityTypeOK'
  BY <1>3, <1>4, <1>5 DEF TypeOK, IdentityTypeOK, Split
<1>7. EvidenceTypeOK' /\ LineageTypeOK' /\ DeliveryTypeOK'
  BY DEF TypeOK, EvidenceTypeOK, LineageTypeOK, DeliveryTypeOK, Split, evidence, lineage,
         delivery
<1>8. LogTypeOK' /\ ControlTypeOK'
  BY <1>1 DEF TypeOK, LogTypeOK, ControlTypeOK, Split, Advance, log
<1> QED
  BY <1>6, <1>7, <1>8 DEF TypeOK

(* A cascade stays among the transactions of the log.                      *)
LEMMA RevertTargetsType ==
    ASSUME LogTypeOK, NEW t \in DOMAIN transaction_indexes, NEW m
    PROVE  RevertTargets(t, m) \subseteq DOMAIN transaction_indexes
<1>1. \A edge \in Dependence : edge[2] \in DOMAIN transaction_indexes
  BY DEF Dependence, LogTypeOK
<1> QED
  BY <1>1, ReachableNodes DEF RevertTargets

(* Starting a revert of a recorded transaction keeps the types: its        *)
(* targets are recorded transactions too.                                  *)
LEMMA RevertType ==
    ASSUME TypeOK, ValidationHolds, Revert
    PROVE  TypeOK'
<1>1. inflight # None /\ cursor \in DOMAIN inflight.commands
      /\ command.kind = "Revert" /\ cursor \in Nat
  BY DEF Revert, Applying, TypeOK, ControlTypeOK
<1>2. command.transaction \in DOMAIN transaction_indexes
  BY <1>1, InFlight DEF RevertHolds, command
<1>3. RevertTargets(command.transaction, command.mode) \subseteq DOMAIN transaction_indexes
  BY <1>2, RevertTargetsType DEF TypeOK
<1>4. ControlTypeOK'
  BY <1>1, <1>3 DEF TypeOK, ControlTypeOK, Revert, Advance, state, log
<1>5. EvidenceTypeOK' /\ LineageTypeOK' /\ IdentityTypeOK' /\ DeliveryTypeOK' /\ LogTypeOK'
  BY DEF TypeOK, EvidenceTypeOK, LineageTypeOK, IdentityTypeOK, DeliveryTypeOK, LogTypeOK,
         Revert, state, evidence, lineage, identity_index, delivery, log
<1> QED
  BY <1>4, <1>5 DEF TypeOK

(* Replacing one element of a sequence leaves the others.                  *)
LEMMA ReplacedElement ==
    ASSUME NEW T, NEW s \in Seq(T), NEW n \in 1..Len(s), NEW r \in T,
           NEW u, u = [s EXCEPT ![n] = r]
    PROVE  /\ u \in Seq(T) /\ Len(u) = Len(s)
           /\ \A k \in 1..Len(s) : u[k] = IF k = n THEN r ELSE s[k]
OBVIOUS

(* Deactivating a record of the log changes its flag and nothing else.     *)
LEMMA InactiveLog ==
    ASSUME LogTypeOK, NEW t \in DOMAIN transaction_indexes,
           transactions' = [transactions EXCEPT ![transaction_indexes[t]] = Inactive(@)]
    PROVE  /\ transactions' \in
                  Seq([version: 1..MaxVersion, envelope: CommandEnvelope, active: BOOLEAN])
           /\ Len(transactions') = Len(transactions)
           /\ DOMAIN transactions' = DOMAIN transactions
           /\ \A n \in DOMAIN transactions :
                  /\ transactions'[n].version = transactions[n].version
                  /\ transactions'[n].envelope = transactions[n].envelope
                  /\ transactions'[n].active => transactions[n].active
<1> DEFINE T == [version: 1..MaxVersion, envelope: CommandEnvelope, active: BOOLEAN]
           n == transaction_indexes[t]
<1>0. transactions \in Seq(T) /\ n \in DOMAIN transactions
  BY DEF LogTypeOK
<1> HIDE DEF T, n
<1>1. n \in 1..Len(transactions) /\ transactions[n] \in T
      /\ DOMAIN transactions = 1..Len(transactions)
  BY <1>0
<1>2. Inactive(transactions[n]) \in T
  BY <1>1 DEF Inactive, T
<1>3. Inactive(transactions[n]).version = transactions[n].version
      /\ Inactive(transactions[n]).envelope = transactions[n].envelope
      /\ ~Inactive(transactions[n]).active
  BY <1>1 DEF Inactive, T
<1>4. transactions' = [transactions EXCEPT ![n] = Inactive(transactions[n])]
  BY DEF n
<1>5. /\ transactions' \in Seq(T) /\ Len(transactions') = Len(transactions)
      /\ \A k \in 1..Len(transactions) :
            transactions'[k] = IF k = n THEN Inactive(transactions[n]) ELSE transactions[k]
  BY <1>0, <1>1, <1>2, <1>4, ReplacedElement
<1>6. DOMAIN transactions' = 1..Len(transactions)
  BY <1>5
<1> QED
  BY <1>1, <1>3, <1>5, <1>6 DEF T

(* Deactivating one target keeps the types.                                *)
LEMMA DeactivateType ==
    ASSUME TypeOK, ValidationHolds, NEW t \in targets, Deactivate(t)
    PROVE  TypeOK'
<1>1. inflight # None /\ cursor \in DOMAIN inflight.commands /\ cursor \in Nat
  BY DEF ValidationHolds, TypeOK, ControlTypeOK
<1>2. next_version \in 1..MaxVersion /\ t \in DOMAIN transaction_indexes
  BY <1>1, InFlight DEF TypeOK, ControlTypeOK
<1>3. LineageTypeOK'
  <2> DEFINE D == [inference: Inference, validity: Validity]
             ended == CloseCurrent(decisions, current_decision, Withdrawn(t))
  <2>1. inferences' \in [DOMAIN inferences -> [observation: Observation, validity: Validity]]
    BY <1>2, CloseInferencesType DEF Deactivate, TypeOK
  <2>2. ended \in [DOMAIN decisions -> D]
    BY <1>2, CloseDecisionsType DEF TypeOK
  <2> HIDE DEF ended
  <2>3. decisions' \in [DOMAIN decisions -> D]
    BY <1>2, <2>2, EndDecisionsType DEF Deactivate, ended
  <2>4. /\ current_inference' = Remove(current_inference, Withdrawn(t))
        /\ current_decision' = Remove(current_decision, Withdrawn(t))
        /\ observations' = observations
    BY DEF Deactivate, evidence
  <2> QED
    BY <2>1, <2>3, <2>4 DEF TypeOK, LineageTypeOK, Remove
<1>4. IdentityTypeOK'
  <2>1. merges' \in [DOMAIN merges ->
            [left: DOMAIN identities, right: DOMAIN identities,
             validity: Validity, transaction: Transaction]]
    BY <1>2, CloseMergesType DEF Deactivate, TypeOK
  <2>2. canonical' \in [DOMAIN identities -> DOMAIN identities]
    BY <2>1, RebuildClassesType DEF Deactivate, TypeOK, IdentityTypeOK
  <2>3. identities' \in [DOMAIN identities -> Status]
    BY RebuildStatusesType DEF Deactivate, TypeOK, IdentityTypeOK
  <2> QED
    BY <2>1, <2>2, <2>3 DEF TypeOK, IdentityTypeOK, Deactivate
<1>5. LogTypeOK'
  BY <1>2, InactiveLog DEF TypeOK, LogTypeOK, Deactivate
<1>6. DeliveryTypeOK'
  BY DEF TypeOK, DeliveryTypeOK, Deactivate, Remove
<1>7. EvidenceTypeOK' /\ ControlTypeOK'
  BY <1>1 DEF TypeOK, EvidenceTypeOK, ControlTypeOK, Deactivate, evidence
<1> QED
  BY <1>3, <1>4, <1>5, <1>6, <1>7 DEF TypeOK

(* Enqueueing a host write keeps the types.                                *)
LEMMA EnqueueMaterializationType ==
    ASSUME TypeOK, ValidationHolds, EnqueueMaterialization
    PROVE  TypeOK'
<1>1. inflight # None /\ cursor \in DOMAIN inflight.commands
      /\ command.kind = "EnqueueMaterialization" /\ cursor \in Nat
  BY DEF EnqueueMaterialization, Applying, TypeOK, ControlTypeOK
<1>2. /\ command.materialization \in Materialization
      /\ command.decision \in Decision /\ command.relation \in Relation
      /\ next_version \in 1..MaxVersion
  BY <1>1, InFlight, CommandFields
<1>3. DeliveryTypeOK'
  BY <1>2 DEF TypeOK, DeliveryTypeOK, EnqueueMaterialization, Insert
<1>4. EvidenceTypeOK' /\ LineageTypeOK' /\ IdentityTypeOK' /\ LogTypeOK' /\ ControlTypeOK'
  BY <1>1 DEF TypeOK, EvidenceTypeOK, LineageTypeOK, IdentityTypeOK, LogTypeOK, ControlTypeOK,
              EnqueueMaterialization, Advance, evidence, lineage, identity_index, log
<1> QED
  BY <1>3, <1>4 DEF TypeOK

(* Recording a receipt keeps the types.                                    *)
LEMMA MaterializedType ==
    ASSUME TypeOK, ValidationHolds, Materialized
    PROVE  TypeOK'
<1>1. inflight # None /\ cursor \in DOMAIN inflight.commands
      /\ command.kind = "Materialized" /\ cursor \in Nat
  BY DEF Materialized, Applying, TypeOK, ControlTypeOK
<1>2. command.materialization \in Materialization /\ command.decision \in Decision
      /\ next_version \in 1..MaxVersion
  BY <1>1, InFlight, CommandFields
<1>3. outbox' \in [DOMAIN outbox -> [decision: Decision, relation: Relation,
                                    commit: 1..MaxVersion, completed: BOOLEAN]]
  BY DEF TypeOK, DeliveryTypeOK, Materialized, Complete
<1>4. receipts' \in Seq([materialization: Materialization, decision: Decision,
                        commit: 1..MaxVersion])
  BY <1>2 DEF TypeOK, DeliveryTypeOK, Materialized
<1>5. DeliveryTypeOK'
  BY <1>3, <1>4 DEF TypeOK, DeliveryTypeOK
<1>6. EvidenceTypeOK' /\ LineageTypeOK' /\ IdentityTypeOK' /\ LogTypeOK' /\ ControlTypeOK'
  BY <1>1 DEF TypeOK, EvidenceTypeOK, LineageTypeOK, IdentityTypeOK, LogTypeOK, ControlTypeOK,
              Materialized, Advance, evidence, lineage, identity_index, log
<1> QED
  BY <1>5, <1>6 DEF TypeOK

(* Recording the transaction appends it to the log.                        *)
LEMMA AppendedLog ==
    ASSUME TypeOK, ValidationHolds, Record
    PROVE  /\ inflight \in CommandEnvelope /\ next_version \in 1..MaxVersion
           /\ transactions' \in
                  Seq([version: 1..MaxVersion, envelope: CommandEnvelope, active: BOOLEAN])
           /\ DOMAIN transactions = 1..Len(transactions)
           /\ Len(transactions') = Len(transactions) + 1
           /\ DOMAIN transactions' = 1..(Len(transactions) + 1)
           /\ transactions'[Len(transactions) + 1] =
                  [version |-> next_version, envelope |-> inflight, active |-> TRUE]
           /\ \A n \in 1..Len(transactions) : transactions'[n] = transactions[n]
<1> DEFINE T == [version: 1..MaxVersion, envelope: CommandEnvelope, active: BOOLEAN]
           r == [version |-> next_version, envelope |-> inflight, active |-> TRUE]
<1>1. inflight \in CommandEnvelope
  BY DEF Record, TypeOK, ControlTypeOK
<1>2. next_version \in 1..MaxVersion
  BY LedgerAssumption DEF Record, ValidationHolds, HeadHolds, VersionLeft, TypeOK, LogTypeOK,
                          next_version
<1>3. transactions \in Seq(T) /\ r \in T
  BY <1>1, <1>2 DEF TypeOK, LogTypeOK
<1>4. transactions' = Append(transactions, r)
  BY DEF Record
<1> HIDE DEF T, r
<1>5. /\ transactions' \in Seq(T) /\ Len(transactions') = Len(transactions) + 1
      /\ transactions'[Len(transactions) + 1] = r
      /\ \A n \in 1..Len(transactions) : transactions'[n] = transactions[n]
      /\ DOMAIN transactions = 1..Len(transactions) /\ Len(transactions) \in Nat
      /\ DOMAIN transactions' = 1..(Len(transactions) + 1)
  BY <1>3, <1>4
<1> QED
  BY <1>1, <1>2, <1>5 DEF T, r

-----------------------------------------------------------------------------
(* A step as the tables see it, whatever is answered with it: an envelope  *)
(* begins, a command is applied, the envelope enters the log, or nothing   *)
(* happens to them.                                                        *)
AnswerType == [result: Result, version: 0..MaxVersion, envelope: CommandEnvelope \cup {None}]

Quiet == UNCHANGED <<state, inflight, cursor, targets>>

TableStep ==
    /\ outcome' \in AnswerType
    /\ \/ Quiet
       \/ \E e \in CommandEnvelope : Start(e)
       \/ Apply
       \/ Record

(* Entering the transaction into the log keeps the types.                  *)
LEMMA RecordType ==
    ASSUME TypeOK, ValidationHolds, Record, outcome' \in AnswerType
    PROVE  TypeOK'
<1>1. inflight # None /\ HeadHolds
  BY DEF Record, ValidationHolds
<1>2. inflight \in CommandEnvelope /\ next_version \in 1..MaxVersion
  BY <1>1, AppendedLog
<1>3. /\ inflight.transaction \in Transaction /\ inflight.idempotency \in Key
      /\ inflight.depends_on \subseteq DOMAIN transaction_indexes
  BY <1>1, <1>2, EnvelopeFields DEF HeadHolds
<1>4. LogTypeOK'
  <2>1. /\ transaction_indexes' =
              Insert(transaction_indexes, inflight.transaction, Len(transactions) + 1)
        /\ dependents' = RecordDependents(inflight)
        /\ idempotency' = Insert(idempotency, inflight.idempotency,
               [version |-> next_version, transaction |-> inflight.transaction])
        /\ version' = next_version
    BY <1>1 DEF Record
  <2>2. transaction_indexes' \in
            [DOMAIN transaction_indexes \cup {inflight.transaction} -> DOMAIN transactions']
    BY <1>1, <2>1, AppendedLog DEF Insert, TypeOK, LogTypeOK
  <2>3. DOMAIN transaction_indexes' = DOMAIN transaction_indexes \cup {inflight.transaction}
    BY <2>2
  <2>4. dependents' \in [DOMAIN dependents \cup inflight.depends_on ->
                           SUBSET DOMAIN transaction_indexes']
    BY <1>3, <2>1, <2>3 DEF RecordDependents, Lookup, TypeOK, LogTypeOK
  <2>5. idempotency' \in [DOMAIN idempotency \cup {inflight.idempotency} ->
            [version: 1..MaxVersion, transaction: DOMAIN transaction_indexes']]
    BY <1>2, <2>1, <2>3 DEF Insert, TypeOK, LogTypeOK
  <2>6. version' \in 0..MaxVersion
    BY <1>2, <2>1, LedgerAssumption
  <2> QED
    BY <1>1, <1>3, <2>2, <2>3, <2>4, <2>5, <2>6, AppendedLog DEF TypeOK, LogTypeOK
<1>5. ControlTypeOK'
  BY DEF Record, ControlTypeOK, AnswerType
<1>6. EvidenceTypeOK' /\ LineageTypeOK' /\ IdentityTypeOK' /\ DeliveryTypeOK'
  BY <1>1 DEF TypeOK, EvidenceTypeOK, LineageTypeOK, IdentityTypeOK, DeliveryTypeOK,
              Record, evidence, lineage, identity_index, delivery
<1> QED
  BY <1>4, <1>5, <1>6 DEF TypeOK

-----------------------------------------------------------------------------
(* What validate checks of an envelope holds when apply begins. *)

(* An identity the overlay knows is recorded or written by an earlier      *)
(* command of the envelope.                                                *)
LEMMA OverlayKnown ==
    ASSUME NEW e, NEW i, NEW id, OverlayStatus(e, i, id) # "Absent"
    PROVE  id \in DOMAIN identities \/ \E j \in 1..(i - 1) : Writes(e.commands[j], id)
BY DEF OverlayStatus, Lookup

(* A valid command only uses identities that exist when its turn comes.    *)
LEMMA ValidIdentities ==
    ASSUME NEW e \in CommandEnvelope, NEW i \in 1..Len(e.commands), ValidCommand(e, i),
           NEW id \in Identity, Uses(e.commands[i], id)
    PROVE  id \in DOMAIN identities \/ \E j \in 1..(i - 1) : Writes(e.commands[j], id)
<1>1. OverlayStatus(e, i, id) # "Absent"
  <2> DEFINE c == e.commands[i]
  <2>1. CASE c.kind = "Merge"
    <3>1. ValidMerge(e, i) /\ id \in {c.left, c.right}
      BY <2>1 DEF ValidCommand, Uses
    <3> QED
      BY <3>1 DEF ValidMerge
  <2>2. CASE c.kind = "Split"
    <3>1. ValidSplit(e, i) /\ \E p \in c.partitions : p.identity = id
      BY <2>2 DEF ValidCommand, Uses
    <3> QED
      BY <3>1 DEF ValidSplit
  <2>3. CASE c.kind \in {"Promote", "Dormant", "Reactivate", "Retire"}
    <3>1. c.identity = id
      BY <2>3 DEF Uses
    <3>2. OverlayStatus(e, i, c.identity) \in {"Active", "Dormant"}
      BY <2>3 DEF ValidCommand
    <3> QED
      BY <3>1, <3>2
  <2> QED
    BY <2>1, <2>2, <2>3 DEF Uses
<1> QED
  BY <1>1, OverlayKnown

(* What validate checks gives ValidationHolds for the whole envelope.      *)
LEMMA StartHolds ==
    ASSUME TypeOK, ValidationHolds, NEW e \in CommandEnvelope, Start(e)
    PROVE  ValidationHolds'
<1>1. /\ inflight' = e /\ cursor' = 1 /\ targets' = {} /\ e # None
      /\ observations' = observations /\ inferences' = inferences
      /\ decisions' = decisions /\ merges' = merges /\ identities' = identities
      /\ version' = version /\ transactions' = transactions
      /\ transaction_indexes' = transaction_indexes /\ idempotency' = idempotency
      /\ Valid(e)
  BY EnvelopeFields DEF Start, ValidationHolds, state, evidence, lineage, identity_index, log
<1>2. HeadHolds'
  <2>1. Len(e.commands) \in Nat
    BY EnvelopeFields
  <2>2. e.depends_on \subseteq DOMAIN transaction_indexes
    BY <1>1 DEF Valid, DependenciesActive, IsActive
  <2> QED
    BY <1>1, <2>1, <2>2 DEF HeadHolds, Valid, SnapshotCurrent, NewTransaction, FreshKey, VersionLeft
<1>3. ASSUME NEW i \in 1..Len(e.commands)
      PROVE  /\ EvidenceHolds(i)' /\ ResolutionHolds(i)' /\ IdentityHolds(i)'
             /\ MergeHolds(i)' /\ SplitHolds(i)' /\ RevertHolds(i)'
  <2> DEFINE c == e.commands[i]
  <2>1. Left(i)' = {e.commands[j] : j \in 1..(i - 1)}
    BY <1>1 DEF Left
  <2>2. ValidCommand(e, i)
    BY <1>1, EnvelopeFields DEF Valid, CommandsValid
  <2>3. EvidenceHolds(i)'
    <3>1. c.kind = "PersistObservation" => ValidPersist(e, i)
      BY <2>2 DEF ValidCommand
    <3>2. c.kind = "CommitResolution" => ValidResolution(e, i)
      BY <2>2 DEF ValidCommand
    <3> QED
      BY <1>1, <2>1, <3>1, <3>2 DEF EvidenceHolds, ValidPersist, ValidResolution,
         KnownObservation, PendingObservations, Earlier
  <2>4. ResolutionHolds(i)'
    <3>1. c.kind = "CommitResolution" => ValidResolution(e, i)
      BY <2>2 DEF ValidCommand
    <3> QED
      BY <1>1, <2>1, <3>1 DEF ResolutionHolds, ValidResolution, PendingInferences,
         PendingDecisions, Earlier, next_version
  <2>5. IdentityHolds(i)'
    BY <1>1, <2>1, <2>2, ValidIdentities DEF IdentityHolds
  <2>6. MergeHolds(i)'
    <3>1. c.kind = "Merge" => ValidMerge(e, i)
      BY <2>2 DEF ValidCommand
    <3> QED
      BY <1>1, <2>1, <3>1 DEF MergeHolds, ValidMerge, PendingDecisions, Earlier
  <2>7. RevertHolds(i)'
    <3>1. c.kind = "Revert" => ValidRevert(e, i)
      BY <2>2 DEF ValidCommand
    <3> QED
      BY <1>1, <3>1 DEF RevertHolds, ValidRevert, IsActive
  <2>8. SplitHolds(i)'
    <3>1. c.kind = "Split" => ValidSplit(e, i)
      BY <2>2 DEF ValidCommand
    <3> QED
      BY <1>1, <3>1 DEF SplitHolds, ValidSplit
  <2> QED
    BY <2>3, <2>4, <2>5, <2>6, <2>7, <2>8
<1> QED
  BY <1>1, <1>2, <1>3 DEF ValidationHolds

(* Accepting an envelope keeps the types.                                  *)
LEMMA StartType ==
    ASSUME TypeOK, NEW e \in CommandEnvelope, Start(e), outcome' \in AnswerType
    PROVE  TypeOK'
<1>1. ControlTypeOK'
  BY DEF TypeOK, ControlTypeOK, Start, AnswerType, state, log
<1>2. EvidenceTypeOK' /\ LineageTypeOK' /\ IdentityTypeOK' /\ DeliveryTypeOK' /\ LogTypeOK'
  BY DEF TypeOK, EvidenceTypeOK, LineageTypeOK, IdentityTypeOK, DeliveryTypeOK, LogTypeOK, Start,
     state, evidence, lineage, identity_index, delivery, log
<1> QED
  BY <1>1, <1>2 DEF TypeOK

-----------------------------------------------------------------------------
(* ... and still holds of the commands that are left after each step. *)

(* Merge records stay as they are or are ended by this commit.             *)
MergesKept ==
    \A d \in DOMAIN merges :
        \/ merges'[d] = merges[d]
        \/ merges'[d] = [merges[d] EXCEPT !.validity = EndAt(@, next_version)]

(* A merge that a split may close is still open after the command before   *)
(* it, or was closed by the same commit.                                   *)
LEMMA SplitStillHolds ==
    ASSUME NEW i, SplitHolds(i), MergesKept, DOMAIN merges \subseteq DOMAIN merges',
           inflight'.commands[i] = inflight.commands[i], next_version' = next_version,
           IdentityTypeOK
    PROVE  SplitHolds(i)'
<1> DEFINE c == inflight.commands[i]
<1> SUFFICES ASSUME c.kind = "Split", NEW d \in c.close_merges
             PROVE  /\ d \in DOMAIN merges'
                    /\ \/ IsOpen(merges'[d].validity)
                       \/ merges'[d].validity.end = next_version
  BY DEF SplitHolds, IsOpen, Open
<1>1. d \in DOMAIN merges
      /\ (IsOpen(merges[d].validity) \/ merges[d].validity.end = next_version)
  BY DEF SplitHolds
<1>2. \/ merges'[d].validity = merges[d].validity
      \/ merges'[d].validity = EndAt(merges[d].validity, next_version)
  BY <1>1 DEF MergesKept, IdentityTypeOK
<1>3. merges[d].validity \in Validity
  BY <1>1 DEF IdentityTypeOK
<1> QED
  BY <1>1, <1>2, <1>3 DEF EndAt, IsOpen, Validity

(* A command adds to each table what it names and nothing else.            *)
Adds(c) ==
    /\ MergesKept
    /\ DOMAIN observations' = DOMAIN observations \cup
           {b.observation : b \in {b \in {c} : b.kind = "PersistObservation"}}
    /\ DOMAIN inferences' = DOMAIN inferences \cup
           {b.inference.id : b \in {b \in {c} : b.kind = "CommitResolution"}}
    /\ DOMAIN decisions' = DOMAIN decisions \cup
           {b.decision.id : b \in {b \in {c} : b.kind = "CommitResolution"}}
    /\ DOMAIN merges' = DOMAIN merges \cup
           {b.decision : b \in {b \in {c} : b.kind = "Merge"}}
    /\ DOMAIN identities \subseteq DOMAIN identities'
    /\ \A id \in Identity : Writes(c, id) => id \in DOMAIN identities'

(* Commands i and later keep what they need when command `cursor' is done. *)
LEMMA AdvanceKeeps ==
    ASSUME TypeOK, ValidationHolds, inflight # None, cursor \in DOMAIN inflight.commands,
           targets = {}, Adds(command), Advance,
           UNCHANGED <<version, transaction_indexes, idempotency>>
    PROVE  ValidationHolds'
<1>1. /\ inflight' = inflight /\ cursor' = cursor + 1 /\ targets' = {}
      /\ cursor \in 1..Len(inflight.commands) /\ Len(inflight.commands) \in Nat
      /\ next_version' = next_version
  BY InFlight, EnvelopeFields DEF Advance, next_version
<1>2. HeadHolds'
  BY <1>1 DEF ValidationHolds, HeadHolds, SnapshotCurrent, VersionLeft, NewTransaction, FreshKey
<1>3. ASSUME NEW i \in (cursor + 1)..Len(inflight.commands)
      PROVE  /\ EvidenceHolds(i)' /\ ResolutionHolds(i)' /\ IdentityHolds(i)'
             /\ MergeHolds(i)' /\ SplitHolds(i)' /\ RevertHolds(i)'
  <2>1. Left(i) = Left(i)' \cup {command}
    BY <1>1 DEF Left, command
  <2>2. inflight'.commands[i] = inflight.commands[i]
    BY <1>1
  <2>3. /\ EvidenceHolds(i) /\ ResolutionHolds(i) /\ IdentityHolds(i)
        /\ MergeHolds(i) /\ SplitHolds(i) /\ RevertHolds(i)
    BY <1>1 DEF ValidationHolds
  <2> HIDE DEF command
  <2>4. EvidenceHolds(i)'
    BY <2>1, <2>2, <2>3 DEF EvidenceHolds, Adds
  <2>5. ResolutionHolds(i)'
    BY <1>1, <2>1, <2>2, <2>3 DEF ResolutionHolds, Adds
  <2>6. IdentityHolds(i)'
    BY <2>1, <2>2, <2>3 DEF IdentityHolds, Adds
  <2>7. MergeHolds(i)'
    BY <2>1, <2>2, <2>3 DEF MergeHolds, Adds
  <2>8. RevertHolds(i)'
    BY <2>2, <2>3 DEF RevertHolds
  <2>9. SplitHolds(i)'
    BY <1>1, <2>2, <2>3, SplitStillHolds DEF Adds, TypeOK
  <2> QED
    BY <2>4, <2>5, <2>6, <2>7, <2>8, <2>9
<1> QED
  BY <1>1, <1>2, <1>3 DEF ValidationHolds

(* Every command that is applied in one step adds what it names.           *)
LEMMA ApplyAdds ==
    ASSUME TypeOK, ValidationHolds,
           \/ PersistObservation \/ CommitResolution \/ CreateIdentity \/ Promote
           \/ \E kind \in {"Dormant", "Reactivate", "Retire"} : ChangeStatus(kind)
           \/ Merge \/ Split \/ EnqueueMaterialization \/ Materialized
    PROVE  Adds(command)
<1>1. inflight # None /\ cursor \in DOMAIN inflight.commands
  BY DEF Applying, PersistObservation, CommitResolution, CreateIdentity, Promote, ChangeStatus,
         Merge, Split, EnqueueMaterialization, Materialized
<1>2. \A id \in Identity : Uses(command, id) => id \in DOMAIN identities
  BY <1>1, UsedIsKnown
<1> HIDE DEF command
<1>3. CASE PersistObservation
  BY <1>3 DEF PersistObservation, Applying, Adds, MergesKept, Writes, Insert, lineage,
     identity_index
<1>4. CASE CommitResolution
  <2>1. command.kind = "CommitResolution"
    BY <1>4 DEF CommitResolution, Applying
  <2>2. DOMAIN inferences' = DOMAIN inferences \cup {command.inference.id}
        /\ DOMAIN decisions' = DOMAIN decisions \cup {command.decision.id}
    BY <1>4 DEF CommitResolution, Insert, CloseCurrent
  <2>3. observations' = observations /\ merges' = merges
    BY <1>4 DEF CommitResolution, evidence
  <2>4. DOMAIN identities \subseteq DOMAIN identities'
        /\ \A id \in Identity : command.created = id => id \in DOMAIN identities'
    BY <1>4, LedgerAssumption DEF CommitResolution, Insert
  <2> QED
    BY <2>1, <2>2, <2>3, <2>4 DEF Adds, MergesKept, Writes
<1>5. CASE CreateIdentity
  BY <1>5 DEF CreateIdentity, Applying, Adds, MergesKept, Writes, Insert, evidence, lineage
<1>6. CASE Promote
  BY <1>6 DEF Promote, Applying, Adds, MergesKept, Writes, Insert, evidence, lineage
<1>7. CASE \E kind \in {"Dormant", "Reactivate", "Retire"} : ChangeStatus(kind)
  BY <1>7 DEF ChangeStatus, Applying, Adds, MergesKept, Writes, Insert, evidence, lineage
<1>8. CASE Merge
  <2>1. command.kind = "Merge" /\ DOMAIN merges' = DOMAIN merges \cup {command.decision}
    BY <1>8 DEF Merge, Applying, Insert
  <2>2. DOMAIN identities' = DOMAIN identities
    BY <1>8 DEF Merge, UnionStatuses
  <2>3. observations' = observations /\ inferences' = inferences /\ decisions' = decisions
    BY <1>8 DEF Merge, evidence, lineage
  <2>4. MergesKept
    <3>1. command.decision \notin DOMAIN merges
      BY <1>1, <2>1, InFlight DEF MergeHolds, command
    <3> QED
      BY <1>8, <3>1 DEF Merge, Insert, MergesKept
  <2> QED
    BY <2>1, <2>2, <2>3, <2>4 DEF Adds, Writes
<1>9. CASE Split
  <2>1. command.kind = "Split" /\ DOMAIN merges' = DOMAIN merges
        /\ DOMAIN identities' = DOMAIN identities
    BY <1>9 DEF Split, Applying, CloseMerges, RebuildStatuses
  <2>2. observations' = observations /\ inferences' = inferences /\ decisions' = decisions
    BY <1>9 DEF Split, evidence, lineage
  <2>3. MergesKept
    BY <1>9 DEF Split, CloseMerges, MergesKept
  <2> QED
    BY <1>2, <2>1, <2>2, <2>3 DEF Adds, Writes, Uses
<1>10. CASE EnqueueMaterialization \/ Materialized
  BY <1>10 DEF EnqueueMaterialization, Materialized, Applying, Adds, MergesKept, Writes, evidence,
     lineage,
     identity_index
<1> QED
  BY <1>3, <1>4, <1>5, <1>6, <1>7, <1>8, <1>9, <1>10

(* What validation found of the commands left only depends on the tables   *)
(* that these commands refer to and on the place in the envelope.          *)
LEMMA HoldsKept ==
    ASSUME ValidationHolds,
           UNCHANGED <<observations, inferences, decisions, identities, merges, version,
                       transaction_indexes, idempotency, inflight, cursor>>
    PROVE  (inflight # None =>
                /\ HeadHolds
                /\ \A i \in cursor..Len(inflight.commands) :
                      /\ EvidenceHolds(i) /\ ResolutionHolds(i)
                      /\ IdentityHolds(i) /\ MergeHolds(i) /\ SplitHolds(i) /\ RevertHolds(i))'
<1>1. HeadHolds' <=> HeadHolds
  BY DEF HeadHolds, SnapshotCurrent, VersionLeft, NewTransaction, FreshKey
<1>2. ASSUME NEW i
      PROVE  /\ EvidenceHolds(i)' <=> EvidenceHolds(i)
             /\ ResolutionHolds(i)' <=> ResolutionHolds(i)
             /\ IdentityHolds(i)' <=> IdentityHolds(i)
             /\ MergeHolds(i)' <=> MergeHolds(i)
             /\ SplitHolds(i)' <=> SplitHolds(i)
             /\ RevertHolds(i)' <=> RevertHolds(i)
  <2>1. Left(i)' = Left(i)
    BY DEF Left
  <2>2. EvidenceHolds(i)' <=> EvidenceHolds(i)
    BY <2>1 DEF EvidenceHolds
  <2>3. ResolutionHolds(i)' <=> ResolutionHolds(i)
    BY <2>1 DEF ResolutionHolds, next_version
  <2>4. IdentityHolds(i)' <=> IdentityHolds(i)
    BY <2>1 DEF IdentityHolds
  <2>5. MergeHolds(i)' <=> MergeHolds(i)
    BY <2>1 DEF MergeHolds
  <2>6. SplitHolds(i)' <=> SplitHolds(i)
    BY DEF SplitHolds, IsOpen, Open, next_version
  <2>7. RevertHolds(i)' <=> RevertHolds(i)
    BY DEF RevertHolds
  <2> QED
    BY <2>2, <2>3, <2>4, <2>5, <2>6, <2>7
<1> QED
  BY <1>1, <1>2 DEF ValidationHolds

(* Starting a revert keeps what validation found of the commands left.     *)
LEMMA RevertKeeps ==
    ASSUME TypeOK, ValidationHolds, Revert
    PROVE  ValidationHolds'
<1>1. /\ inflight # None /\ cursor \in DOMAIN inflight.commands /\ targets = {}
      /\ command.kind = "Revert"
  BY DEF Revert, Applying
<1>2. CASE command.mode = "Compensating"
  <2>1. Advance /\ UNCHANGED state
    BY <1>2 DEF Revert
  <2>2. Adds(command)
    BY <1>1, <2>1 DEF Adds, MergesKept, Writes, state, evidence, lineage, identity_index
  <2> QED
    BY <1>1, <2>1, <2>2, AdvanceKeeps DEF state, log
<1>3. CASE command.mode # "Compensating"
  <2>1. UNCHANGED <<state, inflight, cursor>>
    BY <1>3 DEF Revert
  <2>2. command' = command
    BY <2>1 DEF command
  <2>3. UNCHANGED <<observations, inferences, decisions, identities, merges, version,
                    transaction_indexes, idempotency, inflight, cursor>>
    BY <2>1 DEF state, evidence, lineage, identity_index, log
  <2>4. (inflight # None =>
            /\ HeadHolds
            /\ \A i \in cursor..Len(inflight.commands) :
                  /\ EvidenceHolds(i) /\ ResolutionHolds(i)
                  /\ IdentityHolds(i) /\ MergeHolds(i) /\ SplitHolds(i) /\ RevertHolds(i))'
    BY <2>3, HoldsKept
  <2> QED
    BY <1>1, <2>1, <2>2, <2>4 DEF ValidationHolds
<1> QED
  BY <1>2, <1>3

(* Deactivating a transaction takes no record out of a table, so what the  *)
(* rest of the envelope needs is still there.                              *)
LEMMA DeactivateAdds ==
    ASSUME NEW t \in targets, Deactivate(t)
    PROVE  /\ observations' = observations
           /\ DOMAIN inferences' = DOMAIN inferences /\ DOMAIN decisions' = DOMAIN decisions
           /\ DOMAIN merges' = DOMAIN merges /\ DOMAIN identities' = DOMAIN identities
           /\ MergesKept
BY DEF Deactivate, evidence, CloseCurrent, EndDecisions, CloseMerges, RebuildStatuses, MergesKept

(* Deactivating a target keeps what validation found of the commands left. *)
LEMMA DeactivateKeeps ==
    ASSUME TypeOK, ValidationHolds, NEW t \in targets, Deactivate(t)
    PROVE  ValidationHolds'
<1>1. /\ inflight # None /\ cursor \in DOMAIN inflight.commands
      /\ cursor \in 1..Len(inflight.commands) /\ Len(inflight.commands) \in Nat
      /\ inflight' = inflight /\ UNCHANGED <<version, transaction_indexes, idempotency>>
      /\ next_version' = next_version
  BY InFlight, EnvelopeFields DEF ValidationHolds, Deactivate, next_version
<1>2. \/ cursor' = cursor + 1 /\ targets' = {}
      \/ cursor' = cursor
  BY DEF Deactivate
<1>3. HeadHolds'
  BY <1>1, <1>2 DEF ValidationHolds, HeadHolds, SnapshotCurrent, VersionLeft, NewTransaction,
                    FreshKey
<1>4. ASSUME NEW i \in cursor'..Len(inflight.commands)
      PROVE  /\ EvidenceHolds(i)' /\ ResolutionHolds(i)' /\ IdentityHolds(i)'
             /\ MergeHolds(i)' /\ SplitHolds(i)' /\ RevertHolds(i)'
  <2>1. /\ EvidenceHolds(i) /\ ResolutionHolds(i) /\ IdentityHolds(i)
        /\ MergeHolds(i) /\ SplitHolds(i) /\ RevertHolds(i)
    BY <1>1, <1>2 DEF ValidationHolds
  <2>2. Left(i)' \subseteq Left(i) /\ inflight'.commands[i] = inflight.commands[i]
    BY <1>1, <1>2 DEF Left
  <2>3. \A b \in Left(i) \ Left(i)' : b = command
    BY <1>1, <1>2 DEF Left, command
  <2>4. \A id \in Identity : ~Writes(command, id)
    BY DEF ValidationHolds, Writes
  <2>5. EvidenceHolds(i)' /\ ResolutionHolds(i)' /\ MergeHolds(i)' /\ RevertHolds(i)'
    <3>1. command.kind = "Revert"
      BY DEF ValidationHolds
    <3> QED
      BY <1>1, <2>1, <2>2, <2>3, <3>1, DeactivateAdds
         DEF EvidenceHolds, ResolutionHolds, MergeHolds, RevertHolds
  <2>6. IdentityHolds(i)'
    BY <2>1, <2>2, <2>3, <2>4, DeactivateAdds DEF IdentityHolds
  <2>7. SplitHolds(i)'
    BY <1>1, <2>1, <2>2, SplitStillHolds, DeactivateAdds DEF TypeOK
  <2> QED
    BY <2>5, <2>6, <2>7
<1>5. targets' # {} => command' = command /\ cursor' = cursor
  BY <1>1, <1>2 DEF Deactivate, command
<1>6. command.kind = "Revert"
  BY DEF ValidationHolds
<1> QED
  BY <1>1, <1>3, <1>4, <1>5, <1>6 DEF ValidationHolds

(* Between its calls and when it answers by itself the ledger stays as it  *)
(* is.                                                                     *)
LEMMA QuietKeeps ==
    ASSUME TypeOK, ValidationHolds, Quiet, outcome' \in AnswerType
    PROVE  TypeOK' /\ ValidationHolds'
<1>1. TypeOK'
  BY DEF Quiet, TypeOK, EvidenceTypeOK, LineageTypeOK, IdentityTypeOK, DeliveryTypeOK, LogTypeOK,
         ControlTypeOK, AnswerType, state, evidence, lineage, identity_index, delivery, log
<1>2. UNCHANGED <<observations, inferences, decisions, identities, merges, version,
                  transaction_indexes, idempotency, inflight, cursor, targets>>
  BY DEF Quiet, state, evidence, lineage, identity_index, log
<1>3. ValidationHolds'
  BY <1>2, HoldsKept DEF ValidationHolds, command
<1> QED
  BY <1>1, <1>3

-----------------------------------------------------------------------------
(* The inductive invariant: the types, and the promise of validate to the  *)
(* rest of the envelope, without which a command could name records that   *)
(* are not there.                                                          *)
LedgerInv == TypeOK /\ ValidationHolds

(* The empty ledger satisfies the invariant.                               *)
LEMMA InitInv == Init => LedgerInv
<1> SUFFICES ASSUME Init PROVE LedgerInv
  OBVIOUS
<1>1. TypeOK
  BY LedgerAssumption DEF Init, Empty, EmptyMap, TypeOK, EvidenceTypeOK, LineageTypeOK,
     IdentityTypeOK, DeliveryTypeOK, LogTypeOK, ControlTypeOK, Answer, Result
<1>2. ValidationHolds
  BY DEF Init, Empty, ValidationHolds
<1> QED
  BY <1>1, <1>2 DEF LedgerInv

(* Every step of the ledger keeps the invariant, one case per action.      *)
LEMMA StepInv == LedgerInv /\ TableStep => LedgerInv'
<1> SUFFICES ASSUME LedgerInv, TableStep PROVE LedgerInv'
  OBVIOUS
<1> USE DEF LedgerInv
<1>0. outcome' \in AnswerType
  BY DEF TableStep
<1> DEFINE Changes == \E kind \in {"Dormant", "Reactivate", "Retire"} : ChangeStatus(kind)
<1>1. CASE Quiet
  BY <1>1, <1>0, QuietKeeps
<1>2. ASSUME NEW e \in CommandEnvelope, Start(e) PROVE LedgerInv'
  BY <1>0, <1>2, StartType, StartHolds
<1>3. CASE \/ PersistObservation \/ CommitResolution \/ CreateIdentity \/ Promote \/ Changes
           \/ Merge \/ Split \/ EnqueueMaterialization \/ Materialized
  <2>1. /\ inflight # None /\ cursor \in DOMAIN inflight.commands /\ targets = {}
        /\ Advance /\ UNCHANGED <<version, transaction_indexes, idempotency>>
    BY <1>3 DEF Applying, PersistObservation, CommitResolution, CreateIdentity, Promote,
       ChangeStatus, Merge, Split, EnqueueMaterialization, Materialized, log
  <2>2. ValidationHolds'
    BY <1>3, <2>1, ApplyAdds, AdvanceKeeps
  <2>3. TypeOK'
    BY <1>3, PersistObservationType, CommitResolutionType, CreateIdentityType, PromoteType,
       ChangeStatusType, MergeType, SplitType, EnqueueMaterializationType, MaterializedType
  <2> QED
    BY <2>2, <2>3
<1>4. CASE Revert
  BY <1>4, RevertType, RevertKeeps
<1>5. ASSUME NEW t \in targets, Deactivate(t) PROVE LedgerInv'
  BY <1>5, DeactivateType, DeactivateKeeps
<1>6. CASE Record
  <2>1. ValidationHolds'
    BY <1>6 DEF Record, ValidationHolds
  <2> QED
    BY <1>0, <1>6, <2>1, RecordType
<1> QED
  BY <1>1, <1>2, <1>3, <1>4, <1>5, <1>6 DEF TableStep, Apply

(* prepare's answers, and an envelope that is accepted, are such steps,     *)
(* whoever submits it.                                                     *)
LEMMA SubmitIsStep ==
    ASSUME LedgerInv, NEW e \in CommandEnvelope, Answered(e) \/ Accept(e)
    PROVE  TableStep
<1>1. CASE Answered(e)
  <2>1. Quiet
    BY <1>1 DEF Quiet, Answered, Refuse, Replay, IdempotencyCollision, VersionConflict,
       DuplicateTransaction, VersionExhausted, MissingDependency, InvalidCommand
  <2>2. ASSUME NEW error \in Result, Refuse(error) PROVE outcome' \in AnswerType
    BY <2>2, LedgerAssumption DEF Refuse, Answer, AnswerType
  <2>3. ASSUME Replay(e) PROVE outcome' \in AnswerType
    <3>1. idempotency[e.idempotency].version \in 0..MaxVersion
      BY <2>3, LedgerAssumption DEF Replay, FreshKey, LedgerInv, TypeOK, LogTypeOK
    <3> QED
      BY <2>3, <3>1 DEF Replay, Answer, Result, AnswerType
  <2>4. outcome' \in AnswerType
    BY <1>1, <2>2, <2>3 DEF Answered, Result, IdempotencyCollision, VersionConflict,
       DuplicateTransaction, VersionExhausted, MissingDependency, InvalidCommand
  <2> QED
    BY <2>1, <2>4 DEF TableStep
<1>2. CASE Accept(e)
  BY <1>2, LedgerAssumption DEF Accept, TableStep, Answer, AnswerType, Result
<1> QED
  BY <1>1, <1>2

(* So are the steps of a commit.                                           *)
LEMMA CommitIsStep ==
    ASSUME LedgerInv, Apply \/ Publish
    PROVE  TableStep
<1>1. outcome \in AnswerType /\ TypeOK /\ ValidationHolds
  BY DEF LedgerInv, TypeOK, ControlTypeOK, AnswerType
<1>2. CASE Apply
  <2>1. outcome' = outcome
    BY <1>2 DEF Apply, PersistObservation, CommitResolution, CreateIdentity, Promote, ChangeStatus,
       Merge, Split, Revert, Deactivate, EnqueueMaterialization, Materialized, Advance
  <2> QED
    BY <1>1, <1>2, <2>1 DEF TableStep
<1>3. CASE Publish
  <2>1. inflight \in CommandEnvelope /\ next_version \in 0..MaxVersion
    BY <1>1, <1>3, AppendedLog, LedgerAssumption DEF Publish, Record
  <2> QED
    BY <1>3, <2>1 DEF Publish, TableStep, Answer, AnswerType, Result
<1> QED
  BY <1>2, <1>3

(* The steps of the ledger are such steps.                                 *)
LEMMA NextIsStep == LedgerInv /\ [Next]_vars => TableStep
<1> SUFFICES ASSUME LedgerInv, [Next]_vars PROVE TableStep
  OBVIOUS
<1>1. outcome \in AnswerType
  BY DEF LedgerInv, TypeOK, ControlTypeOK, AnswerType
<1>2. CASE UNCHANGED vars
  BY <1>1, <1>2 DEF vars, control, TableStep, Quiet
<1>3. ASSUME NEW e \in Envelope, Answered(e) \/ Accept(e) PROVE TableStep
  BY <1>3, SubmitIsStep, LedgerAssumption
<1> QED
  BY <1>2, <1>3, CommitIsStep DEF Next, Prepare

(* In every state every record lies in its table under an identifier of    *)
(* its kind, and every pointer between two tables leads to a record.       *)
THEOREM TypeCorrect == Spec => []TypeOK
<1>1. LedgerInv => TypeOK
  BY DEF LedgerInv
<1> QED
  BY InitInv, StepInv, NextIsStep, <1>1, PTL DEF Spec

(* apply, which checks nothing, never meets a command whose needs are not  *)
(* met: what validate found before the first command still holds.          *)
THEOREM ApplyNeverSurprised == Spec => []ValidationHolds
<1>1. LedgerInv => ValidationHolds
  BY DEF LedgerInv
<1> QED
  BY InitInv, StepInv, NextIsStep, <1>1, PTL DEF Spec

-----------------------------------------------------------------------------
(***************************************************************************)
(* The ledger as a log: the records and their indexes agree, and the log   *)
(* only grows; the ledger knows which transactions depend on which,        *)
(* reverts leave no orphans, and it implements the append-only log its     *)
(* clients are promised.  No step rewrites history: evidence stays as it   *)
(* was persisted, and inferences and merges that have ended stay ended at  *)
(* the version that ended them.                                            *)
(***************************************************************************)

(* What is left of the log's invariant when no record is appended: every   *)
(* record keeps its version and envelope, and the indexes stay.            *)
LEMMA LogKept ==
    ASSUME LogTypeOK, LogConsistent,
           DOMAIN transactions' = DOMAIN transactions, Len(transactions') = Len(transactions),
           \A n \in DOMAIN transactions :
               /\ transactions'[n].version = transactions[n].version
               /\ transactions'[n].envelope = transactions[n].envelope,
           UNCHANGED <<version, transaction_indexes, idempotency>>
    PROVE  LogConsistent'
<1>1. \A t \in DOMAIN transaction_indexes : Committed(t)' = Committed(t)
  BY DEF Committed, LogTypeOK
<1>2. \A k \in DOMAIN idempotency : idempotency[k].transaction \in DOMAIN transaction_indexes
  BY DEF LogTypeOK
<1> QED
  BY <1>1, <1>2 DEF LogConsistent

(* The new record is reached from its transaction and its key, and the     *)
(* entries for the earlier records are not overwritten, since both are     *)
(* fresh.                                                                  *)
LEMMA LogExtended ==
    ASSUME TypeOK, ValidationHolds, LogConsistent, Record
    PROVE  LogConsistent'
<1> DEFINE t == inflight.transaction
           k == inflight.idempotency
           n == Len(transactions) + 1
<1>1. inflight # None /\ HeadHolds
  BY DEF Record, ValidationHolds
<1>2. /\ transaction_indexes' = Insert(transaction_indexes, t, n)
      /\ idempotency' = Insert(idempotency, k, [version |-> next_version, transaction |-> t])
      /\ version' = next_version
      /\ t \notin DOMAIN transaction_indexes /\ k \notin DOMAIN idempotency
      /\ inflight.expected_version = version
      /\ Len(transactions) \in Nat
  BY <1>1, AppendedLog DEF Record, HeadHolds, NewTransaction, FreshKey, SnapshotCurrent, TypeOK,
                          LogTypeOK
<1>3. version = Len(transactions) /\ next_version = n /\ version \in Nat
  BY <1>2 DEF LogConsistent, next_version
<1>4. /\ DOMAIN transactions = 1..Len(transactions) /\ DOMAIN transactions' = 1..n
      /\ Len(transactions') = n
      /\ transactions'[n] = [version |-> n, envelope |-> inflight, active |-> TRUE]
      /\ \A m \in 1..Len(transactions) : transactions'[m] = transactions[m]
  BY <1>3, AppendedLog
<1>5. /\ transaction_indexes'[t] = n
      /\ \A u \in DOMAIN transaction_indexes : transaction_indexes'[u] = transaction_indexes[u]
      /\ DOMAIN transaction_indexes' = DOMAIN transaction_indexes \cup {t}
  BY <1>2 DEF Insert
<1>6. /\ idempotency'[k] = [version |-> n, transaction |-> t]
      /\ \A j \in DOMAIN idempotency : idempotency'[j] = idempotency[j]
      /\ DOMAIN idempotency' = DOMAIN idempotency \cup {k}
  BY <1>2, <1>3 DEF Insert
<1> DEFINE after(u) == transactions'[transaction_indexes'[u]].envelope
<1>7. after(t) = inflight /\ \A u \in DOMAIN transaction_indexes : after(u) = Committed(u)
  BY <1>4, <1>5 DEF Committed, TypeOK, LogTypeOK
<1>8. \A m \in DOMAIN transactions' :
          LET e == transactions'[m].envelope
          IN  /\ transactions'[m].version = m /\ e.expected_version = m - 1
              /\ e.transaction \in DOMAIN transaction_indexes'
              /\ transaction_indexes'[e.transaction] = m
              /\ e.idempotency \in DOMAIN idempotency'
              /\ idempotency'[e.idempotency] = [version |-> m, transaction |-> e.transaction]
  <2> SUFFICES ASSUME NEW m \in 1..n
               PROVE  LET e == transactions'[m].envelope
                      IN  /\ transactions'[m].version = m /\ e.expected_version = m - 1
                          /\ e.transaction \in DOMAIN transaction_indexes'
                          /\ transaction_indexes'[e.transaction] = m
                          /\ e.idempotency \in DOMAIN idempotency'
                          /\ idempotency'[e.idempotency] =
                                 [version |-> m, transaction |-> e.transaction]
    BY <1>4
  <2>1. CASE m = n
    BY <2>1, <1>2, <1>3, <1>4, <1>5, <1>6
  <2>2. CASE m # n
    <3>1. m \in 1..Len(transactions) /\ transactions'[m] = transactions[m]
      BY <2>2, <1>2, <1>4
    <3> QED
      BY <3>1, <1>4, <1>5, <1>6 DEF LogConsistent
  <2> QED
    BY <2>1, <2>2
<1>9. \A u \in DOMAIN transaction_indexes' : after(u).transaction = u
  <2> SUFFICES ASSUME NEW u \in DOMAIN transaction_indexes' PROVE after(u).transaction = u
    OBVIOUS
  <2>1. CASE u = t
    BY <2>1, <1>7
  <2>2. CASE u # t
    BY <2>2, <1>5, <1>7 DEF LogConsistent
  <2> QED
    BY <2>1, <2>2
<1>10. \A j \in DOMAIN idempotency' : after(idempotency'[j].transaction).idempotency = j
  <2> SUFFICES ASSUME NEW j \in DOMAIN idempotency'
               PROVE  after(idempotency'[j].transaction).idempotency = j
    OBVIOUS
  <2>1. CASE j = k
    <3>1. idempotency'[j].transaction = t
      BY <2>1, <1>6
    <3> QED
      BY <2>1, <3>1, <1>7
  <2>2. CASE j # k
    <3>1. j \in DOMAIN idempotency /\ idempotency'[j] = idempotency[j]
          /\ idempotency[j].transaction \in DOMAIN transaction_indexes
      BY <2>2, <1>6 DEF TypeOK, LogTypeOK
    <3> QED
      BY <3>1, <1>7 DEF LogConsistent
  <2> QED
    BY <2>1, <2>2
<1> QED
  BY <1>2, <1>3, <1>4, <1>8, <1>9, <1>10 DEF LogConsistent, Committed

(* Which steps write the log.                                              *)
LEMMA LogSteps ==
    ASSUME LedgerInv, TableStep
    PROVE  \/ Record
           \/ \E t \in targets : Deactivate(t)
           \/ UNCHANGED log
BY DEF TableStep, Quiet, Start, Apply, PersistObservation, CommitResolution, CreateIdentity,
   Promote, ChangeStatus, Merge, Split, Revert, EnqueueMaterialization, Materialized, Record, state

(* A deactivation keeps version and envelope of every record.              *)
LEMMA DeactivateLog ==
    ASSUME LedgerInv, NEW t \in targets, Deactivate(t)
    PROVE  /\ DOMAIN transactions' = DOMAIN transactions
           /\ Len(transactions') = Len(transactions)
           /\ \A n \in DOMAIN transactions :
                 /\ transactions'[n].version = transactions[n].version
                 /\ transactions'[n].envelope = transactions[n].envelope
                 /\ transactions'[n].active => transactions[n].active
           /\ UNCHANGED <<version, transaction_indexes, idempotency>>
<1>1. t \in DOMAIN transaction_indexes /\ LogTypeOK
  BY DEF LedgerInv, TypeOK, ControlTypeOK
<1> QED
  BY <1>1, InactiveLog DEF Deactivate

(* Every step keeps the log and its indexes in agreement.                  *)
LEMMA LogStep == LedgerInv /\ LogConsistent /\ TableStep => LogConsistent'
<1> SUFFICES ASSUME LedgerInv, LogConsistent, TableStep PROVE LogConsistent'
  OBVIOUS
<1>1. TypeOK /\ ValidationHolds /\ LogTypeOK
  BY DEF LedgerInv, TypeOK
<1>2. CASE Record
  BY <1>1, <1>2, LogExtended
<1>3. ASSUME NEW t \in targets, Deactivate(t) PROVE LogConsistent'
  BY <1>1, <1>3, DeactivateLog, LogKept
<1>4. CASE UNCHANGED log
  BY <1>1, <1>4, LogKept DEF log
<1> QED
  BY <1>2, <1>3, <1>4, LogSteps

(* The log, its versions and its two indexes agree in every reachable      *)
(* state: each record is found under its transaction and its key, and      *)
(* neither leads anywhere else.                                            *)
THEOREM LogIsConsistent == Spec => []LogConsistent
<1>1. Init => LogConsistent
  BY DEF Init, Empty, EmptyMap, LogConsistent
<1> QED
  BY <1>1, InitInv, StepInv, NextIsStep, LogStep, PTL DEF Spec

(* No step takes a record out of the log, changes its version or its       *)
(* envelope, or makes a deactivated transaction active again.              *)
LEMMA RecordsKept ==
    ASSUME LedgerInv, TableStep
    PROVE  \A n \in DOMAIN transactions :
               /\ n \in DOMAIN transactions'
               /\ transactions'[n].version = transactions[n].version
               /\ transactions'[n].envelope = transactions[n].envelope
               /\ transactions'[n].active => transactions[n].active
<1>1. CASE Record
  BY <1>1, AppendedLog DEF LedgerInv
<1>2. CASE \E t \in targets : Deactivate(t)
  BY <1>2, DeactivateLog
<1>3. CASE UNCHANGED log
  BY <1>3 DEF log
<1> QED
  BY <1>1, <1>2, <1>3, LogSteps

(* The log only grows, whatever is submitted, refused and reverted.        *)
THEOREM LogOnlyGrows == Spec => LogAppendOnly
BY RecordsKept, InitInv, StepInv, NextIsStep, PTL DEF Spec, LogAppendOnly

-----------------------------------------------------------------------------
(* The envelope of a transaction after the step. *)
CommittedNext(t) == transactions'[transaction_indexes'[t]].envelope

(* The end of apply adds one transaction, which was not there, and leaves  *)
(* the others where they are.                                              *)
LEMMA RecordedTransaction ==
    ASSUME LedgerInv, LogConsistent, Record
    PROVE  LET t == inflight.transaction
               n == Len(transactions) + 1
           IN  /\ inflight \in CommandEnvelope /\ t \notin DOMAIN transaction_indexes
               /\ inflight.depends_on \subseteq DOMAIN transaction_indexes
               /\ n \in Nat /\ next_version = n
               /\ DOMAIN transaction_indexes' = DOMAIN transaction_indexes \cup {t}
               /\ transaction_indexes'[t] = n
               /\ \A u \in DOMAIN transaction_indexes :
                     /\ transaction_indexes'[u] = transaction_indexes[u]
                     /\ transaction_indexes[u] \in 1..Len(transactions)
                     /\ CommittedNext(u) = Committed(u)
               /\ CommittedNext(t) = inflight
<1> DEFINE t == inflight.transaction
           n == Len(transactions) + 1
<1>1. TypeOK /\ ValidationHolds /\ LogTypeOK /\ HeadHolds /\ inflight # None
  BY DEF LedgerInv, TypeOK, Record, ValidationHolds
<1>2. /\ inflight \in CommandEnvelope /\ t \notin DOMAIN transaction_indexes
      /\ inflight.depends_on \subseteq DOMAIN transaction_indexes
      /\ transaction_indexes' = Insert(transaction_indexes, t, n)
  BY <1>1, AppendedLog DEF Record, HeadHolds, NewTransaction
<1>3. n \in Nat /\ next_version = n
  BY <1>1 DEF LogTypeOK, LogConsistent, next_version
<1>4. /\ DOMAIN transaction_indexes' = DOMAIN transaction_indexes \cup {t}
      /\ transaction_indexes'[t] = n
      /\ \A u \in DOMAIN transaction_indexes : transaction_indexes'[u] = transaction_indexes[u]
  BY <1>2 DEF Insert
<1>5. /\ transactions'[n].envelope = inflight
      /\ DOMAIN transactions = 1..Len(transactions)
      /\ \A m \in 1..Len(transactions) : transactions'[m] = transactions[m]
  BY <1>1, AppendedLog
<1>6. \A u \in DOMAIN transaction_indexes : transaction_indexes[u] \in 1..Len(transactions)
  BY <1>1, <1>5 DEF LogTypeOK
<1>7. \A u \in DOMAIN transaction_indexes : CommittedNext(u) = Committed(u)
  BY <1>4, <1>5, <1>6 DEF Committed, CommittedNext
<1>8. CommittedNext(t) = inflight
  BY <1>4, <1>5 DEF CommittedNext
<1> QED
  BY <1>2, <1>3, <1>4, <1>6, <1>7, <1>8

-----------------------------------------------------------------------------
(* What a transaction depends on is in the log. *)
DependenciesRecorded ==
    \A u \in DOMAIN transaction_indexes :
        Committed(u).depends_on \subseteq DOMAIN transaction_indexes

DependentsInv == DependenciesRecorded /\ DependentsInverse

(* The new transaction becomes a dependent of what it depends on; nothing  *)
(* that is there can depend on it.                                         *)
LEMMA DependentsExtended ==
    ASSUME LedgerInv, LogConsistent, DependentsInv, Record
    PROVE  DependentsInv'
<1> DEFINE t == inflight.transaction
           n == Len(transactions) + 1
           known == DOMAIN transaction_indexes
<1>1. /\ t \notin known /\ inflight.depends_on \subseteq known
      /\ n \in Nat /\ DOMAIN transaction_indexes' = known \cup {t}
      /\ transaction_indexes'[t] = n
      /\ \A u \in known : /\ transaction_indexes'[u] = transaction_indexes[u]
                          /\ transaction_indexes[u] \in 1..Len(transactions)
                          /\ CommittedNext(u) = Committed(u)
      /\ CommittedNext(t) = inflight
  BY RecordedTransaction
<1>2. /\ DOMAIN dependents \subseteq known /\ Len(transactions) \in Nat
      /\ \A x \in DOMAIN dependents : dependents[x] \subseteq known
  BY DEF LedgerInv, TypeOK, LogTypeOK
<1>3. /\ DOMAIN dependents' = DOMAIN dependents \cup inflight.depends_on
      /\ \A x \in DOMAIN dependents' :
            dependents'[x] = IF x \in inflight.depends_on THEN Lookup(dependents, x, {}) \cup {t}
                             ELSE dependents[x]
  BY DEF Record, RecordDependents
<1>4. DependenciesRecorded'
  <2>1. \A u \in known \cup {t} : CommittedNext(u).depends_on \subseteq known
    BY <1>1 DEF DependentsInv, DependenciesRecorded
  <2> QED
    BY <1>1, <2>1 DEF DependenciesRecorded, Committed, CommittedNext
<1>5. ASSUME NEW x \in known \cup {t}
      PROVE  Lookup(dependents', x, {}) = {u \in known \cup {t} : x \in CommittedNext(u).depends_on}
  <2>1. CASE x = t
    <3>1. x \notin DOMAIN dependents'
      BY <1>1, <1>2, <1>3, <2>1
    <3>2. \A u \in known \cup {t} : x \notin CommittedNext(u).depends_on
      BY <1>1, <2>1 DEF DependentsInv, DependenciesRecorded
    <3> QED
      BY <3>1, <3>2 DEF Lookup
  <2>2. CASE x \in known
    <3>1. Lookup(dependents, x, {}) = {u \in known : x \in Committed(u).depends_on}
      BY <2>2 DEF DependentsInv, DependentsInverse
    <3>2. {u \in known \cup {t} : x \in CommittedNext(u).depends_on} =
              {u \in known : x \in Committed(u).depends_on}
                  \cup {u \in {t} : x \in inflight.depends_on}
      BY <1>1
    <3>3. Lookup(dependents', x, {}) =
              Lookup(dependents, x, {}) \cup {u \in {t} : x \in inflight.depends_on}
      BY <1>3 DEF Lookup
    <3> QED
      BY <3>1, <3>2, <3>3
  <2> QED
    BY <2>1, <2>2
<1>6. ASSUME NEW x \in DOMAIN dependents', NEW u \in dependents'[x]
      PROVE  transaction_indexes'[x] < transaction_indexes'[u]
  <2>1. x \in known
    BY <1>1, <1>2, <1>3
  <2>2. CASE x \in DOMAIN dependents /\ u \in dependents[x]
    <3>1. transaction_indexes[x] < transaction_indexes[u] /\ u \in known
      BY <1>2, <2>2 DEF DependentsInv, DependentsInverse
    <3> QED
      BY <1>1, <2>1, <3>1
  <2>3. CASE u = t
    BY <1>1, <1>2, <2>1, <2>3
  <2> QED
    BY <1>3, <2>2, <2>3 DEF Lookup
<1>7. DependentsInverse'
  BY <1>1, <1>5, <1>6 DEF DependentsInverse, Committed, CommittedNext
<1> QED
  BY <1>4, <1>7 DEF DependentsInv

(* A deactivation keeps the envelopes, and with them who depends on whom.  *)
LEMMA DependentsKept ==
    ASSUME LedgerInv, DependentsInv, UNCHANGED <<transaction_indexes, dependents>>,
           \A n \in DOMAIN transactions : transactions'[n].envelope = transactions[n].envelope
    PROVE  DependentsInv'
<1>1. \A u \in DOMAIN transaction_indexes : Committed(u)' = Committed(u)
  BY DEF Committed, LedgerInv, TypeOK, LogTypeOK
<1> QED
  BY <1>1 DEF DependentsInv, DependenciesRecorded, DependentsInverse

(* Every step keeps it.                                                    *)
LEMMA DependentsStep ==
    LedgerInv /\ LogConsistent /\ DependentsInv /\ TableStep => DependentsInv'
<1> SUFFICES ASSUME LedgerInv, LogConsistent, DependentsInv, TableStep PROVE DependentsInv'
  OBVIOUS
<1>1. CASE Record
  BY <1>1, DependentsExtended
<1>2. ASSUME NEW t \in targets, Deactivate(t) PROVE DependentsInv'
  BY <1>2, DeactivateLog, DependentsKept DEF Deactivate
<1>3. CASE UNCHANGED log
  BY <1>3, DependentsKept DEF log
<1> QED
  BY <1>1, <1>2, <1>3, LogSteps

(* The reverse index that revert_targets searches is the inverse of        *)
(* depends_on over the whole log, reverted transactions included, and it   *)
(* leads only to later transactions: a cascade misses no dependent.        *)
THEOREM DependentsAreInverse == Spec => []DependentsInverse
<1>1. Init => LogConsistent /\ DependentsInv
  BY DEF Init, Empty, EmptyMap, LogConsistent, DependentsInv, DependenciesRecorded,
     DependentsInverse
<1>2. DependentsInv => DependentsInverse
  BY DEF DependentsInv
<1> QED
  BY <1>1, <1>2, InitInv, StepInv, NextIsStep, LogStep, DependentsStep, PTL DEF Spec

-----------------------------------------------------------------------------
(***************************************************************************)
(* Reverts leave no orphans.                                               *)
(***************************************************************************)
Live == {t \in DOMAIN transaction_indexes : IsActive(t)}

ActiveAfter(t) == Lookup(dependents, t, {}) \cap Live

(* What depends on a reverted transaction is reverted, or is about to be.  *)
NoneLeftBehind ==
    \A u \in Live \ targets :
        ~Reverts(Committed(u)) => Committed(u).depends_on \subseteq Live

TargetsClosed == \A t \in targets : ActiveAfter(t) \subseteq targets

(* What prepare and validate found stays so until it is needed.            *)
DependenciesHold ==
    inflight # None /\ ~Reverts(inflight) => inflight.depends_on \subseteq Live

StrictHolds ==
    inflight # None =>
        \A i \in cursor..Len(inflight.commands) :
            inflight.commands[i].kind = "Revert" /\ inflight.commands[i].mode = "Strict" =>
                ActiveAfter(inflight.commands[i].transaction) = {}

OnlyReverts == targets # {} => inflight # None /\ Reverts(inflight)

OrphanInv == NoneLeftBehind /\ TargetsClosed /\ DependenciesHold /\ StrictHolds /\ OnlyReverts

(* A deactivation takes one transaction out of the active ones.            *)
LEMMA DeactivateLive ==
    ASSUME LedgerInv, LogConsistent, NEW t \in targets, Deactivate(t)
    PROVE  Live' = Live \ {t} /\ t \in DOMAIN transaction_indexes
<1>1. t \in DOMAIN transaction_indexes /\ LogTypeOK
  BY DEF LedgerInv, TypeOK, ControlTypeOK
<1>2. /\ transaction_indexes' = transaction_indexes
      /\ transactions' = [transactions EXCEPT ![transaction_indexes[t]] = Inactive(@)]
      /\ \A x \in DOMAIN transaction_indexes : transaction_indexes[x] \in DOMAIN transactions
  BY <1>1 DEF Deactivate, LogTypeOK
<1>3. ASSUME NEW x \in DOMAIN transaction_indexes
      PROVE  IsActive(x)' <=> IsActive(x) /\ x # t
  <2>1. CASE x = t
    <3> DEFINE T == [version: 1..MaxVersion, envelope: CommandEnvelope, active: BOOLEAN]
    <3>1. transactions \in Seq(T) /\ transaction_indexes[t] \in DOMAIN transactions
      BY <1>1, <1>2 DEF LogTypeOK
    <3> HIDE DEF T
    <3>2. transactions[transaction_indexes[t]] \in T
      BY <3>1
    <3>3. ~Inactive(transactions[transaction_indexes[t]]).active
      BY <3>2 DEF Inactive, T
    <3>4. ~transactions'[transaction_indexes[t]].active
      BY <1>2, <3>1, <3>3
    <3> QED
      BY <1>2, <2>1, <3>4 DEF IsActive
  <2>2. CASE x # t
    <3>1. transaction_indexes[x] # transaction_indexes[t]
      BY <1>1, <2>2 DEF LogConsistent, Committed
    <3>2. transactions'[transaction_indexes[x]] = transactions[transaction_indexes[x]]
      BY <1>2, <3>1
    <3> QED
      BY <1>2, <2>2, <3>2 DEF IsActive
  <2> QED
    BY <2>1, <2>2
<1> QED
  BY <1>1, <1>2, <1>3 DEF Live

(* The targets of a deactivation hold the active dependents of the one it  *)
(* takes, so that none of them is left behind.                             *)
LEMMA DeactivateOrphans ==
    ASSUME LedgerInv, LogConsistent, DependentsInv, OrphanInv, NEW t \in targets, Deactivate(t)
    PROVE  OrphanInv'
<1>1. Live' = Live \ {t} /\ t \in DOMAIN transaction_indexes
  BY DeactivateLive
<1>2. /\ targets' = targets \ {t} /\ inflight' = inflight
      /\ UNCHANGED <<transaction_indexes, dependents>> /\ cursor' \in {cursor, cursor + 1}
      /\ cursor \in Nat
  BY DEF Deactivate, LedgerInv, TypeOK, ControlTypeOK
<1>3. \A u \in DOMAIN transaction_indexes : Committed(u)' = Committed(u)
  BY DeactivateLog DEF Committed, LedgerInv, TypeOK, LogTypeOK
<1>4. \A x : ActiveAfter(x)' = ActiveAfter(x) \ {t}
  BY <1>1, <1>2 DEF ActiveAfter
<1>5. inflight # None /\ Reverts(inflight)
  BY DEF OrphanInv, OnlyReverts
<1>6. NoneLeftBehind'
  <2> SUFFICES ASSUME NEW u \in Live, u # t, u \notin targets, ~Reverts(Committed(u))
               PROVE  t \notin Committed(u).depends_on /\ Committed(u).depends_on \subseteq Live
    BY <1>1, <1>2, <1>3 DEF NoneLeftBehind, Live
  <2>1. Committed(u).depends_on \subseteq Live
    BY DEF OrphanInv, NoneLeftBehind
  <2>2. ASSUME t \in Committed(u).depends_on PROVE FALSE
    <3>1. u \in Lookup(dependents, t, {})
      BY <1>1, <2>2 DEF DependentsInv, DependentsInverse, Live
    <3> QED
      BY <3>1 DEF OrphanInv, TargetsClosed, ActiveAfter
  <2> QED
    BY <2>1, <2>2
<1>7. TargetsClosed'
  BY <1>2, <1>4 DEF OrphanInv, TargetsClosed
<1>8. StrictHolds'
  <2> SUFFICES ASSUME NEW i \in cursor'..Len(inflight.commands),
                      inflight.commands[i].kind = "Revert", inflight.commands[i].mode = "Strict"
               PROVE  Lookup(dependents, inflight.commands[i].transaction, {}) \cap Live' = {}
    BY <1>2 DEF StrictHolds, ActiveAfter
  <2>1. Len(inflight.commands) \in Nat
    BY <1>5, InFlight, EnvelopeFields DEF LedgerInv
  <2>2. i \in cursor..Len(inflight.commands)
    BY <1>2, <2>1
  <2> QED
    BY <1>1, <1>5, <2>2 DEF OrphanInv, StrictHolds, ActiveAfter
<1>9. DependenciesHold' /\ OnlyReverts'
  BY <1>2, <1>5 DEF DependenciesHold, OnlyReverts, Reverts
<1> QED
  BY <1>6, <1>7, <1>8, <1>9 DEF OrphanInv

(* A cascade aims at all that is reached from its transaction, a strict    *)
(* revert at one without active dependents.                                *)
LEMMA RevertOrphans ==
    ASSUME LedgerInv, OrphanInv, Revert
    PROVE  OrphanInv'
<1>1. /\ inflight # None /\ cursor \in DOMAIN inflight.commands /\ targets = {}
      /\ command.kind = "Revert" /\ inflight' = inflight /\ cursor' \in {cursor, cursor + 1}
      /\ UNCHANGED <<transaction_indexes, dependents, transactions>>
  BY DEF Revert, Applying, Advance, state, log
<1>2. /\ inflight.commands \in Seq(Command) /\ Len(inflight.commands) \in Nat
      /\ cursor \in 1..Len(inflight.commands) /\ command \in Command
  BY <1>1, InFlight, EnvelopeFields DEF LedgerInv, command
<1>3. Live' = Live /\ \A x : ActiveAfter(x)' = ActiveAfter(x)
  BY <1>1 DEF Live, IsActive, ActiveAfter
<1>4. \A u : Committed(u)' = Committed(u)
  BY <1>1 DEF Committed
<1>5. NoneLeftBehind'
  BY <1>1, <1>3, <1>4 DEF OrphanInv, NoneLeftBehind
<1>6. StrictHolds' /\ DependenciesHold'
  <2>1. DependenciesHold'
    BY <1>1, <1>3 DEF OrphanInv, DependenciesHold
  <2>2. \A i \in cursor'..Len(inflight.commands) : i \in cursor..Len(inflight.commands)
    BY <1>1, <1>2
  <2>3. StrictHolds'
    BY <1>1, <1>3, <2>2 DEF OrphanInv, StrictHolds, ActiveAfter
  <2> QED
    BY <2>1, <2>3
<1>7. CASE command.mode = "Compensating"
  BY <1>1, <1>7, <1>5, <1>6 DEF Revert, Advance, OrphanInv, TargetsClosed, OnlyReverts
<1>8. CASE command.mode # "Compensating"
  <2>1. targets' = RevertTargets(command.transaction, command.mode)
    BY <1>8 DEF Revert
  <2>2. OnlyReverts'
    BY <1>1, <1>2, <1>8 DEF OnlyReverts, Reverts, command
  <2>3. CASE command.mode = "Cascade"
    <3>1. ASSUME NEW t \in targets', NEW u \in ActiveAfter(t) PROVE u \in targets'
      <4>1. t \in DOMAIN dependents /\ u \in dependents[t]
        BY <3>1 DEF ActiveAfter, Lookup
      <4>2. <<t, u>> \in Dependence
        BY <4>1 DEF Dependence
      <4>3. targets' = Reachable(command.transaction, Dependence)
        BY <2>1, <2>3 DEF RevertTargets
      <4> DEFINE edge == <<t, u>>
      <4>4. edge \in Dependence /\ edge[1] \in Reachable(command.transaction, Dependence)
        BY <3>1, <4>2, <4>3
      <4>5. edge[2] \in Reachable(command.transaction, Dependence)
        BY <4>4, ReachableClosed
      <4> QED
        BY <4>3, <4>5
    <3> QED
      BY <1>3, <1>5, <1>6, <2>2, <3>1 DEF OrphanInv, TargetsClosed
  <2>4. CASE command.mode # "Cascade"
    <3>1. command.mode = "Strict" /\ targets' = {command.transaction}
      <4>1. command.mode \in RevertMode
        BY <1>1, <1>2, CommandFields
      <4> QED
        BY <1>8, <2>1, <2>4, <4>1 DEF RevertTargets, RevertMode
    <3>2. ActiveAfter(command.transaction) = {}
      <4>1. cursor \in cursor..Len(inflight.commands)
        BY <1>2
      <4>2. \A i \in cursor..Len(inflight.commands) :
                inflight.commands[i].kind = "Revert" /\ inflight.commands[i].mode = "Strict" =>
                    ActiveAfter(inflight.commands[i].transaction) = {}
        BY <1>1 DEF OrphanInv, StrictHolds
      <4>3. command = inflight.commands[cursor]
        BY DEF command
      <4> QED
        BY <1>1, <3>1, <4>1, <4>2, <4>3
    <3>3. TargetsClosed'
      BY <1>3, <3>1, <3>2 DEF TargetsClosed
    <3> QED
      BY <1>5, <1>6, <2>2, <3>3 DEF OrphanInv
  <2> QED
    BY <2>3, <2>4
<1> QED
  BY <1>7, <1>8

(* A transaction that is recorded depends on active ones.                  *)
LEMMA RecordOrphans ==
    ASSUME LedgerInv, LogConsistent, OrphanInv, Record
    PROVE  OrphanInv'
<1> DEFINE t == inflight.transaction
<1>1. /\ t \notin DOMAIN transaction_indexes
      /\ DOMAIN transaction_indexes' = DOMAIN transaction_indexes \cup {t}
      /\ \A u \in DOMAIN transaction_indexes : CommittedNext(u) = Committed(u)
      /\ CommittedNext(t) = inflight
  BY RecordedTransaction
<1>2. inflight # None /\ inflight' = None /\ targets = {} /\ targets' = {}
  BY DEF Record
<1>3. Live \subseteq Live' /\ Live' \subseteq Live \cup {t}
  <2>1. LogTypeOK /\ TypeOK /\ ValidationHolds
    BY DEF LedgerInv, TypeOK
  <2>2. \A u \in DOMAIN transaction_indexes :
            /\ transaction_indexes'[u] = transaction_indexes[u]
            /\ transaction_indexes[u] \in 1..Len(transactions)
    BY RecordedTransaction
  <2>3. \A m \in 1..Len(transactions) : transactions'[m] = transactions[m]
    BY <1>2, <2>1, AppendedLog DEF Record, ValidationHolds
  <2> QED
    BY <1>1, <2>2, <2>3 DEF Live, IsActive
<1>4. ASSUME NEW u \in Live', ~Reverts(CommittedNext(u))
      PROVE  CommittedNext(u).depends_on \subseteq Live'
  <2>1. CASE u \in Live
    BY <1>1, <1>2, <1>3, <1>4, <2>1 DEF OrphanInv, NoneLeftBehind, Live
  <2>2. CASE u = t
    BY <1>1, <1>2, <1>3, <1>4, <2>2 DEF OrphanInv, DependenciesHold
  <2> QED
    BY <1>3, <2>1, <2>2
<1>5. NoneLeftBehind'
  BY <1>4 DEF NoneLeftBehind, CommittedNext, Committed
<1> QED
  BY <1>2, <1>5 DEF OrphanInv, TargetsClosed, DependenciesHold, StrictHolds, OnlyReverts

(* What prepare and validate find when they accept.                        *)
LEMMA StartOrphans ==
    ASSUME LedgerInv, OrphanInv, NEW e \in CommandEnvelope, Start(e)
    PROVE  OrphanInv'
<1>1. /\ inflight = None /\ inflight' = e /\ cursor' = 1 /\ targets' = targets /\ Valid(e)
      /\ UNCHANGED <<transaction_indexes, dependents, transactions>>
  BY DEF Start, state, log
<1>2. targets = {}
  BY <1>1 DEF OrphanInv, OnlyReverts
<1>3. /\ Live' = Live /\ \A x : ActiveAfter(x)' = ActiveAfter(x)
      /\ \A u : Committed(u)' = Committed(u)
  BY <1>1 DEF Live, IsActive, ActiveAfter, Committed
<1>4. e.depends_on \subseteq Live
  BY <1>1 DEF Valid, DependenciesActive, Live, IsActive
<1>5. ASSUME NEW i \in 1..Len(e.commands), e.commands[i].kind = "Revert",
             e.commands[i].mode = "Strict"
      PROVE  ActiveAfter(e.commands[i].transaction) = {}
  <2>1. i \in DOMAIN e.commands
    BY EnvelopeFields
  <2>2. ValidRevert(e, i)
    BY <1>1, <1>5, <2>1 DEF Valid, CommandsValid, ValidCommand
  <2> QED
    BY <1>5, <2>2 DEF ValidRevert, ActiveDependents, ActiveAfter, Live
<1>6. StrictHolds'
  BY <1>1, <1>3, <1>5 DEF StrictHolds
<1>7. NoneLeftBehind' /\ TargetsClosed' /\ DependenciesHold' /\ OnlyReverts'
  BY <1>1, <1>2, <1>3, <1>4
     DEF OrphanInv, NoneLeftBehind, TargetsClosed, DependenciesHold, OnlyReverts
<1> QED
  BY <1>6, <1>7 DEF OrphanInv

(* The other steps leave the log and the targets alone.                    *)
LEMMA SameOrphans ==
    ASSUME LedgerInv, OrphanInv,
           UNCHANGED <<transaction_indexes, dependents, transactions, targets, inflight>>,
           cursor' \in {cursor, cursor + 1}
    PROVE  OrphanInv'
<1>1. /\ Live' = Live /\ \A x : ActiveAfter(x)' = ActiveAfter(x)
      /\ \A u : Committed(u)' = Committed(u)
  BY DEF Live, IsActive, ActiveAfter, Committed
<1>2. NoneLeftBehind' /\ TargetsClosed' /\ DependenciesHold' /\ OnlyReverts'
  BY <1>1 DEF OrphanInv, NoneLeftBehind, TargetsClosed, DependenciesHold, OnlyReverts
<1>3. StrictHolds'
  <2>1. cursor \in Nat /\ (inflight # None => Len(inflight.commands) \in Nat)
    BY InFlight, EnvelopeFields DEF LedgerInv, TypeOK, ControlTypeOK
  <2>2. SUFFICES ASSUME inflight # None, NEW i \in cursor'..Len(inflight.commands),
                        inflight.commands[i].kind = "Revert", inflight.commands[i].mode = "Strict"
                 PROVE  ActiveAfter(inflight.commands[i].transaction) = {}
    BY <1>1 DEF StrictHolds
  <2>3. i \in cursor..Len(inflight.commands)
    BY <2>1, <2>2
  <2> QED
    BY <2>2, <2>3 DEF OrphanInv, StrictHolds
<1> QED
  BY <1>2, <1>3 DEF OrphanInv

(* Every step keeps it.                                                    *)
LEMMA OrphanStep ==
    LedgerInv /\ LogConsistent /\ DependentsInv /\ OrphanInv /\ TableStep => OrphanInv'
<1> SUFFICES ASSUME LedgerInv, LogConsistent, DependentsInv, OrphanInv, TableStep
             PROVE  OrphanInv'
  OBVIOUS
<1> DEFINE Changes == \E kind \in {"Dormant", "Reactivate", "Retire"} : ChangeStatus(kind)
<1>1. CASE Quiet
  <2>1. UNCHANGED <<transaction_indexes, dependents, transactions, targets, inflight, cursor>>
    BY <1>1 DEF Quiet, state, log
  <2> QED
    BY <2>1, SameOrphans
<1>2. ASSUME NEW e \in CommandEnvelope, Start(e) PROVE OrphanInv'
  BY <1>2, StartOrphans
<1>3. CASE \/ PersistObservation \/ CommitResolution \/ CreateIdentity \/ Promote \/ Changes
           \/ Merge \/ Split \/ EnqueueMaterialization \/ Materialized
  <2>1. /\ UNCHANGED <<transaction_indexes, dependents, transactions, targets, inflight>>
        /\ cursor' = cursor + 1
    BY <1>3 DEF PersistObservation, CommitResolution, CreateIdentity, Promote, ChangeStatus,
       Merge, Split, EnqueueMaterialization, Materialized, Advance, log
  <2> QED
    BY <2>1, SameOrphans
<1>4. CASE Revert
  BY <1>4, RevertOrphans
<1>5. ASSUME NEW t \in targets, Deactivate(t) PROVE OrphanInv'
  BY <1>5, DeactivateOrphans
<1>6. CASE Record
  BY <1>6, RecordOrphans
<1> QED
  BY <1>1, <1>2, <1>3, <1>4, <1>5, <1>6 DEF TableStep, Apply

(* Between commits, an active transaction that reverted nothing itself     *)
(* depends on active ones alone: strict reverts are refused while there    *)
(* are active dependents, and a cascade takes all of them along.           *)
THEOREM RevertsLeaveNoOrphans == Spec => []NoOrphans
<1>1. Init => LogConsistent /\ DependentsInv /\ OrphanInv
  BY DEF Init, Empty, EmptyMap, LogConsistent, DependentsInv, DependenciesRecorded,
     DependentsInverse,
         OrphanInv, NoneLeftBehind, TargetsClosed, DependenciesHold, StrictHolds, OnlyReverts, Live
<1>2. LogConsistent /\ OrphanInv => NoOrphans
  <2> SUFFICES ASSUME LogConsistent, OrphanInv, Settled, NEW n \in DOMAIN transactions,
                      transactions[n].active, ~Reverts(transactions[n].envelope)
               PROVE  DependenciesActive(transactions[n].envelope)
    BY DEF NoOrphans
  <2> DEFINE u == transactions[n].envelope.transaction
  <2>1. u \in DOMAIN transaction_indexes /\ transaction_indexes[u] = n
    BY DEF LogConsistent
  <2>2. u \in Live /\ Committed(u) = transactions[n].envelope /\ targets = {}
    BY <2>1 DEF Live, IsActive, Committed, OrphanInv, OnlyReverts, Settled
  <2> QED
    BY <2>2 DEF OrphanInv, NoneLeftBehind, DependenciesActive, Live
<1> QED
  BY <1>1, <1>2, InitInv, StepInv, NextIsStep, LogStep, DependentsStep, OrphanStep, PTL DEF Spec

-----------------------------------------------------------------------------
(***************************************************************************)
(* The log as its clients see it: the refinement mapping of Contract.      *)
(***************************************************************************)
Entries == [n \in DOMAIN transactions |-> transactions[n].envelope]

(* The entries are a sequence of envelopes, one per record.                *)
LEMMA EntriesAreEnvelopes ==
    ASSUME LogTypeOK
    PROVE  /\ Entries \in Seq(CommandEnvelope) /\ Len(Entries) = Len(transactions)
           /\ DOMAIN Entries = 1..Len(transactions) /\ Len(transactions) \in Nat
<1> DEFINE T == [version: 1..MaxVersion, envelope: CommandEnvelope, active: BOOLEAN]
           n == Len(transactions)
<1>1. transactions \in Seq(T) /\ n \in Nat /\ DOMAIN transactions = 1..n
  BY DEF LogTypeOK
<1> HIDE DEF T
<1>2. \A m \in 1..n : transactions[m] \in T
  BY <1>1
<1>3. Entries \in [1..n -> CommandEnvelope]
  <2>1. \A m \in 1..n : transactions[m].envelope \in CommandEnvelope
    BY <1>2 DEF T
  <2> QED
    BY <1>1, <2>1 DEF Entries
<1> QED
  BY <1>1, <1>3

(* A step that keeps the envelopes keeps the entries.                      *)
LEMMA EntriesKept ==
    ASSUME DOMAIN transactions' = DOMAIN transactions,
           \A n \in DOMAIN transactions : transactions'[n].envelope = transactions[n].envelope
    PROVE  Entries' = Entries
BY DEF Entries

(* The empty ledger is the empty log.                                      *)
LEMMA ContractInit == Init => Contract!Init
<1> SUFFICES ASSUME Init PROVE Contract!Init
  OBVIOUS
<1>1. transactions = <<>> /\ outcome = Answer("None", 0, None)
  BY DEF Init, Empty
<1>2. Entries = <<>>
  BY <1>1 DEF Entries
<1> QED
  BY <1>1, <1>2 DEF Contract!Init, Contract!Reply, Answer, Entries

(* prepare's answers: a replay names the record of the very envelope and   *)
(* its version, and an error grants nothing.                               *)
LEMMA PrepareAnswers ==
    ASSUME LedgerInv, LogConsistent, NEW e \in CommandEnvelope, Answered(e)
    PROVE  /\ UNCHANGED <<state, inflight>>
           /\ \/ \E n \in DOMAIN transactions :
                    /\ transactions[n].envelope = e
                    /\ outcome' = Answer("Replayed", n, e)
              \/ outcome'.result \notin {"Committed", "Replayed"}
<1>1. UNCHANGED <<state, inflight>>
  BY DEF Answered, Replay, Refuse, IdempotencyCollision, VersionConflict, DuplicateTransaction,
         VersionExhausted, MissingDependency, InvalidCommand
<1>2. CASE Replay(e)
  <2> DEFINE k == e.idempotency
             n == idempotency[k].version
             t == idempotency[k].transaction
  <2>1. /\ k \in DOMAIN idempotency /\ outcome' = Answer("Replayed", n, e)
        /\ transactions[transaction_indexes[t]].envelope = e
    BY <1>2 DEF Replay, FreshKey, Recorded
  <2>2. t \in DOMAIN transaction_indexes /\ transaction_indexes[t] \in DOMAIN transactions
    BY <2>1 DEF LedgerInv, TypeOK, LogTypeOK
  <2>3. n = transaction_indexes[t]
    <3>1. idempotency[e.idempotency] =
              [version |-> transaction_indexes[t], transaction |-> e.transaction]
      BY <2>1, <2>2 DEF LogConsistent
    <3> QED
      BY <3>1
  <2> QED
    BY <1>1, <2>1, <2>2, <2>3
<1>3. CASE \E error \in {"IdempotencyCollision", "VersionConflict", "DuplicateTransaction",
                         "VersionExhausted", "MissingDependency", "InvalidCommand"} : Refuse(error)
  BY <1>1, <1>3 DEF Refuse, Answer
<1> QED
  BY <1>2, <1>3 DEF Answered, IdempotencyCollision, VersionConflict, DuplicateTransaction,
                    VersionExhausted, MissingDependency, InvalidCommand

(* They are answers of the log.                                            *)
LEMMA PrepareIsAnswer ==
    ASSUME LedgerInv, LogConsistent, Prepare
    PROVE  Contract!Next
<1>1. PICK e \in CommandEnvelope : Answered(e)
  BY LedgerAssumption DEF Prepare
<1>2. Entries' = Entries
  BY <1>1, PrepareAnswers DEF Entries, state, log
<1>3. CASE outcome'.result \notin {"Committed", "Replayed"}
  BY <1>2, <1>3 DEF Contract!Next, Contract!NoGrant, Contract!Granted, Entries
<1>4. ASSUME NEW n \in DOMAIN transactions, transactions[n].envelope = e,
             outcome' = Answer("Replayed", n, e)
      PROVE  Contract!Next
  <2>1. n \in DOMAIN Entries /\ Entries[n] = e
    BY <1>4 DEF Entries
  <2>2. Contract!Grant(n)
    BY <1>2, <1>4, <2>1 DEF Contract!Grant, Contract!Granted, Contract!Reply, Answer, Entries
  <2> QED
    BY <2>1, <2>2 DEF Contract!Next, Entries
<1> QED
  BY <1>1, <1>3, <1>4, PrepareAnswers

(* What is being applied was submitted.                                    *)
Submitted == inflight \in Envelope \cup {None}

LEMMA SubmittedStep == Submitted /\ [Next]_vars => Submitted'
BY DEF Submitted, Next, Prepare, Answered, Refuse, Replay, IdempotencyCollision, VersionConflict,
   DuplicateTransaction, VersionExhausted, MissingDependency, InvalidCommand, Accept, Start,
   Apply, PersistObservation, CommitResolution, CreateIdentity, Promote, ChangeStatus, Merge, Split,
   Revert, Deactivate, EnqueueMaterialization, Materialized, Advance, Publish, Record, vars, control

(* The end of a commit adds the entry, whose key and transaction are new   *)
(* and whose dependencies are there, and tells the caller its version.     *)
LEMMA PublishIsAdd ==
    ASSUME LedgerInv, LogConsistent, Submitted, Publish
    PROVE  Contract!Next
<1> DEFINE n == Len(transactions)
<1>1. /\ LogTypeOK /\ TypeOK /\ ValidationHolds /\ HeadHolds /\ Record
      /\ outcome' = Answer("Committed", next_version, inflight)
  BY DEF Publish, Record, LedgerInv, TypeOK, ValidationHolds
<1>2. /\ inflight \in CommandEnvelope /\ next_version = n + 1
      /\ inflight.transaction \notin DOMAIN transaction_indexes
      /\ inflight.depends_on \subseteq DOMAIN transaction_indexes
      /\ \A u \in DOMAIN transaction_indexes : transaction_indexes[u] \in 1..n
  BY <1>1, RecordedTransaction
<1>3. /\ Entries \in Seq(CommandEnvelope) /\ Len(Entries) = n /\ n \in Nat
      /\ DOMAIN Entries = 1..n /\ DOMAIN transactions = 1..n
      /\ \A m \in 1..n : Entries[m] = transactions[m].envelope
  BY <1>1, EntriesAreEnvelopes DEF Entries
<1>4. n < MaxVersion /\ inflight.expected_version = n
  BY <1>1 DEF HeadHolds, VersionLeft, SnapshotCurrent, LogConsistent
<1>5. \A m \in 1..n : /\ Entries[m].idempotency # inflight.idempotency
                      /\ Entries[m].transaction # inflight.transaction
  <2>1. \A m \in 1..n : /\ transactions[m].envelope.idempotency \in DOMAIN idempotency
                        /\ transactions[m].envelope.transaction \in DOMAIN transaction_indexes
    BY <1>3 DEF LogConsistent
  <2>2. inflight.idempotency \notin DOMAIN idempotency
    BY <1>1 DEF HeadHolds, FreshKey
  <2> QED
    BY <1>2, <1>3, <2>1, <2>2
<1>6. \A t \in inflight.depends_on : \E m \in 1..n : Entries[m].transaction = t
  BY <1>2, <1>3 DEF LogConsistent, Committed
<1>7. Entries' = Append(Entries, inflight)
  <2>1. LogTypeOK' /\ Len(transactions') = n + 1
        /\ transactions'[n + 1].envelope = inflight
        /\ \A m \in 1..n : transactions'[m] = transactions[m]
        /\ DOMAIN transactions' = 1..(n + 1)
    BY <1>1, AppendedLog, NextIsStep, StepInv DEF Next, LedgerInv, TypeOK
  <2>2. /\ Entries' \in [1..(n + 1) -> CommandEnvelope] /\ Entries'[n + 1] = inflight
        /\ \A m \in 1..n : Entries'[m] = Entries[m]
    <3>1. Entries' = [m \in 1..(n + 1) |-> transactions'[m].envelope]
      BY <2>1 DEF Entries
    <3>2. /\ n + 1 \in 1..(n + 1) /\ 1..n \subseteq 1..(n + 1)
          /\ \A m \in 1..(n + 1) : m \in 1..n \/ m = n + 1
      BY <1>3
    <3>3. /\ Entries'[n + 1] = inflight
          /\ \A m \in 1..n : Entries'[m] = Entries[m]
      BY <1>3, <2>1, <3>1, <3>2
    <3>4. \A m \in 1..(n + 1) : Entries'[m] \in CommandEnvelope
      BY <1>2, <1>3, <3>2, <3>3
    <3> QED
      BY <3>1, <3>3, <3>4
  <2>3. Entries' \in Seq(CommandEnvelope) /\ Len(Entries') = n + 1
    BY <1>3, <2>2
  <2>4. /\ Append(Entries, inflight) \in Seq(CommandEnvelope)
        /\ Len(Append(Entries, inflight)) = n + 1
        /\ Append(Entries, inflight)[n + 1] = inflight
        /\ \A m \in 1..n : Append(Entries, inflight)[m] = Entries[m]
    BY <1>2, <1>3
  <2>5. \A m \in 1..(n + 1) : Entries'[m] = Append(Entries, inflight)[m]
    BY <1>3, <2>2, <2>4
  <2> QED
    BY <2>3, <2>4, <2>5, SeqEqual
<1>8. outcome' = Contract!Reply("Committed", Len(Entries) + 1, inflight)
  BY <1>1, <1>2, <1>3 DEF Contract!Reply, Answer
<1>9. PICK e \in Envelope : e = inflight
  BY <1>1 DEF Submitted, Record
<1>10. Contract!Add(e)
  BY <1>3, <1>4, <1>5, <1>6, <1>7, <1>8, <1>9 DEF Contract!Add, Entries
<1> QED
  BY <1>10 DEF Contract!Next

(* Every step of the ledger is a step of the log, or none: what apply does *)
(* before the end of a commit, its clients cannot tell.                    *)
LEMMA ContractStep ==
    LedgerInv /\ LogConsistent /\ Submitted /\ [Next]_vars => [Contract!Next]_Contract!logvars
<1> SUFFICES ASSUME LedgerInv, LogConsistent, Submitted, [Next]_vars
             PROVE  Contract!Next \/ (Entries' = Entries /\ outcome' = outcome)
  BY DEF Contract!logvars, Entries
<1>1. CASE Prepare
  BY <1>1, PrepareIsAnswer
<1>2. CASE \E e \in Envelope : Accept(e)
  <2>1. outcome'.result = "Pending" /\ UNCHANGED transactions
    BY <1>2 DEF Accept, Start, Answer, state, log
  <2> QED
    BY <2>1 DEF Contract!Next, Contract!NoGrant, Contract!Granted
<1>3. CASE Apply
  <2>1. outcome' = outcome /\ (UNCHANGED log \/ \E t \in targets : Deactivate(t))
    BY <1>3 DEF Apply, PersistObservation, CommitResolution, CreateIdentity, Promote, ChangeStatus,
                Merge, Split, Revert, Deactivate, EnqueueMaterialization, Materialized, Advance,
                state
  <2>2. Entries' = Entries
    BY <2>1, DeactivateLog, EntriesKept DEF log
  <2> QED
    BY <2>1, <2>2
<1>4. CASE Publish
  BY <1>4, PublishIsAdd
<1>5. CASE UNCHANGED vars
  BY <1>5 DEF vars, state, log, control, Entries
<1> QED
  BY <1>1, <1>2, <1>3, <1>4, <1>5 DEF Next

(* MemoryLedger implements the append-only log: every answer is true of    *)
(* it, whatever commits and reverts went before.                           *)
THEOREM LedgerImplementsLog == Spec => ImplementsLog
<1>1. Init => LogConsistent /\ Submitted
  BY DEF Init, Empty, EmptyMap, LogConsistent, Submitted
<1> QED
  BY <1>1, ContractInit, ContractStep, SubmittedStep, InitInv, NextIsStep, StepInv, LogStep, PTL
     DEF Spec, ImplementsLog, Contract!Spec

-----------------------------------------------------------------------------
(* Evidence. *)

(* Observations are written by one command only, and never twice, since    *)
(* no command persists one that is there.                                  *)
LEMMA EvidenceKept ==
    ASSUME LedgerInv, TableStep
    PROVE  \A o \in DOMAIN observations :
               /\ o \in DOMAIN observations'
               /\ observations'[o] = observations[o]
               /\ observation_commits'[o] = observation_commits[o]
<1>1. CASE PersistObservation
  <2>1. command.observation \notin DOMAIN observations
    BY <1>1, InFlight DEF PersistObservation, Applying, LedgerInv, EvidenceHolds, command
  <2> QED
    BY <1>1, <2>1 DEF PersistObservation, Insert, LedgerInv, TypeOK, EvidenceTypeOK
<1>2. CASE ~PersistObservation
  <2>1. UNCHANGED evidence
    BY <1>2 DEF TableStep, Quiet, Start, Apply, CommitResolution, CreateIdentity, Promote,
       ChangeStatus, Merge, Split, Revert, Deactivate, EnqueueMaterialization, Materialized, Record,
       state
  <2> QED
    BY <2>1 DEF evidence
<1> QED
  BY <1>1, <1>2

(* No step changes an observation or the version that persisted it.        *)
THEOREM EvidenceIsImmutable == Spec => EvidenceImmutable
BY EvidenceKept, InitInv, StepInv, NextIsStep, PTL DEF Spec, EvidenceImmutable

-----------------------------------------------------------------------------
(* Merge records. *)

(* Ending an interval that is open, or that this commit has ended before,  *)
(* does not move the end of a closed one.                                  *)
LEMMA EndAtAgain ==
    ASSUME NEW validity \in Validity, NEW n \in 1..MaxVersion,
           IsOpen(validity) \/ validity.end = n
    PROVE  /\ EndAt(validity, n).begin = validity.begin
           /\ ~IsOpen(validity) => EndAt(validity, n) = validity
BY DEF EndAt, IsOpen, Validity

MergeFrozen(d) ==
    /\ d \in DOMAIN merges'
    /\ merges'[d] = [merges[d] EXCEPT !.validity = merges'[d].validity]
    /\ merges'[d].validity.begin = merges[d].validity.begin
    /\ ~IsOpen(merges[d].validity) => merges'[d] = merges[d]

(* Merge adds a record under a fresh decision; Split and Revert end open   *)
(* merges, and a merge this commit has ended before is ended again at the  *)
(* same version.                                                           *)
LEMMA MergesFrozen ==
    ASSUME LedgerInv, TableStep
    PROVE  \A d \in DOMAIN merges : MergeFrozen(d)
<1> SUFFICES ASSUME NEW d \in DOMAIN merges PROVE MergeFrozen(d)
  OBVIOUS
<1> DEFINE R == [left: DOMAIN identities, right: DOMAIN identities,
                 validity: Validity, transaction: Transaction]
<1>1. merges \in [DOMAIN merges -> R] /\ merges[d] \in R /\ merges[d].validity \in Validity
  BY DEF LedgerInv, TypeOK, IdentityTypeOK
<1>2. ASSUME merges' = merges PROVE MergeFrozen(d)
  BY <1>1, <1>2 DEF MergeFrozen
<1>3. ASSUME NEW S, merges' = CloseMerges(S), next_version \in 1..MaxVersion,
             d \in S => IsOpen(merges[d].validity) \/ merges[d].validity.end = next_version
      PROVE  MergeFrozen(d)
  <2>1. CASE d \in S
    <3>1. merges'[d] = [merges[d] EXCEPT !.validity = EndAt(@, next_version)]
          /\ d \in DOMAIN merges'
      BY <1>3, <2>1 DEF CloseMerges
    <3> QED
      BY <1>1, <1>3, <2>1, <3>1, EndAtAgain DEF MergeFrozen
  <2>2. CASE d \notin S
    BY <1>1, <1>3, <2>2 DEF CloseMerges, MergeFrozen
  <2> QED
    BY <2>1, <2>2
<1>4. CASE Merge
  <2>1. command.decision \notin DOMAIN merges
    BY <1>4, InFlight DEF Merge, Applying, LedgerInv, MergeHolds, command
  <2>2. d \in DOMAIN merges' /\ merges'[d] = merges[d]
    BY <1>4, <2>1 DEF Merge, Insert
  <2> QED
    BY <1>1, <2>2 DEF MergeFrozen
<1>5. CASE Split
  <2>1. SplitHolds(cursor) /\ next_version \in 1..MaxVersion /\ command.kind = "Split"
    BY <1>5, InFlight DEF Split, Applying, LedgerInv
  <2>2. merges' = CloseMerges(command.close_merges)
    BY <1>5 DEF Split
  <2>3. d \in command.close_merges =>
            IsOpen(merges[d].validity) \/ merges[d].validity.end = next_version
    BY <2>1 DEF SplitHolds, command
  <2> QED
    BY <1>3, <2>1, <2>2, <2>3
<1>6. ASSUME NEW t \in targets, Deactivate(t) PROVE MergeFrozen(d)
  <2>1. next_version \in 1..MaxVersion
    BY <1>6, InFlight DEF LedgerInv, ValidationHolds
  <2>2. merges' = CloseMerges(OpenMergesOf(t))
    BY <1>6 DEF Deactivate
  <2>3. d \in OpenMergesOf(t) => IsOpen(merges[d].validity)
    BY DEF OpenMergesOf
  <2> QED
    BY <1>3, <2>1, <2>2, <2>3
<1>7. CASE ~(Merge \/ Split \/ \E t \in targets : Deactivate(t))
  <2>1. merges' = merges
    BY <1>7 DEF TableStep, Quiet, Start, Apply, PersistObservation, CommitResolution,
       CreateIdentity, Promote, ChangeStatus, Revert, EnqueueMaterialization, Materialized, Record,
       state, identity_index
  <2> QED
    BY <1>2, <2>1
<1> QED
  BY <1>4, <1>5, <1>6, <1>7

(* A merge keeps its endpoints and its beginning, and its end once it has  *)
(* one, whatever a Split or a Revert closes later.                         *)
THEOREM MergesAreHistory == Spec => MergeHistoryFrozen
<1>1. LedgerInv /\ TableStep => \A d \in DOMAIN merges : MergeFrozen(d)
  BY MergesFrozen
<1> QED
  BY <1>1, InitInv, StepInv, NextIsStep, PTL DEF Spec, MergeHistoryFrozen, MergeFrozen

-----------------------------------------------------------------------------
(* Inferences. *)

(* A current pointer names an open inference of its own observation, so    *)
(* that close_current, which ends what a pointer names, ends open records  *)
(* only, and no other observation's.                                       *)
CurrentOpen ==
    \A o \in DOMAIN current_inference :
        /\ inferences[current_inference[o]].observation = o
        /\ IsOpen(inferences[current_inference[o]].validity)

(* The current pointers lead to records, as the type invariant says.       *)
LEMMA CurrentTyped ==
    ASSUME LedgerInv
    PROVE  /\ current_inference \in [DOMAIN current_inference -> DOMAIN inferences]
           /\ \A i \in DOMAIN inferences :
                  /\ inferences[i] \in [observation: Observation, validity: Validity]
                  /\ inferences[i].validity \in Validity
BY DEF LedgerInv, TypeOK, LineageTypeOK

(* What close_current does to one record.                                  *)
LEMMA ClosedRecord ==
    ASSUME LedgerInv, CurrentOpen, next_version \in 1..MaxVersion, NEW S,
           NEW i \in DOMAIN inferences
    PROVE  LET after == CloseCurrent(inferences, current_inference, S)[i]
           IN  /\ after.observation = inferences[i].observation
               /\ after.validity.begin = inferences[i].validity.begin
               /\ ~IsOpen(inferences[i].validity) => after = inferences[i]
               /\ inferences[i].observation \notin S => after = inferences[i]
<1> DEFINE after == CloseCurrent(inferences, current_inference, S)[i]
<1>1. inferences[i] \in [observation: Observation, validity: Validity]
      /\ inferences[i].validity \in Validity
  BY CurrentTyped
<1>2. CASE \E o \in S \cap DOMAIN current_inference : current_inference[o] = i
  <2>1. after = [inferences[i] EXCEPT !.validity = EndAt(@, next_version)]
    BY <1>2 DEF CloseCurrent
  <2>2. IsOpen(inferences[i].validity) /\ inferences[i].observation \in S
    BY <1>2 DEF CurrentOpen
  <2> QED
    BY <1>1, <2>1, <2>2, EndAtType
<1>3. CASE ~\E o \in S \cap DOMAIN current_inference : current_inference[o] = i
  BY <1>3 DEF CloseCurrent
<1> QED
  BY <1>2, <1>3

(* Which steps write the inferences, and what they write.                  *)
LEMMA InferenceSteps ==
    ASSUME LedgerInv, CurrentOpen, TableStep
    PROVE  \/ /\ CommitResolution /\ next_version \in 1..MaxVersion
              /\ command.inference.id \notin DOMAIN inferences
           \/ \E t \in targets : Deactivate(t) /\ next_version \in 1..MaxVersion
           \/ inferences' = inferences /\ current_inference' = current_inference
<1>1. ASSUME CommitResolution
      PROVE  next_version \in 1..MaxVersion /\ command.inference.id \notin DOMAIN inferences
  <2>1. inflight # None /\ cursor \in DOMAIN inflight.commands
        /\ command.kind = "CommitResolution"
    BY <1>1 DEF CommitResolution, Applying
  <2> QED
    BY <2>1, InFlight DEF LedgerInv, ResolutionHolds, command
<1>2. ASSUME NEW t \in targets PROVE next_version \in 1..MaxVersion
  BY InFlight DEF LedgerInv, ValidationHolds
<1>3. ASSUME ~CommitResolution, ~\E t \in targets : Deactivate(t)
      PROVE  inferences' = inferences /\ current_inference' = current_inference
  BY <1>3 DEF TableStep, Quiet, Start, Apply, PersistObservation, CreateIdentity, Promote,
     ChangeStatus, Merge, Split, Revert, EnqueueMaterialization, Materialized, Record, state,
     lineage
<1> QED
  BY <1>1, <1>2, <1>3

(* Every step of the ledger keeps the current pointers on open records.    *)
LEMMA CurrentOpenStep == LedgerInv /\ CurrentOpen /\ TableStep => CurrentOpen'
<1> SUFFICES ASSUME LedgerInv, CurrentOpen, TableStep PROVE CurrentOpen'
  OBVIOUS
<1>1. CASE CommitResolution /\ next_version \in 1..MaxVersion
           /\ command.inference.id \notin DOMAIN inferences
  <2> DEFINE o == command.inference.observation
             i == command.inference.id
             closed == CloseCurrent(inferences, current_inference, {o})
  <2>1. /\ inferences' = Insert(closed, i,
              [observation |-> o, validity |-> Current(command.inference.begin)])
        /\ current_inference' = Insert(current_inference, o, i)
    BY <1>1 DEF CommitResolution
  <2> SUFFICES ASSUME NEW p \in DOMAIN current_inference'
               PROVE  /\ inferences'[current_inference'[p]].observation = p
                      /\ IsOpen(inferences'[current_inference'[p]].validity)
    BY DEF CurrentOpen, IsOpen, Open
  <2>2. CASE p = o
    <3>1. inferences'[current_inference'[p]] =
              [observation |-> o, validity |-> Current(command.inference.begin)]
      BY <2>1, <2>2 DEF Insert
    <3> QED
      BY <2>2, <3>1 DEF Current, Interval, IsOpen, Open
  <2>3. CASE p # o
    <3> DEFINE j == current_inference[p]
    <3>1. p \in DOMAIN current_inference /\ current_inference'[p] = j
          /\ j \in DOMAIN inferences /\ j # i
      BY <1>1, <2>1, <2>3, CurrentTyped DEF Insert
    <3>2. inferences[j].observation = p /\ IsOpen(inferences[j].validity)
      BY <3>1 DEF CurrentOpen
    <3>3. closed[j] = inferences[j]
      BY <1>1, <2>3, <3>1, <3>2, ClosedRecord
    <3>4. inferences'[j] = closed[j]
      BY <2>1, <3>1 DEF Insert, CloseCurrent
    <3> QED
      BY <3>1, <3>2, <3>3, <3>4 DEF IsOpen, Open
  <2> QED
    BY <2>2, <2>3
<1>2. ASSUME NEW t \in targets, Deactivate(t), next_version \in 1..MaxVersion
      PROVE  CurrentOpen'
  <2>1. /\ inferences' = CloseCurrent(inferences, current_inference, Withdrawn(t))
        /\ current_inference' = Remove(current_inference, Withdrawn(t))
    BY <1>2 DEF Deactivate
  <2> SUFFICES ASSUME NEW p \in DOMAIN current_inference'
               PROVE  /\ inferences'[current_inference'[p]].observation = p
                      /\ IsOpen(inferences'[current_inference'[p]].validity)
    BY DEF CurrentOpen, IsOpen, Open
  <2>2. p \in DOMAIN current_inference /\ p \notin Withdrawn(t)
        /\ current_inference'[p] = current_inference[p]
        /\ current_inference[p] \in DOMAIN inferences
    BY <2>1, CurrentTyped DEF Remove
  <2>3. /\ inferences[current_inference[p]].observation = p
        /\ IsOpen(inferences[current_inference[p]].validity)
    BY <2>2 DEF CurrentOpen
  <2>4. inferences'[current_inference[p]] = inferences[current_inference[p]]
    BY <1>2, <2>1, <2>2, <2>3, ClosedRecord
  <2> QED
    BY <2>2, <2>3, <2>4 DEF IsOpen, Open
<1>3. CASE inferences' = inferences /\ current_inference' = current_inference
  BY <1>3 DEF CurrentOpen, IsOpen, Open
<1> QED
  BY <1>1, <1>2, <1>3, InferenceSteps

InferenceFrozen(i) ==
    /\ i \in DOMAIN inferences'
    /\ inferences'[i].observation = inferences[i].observation
    /\ inferences'[i].validity.begin = inferences[i].validity.begin
    /\ ~IsOpen(inferences[i].validity) => inferences'[i] = inferences[i]

(* CommitResolution adds an inference under a fresh identifier, and only   *)
(* records that a current pointer names are ended, which are open.         *)
LEMMA InferencesFrozen ==
    ASSUME LedgerInv, CurrentOpen, TableStep
    PROVE  \A i \in DOMAIN inferences : InferenceFrozen(i)
<1> SUFFICES ASSUME NEW i \in DOMAIN inferences PROVE InferenceFrozen(i)
  OBVIOUS
<1>1. ASSUME NEW S, next_version \in 1..MaxVersion, i \in DOMAIN inferences',
             inferences'[i] = CloseCurrent(inferences, current_inference, S)[i]
      PROVE  InferenceFrozen(i)
  BY <1>1, ClosedRecord DEF InferenceFrozen
<1>2. CASE CommitResolution /\ next_version \in 1..MaxVersion
           /\ command.inference.id \notin DOMAIN inferences
  <2> DEFINE closed == CloseCurrent(inferences, current_inference,
                                    {command.inference.observation})
  <2>1. i \in DOMAIN inferences' /\ inferences'[i] = closed[i]
    BY <1>2 DEF CommitResolution, Insert, CloseCurrent
  <2> QED
    BY <1>1, <1>2, <2>1
<1>3. ASSUME NEW t \in targets, Deactivate(t), next_version \in 1..MaxVersion
      PROVE  InferenceFrozen(i)
  <2>1. /\ i \in DOMAIN inferences'
        /\ inferences'[i] = CloseCurrent(inferences, current_inference, Withdrawn(t))[i]
    BY <1>3 DEF Deactivate, CloseCurrent
  <2> QED
    BY <1>1, <1>3, <2>1
<1>4. CASE inferences' = inferences
  BY <1>4 DEF InferenceFrozen
<1> QED
  BY <1>2, <1>3, <1>4, InferenceSteps

(* Inferences are superseded, never rewritten: a record keeps its          *)
(* observation and its beginning, and its end once it has one.             *)
THEOREM InferencesAreHistory == Spec => InferenceHistoryFrozen
<1>1. Init => CurrentOpen
  BY DEF Init, Empty, EmptyMap, CurrentOpen
<1>2. LedgerInv /\ CurrentOpen /\ TableStep => \A i \in DOMAIN inferences : InferenceFrozen(i)
  BY InferencesFrozen
<1> QED
  BY <1>1, <1>2, CurrentOpenStep, InitInv, StepInv, NextIsStep, PTL
     DEF Spec, InferenceHistoryFrozen, InferenceFrozen

-----------------------------------------------------------------------------
(***************************************************************************)
(* What else validate finds of the commands that are left to apply: an     *)
(* identity is created only once, and what a correction supersedes is      *)
(* there when its turn comes.                                              *)
(***************************************************************************)
Creates(c, id) ==
    \/ c.kind = "CommitResolution" /\ c.created = id
    \/ c.kind = "CreateIdentity" /\ c.identity = id

CreatedHolds(i) ==
    \A id \in Identity : Creates(inflight.commands[i], id) =>
        /\ id \notin DOMAIN identities
        /\ \A b \in Left(i) : ~Writes(b, id)

CorrectionHolds(i) ==
    LET c == inflight.commands[i]
    IN  c.kind = "PersistObservation" =>
            \/ c.supersedes \in {None} \cup DOMAIN observations
            \/ \E b \in Left(i) : b.kind = "PersistObservation" /\ b.observation = c.supersedes

RestHolds ==
    inflight # None =>
        \A i \in cursor..Len(inflight.commands) : CreatedHolds(i) /\ CorrectionHolds(i)

(* The overlay calls absent what is not recorded and no earlier command    *)
(* writes.                                                                 *)
LEMMA AbsentIsFresh ==
    ASSUME TypeOK, NEW e, NEW i \in Nat, NEW id, OverlayStatus(e, i, id) = "Absent"
    PROVE  id \notin DOMAIN identities /\ \A j \in 1..(i - 1) : ~Writes(e.commands[j], id)
<1> DEFINE writers == {j \in 1..(i - 1) : Writes(e.commands[j], id)}
<1>1. \A kind : WrittenStatus(kind) # "Absent"
  BY DEF WrittenStatus
<1>2. writers = {}
  BY <1>1 DEF OverlayStatus
<1>3. Lookup(identities, id, "Absent") = "Absent"
  BY <1>2 DEF OverlayStatus
<1>4. \A k \in DOMAIN identities : identities[k] # "Absent"
  BY DEF TypeOK, IdentityTypeOK, Status
<1> QED
  BY <1>2, <1>3, <1>4 DEF Lookup

(* validate makes sure of both.                                            *)
LEMMA StartRest ==
    ASSUME LedgerInv, NEW e \in CommandEnvelope, Start(e)
    PROVE  RestHolds'
<1>1. /\ inflight' = e /\ cursor' = 1 /\ Valid(e) /\ TypeOK
      /\ observations' = observations /\ identities' = identities
  BY DEF Start, state, evidence, identity_index, LedgerInv
<1>2. ASSUME NEW i \in 1..Len(e.commands)
      PROVE  CreatedHolds(i)' /\ CorrectionHolds(i)'
  <2> DEFINE c == e.commands[i]
  <2>1. Left(i)' = {e.commands[j] : j \in 1..(i - 1)}
    BY <1>1 DEF Left
  <2>2. i \in DOMAIN e.commands /\ i \in Nat /\ c \in Command
    BY EnvelopeFields
  <2>3. ValidCommand(e, i)
    BY <1>1, <2>2 DEF Valid, CommandsValid
  <2>4. CreatedHolds(i)'
    <3> SUFFICES ASSUME NEW id \in Identity, Creates(c, id)
                 PROVE  OverlayStatus(e, i, id) = "Absent"
      <4>1. SUFFICES ASSUME NEW id \in Identity, Creates(c, id)
                     PROVE  /\ id \notin DOMAIN identities
                            /\ \A j \in 1..(i - 1) : ~Writes(e.commands[j], id)
        BY <1>1, <2>1 DEF CreatedHolds
      <4> QED
        BY <1>1, <2>2, <4>1, AbsentIsFresh
    <3>1. CASE c.kind = "CommitResolution" /\ c.created = id
      <4>1. ValidAction(e, i) /\ id # None
        BY <2>3, <3>1, LedgerAssumption DEF ValidCommand, ValidResolution
      <4> QED
        BY <3>1, <4>1 DEF ValidAction
    <3>2. CASE c.kind = "CreateIdentity" /\ c.identity = id
      BY <2>3, <3>2 DEF ValidCommand
    <3> QED
      BY <3>1, <3>2 DEF Creates
  <2>5. CorrectionHolds(i)'
    <3> SUFFICES ASSUME c.kind = "PersistObservation"
                 PROVE  \/ c.supersedes \in {None} \cup DOMAIN observations
                        \/ \E j \in 1..(i - 1) : /\ e.commands[j].kind = "PersistObservation"
                                                 /\ e.commands[j].observation = c.supersedes
      BY <1>1, <2>1 DEF CorrectionHolds
    <3>1. ValidPersist(e, i)
      BY <2>3 DEF ValidCommand
    <3>2. c.supersedes # c.observation
      BY <2>2, EnvelopeFields DEF Command
    <3> QED
      BY <3>1, <3>2 DEF ValidPersist, KnownObservation, PendingObservations, Earlier
  <2> QED
    BY <2>4, <2>5
<1> QED
  BY <1>1, <1>2 DEF RestHolds

(* What the command that is done has added is no longer left to do.        *)
LEMMA RestAdvance ==
    ASSUME LedgerInv, RestHolds, inflight # None, cursor \in DOMAIN inflight.commands,
           inflight' = inflight, cursor' = cursor + 1,
           DOMAIN observations \cup
               {b.observation : b \in {b \in {command} : b.kind = "PersistObservation"}}
               \subseteq DOMAIN observations',
           \A id \in DOMAIN identities' : id \in DOMAIN identities \/ Writes(command, id)
    PROVE  RestHolds'
<1>1. cursor \in 1..Len(inflight.commands) /\ Len(inflight.commands) \in Nat
  BY InFlight, EnvelopeFields DEF LedgerInv
<1>2. ASSUME NEW i \in (cursor + 1)..Len(inflight.commands)
      PROVE  CreatedHolds(i)' /\ CorrectionHolds(i)'
  <2>1. Left(i) = Left(i)' \cup {command}
    BY <1>1 DEF Left, command
  <2>2. CreatedHolds(i) /\ CorrectionHolds(i)
    BY <1>1 DEF RestHolds
  <2> HIDE DEF command
  <2>3. CreatedHolds(i)'
    BY <2>1, <2>2 DEF CreatedHolds
  <2>4. CorrectionHolds(i)'
    BY <2>1, <2>2 DEF CorrectionHolds
  <2> QED
    BY <2>3, <2>4
<1> QED
  BY <1>1, <1>2 DEF RestHolds

(* It stays while the place in the envelope and the two tables do.         *)
LEMMA RestSame ==
    ASSUME RestHolds, UNCHANGED <<inflight, cursor>>,
           DOMAIN observations' = DOMAIN observations, DOMAIN identities' = DOMAIN identities
    PROVE  RestHolds'
<1>1. \A i : Left(i)' = Left(i)
  BY DEF Left
<1> QED
  BY <1>1 DEF RestHolds, CreatedHolds, CorrectionHolds

(* Every step keeps it.                                                    *)
LEMMA RestStep == LedgerInv /\ RestHolds /\ TableStep => RestHolds'
<1> SUFFICES ASSUME LedgerInv, RestHolds, TableStep PROVE RestHolds'
  OBVIOUS
<1> USE DEF LedgerInv
<1> DEFINE Changes == \E kind \in {"Dormant", "Reactivate", "Retire"} : ChangeStatus(kind)
<1>1. CASE Quiet
  <2>1. UNCHANGED <<inflight, cursor, observations, identities>>
    BY <1>1 DEF Quiet, state, evidence, identity_index
  <2> QED
    BY <2>1, RestSame
<1>2. ASSUME NEW e \in CommandEnvelope, Start(e) PROVE RestHolds'
  BY <1>2, StartRest
<1>3. CASE \/ PersistObservation \/ CommitResolution \/ CreateIdentity \/ Promote \/ Changes
           \/ Merge \/ Split \/ EnqueueMaterialization \/ Materialized
  <2>1. /\ inflight # None /\ cursor \in DOMAIN inflight.commands
        /\ inflight' = inflight /\ cursor' = cursor + 1
    BY <1>3 DEF Applying, PersistObservation, CommitResolution, CreateIdentity, Promote,
       ChangeStatus, Merge, Split, EnqueueMaterialization, Materialized, Advance
  <2>2. Adds(command)
    BY <1>3, ApplyAdds
  <2> HIDE DEF command
  <2>3. \A id \in DOMAIN identities' : id \in DOMAIN identities \/ Writes(command, id)
    BY <1>3 DEF Applying, PersistObservation, CommitResolution, CreateIdentity, Promote,
       ChangeStatus, Merge, Split, EnqueueMaterialization, Materialized, Insert, UnionStatuses,
       RebuildStatuses, identity_index, Writes
  <2> QED
    BY <2>1, <2>2, <2>3, RestAdvance DEF Adds
<1>4. CASE Revert
  <2>1. /\ inflight # None /\ cursor \in DOMAIN inflight.commands
        /\ UNCHANGED <<inflight, observations, identities>> /\ cursor' \in {cursor, cursor + 1}
        /\ command.kind = "Revert"
    BY <1>4 DEF Revert, Applying, Advance, state, evidence, identity_index
  <2> QED
    BY <2>1, RestAdvance, RestSame
<1>5. ASSUME NEW t \in targets, Deactivate(t) PROVE RestHolds'
  <2>1. /\ inflight # None /\ cursor \in DOMAIN inflight.commands /\ command.kind = "Revert"
    BY DEF ValidationHolds
  <2>2. /\ inflight' = inflight /\ cursor' \in {cursor, cursor + 1}
        /\ observations' = observations /\ DOMAIN identities' = DOMAIN identities
    BY <1>5, DeactivateAdds DEF Deactivate
  <2> QED
    BY <2>1, <2>2, RestAdvance, RestSame
<1>6. CASE Record
  BY <1>6 DEF Record, RestHolds
<1> QED
  BY <1>1, <1>2, <1>3, <1>4, <1>5, <1>6 DEF TableStep, Apply

-----------------------------------------------------------------------------
(* Corrections. *)
CommitsBounded == \A o \in DOMAIN observations : observation_commits[o] <= next_version

EvidenceInv == CommitsBounded /\ SupersessionAcyclic

(* The new evidence corrects what was there, and nothing corrects it yet.  *)
LEMMA PersistAcyclic ==
    ASSUME LedgerInv, RestHolds, EvidenceInv, PersistObservation
    PROVE  EvidenceInv'
<1> DEFINE o == command.observation
           s == command.supersedes
<1>1. /\ inflight # None /\ cursor \in DOMAIN inflight.commands
      /\ command.kind = "PersistObservation" /\ TypeOK
  BY DEF PersistObservation, Applying, LedgerInv
<1>2. /\ o \notin DOMAIN observations /\ s \in {None} \cup DOMAIN observations
      /\ next_version \in 1..MaxVersion /\ MaxVersion \in Nat
      /\ o \in Observation /\ None \notin Observation
  <2>1. /\ command \in Command /\ cursor \in 1..Len(inflight.commands) /\ Left(cursor) = {}
        /\ EvidenceHolds(cursor) /\ next_version \in 1..MaxVersion /\ MaxVersion \in Nat
    BY <1>1, InFlight DEF LedgerInv
  <2>2. CorrectionHolds(cursor)
    BY <1>1, <2>1, EnvelopeFields, InFlight DEF RestHolds, LedgerInv
  <2> QED
    BY <1>1, <2>1, <2>2, CommandFields, LedgerAssumption
       DEF EvidenceHolds, CorrectionHolds, command
<1>3. /\ observations' = Insert(observations, o, s)
      /\ observation_commits' = Insert(observation_commits, o, next_version)
      /\ version' = version
  BY DEF PersistObservation, log
<1> HIDE DEF command, o, s
<1>4. /\ DOMAIN observations' = DOMAIN observations \cup {o}
      /\ observations'[o] = s /\ observation_commits'[o] = next_version
      /\ DOMAIN observation_commits = DOMAIN observations
      /\ \A p \in DOMAIN observations : /\ observations'[p] = observations[p]
                                        /\ observation_commits'[p] = observation_commits[p]
                                        /\ observation_commits[p] \in 1..MaxVersion
                                        /\ observation_commits[p] <= next_version
  BY <1>1, <1>2, <1>3 DEF Insert, TypeOK, EvidenceTypeOK, EvidenceInv, CommitsBounded
<1>5. CommitsBounded'
  BY <1>2, <1>3, <1>4 DEF CommitsBounded, next_version
<1>6. \A edge \in Supersession :
          edge[1] \in DOMAIN observations /\ edge[2] \in DOMAIN observations
                                 /\ edge[1] # o /\ edge[2] # o
  <2>1. \A edge \in Supersession : edge[1] \in DOMAIN observations
    BY DEF Supersession
  <2>2. \A edge \in Supersession : edge[2] \in DOMAIN observations
    BY DEF EvidenceInv, SupersessionAcyclic
  <2> QED
    BY <1>2, <2>1, <2>2
<1>7. SupersessionAcyclic'
  <2>1. CASE s = None
    <3>1. Supersession' = Supersession
      BY <1>2, <1>4, <2>1 DEF Supersession
    <3> QED
      BY <1>4, <1>6, <3>1 DEF EvidenceInv, SupersessionAcyclic
  <2>2. CASE s # None
    <3>1. Supersession' = Supersession \cup {<<o, s>>}
      BY <1>2, <1>4, <2>2 DEF Supersession
    <3>2. s \in DOMAIN observations /\ s # o
      BY <1>2, <2>2
    <3>3. ASSUME NEW edge \in Supersession'
          PROVE  /\ edge[2] \in DOMAIN observations'
                 /\ observation_commits'[edge[2]] <= observation_commits'[edge[1]]
                 /\ edge[1] \notin Reachable(edge[2], Supersession')
      <4>1. CASE edge \in Supersession
        <5>1. /\ edge[2] \in DOMAIN observations
              /\ observation_commits[edge[2]] <= observation_commits[edge[1]]
              /\ edge[1] \notin Reachable(edge[2], Supersession)
          BY <4>1 DEF EvidenceInv, SupersessionAcyclic
        <5>2. Reachable(edge[2], Supersession') \subseteq Reachable(edge[2], Supersession)
          BY <1>6, <3>1, <4>1, ReachableFromFresh
        <5> QED
          BY <1>4, <1>6, <4>1, <5>1, <5>2
      <4>2. CASE edge = <<o, s>>
        <5>1. Reachable(s, Supersession') \subseteq Reachable(s, Supersession)
          BY <1>6, <3>1, <3>2, ReachableFromFresh
        <5>2. o \notin Reachable(s, Supersession)
          BY <1>6, <3>2, ReachableNodes
        <5>3. edge[1] = o /\ edge[2] = s
          BY <4>2
        <5> QED
          BY <1>4, <3>2, <5>1, <5>2, <5>3
      <4> QED
        BY <3>1, <4>1, <4>2
    <3> QED
      BY <3>3 DEF SupersessionAcyclic
  <2> QED
    BY <2>1, <2>2
<1> QED
  BY <1>5, <1>7 DEF EvidenceInv

(* No other step touches the evidence, and the version only grows.         *)
LEMMA EvidenceStep == LedgerInv /\ RestHolds /\ EvidenceInv /\ TableStep => EvidenceInv'
<1> SUFFICES ASSUME LedgerInv, RestHolds, EvidenceInv, TableStep PROVE EvidenceInv'
  OBVIOUS
<1>1. CASE PersistObservation
  BY <1>1, PersistAcyclic
<1>2. CASE ~PersistObservation
  <2>1. UNCHANGED evidence /\ (version' = version \/ version' = next_version)
    BY <1>2 DEF TableStep, Quiet, Start, Apply, CommitResolution, CreateIdentity, Promote,
       ChangeStatus, Merge, Split, Revert, Deactivate, EnqueueMaterialization, Materialized, Record,
       state, log
  <2>2. version \in Nat /\ \A o \in DOMAIN observations : observation_commits[o] \in Nat
    BY LedgerAssumption DEF LedgerInv, TypeOK, LogTypeOK, EvidenceTypeOK
  <2>3. CommitsBounded'
    BY <2>1, <2>2 DEF EvidenceInv, CommitsBounded, next_version, evidence
  <2>4. SupersessionAcyclic'
    BY <2>1 DEF EvidenceInv, SupersessionAcyclic, Supersession, evidence
  <2> QED
    BY <2>3, <2>4 DEF EvidenceInv
<1> QED
  BY <1>1, <1>2

(* Corrections never form a circle, in one envelope or over many: what an  *)
(* observation supersedes was persisted before it.                         *)
THEOREM CorrectionsAcyclic == Spec => []SupersessionAcyclic
<1>1. Init => RestHolds /\ EvidenceInv
  BY DEF Init, Empty, EmptyMap, RestHolds, EvidenceInv, CommitsBounded, SupersessionAcyclic,
         Supersession
<1>2. EvidenceInv => SupersessionAcyclic
  BY DEF EvidenceInv
<1> QED
  BY <1>1, <1>2, InitInv, StepInv, NextIsStep, RestStep, EvidenceStep, PTL DEF Spec

-----------------------------------------------------------------------------
(***************************************************************************)
(* Merge classes.  Class(id) is what the open merges connect id to.      *)
(***************************************************************************)
Class(id) == Reachable(id, OpenEdges(merges))

(* The open merges connect identities that exist, both ways.               *)
LEMMA EdgesOfMerges ==
    ASSUME IdentityTypeOK
    PROVE  \A edge \in OpenEdges(merges) :
               /\ <<edge[2], edge[1]>> \in OpenEdges(merges)
               /\ edge[1] \in DOMAIN identities /\ edge[2] \in DOMAIN identities
<1>1. \A d \in DOMAIN merges : merges[d].left \in DOMAIN identities
                              /\ merges[d].right \in DOMAIN identities
  BY DEF IdentityTypeOK
<1> QED
  BY <1>1 DEF OpenEdges

(* A class is a set of numbers with a least one, and two identities have   *)
(* the same least one exactly when they have the same class.               *)
LEMMA ClassLeast ==
    ASSUME IdentityTypeOK, NEW a \in DOMAIN identities
    PROVE  /\ a \in Class(a) /\ Class(a) \subseteq DOMAIN identities
           /\ Class(a) \in SUBSET Nat /\ Least(Class(a)) \in Class(a)
           /\ \A m \in Class(a) : Least(Class(a)) <= m
           /\ \A b \in DOMAIN identities :
                  /\ b \in Class(a) <=> Class(b) = Class(a)
                  /\ Least(Class(b)) = Least(Class(a)) <=> Class(b) = Class(a)
<1>1. \A edge \in OpenEdges(merges) :
          <<edge[2], edge[1]>> \in OpenEdges(merges) /\ edge[2] \in DOMAIN identities
  BY EdgesOfMerges
<1>2. DOMAIN identities \subseteq Nat
  BY LedgerAssumption DEF IdentityTypeOK
<1>3. ASSUME NEW b \in DOMAIN identities
      PROVE  /\ b \in Class(b) /\ Class(b) \subseteq DOMAIN identities
             /\ \A m \in Class(b) : Class(m) = Class(b)
  <2> DEFINE E == OpenEdges(merges)
  <2>1. \A edge \in E : <<edge[2], edge[1]>> \in E /\ edge[2] \in DOMAIN identities
    BY <1>1
  <2> HIDE DEF E
  <2>2. b \in Reachable(b, E)
    BY ReachableNodes
  <2>3. Reachable(b, E) \subseteq DOMAIN identities
    <3>1. Reachable(b, E) \subseteq {b} \cup {edge[2] : edge \in E}
      BY ReachableNodes
    <3> QED
      BY <2>1, <3>1
  <2>4. \A m \in Reachable(b, E) : Reachable(m, E) = Reachable(b, E)
    <3>1. \A edge \in E : <<edge[2], edge[1]>> \in E
      BY <2>1
    <3> QED
      BY <3>1, ReachableSymmetric
  <2> QED
    BY <2>2, <2>3, <2>4 DEF Class, E
<1>4. \A b \in DOMAIN identities :
          Least(Class(b)) \in Class(b) /\ \A m \in Class(b) : Least(Class(b)) <= m
  BY <1>2, <1>3, LeastIsMember
<1> QED
  BY <1>2, <1>3, <1>4

(* union_canonical brings about what the new merge connects.               *)
LEMMA MergeClasses ==
    ASSUME LedgerInv, CanonicalIsLeast, Merge
    PROVE  CanonicalIsLeast'
<1> DEFINE d == command.decision
           l == command.left
           r == command.right
           E == OpenEdges(merges)
           least == Least({canonical[l], canonical[r]})
           greatest == Greatest({canonical[l], canonical[r]})
<1>1. /\ inflight # None /\ cursor \in DOMAIN inflight.commands
      /\ command.kind = "Merge" /\ TypeOK /\ IdentityTypeOK
  BY DEF Merge, Applying, LedgerInv, TypeOK
<1>2. d \notin DOMAIN merges /\ l \in DOMAIN identities /\ r \in DOMAIN identities
  <2>1. command \in Command /\ MergeHolds(cursor)
    BY <1>1, InFlight DEF LedgerInv
  <2> QED
    BY <1>1, <2>1, CommandFields, UsedIsKnown DEF LedgerInv, MergeHolds, Uses, command
<1>3. /\ merges' = Insert(merges, d, [left |-> l, right |-> r, validity |-> Current(next_version),
                                     transaction |-> inflight.transaction])
      /\ canonical' = Union(canonical, l, r)
      /\ DOMAIN identities' = DOMAIN identities
  BY DEF Merge, UnionStatuses
<1> HIDE DEF d, l, r
<1>4. OpenEdges(merges') = E \cup {<<l, r>>, <<r, l>>}
  BY <1>2, <1>3 DEF OpenEdges, Insert, Current, Interval, IsOpen
<1>5. \A id \in DOMAIN identities :
          /\ canonical[id] = Least(Class(id)) /\ canonical[id] \in Nat
          /\ DOMAIN canonical = DOMAIN identities
  BY <1>1, ClassLeast DEF CanonicalIsLeast, Class
<1>6. \A edge \in E : <<edge[2], edge[1]>> \in E
  BY <1>1, EdgesOfMerges
<1>7. /\ least \in {canonical[l], canonical[r]} /\ least <= canonical[l] /\ least <= canonical[r]
      /\ greatest \in {canonical[l], canonical[r]}
      /\ {canonical[l], canonical[r]} = {least, greatest}
  <2>1. canonical[l] \in Nat /\ canonical[r] \in Nat
    BY <1>2, <1>5
  <2> QED
    BY <2>1 DEF Least, Greatest
<1> HIDE DEF least, greatest
<1>8. ASSUME NEW id \in DOMAIN identities
      PROVE  canonical'[id] = Least(Reachable(id, OpenEdges(merges')))
  <2>1. canonical'[id] = IF canonical[id] = greatest THEN least ELSE canonical[id]
    BY <1>3, <1>5 DEF Union, least, greatest
  <2>2. Reachable(id, OpenEdges(merges')) =
            IF id \in Class(l) \cup Class(r) THEN Class(l) \cup Class(r) ELSE Class(id)
    <3> HIDE DEF E
    <3>1. Reachable(id, E \cup {<<l, r>>, <<r, l>>}) =
              IF id \in Reachable(l, E) \cup Reachable(r, E)
                  THEN Reachable(l, E) \cup Reachable(r, E) ELSE Reachable(id, E)
      <4>1. \A R : (\A edge \in R : <<edge[2], edge[1]>> \in R) => \A a, b, x :
                Reachable(x, R \cup {<<a, b>>, <<b, a>>}) =
                    IF x \in Reachable(a, R) \cup Reachable(b, R)
                        THEN Reachable(a, R) \cup Reachable(b, R) ELSE Reachable(x, R)
        BY ReachableUnion
      <4>2. \A a, b, x :
                Reachable(x, E \cup {<<a, b>>, <<b, a>>}) =
                    IF x \in Reachable(a, E) \cup Reachable(b, E)
                        THEN Reachable(a, E) \cup Reachable(b, E) ELSE Reachable(x, E)
        BY <1>6, <4>1
      <4> QED
        BY <4>2
    <3> QED
      BY <1>4, <3>1 DEF Class, E
  <2>3. CASE id \in Class(l) \cup Class(r)
    <3>1. canonical[id] \in {canonical[l], canonical[r]}
      BY <1>1, <1>2, <1>5, <2>3, ClassLeast
    <3>2. canonical'[id] = least
      BY <1>7, <2>1, <3>1
    <3>3. least = Least(Class(l) \cup Class(r))
      <4> DEFINE both == Class(l) \cup Class(r)
      <4>1. /\ canonical[l] \in Class(l) /\ \A m \in Class(l) : canonical[l] <= m
            /\ canonical[r] \in Class(r) /\ \A m \in Class(r) : canonical[r] <= m
            /\ both \in SUBSET Nat
        BY <1>1, <1>2, <1>5, ClassLeast
      <4>2. least \in both /\ least \in Nat /\ \A m \in both : least <= m
        BY <1>5, <1>7, <4>1
      <4> HIDE DEF both
      <4>3. Least(both) \in both /\ Least(both) <= least
        BY <4>1, <4>2, LeastIsMember
      <4> QED
        BY <4>1, <4>2, <4>3 DEF both
    <3> QED
      BY <2>2, <2>3, <3>2, <3>3
  <2>4. CASE id \notin Class(l) \cup Class(r)
    <3>1. canonical[id] # canonical[l] /\ canonical[id] # canonical[r]
      BY <1>1, <1>2, <1>5, <2>4, ClassLeast
    <3> QED
      BY <1>5, <1>7, <2>1, <2>2, <2>4, <3>1
  <2> QED
    BY <2>3, <2>4
<1>9. DOMAIN canonical' = DOMAIN identities'
  BY <1>2, <1>3, <1>5 DEF Union
<1> QED
  BY <1>3, <1>8, <1>9 DEF CanonicalIsLeast

(* A new identity is connected to none and represents itself.              *)
LEMMA CreateClasses ==
    ASSUME IdentityTypeOK, CanonicalIsLeast, UNCHANGED merges,
           NEW id \in Identity, id \notin DOMAIN identities,
           DOMAIN identities' = DOMAIN identities \cup {id}, canonical' = Insert(canonical, id, id)
    PROVE  CanonicalIsLeast'
<1>1. \A edge \in OpenEdges(merges) : edge[1] \in DOMAIN identities
  BY EdgesOfMerges
<1>2. Reachable(id, OpenEdges(merges)) = {id}
  <2>1. \A edge \in OpenEdges(merges) : edge[1] \in {id} => edge[2] \in {id}
    BY <1>1
  <2>2. id \in {id}
    OBVIOUS
  <2>3. Reachable(id, OpenEdges(merges)) \subseteq {id}
    BY <2>1, <2>2, ReachableLeast
  <2> QED
    BY <2>3, ReachableNodes
<1>3. Least({id}) = id
  BY LedgerAssumption DEF Least
<1>4. /\ DOMAIN canonical' = DOMAIN canonical \cup {id} /\ canonical'[id] = id
      /\ \A a \in DOMAIN canonical \ {id} : canonical'[a] = canonical[a]
  BY DEF Insert
<1> QED
  BY <1>2, <1>3, <1>4 DEF CanonicalIsLeast

(* A rebuild is right by itself.                                           *)
LEMMA RebuiltClasses ==
    ASSUME canonical' = RebuildClasses(merges'), DOMAIN identities' = DOMAIN identities
    PROVE  CanonicalIsLeast'
BY DEF RebuildClasses, CanonicalIsLeast

(* The other commands neither merge nor create.                            *)
LEMMA SameClasses ==
    ASSUME CanonicalIsLeast, UNCHANGED <<merges, canonical>>,
           DOMAIN identities' = DOMAIN identities
    PROVE  CanonicalIsLeast'
BY DEF CanonicalIsLeast

(* Every step keeps it.                                                    *)
LEMMA ClassesStep == LedgerInv /\ RestHolds /\ CanonicalIsLeast /\ TableStep => CanonicalIsLeast'
<1> SUFFICES ASSUME LedgerInv, RestHolds, CanonicalIsLeast, TableStep PROVE CanonicalIsLeast'
  OBVIOUS
<1>1. TypeOK /\ ValidationHolds /\ IdentityTypeOK
  BY DEF LedgerInv, TypeOK
<1>2. CASE Merge
  BY <1>2, MergeClasses
<1>3. CASE Split
  BY <1>3, RebuiltClasses DEF Split, RebuildStatuses
<1>4. ASSUME NEW t \in targets, Deactivate(t) PROVE CanonicalIsLeast'
  BY <1>4, RebuiltClasses DEF Deactivate, RebuildStatuses
<1>5. CASE CreateIdentity \/ CommitResolution
  <2>1. inflight # None /\ cursor \in DOMAIN inflight.commands
    BY <1>5 DEF CreateIdentity, CommitResolution, Applying
  <2>2. CreatedHolds(cursor) /\ command \in Command
    BY <1>1, <2>1, InFlight, EnvelopeFields DEF RestHolds
  <2>3. \A id \in Identity : Creates(command, id) => id \notin DOMAIN identities
    BY <2>2 DEF CreatedHolds, command
  <2> HIDE DEF command
  <2>4. CASE CreateIdentity
    <3>1. command.identity \in Identity /\ Creates(command, command.identity)
      BY <2>2, <2>4, CommandFields DEF CreateIdentity, Applying, Creates
    <3>2. /\ DOMAIN identities' = DOMAIN identities \cup {command.identity}
          /\ canonical' = Insert(canonical, command.identity, command.identity)
          /\ UNCHANGED merges
      BY <2>4 DEF CreateIdentity, Insert, InsertCanonical
    <3> QED
      BY <1>1, <2>3, <3>1, <3>2, CreateClasses
  <2>5. CASE CommitResolution /\ command.created # None
    <3>1. command.created \in Identity /\ Creates(command, command.created)
      BY <2>2, <2>5, CommandFields DEF CommitResolution, Applying, Creates
    <3>2. /\ DOMAIN identities' = DOMAIN identities \cup {command.created}
          /\ canonical' = Insert(canonical, command.created, command.created)
          /\ UNCHANGED merges
      BY <2>5 DEF CommitResolution, Insert, InsertCanonical
    <3> QED
      BY <1>1, <2>3, <3>1, <3>2, CreateClasses
  <2>6. CASE CommitResolution /\ command.created = None
    BY <2>6, SameClasses DEF CommitResolution
  <2> QED
    BY <1>5, <2>4, <2>5, <2>6
<1>6. CASE Promote \/ \E kind \in {"Dormant", "Reactivate", "Retire"} : ChangeStatus(kind)
  <2>1. /\ inflight # None /\ cursor \in DOMAIN inflight.commands /\ command.identity \in Identity
        /\ Uses(command, command.identity)
    BY <1>1, <1>6, InFlight, CommandFields DEF Promote, ChangeStatus, Applying, Uses
  <2>2. command.identity \in DOMAIN identities
    BY <1>1, <2>1, UsedIsKnown
  <2> HIDE DEF command
  <2>3. DOMAIN identities' = DOMAIN identities /\ UNCHANGED <<merges, canonical>>
    BY <1>6, <2>2 DEF Promote, ChangeStatus, Insert
  <2> QED
    BY <2>3, SameClasses
<1>7. CASE \/ Quiet \/ \E e \in CommandEnvelope : Start(e)
           \/ PersistObservation \/ Revert \/ EnqueueMaterialization \/ Materialized
           \/ Record
  <2>1. UNCHANGED <<merges, canonical, identities>>
    BY <1>7 DEF Quiet, Start, PersistObservation, Revert, EnqueueMaterialization, Materialized,
       Record, state, identity_index
  <2> QED
    BY <2>1, SameClasses
<1> QED
  BY <1>2, <1>3, <1>4, <1>5, <1>6, <1>7 DEF TableStep, Apply

(* union_canonical, kept up merge by merge, and rebuild_canonical agree:   *)
(* every identity is represented by the least one it is connected to,      *)
(* between any two commands and whatever is merged, split and reverted.    *)
THEOREM CanonicalIsRight == Spec => []CanonicalIsLeast
<1>1. Init => RestHolds /\ CanonicalIsLeast
  BY DEF Init, Empty, EmptyMap, RestHolds, CanonicalIsLeast
<1> QED
  BY <1>1, InitInv, StepInv, NextIsStep, RestStep, ClassesStep, PTL DEF Spec
-----------------------------------------------------------------------------
(***************************************************************************)
(* Members of a class.  A lifecycle command writes a status without asking *)
(* for the class, so it is right only for a representative.  validate sees *)
(* to that through the overlay, and while no lifecycle command is misled   *)
(* it stays so until the command's turn: no Merge comes before it, and all *)
(* else takes classes apart.                                               *)
(***************************************************************************)
Lifecycle(c) == c.kind \in {"Promote", "Dormant", "Reactivate", "Retire"}

NoneMisled ==
    /\ \A n \in DOMAIN transactions : ~Misled(transactions[n].envelope)
    /\ inflight # None => ~Misled(inflight)

MembersMerged == \A id \in DOMAIN identities : canonical[id] # id => identities[id] = "Merged"

LifecycleLeads ==
    inflight # None =>
        \A i \in cursor..Len(inflight.commands) :
            LET c == inflight.commands[i]
            IN  Lifecycle(c) /\ c.identity \in DOMAIN identities =>
                    canonical[c.identity] = c.identity

MembersInv == NoneMisled => MembersMerged /\ LifecycleLeads

(* The first command of a valid envelope that writes the identity of a     *)
(* lifecycle command creates it, or found its status in the ledger; in an  *)
(* envelope that misleads none, it is no Split.                            *)
LEMMA LifecycleWriter ==
    ASSUME NEW e \in CommandEnvelope, CommandsValid(e), ~Misled(e), NEW i \in DOMAIN e.commands,
           Lifecycle(e.commands[i]), e.commands[i].identity \in DOMAIN identities,
           TypeOK, CanonicalIsLeast, MembersMerged
    PROVE  canonical[e.commands[i].identity] = e.commands[i].identity
<1> DEFINE id == e.commands[i].identity
           writers == {k \in 1..i : Writes(e.commands[k], id)}
           k == Least(writers)
<1>1. i \in 1..Len(e.commands) /\ Len(e.commands) \in Nat /\ \A j \in 1..i : j \in DOMAIN e.commands
  BY EnvelopeFields
<1>2. i \in writers /\ writers \in SUBSET Nat
  BY <1>1 DEF Writes, Lifecycle
<1>3. k \in writers /\ \A j \in writers : k <= j
  BY <1>2, LeastIsMember
<1> HIDE DEF k
<1>4. \A j \in 1..(k - 1) : ~Writes(e.commands[j], id)
  BY <1>1, <1>3
<1>5. OverlayStatus(e, k, id) = identities[id]
  BY <1>4 DEF OverlayStatus, Lookup
<1>6. k \in DOMAIN e.commands /\ ValidCommand(e, k) /\ Writes(e.commands[k], id)
  BY <1>1, <1>3 DEF CommandsValid
<1>7. identities[id] \in Status /\ identities[id] # "Absent"
  BY DEF TypeOK, IdentityTypeOK, Status
<1> HIDE DEF writers
<1> DEFINE c == e.commands[k]
<1>8. CASE Lifecycle(c)
  <2>1. c.identity = id
    BY <1>6, <1>8 DEF Writes, Lifecycle
  <2>2. OverlayStatus(e, k, c.identity) \in {"Active", "Dormant"}
    BY <1>6, <1>8 DEF ValidCommand, Lifecycle
  <2>3. identities[id] \in {"Active", "Dormant"}
    BY <1>5, <2>1, <2>2
  <2> QED
    BY <2>3 DEF MembersMerged
<1>9. CASE c.kind = "Split"
  <2>1. k < i
    <3>1. k # i
      BY <1>9 DEF Lifecycle
    <3> QED
      BY <1>1, <1>2, <1>3, <3>1
  <2> QED
    BY <1>6, <1>9, <2>1 DEF Misled, Lifecycle
<1>10. CASE c.kind = "CreateIdentity"
  BY <1>5, <1>6, <1>7, <1>10 DEF ValidCommand, Writes
<1>11. CASE c.kind = "CommitResolution"
  <2>1. c.created = id /\ id # None
    BY <1>6, <1>11, LedgerAssumption DEF Writes, TypeOK, IdentityTypeOK
  <2>2. ValidAction(e, k)
    BY <1>6, <1>11 DEF ValidCommand, ValidResolution
  <2>3. OverlayStatus(e, k, c.created) = "Absent"
    BY <2>1, <2>2 DEF ValidAction
  <2> QED
    BY <1>5, <1>7, <2>1, <2>3
<1> QED
  BY <1>6, <1>8, <1>9, <1>10, <1>11 DEF Writes, Lifecycle

(* A representative stays one while merges only close.                     *)
LEMMA LeadersKept ==
    ASSUME TypeOK, CanonicalIsLeast, TypeOK', CanonicalIsLeast',
           DOMAIN identities' = DOMAIN identities,
           OpenEdges(merges') \subseteq OpenEdges(merges),
           NEW id \in DOMAIN identities, canonical[id] = id
    PROVE  canonical'[id] = id
<1> DEFINE m == Least(Reachable(id, OpenEdges(merges')))
<1>1. Least(Class(id)) = id /\ \A n \in Class(id) : id <= n
  BY ClassLeast DEF CanonicalIsLeast, Class, TypeOK
<1>2. Reachable(id, OpenEdges(merges')) \subseteq Class(id)
  BY ReachableMonotone DEF Class
<1>3. id \in Reachable(id, OpenEdges(merges'))
  BY ReachableNodes
<1>4. Class(id) \subseteq Nat
  BY ClassLeast DEF TypeOK
<1>5. m \in Reachable(id, OpenEdges(merges')) /\ m <= id
  <2> DEFINE S == Reachable(id, OpenEdges(merges'))
  <2>1. S \in SUBSET Nat /\ id \in S
    BY <1>2, <1>3, <1>4
  <2> HIDE DEF S
  <2>2. Least(S) \in S /\ Least(S) <= id
    BY <2>1, LeastIsMember
  <2> QED
    BY <2>2 DEF S
<1>6. canonical'[id] = m
  BY DEF CanonicalIsLeast
<1> HIDE DEF m
<1>7. m \in Nat /\ id \in Nat /\ id <= m
  BY <1>1, <1>2, <1>3, <1>4, <1>5
<1> QED
  BY <1>5, <1>6, <1>7

(* Closing merges opens none.                                              *)
LEMMA ClosedEdges ==
    ASSUME IdentityTypeOK, next_version \in 1..MaxVersion, NEW S
    PROVE  OpenEdges(CloseMerges(S)) \subseteq OpenEdges(merges)
<1>1. \A d \in DOMAIN merges :
          /\ CloseMerges(S)[d].left = merges[d].left /\ CloseMerges(S)[d].right = merges[d].right
          /\ IsOpen(CloseMerges(S)[d].validity) => IsOpen(merges[d].validity)
  <2> SUFFICES ASSUME NEW d \in DOMAIN merges
               PROVE  /\ CloseMerges(S)[d].left = merges[d].left
                      /\ CloseMerges(S)[d].right = merges[d].right
                      /\ IsOpen(CloseMerges(S)[d].validity) => IsOpen(merges[d].validity)
    OBVIOUS
  <2>1. merges[d] \in [left: DOMAIN identities, right: DOMAIN identities,
                       validity: Validity, transaction: Transaction]
    BY DEF IdentityTypeOK
  <2>2. IsOpen(EndAt(merges[d].validity, next_version)) => IsOpen(merges[d].validity)
    BY <2>1, LedgerAssumption DEF EndAt, IsOpen, Open, Validity
  <2> QED
    BY <2>1, <2>2 DEF CloseMerges
<1>2. DOMAIN CloseMerges(S) = DOMAIN merges
  BY DEF CloseMerges
<1> QED
  BY <1>1, <1>2 DEF OpenEdges

(* Rebuilding leaves everyone who does not lead Merged.                    *)
LEMMA RebuiltMembers ==
    ASSUME NEW statuses, identities' = RebuildStatuses(statuses, canonical'),
           DOMAIN statuses = DOMAIN identities
    PROVE  MembersMerged'
BY DEF RebuildStatuses, MembersMerged

(* What a step must do to the classes for the lifecycle commands that are  *)
(* left to find the representatives they need.                             *)
LEMMA LifecycleKept ==
    ASSUME LifecycleLeads, inflight # None, inflight' = inflight,
           cursor \in Nat, cursor' \in {cursor, cursor + 1}, Len(inflight.commands) \in Nat,
           \A id \in DOMAIN identities' :
               canonical'[id] = id \/ (id \in DOMAIN identities /\ canonical[id] # id)
    PROVE  LifecycleLeads'
<1>1. \A i \in cursor'..Len(inflight.commands) : i \in cursor..Len(inflight.commands)
  OBVIOUS
<1> QED
  BY <1>1 DEF LifecycleLeads

(* Every step keeps it. *)
LEMMA MembersStep ==
    LedgerInv /\ RestHolds /\ CanonicalIsLeast /\ MembersInv /\ TableStep => MembersInv'
<1> SUFFICES ASSUME LedgerInv, RestHolds, CanonicalIsLeast, MembersInv, TableStep, NoneMisled'
             PROVE  MembersMerged' /\ LifecycleLeads'
  BY DEF MembersInv
<1>1. /\ TypeOK /\ ValidationHolds /\ IdentityTypeOK
      /\ TypeOK' /\ CanonicalIsLeast' /\ IdentityTypeOK'
  BY StepInv, ClassesStep DEF LedgerInv, TypeOK
<1>2. NoneMisled
  <2>1. \A n \in DOMAIN transactions : ~Misled(transactions[n].envelope)
    <3>1. \A n \in DOMAIN transactions :
              n \in DOMAIN transactions' /\ transactions'[n].envelope = transactions[n].envelope
      BY RecordsKept
    <3> QED
      BY <3>1 DEF NoneMisled
  <2>2. inflight # None => ~Misled(inflight)
    <3>1. CASE inflight' = inflight
      BY <3>1 DEF NoneMisled
    <3>2. CASE Record
      <4>1. LET n == Len(transactions) + 1
            IN  n \in DOMAIN transactions' /\ transactions'[n].envelope = inflight
        BY <1>1, <3>2 DEF Record, TypeOK, LogTypeOK
      <4> QED
        BY <4>1 DEF NoneMisled
    <3>3. CASE inflight = None
      BY <3>3
    <3> QED
      BY <3>1, <3>2, <3>3 DEF TableStep, Quiet, Start, Apply, PersistObservation, CommitResolution,
         CreateIdentity, Promote, ChangeStatus, Merge, Split, Revert, Deactivate,
         EnqueueMaterialization, Materialized, Advance, Record
  <2> QED
    BY <2>1, <2>2 DEF NoneMisled
<1>3. MembersMerged /\ LifecycleLeads
  BY <1>2 DEF MembersInv
<1> DEFINE Changes == \E kind \in {"Dormant", "Reactivate", "Retire"} : ChangeStatus(kind)
           Kept == UNCHANGED <<merges, canonical, identities>>
<1>4. ASSUME NEW e \in CommandEnvelope, Start(e) PROVE MembersMerged' /\ LifecycleLeads'
  <2>1. /\ inflight' = e /\ cursor' = 1 /\ CommandsValid(e) /\ Kept /\ ~Misled(e)
    BY <1>4, LedgerAssumption DEF Start, Valid, state, identity_index, NoneMisled
  <2>2. MembersMerged'
    BY <1>3, <2>1 DEF MembersMerged
  <2>3. \A i \in 1..Len(e.commands) : i \in DOMAIN e.commands
    BY EnvelopeFields
  <2>4. LifecycleLeads'
    BY <1>1, <1>3, <2>1, <2>3, LifecycleWriter DEF LifecycleLeads
  <2> QED
    BY <2>2, <2>4
<1>5. CASE Record \/ Quiet
  <2>1. Kept /\ (inflight' = None \/ UNCHANGED <<inflight, cursor>>)
    BY <1>5 DEF Quiet, Record, state, identity_index
  <2>2. MembersMerged'
    BY <1>3, <2>1 DEF MembersMerged
  <2>3. LifecycleLeads'
    BY <1>3, <2>1 DEF LifecycleLeads
  <2> QED
    BY <2>2, <2>3
<1>6. CASE Apply
  <2>1. /\ inflight # None /\ inflight' = inflight /\ cursor \in DOMAIN inflight.commands
        /\ cursor' \in {cursor, cursor + 1}
    <3>1. CASE \E t \in targets : Deactivate(t)
      BY <1>1, <3>1 DEF Deactivate, ValidationHolds
    <3>2. CASE ~\E t \in targets : Deactivate(t)
      BY <1>6, <3>2 DEF Apply, Applying, Advance, PersistObservation, CommitResolution,
         CreateIdentity, Promote, ChangeStatus, Merge, Split, Revert, EnqueueMaterialization,
         Materialized
    <3> QED
      BY <3>1, <3>2
  <2>2. /\ inflight \in CommandEnvelope /\ cursor \in 1..Len(inflight.commands) /\ cursor \in Nat
        /\ Len(inflight.commands) \in Nat /\ command \in Command
        /\ next_version \in 1..MaxVersion
    BY <1>1, <2>1, InFlight, EnvelopeFields
  <2>3. CASE PersistObservation \/ Revert \/ EnqueueMaterialization \/ Materialized
    <3>1. Kept
      BY <2>3 DEF PersistObservation, Revert, EnqueueMaterialization, Materialized, state,
         identity_index
    <3>2. MembersMerged'
      BY <1>3, <3>1 DEF MembersMerged
    <3>3. LifecycleLeads'
      BY <1>3, <2>1, <2>2, <3>1, LifecycleKept
    <3> QED
      BY <3>2, <3>3
  <2>4. CASE Promote \/ Changes
    <3>1. /\ command.identity \in DOMAIN identities /\ Lifecycle(command)
          /\ \E s : identities' = Insert(identities, command.identity, s)
          /\ canonical' = canonical
      <4>1. /\ command.identity \in Identity /\ Uses(command, command.identity)
            /\ Lifecycle(command)
        BY <2>2, <2>4, CommandFields DEF Promote, ChangeStatus, Applying, Uses, Lifecycle
      <4>2. command.identity \in DOMAIN identities
        BY <1>1, <2>1, <4>1, UsedIsKnown
      <4> HIDE DEF command
      <4> QED
        BY <2>4, <4>1, <4>2 DEF Promote, ChangeStatus
    <3>2. canonical[command.identity] = command.identity
      BY <1>3, <2>1, <2>2, <3>1 DEF LifecycleLeads, command
    <3> HIDE DEF command
    <3>3. /\ DOMAIN identities' = DOMAIN identities
          /\ \A id \in DOMAIN identities \ {command.identity} : identities'[id] = identities[id]
      BY <3>1 DEF Insert
    <3>4. MembersMerged'
      BY <1>3, <3>1, <3>2, <3>3 DEF MembersMerged
    <3>5. LifecycleLeads'
      BY <1>3, <2>1, <2>2, <3>1, <3>3, LifecycleKept
    <3> QED
      BY <3>4, <3>5
  <2>5. CASE CreateIdentity \/ CommitResolution
    <3>1. \/ Kept
          \/ \E id \in Identity : /\ id \notin DOMAIN identities
                                 /\ identities' = Insert(identities, id, "Active")
                                 /\ canonical' = InsertCanonical(id)
      <4>1. CreatedHolds(cursor)
        BY <2>1, <2>2 DEF RestHolds
      <4>2. \A id \in Identity : Creates(command, id) => id \notin DOMAIN identities
        BY <4>1 DEF CreatedHolds, command
      <4>3. /\ command.kind = "CreateIdentity" => command.identity \in Identity
            /\ command.kind = "CommitResolution" => command.created \in Identity \cup {None}
        BY <2>2, CommandFields
      <4> HIDE DEF command
      <4> QED
        BY <2>5, <4>2, <4>3 DEF CreateIdentity, CommitResolution, Applying, Creates,
           InsertCanonical
    <3>2. CASE Kept
      <4>1. MembersMerged'
        BY <1>3, <3>2 DEF MembersMerged
      <4>2. LifecycleLeads'
        BY <1>3, <2>1, <2>2, <3>2, LifecycleKept
      <4> QED
        BY <4>1, <4>2
    <3>3. ASSUME NEW id \in Identity, id \notin DOMAIN identities,
                 identities' = Insert(identities, id, "Active"),
                 canonical' = InsertCanonical(id)
          PROVE  MembersMerged' /\ LifecycleLeads'
      <4>1. DOMAIN canonical = DOMAIN identities
        BY DEF CanonicalIsLeast
      <4>2. /\ DOMAIN identities' = DOMAIN identities \cup {id} /\ canonical'[id] = id
            /\ \A a \in DOMAIN identities :
                   canonical'[a] = canonical[a] /\ identities'[a] = identities[a]
        BY <3>3, <4>1 DEF Insert, InsertCanonical
      <4>3. MembersMerged'
        BY <1>3, <4>2 DEF MembersMerged
      <4>4. LifecycleLeads'
        BY <1>3, <2>1, <2>2, <4>2, LifecycleKept
      <4> QED
        BY <4>3, <4>4
    <3> QED
      BY <3>1, <3>2, <3>3
  <2>6. CASE Merge
    <3> DEFINE l == canonical[command.left]
               r == canonical[command.right]
    <3>1. /\ command.kind = "Merge" /\ cursor' = cursor + 1
          /\ canonical' = Union(canonical, command.left, command.right)
          /\ identities' = IF l = r THEN identities
                           ELSE UnionStatuses(identities, Least({l, r}), Greatest({l, r}))
      BY <2>6 DEF Merge, Applying, Advance
    <3>2. LifecycleLeads'
      <4>1. \A i \in (cursor + 1)..Len(inflight.commands) : ~Lifecycle(inflight.commands[i])
        <5> SUFFICES ASSUME NEW i \in (cursor + 1)..Len(inflight.commands),
                            Lifecycle(inflight.commands[i])
                     PROVE  FALSE
          OBVIOUS
        <5>1. i \in DOMAIN inflight.commands /\ cursor < i
          BY <2>2, EnvelopeFields
        <5> QED
          BY <1>2, <2>1, <3>1, <5>1 DEF NoneMisled, Misled, Lifecycle, command
      <4> QED
        BY <2>1, <3>1, <4>1 DEF LifecycleLeads
    <3>3. command.left \in DOMAIN identities /\ command.right \in DOMAIN identities
      BY <1>1, <2>1, <2>2, <3>1, CommandFields, UsedIsKnown DEF Uses
    <3> HIDE DEF command
    <3>4. /\ l \in DOMAIN identities /\ r \in DOMAIN identities /\ l \in Nat /\ r \in Nat
          /\ DOMAIN canonical = DOMAIN identities
      BY <1>1, <3>3, LedgerAssumption DEF IdentityTypeOK
    <3>5. canonical[l] = l /\ canonical[r] = r
      <4>1. \A a \in DOMAIN identities : canonical[a] = Least(Class(a))
        BY DEF CanonicalIsLeast, Class
      <4>2. l \in Class(command.left) /\ r \in Class(command.right)
        BY <1>1, <3>3, <4>1, ClassLeast
      <4>3. Class(l) = Class(command.left) /\ Class(r) = Class(command.right)
        BY <1>1, <3>3, <3>4, <4>2, ClassLeast
      <4> QED
        BY <3>3, <3>4, <4>1, <4>3
    <3> HIDE DEF l, r
    <3>6. ASSUME NEW id \in DOMAIN identities', canonical'[id] # id
          PROVE  identities'[id] = "Merged"
      <4> DEFINE least == Least({l, r})
                 greatest == Greatest({l, r})
      <4>1. /\ least \in {l, r} /\ greatest \in {l, r} /\ {least, greatest} = {l, r}
        BY <3>4 DEF Least, Greatest
      <4> HIDE DEF least, greatest
      <4>2. id \in DOMAIN identities
        BY <3>1 DEF UnionStatuses
      <4>3. canonical'[id] = IF canonical[id] = greatest THEN least ELSE canonical[id]
        BY <3>1, <3>4, <4>2 DEF Union, l, r, least, greatest
      <4>4. CASE l = r
        <5>1. canonical[id] # id
          BY <3>6, <4>1, <4>3, <4>4
        <5> QED
          BY <1>3, <3>1, <4>2, <4>4, <5>1 DEF MembersMerged
      <4>5. CASE l # r /\ id = greatest
        BY <3>1, <4>1, <4>2, <4>5 DEF UnionStatuses, least, greatest
      <4>6. CASE l # r /\ id # greatest
        <5>1. canonical[id] # id
          BY <3>6, <4>3, <4>6
        <5>2. id # least
          BY <3>5, <4>1, <5>1
        <5>3. identities'[id] = identities[id]
          BY <3>1, <4>2, <4>6, <5>2 DEF UnionStatuses, least, greatest
        <5> QED
          BY <1>3, <4>2, <5>1, <5>3 DEF MembersMerged
      <4> QED
        BY <4>4, <4>5, <4>6
    <3> QED
      BY <3>2, <3>6 DEF MembersMerged
  <2>7. ASSUME NEW S, NEW statuses, DOMAIN statuses = DOMAIN identities,
               merges' = CloseMerges(S),
               identities' = RebuildStatuses(statuses, canonical')
        PROVE  MembersMerged' /\ LifecycleLeads'
    <3>1. DOMAIN identities' = DOMAIN identities
      BY <2>7 DEF RebuildStatuses
    <3>2. OpenEdges(merges') \subseteq OpenEdges(merges)
      BY <1>1, <2>2, <2>7, ClosedEdges
    <3>3. \A id \in DOMAIN identities : canonical[id] = id => canonical'[id] = id
      BY <1>1, <3>1, <3>2, LeadersKept
    <3>4. LifecycleLeads'
      BY <1>3, <2>1, <2>2, <3>1, <3>3, LifecycleKept
    <3>5. MembersMerged'
      BY <2>7, RebuiltMembers
    <3> QED
      BY <3>4, <3>5
  <2>8. CASE Split
    <3> DEFINE named == {p.identity : p \in command.partitions}
               statuses == [id \in DOMAIN identities |->
                                IF id \in named THEN "Active" ELSE identities[id]]
    <3>1. /\ merges' = CloseMerges(command.close_merges)
          /\ identities' = RebuildStatuses(statuses, canonical')
      BY <2>8 DEF Split
    <3>2. DOMAIN statuses = DOMAIN identities
      OBVIOUS
    <3> HIDE DEF statuses
    <3> QED
      BY <2>7, <3>1, <3>2
  <2>9. ASSUME NEW t \in targets, Deactivate(t) PROVE MembersMerged' /\ LifecycleLeads'
    <3>1. /\ merges' = CloseMerges(OpenMergesOf(t))
          /\ identities' = RebuildStatuses(identities, canonical')
      BY <2>9 DEF Deactivate
    <3> QED
      BY <2>7, <3>1
  <2> QED
    BY <1>6, <2>3, <2>4, <2>5, <2>6, <2>8, <2>9 DEF Apply
<1> QED
  BY <1>4, <1>5, <1>6 DEF TableStep

(* Whoever does not represent its merge class is Merged, unless a          *)
(* lifecycle command was misled: Merge demotes the representative that     *)
(* loses, a rebuild demotes every other member, and validate lets          *)
(* lifecycle commands write representatives only.                          *)
THEOREM MembersStayMerged == Spec => []MembersAreMerged
<1>1. Init => RestHolds /\ CanonicalIsLeast /\ MembersInv
  BY DEF Init, Empty, EmptyMap, RestHolds, CanonicalIsLeast, MembersInv, MembersMerged,
         LifecycleLeads
<1>2. MembersInv => MembersAreMerged
  BY DEF MembersInv, NoneMisled, MembersMerged, MembersAreMerged, Settled
<1> QED
  BY <1>1, <1>2, InitInv, StepInv, NextIsStep, RestStep, ClassesStep, MembersStep, PTL DEF Spec
=============================================================================
