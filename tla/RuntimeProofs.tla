---------------------------- MODULE RuntimeProofs ----------------------------
(***************************************************************************)
(* The runtime over its ledger and its host, for every set of batches,     *)
(* every pool of identifiers and any number of restarts: no answer of the  *)
(* ledger is an old one, the host holds what the outbox asks for, a batch  *)
(* is resolved once and as a whole, what a call returns is so, and the hot *)
(* workspace follows the log.                                              *)
(***************************************************************************)
EXTENDS RuntimeProperties, LedgerViewProofs, FiniteSetTheorems

-----------------------------------------------------------------------------
(***************************************************************************)
(* Types of the runtime's own state.                                       *)
(***************************************************************************)
Submitting == {"evidence", "resolution", "receipt"}

Phase == Submitting \cup {"idle", "inference", "deciding", "caching", "delivering",
                          "confirming", "retrying"}

HostWrite == [materialization: Materialization, decision: Decision, relation: Relation]

CallType ==
    [phase: Phase, since: Nat, batch: Seq(Observation), retried: Materialization \cup {None},
     persistence: Transaction \cup {None}, reached: Nat, provenance: BOOLEAN,
     decisions: Seq(Decision), commands: Seq(Command),
     associations: Seq([observation: Observation, version: Nat, identity: Identity]),
     writes: Seq(HostWrite), pending: Seq(Materialization)]

IdsTypeOK ==
    /\ ids \in [DOMAIN LastId -> Nat]
    /\ \A s \in DOMAIN LastId : 1 <= ids[s] /\ ids[s] <= LastId[s]

(* Evidence is of a batch that is not empty, and a host write is confirmed *)
(* or retried only if there is one.                                        *)
CallTypeOK ==
    /\ call \in CallType
    /\ call.phase \in {"evidence", "inference", "deciding"} => call.batch # <<>>
    /\ call.phase \in {"confirming", "receipt", "retrying"} => call.writes # <<>>

RuntimeTypeOK == IdsTypeOK /\ CallTypeOK

PoolName == {"transactions", "inferences", "decisions", "identities", "materializations"}

(* The number a sequence gives out is an identifier.                       *)
LEMMA PoolNumbers ==
    ASSUME IdsTypeOK
    PROVE  /\ ids.transactions # LastId.transactions =>
                  ids.transactions \in Transaction /\ ids.transactions \in Key
           /\ ids.inferences # LastId.inferences => ids.inferences \in Inference
           /\ ids.decisions # LastId.decisions => ids.decisions \in Decision
           /\ ids.identities # LastId.identities => ids.identities \in Identity
           /\ ids.materializations # LastId.materializations =>
                  ids.materializations \in Materialization
<1>1. DOMAIN LastId = {"transactions", "inferences", "decisions", "identities",
                       "materializations"}
  BY RuntimeAssumption
<1>2. \A s \in DOMAIN LastId :
          LastId[s] \in Nat /\ ids[s] \in Nat /\ 1 <= ids[s] /\ ids[s] <= LastId[s]
  BY RuntimeAssumption DEF IdsTypeOK
<1>3. \A s \in DOMAIN LastId : ids[s] # LastId[s] => ids[s] \in 1..(LastId[s] - 1)
  BY <1>2
<1> QED
  BY <1>1, <1>3, PoolAssumption

(* A sequence that has given out numbers is in its range still.            *)
LEMMA DrawnType ==
    ASSUME IdsTypeOK, NEW names \in Seq(PoolName), ids' = Drawn(names)
    PROVE  IdsTypeOK'
<1>1. \A s \in DOMAIN LastId :
          LastId[s] \in Nat /\ ids[s] \in Nat /\ 1 <= ids[s] /\ ids[s] <= LastId[s]
  BY RuntimeAssumption DEF IdsTypeOK
<1>2. DOMAIN ids = DOMAIN LastId
  BY DEF IdsTypeOK
<1>3. ASSUME NEW s \in DOMAIN LastId
      PROVE  ids'[s] \in Nat /\ 1 <= ids'[s] /\ ids'[s] <= LastId[s]
  <2>1. CASE \E i \in DOMAIN names :
                 names[i] = s /\ \A j \in 1..i : ids[names[j]] < LastId[names[j]]
    <3>1. ids'[s] = ids[s] + 1
      BY <1>2, <2>1 DEF Drawn
    <3>2. \A i \in DOMAIN names : i \in 1..i
      OBVIOUS
    <3>3. ids[s] < LastId[s]
      BY <2>1, <3>2
    <3> QED
      BY <1>1, <3>1, <3>3
  <2>2. CASE ~\E i \in DOMAIN names :
                 names[i] = s /\ \A j \in 1..i : ids[names[j]] < LastId[names[j]]
    <3>1. ids'[s] = ids[s]
      BY <1>2, <2>2 DEF Drawn
    <3> QED
      BY <1>1, <3>1
  <2> QED
    BY <2>1, <2>2
<1> QED
  BY <1>2, <1>3 DEF IdsTypeOK, Drawn

(* What the pool makes of a body of commands is an envelope.               *)
LEMMA NextEnvelopeType ==
    ASSUME IdsTypeOK, ~Exhausted(<<"transactions">>),
           NEW expected \in Nat, NEW depends \in SUBSET Transaction,
           NEW body \in Seq(Command), body # <<>>
    PROVE  NextEnvelope(expected, depends, body) \in CommandEnvelope
<1>1. ids.transactions # LastId.transactions
  BY DEF Exhausted
<1> QED
  BY <1>1, PoolNumbers DEF NextEnvelope, CommandEnvelope

(* The commands that persist a batch are commands.                         *)
LEMMA PersistType ==
    ASSUME NEW b \in Batch
    PROVE  /\ Persist(b) \in Seq(Command) /\ DOMAIN Persist(b) = DOMAIN b
           /\ Observations(b) \in Seq(Observation) /\ DOMAIN Observations(b) = DOMAIN b
           /\ b # <<>> => Persist(b) # <<>> /\ Observations(b) # <<>>
           /\ \A i \in DOMAIN b : /\ Persist(b)[i].kind = "PersistObservation"
                                  /\ Persist(b)[i].observation = Observations(b)[i]
<1> DEFINE Evidence == [observation: Observation, supersedes: Observation \cup {None}]
           n == Len(b)
<1>1. b \in Seq(Evidence) /\ \A i \in DOMAIN b : b[i].supersedes # b[i].observation
  BY BatchAssumption
<1>2. n \in Nat /\ DOMAIN b = 1..n /\ \A i \in 1..n : b[i] \in Evidence
  <2> HIDE DEF Evidence
  <2> QED
    BY <1>1
<1>3. \A i \in 1..n : Persist(b)[i] \in Command /\ Observations(b)[i] \in Observation
  BY <1>1, <1>2 DEF Persist, Observations, Command
<1>4. /\ Persist(b) = [i \in 1..n |-> Persist(b)[i]]
      /\ Observations(b) = [i \in 1..n |-> Observations(b)[i]]
  BY <1>2 DEF Persist, Observations
<1> HIDE DEF n
<1>5. Persist(b) \in Seq(Command) /\ Observations(b) \in Seq(Observation)
  BY <1>2, <1>3, <1>4
<1> QED
  BY <1>2, <1>5 DEF Persist, Observations

(* So is the command of a receipt.                                        *)
LEMMA ReceiptType ==
    ASSUME NEW w \in HostWrite
    PROVE  <<[kind |-> "Materialized", materialization |-> w.materialization,
              decision |-> w.decision]>> \in Seq(Command) \ {<<>>}
BY DEF HostWrite, Command

(* What is in a concatenation, and where.                                  *)
LEMMA ConcatMembers ==
    ASSUME NEW S, NEW a \in Seq(S), NEW b \in Seq(S)
    PROVE  /\ a \o b \in Seq(S) /\ Len(a \o b) = Len(a) + Len(b)
           /\ Len(a) \in Nat /\ Len(b) \in Nat
           /\ DOMAIN a = 1..Len(a) /\ DOMAIN b = 1..Len(b)
           /\ DOMAIN (a \o b) = 1..(Len(a) + Len(b))
           /\ \A i \in DOMAIN a : i \in DOMAIN (a \o b) /\ (a \o b)[i] = a[i]
           /\ \A i \in DOMAIN b : /\ Len(a) + i \in DOMAIN (a \o b)
                                 /\ (a \o b)[Len(a) + i] = b[i]
           /\ \A i \in DOMAIN (a \o b) : i \notin DOMAIN a => i - Len(a) \in DOMAIN b
<1>1. /\ a \o b \in Seq(S) /\ Len(a \o b) = Len(a) + Len(b)
      /\ Len(a) \in Nat /\ Len(b) \in Nat
      /\ DOMAIN a = 1..Len(a) /\ DOMAIN b = 1..Len(b)
      /\ DOMAIN (a \o b) = 1..(Len(a) + Len(b))
  OBVIOUS
<1>2. ASSUME NEW i \in DOMAIN a PROVE i \in DOMAIN (a \o b) /\ (a \o b)[i] = a[i]
  BY <1>1
<1>3. ASSUME NEW i \in DOMAIN b
      PROVE  Len(a) + i \in DOMAIN (a \o b) /\ (a \o b)[Len(a) + i] = b[i]
  BY <1>1
<1> QED
  BY <1>1, <1>2, <1>3

Within(v, names) == \E i \in DOMAIN names : names[i] = v

(* A concatenation holds what its parts hold.                              *)
LEMMA WithinConcat ==
    ASSUME NEW S, NEW a \in Seq(S), NEW b \in Seq(S), NEW v, Within(v, a) \/ Within(v, b)
    PROVE  Within(v, a \o b)
<1>1. CASE Within(v, a)
  <2>1. PICK i \in DOMAIN a : a[i] = v
    BY <1>1 DEF Within
  <2> QED
    BY <2>1, ConcatMembers DEF Within
<1>2. CASE Within(v, b)
  <2>1. PICK i \in DOMAIN b : b[i] = v
    BY <1>2 DEF Within
  <2>2. Len(a) + i \in DOMAIN (a \o b) /\ (a \o b)[Len(a) + i] = v
    BY <2>1, ConcatMembers
  <2> QED
    BY <2>2 DEF Within
<1> QED
  BY <1>1, <1>2

(* One turn of the loop draws an inference and a decision, and an identity *)
(* and a materialization if there are any.                                 *)
LEMMA DrawnNames ==
    ASSUME NEW action, NEW relation
    PROVE  /\ DrawnFor(action, relation) \in Seq(PoolName)
           /\ Within("inferences", DrawnFor(action, relation))
           /\ Within("decisions", DrawnFor(action, relation))
           /\ action.name = "CreateIdentity" => Within("identities", DrawnFor(action, relation))
           /\ relation # None => Within("materializations", DrawnFor(action, relation))
<1> DEFINE base == <<"inferences", "decisions">>
           identity == IF action.name = "CreateIdentity" THEN <<"identities">> ELSE <<>>
           writes == IF relation # None THEN <<"materializations">> ELSE <<>>
<1>1. base \in Seq(PoolName) /\ Within("inferences", base) /\ Within("decisions", base)
  <2>1. 1 \in DOMAIN base /\ 2 \in DOMAIN base
    OBVIOUS
  <2>2. base[1] = "inferences" /\ base[2] = "decisions" /\ base \in Seq(PoolName)
    BY DEF PoolName
  <2> QED
    BY <2>1, <2>2 DEF Within
<1> DEFINE One(v) == <<v>>
<1>0. \A v \in PoolName : One(v) \in Seq(PoolName) /\ Within(v, One(v))
  <2> SUFFICES ASSUME NEW v \in PoolName PROVE One(v) \in Seq(PoolName) /\ Within(v, One(v))
    OBVIOUS
  <2>1. One(v) \in Seq(PoolName) /\ 1 \in DOMAIN One(v) /\ One(v)[1] = v
    OBVIOUS
  <2> QED
    BY <2>1 DEF Within
<1>2. identity \in Seq(PoolName) /\ (action.name = "CreateIdentity" => Within("identities", identity))
  <2>1. CASE action.name = "CreateIdentity"
    BY <1>0, <2>1 DEF PoolName
  <2>2. CASE action.name # "CreateIdentity"
    BY <2>2
  <2> QED
    BY <2>1, <2>2
<1>3. writes \in Seq(PoolName) /\ (relation # None => Within("materializations", writes))
  <2>1. CASE relation # None
    BY <1>0, <2>1 DEF PoolName
  <2>2. CASE relation = None
    BY <2>2
  <2> QED
    BY <2>1, <2>2
<1>4. DrawnFor(action, relation) = (base \o identity) \o writes
  BY DEF DrawnFor
<1> HIDE DEF base, identity, writes
<1>5. base \o identity \in Seq(PoolName)
  BY <1>1, <1>2, ConcatMembers
<1>6. (base \o identity) \o writes \in Seq(PoolName)
  BY <1>3, <1>5, ConcatMembers
<1>7. \A v : Within(v, base) \/ Within(v, identity) \/ Within(v, writes) =>
                 Within(v, (base \o identity) \o writes)
  BY <1>1, <1>2, <1>3, <1>5, WithinConcat
<1> QED
  BY <1>1, <1>2, <1>3, <1>4, <1>6, <1>7

(* The records of a turn of the loop, for the observation it is at.        *)
DecidedWrites(relation) == IF relation = None THEN <<>> ELSE <<Planned(relation)>>

DecidedCommands(o, action, relation) ==
    Append(call.commands, Resolution(o, action))
        \o [i \in DOMAIN DecidedWrites(relation) |-> Enqueue(DecidedWrites(relation)[i])]

(* They have the types of commands and host writes.                        *)
LEMMA DecidedTypes ==
    ASSUME RuntimeTypeOK, NEW action \in Outcome, NEW relation \in Relation \cup {None},
           NEW o \in Observation, ~Exhausted(DrawnFor(action, relation))
    PROVE  /\ ids.decisions \in Decision
           /\ Associated(action) \subseteq Identity
           /\ Cardinality(Associated(action)) \in Nat
           /\ Cardinality(Associated(action)) # 0 => Associated(action) # {}
           /\ Resolution(o, action) \in Command
           /\ DecidedWrites(relation) \in Seq(HostWrite)
           /\ \A i \in DOMAIN DecidedWrites(relation) :
                  Enqueue(DecidedWrites(relation)[i]) \in Command
           /\ DecidedCommands(o, action, relation) \in Seq(Command)
<1> DEFINE names == DrawnFor(action, relation)
<1>1. \A i \in DOMAIN names : ids[names[i]] # LastId[names[i]]
  BY DEF Exhausted
<1> HIDE DEF names
<1>2. /\ ids.inferences # LastId.inferences /\ ids.decisions # LastId.decisions
      /\ action.name = "CreateIdentity" => ids.identities # LastId.identities
      /\ relation # None => ids.materializations # LastId.materializations
  <2>1. \A s : Within(s, names) => ids[s] # LastId[s]
    BY <1>1 DEF Within
  <2> QED
    BY <2>1, DrawnNames DEF names
<1>3. /\ ids.inferences \in Inference /\ ids.decisions \in Decision
      /\ action.name = "CreateIdentity" => ids.identities \in Identity
      /\ relation # None => ids.materializations \in Materialization
  BY <1>2, PoolNumbers DEF RuntimeTypeOK
<1>4. action \in Action /\ (action.name = "AssignLatent" => action.identity \in Identity)
  BY RuntimeAssumption DEF Action
<1>5. Associated(action) \subseteq Identity /\ Cardinality(Associated(action)) \in Nat
      /\ (Cardinality(Associated(action)) # 0 => Associated(action) # {})
  <2>1. CASE Associated(action) = {}
    BY <2>1, FS_EmptySet
  <2>2. ASSUME NEW id \in Identity, Associated(action) = {id}
        PROVE  Cardinality(Associated(action)) = 1
    BY <2>2, FS_Singleton
  <2>3. Associated(action) = {} \/ \E id \in Identity : Associated(action) = {id}
    BY <1>3, <1>4 DEF Associated
  <2> QED
    BY <2>1, <2>2, <2>3
<1>6. Resolution(o, action) \in Command
  <2>1. call.reached + 1 \in Nat /\ call.provenance \in BOOLEAN
    BY DEF RuntimeTypeOK, CallTypeOK, CallType
  <2> QED
    BY <1>3, <1>4, <2>1 DEF Resolution, Command
<1>7. DecidedWrites(relation) \in Seq(HostWrite)
      /\ \A i \in DOMAIN DecidedWrites(relation) :
             Enqueue(DecidedWrites(relation)[i]) \in Command
  <2>1. CASE relation = None
    BY <2>1 DEF DecidedWrites
  <2>2. CASE relation # None
    <3>1. Planned(relation) \in HostWrite /\ Enqueue(Planned(relation)) \in Command
      BY <1>3, <2>2 DEF Planned, HostWrite, Enqueue, Command
    <3> QED
      BY <2>2, <3>1 DEF DecidedWrites
  <2> QED
    BY <2>1, <2>2
<1>8. DecidedCommands(o, action, relation) \in Seq(Command)
  <2>1. call.commands \in Seq(Command)
    BY DEF RuntimeTypeOK, CallTypeOK, CallType
  <2> DEFINE w == DecidedWrites(relation)
             n == Len(w)
  <2>2. n \in Nat /\ DOMAIN w = 1..n
    BY <1>7
  <2>3. [i \in DOMAIN w |-> Enqueue(w[i])] \in Seq(Command)
    <3> HIDE DEF w, n
    <3>1. \A i \in 1..n : Enqueue(w[i]) \in Command
      BY <1>7, <2>2 DEF w
    <3> QED
      BY <2>2, <3>1
  <2>4. Append(call.commands, Resolution(o, action)) \in Seq(Command)
    BY <1>6, <2>1
  <2> HIDE DEF w
  <2> QED
    BY <2>3, <2>4 DEF DecidedCommands, w
<1> QED
  BY <1>3, <1>5, <1>6, <1>7, <1>8

(* Where they stand: the commands of a turn come after those of the turns  *)
(* before, its resolution first, and each host write has one.              *)
LEMMA DecidedEnd ==
    ASSUME RuntimeTypeOK, NEW action \in Outcome, NEW relation \in Relation \cup {None},
           NEW o \in Observation, ~Exhausted(DrawnFor(action, relation))
    PROVE  LET all == DecidedCommands(o, action, relation)
               n == Len(call.commands) + 1
           IN  /\ n \in Nat /\ DOMAIN call.commands = 1..(n - 1)
               /\ all # <<>> /\ all[n] = Resolution(o, action) /\ n \in DOMAIN all
               /\ \A i \in DOMAIN call.commands : i \in DOMAIN all /\ all[i] = call.commands[i]
               /\ \A i \in DOMAIN all :
                      \/ i \in 1..n
                      \/ i = n + 1 /\ relation # None /\ all[i] = Enqueue(Planned(relation))
               /\ relation # None => n + 1 \in DOMAIN all
<1> DEFINE w == DecidedWrites(relation)
           a == Append(call.commands, Resolution(o, action))
           b == [i \in DOMAIN w |-> Enqueue(w[i])]
           n == Len(call.commands) + 1
<1>1. /\ call.commands \in Seq(Command) /\ Resolution(o, action) \in Command
      /\ w \in Seq(HostWrite) /\ \A i \in DOMAIN w : Enqueue(w[i]) \in Command
  BY DecidedTypes DEF RuntimeTypeOK, CallTypeOK, CallType
<1>2. /\ a \in Seq(Command) /\ Len(a) = n /\ n \in Nat /\ DOMAIN call.commands = 1..(n - 1)
      /\ a[n] = Resolution(o, action) /\ DOMAIN a = 1..n
      /\ \A i \in DOMAIN call.commands : a[i] = call.commands[i]
  BY <1>1
<1>3. /\ relation = None => b = <<>>
      /\ relation # None => b = <<Enqueue(Planned(relation))>>
  BY DEF DecidedWrites
<1>4. b \in Seq(Command)
  <2>1. CASE relation = None
    BY <1>3, <2>1
  <2>2. CASE relation # None
    <3>1. Enqueue(Planned(relation)) \in Command
      BY <1>1, <2>2 DEF DecidedWrites
    <3> HIDE DEF b
    <3> QED
      BY <1>3, <2>2, <3>1
  <2> QED
    BY <2>1, <2>2
<1>5. /\ relation = None => DOMAIN b = {}
      /\ relation # None => DOMAIN b = {1} /\ b[1] = Enqueue(Planned(relation))
  BY <1>3
<1>6. DecidedCommands(o, action, relation) = a \o b
  BY DEF DecidedCommands
<1> HIDE DEF a, b, n, w
<1>7. /\ DOMAIN (a \o b) = 1..(n + Len(b)) /\ Len(b) \in Nat
      /\ \A i \in 1..n : i \in DOMAIN (a \o b) /\ (a \o b)[i] = a[i]
      /\ \A i \in DOMAIN b : n + i \in DOMAIN (a \o b) /\ (a \o b)[n + i] = b[i]
      /\ \A i \in DOMAIN (a \o b) : i \notin 1..n => i - n \in DOMAIN b
  <2>1. /\ DOMAIN (a \o b) = 1..(Len(a) + Len(b)) /\ Len(b) \in Nat
        /\ \A i \in DOMAIN a : i \in DOMAIN (a \o b) /\ (a \o b)[i] = a[i]
        /\ \A i \in DOMAIN b : /\ Len(a) + i \in DOMAIN (a \o b)
                              /\ (a \o b)[Len(a) + i] = b[i]
        /\ \A i \in DOMAIN (a \o b) : i \notin DOMAIN a => i - Len(a) \in DOMAIN b
    <3>1. a \in Seq(Command) /\ b \in Seq(Command)
      BY <1>2, <1>4
    <3> QED
      BY <3>1, ConcatMembers
  <2> DEFINE ab == a \o b
  <2> HIDE DEF ab
  <2> QED
    BY <1>2, <2>1 DEF ab
<1>8. n \in 1..n /\ \A i \in DOMAIN call.commands : i \in 1..n
  BY <1>2 DEF n
<1>9. ASSUME NEW i \in DOMAIN (a \o b), i \notin 1..n
      PROVE  i = n + 1 /\ relation # None /\ (a \o b)[i] = Enqueue(Planned(relation))
  <2>1. i - n \in DOMAIN b /\ i \in Nat
    BY <1>2, <1>7, <1>9
  <2>2. i - n = 1 /\ relation # None
    BY <1>5, <2>1
  <2>3. i = n + 1
    BY <1>2, <2>1, <2>2
  <2> QED
    BY <1>5, <1>7, <2>1, <2>2, <2>3
<1>10. (a \o b) # <<>>
  BY <1>7, <1>8
<1> QED
  BY <1>2, <1>5, <1>6, <1>7, <1>8, <1>9, <1>10 DEF n

(* The first call, and a call that has ended.                              *)
LEMMA NoCallType == NoCall \in CallType /\ NoCall.phase = "idle"
BY DEF NoCall, CallType, Phase

(* The runtime starts well typed.                                          *)
LEMMA InitRuntimeType == RuntimeInit => RuntimeTypeOK
<1> SUFFICES ASSUME RuntimeInit PROVE RuntimeTypeOK
  OBVIOUS
<1>1. IdsTypeOK
  BY RuntimeAssumption DEF RuntimeInit, FreshIds, IdsTypeOK
<1> QED
  BY <1>1, NoCallType DEF RuntimeInit, RuntimeTypeOK, CallTypeOK

(* Every step of the runtime keeps the types.                              *)
LEMMA RuntimeTypeStep ==
    TypeOK /\ RuntimeTypeOK /\ [RuntimeNext]_allvars => RuntimeTypeOK'
<1> SUFFICES ASSUME TypeOK, RuntimeTypeOK, [RuntimeNext]_allvars PROVE RuntimeTypeOK'
  OBVIOUS
<1> USE DEF RuntimeTypeOK
<1>1. version \in Nat /\ outcome.version \in Nat /\ Settled = (inflight = None)
  BY LedgerAssumption DEF TypeOK, LogTypeOK, ControlTypeOK, Settled
<1>2. <<"transactions">> \in Seq(PoolName)
  BY DEF PoolName
<1>3. (\E names \in Seq(PoolName) : ids' = Drawn(names)) => IdsTypeOK'
  BY DrawnType
<1>4. ids' = ids => IdsTypeOK'
  BY DEF IdsTypeOK
<1>5. call' = call => CallTypeOK'
  BY DEF CallTypeOK
<1>6. call' = NoCall => CallTypeOK'
  BY NoCallType DEF CallTypeOK
<1>7. ASSUME NEW b \in Batch, Begin(b) PROVE RuntimeTypeOK'
  <2>1. ids.transactions \in Transaction
    BY <1>7, PoolNumbers DEF Begin, Exhausted
  <2>2. call' \in CallType /\ call'.phase = "evidence" /\ call'.batch # <<>>
    <3>1. Observations(b) \in Seq(Observation) /\ Observations(b) # <<>>
      BY <1>7, PersistType DEF Begin
    <3>2. call' = [NoCall EXCEPT !.phase = "evidence", !.since = version,
                                 !.batch = Observations(b), !.persistence = ids.transactions]
      BY <1>7 DEF Begin
    <3> QED
      BY <1>1, <2>1, <3>1, <3>2, NoCallType DEF CallType, Phase, Submitting
  <2> QED
    BY <1>2, <1>3, <1>7, <2>2 DEF Begin, CallTypeOK
<1>8. ASSUME NEW b \in Batch, BeginFails(b) PROVE RuntimeTypeOK'
  BY <1>4, <1>5, <1>8 DEF BeginFails
<1>9. ASSUME NEW m \in Materialization, Retry(m) PROVE RuntimeTypeOK'
  <2>1. outbox[m].commit \in Nat /\ outbox[m].decision \in Decision /\ outbox[m].relation \in Relation
    BY <1>9, LedgerAssumption DEF Retry, TypeOK, DeliveryTypeOK
  <2>2. call' \in CallType /\ call'.phase = "retrying" /\ call'.writes # <<>>
    <3> DEFINE w == [materialization |-> m, decision |-> outbox[m].decision,
                     relation |-> outbox[m].relation]
               entries == <<w>>
    <3>1. entries \in Seq(HostWrite) /\ entries # <<>>
      <4>1. w \in HostWrite
        BY <2>1 DEF HostWrite
      <4> HIDE DEF w
      <4> QED
        BY <4>1
    <3>2. call' = [NoCall EXCEPT !.phase = "retrying", !.since = version, !.retried = m,
                                 !.reached = outbox[m].commit, !.writes = entries]
      BY <1>9 DEF Retry
    <3> HIDE DEF entries
    <3> QED
      BY <1>1, <2>1, <3>1, <3>2, NoCallType DEF CallType, Phase
  <2> QED
    BY <1>4, <1>9, <2>2 DEF Retry, CallTypeOK
<1>10. ASSUME NEW m \in Materialization, RetryAnswered(m) PROVE RuntimeTypeOK'
  BY <1>4, <1>5, <1>10 DEF RetryAnswered
<1>11. CASE LedgerStep
  BY <1>4, <1>5, <1>11 DEF LedgerStep, runtimevars
<1>12. CASE \/ Refused \/ InferenceFails \/ StaleCommit \/ TransactionsExhausted \/ Finish
            \/ RetryFails
  BY <1>4, <1>6, <1>12 DEF Refused, InferenceFails, StaleCommit, TransactionsExhausted, Finish,
     RetryFails, Fail, Return
<1>13. CASE EvidenceCommitted
  BY <1>1, <1>4, <1>13 DEF EvidenceCommitted, InPhase, CallTypeOK, CallType, Phase
<1>14. CASE Infer
  BY <1>1, <1>4, <1>14 DEF Infer, InPhase, CallTypeOK, CallType, Phase
<1>15. ASSUME NEW action \in Outcome, NEW relation \in Relation \cup {None},
              Decide(action, relation)
       PROVE  RuntimeTypeOK'
  <2> DEFINE o == call.batch[Len(call.decisions) + 1]
             S == Associated(action)
             updates == [i \in 1..Cardinality(S) |->
                            [observation |-> o, version |-> call.reached + 1,
                             identity |-> CHOOSE id \in S : TRUE]]
             T == [observation: Observation, version: Nat, identity: Identity]
  <2>1. call \in CallType /\ call.phase = "deciding" /\ call.batch # <<>>
    BY <1>15 DEF Decide, Undecided, InPhase, CallTypeOK
  <2>2. o \in Observation
    BY <1>15, <2>1 DEF Decide, Undecided, CallType
  <2>3. /\ ids.decisions \in Decision /\ S \subseteq Identity /\ Cardinality(S) \in Nat
        /\ Cardinality(S) # 0 => S # {}
        /\ DecidedWrites(relation) \in Seq(HostWrite)
        /\ DecidedCommands(o, action, relation) \in Seq(Command)
    <3>1. ~Exhausted(DrawnFor(action, relation))
      BY <1>15 DEF Decide
    <3> HIDE DEF o
    <3> QED
      BY <2>2, <3>1, DecidedTypes
  <2>4. updates \in Seq(T)
    <3>1. call.reached + 1 \in Nat
      BY <2>1 DEF CallType
    <3>2. ASSUME NEW i \in 1..Cardinality(S) PROVE updates[i] \in T
      <4>1. (CHOOSE id \in S : TRUE) \in Identity
        BY <2>3
      <4> QED
        BY <2>2, <3>1, <4>1
    <3> DEFINE n == Cardinality(S)
    <3>3. n \in Nat /\ updates = [i \in 1..n |-> updates[i]] /\ \A i \in 1..n : updates[i] \in T
      BY <2>3, <3>2
    <3> HIDE DEF updates, T, n
    <3> QED
      BY <3>3
  <2>5. call' = [call EXCEPT
            !.decisions = Append(@, ids.decisions),
            !.commands = DecidedCommands(o, action, relation),
            !.associations = @ \o updates,
            !.writes = @ \o DecidedWrites(relation)]
    BY <1>15, <2>1 DEF Decide, DecidedCommands, DecidedWrites, CallType
  <2> HIDE DEF o, S, updates
  <2>6. call' \in CallType /\ call'.phase = "deciding" /\ call'.batch = call.batch
    <3>1. /\ call.decisions \in Seq(Decision) /\ call.associations \in Seq(T)
          /\ call.writes \in Seq(HostWrite)
      BY <2>1 DEF CallType
    <3> DEFINE d == Append(call.decisions, ids.decisions)
               a == call.associations \o updates
               w == call.writes \o DecidedWrites(relation)
    <3>2. d \in Seq(Decision) /\ a \in Seq(T) /\ w \in Seq(HostWrite)
      <4> HIDE DEF T
      <4> QED
        BY <2>3, <2>4, <3>1
    <3>3. call' = [call EXCEPT !.decisions = d, !.commands = DecidedCommands(o, action, relation),
                               !.associations = a, !.writes = w]
      BY <2>5
    <3> HIDE DEF d, a, w
    <3> QED
      BY <2>1, <2>3, <3>2, <3>3 DEF CallType
  <2>7. IdsTypeOK'
    BY <1>3, <1>15, DrawnNames DEF Decide
  <2> QED
    BY <2>1, <2>6, <2>7 DEF CallTypeOK
<1>16. ASSUME NEW action \in Outcome, NEW relation \in Relation \cup {None},
              DecideExhausted(action, relation)
       PROVE  RuntimeTypeOK'
  BY <1>3, <1>6, <1>16, DrawnNames DEF DecideExhausted, Fail, Return
<1>17. CASE CommitResolutions
  BY <1>2, <1>3, <1>17 DEF CommitResolutions, AllDecided, InPhase, CallTypeOK, CallType, Phase,
     Submitting
<1>18. CASE ResolutionCommitted
  BY <1>1, <1>4, <1>18 DEF ResolutionCommitted, InPhase, CallTypeOK, CallType, Phase
<1>19. CASE Cache
  <2> DEFINE T == [observation: Observation, version: Nat, identity: Identity]
             a == Tail(call.associations)
  <2>1. call.associations \in Seq(T) /\ call.associations # <<>>
    BY <1>19 DEF Cache, CallTypeOK, CallType
  <2>2. a \in Seq(T)
    <3> HIDE DEF T
    <3> QED
      BY <2>1
  <2>3. call' = [call EXCEPT !.associations = a] /\ ids' = ids
    BY <1>19 DEF Cache
  <2> HIDE DEF a
  <2>4. call' \in CallType /\ call'.phase = call.phase /\ call'.batch = call.batch
        /\ call'.writes = call.writes
    BY <2>2, <2>3 DEF CallTypeOK, CallType
  <2> QED
    BY <1>4, <2>3, <2>4 DEF CallTypeOK
<1>20. CASE CacheDone
  BY <1>4, <1>20 DEF CacheDone, InPhase, CallTypeOK, CallType, Phase
<1>21. CASE Deliver
  BY <1>4, <1>21 DEF Deliver, InPhase, CallTypeOK, CallType, Phase
<1>22. CASE DeliverFails
  <2>1. write \in HostWrite
    BY <1>22 DEF DeliverFails, write, CallTypeOK, CallType
  <2>2. write.materialization \in Materialization
    BY <2>1 DEF HostWrite
  <2> DEFINE rest == Tail(call.writes)
             failed == Append(call.pending, write.materialization)
  <2>3. rest \in Seq(HostWrite) /\ failed \in Seq(Materialization)
    <3>1. call.writes \in Seq(HostWrite) /\ call.writes # <<>>
          /\ call.pending \in Seq(Materialization)
      BY <1>22 DEF DeliverFails, CallTypeOK, CallType
    <3> HIDE DEF write
    <3> QED
      BY <2>2, <3>1
  <2>4. call' = [call EXCEPT !.writes = rest, !.pending = failed] /\ ids' = ids
        /\ call.phase = "delivering"
    BY <1>22 DEF DeliverFails, InPhase
  <2> HIDE DEF rest, failed
  <2>5. call' \in CallType /\ call'.phase = "delivering"
    BY <2>3, <2>4 DEF CallTypeOK, CallType
  <2> QED
    BY <1>4, <2>4, <2>5 DEF CallTypeOK
<1>23. CASE Confirm
  BY <1>2, <1>3, <1>23 DEF Confirm, InPhase, CallTypeOK, CallType, Phase, Submitting
<1>24. CASE ReceiptCommitted
  <2> DEFINE rest == Tail(call.writes)
  <2>1. rest \in Seq(HostWrite)
    <3>1. call.writes \in Seq(HostWrite) /\ call.writes # <<>>
      BY <1>24 DEF ReceiptCommitted, InPhase, CallTypeOK, CallType
    <3> QED
      BY <3>1
  <2>2. call' = [call EXCEPT !.phase = "delivering", !.writes = rest] /\ ids' = ids
    BY <1>24 DEF ReceiptCommitted
  <2> HIDE DEF rest
  <2>3. call' \in CallType /\ call'.phase = "delivering"
    BY <2>1, <2>2 DEF CallTypeOK, CallType, Phase
  <2> QED
    BY <1>4, <2>2, <2>3 DEF CallTypeOK
<1>25. CASE Restart
  <2>1. IdsTypeOK'
    BY <1>25, RuntimeAssumption DEF Restart, FreshIds, IdsTypeOK
  <2> QED
    BY <1>6, <1>25, <2>1 DEF Restart
<1>26. CASE HostStep \/ UNCHANGED allvars
  BY <1>4, <1>5, <1>26 DEF HostStep, runtimevars, allvars
<1> QED
  BY <1>7, <1>8, <1>9, <1>10, <1>11, <1>12, <1>13, <1>14, <1>15, <1>16, <1>17, <1>18, <1>19, <1>20,
     <1>21, <1>22, <1>23, <1>24, <1>25, <1>26 DEF RuntimeNext, Calls, Running

-----------------------------------------------------------------------------
(***************************************************************************)
(* What the runtime submits, and what the ledger has answered.             *)
(***************************************************************************)
EvidenceOf(b) == NextEnvelope(version, {}, Persist(b))

ResolutionOf == NextEnvelope(call.reached, {call.persistence}, call.commands)

Receipt(w) ==
    <<[kind |-> "Materialized", materialization |-> w.materialization, decision |-> w.decision]>>

ReceiptOf == NextEnvelope(version, {}, Receipt(write))

(* A commit is under way in the phases that wait for one.  The call that   *)
(* decides goes on from the version of its evidence: nobody else commits.  *)
PhaseHolds ==
    /\ inflight # None => call.phase \in Submitting
    /\ call.phase \in {"inference", "deciding"} => call.reached = version
    /\ call.phase \in {"evidence", "inference", "deciding"} => call.persistence \in Transaction
    /\ call.decisions # <<>> => call.commands # <<>>

(* The envelopes of a call are envelopes, computed from the ledger as it   *)
(* is.                                                                     *)
LEMMA SubmittedTypes ==
    ASSUME LedgerInv, RuntimeTypeOK, PhaseHolds
    PROVE  /\ \A b \in Batch : Begin(b) =>
                  /\ EvidenceOf(b) \in CommandEnvelope /\ Submit(EvidenceOf(b))
                  /\ EvidenceOf(b).expected_version = version
           /\ CommitResolutions =>
                  /\ ResolutionOf \in CommandEnvelope /\ Submit(ResolutionOf)
                  /\ ResolutionOf.expected_version = version
           /\ Confirm =>
                  /\ ReceiptOf \in CommandEnvelope /\ Submit(ReceiptOf)
                  /\ ReceiptOf.expected_version = version
<1>1. IdsTypeOK /\ version \in Nat /\ call \in CallType
  BY LedgerAssumption DEF LedgerInv, TypeOK, LogTypeOK, RuntimeTypeOK, CallTypeOK
<1>2. ASSUME NEW b \in Batch, Begin(b)
      PROVE  EvidenceOf(b) \in CommandEnvelope
  BY <1>1, <1>2, PersistType, NextEnvelopeType DEF Begin, EvidenceOf
<1>3. ASSUME CommitResolutions
      PROVE  ResolutionOf \in CommandEnvelope /\ call.reached = version
  <2>1. /\ call.reached \in Nat /\ call.commands \in Seq(Command) /\ call.decisions \in Seq(Decision)
        /\ call.batch \in Seq(Observation)
    BY <1>1 DEF CallType
  <2>2. call.phase = "deciding" /\ Len(call.decisions) = Len(call.batch)
    BY <1>3 DEF CommitResolutions, AllDecided, InPhase
  <2>3. call.batch # <<>> /\ call.persistence \in Transaction /\ call.reached = version
    BY <2>2 DEF RuntimeTypeOK, CallTypeOK, PhaseHolds
  <2>4. call.commands # <<>>
    BY <2>1, <2>2, <2>3 DEF PhaseHolds
  <2> QED
    BY <1>1, <1>3, <2>1, <2>3, <2>4, NextEnvelopeType DEF CommitResolutions, ResolutionOf
<1>4. ASSUME Confirm
      PROVE  ReceiptOf \in CommandEnvelope
  <2>1. call.writes \in Seq(HostWrite) /\ call.writes # <<>>
    BY <1>1, <1>4 DEF CallType, Confirm, InPhase, RuntimeTypeOK, CallTypeOK
  <2>2. write \in HostWrite
    BY <2>1 DEF write
  <2> QED
    BY <1>1, <1>4, <2>2, ReceiptType, NextEnvelopeType DEF Confirm, ReceiptOf, Receipt
<1> QED
  BY <1>2, <1>3, <1>4 DEF Begin, CommitResolutions, Confirm, EvidenceOf, ResolutionOf, ReceiptOf,
     Receipt, NextEnvelope

Submits(e) ==
    /\ e \in CommandEnvelope /\ Submit(e) /\ e.expected_version = version /\ inflight = None
    /\ call'.phase \in Submitting

Commits == (Apply \/ Publish) /\ UNCHANGED <<hostvars, runtimevars>>

Rests ==
    /\ Quiet
    /\ inflight = None \/ UNCHANGED runtimevars
    /\ call' = call \/ call'.phase \notin Submitting
    /\ \/ outcome' = outcome
       \/ inflight = None /\ call' = NoCall /\ outcome' = Answer("None", 0, None)

(* To the ledger a step of the runtime submits an envelope, applies the    *)
(* one that was submitted, or is none.                                     *)
LEMMA RuntimeSteps ==
    ASSUME LedgerInv, RuntimeTypeOK, PhaseHolds, [RuntimeNext]_allvars
    PROVE  \/ \E b \in Batch : Begin(b) /\ Submits(EvidenceOf(b))
           \/ CommitResolutions /\ Submits(ResolutionOf)
           \/ Confirm /\ Submits(ReceiptOf)
           \/ Commits
           \/ Rests
<1>1. ASSUME NEW b \in Batch, Begin(b) PROVE Submits(EvidenceOf(b))
  BY <1>1, SubmittedTypes DEF Submits, Begin, InPhase, Settled, NoCall, Submitting
<1>2. call \in CallType
  BY DEF RuntimeTypeOK, CallTypeOK
<1>3. CASE CommitResolutions
  <2>1. inflight = None /\ call'.phase = "resolution"
    BY <1>2, <1>3 DEF CommitResolutions, AllDecided, InPhase, Settled, CallType
  <2> QED
    BY <1>3, <2>1, SubmittedTypes DEF Submits, Submitting
<1>4. CASE Confirm
  <2>1. inflight = None /\ call'.phase = "receipt"
    BY <1>2, <1>4 DEF Confirm, InPhase, Settled, CallType
  <2> QED
    BY <1>4, <2>1, SubmittedTypes DEF Submits, Submitting
<1>5. CASE LedgerStep
  BY <1>5 DEF LedgerStep, Commits
<1>6. CASE Restart
  BY <1>6 DEF Restart, Settled, Rests, Quiet, NoCall, Submitting
<1>7. /\ UNCHANGED vars
      /\ inflight = None \/ UNCHANGED runtimevars
      /\ call' = call \/ call'.phase \notin Submitting
      => Rests
  BY DEF vars, control, Rests, Quiet
<1>8. CASE \/ \E b \in Batch : BeginFails(b)
           \/ \E m \in Materialization : Retry(m) \/ RetryAnswered(m)
           \/ Refused \/ EvidenceCommitted \/ Infer \/ InferenceFails
           \/ \E action \in Outcome, relation \in Relation \cup {None} :
                 Decide(action, relation) \/ DecideExhausted(action, relation)
           \/ ResolutionCommitted \/ TransactionsExhausted \/ Cache \/ StaleCommit \/ CacheDone
           \/ Deliver \/ DeliverFails \/ ReceiptCommitted \/ Finish \/ RetryFails
           \/ HostStep \/ UNCHANGED allvars
  <2>1. UNCHANGED vars
    BY <1>8 DEF BeginFails, Retry, RetryAnswered, Refused, EvidenceCommitted, Infer, InferenceFails,
       Decide, DecideExhausted, ResolutionCommitted, TransactionsExhausted, Cache, StaleCommit,
       CacheDone, Deliver, DeliverFails, ReceiptCommitted, Finish, RetryFails, HostStep, allvars
  <2>2. inflight = None \/ UNCHANGED runtimevars
    BY <1>8 DEF BeginFails, Retry, RetryAnswered, Refused, EvidenceCommitted, Infer, InferenceFails,
       Decide, DecideExhausted, ResolutionCommitted, TransactionsExhausted, Cache, StaleCommit,
       CacheDone, Deliver, DeliverFails, ReceiptCommitted, Finish, RetryFails, HostStep, allvars,
       InPhase, Settled, Undecided, AllDecided
  <2>3. CASE \/ \E b \in Batch : BeginFails(b)
             \/ \E m \in Materialization : Retry(m) \/ RetryAnswered(m)
             \/ Refused \/ InferenceFails \/ TransactionsExhausted \/ StaleCommit \/ Finish
             \/ \E action \in Outcome, relation \in Relation \cup {None} :
                   DecideExhausted(action, relation)
             \/ RetryFails \/ HostStep \/ UNCHANGED allvars
    <3>1. \/ call' = call \/ call' = NoCall
          \/ \E m \in Materialization : Retry(m)
      BY <2>3 DEF BeginFails, RetryAnswered, Refused, InferenceFails, DecideExhausted, StaleCommit,
         TransactionsExhausted, Finish, RetryFails, HostStep, allvars, runtimevars, Fail, Return
    <3>2. NoCall.phase \notin Submitting
      BY DEF NoCall, Submitting
    <3>3. ASSUME NEW m \in Materialization, Retry(m) PROVE call'.phase \notin Submitting
      BY <3>3 DEF Retry, NoCall, Submitting
    <3> QED
      BY <1>7, <2>1, <2>2, <3>1, <3>2, <3>3
  <2>4. CASE \/ EvidenceCommitted \/ Infer
             \/ \E action \in Outcome, relation \in Relation \cup {None} :
                   Decide(action, relation)
             \/ ResolutionCommitted \/ Cache \/ CacheDone \/ Deliver \/ DeliverFails
             \/ ReceiptCommitted
    <3>1. call'.phase \notin Submitting
      BY <1>2, <2>4 DEF EvidenceCommitted, Infer, Decide, Undecided, InPhase, ResolutionCommitted,
         Cache, CacheDone, Deliver, DeliverFails, ReceiptCommitted, CallType, Submitting
    <3> QED
      BY <1>7, <2>1, <2>2, <3>1
  <2> QED
    BY <1>8, <2>3, <2>4
<1> QED
  BY <1>1, <1>3, <1>4, <1>5, <1>6, <1>8 DEF RuntimeNext, Calls, Running

(* All of them are steps of the ledger's tables.                           *)
LEMMA RuntimeIsTableStep ==
    ASSUME LedgerInv, RuntimeTypeOK, PhaseHolds, [RuntimeNext]_allvars
    PROVE  TableStep
<1>1. ASSUME NEW e, Submits(e) PROVE TableStep
  BY <1>1, SubmitIsStep DEF Submits, Submit
<1>2. CASE Commits
  BY <1>2, CommitIsStep DEF Commits
<1>3. CASE Rests
  <2>1. outcome \in AnswerType
    BY DEF LedgerInv, TypeOK, ControlTypeOK, AnswerType
  <2>2. Answer("None", 0, None) \in AnswerType
    BY LedgerAssumption DEF Answer, AnswerType, Result
  <2> QED
    BY <1>3, <2>1, <2>2 DEF Rests, TableStep
<1> QED
  BY <1>1, <1>2, <1>3, RuntimeSteps

(* An envelope that is computed from the present version is not in the     *)
(* log, whatever its key: what is there was computed from earlier ones.    *)
LEMMA NotRecorded ==
    ASSUME LedgerInv, LogConsistent, NEW e, e.expected_version = version, Replay(e)
    PROVE  FALSE
<1> DEFINE n == transaction_indexes[idempotency[e.idempotency].transaction]
<1>1. n \in DOMAIN transactions /\ transactions[n].envelope = e
  BY DEF Replay, FreshKey, Recorded, LedgerInv, TypeOK, LogTypeOK
<1>2. e.expected_version = n - 1
  BY <1>1 DEF LogConsistent
<1>3. n \in 1..version /\ version \in Nat
  BY <1>1, VersionsOfLog
<1> HIDE DEF n
<1> QED
  BY <1>2, <1>3

(* What comes of a submission: an error, or the envelope is in flight.     *)
LEMMA SubmissionAnswers ==
    ASSUME LedgerInv, LogConsistent, NEW e, Submits(e)
    PROVE  \/ /\ Quiet /\ inflight' = None
              /\ outcome'.result \notin {"Committed", "Replayed"}
           \/ /\ Start(e) /\ inflight' = e /\ cursor' = 1 /\ UNCHANGED state /\ e # None
              /\ outcome'.result \notin {"Committed", "Replayed"}
<1>1. CASE Accept(e)
  BY <1>1, EnvelopeFields DEF Accept, Start, Answer, Submits
<1>2. CASE Answered(e)
  <2>1. ~Replay(e)
    BY NotRecorded DEF Submits
  <2>2. Quiet /\ inflight' = None /\ outcome'.result \notin {"Committed", "Replayed"}
    BY <1>2, <2>1 DEF Answered, IdempotencyCollision, VersionConflict, DuplicateTransaction,
       VersionExhausted, MissingDependency, InvalidCommand, Refuse, Answer, Quiet
  <2> QED
    BY <2>2
<1> QED
  BY <1>1, <1>2 DEF Submits, Submit

(* What comes of a step of a commit.                                       *)
LEMMA CommitAnswers ==
    ASSUME LedgerInv, LogConsistent, Commits
    PROVE  /\ inflight # None
           /\ \/ Apply /\ UNCHANGED <<version, inflight, outcome>>
              \/ /\ Record /\ inflight' = None /\ version' = next_version
                 /\ outcome'.result = "Committed" /\ outcome'.version = next_version
                 /\ next_version \in DOMAIN transactions'
                 /\ transactions'[next_version].envelope = inflight
                 /\ \A n \in DOMAIN transactions : transactions'[n] = transactions[n]
<1>1. CASE Apply
  <2>1. targets # {} => inflight # None
    BY DEF LedgerInv, ValidationHolds
  <2>2. inflight # None /\ UNCHANGED <<version, inflight, outcome>>
    BY <1>1, <2>1 DEF Apply, PersistObservation, CommitResolution, CreateIdentity, Promote,
       ChangeStatus, Merge, Split, Revert, Deactivate, EnqueueMaterialization, Materialized,
       Applying, Advance, state, log
  <2> QED
    BY <1>1, <2>2
<1>2. CASE Publish
  <2>1. Len(transactions) = version /\ next_version = version + 1
    BY VersionsOfLog
  <2>2. /\ next_version \in DOMAIN transactions'
        /\ transactions'[next_version].envelope = inflight
        /\ \A n \in DOMAIN transactions : transactions'[n] = transactions[n]
    BY <1>2, <2>1, AppendedLog DEF Publish, LedgerInv
  <2> QED
    BY <1>2, <2>2 DEF Publish, Record, Answer
<1> QED
  BY <1>1, <1>2 DEF Commits

(* No answer is an old one, and a grant is for the present version.        *)
AnswerHolds ==
    /\ outcome.result # "Replayed"
    /\ inflight = None /\ call.phase \in Submitting /\ Granted => outcome.version = version

(* The part of the call that every step keeps or sets in one place.        *)
LEMMA PhaseStep ==
    ASSUME LedgerInv, LogConsistent, RuntimeTypeOK, PhaseHolds, AnswerHolds,
           [RuntimeNext]_allvars
    PROVE  PhaseHolds'
<1>0. call \in CallType /\ Settled = (inflight = None)
  BY DEF RuntimeTypeOK, CallTypeOK, Settled
<1>1. inflight' # None => call'.phase \in Submitting
  <2>1. ASSUME NEW e, Submits(e) PROVE call'.phase \in Submitting
    BY <2>1 DEF Submits
  <2>2. CASE Commits
    BY <2>2, CommitAnswers DEF Commits, PhaseHolds, runtimevars
  <2>3. CASE Rests
    BY <2>3 DEF Rests, Quiet, PhaseHolds, runtimevars
  <2> QED
    BY <2>1, <2>2, <2>3, RuntimeSteps
<1>2. CASE call' = NoCall
  BY <1>1, <1>2 DEF PhaseHolds, NoCall
<1>3. CASE UNCHANGED <<call, version>>
  BY <1>1, <1>3 DEF PhaseHolds
<1>4. CASE LedgerStep
  BY <1>0, <1>1, <1>4, CommitAnswers DEF LedgerStep, Commits, PhaseHolds, runtimevars, Submitting
<1>5. ASSUME NEW b \in Batch, Begin(b) PROVE PhaseHolds'
  <2>1. ids.transactions \in Transaction
    BY <1>5, PoolNumbers DEF Begin, Exhausted, RuntimeTypeOK
  <2>2. call' = [NoCall EXCEPT !.phase = "evidence", !.since = version,
                               !.batch = Observations(b), !.persistence = ids.transactions]
    BY <1>5 DEF Begin
  <2>3. call'.phase = "evidence" /\ call'.persistence = ids.transactions /\ call'.decisions = <<>>
    BY <2>2, NoCallType DEF CallType, NoCall
  <2> QED
    BY <1>1, <2>1, <2>3 DEF PhaseHolds
<1>6. CASE EvidenceCommitted
  BY <1>0, <1>1, <1>6 DEF EvidenceCommitted, InPhase, Settled, vars, state, log, AnswerHolds,
     PhaseHolds, CallType, Submitting
<1>7. CASE Infer
  BY <1>0, <1>1, <1>7 DEF Infer, InPhase, vars, state, log, PhaseHolds, CallType
<1>8. ASSUME NEW action \in Outcome, NEW relation \in Relation \cup {None},
             Decide(action, relation)
      PROVE  PhaseHolds'
  <2>1. call'.phase = "deciding" /\ call'.reached = call.reached
        /\ call'.persistence = call.persistence /\ call.phase = "deciding" /\ version' = version
    BY <1>0, <1>8 DEF Decide, Undecided, InPhase, CallType, vars, state, log
  <2>2. call'.commands # <<>>
    <3> DEFINE o == call.batch[Len(call.decisions) + 1]
    <3>1. o \in Observation
      BY <1>0, <1>8 DEF Decide, Undecided, CallType
    <3>2. ~Exhausted(DrawnFor(action, relation))
      BY <1>8 DEF Decide
    <3>3. call'.commands = DecidedCommands(o, action, relation)
      BY <1>0, <1>8 DEF Decide, DecidedCommands, DecidedWrites, CallType
    <3> HIDE DEF o
    <3>4. DecidedCommands(o, action, relation) # <<>>
      BY <3>1, <3>2, DecidedEnd
    <3> QED
      BY <3>3, <3>4
  <2> QED
    BY <1>1, <2>1, <2>2 DEF PhaseHolds
<1>9. CASE \/ CommitResolutions \/ ResolutionCommitted \/ Cache \/ CacheDone
           \/ Deliver \/ DeliverFails \/ Confirm \/ ReceiptCommitted
  <2>1. call'.decisions = call.decisions /\ call'.commands = call.commands
        /\ call'.phase \in {"resolution", "caching", "delivering", "confirming", "receipt"}
    BY <1>0, <1>9 DEF CommitResolutions, ResolutionCommitted, Cache, CacheDone, Deliver,
       DeliverFails, Confirm, ReceiptCommitted, InPhase, CallType
  <2> QED
    BY <1>1, <2>1 DEF PhaseHolds
<1>10. ASSUME NEW m \in Materialization, Retry(m) PROVE PhaseHolds'
  BY <1>1, <1>10 DEF Retry, NoCall, PhaseHolds
<1>11. CASE \/ Refused \/ InferenceFails \/ StaleCommit \/ TransactionsExhausted \/ Finish
            \/ RetryFails \/ Restart
            \/ \E action \in Outcome, relation \in Relation \cup {None} :
                  DecideExhausted(action, relation)
  BY <1>2, <1>11 DEF Refused, InferenceFails, StaleCommit, TransactionsExhausted, Finish,
     RetryFails, Restart, DecideExhausted, Fail, Return
<1>12. CASE \/ \E b \in Batch : BeginFails(b)
            \/ \E m \in Materialization : RetryAnswered(m)
            \/ HostStep \/ UNCHANGED allvars
  BY <1>3, <1>12 DEF BeginFails, RetryAnswered, HostStep, allvars, runtimevars, vars, state, log
<1> QED
  BY <1>4, <1>5, <1>6, <1>7, <1>8, <1>9, <1>10, <1>11, <1>12 DEF RuntimeNext, Calls, Running

(* Every step keeps the answers true.                                      *)
LEMMA AnswerStep ==
    ASSUME LedgerInv, LogConsistent, RuntimeTypeOK, PhaseHolds, AnswerHolds,
           [RuntimeNext]_allvars
    PROVE  AnswerHolds'
<1>1. ASSUME NEW e, Submits(e) PROVE AnswerHolds'
  BY <1>1, SubmissionAnswers DEF AnswerHolds, Granted
<1>2. CASE Commits
  BY <1>2, CommitAnswers DEF AnswerHolds
<1>3. CASE Rests
  <2>1. inflight' = inflight /\ version' = version
    BY <1>3 DEF Rests, Quiet, state, log
  <2>2. CASE outcome' = outcome
    BY <1>3, <2>1, <2>2 DEF Rests, AnswerHolds, Granted
  <2>3. CASE call' = NoCall /\ outcome' = Answer("None", 0, None)
    BY <2>3 DEF AnswerHolds, NoCall, Submitting, Answer, Granted
  <2> QED
    BY <1>3, <2>2, <2>3 DEF Rests
<1> QED
  BY <1>1, <1>2, <1>3, RuntimeSteps

(* The invariant of the calls: the ledger's own, the types, and what is    *)
(* known of the call and of the last answer.                               *)
CallInv == LedgerInv /\ LogConsistent /\ RuntimeTypeOK /\ PhaseHolds /\ AnswerHolds

(* The runtime starts with it, and every step keeps it.                    *)
LEMMA CallInvHolds ==
    /\ RuntimeInit => CallInv
    /\ CallInv /\ [RuntimeNext]_allvars => CallInv' /\ TableStep
<1>1. ASSUME RuntimeInit PROVE CallInv
  <2>1. Init /\ call = NoCall
    BY <1>1 DEF RuntimeInit
  <2>2. LogConsistent
    BY <2>1 DEF Init, Empty, EmptyMap, LogConsistent
  <2>3. PhaseHolds /\ AnswerHolds
    BY <2>1 DEF Init, Empty, NoCall, PhaseHolds, AnswerHolds, Answer, Submitting
  <2> QED
    BY <1>1, <2>1, <2>2, <2>3, InitInv, InitRuntimeType DEF CallInv
<1>2. ASSUME CallInv, [RuntimeNext]_allvars PROVE CallInv' /\ TableStep
  <2>1. TableStep
    BY <1>2, RuntimeIsTableStep DEF CallInv
  <2> QED
    BY <1>2, <2>1, StepInv, LogStep, RuntimeTypeStep, PhaseStep, AnswerStep DEF CallInv, LedgerInv
<1> QED
  BY <1>1, <1>2

(* Each answer a call gets is to its own submission, whatever the callers  *)
(* submit and however often the pool starts again: an envelope of an       *)
(* earlier process that has the same key was computed from an earlier      *)
(* version.                                                                *)
THEOREM NoOldAnswer == RuntimeSpec => []NeverReplayed
<1>1. CallInv => NeverReplayed
  BY DEF CallInv, AnswerHolds, NeverReplayed
<1> QED
  BY <1>1, CallInvHolds, PTL DEF RuntimeSpec

-----------------------------------------------------------------------------
(***************************************************************************)
(* What a call has submitted is what the log has got from it.              *)
(***************************************************************************)
Accepted == inflight # None \/ outcome.result = "Committed"

LastEnvelope == IF inflight # None THEN inflight ELSE transactions[version].envelope

(* Envelope e persists the batch of call c, whose observations differ.     *)
Persists(e, c) ==
    /\ e.transaction = c.persistence /\ DOMAIN e.commands = DOMAIN c.batch
    /\ \A i \in DOMAIN c.batch : /\ e.commands[i].kind = "PersistObservation"
                                 /\ e.commands[i].observation = c.batch[i]
    /\ \A i, j \in DOMAIN c.batch : c.batch[i] = c.batch[j] => i = j

SubmissionHolds ==
    call.phase \in Submitting /\ Accepted =>
        /\ inflight = None => version # 0
        /\ call.phase = "evidence" => Persists(LastEnvelope, call)
        /\ call.phase = "resolution" =>
               /\ LastEnvelope.commands = call.commands
               /\ LastEnvelope.depends_on = {call.persistence}
        /\ call.phase = "receipt" => LastEnvelope.commands = Receipt(write)

(* The evidence is the last record until the resolution is.                *)
EvidenceThere ==
    \/ call.phase \in {"inference", "deciding"}
    \/ call.phase = "resolution" /\ inflight # None
    => version # 0 /\ Persists(transactions[version].envelope, call)

(* The evidence of a call that is accepted has no observation twice.       *)
LEMMA EvidenceDiffers ==
    ASSUME NEW b \in Batch, Start(EvidenceOf(b))
    PROVE  \A i, j \in DOMAIN b : Observations(b)[i] = Observations(b)[j] => i = j
<1> DEFINE e == EvidenceOf(b)
<1>1. /\ e.commands = Persist(b) /\ DOMAIN Persist(b) = DOMAIN b
      /\ \A i \in DOMAIN b : /\ Persist(b)[i].kind = "PersistObservation"
                             /\ Persist(b)[i].observation = Observations(b)[i]
  BY PersistType DEF EvidenceOf, NextEnvelope
<1>2. ASSUME NEW i \in DOMAIN b, NEW j \in 1..(i - 1), j \in DOMAIN b
      PROVE  Observations(b)[i] # Observations(b)[j]
  <2>1. ValidCommand(e, i)
    BY <1>1 DEF Start, Valid, CommandsValid
  <2> HIDE DEF e
  <2>2. ValidPersist(e, i)
    BY <1>1, <2>1 DEF ValidCommand
  <2>3. e.commands[i].observation \notin PendingObservations(e, i)
    BY <2>2 DEF ValidPersist, KnownObservation
  <2>4. e.commands[j].observation \in PendingObservations(e, i)
    BY <1>1, <1>2 DEF PendingObservations, Earlier
  <2>5. /\ e.commands[i].observation = Observations(b)[i]
        /\ e.commands[j].observation = Observations(b)[j]
    BY <1>1, <1>2 DEF e
  <2> QED
    BY <2>3, <2>4, <2>5
<1>3. b \in Seq([observation: Observation, supersedes: Observation \cup {None}])
  BY BatchAssumption
<1>4. Len(b) \in Nat /\ DOMAIN b = 1..Len(b)
  BY <1>3
<1> HIDE DEF e
<1> QED
  BY <1>2, <1>4

(* Every step keeps the last record of the log that of the submission.     *)
LEMMA SubmissionStep ==
    ASSUME CallInv, SubmissionHolds, [RuntimeNext]_allvars
    PROVE  SubmissionHolds'
<1>0. /\ LedgerInv /\ LogConsistent /\ RuntimeTypeOK /\ PhaseHolds /\ AnswerHolds
      /\ call \in CallType
  BY DEF CallInv, RuntimeTypeOK, CallTypeOK
<1>1. ASSUME NEW e, Submits(e), ~Start(e) PROVE SubmissionHolds'
  BY <1>0, <1>1, SubmissionAnswers DEF SubmissionHolds, Accepted
<1>2. ASSUME NEW e, Submits(e), Start(e) PROVE inflight' = e /\ e # None /\ LastEnvelope' = e
  <2>1. e \in CommandEnvelope /\ inflight' = e
    BY <1>2 DEF Submits, Start
  <2>2. e # None
    BY <2>1, EnvelopeFields
  <2> QED
    BY <2>1, <2>2 DEF LastEnvelope
<1>3. ASSUME NEW b \in Batch, Begin(b), Submits(EvidenceOf(b)), Start(EvidenceOf(b))
      PROVE  SubmissionHolds'
  <2>1. call' = [NoCall EXCEPT !.phase = "evidence", !.since = version,
                               !.batch = Observations(b), !.persistence = ids.transactions]
    BY <1>3 DEF Begin
  <2>2. /\ call'.phase = "evidence" /\ call'.batch = Observations(b)
        /\ call'.persistence = ids.transactions
    BY <2>1, NoCallType DEF CallType
  <2>3. EvidenceOf(b).transaction = ids.transactions /\ EvidenceOf(b).commands = Persist(b)
    BY DEF EvidenceOf, NextEnvelope
  <2>4. Persists(EvidenceOf(b), call')
    BY <1>3, <2>2, <2>3, PersistType, EvidenceDiffers DEF Persists
  <2> QED
    BY <1>2, <1>3, <2>2, <2>4 DEF SubmissionHolds
<1>4. ASSUME CommitResolutions, Submits(ResolutionOf), Start(ResolutionOf) PROVE SubmissionHolds'
  <2>1. /\ call'.phase = "resolution" /\ call'.commands = call.commands
        /\ call'.persistence = call.persistence
    BY <1>0, <1>4 DEF CommitResolutions, CallType
  <2>2. ResolutionOf.commands = call.commands /\ ResolutionOf.depends_on = {call.persistence}
    BY DEF ResolutionOf, NextEnvelope
  <2> QED
    BY <1>2, <1>4, <2>1, <2>2 DEF SubmissionHolds
<1>5. ASSUME Confirm, Submits(ReceiptOf), Start(ReceiptOf) PROVE SubmissionHolds'
  <2>1. call'.phase = "receipt" /\ call'.writes = call.writes
    BY <1>0, <1>5 DEF Confirm, CallType
  <2>2. ReceiptOf.commands = Receipt(write)
    BY DEF ReceiptOf, NextEnvelope
  <2>3. write' = write
    BY <2>1 DEF write
  <2> QED
    BY <1>2, <1>5, <2>1, <2>2, <2>3 DEF SubmissionHolds
<1>6. CASE Commits
  <2>1. /\ inflight # None /\ call' = call
        /\ \/ inflight' = inflight
           \/ inflight' = None /\ version' # 0 /\ transactions'[version'].envelope = inflight
    <3>1. version \in Nat /\ next_version = version + 1
      BY <1>0, VersionsOfLog
    <3> QED
      BY <1>0, <1>6, <3>1, CommitAnswers DEF Commits, runtimevars
  <2>2. LastEnvelope' = LastEnvelope /\ write' = write /\ (inflight' = None => version' # 0)
    BY <2>1 DEF LastEnvelope, write
  <2> QED
    BY <2>1, <2>2 DEF SubmissionHolds, Accepted
<1>7. CASE Rests
  <2>1. UNCHANGED <<inflight, version, transactions>>
    BY <1>7 DEF Rests, Quiet, state, log
  <2>2. LastEnvelope' = LastEnvelope
    BY <2>1 DEF LastEnvelope
  <2>3. CASE call' = call /\ outcome' = outcome
    BY <2>1, <2>2, <2>3 DEF SubmissionHolds, Accepted, write
  <2>4. CASE call'.phase \notin Submitting
    BY <2>4 DEF SubmissionHolds
  <2>5. NoCall.phase \notin Submitting
    BY DEF NoCall, Submitting
  <2> QED
    BY <1>7, <2>3, <2>4, <2>5 DEF Rests
<1> QED
  BY <1>0, <1>1, <1>3, <1>4, <1>5, <1>6, <1>7, RuntimeSteps

(* The steps that leave a call going, and what they leave of it alone.     *)
SameWork ==
    UNCHANGED <<call.batch, call.persistence, call.decisions, call.commands>>

Moves(from, to) == call.phase = from /\ call'.phase = to /\ inflight = None /\ SameWork

(* A call stays as it is, ends, begins, or goes from phase to phase.       *)
LEMMA CallSteps ==
    ASSUME [RuntimeNext]_allvars
    PROVE  \/ call' = call \/ call' = NoCall
           \/ \E b \in Batch : Begin(b)
           \/ \E m \in Materialization : Retry(m)
           \/ \E action \in Outcome, relation \in Relation \cup {None} : Decide(action, relation)
           \/ EvidenceCommitted \/ Infer \/ CommitResolutions \/ ResolutionCommitted
           \/ Cache \/ CacheDone \/ Deliver \/ DeliverFails \/ Confirm \/ ReceiptCommitted
<1>1. CASE \/ Refused \/ InferenceFails \/ StaleCommit \/ TransactionsExhausted \/ Finish
           \/ RetryFails \/ Restart
           \/ \E action \in Outcome, relation \in Relation \cup {None} :
                 DecideExhausted(action, relation)
  BY <1>1 DEF Refused, InferenceFails, StaleCommit, TransactionsExhausted, Finish,
     RetryFails, Restart, DecideExhausted, Fail, Return
<1>2. CASE \/ \E b \in Batch : BeginFails(b)
           \/ \E m \in Materialization : RetryAnswered(m)
           \/ LedgerStep \/ HostStep \/ UNCHANGED allvars
  BY <1>2 DEF BeginFails, RetryAnswered, LedgerStep, HostStep, allvars, runtimevars
<1> QED
  BY <1>1, <1>2 DEF RuntimeNext, Calls, Running

(* The phases of a batch.                                                  *)
LEMMA CallMoves ==
    ASSUME call \in CallType
    PROVE  /\ EvidenceCommitted =>
                  Moves("evidence", "inference") /\ Granted /\ UNCHANGED <<call.writes, vars>>
           /\ Infer => Moves("inference", "deciding") /\ UNCHANGED <<call.writes, vars>>
           /\ CommitResolutions =>
                  /\ Moves("deciding", "resolution") /\ UNCHANGED call.writes
                  /\ Len(call.decisions) = Len(call.batch)
           /\ ResolutionCommitted =>
                  /\ Moves("resolution", "caching") /\ Granted /\ UNCHANGED <<call.writes, vars>>
                  /\ call'.reached = outcome.version
           /\ Cache => Moves("caching", "caching") /\ UNCHANGED <<call.writes, call.reached, vars>>
           /\ CacheDone =>
                  Moves("caching", "delivering") /\ UNCHANGED <<call.writes, call.reached, vars>>
           /\ Deliver => /\ Moves("delivering", "confirming") \/ Moves("retrying", "confirming")
                         /\ UNCHANGED <<call.writes, call.reached, vars>>
           /\ DeliverFails =>
                  /\ Moves("delivering", "delivering") /\ UNCHANGED <<call.reached, vars>>
                  /\ call'.writes = Tail(call.writes)
           /\ Confirm =>
                  Moves("confirming", "receipt") /\ UNCHANGED <<call.writes, call.reached>>
           /\ ReceiptCommitted =>
                  /\ Moves("receipt", "delivering") /\ Granted /\ UNCHANGED <<call.reached, vars>>
                  /\ call'.writes = Tail(call.writes)
<1> USE DEF Moves, SameWork, InPhase, Settled, CallType
<1>1. EvidenceCommitted => Moves("evidence", "inference") /\ Granted /\ UNCHANGED <<call.writes, vars>>
  BY DEF EvidenceCommitted
<1>2. Infer => Moves("inference", "deciding") /\ UNCHANGED <<call.writes, vars>>
  BY DEF Infer
<1>3. CommitResolutions => /\ Moves("deciding", "resolution") /\ UNCHANGED call.writes
                           /\ Len(call.decisions) = Len(call.batch)
  BY DEF CommitResolutions, AllDecided
<1>4. ResolutionCommitted =>
          /\ Moves("resolution", "caching") /\ Granted /\ UNCHANGED <<call.writes, vars>>
          /\ call'.reached = outcome.version
  BY DEF ResolutionCommitted
<1>5. Cache => Moves("caching", "caching") /\ UNCHANGED <<call.writes, call.reached, vars>>
  BY DEF Cache
<1>6. CacheDone => Moves("caching", "delivering") /\ UNCHANGED <<call.writes, call.reached, vars>>
  BY DEF CacheDone
<1>7. Deliver => /\ Moves("delivering", "confirming") \/ Moves("retrying", "confirming")
                 /\ UNCHANGED <<call.writes, call.reached, vars>>
  BY DEF Deliver
<1>8. DeliverFails => /\ Moves("delivering", "delivering") /\ UNCHANGED <<call.reached, vars>>
                      /\ call'.writes = Tail(call.writes)
  BY DEF DeliverFails
<1>9. Confirm => Moves("confirming", "receipt") /\ UNCHANGED <<call.writes, call.reached>>
  BY DEF Confirm
<1>10. ReceiptCommitted => /\ Moves("receipt", "delivering") /\ Granted
                           /\ UNCHANGED <<call.reached, vars>>
                           /\ call'.writes = Tail(call.writes)
  BY DEF ReceiptCommitted
<1> QED
  BY <1>1, <1>2, <1>3, <1>4, <1>5, <1>6, <1>7, <1>8, <1>9, <1>10

(* Every step keeps the evidence the last record until the resolution is.  *)
LEMMA EvidenceThereStep ==
    ASSUME CallInv, SubmissionHolds, EvidenceThere, [RuntimeNext]_allvars
    PROVE  EvidenceThere'
<1>0. /\ LedgerInv /\ LogConsistent /\ RuntimeTypeOK /\ PhaseHolds /\ AnswerHolds
      /\ call \in CallType
  BY DEF CallInv, RuntimeTypeOK, CallTypeOK
<1>1. CASE call'.phase \notin {"inference", "deciding", "resolution"}
  BY <1>1 DEF EvidenceThere
<1>2. CASE call'.phase = "resolution" /\ inflight' = None
  BY <1>2 DEF EvidenceThere
<1>3. UNCHANGED <<call.batch, call.persistence, version, transactions>> /\ EvidenceThere
      /\ (\/ call.phase \in {"inference", "deciding"}
          \/ call.phase = "resolution" /\ inflight # None)
      => EvidenceThere'
  BY DEF EvidenceThere, Persists
<1>4. ASSUME NEW b \in Batch, Begin(b) PROVE EvidenceThere'
  <2>1. call'.phase = "evidence"
    BY <1>4, NoCallType DEF Begin, CallType
  <2> QED
    BY <1>1, <2>1
<1>5. CASE CommitResolutions /\ Submits(ResolutionOf)
  <2>1. Moves("deciding", "resolution") /\ call'.phase = "resolution"
    BY <1>0, <1>5, CallMoves DEF Moves
  <2>2. CASE UNCHANGED state
    BY <1>3, <2>1, <2>2 DEF Moves, SameWork, state, log
  <2> QED
    BY <1>0, <1>2, <1>5, <2>1, <2>2, SubmissionAnswers
<1>6. CASE Confirm
  BY <1>0, <1>1, <1>6, CallMoves DEF Moves
<1>7. CASE Commits
  <2>1. call' = call /\ call.phase \in Submitting /\ inflight # None
    BY <1>0, <1>7, CommitAnswers DEF Commits, PhaseHolds, runtimevars
  <2>2. CASE inflight' = None
    BY <1>1, <1>2, <2>1, <2>2 DEF Submitting
  <2>3. CASE call.phase = "resolution" /\ version' = version
    <3>1. version # 0 /\ Persists(transactions[version].envelope, call)
      BY <2>1, <2>3 DEF EvidenceThere
    <3>2. version \in DOMAIN transactions
      BY <1>0, <3>1, VersionsOfLog
    <3>3. transactions'[version].envelope = transactions[version].envelope
      BY <1>0, <3>2, RuntimeIsTableStep, RecordsKept
    <3> QED
      BY <2>1, <2>3, <3>1, <3>3 DEF EvidenceThere
  <2> QED
    BY <1>0, <1>1, <1>7, <2>1, <2>2, <2>3, CommitAnswers DEF Submitting
<1>8. CASE Rests
  <2>1. UNCHANGED <<inflight, version, transactions>>
    BY <1>8 DEF Rests, Quiet, state, log
  <2>2. CASE call' = call
    BY <2>1, <2>2 DEF EvidenceThere
  <2>3. CASE call' = NoCall
    BY <1>1, <2>3 DEF NoCall
  <2>4. CASE EvidenceCommitted
    <3>1. Moves("evidence", "inference") /\ Granted
      BY <1>0, <2>4, CallMoves
    <3>2. outcome.result = "Committed"
      BY <1>0, <3>1 DEF AnswerHolds, Granted
    <3>3. version # 0 /\ Persists(transactions[version].envelope, call)
      BY <3>1, <3>2 DEF SubmissionHolds, Accepted, LastEnvelope, Moves, Submitting
    <3> QED
      BY <2>1, <3>1, <3>3 DEF EvidenceThere, Persists, Moves, SameWork
  <2>5. CASE Infer
    <3>1. Moves("inference", "deciding")
      BY <1>0, <2>5, CallMoves
    <3> QED
      BY <1>3, <2>1, <3>1 DEF Moves, SameWork
  <2>6. ASSUME NEW action \in Outcome, NEW relation \in Relation \cup {None},
               Decide(action, relation)
        PROVE  EvidenceThere'
    <3>1. call.phase = "deciding" /\ UNCHANGED <<call.batch, call.persistence>>
      BY <1>0, <2>6 DEF Decide, Undecided, InPhase, CallType
    <3> QED
      BY <1>3, <2>1, <3>1
  <2>7. CASE CommitResolutions
    BY <1>0, <1>2, <2>1, <2>7, CallMoves DEF Moves
  <2>8. CASE \/ ResolutionCommitted \/ Cache \/ CacheDone \/ Deliver \/ DeliverFails \/ Confirm
             \/ ReceiptCommitted
    BY <1>0, <1>1, <2>8, CallMoves DEF Moves
  <2>9. ASSUME NEW m \in Materialization, Retry(m) PROVE EvidenceThere'
    BY <1>1, <2>9 DEF Retry, NoCall
  <2> QED
    BY <1>4, <2>2, <2>3, <2>4, <2>5, <2>6, <2>7, <2>8, <2>9, CallSteps
<1> QED
  BY <1>0, <1>4, <1>5, <1>6, <1>7, <1>8, RuntimeSteps

-----------------------------------------------------------------------------
(***************************************************************************)
(* What a call has decided: the resolutions among its commands are of the  *)
(* observations of its batch, in the order of the batch.                   *)
(***************************************************************************)
Of(i, p) ==
    /\ call.commands[i].inference.observation = call.batch[p]
    /\ call.commands[i].decision.id = call.decisions[p]

DecidedKinds ==
    \A i \in DOMAIN call.commands :
        call.commands[i].kind \in {"CommitResolution", "EnqueueMaterialization"}

NothingDecided ==
    call.phase \in {"evidence", "inference"} =>
        call.decisions = <<>> /\ call.commands = <<>> /\ call.writes = <<>>

DecidedInOrder ==
    call.phase \in {"deciding", "resolution"} =>
        LET resolved == PositionsOf(call, "CommitResolution")
        IN  /\ Len(call.decisions) <= Len(call.batch)
            /\ \A i \in resolved : \E p \in DOMAIN call.decisions : Of(i, p)
            /\ \A p \in DOMAIN call.decisions : \E i \in resolved : Of(i, p)
            /\ \A i, j \in resolved : \A p, q \in DOMAIN call.decisions :
                   i < j /\ Of(i, p) /\ Of(j, q) => p < q

WritesPlanned ==
    call.phase \in {"deciding", "resolution"} =>
        \A i \in DOMAIN call.writes : \E j \in DOMAIN call.commands :
            call.commands[j] = Enqueue(call.writes[i])

DecidedAll == call.phase = "resolution" => Len(call.decisions) = Len(call.batch)

DecidedInv ==
    DecidedKinds /\ NothingDecided /\ DecidedInOrder /\ WritesPlanned /\ DecidedAll

(* One turn of the loop adds the resolution of the next observation.       *)
LEMMA DecideAdds ==
    ASSUME RuntimeTypeOK, NEW action \in Outcome, NEW relation \in Relation \cup {None},
           Decide(action, relation)
    PROVE  LET n == Len(call.commands) + 1
               p == Len(call.decisions) + 1
           IN  /\ call.phase = "deciding" /\ call'.phase = "deciding" /\ call'.batch = call.batch
               /\ n \in Nat /\ DOMAIN call.commands = 1..(n - 1) /\ n \in DOMAIN call'.commands
               /\ p \in Nat /\ DOMAIN call.decisions = 1..(p - 1) /\ DOMAIN call'.decisions = 1..p
               /\ Len(call'.decisions) = p /\ p \in DOMAIN call.batch /\ p <= Len(call.batch)
               /\ \A i \in DOMAIN call.commands :
                      i \in DOMAIN call'.commands /\ call'.commands[i] = call.commands[i]
               /\ \A i \in DOMAIN call.decisions : call'.decisions[i] = call.decisions[i]
               /\ call'.decisions[p] = ids.decisions
               /\ call'.commands[n] = Resolution(call.batch[p], action)
               /\ \A i \in DOMAIN call'.commands :
                      \/ i \in 1..n
                      \/ i = n + 1 /\ call'.commands[i] = Enqueue(Planned(relation))
               /\ \A i \in DOMAIN call'.writes :
                      \/ i \in DOMAIN call.writes /\ call'.writes[i] = call.writes[i]
                      \/ /\ call'.writes[i] = Planned(relation) /\ n + 1 \in DOMAIN call'.commands
                         /\ call'.commands[n + 1] = Enqueue(Planned(relation))
<1> DEFINE p == Len(call.decisions) + 1
           o == call.batch[p]
           n == Len(call.commands) + 1
           all == DecidedCommands(o, action, relation)
           w == DecidedWrites(relation)
<1>1. /\ call \in CallType /\ call.phase = "deciding" /\ ~Exhausted(DrawnFor(action, relation))
      /\ Len(call.decisions) < Len(call.batch)
  BY DEF Decide, Undecided, InPhase, RuntimeTypeOK, CallTypeOK
<1>2. /\ call.decisions \in Seq(Decision) /\ call.batch \in Seq(Observation)
      /\ call.writes \in Seq(HostWrite)
  BY <1>1 DEF CallType
<1>3. /\ p \in Nat /\ DOMAIN call.decisions = 1..(p - 1) /\ p \in DOMAIN call.batch
      /\ p <= Len(call.batch) /\ o \in Observation
  BY <1>1, <1>2
<1>4. /\ n \in Nat /\ DOMAIN call.commands = 1..(n - 1)
      /\ all[n] = Resolution(o, action) /\ n \in DOMAIN all
      /\ \A i \in DOMAIN call.commands : i \in DOMAIN all /\ all[i] = call.commands[i]
      /\ \A i \in DOMAIN all :
             \/ i \in 1..n
             \/ i = n + 1 /\ relation # None /\ all[i] = Enqueue(Planned(relation))
      /\ relation # None => n + 1 \in DOMAIN all
  <2> HIDE DEF o
  <2> QED
    BY <1>1, <1>3, DecidedEnd
<1>5. w \in Seq(HostWrite) /\ ids.decisions \in Decision
  <2> HIDE DEF o
  <2> QED
    BY <1>1, <1>3, DecidedTypes
<1>6. /\ call'.decisions = Append(call.decisions, ids.decisions) /\ call'.commands = all
      /\ call'.writes = call.writes \o w /\ call'.batch = call.batch /\ call'.phase = "deciding"
  BY <1>1 DEF Decide, DecidedCommands, DecidedWrites, CallType
<1>7. /\ DOMAIN call'.decisions = 1..p /\ Len(call'.decisions) = p
      /\ \A i \in DOMAIN call.decisions : call'.decisions[i] = call.decisions[i]
      /\ call'.decisions[p] = ids.decisions
  BY <1>2, <1>5, <1>6
<1>8. /\ relation = None => DOMAIN w = {}
      /\ relation # None => DOMAIN w = {1} /\ w[1] = Planned(relation)
  BY DEF DecidedWrites
<1> HIDE DEF w
<1>9. ASSUME NEW i \in DOMAIN (call.writes \o w)
      PROVE  \/ i \in DOMAIN call.writes /\ (call.writes \o w)[i] = call.writes[i]
             \/ relation # None /\ (call.writes \o w)[i] = Planned(relation)
  <2>1. CASE i \in DOMAIN call.writes
    BY <1>2, <1>5, <2>1, ConcatMembers
  <2>2. CASE i \notin DOMAIN call.writes
    <3>1. i - Len(call.writes) \in DOMAIN w
      BY <1>2, <1>5, <2>2, ConcatMembers
    <3>2. i - Len(call.writes) = 1 /\ relation # None /\ w[1] = Planned(relation)
      BY <1>8, <3>1
    <3>3. i = Len(call.writes) + 1
      BY <1>2, <1>5, <3>2, ConcatMembers
    <3> QED
      BY <1>2, <1>5, <3>1, <3>2, <3>3, ConcatMembers
  <2> QED
    BY <2>1, <2>2
<1>10. relation # None => all[n + 1] = Enqueue(Planned(relation))
  BY <1>4
<1> HIDE DEF all, n, o
<1>11. \A i \in DOMAIN call'.writes :
           \/ i \in DOMAIN call.writes /\ call'.writes[i] = call.writes[i]
           \/ /\ call'.writes[i] = Planned(relation) /\ n + 1 \in DOMAIN call'.commands
              /\ call'.commands[n + 1] = Enqueue(Planned(relation))
  BY <1>4, <1>6, <1>9, <1>10
<1> QED
  BY <1>1, <1>3, <1>4, <1>6, <1>7, <1>11 DEF n, o

(* A turn of the loop keeps the order.                                     *)
LEMMA DecideKeeps ==
    ASSUME RuntimeTypeOK, DecidedInv,
           \A p, q \in DOMAIN call.batch : call.batch[p] = call.batch[q] => p = q,
           NEW action \in Outcome, NEW relation \in Relation \cup {None},
           Decide(action, relation)
    PROVE  DecidedInv'
<1> DEFINE n == Len(call.commands) + 1
           p == Len(call.decisions) + 1
           resolved == PositionsOf(call, "CommitResolution")
           after == PositionsOf(call', "CommitResolution")
<1>1. /\ call.phase = "deciding" /\ call'.phase = "deciding" /\ call'.batch = call.batch
      /\ n \in Nat /\ DOMAIN call.commands = 1..(n - 1) /\ n \in DOMAIN call'.commands
      /\ p \in Nat /\ DOMAIN call.decisions = 1..(p - 1) /\ DOMAIN call'.decisions = 1..p
      /\ Len(call'.decisions) = p /\ p \in DOMAIN call.batch /\ p <= Len(call.batch)
  BY DecideAdds
<1>2. /\ \A i \in DOMAIN call.commands :
             i \in DOMAIN call'.commands /\ call'.commands[i] = call.commands[i]
      /\ \A i \in DOMAIN call.decisions : call'.decisions[i] = call.decisions[i]
      /\ call'.decisions[p] = ids.decisions
      /\ call'.commands[n] = Resolution(call.batch[p], action)
      /\ \A i \in DOMAIN call'.commands :
             \/ i \in 1..n
             \/ i = n + 1 /\ call'.commands[i] = Enqueue(Planned(relation))
      /\ \A i \in DOMAIN call'.writes :
             \/ i \in DOMAIN call.writes /\ call'.writes[i] = call.writes[i]
             \/ /\ call'.writes[i] = Planned(relation) /\ n + 1 \in DOMAIN call'.commands
                /\ call'.commands[n + 1] = Enqueue(Planned(relation))
  BY DecideAdds
<1>3. /\ call'.commands[n].kind = "CommitResolution"
      /\ call'.commands[n].inference.observation = call.batch[p]
      /\ call'.commands[n].decision.id = ids.decisions
      /\ Enqueue(Planned(relation)).kind = "EnqueueMaterialization"
  BY <1>2 DEF Resolution, Enqueue
<1> HIDE DEF n, p
<1>4. \A i \in DOMAIN call'.commands :
          \/ i \in DOMAIN call.commands
          \/ i = n
          \/ i = n + 1 /\ call'.commands[i].kind = "EnqueueMaterialization"
  BY <1>1, <1>2, <1>3
<1>5. n \notin DOMAIN call.commands /\ p \notin DOMAIN call.decisions
  BY <1>1
<1>6. DecidedKinds'
  BY <1>2, <1>3, <1>4 DEF DecidedInv, DecidedKinds
<1>7. \A i : i \in after <=> i \in resolved \/ i = n
  BY <1>1, <1>2, <1>3, <1>4 DEF PositionsOf
<1> HIDE DEF resolved, after
<1>8. \A i \in resolved : i \in DOMAIN call.commands
  BY DEF resolved, PositionsOf
<1>9. /\ \A i \in resolved : \E q \in DOMAIN call.decisions : Of(i, q)
      /\ \A q \in DOMAIN call.decisions : \E i \in resolved : Of(i, q)
      /\ \A i, j \in resolved : \A q, r \in DOMAIN call.decisions :
             i < j /\ Of(i, q) /\ Of(j, r) => q < r
  BY <1>1 DEF DecidedInv, DecidedInOrder, resolved
<1>10. \A q \in DOMAIN call'.decisions : q \in DOMAIN call.decisions \/ q = p
  BY <1>1
<1>11. \A i \in resolved : \A q \in DOMAIN call.decisions : Of(i, q)' <=> Of(i, q)
  BY <1>1, <1>2, <1>8 DEF Of
<1>12. \A q \in DOMAIN call.decisions : q \in DOMAIN call.batch
  BY <1>1 DEF RuntimeTypeOK, CallTypeOK, CallType
<1>13. ASSUME NEW i \in resolved, NEW r, r = p PROVE ~Of(i, r)'
  <2>1. PICK q \in DOMAIN call.decisions : Of(i, q)
    BY <1>9
  <2>2. call.batch[q] # call.batch[r]
    BY <1>1, <1>5, <1>12, <1>13, <2>1
  <2>3. call'.commands[i].inference.observation = call.batch[q]
    BY <1>2, <1>8, <2>1 DEF Of
  <2> QED
    BY <1>1, <2>2, <2>3 DEF Of
<1>14. \A i : i = n => \A q : q = p => Of(i, q)'
  BY <1>1, <1>2, <1>3 DEF Of
<1>15. ASSUME NEW i, i = n, NEW q \in DOMAIN call.decisions PROVE ~Of(i, q)'
  <2>1. call.batch[q] # call.batch[p]
    BY <1>1, <1>5, <1>12
  <2> QED
    BY <1>1, <1>3, <1>15, <2>1 DEF Of
<1>16. \A i \in after : \E q \in DOMAIN call'.decisions : Of(i, q)'
  <2> SUFFICES ASSUME NEW i \in after PROVE \E q \in DOMAIN call'.decisions : Of(i, q)'
    OBVIOUS
  <2>1. CASE i \in resolved
    BY <1>1, <1>9, <1>11, <2>1
  <2>2. CASE i = n
    <3>1. p \in DOMAIN call'.decisions
      BY <1>1
    <3> QED
      BY <1>14, <2>2, <3>1
  <2> QED
    BY <1>7, <2>1, <2>2
<1>17. \A q \in DOMAIN call'.decisions : \E i \in after : Of(i, q)'
  <2> SUFFICES ASSUME NEW q \in DOMAIN call'.decisions PROVE \E i \in after : Of(i, q)'
    OBVIOUS
  <2>1. CASE q \in DOMAIN call.decisions
    BY <1>7, <1>9, <1>11, <2>1
  <2>2. CASE q = p
    BY <1>7, <1>14, <2>2
  <2> QED
    BY <1>10, <2>1, <2>2
<1>18. ASSUME NEW i \in after, NEW j \in after, NEW q \in DOMAIN call'.decisions,
              NEW r \in DOMAIN call'.decisions, i < j, Of(i, q)', Of(j, r)'
       PROVE  q < r
  <2>1. CASE j \in resolved
    <3>1. i \in resolved
      BY <1>1, <1>7, <1>8, <1>18, <2>1
    <3>2. q \in DOMAIN call.decisions /\ r \in DOMAIN call.decisions
      BY <1>10, <1>13, <1>18, <2>1, <3>1
    <3>3. Of(i, q) /\ Of(j, r)
      BY <1>11, <1>18, <2>1, <3>1, <3>2
    <3> QED
      BY <1>9, <1>18, <2>1, <3>1, <3>2, <3>3
  <2>2. CASE j = n
    <3>1. i \in resolved
      BY <1>1, <1>7, <1>18, <2>2
    <3>2. r = p
      BY <1>10, <1>15, <1>18, <2>2
    <3>3. q \in DOMAIN call.decisions
      BY <1>10, <1>13, <1>18, <3>1
    <3> QED
      BY <1>1, <3>2, <3>3
  <2> QED
    BY <1>7, <2>1, <2>2
<1>19. DecidedInOrder'
  <2>1. Len(call'.decisions) <= Len(call'.batch)
    BY <1>1
  <2> QED
    BY <1>16, <1>17, <1>18, <2>1 DEF DecidedInOrder, after
<1>20. WritesPlanned'
  <2> SUFFICES ASSUME NEW i \in DOMAIN call'.writes
               PROVE  \E j \in DOMAIN call'.commands : call'.commands[j] = Enqueue(call'.writes[i])
    BY DEF WritesPlanned, Enqueue
  <2>1. CASE i \in DOMAIN call.writes /\ call'.writes[i] = call.writes[i]
    <3>1. PICK j \in DOMAIN call.commands : call.commands[j] = Enqueue(call.writes[i])
      BY <1>1, <2>1 DEF DecidedInv, WritesPlanned
    <3> QED
      BY <1>2, <2>1, <3>1
  <2>2. CASE /\ call'.writes[i] = Planned(relation) /\ n + 1 \in DOMAIN call'.commands
             /\ call'.commands[n + 1] = Enqueue(Planned(relation))
    BY <2>2
  <2> QED
    BY <1>2, <2>1, <2>2
<1> QED
  BY <1>1, <1>6, <1>19, <1>20 DEF DecidedInv, NothingDecided, DecidedAll

(* So does every step.                                                     *)
LEMMA DecidedStep ==
    ASSUME CallInv, EvidenceThere, DecidedInv, [RuntimeNext]_allvars
    PROVE  DecidedInv'
<1>0. RuntimeTypeOK /\ call \in CallType
  BY DEF CallInv, RuntimeTypeOK, CallTypeOK
<1>1. CASE call' = call
  BY <1>1 DEF DecidedInv, DecidedKinds, NothingDecided, DecidedInOrder, WritesPlanned, DecidedAll,
     Of, PositionsOf
<1>2. ASSUME call'.commands = <<>>, call'.decisions = <<>>, call'.writes = <<>>,
             call'.phase # "resolution"
      PROVE  DecidedInv'
  BY <1>0, <1>2 DEF DecidedInv, DecidedKinds, NothingDecided, DecidedInOrder, WritesPlanned,
     DecidedAll, PositionsOf, RuntimeTypeOK, CallTypeOK, CallType
<1>3. ASSUME call'.commands = call.commands,
             call'.phase \notin {"evidence", "inference", "deciding", "resolution"}
      PROVE  DecidedInv'
  BY <1>3 DEF DecidedInv, DecidedKinds, NothingDecided, DecidedInOrder, WritesPlanned, DecidedAll
<1>4. CASE call' = NoCall
  BY <1>2, <1>4 DEF NoCall
<1>5. ASSUME NEW b \in Batch, Begin(b) PROVE DecidedInv'
  <2>1. call' = [NoCall EXCEPT !.phase = "evidence", !.since = version,
                               !.batch = Observations(b), !.persistence = ids.transactions]
    BY <1>5 DEF Begin
  <2> QED
    BY <1>2, <2>1 DEF NoCall
<1>6. ASSUME NEW m \in Materialization, Retry(m) PROVE DecidedInv'
  <2>1. call'.phase = "retrying" /\ call'.commands = <<>>
    BY <1>6 DEF Retry, NoCall
  <2> QED
    BY <2>1 DEF DecidedInv, DecidedKinds, NothingDecided, DecidedInOrder, WritesPlanned, DecidedAll
<1>7. ASSUME NEW action \in Outcome, NEW relation \in Relation \cup {None},
             Decide(action, relation)
      PROVE  DecidedInv'
  <2>1. call.phase = "deciding"
    BY <1>7 DEF Decide, Undecided, InPhase
  <2>2. \A p, q \in DOMAIN call.batch : call.batch[p] = call.batch[q] => p = q
    BY <2>1 DEF EvidenceThere, Persists
  <2> QED
    BY <1>0, <1>7, <2>2, DecideKeeps
<1>8. CASE EvidenceCommitted
  <2>1. Moves("evidence", "inference") /\ UNCHANGED call.writes
    BY <1>0, <1>8, CallMoves
  <2> QED
    BY <1>2, <2>1 DEF Moves, SameWork, DecidedInv, NothingDecided
<1>9. CASE Infer
  <2>1. Moves("inference", "deciding") /\ UNCHANGED call.writes
    BY <1>0, <1>9, CallMoves
  <2>2. call'.phase # "resolution"
    BY <2>1 DEF Moves
  <2>3. call.commands = <<>> /\ call.decisions = <<>> /\ call.writes = <<>>
    BY <2>1 DEF Moves, DecidedInv, NothingDecided
  <2>4. call'.commands = <<>> /\ call'.decisions = <<>> /\ call'.writes = <<>>
    BY <2>1, <2>3 DEF Moves, SameWork
  <2> QED
    BY <1>2, <2>2, <2>4
<1>10. CASE CommitResolutions
  <2>1. /\ Moves("deciding", "resolution") /\ UNCHANGED call.writes
        /\ Len(call.decisions) = Len(call.batch)
    BY <1>0, <1>10, CallMoves
  <2> QED
    BY <2>1 DEF Moves, SameWork, DecidedInv, DecidedKinds, NothingDecided, DecidedInOrder,
       WritesPlanned, DecidedAll, Of, PositionsOf
<1>11. CASE \/ ResolutionCommitted \/ Cache \/ CacheDone \/ Deliver \/ DeliverFails \/ Confirm
            \/ ReceiptCommitted
  BY <1>0, <1>3, <1>11, CallMoves DEF Moves, SameWork
<1> QED
  BY <1>1, <1>4, <1>5, <1>6, <1>7, <1>8, <1>9, <1>10, <1>11, CallSteps

(* The runtime goes forward only: it submits no revert, so nothing that it *)
(* has committed is taken back.                                            *)
OnlyForward ==
    /\ targets = {}
    /\ \A n \in DOMAIN transactions : transactions[n].active

(* The kinds of commands that a call has in flight.                        *)
LEMMA InflightKinds ==
    ASSUME CallInv, SubmissionHolds, DecidedInv, inflight # None
    PROVE  /\ call.phase \in Submitting
           /\ \A i \in DOMAIN inflight.commands :
                  /\ call.phase = "evidence" => inflight.commands[i].kind = "PersistObservation"
                  /\ call.phase = "resolution" =>
                         inflight.commands[i].kind \in {"CommitResolution", "EnqueueMaterialization"}
                  /\ call.phase = "receipt" => inflight.commands[i].kind = "Materialized"
<1>1. call.phase \in Submitting /\ Accepted /\ LastEnvelope = inflight
  BY DEF CallInv, PhaseHolds, Accepted, LastEnvelope
<1>2. ASSUME NEW i \in DOMAIN inflight.commands, call.phase = "evidence"
      PROVE  inflight.commands[i].kind = "PersistObservation"
  BY <1>1, <1>2 DEF SubmissionHolds, Persists
<1>3. ASSUME NEW i \in DOMAIN inflight.commands, call.phase = "resolution"
      PROVE  inflight.commands[i].kind \in {"CommitResolution", "EnqueueMaterialization"}
  BY <1>1, <1>3 DEF SubmissionHolds, DecidedInv, DecidedKinds
<1>4. ASSUME NEW i \in DOMAIN inflight.commands, call.phase = "receipt"
      PROVE  inflight.commands[i].kind = "Materialized"
  BY <1>1, <1>4 DEF SubmissionHolds, Receipt
<1> QED
  BY <1>1, <1>2, <1>3, <1>4

(* Every step goes forward.                                                *)
LEMMA ForwardStep ==
    ASSUME CallInv, SubmissionHolds, DecidedInv, OnlyForward, [RuntimeNext]_allvars
    PROVE  OnlyForward' /\ ~Revert /\ ~\E t \in targets : Deactivate(t)
<1>0. LedgerInv /\ LogConsistent /\ RuntimeTypeOK /\ PhaseHolds
  BY DEF CallInv
<1>1. ~Revert
  <2> SUFFICES ASSUME Revert PROVE FALSE
    OBVIOUS
  <2>1. /\ inflight # None /\ cursor \in DOMAIN inflight.commands
        /\ inflight.commands[cursor].kind = "Revert"
    BY DEF Revert, Applying, command
  <2> QED
    BY <2>1, InflightKinds DEF Submitting
<1>2. ~\E t \in targets : Deactivate(t)
  BY DEF OnlyForward
<1>3. ASSUME NEW e, Submits(e) PROVE OnlyForward'
  BY <1>0, <1>3, SubmissionAnswers DEF Quiet, Start, OnlyForward, state, log
<1>4. CASE Commits /\ Apply
  BY <1>1, <1>2, <1>4 DEF Apply, PersistObservation, CommitResolution, CreateIdentity, Promote,
     ChangeStatus, Merge, Split, EnqueueMaterialization, Materialized, Advance, OnlyForward, log
<1>5. CASE Commits /\ Record
  <2>1. targets' = {}
    BY <1>5 DEF Record, OnlyForward
  <2>2. DOMAIN transactions' = DOMAIN transactions \cup {Len(transactions) + 1}
        /\ \A n \in DOMAIN transactions' :
               \/ n \in DOMAIN transactions /\ transactions'[n] = transactions[n]
               \/ transactions'[n].active
    <3> DEFINE T == [version: 1..MaxVersion, envelope: CommandEnvelope, active: BOOLEAN]
               t == [version |-> next_version, envelope |-> inflight, active |-> TRUE]
    <3>1. transactions \in Seq(T) /\ transactions' = Append(transactions, t)
      BY <1>0, <1>5 DEF Record, LedgerInv, TypeOK, LogTypeOK
    <3>2. t.active
      OBVIOUS
    <3> HIDE DEF T, t
    <3> QED
      BY <3>1, <3>2
  <2> QED
    BY <1>1, <1>2, <2>1, <2>2 DEF OnlyForward
<1>6. CASE Rests
  BY <1>1, <1>2, <1>6 DEF Rests, Quiet, OnlyForward, state, log
<1> QED
  BY <1>0, <1>1, <1>2, <1>3, <1>4, <1>5, <1>6, RuntimeSteps, CommitAnswers

(* What is known of the work of a call.                                    *)
WorkInv == CallInv /\ SubmissionHolds /\ EvidenceThere /\ DecidedInv /\ OnlyForward

(* The runtime starts with it, and every step keeps it.                    *)
LEMMA WorkInvHolds ==
    /\ RuntimeInit => WorkInv
    /\ WorkInv /\ [RuntimeNext]_allvars => WorkInv'
<1>1. ASSUME RuntimeInit PROVE WorkInv
  <2>1. Init /\ call = NoCall /\ CallInv
    BY <1>1, CallInvHolds DEF RuntimeInit
  <2>2. SubmissionHolds /\ EvidenceThere
    BY <2>1 DEF NoCall, SubmissionHolds, EvidenceThere, Submitting
  <2>3. DecidedInv
    BY <2>1 DEF NoCall, DecidedInv, DecidedKinds, NothingDecided, DecidedInOrder, WritesPlanned,
       DecidedAll
  <2>4. OnlyForward
    BY <2>1 DEF Init, Empty, OnlyForward
  <2> QED
    BY <2>1, <2>2, <2>3, <2>4 DEF WorkInv
<1>2. ASSUME WorkInv, [RuntimeNext]_allvars PROVE WorkInv'
  BY <1>2, CallInvHolds, SubmissionStep, EvidenceThereStep, DecidedStep, ForwardStep DEF WorkInv
<1> QED
  BY <1>1, <1>2

-----------------------------------------------------------------------------
(***************************************************************************)
(* Host writes: every one that a call has to deliver stands in the outbox, *)
(* and every edge is the one that its entry asks for.                      *)
(***************************************************************************)
(* The entries that are yet to be made are new, each of them.              *)
EnqueueFresh ==
    inflight # None =>
        \A i \in cursor..Len(inflight.commands) :
            inflight.commands[i].kind = "EnqueueMaterialization" =>
                /\ inflight.commands[i].materialization \notin DOMAIN outbox
                /\ \A j \in cursor..(i - 1) :
                       inflight.commands[j].kind = "EnqueueMaterialization" =>
                           inflight.commands[j].materialization
                               # inflight.commands[i].materialization

(* The entry of host write w is that of version n.                         *)
Stands(w, n) ==
    /\ w.materialization \in DOMAIN outbox
    /\ outbox[w.materialization].relation = w.relation
    /\ outbox[w.materialization].decision = w.decision
    /\ outbox[w.materialization].commit = n

AppliedStand ==
    call.phase = "resolution" /\ Accepted =>
        \A i \in DOMAIN call.commands :
            /\ call.commands[i].kind = "EnqueueMaterialization"
            /\ inflight # None => i < cursor
            => Stands(call.commands[i], Now)

WritesStand ==
    call.phase \in {"caching", "delivering", "confirming", "receipt", "retrying"} =>
        \A i \in DOMAIN call.writes : Stands(call.writes[i], call.reached)

Written == call.phase \in {"confirming", "receipt"} => write.materialization \in DOMAIN edges

(* The outbox gets entries from resolutions, and receipts complete them.   *)
LEMMA OutboxSteps ==
    ASSUME WorkInv, [RuntimeNext]_allvars
    PROVE  \/ outbox' = outbox
           \/ /\ EnqueueMaterialization /\ call.phase = "resolution"
              /\ UNCHANGED <<edges, call, version, inflight>>
           \/ Materialized /\ call.phase = "receipt" /\ UNCHANGED <<edges, call, version, inflight>>
<1>0. LedgerInv /\ LogConsistent /\ RuntimeTypeOK /\ PhaseHolds
  BY DEF WorkInv, CallInv
<1>1. ASSUME NEW e, Submits(e) PROVE outbox' = outbox
  BY <1>0, <1>1, SubmissionAnswers DEF Quiet, Start, state, delivery
<1>2. CASE Rests
  BY <1>2 DEF Rests, Quiet, state, delivery
<1>3. CASE Commits /\ Record
  BY <1>3 DEF Record, delivery
<1>4. CASE Commits /\ Apply /\ UNCHANGED <<version, inflight>>
  <2>1. UNCHANGED <<edges, call, version, inflight>>
    BY <1>4 DEF Commits, hostvars, runtimevars
  <2>2. ~Revert /\ ~\E t \in targets : Deactivate(t)
    BY ForwardStep DEF WorkInv
  <2>3. \/ EnqueueMaterialization \/ Materialized \/ outbox' = outbox
    BY <1>4, <2>2 DEF Apply, PersistObservation, CommitResolution, CreateIdentity, Promote,
       ChangeStatus, Merge, Split, delivery
  <2>4. CASE EnqueueMaterialization
    <3>1. /\ inflight # None /\ cursor \in DOMAIN inflight.commands
          /\ inflight.commands[cursor].kind = "EnqueueMaterialization"
      BY <2>4 DEF EnqueueMaterialization, Applying, command
    <3>2. call.phase = "resolution"
      BY <3>1, InflightKinds DEF WorkInv, Submitting
    <3> QED
      BY <2>1, <2>4, <3>2
  <2>5. CASE Materialized
    <3>1. /\ inflight # None /\ cursor \in DOMAIN inflight.commands
          /\ inflight.commands[cursor].kind = "Materialized"
      BY <2>5 DEF Materialized, Applying, command
    <3>2. call.phase = "receipt"
      BY <3>1, InflightKinds DEF WorkInv, Submitting
    <3> QED
      BY <2>1, <2>5, <3>2
  <2> QED
    BY <2>3, <2>4, <2>5
<1> QED
  BY <1>0, <1>1, <1>2, <1>3, <1>4, RuntimeSteps, CommitAnswers

(* What an entry asks for stays.                                           *)
LEMMA EntriesStay ==
    ASSUME WorkInv, EnqueueFresh, [RuntimeNext]_allvars
    PROVE  \A m \in DOMAIN outbox :
               /\ m \in DOMAIN outbox'
               /\ outbox'[m].relation = outbox[m].relation
               /\ outbox'[m].decision = outbox[m].decision
               /\ outbox'[m].commit = outbox[m].commit
               /\ outbox[m].completed => outbox'[m].completed
<1>0. outbox \in [DOMAIN outbox -> [decision: Decision, relation: Relation, commit: 1..MaxVersion,
                                    completed: BOOLEAN]]
  BY DEF WorkInv, CallInv, LedgerInv, TypeOK, DeliveryTypeOK
<1>1. CASE EnqueueMaterialization
  <2>1. /\ inflight # None /\ cursor \in DOMAIN inflight.commands
        /\ inflight.commands[cursor].kind = "EnqueueMaterialization"
    BY <1>1 DEF EnqueueMaterialization, Applying, command
  <2>2. cursor \in cursor..Len(inflight.commands)
    BY <2>1, InFlight DEF WorkInv, CallInv
  <2>3. command.materialization \notin DOMAIN outbox
    BY <2>1, <2>2 DEF EnqueueFresh, command
  <2> QED
    BY <1>1, <2>3 DEF EnqueueMaterialization, Insert
<1>2. CASE Materialized
  BY <1>0, <1>2 DEF Materialized, Complete
<1> QED
  BY <1>1, <1>2, OutboxSteps

(* So does a host write that stands.                                       *)
LEMMA StandsKept ==
    ASSUME WorkInv, EnqueueFresh, [RuntimeNext]_allvars, NEW w, NEW n, Stands(w, n)
    PROVE  Stands(w, n)'
<1>1. /\ w.materialization \in DOMAIN outbox
      /\ outbox[w.materialization].relation = w.relation
      /\ outbox[w.materialization].decision = w.decision
      /\ outbox[w.materialization].commit = n
  BY DEF Stands
<1>2. /\ w.materialization \in DOMAIN outbox'
      /\ outbox'[w.materialization].relation = outbox[w.materialization].relation
      /\ outbox'[w.materialization].decision = outbox[w.materialization].decision
      /\ outbox'[w.materialization].commit = outbox[w.materialization].commit
  BY <1>1, EntriesStay
<1> QED
  BY <1>1, <1>2 DEF Stands

(* Every step keeps the entries that are yet to be made new.               *)
LEMMA EnqueueFreshStep ==
    ASSUME WorkInv, EnqueueFresh, [RuntimeNext]_allvars
    PROVE  EnqueueFresh'
<1>0. LedgerInv /\ LogConsistent /\ TableStep
  BY CallInvHolds DEF WorkInv, CallInv
<1>1. CASE inflight' = None
  BY <1>1 DEF EnqueueFresh
<1>2. ASSUME NEW e \in CommandEnvelope, Start(e) PROVE EnqueueFresh'
  <2>1. /\ inflight' = e /\ cursor' = 1 /\ outbox' = outbox
        /\ \A i \in DOMAIN e.commands : ValidCommand(e, i)
    BY <1>2 DEF Start, Valid, CommandsValid, state, delivery
  <2>2. DOMAIN e.commands = 1..Len(e.commands)
    BY EnvelopeFields
  <2>3. ASSUME NEW i \in 1..Len(e.commands), e.commands[i].kind = "EnqueueMaterialization"
        PROVE  /\ e.commands[i].materialization \notin DOMAIN outbox
               /\ \A j \in 1..(i - 1) :
                      e.commands[j].kind = "EnqueueMaterialization" =>
                          e.commands[j].materialization # e.commands[i].materialization
    <3>1. ValidEnqueue(e, i)
      BY <2>1, <2>2, <2>3 DEF ValidCommand
    <3>2. e.commands[i].materialization \notin DOMAIN outbox \cup PendingMaterializations(e, i)
      BY <3>1 DEF ValidEnqueue
    <3>3. \A j \in 1..(i - 1) : e.commands[j].kind = "EnqueueMaterialization" =>
              e.commands[j].materialization \in PendingMaterializations(e, i)
      BY DEF PendingMaterializations, Earlier
    <3> QED
      BY <3>2, <3>3
  <2> QED
    BY <2>1, <2>3 DEF EnqueueFresh
<1>3. CASE /\ inflight # None /\ inflight' = inflight /\ cursor' \in {cursor, cursor + 1}
           /\ next_version' = next_version
           /\ Len(inflight.commands) \in Nat /\ cursor \in 1..(Len(inflight.commands) + 1)
           /\ \A i \in cursor'..Len(inflight.commands) : i \in cursor..Len(inflight.commands)
  <2>1. CASE DOMAIN outbox' = DOMAIN outbox
    <3>1. \A i : \A j \in cursor'..(i - 1) : i \in Nat => j \in cursor..(i - 1)
      BY <1>3
    <3>2. \A i \in cursor'..Len(inflight.commands) : i \in Nat
      BY <1>3
    <3> QED
      BY <1>3, <2>1, <3>1, <3>2 DEF EnqueueFresh
  <2>2. CASE EnqueueMaterialization
    <3> DEFINE c == inflight.commands[cursor]
    <3>1. /\ cursor' = cursor + 1 /\ cursor \in DOMAIN inflight.commands
          /\ c.kind = "EnqueueMaterialization"
          /\ DOMAIN outbox' = DOMAIN outbox \cup {c.materialization}
      BY <2>2 DEF EnqueueMaterialization, Applying, Advance, command, Insert
    <3>2. ASSUME NEW i \in (cursor + 1)..Len(inflight.commands),
                 inflight.commands[i].kind = "EnqueueMaterialization"
          PROVE  /\ inflight.commands[i].materialization \notin DOMAIN outbox'
                 /\ \A j \in (cursor + 1)..(i - 1) :
                        inflight.commands[j].kind = "EnqueueMaterialization" =>
                            inflight.commands[j].materialization
                                # inflight.commands[i].materialization
      <4>1. i \in cursor..Len(inflight.commands) /\ cursor \in cursor..(i - 1)
            /\ \A j \in (cursor + 1)..(i - 1) : j \in cursor..(i - 1)
        BY <1>3, <3>2
      <4>2. /\ inflight.commands[i].materialization \notin DOMAIN outbox
            /\ \A j \in cursor..(i - 1) :
                   inflight.commands[j].kind = "EnqueueMaterialization" =>
                       inflight.commands[j].materialization
                           # inflight.commands[i].materialization
        BY <1>3, <3>2, <4>1 DEF EnqueueFresh
      <4>3. c.materialization # inflight.commands[i].materialization
        BY <3>1, <4>1, <4>2
      <4> QED
        BY <3>1, <4>1, <4>2, <4>3
    <3> QED
      BY <1>3, <3>1, <3>2 DEF EnqueueFresh
  <2>3. Materialized => DOMAIN outbox' = DOMAIN outbox
    BY DEF Materialized, Complete
  <2> QED
    BY <2>1, <2>2, <2>3, OutboxSteps
<1> QED
  BY <1>0, <1>1, <1>2, <1>3, LeftSteps

(* What a resolution has enqueued so far stands.                           *)
LEMMA AppliedStandStep ==
    ASSUME WorkInv, EnqueueFresh, AppliedStand, [RuntimeNext]_allvars
    PROVE  AppliedStand'
<1>0. /\ LedgerInv /\ LogConsistent /\ TableStep /\ RuntimeTypeOK /\ PhaseHolds
      /\ version \in Nat /\ next_version = version + 1
  BY CallInvHolds, VersionsOfLog DEF WorkInv, CallInv
<1>1. ASSUME NEW e, Submits(e) PROVE AppliedStand'
  <2>1. CASE inflight' = None /\ outcome'.result # "Committed"
    BY <2>1 DEF AppliedStand, Accepted
  <2>2. CASE /\ Start(e) /\ inflight' = e /\ e # None
    <3>1. ~\E i \in DOMAIN call'.commands : i < 1
      <4>1. call' \in CallType
        BY RuntimeTypeStep, <1>0 DEF RuntimeTypeOK, CallTypeOK, LedgerInv
      <4>2. call'.commands \in Seq(Command)
        BY <4>1 DEF CallType
      <4> QED
        BY <4>2
    <3> QED
      BY <2>2, <3>1 DEF AppliedStand, Start
  <2> QED
    BY <1>0, <1>1, <2>1, <2>2, SubmissionAnswers
<1>2. CASE Rests
  <2>1. UNCHANGED <<inflight, version, cursor, outbox>>
    BY <1>2 DEF Rests, Quiet, state, log, delivery
  <2>2. Now' = Now
    BY <2>1 DEF Now, next_version
  <2>3. NoCall.phase # "resolution" /\ "resolution" \in Submitting
    BY DEF NoCall, Submitting
  <2>4. CASE call'.phase # "resolution"
    BY <2>4 DEF AppliedStand
  <2>5. CASE call' = call /\ outcome' = outcome
    BY <2>1, <2>2, <2>5 DEF AppliedStand, Accepted, Stands
  <2> QED
    BY <1>2, <2>3, <2>4, <2>5 DEF Rests
<1>3. ASSUME Commits, call.phase = "resolution", Now' = Now,
             NEW i \in DOMAIN call.commands,
             call.commands[i].kind = "EnqueueMaterialization", i < cursor
      PROVE  Stands(call.commands[i], Now)'
  <2>1. inflight # None
    BY <1>0, <1>3, CommitAnswers
  <2> DEFINE w == call.commands[i]
             n == Now
  <2>2. Stands(w, n)
    BY <1>3, <2>1 DEF AppliedStand, Accepted
  <2>3. \A v, k : Stands(v, k) => Stands(v, k)'
    BY StandsKept
  <2>4. call'.commands[i] = call.commands[i]
    BY <1>3 DEF Commits, runtimevars
  <2>5. \A v, k : v = w /\ k = n => Stands(v, k)'
    BY <2>2, <2>3
  <2> HIDE DEF w, n
  <2>6. \A v, k : v = w' /\ k = n' => Stands(v, k)'
    BY <1>3, <2>4, <2>5 DEF w, n
  <2> QED
    BY <2>6 DEF w, n
<1>4. CASE Commits /\ call.phase # "resolution"
  BY <1>4 DEF Commits, runtimevars, AppliedStand
<1>5. CASE /\ Commits /\ call.phase = "resolution" /\ Record /\ inflight' = None
           /\ version' = next_version
  <2>1. inflight # None /\ cursor = Len(inflight.commands) + 1
    BY <1>5 DEF Record
  <2>2. Now' = Now
    BY <1>5, <2>1 DEF Now
  <2>3. LastEnvelope = inflight /\ Accepted
    BY <2>1 DEF LastEnvelope, Accepted
  <2>4. inflight.commands = call.commands
    BY <1>5, <2>3 DEF WorkInv, SubmissionHolds, Submitting
  <2>5. \A i \in DOMAIN call.commands : i < cursor
    BY <1>0, <2>1, <2>4 DEF RuntimeTypeOK, CallTypeOK, CallType
  <2>6. call' = call
    BY <1>5 DEF Commits, runtimevars
  <2> QED
    BY <1>3, <1>5, <2>2, <2>5, <2>6 DEF AppliedStand
<1>6. CASE /\ Commits /\ call.phase = "resolution" /\ Apply
           /\ UNCHANGED <<version, inflight, outcome>>
  <2>1. Now' = Now /\ Now = next_version /\ inflight # None /\ call' = call
    <3>1. inflight # None
      BY <1>0, <1>6, CommitAnswers
    <3> QED
      BY <1>6, <3>1 DEF Now, next_version, Commits, runtimevars
  <2>2. LastEnvelope = inflight /\ Accepted
    BY <2>1 DEF LastEnvelope, Accepted
  <2>3. inflight.commands = call.commands
    BY <1>6, <2>2 DEF WorkInv, SubmissionHolds, Submitting
  <2>4. cursor' = cursor + 1 /\ cursor \in DOMAIN inflight.commands
    <3>1. ~Revert /\ ~\E t \in targets : Deactivate(t)
      BY ForwardStep DEF WorkInv
    <3> QED
      BY <1>6, <3>1 DEF Apply, PersistObservation, CommitResolution, CreateIdentity, Promote,
         ChangeStatus, Merge, Split, EnqueueMaterialization, Materialized, Advance, Applying
  <2>5. CASE EnqueueMaterialization
    <3>1. /\ outbox' = Insert(outbox, command.materialization,
                 [decision |-> command.decision, relation |-> command.relation,
                  commit |-> next_version, completed |-> FALSE])
          /\ command = call.commands[cursor]
      BY <2>3, <2>5 DEF EnqueueMaterialization, command
    <3>2. \A w, n : w = call.commands[cursor] /\ n = next_version => Stands(w, n)'
      BY <3>1 DEF Stands, Insert
    <3> HIDE DEF Now
    <3>3. \A i \in DOMAIN call.commands :
              call.commands[i].kind = "EnqueueMaterialization" /\ i < cursor + 1 =>
                  \A w, n : w = call.commands[i] /\ n = Now' => Stands(w, n)'
      <4> SUFFICES ASSUME NEW i \in DOMAIN call.commands,
                          call.commands[i].kind = "EnqueueMaterialization", i < cursor + 1,
                          NEW w, NEW n, w = call.commands[i], n = Now'
                   PROVE  Stands(w, n)'
        OBVIOUS
      <4>1. i < cursor \/ i = cursor
        BY <1>0, <2>4 DEF RuntimeTypeOK, CallTypeOK, CallType, LedgerInv, TypeOK, ControlTypeOK
      <4>2. CASE i = cursor
        BY <2>1, <3>2, <4>2
      <4>3. CASE i < cursor
        <5>1. Stands(w, n)
          BY <1>6, <2>1, <2>2, <4>3 DEF AppliedStand
        <5> QED
          BY <5>1, StandsKept
      <4> QED
        BY <4>1, <4>2, <4>3
    <3>4. ASSUME NEW i \in DOMAIN call.commands,
                 call.commands[i].kind = "EnqueueMaterialization", i < cursor + 1
          PROVE  Stands(call.commands[i], Now)'
      BY <2>1, <3>3, <3>4
    <3> QED
      BY <1>6, <2>1, <2>4, <3>4 DEF AppliedStand
  <2>6. CASE ~EnqueueMaterialization
    <3>1. call.commands[cursor].kind # "EnqueueMaterialization"
      BY <1>6, <2>3, <2>6 DEF Apply, PersistObservation, CommitResolution, CreateIdentity, Promote,
         ChangeStatus, Merge, Split, Materialized, Revert, Applying, command, WorkInv, OnlyForward
    <3>2. \A i \in DOMAIN call.commands :
              call.commands[i].kind = "EnqueueMaterialization" /\ i < cursor + 1 => i < cursor
      BY <1>0, <2>4, <3>1 DEF RuntimeTypeOK, CallTypeOK, CallType, LedgerInv, TypeOK, ControlTypeOK
    <3> QED
      BY <1>3, <1>6, <2>1, <2>4, <3>2 DEF AppliedStand
  <2> QED
    BY <2>5, <2>6
<1> QED
  BY <1>0, <1>1, <1>2, <1>4, <1>5, <1>6, RuntimeSteps, CommitAnswers

(* The host gets an edge from a call that delivers or retries, and keeps   *)
(* the edges it has.                                                       *)
LEMMA EdgeSteps ==
    ASSUME WorkInv, [RuntimeNext]_allvars
    PROVE  /\ DOMAIN edges \subseteq DOMAIN edges'
           /\ \/ edges' = edges
              \/ /\ call.phase \in {"delivering", "retrying"} /\ call.writes # <<>>
                 /\ Accepts(write.materialization, WrittenEdge)
                 /\ edges' = Insert(edges, write.materialization, WrittenEdge)
                 /\ UNCHANGED vars
<1>0. RuntimeTypeOK
  BY DEF WorkInv, CallInv
<1>1. CASE Deliver \/ DeliverFails
  BY <1>1 DEF Deliver, DeliverFails, Materialize, MaterializeFails, InPhase, Insert
<1>2. CASE RetryFails
  BY <1>0, <1>2 DEF RetryFails, MaterializeFails, InPhase, Insert, RuntimeTypeOK, CallTypeOK
<1>3. CASE ~(Deliver \/ DeliverFails \/ RetryFails)
  <2>1. edges' = edges
    BY <1>3 DEF RuntimeNext, Calls, Running, Begin, BeginFails, Retry, RetryAnswered, LedgerStep,
       Refused, EvidenceCommitted, Infer, InferenceFails, Decide, DecideExhausted,
       CommitResolutions, ResolutionCommitted, TransactionsExhausted, Cache, StaleCommit,
       CacheDone, Confirm, ReceiptCommitted, Finish, Restart, HostStep, AddNode, hostvars, allvars
  <2> QED
    BY <2>1
<1> QED
  BY <1>1, <1>2, <1>3

(* The rest of the writes is among the writes.                             *)
LEMMA RestOfWrites ==
    ASSUME call \in CallType, call.writes # <<>>
    PROVE  /\ \A i \in DOMAIN Tail(call.writes) :
                  i + 1 \in DOMAIN call.writes /\ Tail(call.writes)[i] = call.writes[i + 1]
           /\ 1 \in DOMAIN call.writes /\ write = call.writes[1]
<1>1. call.writes \in Seq(HostWrite)
  BY DEF CallType
<1> QED
  BY <1>1 DEF write

(* Every step keeps the writes of a call in the outbox.                    *)
LEMMA WritesStandStep ==
    ASSUME WorkInv, EnqueueFresh, AppliedStand, WritesStand, [RuntimeNext]_allvars
    PROVE  WritesStand'
<1>0. RuntimeTypeOK /\ call \in CallType /\ AnswerHolds
  BY DEF WorkInv, CallInv, RuntimeTypeOK, CallTypeOK
<1>1. \A w, n : Stands(w, n) => Stands(w, n)'
  BY StandsKept
<1>2. ASSUME \A i \in DOMAIN call'.writes : Stands(call'.writes[i], call'.reached)
      PROVE  WritesStand'
  <2>1. \A i \in DOMAIN call'.writes :
            \A w, n : w = call'.writes[i] /\ n = call'.reached => Stands(w, n)'
    BY <1>1, <1>2
  <2>2. ASSUME NEW i \in DOMAIN call'.writes PROVE Stands(call.writes[i], call.reached)'
    BY <2>1, <2>2
  <2> QED
    BY <2>2 DEF WritesStand
<1>3. CASE /\ call.phase \in {"caching", "delivering", "confirming", "receipt", "retrying"}
           /\ call'.writes = call.writes /\ call'.reached = call.reached
  BY <1>2, <1>3 DEF WritesStand
<1>4. CASE /\ call.phase \in {"delivering", "receipt"} /\ call'.reached = call.reached
           /\ call'.writes = Tail(call.writes) /\ call.writes # <<>>
  <2>1. \A i \in DOMAIN call.writes : Stands(call.writes[i], call.reached)
    BY <1>4 DEF WritesStand
  <2> QED
    BY <1>0, <1>2, <1>4, <2>1, RestOfWrites
<1>5. CASE call'.phase \notin {"caching", "delivering", "confirming", "receipt", "retrying"}
  BY <1>5 DEF WritesStand
<1>6. CASE call' = call
  BY <1>3, <1>5, <1>6
<1>7. CASE call' = NoCall
  BY <1>5, <1>7 DEF NoCall
<1>8. ASSUME NEW b \in Batch, Begin(b) PROVE WritesStand'
  BY <1>5, <1>8, NoCallType DEF Begin, CallType
<1>9. ASSUME NEW m \in Materialization, Retry(m) PROVE WritesStand'
  <2> DEFINE w == [materialization |-> m, decision |-> outbox[m].decision,
                   relation |-> outbox[m].relation]
  <2>1. call'.writes = <<w>> /\ call'.reached = outbox[m].commit /\ m \in DOMAIN outbox
    BY <1>9 DEF Retry, NoCall
  <2>2. Stands(w, outbox[m].commit)
    BY <2>1 DEF Stands
  <2> HIDE DEF w
  <2> QED
    BY <1>2, <2>1, <2>2
<1>10. ASSUME NEW action \in Outcome, NEW relation \in Relation \cup {None},
              Decide(action, relation)
       PROVE  WritesStand'
  <2>1. call'.phase = "deciding"
    BY <1>0, <1>10 DEF Decide, Undecided, InPhase, CallType
  <2> QED
    BY <1>5, <2>1
<1>11. CASE EvidenceCommitted \/ Infer \/ CommitResolutions
  BY <1>0, <1>5, <1>11, CallMoves DEF Moves
<1>12. CASE ResolutionCommitted
  <2>1. /\ Moves("resolution", "caching") /\ Granted /\ call'.writes = call.writes
        /\ call'.reached = outcome.version
    BY <1>0, <1>12, CallMoves
  <2>2. Accepted /\ call.phase = "resolution" /\ inflight = None
    BY <1>0, <2>1 DEF Moves, AnswerHolds, Accepted, Granted
  <2>3. outcome.version = Now
    BY <1>0, <2>1, <2>2 DEF AnswerHolds, Now, Submitting
  <2>4. ASSUME NEW i \in DOMAIN call.writes
        PROVE  Stands(call.writes[i], call'.reached)
    <3>1. PICK j \in DOMAIN call.commands : call.commands[j] = Enqueue(call.writes[i])
      BY <2>2 DEF WorkInv, DecidedInv, WritesPlanned
    <3>2. call.commands[j].kind = "EnqueueMaterialization"
      BY <3>1 DEF Enqueue
    <3>3. Stands(call.commands[j], Now)
      BY <2>2, <3>2 DEF AppliedStand
    <3> QED
      BY <2>1, <2>3, <3>1, <3>3 DEF Stands, Enqueue
  <2> QED
    BY <1>2, <2>1, <2>4
<1>13. CASE Cache \/ CacheDone \/ Deliver \/ Confirm
  BY <1>0, <1>3, <1>13, CallMoves DEF Moves
<1>14. CASE DeliverFails \/ ReceiptCommitted
  <2>1. call.writes # <<>>
    BY <1>0, <1>14 DEF DeliverFails, ReceiptCommitted, InPhase, RuntimeTypeOK, CallTypeOK
  <2> QED
    BY <1>0, <1>4, <1>14, <2>1, CallMoves DEF Moves
<1> QED
  BY <1>6, <1>7, <1>8, <1>9, <1>10, <1>11, <1>12, <1>13, <1>14, CallSteps

(* A write that is to be confirmed has been made.                          *)
LEMMA WrittenStep ==
    ASSUME WorkInv, Written, [RuntimeNext]_allvars
    PROVE  Written'
<1>0. call \in CallType /\ DOMAIN edges \subseteq DOMAIN edges'
  BY EdgeSteps DEF WorkInv, CallInv, RuntimeTypeOK, CallTypeOK
<1>1. CASE call'.phase \notin {"confirming", "receipt"}
  BY <1>1 DEF Written
<1>2. CASE call' = call
  BY <1>0, <1>2 DEF Written, write
<1>3. CASE Deliver
  BY <1>0, <1>3, CallMoves DEF Deliver, Materialize, Insert, Written, write
<1>4. CASE Confirm
  BY <1>0, <1>4, CallMoves DEF Moves, Written, write
<1>5. ASSUME \/ call' = NoCall
             \/ \E b \in Batch : Begin(b)
             \/ \E m \in Materialization : Retry(m)
      PROVE  call'.phase \notin {"confirming", "receipt"}
  BY <1>5, NoCallType DEF Begin, Retry, CallType
<1>6. ASSUME NEW action \in Outcome, NEW relation \in Relation \cup {None},
             Decide(action, relation)
      PROVE  call'.phase = "deciding"
  BY <1>0, <1>6 DEF Decide, Undecided, InPhase, CallType
<1>7. CASE \/ EvidenceCommitted \/ Infer \/ CommitResolutions \/ ResolutionCommitted
           \/ Cache \/ CacheDone \/ DeliverFails \/ ReceiptCommitted
  BY <1>0, <1>1, <1>7, CallMoves DEF Moves
<1> QED
  BY <1>1, <1>2, <1>3, <1>4, <1>5, <1>6, <1>7, CallSteps

(* Every step keeps the host what the outbox asks for.                     *)
LEMMA HostStepMatches ==
    ASSUME WorkInv, EnqueueFresh, WritesStand, Written, HostMatchesOutbox, [RuntimeNext]_allvars
    PROVE  HostMatchesOutbox'
<1>0. call \in CallType /\ RuntimeTypeOK
  BY DEF WorkInv, CallInv, RuntimeTypeOK, CallTypeOK
<1>1. ASSUME NEW m \in DOMAIN edges', m \in DOMAIN edges, edges'[m] = edges[m]
      PROVE  /\ m \in DOMAIN outbox'
             /\ edges'[m] = Edge(outbox'[m].relation, outbox'[m].decision, outbox'[m].commit)
  BY <1>1, EntriesStay DEF HostMatchesOutbox
<1>2. ASSUME NEW m \in DOMAIN edges'
      PROVE  /\ m \in DOMAIN outbox'
             /\ edges'[m] = Edge(outbox'[m].relation, outbox'[m].decision, outbox'[m].commit)
  <2>1. CASE edges' = edges
    BY <1>1, <2>1
  <2>2. CASE /\ call.phase \in {"delivering", "retrying"} /\ call.writes # <<>>
             /\ edges' = Insert(edges, write.materialization, WrittenEdge)
             /\ UNCHANGED vars
    <3>1. CASE m = write.materialization
      <4>1. Stands(write, call.reached)
        BY <1>0, <2>2, RestOfWrites DEF WritesStand
      <4> QED
        BY <2>2, <3>1, <4>1 DEF Stands, WrittenEdge, Edge, Insert, vars, state, delivery
    <3>2. CASE m # write.materialization
      BY <1>1, <2>2, <3>2 DEF Insert
    <3> QED
      BY <3>1, <3>2
  <2> QED
    BY <2>1, <2>2, EdgeSteps
<1>3. ASSUME NEW m \in DOMAIN outbox', outbox'[m].completed PROVE m \in DOMAIN edges'
  <2>1. m \in DOMAIN outbox /\ outbox[m].completed => m \in DOMAIN edges'
    BY EdgeSteps DEF HostMatchesOutbox
  <2>2. CASE outbox' = outbox
    BY <1>3, <2>1, <2>2
  <2>3. CASE EnqueueMaterialization
    BY <1>3, <2>1, <2>3 DEF EnqueueMaterialization, Insert
  <2>4. CASE Materialized /\ call.phase = "receipt"
    <3>1. m \in DOMAIN outbox /\ (outbox[m].completed \/ m = command.materialization)
      <4>1. outbox \in [DOMAIN outbox -> [decision: Decision, relation: Relation,
                                          commit: 1..MaxVersion, completed: BOOLEAN]]
        BY DEF WorkInv, CallInv, LedgerInv, TypeOK, DeliveryTypeOK
      <4>2. outbox' = Complete(command.materialization)
        BY <2>4 DEF Materialized
      <4> QED
        BY <1>3, <4>1, <4>2 DEF Complete
    <3>2. inflight # None /\ cursor \in DOMAIN inflight.commands
      BY <2>4 DEF Materialized, Applying
    <3>3. inflight.commands = Receipt(write)
      BY <2>4, <3>2 DEF WorkInv, SubmissionHolds, Accepted, LastEnvelope, Submitting
    <3>4. command.materialization = write.materialization
      BY <3>2, <3>3 DEF command, Receipt
    <3>5. write.materialization \in DOMAIN edges'
      BY <2>4, EdgeSteps DEF Written
    <3> QED
      BY <2>1, <3>1, <3>4, <3>5
  <2> QED
    BY <2>2, <2>3, <2>4, OutboxSteps
<1> QED
  BY <1>2, <1>3 DEF HostMatchesOutbox, Edge

DeliveryInv ==
    WorkInv /\ EnqueueFresh /\ AppliedStand /\ WritesStand /\ Written /\ HostMatchesOutbox

(* The runtime starts with the invariant of the delivery and keeps it.     *)
LEMMA DeliveryInvHolds ==
    /\ RuntimeInit => DeliveryInv
    /\ DeliveryInv /\ [RuntimeNext]_allvars => DeliveryInv'
<1>1. ASSUME RuntimeInit PROVE DeliveryInv
  <2>1. Init /\ HostInit /\ call = NoCall /\ WorkInv
    BY <1>1, WorkInvHolds DEF RuntimeInit
  <2>2. EnqueueFresh /\ AppliedStand /\ WritesStand /\ Written
    BY <2>1 DEF Init, Empty, NoCall, EnqueueFresh, AppliedStand, WritesStand, Written
  <2>3. HostMatchesOutbox
    BY <2>1 DEF Init, Empty, HostInit, EmptyMap, HostMatchesOutbox
  <2> QED
    BY <2>1, <2>2, <2>3 DEF DeliveryInv
<1>2. ASSUME DeliveryInv, [RuntimeNext]_allvars PROVE DeliveryInv'
  BY <1>2, WorkInvHolds, EnqueueFreshStep, AppliedStandStep, WritesStandStep, WrittenStep,
     HostStepMatches DEF DeliveryInv
<1> QED
  BY <1>1, <1>2

(* Every edge of the host is the one the entry of its key asks for, and    *)
(* every entry that is completed has one, whoever delivered it, whatever   *)
(* fails on the way and however often the process starts again.            *)
THEOREM HostFollowsOutbox == RuntimeSpec => []HostMatchesOutbox
<1>1. DeliveryInv => HostMatchesOutbox
  BY DEF DeliveryInv
<1> QED
  BY <1>1, DeliveryInvHolds, PTL DEF RuntimeSpec

-----------------------------------------------------------------------------
(***************************************************************************)
(* Resolutions against the evidence they resolve.                          *)
(***************************************************************************)

(* A call that has decided its whole batch covers the evidence of it.      *)
LEMMA CallCovers ==
    ASSUME call \in CallType, DecidedInv, call.phase = "resolution",
           NEW e, e.commands = call.commands, NEW d, Persists(d, call)
    PROVE  Covers(e, d)
<1> DEFINE resolved == PositionsOf(e, "CommitResolution")
           persisted == PositionsOf(d, "PersistObservation")
           Match(i, p) == e.commands[i].inference.observation = d.commands[p].observation
<1>1. resolved = PositionsOf(call, "CommitResolution")
  BY DEF PositionsOf
<1>2. persisted = DOMAIN call.batch /\ DOMAIN call.decisions = DOMAIN call.batch
  <2>1. Len(call.decisions) = Len(call.batch)
    BY DEF DecidedInv, DecidedAll
  <2>2. DOMAIN call.decisions = DOMAIN call.batch
    BY <2>1 DEF CallType
  <2> QED
    BY <2>2 DEF Persists, PositionsOf
<1>3. \A i, p : p \in DOMAIN call.batch =>
          (Match(i, p) <=> call.commands[i].inference.observation = call.batch[p])
  BY DEF Persists
<1>4. /\ \A i \in resolved : \E p \in DOMAIN call.decisions : Of(i, p)
      /\ \A p \in DOMAIN call.decisions : \E i \in resolved : Of(i, p)
      /\ \A i, j \in resolved : \A p, q \in DOMAIN call.decisions :
             i < j /\ Of(i, p) /\ Of(j, q) => p < q
  BY <1>1 DEF DecidedInv, DecidedInOrder
<1> HIDE DEF resolved, persisted, Match
<1>5. ASSUME NEW i \in resolved, NEW p \in persisted PROVE Match(i, p) <=> Of(i, p)
  <2>1. Of(i, p) => Match(i, p)
    BY <1>2, <1>3 DEF Of
  <2>2. ASSUME Match(i, p) PROVE Of(i, p)
    <3>1. PICK q \in DOMAIN call.decisions : Of(i, q)
      BY <1>4
    <3>2. call.batch[q] = call.batch[p]
      BY <1>2, <1>3, <2>2, <3>1 DEF Of
    <3> QED
      BY <1>2, <3>1, <3>2 DEF Persists
  <2> QED
    BY <2>1, <2>2
<1>6. /\ \A i \in resolved : \E p \in persisted : Match(i, p)
      /\ \A p \in persisted : \E i \in resolved : Match(i, p)
      /\ \A i, j \in resolved : \A p, q \in persisted :
             i < j /\ Match(i, p) /\ Match(j, q) => p < q
  BY <1>2, <1>4, <1>5
<1> QED
  BY <1>6 DEF Covers, resolved, persisted, Match

(* A transaction with resolutions covers the one before it, the only one   *)
(* that it depends on.                                                     *)
Follows(e, d) == e.depends_on = {d.transaction} /\ Covers(e, d)

CoverageRecorded ==
    \A n \in DOMAIN transactions :
        PositionsOf(transactions[n].envelope, "CommitResolution") # {} =>
            /\ n - 1 \in DOMAIN transactions
            /\ Follows(transactions[n].envelope, transactions[n - 1].envelope)

(* The log grows by the envelope in flight, or not at all.                 *)
LEMMA LogGrows ==
    ASSUME CallInv, [RuntimeNext]_allvars
    PROVE  /\ version \in Nat /\ DOMAIN transactions = 1..version
           /\ \A n \in DOMAIN transactions :
                  n \in DOMAIN transactions' /\ transactions'[n].envelope = transactions[n].envelope
           /\ \/ DOMAIN transactions' = DOMAIN transactions
              \/ /\ inflight # None /\ DOMAIN transactions' = 1..(version + 1)
                 /\ transactions'[version + 1].envelope = inflight
<1>0. LedgerInv /\ LogConsistent /\ TableStep /\ TypeOK /\ ValidationHolds
  BY CallInvHolds DEF CallInv, LedgerInv
<1>1. version \in Nat /\ DOMAIN transactions = 1..version /\ Len(transactions) = version
  BY <1>0, VersionsOfLog
<1>2. \A n \in DOMAIN transactions :
          n \in DOMAIN transactions' /\ transactions'[n].envelope = transactions[n].envelope
  BY <1>0, RecordsKept
<1>3. CASE Record
  <2>1. inflight # None
    BY <1>3 DEF Record
  <2>2. /\ DOMAIN transactions' = 1..(Len(transactions) + 1)
        /\ transactions'[Len(transactions) + 1] =
               [version |-> next_version, envelope |-> inflight, active |-> TRUE]
    BY <1>0, <1>3, AppendedLog
  <2> QED
    BY <1>1, <1>2, <2>1, <2>2
<1>4. CASE \E t \in targets : Deactivate(t)
  BY <1>0, <1>1, <1>2, <1>4, DeactivateLog
<1>5. CASE UNCHANGED log
  BY <1>1, <1>2, <1>5 DEF log
<1> QED
  BY <1>0, <1>3, <1>4, <1>5, LogSteps

(* Every step keeps that.                                                  *)
LEMMA CoverageStep ==
    ASSUME WorkInv, CoverageRecorded, [RuntimeNext]_allvars
    PROVE  CoverageRecorded'
<1>0. CallInv /\ LedgerInv /\ LogConsistent /\ call \in CallType
  BY DEF WorkInv, CallInv, RuntimeTypeOK, CallTypeOK
<1>1. /\ version \in Nat /\ DOMAIN transactions = 1..version
      /\ \A n \in DOMAIN transactions :
             n \in DOMAIN transactions' /\ transactions'[n].envelope = transactions[n].envelope
      /\ \/ DOMAIN transactions' = DOMAIN transactions
         \/ /\ inflight # None /\ DOMAIN transactions' = 1..(version + 1)
            /\ transactions'[version + 1].envelope = inflight
  BY <1>0, LogGrows
<1>2. ASSUME NEW n \in DOMAIN transactions,
             PositionsOf(transactions'[n].envelope, "CommitResolution") # {}
      PROVE  /\ n - 1 \in DOMAIN transactions'
             /\ Follows(transactions'[n].envelope, transactions'[n - 1].envelope)
  BY <1>1, <1>2 DEF CoverageRecorded
<1>3. ASSUME inflight # None, PositionsOf(inflight, "CommitResolution") # {}
      PROVE  version # 0 /\ Follows(inflight, transactions[version].envelope)
  <2>1. call.phase = "resolution"
    BY <1>3, InflightKinds DEF WorkInv, PositionsOf, Submitting
  <2>2. version # 0 /\ Persists(transactions[version].envelope, call)
    BY <1>3, <2>1 DEF WorkInv, EvidenceThere
  <2>3. inflight.commands = call.commands /\ inflight.depends_on = {call.persistence}
    BY <1>3, <2>1 DEF WorkInv, SubmissionHolds, Accepted, LastEnvelope, Submitting
  <2>4. Covers(inflight, transactions[version].envelope)
    BY <1>0, <2>1, <2>2, <2>3, CallCovers DEF WorkInv
  <2> QED
    BY <2>2, <2>3, <2>4 DEF Follows, Persists
<1>4. CASE /\ inflight # None /\ DOMAIN transactions' = 1..(version + 1)
           /\ transactions'[version + 1].envelope = inflight
  <2>1. ASSUME PositionsOf(inflight, "CommitResolution") # {}
        PROVE  /\ version \in DOMAIN transactions'
               /\ Follows(transactions'[version + 1].envelope, transactions'[version].envelope)
    BY <1>1, <1>3, <1>4, <2>1
  <2>2. ASSUME NEW n \in DOMAIN transactions',
               PositionsOf(transactions'[n].envelope, "CommitResolution") # {}
        PROVE  /\ n - 1 \in DOMAIN transactions'
               /\ Follows(transactions'[n].envelope, transactions'[n - 1].envelope)
    <3>1. n \in DOMAIN transactions \/ n = version + 1
      BY <1>1, <1>4
    <3>2. CASE n = version + 1
      <4>1. n - 1 = version
        BY <1>1, <3>2
      <4> QED
        BY <1>4, <2>1, <2>2, <3>2, <4>1
    <3> QED
      BY <1>2, <2>2, <3>1, <3>2
  <2> QED
    BY <2>2 DEF CoverageRecorded
<1> QED
  BY <1>1, <1>2, <1>4 DEF CoverageRecorded

(* The runtime keeps the coverage with the rest.                           *)
CoverageInv == WorkInv /\ CoverageRecorded

(* A resolution depends on the one transaction that persisted its batch    *)
(* and resolves all of it in order, whatever is refused, fails or restarts *)
(* in between.                                                             *)
THEOREM EvidenceIsCovered == RuntimeSpec => []ResolutionCoversEvidence
<1>1. RuntimeInit => CoverageInv
  BY WorkInvHolds DEF RuntimeInit, Init, Empty, CoverageInv, CoverageRecorded
<1>2. CoverageInv /\ [RuntimeNext]_allvars => CoverageInv'
  BY WorkInvHolds, CoverageStep DEF CoverageInv
<1>3. CoverageInv => ResolutionCoversEvidence
  <2> SUFFICES ASSUME CoverageInv, NEW n \in DOMAIN transactions,
                      PositionsOf(transactions[n].envelope, "CommitResolution") # {}
               PROVE  \E k \in 1..(n - 1) :
                          /\ transactions[n].envelope.depends_on = {transactions[k].envelope.transaction}
                          /\ Covers(transactions[n].envelope, transactions[k].envelope)
    BY DEF ResolutionCoversEvidence
  <2>1. /\ n - 1 \in DOMAIN transactions
        /\ Follows(transactions[n].envelope, transactions[n - 1].envelope)
    BY DEF CoverageInv, CoverageRecorded
  <2>2. n - 1 \in 1..(n - 1)
    BY <2>1, VersionsOfLog DEF CoverageInv, WorkInv, CallInv
  <2> QED
    BY <2>1, <2>2 DEF Follows
<1> QED
  BY <1>1, <1>2, <1>3, PTL DEF RuntimeSpec

-----------------------------------------------------------------------------
(***************************************************************************)
(* No observation is resolved twice.                                       *)
(***************************************************************************)
PersistsAt(n, i) == CommandAt(n, i).kind = "PersistObservation"

(* Each observation that was persisted was so at the version of its        *)
(* commit, and so at no other.                                             *)
PersistRecorded ==
    \A n \in Versions : \A i \in DoneAt(n) : PersistsAt(n, i) =>
        /\ CommandAt(n, i).observation \in DOMAIN observations
        /\ observation_commits[CommandAt(n, i).observation] = n

(* Every step of the ledger keeps that.                                    *)
LEMMA PersistRecordedStep ==
    ASSUME LedgerInv, LogConsistent, PersistRecorded, TableStep
    PROVE  PersistRecorded'
<1>1. HistoryKept /\ Versions \subseteq Versions'
  BY HistorySteps
<1>2. ASSUME NEW n \in Versions, NEW i \in DoneAt(n), PersistsAt(n, i)'
      PROVE  /\ CommandAt(n, i).observation' \in DOMAIN observations'
             /\ observation_commits'[CommandAt(n, i).observation'] = n
  <2>1. CommandAt(n, i)' = CommandAt(n, i)
    BY <1>1 DEF HistoryKept
  <2>2. /\ CommandAt(n, i).observation \in DOMAIN observations
        /\ observation_commits[CommandAt(n, i).observation] = n
    BY <1>2, <2>1 DEF PersistsAt, PersistRecorded
  <2> QED
    BY <2>1, <2>2, EvidenceKept
<1>3. CASE Advances
  <2>1. /\ HistoryGrows /\ Versions' = Versions
        /\ \A n, i : n = next_version /\ i = cursor => CommandAt(n, i)' = command
    BY <1>3, AdvanceHistory
  <2>2. ASSUME command.kind = "PersistObservation"
        PROVE  /\ command.observation \in DOMAIN observations'
               /\ observation_commits'[command.observation] = next_version
    <3>1. PersistObservation
      BY <1>3, <2>2 DEF Advances, CommitResolution, CreateIdentity, Promote, ChangeStatus, Merge,
         Split, Revert, EnqueueMaterialization, Materialized, Applying
    <3> QED
      BY <3>1 DEF PersistObservation, Insert
  <2>3. ASSUME NEW n \in Versions', NEW i \in DoneAt(n)', PersistsAt(n, i)'
        PROVE  /\ CommandAt(n, i).observation' \in DOMAIN observations'
               /\ observation_commits'[CommandAt(n, i).observation'] = n
    <3>1. CASE n \in Versions /\ i \in DoneAt(n)
      BY <1>2, <2>3, <3>1
    <3>2. CASE n = next_version /\ CommandAt(n, i)' = command
      BY <2>2, <2>3, <3>2 DEF PersistsAt
    <3> QED
      BY <2>1, <2>3, <3>1, <3>2 DEF HistoryGrows
  <2> QED
    BY <2>3 DEF PersistRecorded
<1>4. ASSUME NEW t \in targets, Deactivate(t) PROVE PersistRecorded'
  <2>1. HistoryGrows /\ command.kind = "Revert"
    BY <1>4, HistoryDeactivated
  <2>2. ASSUME NEW n \in Versions', NEW i \in DoneAt(n)', PersistsAt(n, i)'
        PROVE  n \in Versions /\ i \in DoneAt(n)
    BY <2>1, <2>2 DEF HistoryGrows, PersistsAt
  <2> QED
    BY <1>2, <2>2 DEF PersistRecorded
<1>5. CASE HistoryStays
  BY <1>2, <1>5 DEF HistoryStays, PersistRecorded
<1> QED
  BY <1>3, <1>4, <1>5, HistorySteps

ResolvesAt(n, i, o) ==
    /\ n \in DOMAIN transactions /\ i \in DOMAIN transactions[n].envelope.commands
    /\ transactions[n].envelope.commands[i].kind = "CommitResolution"
    /\ transactions[n].envelope.commands[i].inference.observation = o

(* The one transaction that persisted an observation has one resolution of *)
(* it that follows.                                                        *)
LEMMA OneResolution ==
    ASSUME CallInv, CoverageRecorded, PersistRecorded, NEW o,
           NEW n, NEW i, ResolvesAt(n, i, o), NEW m, NEW j, ResolvesAt(m, j, o)
    PROVE  n = m /\ i = j
<1>0. LedgerInv /\ LogConsistent
  BY DEF CallInv
<1>1. \A k \in DOMAIN transactions : transactions[k].envelope \in CommandEnvelope
  <2> DEFINE T == [version: 1..MaxVersion, envelope: CommandEnvelope, active: BOOLEAN]
  <2>1. transactions \in Seq(T)
    BY <1>0 DEF LedgerInv, TypeOK, LogTypeOK
  <2>2. \A k \in DOMAIN transactions : transactions[k] \in T
    <3> HIDE DEF T
    <3> QED
      BY <2>1
  <2> QED
    BY <2>2
<1>2. ASSUME NEW k, NEW l, ResolvesAt(k, l, o)
      PROVE  /\ k - 1 \in DOMAIN transactions /\ k \in Nat
             /\ Covers(transactions[k].envelope, transactions[k - 1].envelope)
             /\ l \in PositionsOf(transactions[k].envelope, "CommitResolution")
             /\ \E p \in PositionsOf(transactions[k - 1].envelope, "PersistObservation") :
                    transactions[k - 1].envelope.commands[p].observation = o
  <2>1. l \in PositionsOf(transactions[k].envelope, "CommitResolution") /\ k \in DOMAIN transactions
    BY <1>2 DEF ResolvesAt, PositionsOf
  <2>2. /\ k - 1 \in DOMAIN transactions
        /\ Covers(transactions[k].envelope, transactions[k - 1].envelope)
    BY <2>1 DEF CoverageRecorded, Follows
  <2>3. k \in Nat
    BY <1>0, <2>1, VersionsOfLog
  <2> DEFINE e == transactions[k].envelope
             d == transactions[k - 1].envelope
  <2>4. e.commands[l].inference.observation = o
    BY <1>2 DEF ResolvesAt
  <2> HIDE DEF e, d
  <2>5. \E p \in PositionsOf(d, "PersistObservation") : d.commands[p].observation = o
    BY <2>1, <2>2, <2>4 DEF Covers, e, d
  <2> QED
    BY <2>1, <2>2, <2>3, <2>5 DEF d
<1>3. ASSUME NEW k \in DOMAIN transactions,
             NEW p \in PositionsOf(transactions[k].envelope, "PersistObservation"),
             transactions[k].envelope.commands[p].observation = o
      PROVE  observation_commits[o] = k
  <2>1. k \in Versions /\ EnvelopeAt(k) = transactions[k].envelope
    BY <1>0, VersionsOfLog
  <2>2. p \in DoneAt(k) /\ CommandAt(k, p).observation = o /\ PersistsAt(k, p)
    BY <1>3, <2>1 DEF DoneAt, CommandAt, PersistsAt, PositionsOf
  <2> QED
    BY <2>1, <2>2 DEF PersistRecorded
<1>4. n = m
  <2>1. n - 1 = m - 1 /\ n \in Nat /\ m \in Nat
    BY <1>2, <1>3
  <2> QED
    BY <2>1
<1>5. ASSUME NEW l, NEW r, ResolvesAt(n, l, o), ResolvesAt(n, r, o) PROVE ~(l < r)
  <2> DEFINE e == transactions[n].envelope
             d == transactions[n - 1].envelope
  <2>1. PICK p \in PositionsOf(d, "PersistObservation") : d.commands[p].observation = o
    BY <1>2, <1>5
  <2>2. /\ Covers(e, d) /\ l \in PositionsOf(e, "CommitResolution")
        /\ r \in PositionsOf(e, "CommitResolution")
        /\ e.commands[l].inference.observation = o /\ e.commands[r].inference.observation = o
    BY <1>2, <1>5 DEF ResolvesAt
  <2>3. p \in Nat
    <3>1. d \in CommandEnvelope /\ p \in DOMAIN d.commands
      BY <1>2, <1>5, <1>1 DEF PositionsOf
    <3> HIDE DEF d
    <3> QED
      BY <3>1, EnvelopeFields
  <2> HIDE DEF e, d
  <2>4. l < r => p < p
    BY <2>1, <2>2 DEF Covers
  <2> QED
    BY <2>3, <2>4
<1>6. i \in Nat /\ j \in Nat
  <2>1. transactions[n].envelope \in CommandEnvelope /\ transactions[m].envelope \in CommandEnvelope
    BY <1>1 DEF ResolvesAt
  <2> QED
    BY <2>1, EnvelopeFields DEF ResolvesAt
<1>7. ~(i < j) /\ ~(j < i)
  BY <1>4, <1>5
<1> QED
  BY <1>4, <1>6, <1>7

(* What is known of the log of the runtime.                                *)
OnceInv == CoverageInv /\ PersistRecorded

(* The runtime starts with it, and every step keeps it.                    *)
LEMMA OnceInvHolds ==
    /\ RuntimeInit => OnceInv
    /\ OnceInv /\ [RuntimeNext]_allvars => OnceInv'
<1>1. ASSUME RuntimeInit PROVE OnceInv
  <2>1. WorkInv /\ transactions = <<>> /\ inflight = None
    BY <1>1, WorkInvHolds DEF RuntimeInit, Init, Empty
  <2>2. \A n : DoneAt(n) = {}
    BY <2>1 DEF DoneAt
  <2> QED
    BY <2>1, <2>2 DEF OnceInv, CoverageInv, CoverageRecorded, PersistRecorded
<1>2. ASSUME OnceInv, [RuntimeNext]_allvars PROVE OnceInv'
  BY <1>2, WorkInvHolds, CoverageStep, CallInvHolds, PersistRecordedStep
     DEF OnceInv, CoverageInv, WorkInv, CallInv
<1> QED
  BY <1>1, <1>2

(* An observation has one resolution at most, however often its batch is   *)
(* submitted again, in the same process or after a restart.                *)
THEOREM NothingResolvedTwice == RuntimeSpec => []ResolvedOnce
<1>1. ASSUME OnceInv PROVE ResolvedOnce
  <2> SUFFICES ASSUME NEW o \in Observation PROVE Cardinality(Resolutions(o)) <= 1
    BY DEF ResolvedOnce
  <2>1. ASSUME NEW p \in Resolutions(o)
        PROVE  p = <<p[1], p[2]>> /\ ResolvesAt(p[1], p[2], o)
    <3>1. PICK n \in DOMAIN transactions : p \in {n} \X DOMAIN transactions[n].envelope.commands
      BY DEF Resolutions
    <3>2. p = <<p[1], p[2]>> /\ p[1] = n /\ p[2] \in DOMAIN transactions[n].envelope.commands
      BY <3>1
    <3>3. /\ transactions[p[1]].envelope.commands[p[2]].kind = "CommitResolution"
          /\ transactions[p[1]].envelope.commands[p[2]].inference.observation = o
      BY DEF Resolutions
    <3> QED
      BY <3>2, <3>3 DEF ResolvesAt
  <2>2. ASSUME NEW p \in Resolutions(o), NEW q \in Resolutions(o) PROVE p = q
    <3>1. p[1] = q[1] /\ p[2] = q[2]
      BY <1>1, <2>1, OneResolution DEF OnceInv, CoverageInv, WorkInv
    <3> QED
      BY <2>1, <3>1
  <2>3. Resolutions(o) = {} \/ \E p : Resolutions(o) = {p}
    BY <2>2
  <2>4. Cardinality(Resolutions(o)) \in {0, 1}
    BY <2>3, FS_EmptySet, FS_Singleton
  <2> QED
    BY <2>4
<1> QED
  BY <1>1, OnceInvHolds, PTL DEF RuntimeSpec

-----------------------------------------------------------------------------
(***************************************************************************)
(* What a call returns.                                                    *)
(***************************************************************************)
Attending == {"caching", "delivering", "confirming", "receipt", "retrying"}

(* The batch of a call is resolved, and its decisions are the current ones.*)
DecidedCurrent ==
    call.phase \in Attending =>
        /\ Len(call.decisions) = Len(call.batch)
        /\ \A p \in DOMAIN call.batch :
              /\ call.batch[p] \in DOMAIN current_decision
              /\ current_decision[call.batch[p]] = call.decisions[p]

(* Once a batch is resolved each of its decisions is the current one of    *)
(* its observation, and recorded with this version.                        *)
LEMMA ResolvedIsCurrent ==
    ASSUME OnceInv, CurrentInv, call.phase = "resolution", inflight = None,
           outcome.result = "Committed"
    PROVE  /\ version \in DOMAIN transactions
           /\ transactions[version].envelope.commands = call.commands
           /\ \A p \in DOMAIN call.batch :
                  /\ call.batch[p] \in DOMAIN current_decision
                  /\ current_decision[call.batch[p]] = call.decisions[p]
                  /\ call.decisions[p] \in DOMAIN decisions
                  /\ decisions[call.decisions[p]].validity.begin = version
<1>0. /\ LedgerInv /\ LogConsistent /\ CallInv /\ SubmissionHolds /\ DecidedInv /\ OnlyForward
      /\ CoverageRecorded /\ PersistRecorded /\ call \in CallType
  BY DEF OnceInv, CoverageInv, WorkInv, CallInv, RuntimeTypeOK, CallTypeOK
<1>1. version # 0 /\ transactions[version].envelope.commands = call.commands
  BY <1>0 DEF SubmissionHolds, Accepted, LastEnvelope, Submitting
<1>2. /\ DOMAIN transactions = 1..version /\ version \in 1..version
      /\ \A n \in 1..version :
             /\ n \in Versions /\ DoneAt(n) = DOMAIN transactions[n].envelope.commands
             /\ EnvelopeAt(n) = transactions[n].envelope
             /\ ActiveAt(n) <=> transactions[n].active
      /\ \A n \in Versions : DoneAt(n) # {} => n \in 1..version
  BY <1>0, <1>1, SettledHistory
<1>3. ASSUME NEW p \in DOMAIN call.batch
      PROVE  /\ call.batch[p] \in DOMAIN current_decision
             /\ current_decision[call.batch[p]] = call.decisions[p]
             /\ call.decisions[p] \in DOMAIN decisions
             /\ decisions[call.decisions[p]].validity.begin = version
  <2> DEFINE o == call.batch[p]
             n == version
  <2>1. o \in Observation /\ p \in DOMAIN call.decisions
    BY <1>0 DEF DecidedInv, DecidedAll, CallType
  <2>2. PICK i \in PositionsOf(call, "CommitResolution") : Of(i, p)
    BY <1>0, <2>1 DEF DecidedInv, DecidedInOrder
  <2>3. /\ i \in DOMAIN call.commands /\ call.commands[i].kind = "CommitResolution"
        /\ call.commands[i].inference.observation = o
        /\ call.commands[i].decision.id = call.decisions[p]
    BY <2>2 DEF Of, PositionsOf
  <2>4. /\ n \in Versions /\ i \in DoneAt(n) /\ Resolves(n, i, o)
        /\ CommandAt(n, i) = call.commands[i] /\ ResolvesAt(n, i, o)
    BY <1>1, <1>2, <2>3 DEF Resolves, IsResolution, CommandAt, ResolvesAt
  <2> HIDE DEF o, n
  <2>5. ASSUME NEW m \in Versions, NEW j \in DoneAt(m), Resolves(m, j, o)
        PROVE  m = n /\ j = i
    <3>1. ResolvesAt(m, j, o)
      BY <1>2, <2>5 DEF Resolves, IsResolution, CommandAt, ResolvesAt
    <3> QED
      BY <1>0, <2>4, <3>1, OneResolution
  <2>6. ViewOf(o)
    BY <2>1 DEF CurrentInv, CurrentView
  <2>7. IsLast(n, i, o)
    <3>1. PICK m \in Versions : \E j \in DoneAt(m) : IsLast(m, j, o)
      BY <2>4, <2>6 DEF ViewOf
    <3>2. PICK j \in DoneAt(m) : IsLast(m, j, o)
      BY <3>1
    <3>3. m = n /\ j = i
      BY <2>5, <3>2 DEF IsLast
    <3> QED
      BY <3>2, <3>3
  <2>8. ActiveAt(n)
    BY <1>0, <1>2 DEF OnlyForward, n
  <2>9. PointsTo(o, n, i)
    BY <2>4, <2>6, <2>7, <2>8 DEF ViewOf
  <2>10. ResolutionRecorded(n, i)
    BY <2>4 DEF CurrentInv, LineageRecorded, ResolutionsRecorded, Resolves
  <2>11. DOMAIN current_decision = DOMAIN current_inference
    BY <1>0 DEF LedgerInv, TypeOK, LineageTypeOK
  <2> QED
    BY <2>3, <2>4, <2>9, <2>10, <2>11 DEF PointsTo, ResolutionRecorded, o, n
<1> QED
  BY <1>1, <1>2, <1>3

(* Only a resolution moves the current pointers.                           *)
LEMMA PointerSteps ==
    ASSUME WorkInv, [RuntimeNext]_allvars, call.phase \in Attending
    PROVE  current_decision' = current_decision
<1>1. LedgerInv /\ LogConsistent /\ TableStep
  BY CallInvHolds DEF WorkInv, CallInv
<1>2. ~CommitResolution
  <2> SUFFICES ASSUME CommitResolution PROVE FALSE
    OBVIOUS
  <2>1. /\ inflight # None /\ cursor \in DOMAIN inflight.commands
        /\ inflight.commands[cursor].kind = "CommitResolution"
    BY DEF CommitResolution, Applying, command
  <2> QED
    BY <2>1, InflightKinds DEF WorkInv, Submitting, Attending
<1>3. ~\E t \in targets : Deactivate(t)
  BY ForwardStep DEF WorkInv
<1> QED
  BY <1>1, <1>2, <1>3, ResolutionSteps DEF lineage

(* Every step keeps the decisions of a call current.                       *)
LEMMA DecidedCurrentStep ==
    ASSUME OnceInv, CurrentInv, DecidedCurrent, [RuntimeNext]_allvars
    PROVE  DecidedCurrent'
<1>0. WorkInv /\ CallInv /\ DecidedInv /\ AnswerHolds /\ call \in CallType
  BY DEF OnceInv, CoverageInv, WorkInv, CallInv, RuntimeTypeOK, CallTypeOK
<1>1. CASE call'.phase \notin Attending
  BY <1>1 DEF DecidedCurrent
<1>2. CASE /\ call.phase \in Attending
           /\ call'.batch = call.batch /\ call'.decisions = call.decisions
  BY <1>0, <1>2, PointerSteps DEF DecidedCurrent
<1>3. CASE call' = call
  BY <1>1, <1>2, <1>3
<1>4. ASSUME \/ call' = NoCall
             \/ \E b \in Batch : Begin(b)
      PROVE  call'.phase \notin Attending
  BY <1>4, NoCallType DEF Begin, CallType, Attending
<1>5. ASSUME NEW m \in Materialization, Retry(m) PROVE DecidedCurrent'
  <2>1. call'.batch = <<>> /\ call'.decisions = <<>>
    BY <1>5 DEF Retry, NoCall
  <2> QED
    BY <2>1 DEF DecidedCurrent
<1>6. ASSUME NEW action \in Outcome, NEW relation \in Relation \cup {None},
             Decide(action, relation)
      PROVE  call'.phase \notin Attending
  BY <1>0, <1>6 DEF Decide, Undecided, InPhase, CallType, Attending
<1>7. CASE EvidenceCommitted \/ Infer \/ CommitResolutions
  BY <1>0, <1>1, <1>7, CallMoves DEF Moves, Attending
<1>8. CASE ResolutionCommitted
  <2>1. Moves("resolution", "caching") /\ Granted /\ UNCHANGED vars
    BY <1>0, <1>8, CallMoves
  <2>2. call.phase = "resolution" /\ inflight = None /\ outcome.result = "Committed"
    BY <1>0, <2>1 DEF Moves, Granted, AnswerHolds
  <2>3. Len(call.decisions) = Len(call.batch)
    BY <1>0, <2>2 DEF DecidedInv, DecidedAll
  <2>4. \A p \in DOMAIN call.batch : /\ call.batch[p] \in DOMAIN current_decision
                                     /\ current_decision[call.batch[p]] = call.decisions[p]
    BY <2>2, ResolvedIsCurrent
  <2> QED
    BY <2>1, <2>3, <2>4 DEF Moves, SameWork, DecidedCurrent, vars, state, lineage
<1>9. CASE Cache \/ CacheDone \/ Deliver \/ DeliverFails \/ Confirm \/ ReceiptCommitted
  BY <1>0, <1>2, <1>9, CallMoves DEF Moves, SameWork, Attending
<1> QED
  BY <1>1, <1>3, <1>4, <1>5, <1>6, <1>7, <1>8, <1>9, CallSteps

(* What the moves of a call leave alone besides.                           *)
LEMMA MovesKeep ==
    ASSUME call \in CallType
    PROVE  /\ \/ EvidenceCommitted \/ Infer \/ CommitResolutions \/ ResolutionCommitted
              \/ Cache \/ CacheDone \/ Deliver \/ Confirm \/ ReceiptCommitted
              => call'.pending = call.pending /\ call'.retried = call.retried
           /\ DeliverFails =>
                  /\ call.writes # <<>> /\ call'.retried = call.retried
                  /\ call'.pending = Append(call.pending, write.materialization)
           /\ \/ EvidenceCommitted \/ Infer \/ CommitResolutions \/ ResolutionCommitted
              \/ CacheDone \/ Deliver \/ DeliverFails \/ Confirm \/ ReceiptCommitted
              => call'.associations = call.associations /\ UNCHANGED workspace
           /\ Infer \/ CommitResolutions => call'.reached = call.reached
<1> USE DEF CallType
<1>1. EvidenceCommitted => /\ call'.pending = call.pending /\ call'.retried = call.retried
                           /\ call'.associations = call.associations /\ UNCHANGED workspace
  BY DEF EvidenceCommitted
<1>2. Infer => /\ call'.pending = call.pending /\ call'.retried = call.retried
               /\ call'.associations = call.associations /\ UNCHANGED workspace
               /\ call'.reached = call.reached
  BY DEF Infer
<1>3. CommitResolutions => /\ call'.pending = call.pending /\ call'.retried = call.retried
                           /\ call'.associations = call.associations /\ UNCHANGED workspace
                           /\ call'.reached = call.reached
  BY DEF CommitResolutions
<1>4. ResolutionCommitted => /\ call'.pending = call.pending /\ call'.retried = call.retried
                             /\ call'.associations = call.associations /\ UNCHANGED workspace
  BY DEF ResolutionCommitted
<1>5. Cache => call'.pending = call.pending /\ call'.retried = call.retried
  BY DEF Cache
<1>6. CacheDone => /\ call'.pending = call.pending /\ call'.retried = call.retried
                   /\ call'.associations = call.associations /\ UNCHANGED workspace
  BY DEF CacheDone
<1>7. Deliver => /\ call'.pending = call.pending /\ call'.retried = call.retried
                 /\ call'.associations = call.associations /\ UNCHANGED workspace
  BY DEF Deliver
<1>8. DeliverFails => /\ call'.retried = call.retried /\ call.writes # <<>>
                      /\ call'.pending = Append(call.pending, write.materialization)
                      /\ call'.associations = call.associations /\ UNCHANGED workspace
  BY DEF DeliverFails
<1>9. Confirm => /\ call'.pending = call.pending /\ call'.retried = call.retried
                 /\ call'.associations = call.associations /\ UNCHANGED workspace
  BY DEF Confirm
<1>10. ReceiptCommitted => /\ call'.pending = call.pending /\ call'.retried = call.retried
                           /\ call'.associations = call.associations /\ UNCHANGED workspace
  BY DEF ReceiptCommitted
<1> QED
  BY <1>1, <1>2, <1>3, <1>4, <1>5, <1>6, <1>7, <1>8, <1>9, <1>10

(* One turn of the loop plans one write at most, with a command of its own *)
(* and a number that was not given out before.                             *)
LEMMA DecidePlans ==
    ASSUME RuntimeTypeOK, NEW action \in Outcome, NEW relation \in Relation \cup {None},
           Decide(action, relation)
    PROVE  LET n == Len(call.commands) + 1
               k == Len(call.writes) + 1
           IN  /\ call'.pending = call.pending /\ call'.retried = call.retried
               /\ n \in Nat /\ k \in Nat /\ DOMAIN call.writes = 1..(k - 1)
               /\ \A i \in DOMAIN call.writes :
                      i \in DOMAIN call'.writes /\ call'.writes[i] = call.writes[i]
               /\ \A i \in DOMAIN call'.writes :
                      \/ i \in DOMAIN call.writes
                      \/ i = k /\ relation # None /\ call'.writes[i] = Planned(relation)
               /\ \A i \in DOMAIN call'.commands :
                      \/ i \in DOMAIN call.commands /\ call'.commands[i] = call.commands[i]
                      \/ call'.commands[i].kind = "CommitResolution"
                      \/ /\ relation # None /\ call'.commands[i] = Enqueue(Planned(relation))
                         /\ k \in DOMAIN call'.writes /\ call'.writes[k] = Planned(relation)
               /\ ids.materializations \in Nat /\ ids'.materializations >= ids.materializations
               /\ relation # None => ids'.materializations = ids.materializations + 1
<1> DEFINE n == Len(call.commands) + 1
           k == Len(call.writes) + 1
           p == Len(call.decisions) + 1
           o == call.batch[p]
           all == DecidedCommands(o, action, relation)
           w == DecidedWrites(relation)
           names == DrawnFor(action, relation)
<1>1. /\ call \in CallType /\ ~Exhausted(names) /\ ids' = Drawn(names)
      /\ Len(call.decisions) < Len(call.batch) /\ call.batch \in Seq(Observation)
      /\ call.decisions \in Seq(Decision) /\ call.writes \in Seq(HostWrite)
  BY DEF Decide, Undecided, InPhase, RuntimeTypeOK, CallTypeOK, CallType
<1>2. o \in Observation
  BY <1>1
<1>3. /\ call'.pending = call.pending /\ call'.retried = call.retried
      /\ call'.writes = call.writes \o w /\ call'.commands = all
  BY <1>1 DEF Decide, DecidedCommands, DecidedWrites, CallType
<1> HIDE DEF o
<1>4. /\ n \in Nat /\ DOMAIN call.commands = 1..(n - 1) /\ all[n] = Resolution(o, action)
      /\ \A i \in DOMAIN call.commands : all[i] = call.commands[i]
      /\ \A i \in DOMAIN all :
             \/ i \in 1..n
             \/ i = n + 1 /\ relation # None /\ all[i] = Enqueue(Planned(relation))
  BY <1>1, <1>2, DecidedEnd
<1>5. w \in Seq(HostWrite)
  BY <1>1, <1>2, DecidedTypes
<1>6. /\ relation = None => DOMAIN w = {}
      /\ relation # None => DOMAIN w = {1} /\ w[1] = Planned(relation)
  BY DEF DecidedWrites
<1> HIDE DEF w, all
<1>7. /\ k \in Nat /\ DOMAIN call.writes = 1..(k - 1)
      /\ \A i \in DOMAIN call.writes :
             i \in DOMAIN call'.writes /\ call'.writes[i] = call.writes[i]
      /\ \A i \in DOMAIN w : (k - 1) + i \in DOMAIN call'.writes
                              /\ call'.writes[(k - 1) + i] = w[i]
      /\ \A i \in DOMAIN call'.writes : i \notin DOMAIN call.writes => i - (k - 1) \in DOMAIN w
      /\ DOMAIN call'.writes \subseteq Nat
  <2> DEFINE cw == call.writes
             nw == call'.writes
             l == Len(cw)
  <2>1. cw \in Seq(HostWrite) /\ nw = cw \o w /\ k = l + 1 /\ l \in Nat
    BY <1>1, <1>3
  <2> HIDE DEF cw, nw, k
  <2>2. /\ DOMAIN cw = 1..l /\ DOMAIN nw = 1..(l + Len(w)) /\ Len(w) \in Nat
        /\ \A i \in DOMAIN cw : i \in DOMAIN nw /\ nw[i] = cw[i]
        /\ \A i \in DOMAIN w : l + i \in DOMAIN nw /\ nw[l + i] = w[i]
        /\ \A i \in DOMAIN nw : i \notin DOMAIN cw => i - l \in DOMAIN w
    BY <1>5, <2>1, ConcatMembers
  <2> HIDE DEF l
  <2>3. k - 1 = l /\ k \in Nat
    BY <2>1
  <2>4. DOMAIN nw \subseteq Nat
    BY <2>1, <2>2
  <2> QED
    BY <2>2, <2>3, <2>4 DEF cw, nw
<1>8. relation # None => k \in DOMAIN call'.writes /\ call'.writes[k] = Planned(relation)
  <2> SUFFICES ASSUME relation # None
               PROVE  k \in DOMAIN call'.writes /\ call'.writes[k] = Planned(relation)
    OBVIOUS
  <2>1. (k - 1) + 1 = k
    BY <1>7
  <2> HIDE DEF k
  <2> QED
    BY <1>6, <1>7, <2>1
<1>9. \A i \in DOMAIN call'.writes :
          \/ i \in DOMAIN call.writes
          \/ i = k /\ relation # None /\ call'.writes[i] = Planned(relation)
  <2> SUFFICES ASSUME NEW i \in DOMAIN call'.writes, i \notin DOMAIN call.writes
               PROVE  i = k /\ relation # None
    BY <1>8
  <2>1. i - (k - 1) \in DOMAIN w /\ i \in Nat /\ k \in Nat
    BY <1>7
  <2>2. i - (k - 1) = 1 /\ relation # None
    BY <1>6, <2>1
  <2> HIDE DEF k
  <2> QED
    BY <2>1, <2>2
<1>10. \A i \in DOMAIN call'.commands :
           \/ i \in DOMAIN call.commands /\ call'.commands[i] = call.commands[i]
           \/ call'.commands[i].kind = "CommitResolution"
           \/ relation # None /\ call'.commands[i] = Enqueue(Planned(relation))
  <2> SUFFICES ASSUME NEW i \in DOMAIN all
               PROVE  \/ i \in DOMAIN call.commands /\ all[i] = call.commands[i]
                      \/ all[i].kind = "CommitResolution"
                      \/ relation # None /\ all[i] = Enqueue(Planned(relation))
    BY <1>3
  <2>1. i \in DOMAIN call.commands \/ i = n \/ i = n + 1
    BY <1>4
  <2> QED
    BY <1>4, <2>1 DEF Resolution
<1>11. /\ ids.materializations \in Nat /\ ids'.materializations >= ids.materializations
       /\ relation # None => ids'.materializations = ids.materializations + 1
  <2> DEFINE m == "materializations"
  <2>1. /\ m \in DOMAIN ids /\ ids[m] \in Nat
        /\ \A s \in DOMAIN LastId : LastId[s] \in Nat /\ ids[s] \in Nat /\ ids[s] <= LastId[s]
        /\ DOMAIN LastId = PoolName
    BY RuntimeAssumption DEF RuntimeTypeOK, IdsTypeOK, PoolName
  <2>2. ids'[m] \in {ids[m], ids[m] + 1}
    BY <1>1, <2>1 DEF Drawn
  <2>3. ASSUME relation # None PROVE ids'[m] = ids[m] + 1
    <3>1. names \in Seq(PoolName) /\ Within(m, names)
      BY <2>3, DrawnNames
    <3>2. PICK i \in DOMAIN names : names[i] = m
      BY <3>1 DEF Within
    <3> HIDE DEF names
    <3>3. \A j \in DOMAIN names : names[j] \in PoolName /\ ids[names[j]] # LastId[names[j]]
      BY <1>1, <3>1 DEF Exhausted
    <3>4. \A j \in DOMAIN names : ids[names[j]] < LastId[names[j]]
      BY <2>1, <3>3
    <3>5. \A j \in 1..i : j \in DOMAIN names
      BY <3>1, <3>2
    <3>6. \A j \in 1..i : ids[names[j]] < LastId[names[j]]
      BY <3>4, <3>5
    <3> QED
      BY <1>1, <2>1, <3>2, <3>6 DEF Drawn
  <2> QED
    BY <2>1, <2>2, <2>3
<1> HIDE DEF n, k
<1> QED
  BY <1>3, <1>4, <1>7, <1>8, <1>9, <1>10, <1>11 DEF n, k

(* A call enqueues the writes it plans and no others, each for a decision  *)
(* of its own.                                                             *)
EnqueuesPlanned ==
    call.phase \in {"deciding", "resolution"} =>
        /\ \A j \in DOMAIN call.commands :
               call.commands[j].kind = "EnqueueMaterialization" =>
                   \E i \in DOMAIN call.writes : call.commands[j] = Enqueue(call.writes[i])
        /\ \A i \in DOMAIN call.writes : \E p \in DOMAIN call.decisions :
               call.writes[i].decision = call.decisions[p]

(* No write is made twice, and none is pending that is still to be made.   *)
WritesDiffer ==
    /\ \A i, j \in DOMAIN call.writes :
           call.writes[i].materialization = call.writes[j].materialization => i = j
    /\ \A i \in DOMAIN call.writes, k \in DOMAIN call.pending :
           call.writes[i].materialization # call.pending[k]
    /\ call.phase = "deciding" =>
           \A i \in DOMAIN call.writes :
               call.writes[i].materialization \in 0..(ids.materializations - 1)

PendingLater == call.phase \in {"delivering", "confirming", "receipt"} \/ call.pending = <<>>

(* A call is of a batch or a retry.                                        *)
BatchOrRetry ==
    /\ call.batch # <<>> => call.retried = None
    /\ call.batch = <<>> => call.phase \notin {"resolution", "caching"}

(* The runtime merges nothing.                                             *)
NoMerges == merges = EmptyMap

PlanInv == EnqueuesPlanned /\ WritesDiffer /\ PendingLater /\ BatchOrRetry /\ NoMerges

(* How a call begins and ends.                                             *)
LEMMA CallEnds ==
    ASSUME call' = NoCall \/ \E b \in Batch : Begin(b)
    PROVE  /\ call'.phase \in {"idle", "evidence"} /\ call'.retried = None
           /\ call'.writes = <<>> /\ call'.pending = <<>> /\ call'.associations = <<>>
<1>1. CASE call' = NoCall
  BY <1>1 DEF NoCall
<1>2. ASSUME NEW b \in Batch, Begin(b)
      PROVE  /\ call'.phase = "evidence" /\ call'.retried = None
             /\ call'.writes = <<>> /\ call'.pending = <<>> /\ call'.associations = <<>>
  <2>1. call' = [NoCall EXCEPT !.phase = "evidence", !.since = version,
                               !.batch = Observations(b), !.persistence = ids.transactions]
    BY <1>2 DEF Begin
  <2> QED
    BY <2>1 DEF NoCall
<1> QED
  BY <1>1, <1>2

(* A call enqueues what it plans, turn by turn.                            *)
LEMMA PlannedStep ==
    ASSUME WorkInv, EnqueuesPlanned, [RuntimeNext]_allvars
    PROVE  EnqueuesPlanned'
<1>0. RuntimeTypeOK /\ call \in CallType /\ DecidedInv
  BY DEF WorkInv, CallInv, RuntimeTypeOK, CallTypeOK
<1>1. CASE call'.phase \notin {"deciding", "resolution"}
  BY <1>1 DEF EnqueuesPlanned
<1>2. CASE call' = call
  BY <1>2 DEF EnqueuesPlanned, Enqueue
<1>3. ASSUME \/ call' = NoCall
             \/ \E b \in Batch : Begin(b)
             \/ \E m \in Materialization : Retry(m)
      PROVE  call'.phase \notin {"deciding", "resolution"}
  BY <1>3, NoCallType DEF Begin, Retry, CallType
<1>4. ASSUME NEW action \in Outcome, NEW relation \in Relation \cup {None},
             Decide(action, relation)
      PROVE  EnqueuesPlanned'
  <2> DEFINE p == Len(call.decisions) + 1
             k == Len(call.writes) + 1
  <2>1. /\ call.phase = "deciding" /\ DOMAIN call.decisions = 1..(p - 1) /\ p \in Nat
        /\ DOMAIN call'.decisions = 1..p
        /\ \A i \in DOMAIN call.decisions : call'.decisions[i] = call.decisions[i]
        /\ call'.decisions[p] = ids.decisions
    BY <1>0, <1>4, DecideAdds
  <2>2. /\ \A i \in DOMAIN call.writes :
               i \in DOMAIN call'.writes /\ call'.writes[i] = call.writes[i]
        /\ \A i \in DOMAIN call'.writes :
               \/ i \in DOMAIN call.writes
               \/ i = k /\ relation # None /\ call'.writes[i] = Planned(relation)
        /\ \A i \in DOMAIN call'.commands :
               \/ i \in DOMAIN call.commands /\ call'.commands[i] = call.commands[i]
               \/ call'.commands[i].kind = "CommitResolution"
               \/ /\ relation # None /\ call'.commands[i] = Enqueue(Planned(relation))
                  /\ k \in DOMAIN call'.writes /\ call'.writes[k] = Planned(relation)
    BY <1>0, <1>4, DecidePlans
  <2>3. /\ \A j \in DOMAIN call.commands :
               call.commands[j].kind = "EnqueueMaterialization" =>
                   \E i \in DOMAIN call.writes : call.commands[j] = Enqueue(call.writes[i])
        /\ \A i \in DOMAIN call.writes : \E q \in DOMAIN call.decisions :
               call.writes[i].decision = call.decisions[q]
    BY <2>1 DEF EnqueuesPlanned
  <2>4. p \in DOMAIN call'.decisions /\ Planned(relation).decision = ids.decisions
        /\ \A q \in DOMAIN call.decisions : q \in DOMAIN call'.decisions
    BY <2>1 DEF Planned
  <2> HIDE DEF p, k
  <2>5. ASSUME NEW j \in DOMAIN call'.commands,
               call'.commands[j].kind = "EnqueueMaterialization"
        PROVE  \E i \in DOMAIN call'.writes : call'.commands[j] = Enqueue(call'.writes[i])
    <3>1. CASE j \in DOMAIN call.commands /\ call'.commands[j] = call.commands[j]
      <4>1. PICK i \in DOMAIN call.writes : call.commands[j] = Enqueue(call.writes[i])
        BY <2>3, <2>5, <3>1
      <4>2. i \in DOMAIN call'.writes /\ call'.writes[i] = call.writes[i]
        BY <2>2
      <4> QED
        BY <3>1, <4>1, <4>2
    <3>2. CASE /\ call'.commands[j] = Enqueue(Planned(relation))
               /\ k \in DOMAIN call'.writes /\ call'.writes[k] = Planned(relation)
      BY <3>2
    <3> QED
      BY <2>2, <2>5, <3>1, <3>2
  <2>6. ASSUME NEW i \in DOMAIN call'.writes
        PROVE  \E q \in DOMAIN call'.decisions : call'.writes[i].decision = call'.decisions[q]
    <3>1. CASE i \in DOMAIN call.writes
      <4>1. PICK q \in DOMAIN call.decisions : call.writes[i].decision = call.decisions[q]
        BY <2>3, <3>1
      <4> QED
        BY <2>1, <2>2, <2>4, <3>1, <4>1
    <3>2. CASE call'.writes[i] = Planned(relation)
      BY <2>1, <2>4, <3>2
    <3> QED
      BY <2>2, <3>1, <3>2
  <2> QED
    BY <2>5, <2>6 DEF EnqueuesPlanned, Enqueue
<1>5. CASE Infer
  <2>1. Moves("inference", "deciding") /\ UNCHANGED call.writes
    BY <1>0, <1>5, CallMoves
  <2>2. call'.commands = <<>> /\ call'.writes = <<>>
    BY <1>0, <2>1 DEF Moves, SameWork, DecidedInv, NothingDecided
  <2> QED
    BY <2>2 DEF EnqueuesPlanned
<1>6. CASE CommitResolutions
  <2>1. Moves("deciding", "resolution") /\ UNCHANGED call.writes
    BY <1>0, <1>6, CallMoves
  <2> QED
    BY <2>1 DEF Moves, SameWork, EnqueuesPlanned, Enqueue
<1>7. CASE \/ EvidenceCommitted \/ ResolutionCommitted \/ Cache \/ CacheDone \/ Deliver
           \/ DeliverFails \/ Confirm \/ ReceiptCommitted
  BY <1>0, <1>1, <1>7, CallMoves DEF Moves
<1> QED
  BY <1>1, <1>2, <1>3, <1>4, <1>5, <1>6, <1>7, CallSteps

(* What a failed write adds to the pending ones.                           *)
LEMMA PendingMembers ==
    ASSUME call \in CallType, call.writes # <<>>
    PROVE  LET after == Append(call.pending, write.materialization)
           IN  \A m : (\E k \in DOMAIN after : after[k] = m) <=>
                          (\E k \in DOMAIN call.pending : call.pending[k] = m)
                              \/ m = write.materialization
<1> DEFINE q == call.pending
           x == write.materialization
           after == Append(q, x)
<1>1. call.writes \in Seq(HostWrite) /\ q \in Seq(Materialization)
  BY DEF CallType
<1>2. x \in Materialization
  <2>1. write \in HostWrite
    BY <1>1 DEF write
  <2> QED
    BY <2>1 DEF HostWrite
<1> HIDE DEF q, x
<1>3. /\ DOMAIN after = 1..(Len(q) + 1) /\ after[Len(q) + 1] = x /\ Len(q) \in Nat
      /\ DOMAIN q = 1..Len(q) /\ \A k \in DOMAIN q : after[k] = q[k]
  BY <1>1, <1>2
<1>4. /\ Len(q) + 1 \in DOMAIN after
      /\ \A k \in DOMAIN q : k \in DOMAIN after
      /\ \A k \in DOMAIN after : k \in DOMAIN q \/ k = Len(q) + 1
  BY <1>3
<1> HIDE DEF after
<1> QED
  BY <1>3, <1>4 DEF q, x, after

(* Every step keeps the writes different.                                  *)
LEMMA WritesDifferStep ==
    ASSUME WorkInv, PendingLater, WritesDiffer, [RuntimeNext]_allvars
    PROVE  WritesDiffer'
<1>0. RuntimeTypeOK /\ call \in CallType /\ DecidedInv
  BY DEF WorkInv, CallInv, RuntimeTypeOK, CallTypeOK
<1>1. CASE /\ call'.writes = call.writes /\ call'.pending = call.pending
           /\ call'.phase = "deciding" => call.phase = "deciding" /\ ids' = ids
  BY <1>1 DEF WritesDiffer
<1>2. CASE call'.writes = <<>>
  BY <1>2 DEF WritesDiffer
<1>3. CASE call' = call
  <2>1. CASE call.phase = "deciding"
    <3>1. ids' = ids
      <4>1. call' # NoCall
        BY <1>3, <2>1 DEF NoCall
      <4>2. ASSUME NEW action \in Outcome, NEW relation \in Relation \cup {None},
                   Decide(action, relation)
            PROVE  FALSE
        <5>1. /\ Len(call.decisions) \in Nat /\ Len(call'.decisions) = Len(call.decisions) + 1
          BY <1>0, <4>2, DecideAdds
        <5> QED
          BY <1>3, <5>1
      <4>3. ~CommitResolutions /\ ~Confirm
        BY <1>0, <1>3, <2>1, CallMoves DEF Moves
      <4>4. \A b \in Batch : ~Begin(b)
        BY <2>1 DEF Begin, InPhase
      <4>5. UNCHANGED ids
        BY <4>1, <4>2, <4>3, <4>4 DEF RuntimeNext, Calls, Running, BeginFails, Retry,
           RetryAnswered, LedgerStep, Refused, EvidenceCommitted, Infer, InferenceFails,
           DecideExhausted, ResolutionCommitted, TransactionsExhausted, Cache, StaleCommit,
           CacheDone, Deliver, DeliverFails, ReceiptCommitted, Finish, RetryFails, Restart,
           HostStep, Fail, Return, runtimevars, allvars
      <4> QED
        BY <4>5
    <3> QED
      BY <1>1, <1>3, <3>1
  <2>2. CASE call.phase # "deciding"
    BY <1>1, <1>3, <2>2
  <2> QED
    BY <2>1, <2>2
<1>4. ASSUME \/ call' = NoCall
             \/ \E b \in Batch : Begin(b)
      PROVE  call'.writes = <<>>
  BY <1>4, CallEnds
<1>5. ASSUME NEW m \in Materialization, Retry(m) PROVE WritesDiffer'
  <2>1. /\ DOMAIN call'.writes = {1} /\ call'.pending = <<>> /\ call'.phase = "retrying"
    BY <1>5 DEF Retry, NoCall
  <2> QED
    BY <2>1 DEF WritesDiffer
<1>6. ASSUME NEW action \in Outcome, NEW relation \in Relation \cup {None},
             Decide(action, relation)
      PROVE  WritesDiffer'
  <2> DEFINE k == Len(call.writes) + 1
             m == ids.materializations
  <2>1. /\ call'.pending = call.pending /\ k \in Nat /\ DOMAIN call.writes = 1..(k - 1)
        /\ \A i \in DOMAIN call.writes :
               i \in DOMAIN call'.writes /\ call'.writes[i] = call.writes[i]
        /\ \A i \in DOMAIN call'.writes :
               \/ i \in DOMAIN call.writes
               \/ i = k /\ relation # None /\ call'.writes[i] = Planned(relation)
        /\ m \in Nat /\ ids'.materializations \in Nat /\ ids'.materializations >= m
        /\ relation # None => ids'.materializations = m + 1
    <3>1. ids'.materializations \in Nat
      <4>1. IdsTypeOK'
        BY CallInvHolds DEF WorkInv, CallInv, RuntimeTypeOK
      <4> QED
        BY <4>1, RuntimeAssumption DEF IdsTypeOK
    <3> QED
      BY <1>0, <1>6, <3>1, DecidePlans
  <2>2. call.phase = "deciding" /\ call.pending = <<>>
    BY <1>6 DEF Decide, Undecided, InPhase, PendingLater
  <2>3. /\ \A i, j \in DOMAIN call.writes :
               call.writes[i].materialization = call.writes[j].materialization => i = j
        /\ \A i \in DOMAIN call.writes : call.writes[i].materialization \in 0..(m - 1)
    BY <2>2 DEF WritesDiffer
  <2>4. Planned(relation).materialization = m
    BY DEF Planned
  <2> HIDE DEF k, m
  <2>5. \A i \in DOMAIN call'.writes :
            \/ /\ i \in DOMAIN call.writes
               /\ call'.writes[i].materialization = call.writes[i].materialization
               /\ call'.writes[i].materialization \in 0..(m - 1)
            \/ i = k /\ relation # None /\ call'.writes[i].materialization = m
    BY <2>1, <2>3, <2>4
  <2>6. \A i, j \in DOMAIN call'.writes :
            call'.writes[i].materialization = call'.writes[j].materialization => i = j
    <3> SUFFICES ASSUME NEW i \in DOMAIN call'.writes, NEW j \in DOMAIN call'.writes,
                        call'.writes[i].materialization = call'.writes[j].materialization
                 PROVE  i = j
      OBVIOUS
    <3>1. m \notin 0..(m - 1)
      BY <2>1
    <3> QED
      BY <2>3, <2>5, <3>1
  <2>7. \A i \in DOMAIN call'.writes :
            call'.writes[i].materialization \in 0..(ids'.materializations - 1)
    <3> SUFFICES ASSUME NEW i \in DOMAIN call'.writes
                 PROVE  call'.writes[i].materialization \in 0..(ids'.materializations - 1)
      OBVIOUS
    <3>1. CASE call'.writes[i].materialization \in 0..(m - 1)
      BY <2>1, <3>1
    <3>2. CASE relation # None /\ call'.writes[i].materialization = m
      BY <2>1, <3>2
    <3> QED
      BY <2>5, <3>1, <3>2
  <2>8. call'.pending = <<>>
    BY <2>1, <2>2
  <2> QED
    BY <2>6, <2>7, <2>8 DEF WritesDiffer
<1>7. CASE Infer
  <2>1. Moves("inference", "deciding") /\ UNCHANGED call.writes
    BY <1>0, <1>7, CallMoves
  <2> QED
    BY <1>0, <1>2, <2>1 DEF Moves, DecidedInv, NothingDecided
<1>8. CASE \/ EvidenceCommitted \/ CommitResolutions \/ ResolutionCommitted \/ Cache
           \/ CacheDone \/ Deliver \/ Confirm
  BY <1>0, <1>1, <1>8, CallMoves, MovesKeep DEF Moves
<1>9. ASSUME call'.writes = Tail(call.writes), call.writes # <<>>, call'.phase # "deciding",
             \/ call'.pending = call.pending
             \/ call'.pending = Append(call.pending, write.materialization)
      PROVE  WritesDiffer'
  <2> DEFINE nw == call'.writes
             np == call'.pending
  <2>1. /\ \A i \in DOMAIN nw : i + 1 \in DOMAIN call.writes /\ nw[i] = call.writes[i + 1]
                                /\ i \in Nat /\ i + 1 # 1
        /\ 1 \in DOMAIN call.writes /\ write = call.writes[1]
    <3>1. DOMAIN nw \subseteq Nat \ {0}
      BY <1>0, <1>9 DEF CallType
    <3> QED
      BY <1>0, <1>9, <3>1, RestOfWrites
  <2>2. /\ \A i, j \in DOMAIN call.writes :
               call.writes[i].materialization = call.writes[j].materialization => i = j
        /\ \A i \in DOMAIN call.writes, k \in DOMAIN call.pending :
               call.writes[i].materialization # call.pending[k]
    BY DEF WritesDiffer
  <2>3. \A k \in DOMAIN np :
            \/ np[k] = write.materialization
            \/ \E l \in DOMAIN call.pending : call.pending[l] = np[k]
    BY <1>0, <1>9, PendingMembers
  <2> HIDE DEF nw, np
  <2>4. ASSUME NEW i \in DOMAIN nw, NEW j \in DOMAIN nw,
               nw[i].materialization = nw[j].materialization
        PROVE  i = j
    <3>1. i + 1 = j + 1 /\ i \in Nat /\ j \in Nat
      BY <2>1, <2>2, <2>4
    <3> QED
      BY <3>1
  <2>5. ASSUME NEW i \in DOMAIN nw, NEW k \in DOMAIN np PROVE nw[i].materialization # np[k]
    <3>1. nw[i].materialization # write.materialization
      BY <2>1, <2>2
    <3> QED
      BY <2>1, <2>2, <2>3, <3>1
  <2> QED
    BY <1>9, <2>4, <2>5 DEF WritesDiffer, nw, np
<1>10. CASE DeliverFails
  <2>1. call'.writes = Tail(call.writes) /\ call'.phase # "deciding"
    BY <1>0, <1>10, CallMoves DEF Moves
  <2> QED
    BY <1>0, <1>9, <1>10, <2>1, MovesKeep
<1>11. CASE ReceiptCommitted
  <2>1. call'.writes = Tail(call.writes) /\ call'.phase # "deciding" /\ call.phase = "receipt"
    BY <1>0, <1>11, CallMoves DEF Moves
  <2>2. call.writes # <<>>
    BY <1>0, <2>1 DEF RuntimeTypeOK, CallTypeOK
  <2> QED
    BY <1>0, <1>9, <1>11, <2>1, <2>2, MovesKeep
<1> QED
  BY <1>2, <1>3, <1>4, <1>5, <1>6, <1>7, <1>8, <1>10, <1>11, CallSteps

(* Writes are pending only while a call delivers.                          *)
LEMMA PendingLaterStep ==
    ASSUME WorkInv, PendingLater, [RuntimeNext]_allvars
    PROVE  PendingLater'
<1>0. RuntimeTypeOK /\ call \in CallType
  BY DEF WorkInv, CallInv, RuntimeTypeOK, CallTypeOK
<1>1. CASE call' = call
  BY <1>1 DEF PendingLater
<1>2. ASSUME \/ call' = NoCall
             \/ \E b \in Batch : Begin(b)
             \/ \E m \in Materialization : Retry(m)
      PROVE  call'.pending = <<>>
  BY <1>2, CallEnds DEF Retry, NoCall
<1>3. ASSUME NEW action \in Outcome, NEW relation \in Relation \cup {None},
             Decide(action, relation)
      PROVE  PendingLater'
  <2>1. call.phase = "deciding" /\ call'.pending = call.pending
    BY <1>0, <1>3, DecidePlans DEF Decide, Undecided, InPhase
  <2> QED
    BY <2>1 DEF PendingLater
<1>4. CASE \/ EvidenceCommitted \/ Infer \/ CommitResolutions \/ ResolutionCommitted \/ Cache
           \/ CacheDone \/ Deliver \/ Confirm \/ ReceiptCommitted
  BY <1>0, <1>4, CallMoves, MovesKeep DEF Moves, PendingLater
<1>5. CASE DeliverFails
  BY <1>0, <1>5, CallMoves DEF Moves, PendingLater
<1> QED
  BY <1>1, <1>2, <1>3, <1>4, <1>5, CallSteps DEF PendingLater

(* A call stays one of a batch or a retry.                                 *)
LEMMA BatchOrRetryStep ==
    ASSUME WorkInv, BatchOrRetry, [RuntimeNext]_allvars
    PROVE  BatchOrRetry'
<1>0. RuntimeTypeOK /\ call \in CallType
  BY DEF WorkInv, CallInv, RuntimeTypeOK, CallTypeOK
<1>1. CASE call' = call
  BY <1>1 DEF BatchOrRetry
<1>2. ASSUME \/ call' = NoCall
             \/ \E b \in Batch : Begin(b)
      PROVE  call'.retried = None /\ call'.phase \notin {"resolution", "caching"}
  BY <1>2, CallEnds
<1>3. ASSUME NEW m \in Materialization, Retry(m) PROVE BatchOrRetry'
  <2>1. call'.batch = <<>> /\ call'.phase = "retrying"
    BY <1>3 DEF Retry, NoCall
  <2> QED
    BY <2>1 DEF BatchOrRetry
<1>4. ASSUME NEW action \in Outcome, NEW relation \in Relation \cup {None},
             Decide(action, relation)
      PROVE  BatchOrRetry'
  <2>1. /\ call'.phase = "deciding" /\ call'.batch = call.batch
        /\ call'.retried = call.retried
    BY <1>0, <1>4, DecideAdds, DecidePlans
  <2> QED
    BY <2>1 DEF BatchOrRetry
<1>5. CASE CommitResolutions
  <2>1. Moves("deciding", "resolution") /\ call'.retried = call.retried /\ call.batch # <<>>
    <3>1. Moves("deciding", "resolution") /\ call'.retried = call.retried
      BY <1>0, <1>5, CallMoves, MovesKeep
    <3> QED
      BY <1>0, <3>1 DEF Moves, RuntimeTypeOK, CallTypeOK
  <2> QED
    BY <2>1 DEF Moves, SameWork, BatchOrRetry
<1>6. CASE \/ EvidenceCommitted \/ Infer \/ ResolutionCommitted \/ Cache
           \/ CacheDone \/ Deliver \/ DeliverFails \/ Confirm \/ ReceiptCommitted
  <2>1. call'.batch = call.batch /\ call'.retried = call.retried
    BY <1>0, <1>6, CallMoves, MovesKeep DEF Moves, SameWork
  <2>2. call'.phase \in {"resolution", "caching"} => call.phase \in {"resolution", "caching"}
    BY <1>0, <1>6, CallMoves DEF Moves
  <2> QED
    BY <2>1, <2>2 DEF BatchOrRetry
<1> QED
  BY <1>1, <1>2, <1>3, <1>4, <1>5, <1>6, CallSteps DEF BatchOrRetry

(* Nothing is merged.                                                      *)
LEMMA NoMergesStep ==
    ASSUME WorkInv, NoMerges, [RuntimeNext]_allvars
    PROVE  NoMerges'
<1>0. LedgerInv /\ LogConsistent /\ RuntimeTypeOK /\ PhaseHolds
  BY DEF WorkInv, CallInv
<1>1. ASSUME NEW e, Submits(e) PROVE merges' = merges
  BY <1>0, <1>1, SubmissionAnswers DEF Quiet, Start, state, identity_index
<1>2. ASSUME Rests PROVE merges' = merges
  BY <1>2 DEF Rests, Quiet, state, identity_index
<1>3. ASSUME Record PROVE merges' = merges
  BY <1>3 DEF Record, identity_index
<1>4. ASSUME Apply PROVE merges' = merges
  <2>1. ASSUME Merge \/ Split PROVE FALSE
    <3>1. /\ inflight # None /\ cursor \in DOMAIN inflight.commands
          /\ inflight.commands[cursor].kind \in {"Merge", "Split"}
      BY <2>1 DEF Merge, Split, Applying, command
    <3> QED
      BY <3>1, InflightKinds DEF WorkInv, Submitting
  <2>2. ~Revert /\ ~\E t \in targets : Deactivate(t)
    BY ForwardStep DEF WorkInv
  <2> QED
    BY <1>4, <2>1, <2>2 DEF Apply, PersistObservation, CommitResolution, CreateIdentity, Promote,
       ChangeStatus, EnqueueMaterialization, Materialized, identity_index
<1>5. merges' = merges
  BY <1>0, <1>1, <1>2, <1>3, <1>4, RuntimeSteps, CommitAnswers
<1> QED
  BY <1>5 DEF NoMerges

(* Every step keeps the plan.                                              *)
LEMMA PlanInvStep == WorkInv /\ PlanInv /\ [RuntimeNext]_allvars => PlanInv'
BY PlannedStep, WritesDifferStep, PendingLaterStep, BatchOrRetryStep, NoMergesStep DEF PlanInv

(* The receipt of the write is in the tables, though perhaps not in the    *)
(* log.                                                                    *)
Received == call.phase = "receipt" /\ Accepted /\ (inflight # None => cursor > 1)

(* A call owes what is pending and the writes that have no receipt yet.    *)
Owed(m) ==
    \/ \E k \in DOMAIN call.pending : call.pending[k] = m
    \/ \E i \in DOMAIN call.writes :
           call.writes[i].materialization = m /\ (Received => i # 1)

Awaited(m) ==
    /\ m \in DOMAIN outbox /\ ~outbox[m].completed
    /\ \E p \in DOMAIN call.decisions : outbox[m].decision = call.decisions[p]

BatchOwed ==
    call.phase \in Attending /\ call.batch # <<>> =>
        \A m \in Materialization : Owed(m) <=> Awaited(m)

(* A retry is of one write.                                                *)
RetryOwed ==
    call.phase \in Attending /\ call.batch = <<>> =>
        /\ call.decisions = <<>> /\ call.pending = <<>>
        /\ call.phase = "delivering" => call.writes = <<>>
        /\ \A i \in DOMAIN call.writes :
               i = 1 /\ call.writes[i].materialization = call.retried
        /\ call.writes = <<>> \/ Received =>
               call.retried \in DOMAIN outbox /\ outbox[call.retried].completed

(* While a call stands, the outbox stays or gets the receipt of the write. *)
LEMMA ReceivedSteps ==
    ASSUME WorkInv, ReceiptsLater, call.phase \in Attending, call' = call,
           [RuntimeNext]_allvars
    PROVE  \/ (Received' <=> Received) /\ outbox' = outbox
           \/ /\ ~Received /\ Received' /\ call.phase = "receipt"
              /\ DOMAIN outbox' = DOMAIN outbox
              /\ \A k \in DOMAIN outbox :
                     /\ outbox'[k].decision = outbox[k].decision
                     /\ outbox'[k].completed <=>
                            outbox[k].completed \/ k = write.materialization
<1>0. /\ LedgerInv /\ LogConsistent /\ RuntimeTypeOK /\ PhaseHolds /\ call \in CallType
      /\ SubmissionHolds
  BY DEF WorkInv, CallInv, RuntimeTypeOK, CallTypeOK
<1>1. ~\E b \in Batch : Begin(b)
  BY DEF Begin, InPhase, Attending
<1>2. ~CommitResolutions /\ ~Confirm
  BY <1>0, CallMoves DEF Moves, Attending
<1>3. ASSUME inflight # None
      PROVE  /\ call.phase = "receipt" /\ inflight.commands = Receipt(write)
             /\ DOMAIN inflight.commands = {1} /\ Len(inflight.commands) = 1
             /\ inflight.commands[1].kind = "Materialized"
             /\ inflight.commands[1].materialization = write.materialization
  <2>1. call.phase = "receipt" /\ inflight.commands = Receipt(write)
    BY <1>0, <1>3 DEF PhaseHolds, SubmissionHolds, Accepted, LastEnvelope, Submitting, Attending
  <2> QED
    BY <2>1 DEF Receipt
<1>4. CASE Apply /\ UNCHANGED <<version, inflight, outcome>> /\ inflight # None
  <2>1. ~\E t \in targets : Deactivate(t)
    BY ForwardStep DEF WorkInv
  <2>2. cursor = 1 /\ Materialized
    BY <1>3, <1>4, <2>1 DEF Apply, PersistObservation, CommitResolution, CreateIdentity, Promote,
       ChangeStatus, Merge, Split, Revert, EnqueueMaterialization, Materialized, Applying, command
  <2>3. cursor' = 2 /\ command.materialization = write.materialization
    BY <1>3, <1>4, <2>2 DEF Materialized, Advance, command
  <2>4. /\ DOMAIN outbox' = DOMAIN outbox
        /\ \A k \in DOMAIN outbox :
               /\ outbox'[k].decision = outbox[k].decision
               /\ outbox'[k].completed <=> outbox[k].completed \/ k = write.materialization
    BY <1>0, <2>2, <2>3, MaterializedEffect
  <2>5. ~Received /\ Received'
    BY <1>3, <1>4, <2>2, <2>3 DEF Received, Accepted
  <2> QED
    BY <1>3, <1>4, <2>4, <2>5
<1>5. CASE Record /\ inflight' = None /\ outcome'.result = "Committed" /\ inflight # None
  <2>1. cursor = Len(inflight.commands) + 1 /\ outbox' = outbox
    BY <1>5 DEF Record, delivery
  <2>2. cursor = 2
    <3>1. Len(inflight.commands) = 1
      BY <1>3, <1>5
    <3> QED
      BY <2>1, <3>1
  <2> QED
    BY <1>3, <1>5, <2>1, <2>2 DEF Received, Accepted
<1>6. CASE Rests
  <2>1. outbox' = outbox /\ UNCHANGED <<inflight, cursor>>
    BY <1>6 DEF Rests, Quiet, state, delivery
  <2>2. call' # NoCall
    BY DEF NoCall, Attending
  <2>3. outcome' = outcome
    BY <1>6, <2>2 DEF Rests
  <2> QED
    BY <2>1, <2>3 DEF Received, Accepted
<1> QED
  BY <1>0, <1>1, <1>2, <1>4, <1>5, <1>6, RuntimeSteps, CommitAnswers

(* What a resolution that is committed owes: its writes, all of them.      *)
LEMMA ResolvedOwes ==
    ASSUME OnceInv, DeliveryInv, ReceiptsInv, PlanInv, call.phase = "resolution",
           inflight = None, outcome.result = "Committed", NEW m \in Materialization
    PROVE  (\E i \in DOMAIN call.writes : call.writes[i].materialization = m) <=> Awaited(m)
<1>0. /\ LedgerInv /\ LogConsistent /\ DecidedInv /\ AppliedStand /\ ReceiptsRecorded
      /\ CurrentInv /\ OutboxJustified /\ EnqueuesPlanned
      /\ version \in Nat /\ DOMAIN transactions = 1..version
  <2>1. LedgerInv /\ LogConsistent /\ OutboxInv
    BY DEF OnceInv, CoverageInv, WorkInv, CallInv, ReceiptsInv
  <2> QED
    BY <2>1, OutboxFromLog, VersionsOfLog DEF OnceInv, CoverageInv, WorkInv, DeliveryInv,
       ReceiptsInv, OutboxInv, PlanInv
<1>1. Now = version
  BY DEF Now
<1>2. ASSUME NEW i \in DOMAIN call.writes, call.writes[i].materialization = m
      PROVE  Awaited(m)
  <2>1. PICK j \in DOMAIN call.commands : call.commands[j] = Enqueue(call.writes[i])
    BY <1>0 DEF DecidedInv, WritesPlanned
  <2>2. /\ call.commands[j].kind = "EnqueueMaterialization"
        /\ call.commands[j].materialization = m
        /\ call.commands[j].decision = call.writes[i].decision
    BY <1>2, <2>1 DEF Enqueue
  <2>3. Stands(call.commands[j], Now)
    BY <1>0, <2>2 DEF AppliedStand, Accepted
  <2>4. /\ m \in DOMAIN outbox /\ outbox[m].decision = call.writes[i].decision
        /\ outbox[m].commit = version
    BY <1>1, <2>2, <2>3 DEF Stands
  <2>5. \E p \in DOMAIN call.decisions : outbox[m].decision = call.decisions[p]
    BY <1>0, <2>4 DEF EnqueuesPlanned
  <2>6. ~outbox[m].completed
    <3> SUFFICES ASSUME outbox[m].completed PROVE FALSE
      OBVIOUS
    <3>1. PICK n \in DOMAIN receipts : receipts[n].commit > version
      BY <1>0, <2>4 DEF ReceiptsRecorded, Answers
    <3>2. receipts[n].commit <= version
      BY <1>0, <1>1 DEF ReceiptsRecorded
    <3>3. receipts[n].commit \in Nat
      <4> DEFINE R == [materialization: Materialization, decision: Decision,
                       commit: 1..MaxVersion]
      <4>1. receipts \in Seq(R)
        BY <1>0 DEF LedgerInv, TypeOK, DeliveryTypeOK
      <4>2. receipts[n] \in R
        <5> HIDE DEF R
        <5> QED
          BY <4>1
      <4> QED
        BY <4>2, LedgerAssumption
    <3> QED
      BY <1>0, <3>1, <3>2, <3>3
  <2> QED
    BY <2>4, <2>5, <2>6 DEF Awaited
<1>3. ASSUME Awaited(m)
      PROVE  \E i \in DOMAIN call.writes : call.writes[i].materialization = m
  <2> DEFINE d == outbox[m].decision
             n == outbox[m].commit
  <2>1. m \in DOMAIN outbox /\ \E p \in DOMAIN call.decisions : d = call.decisions[p]
    BY <1>3 DEF Awaited
  <2>2. PICK p \in DOMAIN call.decisions : d = call.decisions[p]
    BY <2>1
  <2>3. p \in DOMAIN call.batch
    <3>1. /\ call.decisions \in Seq(Decision) /\ call.batch \in Seq(Observation)
          /\ Len(call.decisions) = Len(call.batch)
      BY <1>0 DEF DecidedInv, DecidedAll, OnceInv, CoverageInv, WorkInv, CallInv, RuntimeTypeOK,
         CallTypeOK, CallType
    <3> QED
      BY <2>2, <3>1
  <2>4. /\ d \in DOMAIN decisions /\ decisions[d].validity.begin = version
        /\ version \in DOMAIN transactions
        /\ transactions[version].envelope.commands = call.commands
    BY <1>0, <2>2, <2>3, ResolvedIsCurrent
  <2>5. /\ n \in 1..version /\ Enqueues(transactions[n].envelope, m, d)
        /\ \/ d \in DOMAIN decisions /\ decisions[d].validity.begin <= n
           \/ d \in DOMAIN merges /\ merges[d].validity.begin <= n
    BY <1>0, <2>1 DEF OutboxJustified, Settled
  <2>6. DOMAIN merges = {}
    BY DEF PlanInv, NoMerges, EmptyMap
  <2> HIDE DEF d, n
  <2>7. n = version
    BY <1>0, <2>4, <2>5, <2>6
  <2>8. PICK j \in DOMAIN call.commands :
            /\ call.commands[j].kind = "EnqueueMaterialization"
            /\ call.commands[j].materialization = m
    BY <2>4, <2>5, <2>7 DEF Enqueues
  <2>9. PICK i \in DOMAIN call.writes : call.commands[j] = Enqueue(call.writes[i])
    BY <1>0, <2>8 DEF EnqueuesPlanned
  <2> QED
    BY <2>8, <2>9 DEF Enqueue
<1> QED
  BY <1>2, <1>3

(* The rest of the writes: all but the first.                              *)
LEMMA RestMembers ==
    ASSUME call \in CallType, call.writes # <<>>
    PROVE  LET rest == Tail(call.writes)
           IN  \A m : (\E i \in DOMAIN rest : rest[i].materialization = m) <=>
                          (\E i \in DOMAIN call.writes :
                               call.writes[i].materialization = m /\ i # 1)
<1> DEFINE w == call.writes
           rest == Tail(w)
<1>1. w \in Seq(HostWrite) /\ w # <<>>
  BY DEF CallType
<1> HIDE DEF w
<1>2. /\ Len(w) \in Nat \ {0} /\ DOMAIN w = 1..Len(w) /\ DOMAIN rest = 1..(Len(w) - 1)
      /\ \A i \in 1..(Len(w) - 1) : rest[i] = w[i + 1]
  BY <1>1
<1> DEFINE n == Len(w)
<1> HIDE DEF n, rest
<1>3. /\ \A i \in 1..(n - 1) : i + 1 \in 1..n /\ i + 1 # 1
      /\ \A i \in 1..n : i # 1 => i - 1 \in 1..(n - 1) /\ (i - 1) + 1 = i
      /\ DOMAIN w = 1..n /\ DOMAIN rest = 1..(n - 1)
      /\ \A i \in 1..(n - 1) : rest[i] = w[i + 1]
  BY <1>2 DEF n
<1>4. ASSUME NEW m, NEW i \in DOMAIN rest, rest[i].materialization = m
      PROVE  \E j \in DOMAIN w : w[j].materialization = m /\ j # 1
  BY <1>3, <1>4
<1>5. ASSUME NEW m, NEW i \in DOMAIN w, w[i].materialization = m, i # 1
      PROVE  \E j \in DOMAIN rest : rest[j].materialization = m
  <2>1. i - 1 \in DOMAIN rest /\ rest[i - 1] = w[i]
    BY <1>3, <1>5
  <2> QED
    BY <1>5, <2>1
<1> QED
  BY <1>4, <1>5 DEF w, rest

(* Every step keeps what a call of a batch owes.                           *)
LEMMA BatchOwedStep ==
    ASSUME OnceInv, DeliveryInv, ReceiptsInv, PlanInv, BatchOwed, [RuntimeNext]_allvars
    PROVE  BatchOwed'
<1>0. /\ WorkInv /\ CallInv /\ RuntimeTypeOK /\ call \in CallType /\ AnswerHolds
      /\ ReceiptsLater /\ WritesDiffer /\ PendingLater
  BY DEF DeliveryInv, WorkInv, CallInv, RuntimeTypeOK, CallTypeOK, ReceiptsInv, PlanInv
<1>1. CASE call'.phase \notin Attending \/ call'.batch = <<>>
  BY <1>1 DEF BatchOwed
<1>2. ASSUME call.phase \in Attending, call'.batch = call.batch,
             call'.decisions = call.decisions, outbox' = outbox,
             \A m \in Materialization : Owed(m)' <=> Owed(m)
      PROVE  BatchOwed'
  BY <1>2 DEF BatchOwed, Awaited
<1>3. CASE call' = call /\ call.phase \in Attending
  <2>1. CASE (Received' <=> Received) /\ outbox' = outbox
    <3>1. \A m \in Materialization : Owed(m)' <=> Owed(m)
      BY <1>3, <2>1 DEF Owed
    <3> QED
      BY <1>2, <1>3, <2>1, <3>1
  <2>2. CASE /\ ~Received /\ Received' /\ call.phase = "receipt"
             /\ DOMAIN outbox' = DOMAIN outbox
             /\ \A k \in DOMAIN outbox :
                    /\ outbox'[k].decision = outbox[k].decision
                    /\ outbox'[k].completed <=>
                           outbox[k].completed \/ k = write.materialization
    <3>1. 1 \in DOMAIN call.writes /\ write = call.writes[1]
      BY <1>0, <2>2, RestOfWrites DEF RuntimeTypeOK, CallTypeOK
    <3>2. ASSUME NEW m \in Materialization
          PROVE  Owed(m)' <=> Owed(m) /\ m # write.materialization
      <4>1. \A i \in DOMAIN call.writes :
                i # 1 <=> call.writes[i].materialization # write.materialization
        BY <1>0, <3>1 DEF WritesDiffer
      <4>2. \A k \in DOMAIN call.pending : call.pending[k] # write.materialization
        BY <1>0, <3>1 DEF WritesDiffer
      <4> QED
        BY <1>3, <2>2, <4>1, <4>2 DEF Owed
    <3>3. ASSUME NEW m \in Materialization
          PROVE  Awaited(m)' <=> Awaited(m) /\ m # write.materialization
      BY <1>3, <2>2 DEF Awaited
    <3> QED
      BY <1>3, <3>2, <3>3 DEF BatchOwed
  <2> QED
    BY <1>0, <1>3, <2>1, <2>2, ReceivedSteps
<1>4. ASSUME \/ call' = NoCall
             \/ \E b \in Batch : Begin(b)
      PROVE  call'.phase \notin Attending
  BY <1>4, CallEnds DEF Attending
<1>5. ASSUME NEW m \in Materialization, Retry(m) PROVE call'.batch = <<>>
  BY <1>5 DEF Retry, NoCall
<1>6. ASSUME NEW action \in Outcome, NEW relation \in Relation \cup {None},
             Decide(action, relation)
      PROVE  call'.phase \notin Attending
  BY <1>0, <1>6, DecideAdds DEF Attending
<1>7. CASE EvidenceCommitted \/ Infer \/ CommitResolutions
  BY <1>0, <1>1, <1>7, CallMoves DEF Moves, Attending
<1>8. CASE ResolutionCommitted
  <2>1. /\ Moves("resolution", "caching") /\ Granted /\ UNCHANGED <<call.writes, vars>>
        /\ call'.pending = call.pending
    BY <1>0, <1>8, CallMoves, MovesKeep
  <2>2. call.phase = "resolution" /\ inflight = None /\ outcome.result = "Committed"
    BY <1>0, <2>1 DEF Moves, Granted, AnswerHolds
  <2>3. \A m \in Materialization :
            (\E i \in DOMAIN call.writes : call.writes[i].materialization = m) <=> Awaited(m)
    BY <2>2, ResolvedOwes
  <2>4. call.pending = <<>>
    BY <1>0, <2>2 DEF PendingLater
  <2>5. ~Received'
    BY <2>1 DEF Moves, Received
  <2>6. ASSUME NEW m \in Materialization PROVE Owed(m)' <=> Awaited(m)'
    <3>1. Awaited(m)' <=> Awaited(m)
      BY <2>1 DEF Moves, SameWork, Awaited, vars, state, delivery
    <3>2. Owed(m)' <=> \E i \in DOMAIN call.writes : call.writes[i].materialization = m
      BY <2>1, <2>4, <2>5 DEF Owed
    <3> QED
      BY <2>3, <3>1, <3>2
  <2> QED
    BY <2>6 DEF BatchOwed
<1>9. CASE Cache \/ CacheDone \/ Deliver
  <2>1. /\ call.phase \in Attending \ {"receipt"} /\ call'.phase \in Attending \ {"receipt"}
        /\ SameWork /\ UNCHANGED <<call.writes, vars>> /\ call'.pending = call.pending
    BY <1>0, <1>9, CallMoves, MovesKeep DEF Moves, Attending
  <2>2. ~Received /\ ~Received'
    BY <2>1 DEF Received
  <2>3. \A m \in Materialization : Owed(m)' <=> Owed(m)
    BY <2>1, <2>2 DEF Owed
  <2> QED
    BY <1>2, <2>1, <2>3 DEF SameWork, vars, state, delivery
<1>10. CASE Confirm
  <2>1. /\ Moves("confirming", "receipt") /\ UNCHANGED call.writes
        /\ call'.pending = call.pending
    BY <1>0, <1>10, CallMoves, MovesKeep
  <2>2. ~Received /\ ~Received' /\ outbox' = outbox
    <3>1. Submits(ReceiptOf) \/ \E b \in Batch : Begin(b)
      BY <1>0, <1>10, <2>1, SubmittedTypes DEF Submits, CallInv, Moves, Submitting
    <3>2. ~\E b \in Batch : Begin(b)
      BY <2>1 DEF Begin, InPhase, Moves
    <3>3. outbox' = outbox /\ (~Accepted' \/ (inflight' # None /\ cursor' = 1))
      BY <1>0, <3>1, <3>2, SubmissionAnswers DEF CallInv, Quiet, Start, state, delivery, Accepted
    <3> QED
      BY <2>1, <3>3 DEF Received, Moves
  <2>3. \A m \in Materialization : Owed(m)' <=> Owed(m)
    BY <2>1, <2>2 DEF Owed
  <2> QED
    BY <1>2, <2>1, <2>2, <2>3 DEF Moves, SameWork, Attending
<1>11. CASE DeliverFails \/ ReceiptCommitted
  <2>1. /\ call.phase \in {"delivering", "receipt"} /\ call'.phase = "delivering" /\ SameWork
        /\ UNCHANGED vars /\ call.writes # <<>> /\ call'.writes = Tail(call.writes)
    <3>1. ReceiptCommitted => call.writes # <<>>
      BY <1>0 DEF ReceiptCommitted, InPhase, RuntimeTypeOK, CallTypeOK
    <3> QED
      BY <1>0, <1>11, <3>1, CallMoves, MovesKeep DEF Moves
  <2>2. ~Received'
    BY <2>1 DEF Received
  <2>3. 1 \in DOMAIN call.writes /\ write = call.writes[1]
    BY <1>0, <2>1, RestOfWrites
  <2>4. \A m : (\E i \in DOMAIN call'.writes : call'.writes[i].materialization = m) <=>
                   (\E i \in DOMAIN call.writes :
                        call.writes[i].materialization = m /\ i # 1)
    BY <1>0, <2>1, RestMembers
  <2>5. CASE DeliverFails
    <3>1. call'.pending = Append(call.pending, write.materialization) /\ ~Received
      BY <1>0, <2>5, CallMoves, MovesKeep DEF Moves, Received
    <3>2. \A m : (\E k \in DOMAIN call'.pending : call'.pending[k] = m) <=>
                     (\E k \in DOMAIN call.pending : call.pending[k] = m)
                         \/ m = write.materialization
      BY <1>0, <2>1, <3>1, PendingMembers
    <3>3. ASSUME NEW m \in Materialization PROVE Owed(m)' <=> Owed(m)
      BY <2>2, <2>3, <2>4, <3>1, <3>2 DEF Owed
    <3> QED
      BY <1>2, <2>1, <3>3 DEF SameWork, vars, state, delivery, Attending
  <2>6. CASE ReceiptCommitted
    <3>1. call'.pending = call.pending
      BY <1>0, <2>6, MovesKeep
    <3>2. Received
      BY <1>0, <2>6, CallMoves DEF Moves, Received, Accepted, Granted, AnswerHolds
    <3>3. ASSUME NEW m \in Materialization PROVE Owed(m)' <=> Owed(m)
      BY <2>2, <2>4, <3>1, <3>2 DEF Owed
    <3> QED
      BY <1>2, <2>1, <3>3 DEF SameWork, vars, state, delivery, Attending
  <2> QED
    BY <1>11, <2>5, <2>6
<1> QED
  BY <1>1, <1>3, <1>4, <1>5, <1>6, <1>7, <1>8, <1>9, <1>10, <1>11, CallSteps

(* Every step keeps what a retry owes.                                     *)
LEMMA RetryOwedStep ==
    ASSUME DeliveryInv, ReceiptsInv, PlanInv, RetryOwed, [RuntimeNext]_allvars
    PROVE  RetryOwed'
<1>0. /\ WorkInv /\ CallInv /\ RuntimeTypeOK /\ call \in CallType /\ AnswerHolds
      /\ ReceiptsLater /\ BatchOrRetry /\ WritesStand /\ EnqueueFresh
  BY DEF DeliveryInv, WorkInv, CallInv, RuntimeTypeOK, CallTypeOK, ReceiptsInv, PlanInv
<1>1. CASE call'.phase \notin Attending \/ call'.batch # <<>>
  BY <1>1 DEF RetryOwed
<1>2. ASSUME NEW m \in DOMAIN outbox, outbox[m].completed
      PROVE  m \in DOMAIN outbox' /\ outbox'[m].completed
  BY <1>0, <1>2, EntriesStay
<1>3. CASE call' = call /\ call.phase \in Attending /\ call.batch = <<>>
  <2>1. CASE (Received' <=> Received)
    BY <1>2, <1>3, <2>1 DEF RetryOwed
  <2>2. CASE /\ ~Received /\ Received' /\ call.phase = "receipt"
             /\ DOMAIN outbox' = DOMAIN outbox
             /\ \A k \in DOMAIN outbox :
                    outbox'[k].completed <=>
                        outbox[k].completed \/ k = write.materialization
    <3>1. 1 \in DOMAIN call.writes /\ write = call.writes[1]
      BY <1>0, <2>2, RestOfWrites DEF RuntimeTypeOK, CallTypeOK
    <3>2. write.materialization = call.retried
      BY <1>3, <3>1 DEF RetryOwed
    <3>3. write.materialization \in DOMAIN outbox
      BY <1>0, <2>2, <3>1 DEF WritesStand, Stands
    <3>4. call.retried \in DOMAIN outbox' /\ outbox'[call.retried].completed
      BY <2>2, <3>2, <3>3
    <3> QED
      BY <1>3, <2>2, <3>4 DEF RetryOwed
  <2> QED
    BY <1>0, <1>3, <2>1, <2>2, ReceivedSteps
<1>4. ASSUME \/ call' = NoCall
             \/ \E b \in Batch : Begin(b)
      PROVE  call'.phase \notin Attending
  BY <1>4, CallEnds DEF Attending
<1>5. ASSUME NEW m \in Materialization, Retry(m) PROVE RetryOwed'
  <2>1. /\ call'.decisions = <<>> /\ call'.pending = <<>> /\ call'.phase = "retrying"
        /\ call'.retried = m /\ DOMAIN call'.writes = {1}
        /\ call'.writes[1].materialization = m
    BY <1>5 DEF Retry, NoCall
  <2>2. call'.writes # <<>> /\ ~Received'
    BY <2>1 DEF Received
  <2> QED
    BY <2>1, <2>2 DEF RetryOwed
<1>6. ASSUME NEW action \in Outcome, NEW relation \in Relation \cup {None},
             Decide(action, relation)
      PROVE  call'.phase \notin Attending
  BY <1>0, <1>6, DecideAdds DEF Attending
<1>7. CASE EvidenceCommitted \/ Infer \/ CommitResolutions
  BY <1>0, <1>1, <1>7, CallMoves DEF Moves, Attending
<1>8. CASE ResolutionCommitted \/ Cache \/ CacheDone
  <2>1. call.phase \in {"resolution", "caching"} /\ call'.batch = call.batch
    BY <1>0, <1>8, CallMoves DEF Moves, SameWork
  <2> QED
    BY <1>0, <1>1, <2>1 DEF BatchOrRetry
<1>9. CASE DeliverFails
  <2>1. Moves("delivering", "delivering") /\ call.writes # <<>>
    BY <1>0, <1>9, CallMoves, MovesKeep
  <2> QED
    BY <1>1, <2>1 DEF Moves, SameWork, RetryOwed, Attending
<1>10. CASE Deliver
  <2>1. /\ Moves("delivering", "confirming") \/ Moves("retrying", "confirming")
        /\ UNCHANGED <<call.writes, vars>> /\ call'.pending = call.pending
        /\ call'.retried = call.retried /\ call.writes # <<>>
    BY <1>0, <1>10, CallMoves, MovesKeep DEF Deliver
  <2>2. ~Received'
    BY <2>1 DEF Moves, Received
  <2> QED
    BY <2>1, <2>2 DEF Moves, SameWork, RetryOwed, Attending
<1>11. CASE Confirm
  <2>1. /\ Moves("confirming", "receipt") /\ UNCHANGED call.writes
        /\ call'.pending = call.pending /\ call'.retried = call.retried
    BY <1>0, <1>11, CallMoves, MovesKeep
  <2>2. call.writes # <<>>
    BY <1>0, <2>1 DEF Moves, RuntimeTypeOK, CallTypeOK
  <2>3. ~Received'
    <3>1. Submits(ReceiptOf)
      BY <1>0, <1>11, <2>1, SubmittedTypes DEF Submits, CallInv, Moves, Submitting
    <3>2. ~Accepted' \/ (inflight' # None /\ cursor' = 1)
      BY <1>0, <3>1, SubmissionAnswers DEF CallInv, Accepted
    <3> QED
      BY <3>2 DEF Received
  <2> QED
    BY <2>1, <2>2, <2>3 DEF Moves, SameWork, RetryOwed, Attending
<1>12. CASE ReceiptCommitted /\ call.batch = <<>>
  <2>1. /\ Moves("receipt", "delivering") /\ Granted /\ UNCHANGED vars
        /\ call'.pending = call.pending /\ call'.retried = call.retried
        /\ call'.writes = Tail(call.writes) /\ call.writes # <<>>
    BY <1>0, <1>12, CallMoves, MovesKeep DEF ReceiptCommitted, InPhase, RuntimeTypeOK, CallTypeOK
  <2>2. Received
    BY <1>0, <2>1 DEF Moves, Received, Accepted, Granted, AnswerHolds
  <2>3. call.retried \in DOMAIN outbox /\ outbox[call.retried].completed
    BY <1>12, <2>1, <2>2 DEF RetryOwed, Moves, Attending
  <2>4. DOMAIN call'.writes = {}
    <3> DEFINE rest == call'.writes
    <3>1. \A m : ~\E i \in DOMAIN rest : rest[i].materialization = m
      BY <1>0, <1>12, <2>1, RestMembers DEF RetryOwed, Moves, Attending
    <3> QED
      BY <3>1
  <2>5. call'.writes = <<>>
    <3> DEFINE rest == call'.writes
    <3>1. rest \in Seq(HostWrite) /\ DOMAIN rest = {}
      BY <1>0, <2>1, <2>4 DEF CallType
    <3> HIDE DEF rest
    <3>2. rest = <<>>
      BY <3>1
    <3> QED
      BY <3>2 DEF rest
  <2>6. call'.retried \in DOMAIN outbox' /\ outbox'[call'.retried].completed
    BY <1>2, <2>1, <2>3
  <2> QED
    BY <1>12, <2>1, <2>4, <2>5, <2>6 DEF RetryOwed, Moves, SameWork, Attending
<1>13. CASE ReceiptCommitted /\ call.batch # <<>>
  BY <1>0, <1>1, <1>13, CallMoves DEF Moves, SameWork
<1> QED
  BY <1>1, <1>3, <1>4, <1>5, <1>6, <1>7, <1>8, <1>9, <1>10, <1>11, <1>12, <1>13, CallSteps

(* A result stands until the next call begins.                             *)
ResultStands == result.answer # "None" => call.phase = "idle"

(* What a step does to the result.                                         *)
LEMMA ResultSteps ==
    ASSUME WorkInv, [RuntimeNext]_allvars
    PROVE  /\ \/ result' = result
              \/ Finish
              \/ \E m \in Materialization : RetryAnswered(m)
              \/ result'.answer # "Ok"
           /\ \/ call.phase # "idle" /\ result' = result
              \/ call.phase = "idle" /\ call' = call
              \/ call' = NoCall
              \/ result'.answer = "None"
<1>0. CallInv /\ call \in CallType
  BY DEF WorkInv, CallInv, RuntimeTypeOK, CallTypeOK
<1>1. CASE \/ \E b \in Batch : Begin(b)
           \/ \E m \in Materialization : Retry(m)
           \/ Restart
  <2>1. result' = NoResult
    BY <1>1 DEF Begin, Retry, Restart
  <2> QED
    BY <2>1 DEF NoResult
<1>2. ASSUME NEW b \in Batch, BeginFails(b)
      PROVE  call.phase = "idle" /\ call' = call /\ result'.answer # "Ok"
  BY <1>2 DEF BeginFails, InPhase, NoResult
<1>3. ASSUME NEW m \in Materialization, RetryAnswered(m)
      PROVE  call.phase = "idle" /\ call' = call
  BY <1>3 DEF RetryAnswered, InPhase
<1>4. ASSUME NEW error, Fail(error), error # "Ok"
      PROVE  call' = NoCall /\ result'.answer # "Ok"
  BY <1>4 DEF Fail, Return
<1>5. CASE Refused
  <2>1. outcome.result # "Ok" /\ Fail(outcome.result)
    BY <1>0, <1>5 DEF Refused, CallInv, LedgerInv, TypeOK, ControlTypeOK, Result
  <2> QED
    BY <1>4, <2>1
<1>6. CASE \/ InferenceFails \/ StaleCommit \/ TransactionsExhausted \/ RetryFails
           \/ \E action \in Outcome, relation \in Relation \cup {None} :
                 DecideExhausted(action, relation)
  BY <1>4, <1>6 DEF InferenceFails, StaleCommit, TransactionsExhausted, RetryFails,
     DecideExhausted
<1>7. CASE Finish
  BY <1>7 DEF Finish, Return
<1>8. CASE LedgerStep \/ HostStep \/ UNCHANGED allvars
  BY <1>8 DEF LedgerStep, HostStep, allvars, runtimevars
<1>9. CASE \/ EvidenceCommitted \/ Infer \/ CommitResolutions \/ ResolutionCommitted
           \/ Cache \/ CacheDone \/ Deliver \/ DeliverFails \/ Confirm \/ ReceiptCommitted
           \/ \E action \in Outcome, relation \in Relation \cup {None} : Decide(action, relation)
  BY <1>9 DEF EvidenceCommitted, Infer, CommitResolutions, ResolutionCommitted, Cache, CacheDone,
     Deliver, DeliverFails, Confirm, ReceiptCommitted, Decide, InPhase, AllDecided, Undecided
<1> QED
  BY <1>1, <1>2, <1>3, <1>5, <1>6, <1>7, <1>8, <1>9 DEF RuntimeNext, Calls, Running

(* Between calls the tables stay.                                          *)
LEMMA TablesRest ==
    ASSUME WorkInv, call.phase = "idle", [RuntimeNext]_allvars
    PROVE  UNCHANGED <<outbox, current_decision>>
<1>0. LedgerInv /\ LogConsistent /\ RuntimeTypeOK /\ PhaseHolds /\ inflight = None
  BY DEF WorkInv, CallInv, PhaseHolds, Submitting
<1>1. ASSUME NEW e, Submits(e) PROVE UNCHANGED <<outbox, current_decision>>
  BY <1>0, <1>1, SubmissionAnswers DEF Quiet, Start, state, delivery, lineage
<1>2. CASE Rests
  BY <1>2 DEF Rests, Quiet, state, delivery, lineage
<1> QED
  BY <1>0, <1>1, <1>2, RuntimeSteps, CommitAnswers

(* The invariant of the results.                                           *)
ResultInv ==
    /\ OnceInv /\ DeliveryInv /\ ReceiptsInv /\ DecidedCurrent /\ PlanInv
    /\ BatchOwed /\ RetryOwed /\ ResultStands /\ ResultHolds

(* Every step keeps the results true.                                      *)
LEMMA ResultStep ==
    ASSUME ResultInv, [RuntimeNext]_allvars
    PROVE  ResultHolds'
<1>0. /\ WorkInv /\ DecidedCurrent /\ PlanInv /\ BatchOwed /\ RetryOwed /\ ResultStands
      /\ ResultHolds /\ call \in CallType /\ LedgerInv
  BY DEF ResultInv, DeliveryInv, WorkInv, CallInv, RuntimeTypeOK, CallTypeOK
<1>1. CASE result'.answer # "Ok"
  BY <1>1 DEF ResultHolds
<1>2. CASE result' = result /\ result.answer = "Ok"
  <2>1. UNCHANGED <<outbox, current_decision, result>>
    BY <1>0, <1>2, TablesRest DEF ResultStands
  <2> QED
    BY <1>0, <2>1 DEF ResultHolds
<1>3. CASE Finish
  <2>1. /\ call.phase = "delivering" /\ call.writes = <<>> /\ UNCHANGED vars
        /\ result'.batch = call.batch /\ result'.retried = call.retried
        /\ result'.decisions = call.decisions /\ result'.pending = call.pending
    BY <1>3 DEF Finish, Return, InPhase
  <2>2. UNCHANGED <<outbox, current_decision>> /\ call.phase \in Attending
    BY <2>1 DEF vars, state, delivery, lineage, Attending
  <2>3. /\ Len(call.decisions) = Len(call.batch)
        /\ \A p \in DOMAIN call.batch : /\ call.batch[p] \in DOMAIN current_decision
                                        /\ current_decision[call.batch[p]] = call.decisions[p]
    BY <1>0, <2>2 DEF DecidedCurrent
  <2>4. /\ {call.pending[i] : i \in DOMAIN call.pending} =
               {m \in DOMAIN outbox :
                    ~outbox[m].completed /\ \E i \in DOMAIN call.decisions :
                                                outbox[m].decision = call.decisions[i]}
        /\ call.retried # None => outbox[call.retried].completed
    <3>1. CASE call.batch # <<>>
      <4>1. \A m \in Materialization :
                (\E k \in DOMAIN call.pending : call.pending[k] = m) <=> Awaited(m)
        BY <1>0, <2>1, <2>2, <3>1 DEF BatchOwed, Owed
      <4>2. /\ \A k \in DOMAIN call.pending : call.pending[k] \in Materialization
            /\ DOMAIN outbox \subseteq Materialization
        <5>1. call.pending \in Seq(Materialization)
          BY <1>0 DEF CallType
        <5> QED
          BY <1>0, <5>1 DEF LedgerInv, TypeOK, DeliveryTypeOK
      <4>3. call.retried = None
        BY <1>0, <3>1 DEF PlanInv, BatchOrRetry
      <4> QED
        BY <4>1, <4>2, <4>3 DEF Awaited
    <3>2. CASE call.batch = <<>>
      BY <1>0, <2>1, <2>2, <3>2 DEF RetryOwed
    <3> QED
      BY <3>1, <3>2
  <2> QED
    BY <2>1, <2>2, <2>3, <2>4 DEF ResultHolds
<1>4. ASSUME NEW m \in Materialization, RetryAnswered(m), result'.answer = "Ok"
      PROVE  ResultHolds'
  <2>1. /\ m \in DOMAIN outbox /\ outbox[m].completed /\ UNCHANGED vars
        /\ result'.batch = <<>> /\ result'.decisions = <<>> /\ result'.pending = <<>>
        /\ result'.retried = m
    BY <1>4 DEF RetryAnswered, NoResult
  <2>2. outbox' = outbox
    BY <2>1 DEF vars, state, delivery
  <2> QED
    BY <2>1, <2>2 DEF ResultHolds
<1> QED
  BY <1>0, <1>1, <1>2, <1>3, <1>4, ResultSteps

(* The runtime starts with the invariant of the results and keeps it.      *)
LEMMA ResultInvHolds ==
    /\ RuntimeInit => ResultInv
    /\ ResultInv /\ [RuntimeNext]_allvars => ResultInv'
<1>1. ASSUME RuntimeInit PROVE ResultInv
  <2>1. Init /\ call = NoCall /\ result = NoResult
    BY <1>1 DEF RuntimeInit
  <2>2. OnceInv /\ DeliveryInv /\ ReceiptsInv
    BY <1>1, <2>1, OnceInvHolds, DeliveryInvHolds, InitReceipts
  <2>3. DecidedCurrent /\ BatchOwed /\ RetryOwed
    BY <2>1 DEF NoCall, DecidedCurrent, BatchOwed, RetryOwed, Attending
  <2>4. PlanInv
    BY <2>1 DEF NoCall, Init, Empty, PlanInv, EnqueuesPlanned, WritesDiffer, PendingLater,
       BatchOrRetry, NoMerges
  <2>5. ResultStands /\ ResultHolds
    BY <2>1 DEF NoResult, ResultStands, ResultHolds
  <2> QED
    BY <2>2, <2>3, <2>4, <2>5 DEF ResultInv
<1>2. ASSUME ResultInv, [RuntimeNext]_allvars PROVE ResultInv'
  <2>1. /\ WorkInv /\ CallInv /\ CurrentInv /\ LedgerInv /\ LogConsistent /\ OnceInv
        /\ DeliveryInv /\ ReceiptsInv /\ PlanInv
    BY <1>2 DEF ResultInv, DeliveryInv, WorkInv, CallInv, ReceiptsInv, OutboxInv
  <2>2. OnceInv' /\ DeliveryInv' /\ PlanInv'
    BY <1>2, <2>1, OnceInvHolds, DeliveryInvHolds, PlanInvStep
  <2>3. ReceiptsInv'
    BY <1>2, <2>1, CallInvHolds, ReceiptsInvStep
  <2>4. DecidedCurrent'
    BY <1>2, <2>1, DecidedCurrentStep DEF ResultInv
  <2>5. BatchOwed' /\ RetryOwed'
    BY <1>2, <2>1, BatchOwedStep, RetryOwedStep DEF ResultInv
  <2>6. ResultStands'
    BY <1>2, <2>1, ResultSteps DEF ResultInv, ResultStands, NoCall
  <2> QED
    BY <1>2, <2>2, <2>3, <2>4, <2>5, <2>6, ResultStep DEF ResultInv
<1> QED
  BY <1>1, <1>2

(* What a call answers with success is so, when it answers and until the   *)
(* next call: its decisions are the current ones, the writes it reports as *)
(* pending are those that have no receipt, and a write it was called to    *)
(* retry has one.                                                          *)
THEOREM ResultIsTrue == RuntimeSpec => []ResultHolds
<1>1. ResultInv => ResultHolds
  BY DEF ResultInv
<1> QED
  BY <1>1, ResultInvHolds, PTL DEF RuntimeSpec

-----------------------------------------------------------------------------
(***************************************************************************)
(* The workspace against the log.                                          *)
(***************************************************************************)
WorkspaceTypeOK ==
    /\ workspace \in [DOMAIN workspace -> [applied: Nat, history: Seq(Observation)]]
    /\ DOMAIN workspace \subseteq Identity

(* The workspace changes when an association is cached, and is lost with   *)
(* the process.                                                            *)
LEMMA WorkspaceSteps ==
    ASSUME [RuntimeNext]_allvars
    PROVE  \/ workspace' = workspace
           \/ Cache
           \/ workspace' = EmptyMap /\ call' = NoCall
<1>1. CASE \/ Refused \/ InferenceFails \/ StaleCommit \/ TransactionsExhausted \/ Finish
           \/ RetryFails \/ CommitResolutions
           \/ EvidenceCommitted \/ Infer \/ ResolutionCommitted \/ CacheDone
           \/ Deliver \/ DeliverFails \/ Confirm \/ ReceiptCommitted
  BY <1>1 DEF Refused, InferenceFails, StaleCommit, TransactionsExhausted, Finish,
     RetryFails, CommitResolutions, EvidenceCommitted, Infer, ResolutionCommitted, CacheDone,
     Deliver, DeliverFails, Confirm, ReceiptCommitted
<1>2. CASE \E action \in Outcome, relation \in Relation \cup {None} :
               Decide(action, relation) \/ DecideExhausted(action, relation)
  BY <1>2 DEF Decide, DecideExhausted
<1>3. CASE \/ \E b \in Batch : Begin(b) \/ BeginFails(b)
           \/ \E m \in Materialization : Retry(m) \/ RetryAnswered(m)
           \/ LedgerStep \/ HostStep \/ UNCHANGED allvars
  BY <1>3 DEF Begin, BeginFails, Retry, RetryAnswered, LedgerStep, HostStep, allvars, runtimevars
<1>4. CASE Restart
  BY <1>4 DEF Restart
<1> QED
  BY <1>1, <1>2, <1>3, <1>4 DEF RuntimeNext, Calls, Running

(* An identity that is assigned is known, or a command that is left will   *)
(* make it so.                                                             *)
AssignedKnown ==
    /\ \A n \in DOMAIN transactions : \A i \in DOMAIN transactions[n].envelope.commands :
           \A id \in Identity :
               Assigns(transactions[n].envelope.commands[i], id) => id \in DOMAIN identities
    /\ inflight # None =>
           \A i \in DOMAIN inflight.commands, id \in Identity :
               Assigns(inflight.commands[i], id) =>
                   \/ id \in DOMAIN identities
                   \/ \E j \in cursor..i : Writes(inflight.commands[j], id)

(* validate has seen to it.                                                *)
LEMMA StartKnown ==
    ASSUME NEW e \in CommandEnvelope, Start(e),
           NEW i \in DOMAIN e.commands, NEW id \in Identity, Assigns(e.commands[i], id)
    PROVE  \/ id \in DOMAIN identities
           \/ \E j \in 1..i : Writes(e.commands[j], id)
<1>1. i \in Nat /\ i \in 1..i
  BY EnvelopeFields
<1>2. ValidCommand(e, i)
  BY DEF Start, Valid, CommandsValid
<1>3. e.commands[i].kind = "CommitResolution"
  BY DEF Assigns
<1>4. ValidAction(e, i)
  BY <1>2, <1>3 DEF ValidCommand, ValidResolution
<1>5. CASE e.commands[i].created = id
  BY <1>1, <1>3, <1>5 DEF Writes
<1>6. CASE e.commands[i].decision.action.name = "AssignLatent"
           /\ e.commands[i].decision.action.identity = id
  <2>1. OverlayStatus(e, i, id) # "Absent"
    BY <1>4, <1>6 DEF ValidAction
  <2> QED
    BY <1>1, <2>1, OverlayKnown
<1> QED
  BY <1>5, <1>6 DEF Assigns

(* How a step moves the identities and the place in the envelope.          *)
LEMMA IdentitySteps ==
    ASSUME WorkInv, [RuntimeNext]_allvars
    PROVE  /\ DOMAIN identities \subseteq DOMAIN identities'
           /\ \/ inflight' = None
              \/ UNCHANGED <<inflight, cursor>>
              \/ \E e \in CommandEnvelope : Start(e)
              \/ /\ inflight # None /\ inflight' = inflight
                 /\ cursor \in Nat /\ cursor' = cursor + 1
                 /\ \A id \in Identity :
                        Writes(inflight.commands[cursor], id) => id \in DOMAIN identities'
           /\ inflight' = None /\ inflight # None => cursor = Len(inflight.commands) + 1
<1>0. TypeOK /\ ValidationHolds /\ TableStep
  BY CallInvHolds DEF WorkInv, CallInv, LedgerInv
<1>1. CASE Quiet
  BY <1>1 DEF Quiet, state, identity_index
<1>2. ASSUME NEW e \in CommandEnvelope, Start(e)
      PROVE  identities' = identities /\ inflight = None
  BY <1>2 DEF Start, state, identity_index
<1>3. CASE \/ PersistObservation \/ CommitResolution \/ CreateIdentity \/ Promote
           \/ \E kind \in {"Dormant", "Reactivate", "Retire"} : ChangeStatus(kind)
           \/ Merge \/ Split \/ EnqueueMaterialization \/ Materialized
  <2>1. /\ inflight # None /\ cursor \in DOMAIN inflight.commands
        /\ inflight' = inflight /\ cursor' = cursor + 1
    BY <1>3 DEF Applying, PersistObservation, CommitResolution, CreateIdentity, Promote,
       ChangeStatus, Merge, Split, EnqueueMaterialization, Materialized, Advance
  <2>2. Adds(command)
    BY <1>0, <1>3, ApplyAdds
  <2>3. cursor \in Nat
    BY <1>0, <2>1, InFlight, EnvelopeFields
  <2> QED
    BY <2>1, <2>2, <2>3 DEF Adds, command
<1>4. CASE Record
  BY <1>4 DEF Record, identity_index
<1>5. ~Revert /\ ~\E t \in targets : Deactivate(t)
  BY ForwardStep DEF WorkInv
<1> QED
  BY <1>0, <1>1, <1>2, <1>3, <1>4, <1>5 DEF TableStep, Apply

(* Every step keeps what is assigned known.                                *)
LEMMA AssignedKnownStep ==
    ASSUME WorkInv, AssignedKnown, [RuntimeNext]_allvars
    PROVE  AssignedKnown'
<1>0. CallInv /\ TypeOK /\ ValidationHolds /\ version \in Nat
  BY LogGrows DEF WorkInv, CallInv, LedgerInv
<1>1. DOMAIN identities \subseteq DOMAIN identities'
  BY IdentitySteps
<1>2. ASSUME NEW n \in DOMAIN transactions', NEW i \in DOMAIN transactions'[n].envelope.commands,
             NEW id \in Identity, Assigns(transactions'[n].envelope.commands[i], id)
      PROVE  id \in DOMAIN identities'
  <2>1. CASE n \in DOMAIN transactions
    BY <1>0, <1>1, <1>2, <2>1, LogGrows DEF AssignedKnown
  <2>2. CASE n \notin DOMAIN transactions
    <3>1. inflight # None /\ transactions'[n].envelope = inflight /\ inflight' = None
      <4>1. /\ DOMAIN transactions = 1..version /\ inflight # None
            /\ DOMAIN transactions' = 1..(version + 1)
            /\ transactions'[version + 1].envelope = inflight
        BY <1>0, <1>2, <2>2, LogGrows
      <4>2. n = version + 1
        BY <1>0, <1>2, <2>2, <4>1
      <4>3. ~UNCHANGED log
        BY <1>2, <2>2 DEF log
      <4>4. Record
        BY <1>0, <4>3, LogSteps, CallInvHolds, ForwardStep DEF WorkInv, CallInv
      <4> QED
        BY <4>1, <4>2, <4>4 DEF Record
    <3>2. cursor = Len(inflight.commands) + 1 /\ i \in DOMAIN inflight.commands
      BY <1>2, <3>1, IdentitySteps
    <3>3. /\ i \in 1..Len(inflight.commands) /\ Len(inflight.commands) \in Nat
      BY <1>0, <3>1, <3>2, EnvelopeFields DEF TypeOK, ControlTypeOK
    <3>4. ~\E j \in cursor..i : Writes(inflight.commands[j], id)
      BY <3>2, <3>3
    <3> QED
      BY <1>1, <1>2, <3>1, <3>2, <3>4 DEF AssignedKnown
  <2> QED
    BY <2>1, <2>2
<1>3. ASSUME inflight' # None, NEW i \in DOMAIN inflight'.commands, NEW id \in Identity,
             Assigns(inflight'.commands[i], id)
      PROVE  \/ id \in DOMAIN identities'
             \/ \E j \in cursor'..i : Writes(inflight'.commands[j], id)
  <2>1. CASE UNCHANGED <<inflight, cursor>>
    BY <1>1, <1>3, <2>1 DEF AssignedKnown
  <2>2. ASSUME NEW e \in CommandEnvelope, Start(e)
        PROVE  \/ id \in DOMAIN identities'
               \/ \E j \in cursor'..i : Writes(inflight'.commands[j], id)
    <3>1. inflight' = e /\ cursor' = 1
      BY <2>2 DEF Start
    <3> QED
      BY <1>1, <1>3, <2>2, <3>1, StartKnown
  <2>3. CASE /\ inflight # None /\ inflight' = inflight
             /\ cursor \in Nat /\ cursor' = cursor + 1
             /\ \A x \in Identity :
                    Writes(inflight.commands[cursor], x) => x \in DOMAIN identities'
    <3>1. CASE id \in DOMAIN identities
      BY <1>1, <3>1
    <3>2. CASE id \notin DOMAIN identities
      <4>1. PICK j \in cursor..i : Writes(inflight.commands[j], id)
        BY <1>3, <2>3, <3>2 DEF AssignedKnown
      <4>2. i \in Nat
        BY <1>0, <1>3, <2>3, EnvelopeFields DEF TypeOK, ControlTypeOK
      <4>3. j = cursor \/ j \in (cursor + 1)..i
        BY <2>3, <4>2
      <4> QED
        BY <2>3, <4>1, <4>3
    <3> QED
      BY <3>1, <3>2
  <2> QED
    BY <1>3, <2>1, <2>2, <2>3, IdentitySteps
<1> QED
  BY <1>2, <1>3 DEF AssignedKnown

(* Association k of the call is what its command i asks for.               *)
PlannedAt(k, i) ==
    /\ Assigns(call.commands[i], call.associations[k].identity)
    /\ call.commands[i].inference.observation = call.associations[k].observation

(* The associations of a batch are those of its commands, each of one of   *)
(* its own, for the version that is next.                                  *)
AssociationsPlanned ==
    /\ call.phase \in {"evidence", "inference"} => call.associations = <<>>
    /\ call.phase \in {"deciding", "resolution"} =>
        /\ \A k \in DOMAIN call.associations :
               /\ call.associations[k].version = call.reached + 1
               /\ \E i \in DOMAIN call.commands : PlannedAt(k, i)
        /\ \A k, l \in DOMAIN call.associations : k # l =>
               \E i, j \in DOMAIN call.commands : i # j /\ PlannedAt(k, i) /\ PlannedAt(l, j)
        /\ \A i \in DOMAIN call.commands, id \in Identity : Assigns(call.commands[i], id) =>
               \E k \in DOMAIN call.associations : call.associations[k].identity = id

(* One turn of the loop adds the association of its resolution, if any.    *)
LEMMA DecideAssociates ==
    ASSUME RuntimeTypeOK, NEW action \in Outcome, NEW relation \in Relation \cup {None},
           Decide(action, relation)
    PROVE  LET k == Len(call.associations) + 1
               o == call.batch[Len(call.decisions) + 1]
           IN  /\ call'.reached = call.reached
               /\ k \in Nat /\ DOMAIN call.associations = 1..(k - 1)
               /\ \A l \in DOMAIN call.associations :
                      /\ l \in DOMAIN call'.associations
                      /\ call'.associations[l] = call.associations[l]
               /\ \A l \in DOMAIN call'.associations :
                      \/ l \in DOMAIN call.associations
                      \/ /\ l = k /\ call'.associations[l].version = call.reached + 1
                         /\ call'.associations[l].observation = o
                         /\ Assigns(Resolution(o, action), call'.associations[l].identity)
               /\ \A id \in Identity : Assigns(Resolution(o, action), id) =>
                      /\ k \in DOMAIN call'.associations
                      /\ call'.associations[k].identity = id
<1> DEFINE k == Len(call.associations) + 1
           o == call.batch[Len(call.decisions) + 1]
           N == Cardinality(Associated(action))
           added == [i \in 1..N |-> [observation |-> o, version |-> call.reached + 1,
                                     identity |-> CHOOSE id \in Associated(action) : TRUE]]
           A == [observation: Observation, version: Nat, identity: Identity]
<1>1. /\ call \in CallType /\ ~Exhausted(DrawnFor(action, relation))
      /\ Len(call.decisions) < Len(call.batch)
  BY DEF Decide, Undecided, RuntimeTypeOK, CallTypeOK
<1>2. /\ call'.associations = call.associations \o added /\ call'.reached = call.reached
  BY <1>1 DEF Decide, CallType
<1>3. o \in Observation /\ call.reached + 1 \in Nat /\ call.associations \in Seq(A)
  BY <1>1 DEF CallType
<1>4. /\ Associated(action) \subseteq Identity /\ N \in Nat
      /\ N # 0 => Associated(action) # {}
  <2> HIDE DEF o
  <2> QED
    BY <1>1, <1>3, DecidedTypes
<1>5. \A id \in Identity : Assigns(Resolution(o, action), id) <=> id \in Associated(action)
  <2>1. None \notin Identity
    BY LedgerAssumption
  <2> HIDE DEF o
  <2> QED
    BY <2>1 DEF Assigns, Resolution, Associated
<1>6. Associated(action) = {} \/ \E x \in Identity : Associated(action) = {x}
  <2>1. CASE action.name = "CreateIdentity"
    BY <1>4, <2>1 DEF Associated
  <2>2. CASE action.name = "AssignLatent"
    BY <1>4, <2>2 DEF Associated
  <2>3. CASE action.name \notin {"CreateIdentity", "AssignLatent"}
    BY <2>3 DEF Associated
  <2> QED
    BY <2>1, <2>2, <2>3
<1> HIDE DEF o
<1>7. CASE Associated(action) = {}
  <2>1. N = 0
    BY <1>7, FS_EmptySet
  <2>2. added = <<>>
    BY <2>1
  <2>3. call'.associations = call.associations
    <3> HIDE DEF added, A
    <3> QED
      BY <1>2, <1>3, <2>2
  <2>4. k \in Nat /\ DOMAIN call.associations = 1..(k - 1)
    BY <1>3
  <2>5. \A id \in Identity : ~Assigns(Resolution(o, action), id)
    BY <1>5, <1>7
  <2> HIDE DEF k
  <2> QED
    BY <1>2, <2>3, <2>4, <2>5 DEF k, o
<1>8. ASSUME NEW x \in Identity, Associated(action) = {x}
      PROVE  /\ added \in Seq(A) /\ Len(added) = 1
             /\ added[1] = [observation |-> o, version |-> call.reached + 1, identity |-> x]
  <2>1. N = 1
    BY <1>8, FS_Singleton
  <2>2. (CHOOSE id \in Associated(action) : TRUE) = x
    BY <1>8
  <2> DEFINE a == [observation |-> o, version |-> call.reached + 1, identity |-> x]
  <2>3. added = [i \in 1..1 |-> a]
    BY <2>1, <2>2
  <2>4. a \in A
    BY <1>3, <1>8
  <2> HIDE DEF added, A, a
  <2>5. added \in Seq(A) /\ Len(added) = 1 /\ added[1] = a
    BY <2>3, <2>4
  <2> QED
    BY <2>5 DEF a
<1> HIDE DEF added, A
<1>9. ASSUME NEW x \in Identity, Associated(action) = {x}
      PROVE  /\ k \in Nat /\ DOMAIN call.associations = 1..(k - 1)
             /\ \A l \in DOMAIN call.associations :
                    /\ l \in DOMAIN call'.associations
                    /\ call'.associations[l] = call.associations[l]
             /\ DOMAIN call'.associations = 1..k
             /\ call'.associations[k] =
                    [observation |-> o, version |-> call.reached + 1, identity |-> x]
  <2>1. /\ k \in Nat /\ Len(call.associations) = k - 1 /\ DOMAIN call.associations = 1..(k - 1)
    BY <1>3
  <2>2. added \in Seq(A) /\ Len(added) = 1
    BY <1>8, <1>9
  <2>3. 1 \in DOMAIN added
    BY <2>2
  <2>4. /\ DOMAIN (call.associations \o added) = 1..k
        /\ (call.associations \o added)[k] = added[1]
        /\ \A l \in DOMAIN call.associations :
               /\ l \in DOMAIN (call.associations \o added)
               /\ (call.associations \o added)[l] = call.associations[l]
    BY <1>3, <2>1, <2>2, <2>3, ConcatMembers
  <2> HIDE DEF k
  <2> QED
    BY <1>2, <1>8, <1>9, <2>1, <2>4
<1>10. ASSUME NEW x \in Identity, Associated(action) = {x}
       PROVE  /\ \A l \in DOMAIN call'.associations :
                     \/ l \in DOMAIN call.associations
                     \/ /\ l = k /\ call'.associations[l].version = call.reached + 1
                        /\ call'.associations[l].observation = o
                        /\ Assigns(Resolution(o, action), call'.associations[l].identity)
              /\ \A id \in Identity : Assigns(Resolution(o, action), id) =>
                     k \in DOMAIN call'.associations /\ call'.associations[k].identity = id
  <2>1. /\ k \in Nat /\ DOMAIN call.associations = 1..(k - 1) /\ DOMAIN call'.associations = 1..k
        /\ call'.associations[k].version = call.reached + 1
        /\ call'.associations[k].observation = o /\ call'.associations[k].identity = x
    <3> HIDE DEF k
    <3>1. /\ k \in Nat /\ DOMAIN call.associations = 1..(k - 1) /\ DOMAIN call'.associations = 1..k
          /\ call'.associations[k] =
                 [observation |-> o, version |-> call.reached + 1, identity |-> x]
      BY <1>9, <1>10
    <3> QED
      BY <3>1
  <2>2. \A id \in Identity : Assigns(Resolution(o, action), id) <=> id = x
    BY <1>5, <1>10
  <2>3. \A l \in DOMAIN call'.associations : l \in DOMAIN call.associations \/ l = k
    BY <2>1
  <2>4. k \in DOMAIN call'.associations
    BY <1>3, <2>1
  <2> HIDE DEF k
  <2> QED
    BY <1>10, <2>1, <2>2, <2>3, <2>4
<1> QED
  BY <1>2, <1>6, <1>7, <1>9, <1>10 DEF o

(* A turn of the loop keeps the plan.                                      *)
LEMMA AssociationsDecided ==
    ASSUME RuntimeTypeOK, AssociationsPlanned,
           NEW action \in Outcome, NEW relation \in Relation \cup {None},
           Decide(action, relation)
    PROVE  AssociationsPlanned'
<1> DEFINE k == Len(call.associations) + 1
           n == Len(call.commands) + 1
           o == call.batch[Len(call.decisions) + 1]
           was == call.associations
           is == call'.associations
           PlannedNext(l, i) == /\ Assigns(call'.commands[i], is[l].identity)
                                /\ call'.commands[i].inference.observation = is[l].observation
<1>1. /\ call.phase = "deciding" /\ call'.phase = "deciding"
      /\ n \in Nat /\ DOMAIN call.commands = 1..(n - 1) /\ n \in DOMAIN call'.commands
      /\ \A i \in DOMAIN call.commands :
             i \in DOMAIN call'.commands /\ call'.commands[i] = call.commands[i]
      /\ call'.commands[n] = Resolution(o, action)
      /\ \A i \in DOMAIN call'.commands :
             \/ i \in 1..n
             \/ i = n + 1 /\ call'.commands[i] = Enqueue(Planned(relation))
  BY DecideAdds
<1>2. /\ call'.reached = call.reached /\ k \in Nat /\ DOMAIN was = 1..(k - 1)
      /\ \A l \in DOMAIN was : l \in DOMAIN is /\ is[l] = was[l]
      /\ \A l \in DOMAIN is :
             \/ l \in DOMAIN was
             \/ /\ l = k /\ is[l].version = call.reached + 1 /\ is[l].observation = o
                /\ Assigns(Resolution(o, action), is[l].identity)
      /\ \A id \in Identity : Assigns(Resolution(o, action), id) =>
             k \in DOMAIN is /\ is[k].identity = id
  BY DecideAssociates
<1>3. Resolution(o, action).inference.observation = o
  BY DEF Resolution
<1>4. \A id : ~Assigns(Enqueue(Planned(relation)), id)
  BY DEF Assigns, Enqueue
<1> HIDE DEF k, n, o, was, is
<1>5. \A i \in DOMAIN call'.commands :
          \/ i \in DOMAIN call.commands /\ call'.commands[i] = call.commands[i]
          \/ i = n
          \/ \A id : ~Assigns(call'.commands[i], id)
  BY <1>1, <1>4
<1>6. /\ \A l \in DOMAIN was :
             was[l].version = call.reached + 1 /\ \E i \in DOMAIN call.commands : PlannedAt(l, i)
      /\ \A l, m \in DOMAIN was : l # m =>
             \E i, j \in DOMAIN call.commands : i # j /\ PlannedAt(l, i) /\ PlannedAt(m, j)
      /\ \A i \in DOMAIN call.commands, id \in Identity : Assigns(call.commands[i], id) =>
             \E l \in DOMAIN was : was[l].identity = id
  BY <1>1 DEF AssociationsPlanned, was
<1>7. \A l \in DOMAIN was, i \in DOMAIN call.commands :
          PlannedAt(l, i) => i \in DOMAIN call'.commands /\ i # n /\ PlannedNext(l, i)
  BY <1>1, <1>2 DEF PlannedAt, was
<1>8. ASSUME NEW l \in DOMAIN is, l \notin DOMAIN was
      PROVE  l = k /\ n \in DOMAIN call'.commands /\ PlannedNext(l, n)
  BY <1>1, <1>2, <1>3, <1>8
<1> HIDE DEF PlannedNext
<1>9. \A l \in DOMAIN is :
          /\ is[l].version = call.reached + 1
          /\ \E i \in DOMAIN call'.commands : PlannedNext(l, i)
  BY <1>2, <1>6, <1>7, <1>8
<1>10. ASSUME NEW l \in DOMAIN is, NEW m \in DOMAIN is, l # m
       PROVE  \E i, j \in DOMAIN call'.commands : i # j /\ PlannedNext(l, i) /\ PlannedNext(m, j)
  <2>1. CASE l \in DOMAIN was /\ m \in DOMAIN was
    BY <1>6, <1>7, <1>10, <2>1
  <2>2. CASE l \in DOMAIN was /\ m \notin DOMAIN was
    BY <1>6, <1>7, <1>8, <2>2
  <2>3. CASE l \notin DOMAIN was /\ m \in DOMAIN was
    BY <1>6, <1>7, <1>8, <2>3
  <2>4. CASE l \notin DOMAIN was /\ m \notin DOMAIN was
    BY <1>8, <1>10, <2>4
  <2> QED
    BY <2>1, <2>2, <2>3, <2>4
<1>11. ASSUME NEW i \in DOMAIN call'.commands, NEW id \in Identity, Assigns(call'.commands[i], id)
       PROVE  \E l \in DOMAIN is : is[l].identity = id
  <2>1. CASE i \in DOMAIN call.commands /\ call'.commands[i] = call.commands[i]
    <3>1. PICK l \in DOMAIN was : was[l].identity = id
      BY <1>6, <1>11, <2>1
    <3> QED
      BY <1>2, <3>1
  <2>2. CASE i = n
    BY <1>1, <1>2, <1>11, <2>2
  <2> QED
    BY <1>5, <1>11, <2>1, <2>2
<1> QED
  BY <1>1, <1>2, <1>9, <1>10, <1>11 DEF AssociationsPlanned, PlannedAt, PlannedNext, is

(* Every step keeps it.                                                    *)
LEMMA AssociationsPlannedStep ==
    ASSUME WorkInv, AssociationsPlanned, [RuntimeNext]_allvars
    PROVE  AssociationsPlanned'
<1>0. RuntimeTypeOK /\ call \in CallType
  BY DEF WorkInv, CallInv, RuntimeTypeOK, CallTypeOK
<1>1. CASE call' = call
  BY <1>1 DEF AssociationsPlanned, PlannedAt
<1>2. CASE call' = NoCall \/ \E b \in Batch : Begin(b)
  BY <1>2, CallEnds DEF AssociationsPlanned
<1>3. ASSUME NEW action \in Outcome, NEW relation \in Relation \cup {None},
             Decide(action, relation)
      PROVE  AssociationsPlanned'
  BY <1>0, <1>3, AssociationsDecided
<1>4. CASE EvidenceCommitted
  <2>1. Moves("evidence", "inference") /\ call'.associations = call.associations
    BY <1>0, <1>4, CallMoves, MovesKeep
  <2> QED
    BY <2>1 DEF Moves, AssociationsPlanned
<1>5. CASE Infer
  <2>1. Moves("inference", "deciding") /\ call'.associations = call.associations
    BY <1>0, <1>5, CallMoves, MovesKeep
  <2>2. call.associations = <<>> /\ call.commands = <<>>
    BY <2>1 DEF Moves, AssociationsPlanned, WorkInv, DecidedInv, NothingDecided
  <2>3. call'.associations = <<>> /\ call'.commands = <<>> /\ call'.phase = "deciding"
    BY <2>1, <2>2 DEF Moves, SameWork
  <2> QED
    BY <2>3 DEF AssociationsPlanned
<1>6. CASE CommitResolutions
  <2>1. /\ Moves("deciding", "resolution") /\ call'.associations = call.associations
        /\ call'.reached = call.reached
    BY <1>0, <1>6, CallMoves, MovesKeep
  <2> QED
    BY <2>1 DEF Moves, SameWork, AssociationsPlanned, PlannedAt
<1>7. CASE \/ ResolutionCommitted \/ Cache \/ CacheDone
           \/ Deliver \/ DeliverFails \/ Confirm \/ ReceiptCommitted
  <2>1. call'.phase \in {"caching", "delivering", "confirming", "receipt"}
    BY <1>0, <1>7, CallMoves DEF Moves
  <2> QED
    BY <2>1 DEF AssociationsPlanned
<1>8. ASSUME NEW m \in Materialization, Retry(m) PROVE AssociationsPlanned'
  <2>1. call'.phase = "retrying"
    BY <1>8 DEF Retry, NoCall
  <2> QED
    BY <2>1 DEF AssociationsPlanned
<1> QED
  BY <1>1, <1>2, <1>3, <1>4, <1>5, <1>6, <1>7, <1>8, CallSteps

(* The resolution of the call is in the log.                               *)
Concluded == inflight = None /\ outcome.result = "Committed"

ReachedHolds ==
    call.phase = "resolution" =>
        /\ Concluded => version = call.reached + 1
        /\ ~Concluded => version = call.reached

(* The version of the log is the one the call has reached, until then.     *)
LEMMA ReachedStep ==
    ASSUME WorkInv, ReachedHolds, [RuntimeNext]_allvars
    PROVE  ReachedHolds'
<1>0. /\ CallInv /\ LedgerInv /\ LogConsistent /\ RuntimeTypeOK /\ PhaseHolds
      /\ call \in CallType
  BY DEF WorkInv, CallInv, RuntimeTypeOK, CallTypeOK
<1>1. ASSUME NEW b \in Batch, Begin(b) PROVE ReachedHolds'
  <2>1. call'.phase = "idle" \/ call'.phase = "evidence"
    BY <1>1, CallEnds
  <2> QED
    BY <2>1 DEF ReachedHolds
<1>2. CASE CommitResolutions /\ Submits(ResolutionOf)
  <2>1. Moves("deciding", "resolution") /\ call'.reached = call.reached
    BY <1>0, <1>2, CallMoves, MovesKeep
  <2>2. version' = version /\ outcome'.result # "Committed"
    BY <1>0, <1>2, SubmissionAnswers DEF Quiet, state, log
  <2>3. call.reached = version
    BY <1>0, <2>1 DEF Moves, PhaseHolds
  <2> QED
    BY <2>1, <2>2, <2>3 DEF ReachedHolds, Concluded
<1>3. CASE Confirm
  <2>1. call'.phase = "receipt"
    BY <1>0, <1>3, CallMoves DEF Moves
  <2> QED
    BY <2>1 DEF ReachedHolds
<1>4. CASE Commits
  <2>1. call' = call
    BY <1>4 DEF Commits, runtimevars
  <2>2. inflight # None
    BY <1>0, <1>4, CommitAnswers
  <2>3. CASE UNCHANGED <<version, inflight, outcome>>
    BY <2>1, <2>3 DEF ReachedHolds, Concluded
  <2>4. CASE inflight' = None /\ version' = next_version /\ outcome'.result = "Committed"
    BY <2>1, <2>2, <2>4 DEF ReachedHolds, Concluded, next_version
  <2> QED
    BY <1>0, <1>4, <2>3, <2>4, CommitAnswers
<1>5. CASE Rests
  <2>1. UNCHANGED <<version, inflight>>
    BY <1>5 DEF Rests, Quiet, state, log
  <2>2. CASE outcome' = outcome /\ call' = call
    BY <2>1, <2>2 DEF ReachedHolds, Concluded
  <2>3. CASE call'.phase \notin Submitting
    BY <2>3 DEF ReachedHolds, Submitting
  <2> QED
    BY <1>5, <2>2, <2>3, NoCallType DEF Rests, Submitting
<1> QED
  BY <1>0, <1>1, <1>2, <1>3, <1>4, <1>5, RuntimeSteps

(* The newest observation comes last in a history, the others were in it.  *)
LEMMA Pushed ==
    ASSUME NEW h \in Seq(Observation), NEW o \in Observation
    PROVE  LET after == Push(h, o)
           IN  /\ after \in Seq(Observation)
               /\ after # <<>> => after[Len(after)] = o
               /\ \A i \in DOMAIN after :
                      after[i] = o \/ \E j \in DOMAIN h : after[i] = h[j]
<1> DEFINE after == Push(h, o)
<1>1. HistoryCapacity \in Nat /\ Len(h) \in Nat /\ DOMAIN h = 1..Len(h)
  BY RuntimeAssumption
<1>2. CASE HistoryCapacity = 0
  BY <1>2 DEF Push
<1>3. CASE HistoryCapacity # 0 /\ Len(h) < HistoryCapacity
  <2>1. after = Append(h, o)
    BY <1>3 DEF Push
  <2> QED
    BY <1>1, <2>1
<1>4. CASE HistoryCapacity # 0 /\ ~(Len(h) < HistoryCapacity)
  <2>1. after = Append(Tail(h), o) /\ h # <<>>
    BY <1>1, <1>4 DEF Push
  <2>2. /\ Tail(h) \in Seq(Observation) /\ Len(Tail(h)) = Len(h) - 1 /\ Len(Tail(h)) \in Nat
        /\ \A i \in 1..(Len(h) - 1) : Tail(h)[i] = h[i + 1] /\ i + 1 \in DOMAIN h
    BY <1>1, <2>1
  <2>3. /\ Append(Tail(h), o) \in Seq(Observation) /\ Len(Append(Tail(h), o)) = Len(Tail(h)) + 1
        /\ Append(Tail(h), o)[Len(Tail(h)) + 1] = o
        /\ \A i \in 1..Len(Tail(h)) : Append(Tail(h), o)[i] = Tail(h)[i]
        /\ DOMAIN Append(Tail(h), o) = 1..(Len(Tail(h)) + 1)
    BY <2>2
  <2>4. \A i \in DOMAIN after : i = Len(Tail(h)) + 1 \/ i \in 1..Len(Tail(h))
    BY <2>1, <2>2, <2>3
  <2> HIDE DEF after
  <2>5. \A i \in DOMAIN after : after[i] = o \/ \E j \in DOMAIN h : after[i] = h[j]
    BY <2>1, <2>2, <2>3, <2>4
  <2> QED
    BY <2>1, <2>3, <2>5 DEF after
<1> QED
  BY <1>2, <1>3, <1>4

(* The association that is cached becomes the newest of its identity.      *)
LEMMA CacheEffect ==
    ASSUME call \in CallType, WorkspaceTypeOK, Cache
    PROVE  LET a == call.associations[1]
               rest == call'.associations
               h == workspace'[a.identity].history
           IN  /\ 1 \in DOMAIN call.associations
               /\ a \in [observation: Observation, version: Nat, identity: Identity]
               /\ \A k \in DOMAIN rest : /\ k + 1 \in DOMAIN call.associations /\ k + 1 # 1
                                         /\ rest[k] = call.associations[k + 1]
               /\ \A k \in DOMAIN call.associations : k # 1 =>
                      \E l \in DOMAIN rest : rest[l] = call.associations[k]
               /\ DOMAIN workspace' = DOMAIN workspace \cup {a.identity}
               /\ \A id \in DOMAIN workspace : id # a.identity => workspace'[id] = workspace[id]
               /\ workspace'[a.identity] \in [applied: Nat, history: Seq(Observation)]
               /\ workspace'[a.identity].applied = a.version
               /\ h # <<>> => h[Len(h)] = a.observation
               /\ \A i \in DOMAIN h :
                      \/ h[i] = a.observation
                      \/ /\ a.identity \in DOMAIN workspace
                         /\ \E j \in DOMAIN workspace[a.identity].history :
                                h[i] = workspace[a.identity].history[j]
<1> DEFINE A == [observation: Observation, version: Nat, identity: Identity]
           was == call.associations
           a == was[1]
           before == Cached.history
           entry == [applied |-> a.version, history |-> Push(before, a.observation)]
<1>1. /\ was \in Seq(A) /\ was # <<>>
      /\ workspace' = Insert(workspace, Head(was).identity,
             [applied |-> Head(was).version,
              history |-> Push(Cached.history, Head(was).observation)])
      /\ call'.associations = Tail(was)
  BY DEF Cache, CallType
<1> HIDE DEF A, was
<1>2. /\ 1 \in DOMAIN was /\ a \in A /\ Head(was) = a
      /\ \A k \in DOMAIN Tail(was) : k + 1 \in DOMAIN was /\ k + 1 # 1 /\ Tail(was)[k] = was[k + 1]
      /\ \A k \in DOMAIN was : k # 1 => \E l \in DOMAIN Tail(was) : Tail(was)[l] = was[k]
  <2>1. Len(was) \in Nat /\ Len(was) # 0 /\ DOMAIN was = 1..Len(was)
    BY <1>1
  <2>2. /\ Tail(was) \in Seq(A) /\ Len(Tail(was)) = Len(was) - 1
        /\ DOMAIN Tail(was) = 1..(Len(was) - 1)
        /\ \A k \in 1..(Len(was) - 1) : Tail(was)[k] = was[k + 1]
    BY <1>1, <2>1
  <2>3. ASSUME NEW k \in DOMAIN was, k # 1
        PROVE  \E l \in DOMAIN Tail(was) : Tail(was)[l] = was[k]
    <3>1. k - 1 \in DOMAIN Tail(was) /\ Tail(was)[k - 1] = was[k]
      BY <2>1, <2>2, <2>3
    <3> QED
      BY <3>1
  <2>4. \A k \in DOMAIN Tail(was) : k + 1 \in DOMAIN was /\ k + 1 # 1 /\ Tail(was)[k] = was[k + 1]
    BY <2>1, <2>2
  <2> QED
    BY <1>1, <2>1, <2>3, <2>4
<1>3. /\ before \in Seq(Observation)
      /\ \A j \in DOMAIN before : /\ a.identity \in DOMAIN workspace
                                  /\ before = workspace[a.identity].history
  <2>1. Cached = Lookup(workspace, a.identity, [applied |-> 0, history |-> <<>>])
    BY <1>2 DEF Cached, was
  <2>2. CASE a.identity \in DOMAIN workspace
    BY <2>1, <2>2 DEF Lookup, WorkspaceTypeOK
  <2>3. CASE a.identity \notin DOMAIN workspace
    BY <2>1, <2>3 DEF Lookup
  <2> QED
    BY <2>2, <2>3
<1>4. a.observation \in Observation /\ a.version \in Nat /\ a.identity \in Identity
  BY <1>2 DEF A
<1> HIDE DEF a, before
<1>5. workspace' = Insert(workspace, a.identity, entry)
  BY <1>1, <1>2 DEF before
<1>6. /\ entry \in [applied: Nat, history: Seq(Observation)] /\ entry.applied = a.version
      /\ entry.history # <<>> => entry.history[Len(entry.history)] = a.observation
      /\ \A i \in DOMAIN entry.history :
             \/ entry.history[i] = a.observation
             \/ \E j \in DOMAIN before : entry.history[i] = before[j]
  BY <1>3, <1>4, Pushed
<1> HIDE DEF entry
<1>7. /\ DOMAIN workspace' = DOMAIN workspace \cup {a.identity} /\ workspace'[a.identity] = entry
      /\ \A id \in DOMAIN workspace : id # a.identity => workspace'[id] = workspace[id]
  BY <1>5 DEF Insert
<1>8. \A i \in DOMAIN entry.history :
          \/ entry.history[i] = a.observation
          \/ /\ a.identity \in DOMAIN workspace
             /\ \E j \in DOMAIN workspace[a.identity].history :
                    entry.history[i] = workspace[a.identity].history[j]
  BY <1>3, <1>6
<1>9. /\ \A k \in DOMAIN call'.associations :
             k + 1 \in DOMAIN was /\ k + 1 # 1 /\ call'.associations[k] = was[k + 1]
      /\ \A k \in DOMAIN was : k # 1 =>
             \E l \in DOMAIN call'.associations : call'.associations[l] = was[k]
  BY <1>1, <1>2
<1>10. /\ 1 \in DOMAIN was /\ a \in A
       /\ workspace'[a.identity] \in [applied: Nat, history: Seq(Observation)]
       /\ workspace'[a.identity].applied = a.version
       /\ workspace'[a.identity].history = entry.history
  BY <1>2, <1>6, <1>7
<1> QED
  BY <1>6, <1>7, <1>8, <1>9, <1>10 DEF A, a, was

(* Every step keeps the types of the workspace.                            *)
LEMMA WorkspaceTypeStep ==
    ASSUME call \in CallType, WorkspaceTypeOK, [RuntimeNext]_allvars
    PROVE  WorkspaceTypeOK'
<1>1. CASE workspace' = workspace
  BY <1>1 DEF WorkspaceTypeOK
<1>2. CASE workspace' = EmptyMap
  BY <1>2 DEF WorkspaceTypeOK, EmptyMap
<1>3. CASE Cache
  <2> DEFINE x == call.associations[1].identity
  <2>1. /\ x \in Identity /\ DOMAIN workspace' = DOMAIN workspace \cup {x}
        /\ \A id \in DOMAIN workspace : id # x => workspace'[id] = workspace[id]
        /\ workspace'[x] \in [applied: Nat, history: Seq(Observation)]
    BY <1>3, CacheEffect
  <2>2. \A id \in DOMAIN workspace' :
            workspace'[id] \in [applied: Nat, history: Seq(Observation)]
    BY <2>1 DEF WorkspaceTypeOK
  <2>3. workspace' = [id \in DOMAIN workspace' |-> workspace'[id]]
    BY <1>3 DEF Cache, Insert
  <2> QED
    BY <2>1, <2>2, <2>3 DEF WorkspaceTypeOK
<1> QED
  BY <1>1, <1>2, <1>3, WorkspaceSteps

(* What is assigned stays so, and the log gets no assignment but those of  *)
(* the envelope in flight.                                                 *)
LEMMA AssignedSteps ==
    ASSUME WorkInv, [RuntimeNext]_allvars
    PROVE  /\ \A o, id : AssignedAt(o, id) \subseteq AssignedAt(o, id)'
           /\ \A o, id : \A n \in AssignedAt(o, id)' :
                  \/ n \in AssignedAt(o, id)
                  \/ /\ n = version + 1 /\ inflight # None /\ inflight' = None
                     /\ version' = n /\ outcome'.result = "Committed" /\ call' = call
                     /\ \E i \in DOMAIN inflight.commands : Assigns(inflight.commands[i], id)
           /\ \A n \in DOMAIN transactions :
                  n \in DOMAIN transactions' /\ (AssignsTwice(n) => AssignsTwice(n)')
<1>0. CallInv /\ LedgerInv /\ LogConsistent /\ TableStep
  BY CallInvHolds DEF WorkInv, CallInv
<1>1. /\ version \in Nat /\ DOMAIN transactions = 1..version
      /\ \A n \in DOMAIN transactions :
             n \in DOMAIN transactions' /\ transactions'[n].envelope = transactions[n].envelope
      /\ \/ DOMAIN transactions' = DOMAIN transactions
         \/ /\ inflight # None /\ DOMAIN transactions' = 1..(version + 1)
            /\ transactions'[version + 1].envelope = inflight
  BY <1>0, LogGrows
<1>2. DOMAIN transactions' # DOMAIN transactions =>
          /\ inflight' = None /\ version' = version + 1 /\ outcome'.result = "Committed"
          /\ call' = call
  <2> SUFFICES ASSUME DOMAIN transactions' # DOMAIN transactions
               PROVE  /\ inflight' = None /\ version' = version + 1
                      /\ outcome'.result = "Committed" /\ call' = call
    OBVIOUS
  <2>1. Record
    <3>1. ~UNCHANGED log
      BY DEF log
    <3> QED
      BY <1>0, <3>1, LogSteps, ForwardStep DEF WorkInv
  <2>2. inflight # None /\ inflight' = None /\ version' = version + 1
    BY <2>1 DEF Record, next_version
  <2>3. Commits
    <3>1. ~Rests
      BY <2>2 DEF Rests, Quiet
    <3>2. ~\E e : Submits(e)
      BY <2>2 DEF Submits
    <3> QED
      BY <1>0, <3>1, <3>2, RuntimeSteps DEF CallInv
  <2> QED
    BY <1>0, <2>2, <2>3, CommitAnswers DEF Commits, runtimevars
<1>3. ASSUME NEW o, NEW id PROVE AssignedAt(o, id) \subseteq AssignedAt(o, id)'
  BY <1>1 DEF AssignedAt
<1>4. ASSUME NEW o, NEW id, NEW n \in AssignedAt(o, id)', n \notin AssignedAt(o, id)
      PROVE  /\ n = version + 1 /\ inflight # None /\ inflight' = None
             /\ version' = n /\ outcome'.result = "Committed" /\ call' = call
             /\ \E i \in DOMAIN inflight.commands : Assigns(inflight.commands[i], id)
  <2>1. /\ n \in DOMAIN transactions'
        /\ \E i \in DOMAIN transactions'[n].envelope.commands :
               /\ Assigns(transactions'[n].envelope.commands[i], id)
               /\ transactions'[n].envelope.commands[i].inference.observation = o
    BY <1>4 DEF AssignedAt
  <2>2. n \notin DOMAIN transactions
    BY <1>1, <1>4, <2>1 DEF AssignedAt
  <2>3. /\ inflight # None /\ DOMAIN transactions' = 1..(version + 1)
        /\ transactions'[version + 1].envelope = inflight
    BY <1>1, <2>1, <2>2
  <2>4. n = version + 1
    BY <1>1, <2>1, <2>2, <2>3
  <2> QED
    BY <1>2, <2>1, <2>2, <2>3, <2>4
<1>5. ASSUME NEW n \in DOMAIN transactions, AssignsTwice(n) PROVE AssignsTwice(n)'
  BY <1>1, <1>5, IdentitySteps DEF AssignsTwice
<1> QED
  BY <1>1, <1>3, <1>4, <1>5

(* The associations that are left to cache are of the newest record.  One  *)
(* that the workspace will refuse comes after another of the same identity *)
(* in that record.                                                         *)
AssociationsCached ==
    call.phase = "caching" =>
        \A k \in DOMAIN call.associations :
            LET a == call.associations[k]
            IN  /\ a.version = version /\ version \in AssignedAt(a.observation, a.identity)
                /\ \A l \in DOMAIN call.associations :
                       k # l /\ call.associations[l].identity = a.identity =>
                           AssignsTwice(version)
                /\ a.identity \in DOMAIN workspace /\ workspace[a.identity].applied >= version =>
                       AssignsTwice(version)

(* The workspace has applied no version that is not there.                 *)
AppliedPast ==
    \A id \in DOMAIN workspace :
        /\ workspace[id].applied <= version
        /\ call.phase = "resolution" => workspace[id].applied <= call.reached

(* A resolution that is in the log has the associations of its call.       *)
LEMMA ConcludedAssociates ==
    ASSUME WorkInv, AssignedKnown, AssociationsPlanned, ReachedHolds,
           call.phase = "resolution", Concluded
    PROVE  /\ version = call.reached + 1
           /\ \A k \in DOMAIN call.associations :
                  LET a == call.associations[k]
                  IN  /\ a.version = version
                      /\ version \in AssignedAt(a.observation, a.identity)
                      /\ \A l \in DOMAIN call.associations :
                             k # l /\ call.associations[l].identity = a.identity =>
                                 AssignsTwice(version)
<1>0. CallInv /\ SubmissionHolds /\ call \in CallType /\ LedgerInv /\ LogConsistent
  BY DEF WorkInv, CallInv, RuntimeTypeOK, CallTypeOK
<1>1. version = call.reached + 1
  BY DEF ReachedHolds
<1>2. version # 0 /\ transactions[version].envelope.commands = call.commands
  BY <1>0 DEF SubmissionHolds, Accepted, LastEnvelope, Submitting, Concluded
<1>3. version \in DOMAIN transactions
  <2>1. DOMAIN transactions = 1..version /\ version \in Nat
    BY <1>0, VersionsOfLog
  <2> QED
    BY <1>2, <2>1
<1>4. ASSUME NEW k \in DOMAIN call.associations
      PROVE  LET a == call.associations[k]
             IN  /\ a.version = version
                 /\ version \in AssignedAt(a.observation, a.identity)
                 /\ \A l \in DOMAIN call.associations :
                        k # l /\ call.associations[l].identity = a.identity =>
                            AssignsTwice(version)
  <2> DEFINE a == call.associations[k]
  <2>1. a.version = version /\ \E i \in DOMAIN call.commands : PlannedAt(k, i)
    BY <1>1 DEF AssociationsPlanned
  <2>2. version \in AssignedAt(a.observation, a.identity)
    BY <1>2, <1>3, <2>1 DEF AssignedAt, PlannedAt
  <2>3. ASSUME NEW l \in DOMAIN call.associations, k # l,
               call.associations[l].identity = a.identity
        PROVE  AssignsTwice(version)
    <3>1. PICK i \in DOMAIN call.commands, j \in DOMAIN call.commands :
              i # j /\ PlannedAt(k, i) /\ PlannedAt(l, j)
      BY <2>3 DEF AssociationsPlanned
    <3>2. Assigns(call.commands[i], a.identity) /\ Assigns(call.commands[j], a.identity)
      BY <2>3, <3>1 DEF PlannedAt
    <3>3. a.identity \in Identity
      <4> DEFINE A == [observation: Observation, version: Nat, identity: Identity]
      <4>1. call.associations \in Seq(A)
        BY <1>0 DEF CallType
      <4>2. a \in A
        <5> HIDE DEF A
        <5> QED
          BY <4>1
      <4> QED
        BY <4>2
    <3>4. a.identity \in DOMAIN identities
      BY <1>2, <1>3, <3>2, <3>3 DEF AssignedKnown
    <3> HIDE DEF a
    <3> QED
      BY <1>2, <3>1, <3>2, <3>4 DEF AssignsTwice
  <2> QED
    BY <2>1, <2>2, <2>3
<1> QED
  BY <1>1, <1>4

(* Every step keeps what is left to cache.                                 *)
LEMMA AssociationsCachedStep ==
    ASSUME WorkInv, WorkspaceTypeOK, AssignedKnown, AssociationsPlanned, ReachedHolds,
           AssociationsCached, AppliedPast, [RuntimeNext]_allvars
    PROVE  AssociationsCached'
<1>0. /\ CallInv /\ LedgerInv /\ LogConsistent /\ RuntimeTypeOK /\ PhaseHolds /\ AnswerHolds
      /\ call \in CallType /\ version \in Nat
  BY LogGrows DEF WorkInv, CallInv, RuntimeTypeOK, CallTypeOK
<1>1. ASSUME UNCHANGED state
      PROVE  /\ version' = version /\ \A o, id : AssignedAt(o, id)' = AssignedAt(o, id)
             /\ \A n : AssignsTwice(n)' <=> AssignsTwice(n)
  BY <1>1 DEF state, log, identity_index, AssignedAt, AssignsTwice
<1>2. CASE call'.phase # "caching"
  BY <1>2 DEF AssociationsCached
<1>3. CASE call.phase = "caching" /\ call' = call
  <2>1. UNCHANGED state /\ workspace' = workspace
    <3>1. inflight = None
      BY <1>0, <1>3 DEF PhaseHolds, Submitting
    <3>2. ~Commits
      BY <1>0, <3>1, CommitAnswers
    <3>3. ~\E e : Submits(e)
      BY <1>3 DEF Submits, Submitting
    <3>4. Rests
      BY <1>0, <3>2, <3>3, RuntimeSteps
    <3>5. workspace' = workspace
      <4>1. ~Cache
        <5> SUFFICES ASSUME Cache PROVE FALSE
          OBVIOUS
        <5>1. call.associations # <<>> /\ call'.associations = Tail(call.associations)
          BY <1>0 DEF Cache, CallType
        <5>2. call.associations \in
                  Seq([observation: Observation, version: Nat, identity: Identity])
          BY <1>0 DEF CallType
        <5>3. Len(Tail(call.associations)) # Len(call.associations)
          BY <5>1, <5>2
        <5> QED
          BY <1>3, <5>1, <5>3
      <4>2. call' # NoCall
        BY <1>3, NoCallType
      <4> QED
        BY <4>1, <4>2, WorkspaceSteps
    <3> QED
      BY <3>4, <3>5 DEF Rests, Quiet
  <2> QED
    BY <1>1, <1>3, <2>1 DEF AssociationsCached
<1>4. CASE Cache
  <2> DEFINE a == call.associations[1]
             was == call.associations
             rest == call'.associations
  <2>1. call.phase = "caching" /\ UNCHANGED state
    BY <1>0, <1>4, CallMoves DEF Moves, vars
  <2>2. /\ 1 \in DOMAIN was
        /\ \A k \in DOMAIN rest : k + 1 \in DOMAIN was /\ k + 1 # 1 /\ rest[k] = was[k + 1]
        /\ DOMAIN workspace' = DOMAIN workspace \cup {a.identity}
        /\ \A id \in DOMAIN workspace : id # a.identity => workspace'[id] = workspace[id]
    BY <1>0, <1>4, CacheEffect
  <2>3. ASSUME NEW k \in DOMAIN rest
        PROVE  /\ rest[k].version = version
               /\ version \in AssignedAt(rest[k].observation, rest[k].identity)
               /\ \A l \in DOMAIN rest :
                      k # l /\ rest[l].identity = rest[k].identity => AssignsTwice(version)
               /\ /\ rest[k].identity \in DOMAIN workspace'
                  /\ workspace'[rest[k].identity].applied >= version
                  => AssignsTwice(version)
    <3>1. k + 1 \in DOMAIN was /\ k + 1 # 1 /\ rest[k] = was[k + 1]
      BY <2>2
    <3>2. /\ was[k + 1].version = version
          /\ version \in AssignedAt(was[k + 1].observation, was[k + 1].identity)
          /\ \A l \in DOMAIN was :
                 k + 1 # l /\ was[l].identity = was[k + 1].identity => AssignsTwice(version)
          /\ /\ was[k + 1].identity \in DOMAIN workspace
             /\ workspace[was[k + 1].identity].applied >= version
             => AssignsTwice(version)
      BY <2>1, <3>1 DEF AssociationsCached
    <3>3. ASSUME NEW l \in DOMAIN rest, k # l, rest[l].identity = rest[k].identity
          PROVE  AssignsTwice(version)
      <4>1. l + 1 \in DOMAIN was /\ rest[l] = was[l + 1]
        BY <2>2
      <4>2. k + 1 # l + 1
        <5>1. rest \in Seq([observation: Observation, version: Nat, identity: Identity])
          BY <1>0, RuntimeTypeStep DEF RuntimeTypeOK, CallTypeOK, CallType, LedgerInv
        <5> QED
          BY <3>3, <5>1
      <4> QED
        BY <3>1, <3>2, <3>3, <4>1, <4>2
    <3>4. ASSUME rest[k].identity \in DOMAIN workspace',
                 workspace'[rest[k].identity].applied >= version
          PROVE  AssignsTwice(version)
      <4>1. CASE rest[k].identity = a.identity
        BY <2>2, <3>1, <3>2, <4>1
      <4>2. CASE rest[k].identity # a.identity
        BY <2>2, <3>1, <3>2, <3>4, <4>2
      <4> QED
        BY <4>1, <4>2
    <3> QED
      BY <3>1, <3>2, <3>3, <3>4
  <2>4. /\ version' = version
        /\ \A o, id : AssignedAt(o, id)' = AssignedAt(o, id)
        /\ AssignsTwice(version)' <=> AssignsTwice(version)
    BY <1>1, <2>1 DEF state, log, identity_index, AssignsTwice
  <2> QED
    BY <2>3, <2>4 DEF AssociationsCached
<1>5. CASE ResolutionCommitted
  <2>1. /\ Moves("resolution", "caching") /\ Granted /\ UNCHANGED vars
        /\ call'.associations = call.associations /\ workspace' = workspace
    BY <1>0, <1>5, CallMoves, MovesKeep
  <2>2. call.phase = "resolution" /\ Concluded
    BY <1>0, <2>1 DEF Moves, Granted, AnswerHolds, Concluded
  <2>3. /\ version' = version
        /\ \A o, id : AssignedAt(o, id)' = AssignedAt(o, id)
        /\ AssignsTwice(version)' <=> AssignsTwice(version)
    BY <2>1 DEF vars, state, log, identity_index, AssignsTwice, AssignedAt
  <2>4. ASSUME NEW k \in DOMAIN call.associations
        PROVE  LET a == call.associations[k]
               IN  /\ a.version = version /\ version \in AssignedAt(a.observation, a.identity)
                   /\ \A l \in DOMAIN call.associations :
                          k # l /\ call.associations[l].identity = a.identity =>
                              AssignsTwice(version)
                   /\ ~(/\ a.identity \in DOMAIN workspace
                        /\ workspace[a.identity].applied >= version)
    <3>1. version = call.reached + 1 /\ call.reached \in Nat
      BY <1>0, <2>2, ConcludedAssociates DEF CallType
    <3>2. \A id \in DOMAIN workspace :
              workspace[id].applied \in Nat /\ workspace[id].applied <= call.reached
      BY <2>2 DEF AppliedPast, WorkspaceTypeOK
    <3>3. \A id \in DOMAIN workspace : ~(workspace[id].applied >= version)
      BY <3>1, <3>2
    <3> QED
      BY <2>2, <3>3, ConcludedAssociates
  <2> QED
    BY <2>1, <2>3, <2>4 DEF AssociationsCached
<1>6. CASE \/ EvidenceCommitted \/ Infer \/ CommitResolutions \/ CacheDone
           \/ Deliver \/ DeliverFails \/ Confirm \/ ReceiptCommitted
  BY <1>0, <1>2, <1>6, CallMoves DEF Moves
<1>7. CASE call' = NoCall \/ \E b \in Batch : Begin(b)
  BY <1>2, <1>7, CallEnds
<1>8. ASSUME NEW m \in Materialization, Retry(m) PROVE call'.phase # "caching"
  BY <1>8 DEF Retry, NoCall
<1>9. ASSUME NEW action \in Outcome, NEW relation \in Relation \cup {None},
             Decide(action, relation)
      PROVE  call'.phase # "caching"
  BY <1>0, <1>9, DecideAdds
<1> QED
  BY <1>2, <1>3, <1>4, <1>5, <1>6, <1>7, <1>8, <1>9, CallSteps

(* Every step keeps the workspace behind the log.                          *)
LEMMA AppliedPastStep ==
    ASSUME WorkInv, WorkspaceTypeOK, AssociationsCached, AppliedPast, [RuntimeNext]_allvars
    PROVE  AppliedPast'
<1>0. /\ CallInv /\ RuntimeTypeOK /\ PhaseHolds /\ call \in CallType
      /\ version \in Nat /\ version' \in Nat /\ version <= version'
  <2>1. /\ CallInv /\ LedgerInv /\ TableStep
        /\ RuntimeTypeOK /\ PhaseHolds /\ call \in CallType
    BY CallInvHolds DEF WorkInv, CallInv, RuntimeTypeOK, CallTypeOK
  <2>2. version \in Nat
    BY <2>1, LogGrows
  <2>3. version' = version \/ version' = version + 1
    BY <2>1, LogSteps, ForwardStep DEF WorkInv, Record, log, next_version
  <2> QED
    BY <2>1, <2>2, <2>3
<1>1. CASE workspace' = EmptyMap
  BY <1>1 DEF AppliedPast, EmptyMap
<1>2. CASE workspace' = workspace
  <2>1. \A id \in DOMAIN workspace : workspace[id].applied \in Nat
    BY DEF WorkspaceTypeOK
  <2>2. \A id \in DOMAIN workspace' : workspace'[id].applied <= version'
    BY <1>0, <1>2, <2>1 DEF AppliedPast
  <2>3. CASE call'.phase # "resolution"
    BY <2>2, <2>3 DEF AppliedPast
  <2>4. CASE call' = call
    BY <1>2, <2>2, <2>4 DEF AppliedPast
  <2>5. CASE CommitResolutions
    <3>1. Moves("deciding", "resolution") /\ call'.reached = call.reached
      BY <1>0, <2>5, CallMoves, MovesKeep
    <3>2. call.reached = version
      BY <1>0, <3>1 DEF Moves, PhaseHolds
    <3> QED
      BY <1>2, <2>2, <3>1, <3>2 DEF AppliedPast
  <2>6. CASE \/ EvidenceCommitted \/ Infer \/ ResolutionCommitted \/ Cache \/ CacheDone
             \/ Deliver \/ DeliverFails \/ Confirm \/ ReceiptCommitted
    BY <1>0, <2>3, <2>6, CallMoves DEF Moves
  <2>7. CASE call' = NoCall \/ \E b \in Batch : Begin(b)
    BY <2>3, <2>7, CallEnds
  <2>8. ASSUME NEW m \in Materialization, Retry(m) PROVE call'.phase # "resolution"
    BY <2>8 DEF Retry, NoCall
  <2>9. ASSUME NEW action \in Outcome, NEW relation \in Relation \cup {None},
               Decide(action, relation)
        PROVE  call'.phase # "resolution"
    BY <1>0, <2>9, DecideAdds
  <2> QED
    BY <2>3, <2>4, <2>5, <2>6, <2>7, <2>8, <2>9, CallSteps
<1>3. CASE Cache
  <2>1. call.phase = "caching" /\ call'.phase = "caching" /\ version' = version
    BY <1>0, <1>3, CallMoves DEF Moves, vars, state, log
  <2> DEFINE a == call.associations[1]
  <2>2. /\ 1 \in DOMAIN call.associations
        /\ DOMAIN workspace' = DOMAIN workspace \cup {a.identity}
        /\ \A id \in DOMAIN workspace : id # a.identity => workspace'[id] = workspace[id]
        /\ workspace'[a.identity].applied = a.version
    BY <1>0, <1>3, CacheEffect
  <2>3. a.version = version
    BY <2>1, <2>2 DEF AssociationsCached
  <2> HIDE DEF a
  <2> QED
    BY <1>0, <2>1, <2>2, <2>3 DEF AppliedPast
<1> QED
  BY <1>1, <1>2, <1>3, WorkspaceSteps

(* While a resolution is in the log or its associations are cached the     *)
(* call ends with a refusal or with the process, if it ends.               *)
LEMMA ResolvedSteps ==
    ASSUME WorkInv, inflight = None, call.phase \in {"resolution", "caching"},
           [RuntimeNext]_allvars
    PROVE  \/ call' = call /\ UNCHANGED <<version, inflight, outcome>>
           \/ Refused \/ StaleCommit \/ Restart
           \/ ResolutionCommitted \/ Cache \/ CacheDone
<1>0. LedgerInv /\ LogConsistent
  BY DEF WorkInv, CallInv
<1>1. ~LedgerStep
  BY <1>0, CommitAnswers DEF LedgerStep, Commits
<1>2. /\ \A b : ~Begin(b) /\ ~BeginFails(b)
      /\ \A m : ~Retry(m) /\ ~RetryAnswered(m)
      /\ ~EvidenceCommitted /\ ~Infer /\ ~InferenceFails
      /\ \A action, relation : ~Decide(action, relation) /\ ~DecideExhausted(action, relation)
      /\ ~CommitResolutions /\ ~TransactionsExhausted
      /\ ~Deliver /\ ~DeliverFails /\ ~Confirm /\ ~ReceiptCommitted /\ ~Finish /\ ~RetryFails
  BY DEF Begin, BeginFails, Retry, RetryAnswered, EvidenceCommitted, Infer, InferenceFails,
     Decide, DecideExhausted, Undecided, CommitResolutions, TransactionsExhausted, AllDecided,
     Deliver, DeliverFails, Confirm, ReceiptCommitted, Finish, RetryFails, InPhase
<1>3. CASE HostStep \/ UNCHANGED allvars
  BY <1>3 DEF HostStep, allvars, runtimevars, vars, state, log, control
<1> QED
  BY <1>1, <1>2, <1>3 DEF RuntimeNext, Calls, Running

(* The next association is refused because another of the record was of    *)
(* the same identity.                                                      *)
LEMMA RefusedTwice ==
    ASSUME WorkInv, WorkspaceTypeOK, AssociationsCached, StaleCommit
    PROVE  version \in DOMAIN transactions /\ AssignsTwice(version)
<1> DEFINE A == [observation: Observation, version: Nat, identity: Identity]
           a == call.associations[1]
<1>1. /\ call.phase = "caching" /\ call.associations \in Seq(A) /\ call.associations # <<>>
      /\ ~(Head(call.associations).version > Cached.applied)
  BY DEF StaleCommit, InPhase, Fresher, WorkInv, CallInv, RuntimeTypeOK, CallTypeOK, CallType
<1>2. 1 \in DOMAIN call.associations /\ Head(call.associations) = a
  <2> HIDE DEF A
  <2> QED
    BY <1>1
<1>3. /\ a.version = version /\ version \in AssignedAt(a.observation, a.identity)
      /\ a.identity \in DOMAIN workspace /\ workspace[a.identity].applied >= version =>
             AssignsTwice(version)
  BY <1>1, <1>2 DEF AssociationsCached
<1>4. version \in DOMAIN transactions /\ version \in Nat /\ version > 0
  <2>1. DOMAIN transactions = 1..version /\ version \in Nat
    BY LogGrows, VersionsOfLog DEF WorkInv, CallInv
  <2> QED
    BY <1>3, <2>1 DEF AssignedAt
<1>5. Cached = Lookup(workspace, a.identity, [applied |-> 0, history |-> <<>>])
  BY <1>2 DEF Cached
<1> HIDE DEF a
<1>6. a.identity \in DOMAIN workspace
  BY <1>1, <1>2, <1>3, <1>4, <1>5 DEF Lookup
<1>7. Cached = workspace[a.identity] /\ workspace[a.identity].applied \in Nat
  BY <1>5, <1>6 DEF Lookup, WorkspaceTypeOK
<1> QED
  BY <1>1, <1>2, <1>3, <1>4, <1>6, <1>7

(* The association of an identity at the newest version is yet to come.    *)
ToCache(id, n) ==
    /\ n = version
    /\ call.phase = "caching" \/ (call.phase = "resolution" /\ Concluded)
    /\ \E k \in DOMAIN call.associations : call.associations[k].identity = id

(* The workspace has not fallen behind but for what is yet to come, unless *)
(* a resolution associated two observations with one identity.             *)
NotBehind ==
    (\A n \in DOMAIN transactions : ~AssignsTwice(n)) =>
        \A id \in DOMAIN workspace, o \in Observation : \A n \in AssignedAt(o, id) :
            n <= workspace[id].applied \/ ToCache(id, n)

(* Every step keeps that.                                                  *)
LEMMA NotBehindStep ==
    ASSUME WorkInv, WorkspaceTypeOK, AssociationsPlanned, AssociationsCached, NotBehind,
           [RuntimeNext]_allvars
    PROVE  NotBehind'
<1>0. /\ CallInv /\ LedgerInv /\ LogConsistent /\ PhaseHolds /\ SubmissionHolds
      /\ call \in CallType /\ version \in Nat /\ DOMAIN transactions = 1..version
  BY LogGrows, VersionsOfLog DEF WorkInv, CallInv, RuntimeTypeOK, CallTypeOK
<1> SUFFICES ASSUME \A m \in DOMAIN transactions' : ~AssignsTwice(m)',
                    NEW id \in DOMAIN workspace', NEW o \in Observation,
                    NEW n \in AssignedAt(o, id)'
             PROVE  n <= workspace'[id].applied \/ ToCache(id, n)'
  BY DEF NotBehind
<1>1. \A m \in DOMAIN transactions : ~AssignsTwice(m)
  BY AssignedSteps
<1>2. id \in Identity
  BY <1>0, WorkspaceTypeStep DEF WorkspaceTypeOK
<1>3. CASE n \notin AssignedAt(o, id)
  <2>1. /\ n = version' /\ inflight # None /\ inflight' = None
        /\ outcome'.result = "Committed" /\ call' = call
        /\ \E i \in DOMAIN inflight.commands : Assigns(inflight.commands[i], id)
    BY <1>3, AssignedSteps
  <2>2. PICK i \in DOMAIN inflight.commands : Assigns(inflight.commands[i], id)
    BY <2>1
  <2>3. call.phase = "resolution"
    <3>1. inflight.commands[i].kind = "CommitResolution"
      BY <2>2 DEF Assigns
    <3> QED
      BY <1>0, <2>1, <3>1, InflightKinds DEF WorkInv, Submitting
  <2>4. inflight.commands = call.commands
    BY <1>0, <2>1, <2>3 DEF SubmissionHolds, Accepted, LastEnvelope, Submitting
  <2>5. \E k \in DOMAIN call.associations : call.associations[k].identity = id
    BY <1>2, <2>2, <2>3, <2>4 DEF AssociationsPlanned
  <2> QED
    BY <2>1, <2>3, <2>5 DEF ToCache, Concluded
<1>4. ASSUME n \in AssignedAt(o, id), id \in DOMAIN workspace, workspace'[id] = workspace[id]
      PROVE  n <= workspace'[id].applied \/ ToCache(id, n)
  BY <1>1, <1>4 DEF NotBehind
<1>5. CASE n \in AssignedAt(o, id) /\ workspace' = workspace /\ ~Cache
  <2>1. SUFFICES ASSUME ToCache(id, n) PROVE ToCache(id, n)'
    BY <1>4, <1>5
  <2>2. /\ n = version /\ inflight = None /\ call.phase \in {"resolution", "caching"}
        /\ call.phase = "resolution" => outcome.result = "Committed"
        /\ \E k \in DOMAIN call.associations : call.associations[k].identity = id
    BY <1>0, <2>1 DEF ToCache, Concluded, PhaseHolds, Submitting
  <2>3. ~Refused
    BY <2>2 DEF Refused, InPhase, Granted
  <2>4. ~StaleCommit
    BY <1>1, RefusedTwice
  <2>5. ~Restart
    BY <1>5 DEF Restart, EmptyMap
  <2>6. ~CacheDone
    BY <2>2 DEF CacheDone
  <2>7. CASE ResolutionCommitted
    <3>1. /\ call'.phase = "caching" /\ call'.associations = call.associations
          /\ version' = version
      BY <1>0, <2>7, CallMoves, MovesKeep DEF Moves, vars, state, log
    <3> QED
      BY <2>2, <3>1 DEF ToCache
  <2>8. CASE call' = call /\ UNCHANGED <<version, inflight, outcome>>
    BY <2>1, <2>8 DEF ToCache, Concluded
  <2> QED
    BY <1>5, <2>2, <2>3, <2>4, <2>5, <2>6, <2>7, <2>8, ResolvedSteps
<1>6. CASE n \in AssignedAt(o, id) /\ Cache
  <2> DEFINE a == call.associations[1]
  <2>1. call.phase = "caching" /\ call'.phase = "caching" /\ version' = version
    BY <1>0, <1>6, CallMoves DEF Moves, vars, state, log
  <2>2. /\ 1 \in DOMAIN call.associations
        /\ \A k \in DOMAIN call.associations : k # 1 =>
               \E l \in DOMAIN call'.associations : call'.associations[l] = call.associations[k]
        /\ DOMAIN workspace' = DOMAIN workspace \cup {a.identity}
        /\ \A x \in DOMAIN workspace : x # a.identity => workspace'[x] = workspace[x]
        /\ workspace'[a.identity].applied = a.version
    BY <1>0, <1>6, CacheEffect
  <2>3. a.version = version
    BY <2>1, <2>2 DEF AssociationsCached
  <2>4. CASE id = a.identity
    <3>1. n \in 1..version
      BY <1>0, <1>6 DEF AssignedAt
    <3> HIDE DEF a
    <3> QED
      BY <1>0, <2>2, <2>3, <2>4, <3>1
  <2>5. CASE id # a.identity
    <3>1. id \in DOMAIN workspace /\ workspace'[id] = workspace[id]
      BY <2>2, <2>5
    <3>2. ASSUME ToCache(id, n) PROVE ToCache(id, n)'
      <4>1. PICK k \in DOMAIN call.associations : call.associations[k].identity = id
        BY <3>2 DEF ToCache
      <4>2. k # 1
        BY <2>5, <4>1
      <4>3. PICK l \in DOMAIN call'.associations :
                call'.associations[l] = call.associations[k]
        BY <2>2, <4>2
      <4> QED
        BY <2>1, <3>2, <4>1, <4>3 DEF ToCache
    <3> QED
      BY <1>4, <1>6, <3>1, <3>2
  <2> QED
    BY <2>4, <2>5
<1>7. CASE workspace' = EmptyMap
  BY <1>7 DEF EmptyMap
<1> QED
  BY <1>3, <1>5, <1>6, <1>7, WorkspaceSteps

(* A hot identity remembers what the log associated with it, the newest at *)
(* the version it has applied.                                             *)
RemembersLog ==
    \A id \in DOMAIN workspace :
        LET entry == workspace[id]
        IN  /\ \A i \in DOMAIN entry.history : AssignedAt(entry.history[i], id) # {}
            /\ entry.history # <<>> =>
                   entry.applied \in AssignedAt(entry.history[Len(entry.history)], id)

(* Every step keeps that.                                                  *)
LEMMA RemembersStep ==
    ASSUME WorkInv, WorkspaceTypeOK, AssociationsCached, RemembersLog, [RuntimeNext]_allvars
    PROVE  RemembersLog'
<1> DEFINE After(o, id) ==
               {n \in DOMAIN transactions' : \E i \in DOMAIN transactions'[n].envelope.commands :
                   LET c == transactions'[n].envelope.commands[i]
                   IN  Assigns(c, id) /\ c.inference.observation = o}
           Holds(id, h, n) ==
               /\ \A i \in DOMAIN h : After(h[i], id) # {}
               /\ h # <<>> => n \in After(h[Len(h)], id)
<1>0. call \in CallType
  BY DEF WorkInv, CallInv, RuntimeTypeOK, CallTypeOK
<1>1. ASSUME NEW o, NEW id PROVE AssignedAt(o, id) \subseteq After(o, id)
  BY AssignedSteps DEF AssignedAt
<1>2. ASSUME \A id \in DOMAIN workspace' :
                 Holds(id, workspace'[id].history, workspace'[id].applied)
      PROVE  RemembersLog'
  BY <1>2 DEF RemembersLog, AssignedAt
<1> HIDE DEF After
<1>3. \A id \in DOMAIN workspace : Holds(id, workspace[id].history, workspace[id].applied)
  BY <1>1 DEF RemembersLog
<1>4. CASE workspace' = workspace
  BY <1>2, <1>3, <1>4
<1>5. CASE workspace' = EmptyMap
  BY <1>2, <1>5 DEF EmptyMap
<1>6. CASE Cache
  <2> DEFINE a == call.associations[1]
             h == workspace'[a.identity].history
  <2>1. /\ 1 \in DOMAIN call.associations
        /\ DOMAIN workspace' = DOMAIN workspace \cup {a.identity}
        /\ \A id \in DOMAIN workspace : id # a.identity => workspace'[id] = workspace[id]
        /\ workspace'[a.identity].applied = a.version
        /\ h # <<>> => h[Len(h)] = a.observation
        /\ \A i \in DOMAIN h :
               \/ h[i] = a.observation
               \/ /\ a.identity \in DOMAIN workspace
                  /\ \E j \in DOMAIN workspace[a.identity].history :
                         h[i] = workspace[a.identity].history[j]
    BY <1>0, <1>6, CacheEffect
  <2>2. call.phase = "caching"
    BY <1>0, <1>6, CallMoves DEF Moves
  <2>3. a.version = version /\ version \in AssignedAt(a.observation, a.identity)
    BY <2>1, <2>2 DEF AssociationsCached
  <2>4. a.version \in After(a.observation, a.identity)
    BY <1>1, <2>3
  <2> HIDE DEF a
  <2>5. ASSUME NEW i \in DOMAIN h PROVE After(h[i], a.identity) # {}
    <3>1. CASE h[i] = a.observation
      BY <2>4, <3>1
    <3>2. ASSUME a.identity \in DOMAIN workspace,
                 NEW j \in DOMAIN workspace[a.identity].history,
                 h[i] = workspace[a.identity].history[j]
          PROVE  After(h[i], a.identity) # {}
      BY <1>3, <3>2
    <3> QED
      BY <2>1, <3>1, <3>2
  <2>6. Holds(a.identity, h, workspace'[a.identity].applied)
    BY <2>1, <2>4, <2>5
  <2> HIDE DEF Holds
  <2>7. ASSUME NEW id \in DOMAIN workspace'
        PROVE  Holds(id, workspace'[id].history, workspace'[id].applied)
    BY <1>3, <2>1, <2>6
  <2> QED
    BY <1>2, <2>7
<1> QED
  BY <1>4, <1>5, <1>6, WorkspaceSteps

(* The invariant of the workspace.                                         *)
FollowInv ==
    /\ WorkInv /\ WorkspaceTypeOK /\ AssignedKnown /\ AssociationsPlanned /\ ReachedHolds
    /\ AssociationsCached /\ AppliedPast /\ NotBehind /\ RemembersLog

(* The runtime starts with it and keeps it.                                *)
LEMMA FollowInvHolds ==
    /\ RuntimeInit => FollowInv
    /\ FollowInv /\ [RuntimeNext]_allvars => FollowInv'
<1>1. ASSUME RuntimeInit PROVE FollowInv
  <2>1. /\ call = NoCall /\ DOMAIN workspace = {} /\ workspace = EmptyMap
        /\ DOMAIN transactions = {} /\ inflight = None
    BY <1>1 DEF RuntimeInit, Init, Empty, EmptyMap
  <2>2. WorkspaceTypeOK
    BY <2>1 DEF WorkspaceTypeOK, EmptyMap
  <2>3. AssignedKnown /\ AppliedPast /\ NotBehind /\ RemembersLog
    BY <2>1 DEF AssignedKnown, AppliedPast, NotBehind, RemembersLog
  <2>4. AssociationsPlanned /\ ReachedHolds /\ AssociationsCached
    BY <2>1 DEF NoCall, AssociationsPlanned, ReachedHolds, AssociationsCached
  <2> QED
    BY <1>1, <2>2, <2>3, <2>4, WorkInvHolds DEF FollowInv
<1>2. ASSUME FollowInv, [RuntimeNext]_allvars PROVE FollowInv'
  <2>1. /\ WorkInv /\ WorkspaceTypeOK /\ AssignedKnown /\ AssociationsPlanned /\ ReachedHolds
        /\ AssociationsCached /\ AppliedPast /\ NotBehind /\ RemembersLog
    BY <1>2 DEF FollowInv
  <2>2. call \in CallType
    BY <2>1 DEF WorkInv, CallInv, RuntimeTypeOK, CallTypeOK
  <2>3. WorkInv' /\ WorkspaceTypeOK' /\ AssignedKnown' /\ AssociationsPlanned' /\ ReachedHolds'
    BY <1>2, <2>1, <2>2, WorkInvHolds, WorkspaceTypeStep, AssignedKnownStep,
       AssociationsPlannedStep, ReachedStep
  <2>4. AssociationsCached' /\ AppliedPast' /\ NotBehind' /\ RemembersLog'
    BY <1>2, <2>1, AssociationsCachedStep, AppliedPastStep, NotBehindStep, RemembersStep
  <2> QED
    BY <2>3, <2>4 DEF FollowInv
<1> QED
  BY <1>1, <1>2

(* The workspace never runs ahead of the log, and between calls is not     *)
(* behind it either, whatever was evicted from a history, refused or lost  *)
(* with a process, unless a resolution associated two observations with    *)
(* one identity.                                                           *)
THEOREM WorkspaceIsAView == RuntimeSpec => []WorkspaceFollowsLog
<1>1. ASSUME FollowInv PROVE WorkspaceFollowsLog
  <2>1. NotBehind /\ RemembersLog /\ TypeOK
    BY <1>1 DEF FollowInv, WorkInv, CallInv, LedgerInv
  <2>2. DOMAIN observations \subseteq Observation
    BY <2>1 DEF TypeOK, EvidenceTypeOK
  <2>3. ASSUME NEW id \in DOMAIN workspace, InPhase("idle"),
               \A n \in DOMAIN transactions : ~AssignsTwice(n),
               NEW o \in DOMAIN observations, NEW n \in AssignedAt(o, id)
        PROVE  n <= workspace[id].applied
    <3>1. ~ToCache(id, n)
      BY <2>3 DEF InPhase, ToCache
    <3> QED
      BY <2>1, <2>2, <2>3, <3>1 DEF NotBehind
  <2> QED
    BY <2>1, <2>3 DEF WorkspaceFollowsLog, RemembersLog
<1> QED
  BY <1>1, FollowInvHolds, PTL DEF RuntimeSpec
=============================================================================
