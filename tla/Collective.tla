----------------------------- MODULE Collective -----------------------------
(***************************************************************************)
(* From a batch to its decisions: the inference that process_batch runs    *)
(* between its two commits.  Providers gate candidates and emit factors,   *)
(* SumProductSolver compiles the factor graph, finds out whether it has    *)
(* cycles, and passes messages; BayesRiskPolicy decides.                   *)
(*                                                                         *)
(* Numbers are not modelled but where they come from: a message is a sum   *)
(* of log priors and log potentials, and the model keeps how often each    *)
(* prior and each potential occurs in it.                                  *)
(***************************************************************************)
EXTENDS Candidates

CONSTANTS
    BatchLength,    \* the lengths of batches
    Providers,      \* the numbers of providers
    Proposable(_),  \* the candidate groups proposed in a batch of that length
    Emittable(_),   \* the factor tables emitted for a batch of that length
    MaxFactors,     \* bound: how many tables are emitted for a batch
    MaxIterations,  \* SumProductConfig::max_iterations
    Mass,           \* probabilities are multiples of 1 / Mass
    LossModel       \* the operating points of the policy

ASSUME CollectiveAssumption ==
    /\ BatchLength \subseteq Nat \ {0} /\ IsFiniteSet(BatchLength) /\ Providers \subseteq Nat
    /\ \A n \in BatchLength :
           /\ Proposable(n) \subseteq Seq(Nat)
           /\ Emittable(n) \subseteq [variables : Seq(Nat), cardinalities : Seq(Nat)]
    /\ MaxFactors \in Nat /\ MaxIterations \in Nat \ {0} /\ Mass \in Nat \ {0}
    /\ LossModel \subseteq [assignment: Nat, new: Nat, rejection: Nat, abstention: Nat]

VARIABLES
    phase,
    batch,                \* its length
    providers, provider,  \* how many there are and which one is asked
    candidates, provider_candidates, candidate_groups, factors,  \* WorkerScratch
    edges, parent, size, acyclic,       \* SolverScratch and the topology
    variable_to_factor, factor_to_variable,
    cursor,               \* the next edge to unite, the next observation to decide
    limit, completed, converged, stopping_reason,
    decision,             \* the last decision
    proposed              \* observation -> what providers proposed for this batch

buffers == <<candidates, provider_candidates, candidate_groups, factors>>
topology == <<edges, parent, size, acyclic>>
messages == <<variable_to_factor, factor_to_variable>>
schedule == <<limit, completed, converged, stopping_reason>>
gating == <<batch, providers, provider, proposed>>
collectivevars == <<phase, buffers, topology, messages, cursor, schedule, decision, gating>>

Ext == INSTANCE SequencesExt

NoDecision == [observation |-> 0, masses |-> <<>>, loss |-> <<>>, action |-> 0]

SolverCleared ==
    /\ edges' = <<>> /\ parent' = <<>> /\ size' = <<>> /\ acyclic' = TRUE
    /\ variable_to_factor' = <<>> /\ factor_to_variable' = <<>>
    /\ cursor' = 0 /\ limit' = 0 /\ completed' = 0 /\ converged' = FALSE
    /\ stopping_reason' = "None"

CollectiveInit ==
    /\ phase = "idle" /\ batch = 0 /\ providers = 0 /\ provider = 0
    /\ candidates = EmptyBuffer /\ provider_candidates = EmptyBuffer
    /\ candidate_groups = [i \in 1..Greatest(BatchLength) |-> <<>>]
    /\ factors = <<>>
    /\ edges = <<>> /\ parent = <<>> /\ size = <<>> /\ acyclic = TRUE
    /\ variable_to_factor = <<>> /\ factor_to_variable = <<>>
    /\ cursor = 0 /\ limit = 0 /\ completed = 0 /\ converged = FALSE
    /\ stopping_reason = "None"
    /\ decision = NoDecision
    /\ proposed = <<>>

-----------------------------------------------------------------------------
(* Gating. *)

(* Fault: groups that a failed batch has left are kept. *)
GroupsResetNot(n) == candidate_groups

GroupsReset(n) ==
    [i \in DOMAIN candidate_groups |-> IF i <= n THEN <<>> ELSE candidate_groups[i]]

(* WorkerScratch::reset.  The solver's scratch is cleared here, and in the *)
(* code when the graph is compiled: nothing reads it in between.           *)
Begin(n, k) ==
    /\ phase = "idle"
    /\ phase' = "gating" /\ batch' = n /\ providers' = k /\ provider' = 1
    /\ candidates' = EmptyBuffer /\ provider_candidates' = EmptyBuffer
    /\ candidate_groups' = GroupsReset(n)
    /\ factors' = <<>>
    /\ SolverCleared
    /\ decision' = NoDecision
    /\ proposed' = [i \in 1..n |-> {}]

Fail ==
    /\ phase' = "idle"
    /\ UNCHANGED <<buffers, topology, messages, cursor, schedule, decision, gating>>

Generating == phase = "gating" /\ provider <= providers

(* The only provider writes to the solver's buffer. *)
Output == IF providers = 1 THEN candidates ELSE provider_candidates

GenerateCandidates(group) ==
    /\ Generating /\ ~Complete(Output, batch) /\ Fits(Output, group)
    /\ IF providers = 1
       THEN candidates' = Pushed(candidates, group) /\ UNCHANGED provider_candidates
       ELSE provider_candidates' = Pushed(provider_candidates, group) /\ UNCHANGED candidates
    /\ proposed' = [proposed EXCEPT ![Len(Output.offsets)] = @ \cup Ext!ToSet(group)]
    /\ UNCHANGED <<phase, candidate_groups, factors, topology, messages, cursor, schedule,
                   decision, batch, providers, provider>>

AddedGroups ==
    [i \in DOMAIN candidate_groups |->
        IF i <= batch THEN candidate_groups[i] \o Group(provider_candidates, i)
                      ELSE candidate_groups[i]]

(* The provider returns with a group for every observation.  The code      *)
(* resets provider_candidates when it turns to the next.                   *)
ProviderReturns ==
    /\ Generating /\ Complete(Output, batch)
    /\ provider' = provider + 1
    /\ IF providers = 1 THEN UNCHANGED <<provider_candidates, candidate_groups>>
       ELSE candidate_groups' = AddedGroups /\ provider_candidates' = EmptyBuffer
    /\ UNCHANGED <<phase, candidates, factors, topology, messages, cursor, schedule,
                   decision, batch, providers, proposed>>

(* The provider's own error, a group out of order, or not a group for      *)
(* every observation, or more candidates than fit.                         *)
ProviderFails == Generating /\ Fail

Aggregating == phase = "gating" /\ provider > providers /\ ~Complete(candidates, batch)

(* The groups of one observation are drained into the solver's buffer. *)
Aggregate ==
    LET i == Len(candidates.offsets)
    IN  /\ Aggregating /\ Fits(candidates, candidate_groups[i])
        /\ candidates' = Pushed(candidates, candidate_groups[i])
        /\ candidate_groups' = [candidate_groups EXCEPT ![i] = <<>>]
        /\ UNCHANGED <<phase, provider_candidates, factors, topology, messages, cursor,
                       schedule, decision, gating>>

AggregateOverflows ==
    LET i == Len(candidates.offsets)
    IN  /\ Aggregating /\ ~Fits(candidates, candidate_groups[i])
        /\ phase' = "idle"
        /\ candidates' = [candidates EXCEPT !.candidates = @ \o Canonical(candidate_groups[i])]
        /\ candidate_groups' = [candidate_groups EXCEPT ![i] = <<>>]
        /\ UNCHANGED <<provider_candidates, factors, topology, messages, cursor, schedule,
                       decision, gating>>

Gated ==
    /\ phase = "gating" /\ provider > providers /\ Complete(candidates, batch)
    /\ phase' = "factors"
    /\ UNCHANGED <<buffers, topology, messages, cursor, schedule, decision, gating>>

-----------------------------------------------------------------------------
(* Factors and the graph they make. *)
EmitFactor(table) ==
    /\ phase = "factors" /\ providers > 0
    /\ Len(factors) < MaxFactors /\ TableAccepted(table)
    /\ factors' = Append(factors, table)
    /\ UNCHANGED <<phase, candidates, provider_candidates, candidate_groups, topology,
                   messages, cursor, schedule, decision, gating>>

EmitFails == phase = "factors" /\ providers > 0 /\ Fail

States(v) == Len(Group(candidates, v)) + 2

(* One edge per place of a scope, factor by factor. *)
EdgesOf(tables) ==
    Ext!FlattenSeq([f \in DOMAIN tables |->
        [p \in DOMAIN tables[f].variables |->
            [variable |-> tables[f].variables[p], factor |-> f,
             cardinality |-> tables[f].cardinalities[p]]]])

Compilable ==
    \A e \in Ext!ToSet(EdgesOf(factors)) :
        e.variable \in 1..batch /\ e.cardinality = States(e.variable)

(* Nodes: the variables, then the factors. *)
Node == 1..(batch + Len(factors))
FactorNode(f) == batch + f
Nothing == [x \in Node |-> 0]

(* compile, and the beginning of topology *)
Compile ==
    /\ phase = "factors" /\ Compilable
    /\ phase' = "uniting" /\ cursor' = 1
    /\ edges' = EdgesOf(factors)
    /\ parent' = [x \in Node |-> x] /\ size' = [x \in Node |-> 1] /\ acyclic' = TRUE
    /\ variable_to_factor' = [e \in DOMAIN edges' |-> Nothing]
    /\ factor_to_variable' = [e \in DOMAIN edges' |-> Nothing]
    /\ UNCHANGED <<buffers, schedule, decision, gating>>

(* An edge to a variable outside the batch, or of another cardinality. *)
CompileFails == phase = "factors" /\ ~Compilable /\ Fail

(* component_root: the end of the chain of parents ... *)
Root(x) ==
    LET end[y \in Node] == IF parent[y] = y THEN y ELSE end[parent[y]] IN end[x]

Chain(x) ==
    LET nodes[y \in Node] == {y} \cup (IF parent[y] = y THEN {} ELSE nodes[parent[y]])
    IN  nodes[x]

(* ... below which the nodes of the chain are hung. *)
Compressed(S) ==
    LET nodes == UNION {Chain(x) : x \in S}
    IN  [y \in Node |-> IF y \in nodes THEN Root(y) ELSE parent[y]]

SizeAdded(low, high) == [size EXCEPT ![high] = @ + size[low]]

(* union_components of the ends of the next edge *)
Unite ==
    /\ phase = "uniting" /\ cursor \in DOMAIN edges
    /\ LET ends == {edges[cursor].variable, FactorNode(edges[cursor].factor)}
           left == Root(edges[cursor].variable)
           right == Root(FactorNode(edges[cursor].factor))
           low == IF size[left] < size[right] THEN left ELSE right
           high == IF size[left] < size[right] THEN right ELSE left
           compressed == Compressed(ends)
       IN  IF left = right
           THEN acyclic' = FALSE /\ parent' = compressed /\ UNCHANGED size
           ELSE /\ parent' = [compressed EXCEPT ![low] = high]
                /\ size' = SizeAdded(low, high)
                /\ UNCHANGED acyclic
    /\ cursor' = cursor + 1
    /\ UNCHANGED <<phase, buffers, edges, messages, schedule, decision, gating>>

(* topology_edges, by root *)
EdgesBelow(root) == {e \in DOMAIN edges : Root(edges[e].variable) = root}

(* Fault: the edges are counted by variable and not by component. *)
LargestVariable ==
    Greatest({0} \cup {Cardinality({e \in DOMAIN edges : edges[e].variable = x}) : x \in Node})

Largest == Greatest({0} \cup {Cardinality(EdgesBelow(x)) : x \in Node})

SetLimit ==
    /\ phase = "uniting" /\ cursor \notin DOMAIN edges
    /\ phase' = "passing"
    /\ parent' = Compressed({edges[e].variable : e \in DOMAIN edges})
    /\ limit' = IF acyclic THEN Largest + 1 ELSE MaxIterations
    /\ UNCHANGED <<buffers, edges, size, acyclic, messages, cursor, completed, converged,
                   stopping_reason, decision, gating>>

-----------------------------------------------------------------------------
(* Messages: how often each prior (by its variable) and each potential (by *)
(* its factor) occurs in the sum.                                          *)
SumOf(start, incoming, E) ==
    [x \in Node |-> (IF x = start THEN 1 ELSE 0) + Ext!MapThenSumSet(LAMBDA e : incoming[e][x], E)]

Others(field, e) == {o \in DOMAIN edges : o # e /\ edges[o][field] = edges[e][field]}

FactorPass ==
    [e \in DOMAIN edges |->
        SumOf(FactorNode(edges[e].factor), variable_to_factor, Others("factor", e))]

VariablePass(incoming) ==
    [e \in DOMAIN edges |-> SumOf(edges[e].variable, incoming, Others("variable", e))]

Passing == phase = "passing" /\ completed < limit /\ (acyclic \/ ~converged)

(* One iteration.  Whether the residual is within the tolerance afterwards *)
(* is left open.  Damping is off on a graph without cycles; on others the  *)
(* model keeps what the undamped messages are made of.                     *)
Iterate ==
    /\ Passing
    /\ factor_to_variable' = FactorPass
    /\ variable_to_factor' = VariablePass(factor_to_variable')
    /\ completed' = completed + 1
    /\ converged' \in BOOLEAN
    /\ UNCHANGED <<phase, buffers, topology, cursor, limit, stopping_reason, decision, gating>>

(* NoFiniteSupport: a message has no weight, or it underflows. *)
SolverFails == phase = "passing" /\ Fail

(* collect, and the diagnostics *)
Collect ==
    /\ phase = "passing" /\ ~Passing
    /\ phase' = "deciding" /\ cursor' = 1
    /\ stopping_reason' =
           IF acyclic THEN "Exact" ELSE IF converged THEN "Converged" ELSE "IterationLimit"
    /\ UNCHANGED <<buffers, topology, messages, limit, completed, converged, decision, gating>>

Marginal(v) == SumOf(v, factor_to_variable, {e \in DOMAIN edges : edges[e].variable = v})

-----------------------------------------------------------------------------
(* BayesRiskPolicy.  The outcomes for an observation are numbered as the   *)
(* solver does: its candidates, new, noise.  Action number k is the one    *)
(* that is right for outcome k; one more abstains.                         *)
New(v) == States(v) - 1
Noise(v) == States(v)
Abstain(v) == States(v) + 1
Actions(v) == 1..Abstain(v)

Distributions(v) ==
    {masses \in [1..States(v) -> 0..Mass] :
        Ext!FoldSeq(LAMBDA a, b : a + b, 0, masses) = Mass}

LossOf(loss, v, action) ==
    CASE action = New(v)     -> loss.new
      [] action = Noise(v)   -> loss.rejection
      [] OTHER               -> loss.assignment

(* expected_loss *)
Risk(loss, v, masses, action) ==
    IF action = Abstain(v) THEN loss.abstention * Mass
    ELSE LossOf(loss, v, action) * (Mass - masses[action])

(* The order in which decide looks at the actions: an action replaces the  *)
(* best so far when its risk is less.                                      *)
Considered(v) == <<New(v)>> \o [k \in 1..(States(v) - 2) |-> k] \o <<Noise(v), Abstain(v)>>

(* Fault: of two actions of the same risk the later one is taken. *)
BestLast(risk, order) ==
    LET best[k \in DOMAIN order] ==
            IF k = 1 THEN order[1]
            ELSE IF risk[order[k]] <= risk[best[k - 1]] THEN order[k] ELSE best[k - 1]
    IN  best[Len(order)]

Best(risk, order) ==
    LET best[k \in DOMAIN order] ==
            IF k = 1 THEN order[1]
            ELSE IF risk[order[k]] < risk[best[k - 1]] THEN order[k] ELSE best[k - 1]
    IN  best[Len(order)]

Decide(masses, loss) ==
    /\ phase = "deciding"
    /\ decision' = [observation |-> cursor, masses |-> masses, loss |-> loss,
                    action |-> Best([a \in Actions(cursor) |-> Risk(loss, cursor, masses, a)],
                                    Considered(cursor))]
    /\ cursor' = cursor + 1
    /\ phase' = IF cursor = batch THEN "idle" ELSE phase
    /\ UNCHANGED <<buffers, topology, messages, schedule, gating>>

-----------------------------------------------------------------------------
CollectiveNext ==
    \/ \E n \in BatchLength, k \in Providers : Begin(n, k)
    \/ \E group \in Proposable(batch) : GenerateCandidates(group)
    \/ ProviderReturns \/ ProviderFails
    \/ Aggregate \/ AggregateOverflows \/ Gated
    \/ \E table \in Emittable(batch) : EmitFactor(table)
    \/ EmitFails \/ Compile \/ CompileFails \/ Unite \/ SetLimit
    \/ Iterate \/ SolverFails \/ Collect
    \/ \E loss \in LossModel : phase = "deciding" /\
           \E masses \in Distributions(cursor) : Decide(masses, loss)

CollectiveSpec == CollectiveInit /\ [][CollectiveNext]_collectivevars
=============================================================================
