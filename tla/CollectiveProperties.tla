------------------------ MODULE CollectiveProperties ------------------------
(***************************************************************************)
(* What makes the collective inference right: the gated domains, the       *)
(* verdict on cycles, the exactness of what is called exact, the decision. *)
(***************************************************************************)
EXTENDS Collective

(* The domain the solver and the decision work on is, observation by       *)
(* observation, what the providers of this batch have proposed, each       *)
(* candidate once and in order, however many providers there were and      *)
(* whatever a batch that failed has left in the scratch space.             *)
DomainsGated ==
    phase \notin {"idle", "gating"} =>
        /\ Complete(candidates, batch)
        /\ \A i \in 1..batch :
              LET domain == Group(candidates, i)
              IN  /\ Ext!ToSet(domain) = proposed[i]
                  /\ \A a, b \in DOMAIN domain : a < b => domain[a] < domain[b]

-----------------------------------------------------------------------------
(* The graph of variables and factors, without the solver's bookkeeping:   *)
(* its components are the least sets of nodes, but for the empty one, that *)
(* no edge leaves.                                                         *)
Pairs(E) == {<<edges[e].variable, FactorNode(edges[e].factor)>> : e \in E}
Closed(S, E) == \A pair \in Pairs(E) : pair[1] \in S <=> pair[2] \in S
Components(E) ==
    LET closed == {S \in SUBSET Node : S # {} /\ Closed(S, E)}
    IN  {S \in closed : \A T \in closed : T \subseteq S => T = S}
Forest(E) == Cardinality(Pairs(E)) + Cardinality(Components(E)) = Cardinality(Node)

United == IF phase = "uniting" THEN {e \in DOMAIN edges : e < cursor} ELSE DOMAIN edges

(* Union-find keeps the connected components of the edges united so far,   *)
(* the size of each at its root, through compression and union by size,    *)
(* and says acyclic exactly as long as these edges make a forest.          *)
TopologyRight ==
    phase \in {"uniting", "passing", "deciding"} =>
        /\ {{y \in Node : Root(y) = Root(x)} : x \in Node} = Components(United)
        /\ \A c \in Components(United) : \A x \in c : size[Root(x)] = Cardinality(c)
        /\ acyclic <=> Forest(United)

(* solve: "Acyclic bipartite graphs run enough synchronous passes for      *)
(* exact tree marginals".  The answer is called exact if and only if the   *)
(* graph has no cycle, and then the limit of passes was enough: in the     *)
(* marginal of a variable every prior and every potential of its component *)
(* occurs, exactly once, and none of another component.                    *)
ExactIsExact ==
    phase = "deciding" =>
        /\ stopping_reason = "Exact" <=> Forest(DOMAIN edges)
        /\ stopping_reason = "Exact" =>
               \A c \in Components(DOMAIN edges) : \A v \in c \cap 1..batch :
                   Marginal(v) = [x \in Node |-> IF x \in c THEN 1 ELSE 0]

-----------------------------------------------------------------------------
RiskOf(action) == Risk(decision.loss, decision.observation, decision.masses, action)

(* The order of decide: the new identity, the candidates in canonical      *)
(* order, noise rejection, abstention.                                     *)
Precedes(v, first, second) == second # New(v) /\ (first = New(v) \/ first < second)

(* A decision has the least risk of all actions and, of those that are as  *)
(* good, comes first in the order of decide: a new identity wins a tie     *)
(* with any assignment, and caution never wins one.                        *)
LeastRisk ==
    decision # NoDecision =>
        LET v == decision.observation
            best == decision.action
        IN  /\ \A action \in Actions(v) : RiskOf(best) <= RiskOf(action)
            /\ \A action \in Actions(v) :
                  Precedes(v, action, best) => RiskOf(best) < RiskOf(action)
=============================================================================
