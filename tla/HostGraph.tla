----------------------------- MODULE HostGraph -----------------------------
(***************************************************************************)
(* AuthoritativeHostGraph of li-model: the graph that accepted decisions   *)
(* are written to.  A relation has a role, a source and a target; an edge  *)
(* also carries the decision and the commit it is for.  Edges are never    *)
(* removed, so `edges' stands for the index from materialization to edge.  *)
(***************************************************************************)
EXTENDS Indexes

CONSTANT HostNode

VARIABLES
    nodes,  \* the host nodes that are in the graph
    edges   \* materialization -> edge

hostvars == <<nodes, edges>>

HostInit == nodes = {} /\ edges = EmptyMap

AddNode(node) ==
    /\ node \notin nodes
    /\ nodes' = nodes \cup {node}
    /\ UNCHANGED edges

Edge(relation, decision, commit) ==
    [relation |-> relation, decision |-> decision, commit |-> commit]

(* materialize succeeds: the very same write was made before, or the key   *)
(* is new and both endpoints are there.                                    *)
Accepts(m, edge) ==
    IF m \in DOMAIN edges THEN edges[m] = edge
    ELSE edge.relation.source \in nodes /\ edge.relation.target \in nodes

Materialize(m, edge) ==
    /\ Accepts(m, edge)
    /\ edges' = Insert(edges, m, edge)
    /\ UNCHANGED nodes

(* The caller gets an error: the graph refused the write, or the answer of *)
(* the adapter was lost before or after it was made.                       *)
MaterializeFails(m, edge) ==
    /\ edges' \in {edges} \cup
           (IF Accepts(m, edge) THEN {Insert(edges, m, edge)} ELSE {})
    /\ UNCHANGED nodes
============================================================================
