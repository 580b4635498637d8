----------------------------- MODULE MCRuntime -----------------------------
(***************************************************************************)
(* A batch of one and a batch of two over at most four commits, with one   *)
(* restart.  The one host relation is the evolution of a state into        *)
(* itself: its endpoints are one node, which may be missing at first.      *)
(***************************************************************************)
EXTENDS RuntimeProperties

Evidence(o) == [observation |-> o, supersedes |-> None]

MCBatch == {<<>>, <<Evidence(1)>>, <<Evidence(2), Evidence(3)>>}

MCOutcome ==
    {[name |-> "CreateIdentity", identity |-> None],
     [name |-> "AssignLatent", identity |-> 1],
     [name |-> "RejectNoise", identity |-> None]}

MCRelation == {[role |-> "Evolution", source |-> "s", target |-> "s"]}

MCLastId ==
    [transactions |-> 6, inferences |-> 4, decisions |-> 4, identities |-> 3,
     materializations |-> 3]
=============================================================================
