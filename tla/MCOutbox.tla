------------------------------ MODULE MCOutbox ------------------------------
(***************************************************************************)
(* Host writes: enqueued for the decision of a resolution or of a merge,   *)
(* confirmed by receipts, withdrawn by reverts, and enqueued again.        *)
(***************************************************************************)
EXTENDS LedgerProperties

MCMaxVersion == 5
T == <<"t1", "t2", "t3", "t4", "t5", "t6">>
K == <<"k1", "k2", "k3", "k4", "k5", "k6">>
MCTransaction == {T[n] : n \in 1..6}
MCKey == {K[n] : n \in 1..6}
MCDecision == 1..6

Evidence(o) == [kind |-> "PersistObservation", observation |-> o, supersedes |-> None]
Create(id) == [kind |-> "CreateIdentity", identity |-> id]
Noise(n) ==
    [kind |-> "CommitResolution",
     inference |-> [id |-> n, observation |-> 1, begin |-> n],
     decision |-> [id |-> n, inference |-> n, begin |-> n,
                   action |-> [name |-> "RejectNoise", identity |-> None]],
     provenance |-> TRUE, created |-> None]
MergeOf(d) == [kind |-> "Merge", decision |-> d, left |-> 1, right |-> 2, support |-> {}]
Enqueue(m, d) ==
    [kind |-> "EnqueueMaterialization", materialization |-> m, decision |-> d,
     relation |-> "r"]
Receipt(m, d) == [kind |-> "Materialized", materialization |-> m, decision |-> d]
RevertOf(t, mode) == [kind |-> "Revert", transaction |-> t, mode |-> mode]

Bodies(n) ==
    IF n = 1 THEN {<<Evidence(1), Create(1), Create(2), Noise(1)>>}
    ELSE {<<Enqueue("m1", 1)>>,
          <<Noise(n), Enqueue("m1", n)>>,
          <<MergeOf(n), Enqueue("m2", n)>>,
          <<Receipt("m1", 1)>>,
          <<Receipt("m1", 2), Receipt("m2", 2)>>,
          <<Enqueue("m1", 3)>>,
          <<Receipt("m1", 1), Receipt("m1", 1)>>,
          <<RevertOf("t1", "Cascade")>>}
         \cup {<<RevertOf(T[m], "Strict")>> : m \in 2..(n - 1)}
         \cup {<<Receipt("m1", 1), RevertOf("t2", "Cascade")>>}

MCEnvelope ==
    UNION {[transaction: {T[n]}, expected_version: {n - 1}, idempotency: {K[n]},
            depends_on: IF n \in {2, 3} THEN {{}, {T[n - 1]}} ELSE {{}},
            commands: Bodies(n)] : n \in 1..6}
=============================================================================
