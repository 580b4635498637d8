----------------------------- MODULE MCIdentity -----------------------------
(***************************************************************************)
(* Three identities that are merged, split, promoted, retired, put to      *)
(* sleep and woken, with reverts of any of it.                             *)
(***************************************************************************)
EXTENDS LedgerProperties

MCMaxVersion == 5
MCIdentities == 1..3
T == <<"t1", "t2", "t3", "t4", "t5", "t6">>
K == <<"k1", "k2", "k3", "k4", "k5", "k6">>
MCTransaction == {T[n] : n \in 1..6}
MCKey == {K[n] : n \in 1..6}
MCDecision == 1..11

Create(id) == [kind |-> "CreateIdentity", identity |-> id]
Change(kind, id) == [kind |-> kind, identity |-> id]
PromoteTo(id) == [kind |-> "Promote", identity |-> id, target |-> "h"]
MergeOf(d, l, r, support) ==
    [kind |-> "Merge", decision |-> d, left |-> l, right |-> r, support |-> support]
SplitOf(close, ids, invalid) ==
    [kind |-> "Split", close_merges |-> close, invalidate_dependents |-> invalid,
     partitions |-> {[identity |-> id, observations |-> {id}] : id \in ids}]
RevertOf(t, mode) == [kind |-> "Revert", transaction |-> t, mode |-> mode]
Evidence(o) == [kind |-> "PersistObservation", observation |-> o, supersedes |-> None]
Resolve(n, o, name, id, created) ==
    [kind |-> "CommitResolution",
     inference |-> [id |-> n, observation |-> o, begin |-> n],
     decision |-> [id |-> n, inference |-> n, begin |-> n,
                   action |-> [name |-> name, identity |-> id]],
     provenance |-> TRUE, created |-> created]

(* The first envelope sets the scene, with a host write that a promotion   *)
(* confirms; merges of version n are 2n, 2n + 1.                           *)
Scene == {<<Evidence(1), Evidence(2), Evidence(3), Create(1), Create(2),
            Resolve(1, 3, "CreateIdentity", None, 3),
            [kind |-> "EnqueueMaterialization", materialization |-> "m", decision |-> 1,
             relation |-> "r"]>>}

Pairs == {<<1, 2>>, <<3, 2>>, <<1, 3>>}

Bodies(n) ==
    {<<MergeOf(2 * n, p[1], p[2], {})>> : p \in Pairs}
    \cup {<<MergeOf(2 * n, 1, 2, {1}), MergeOf(2 * n + 1, 2, 3, {2 * n})>>,
          <<MergeOf(2 * n, 2, 3, {}), Change("Dormant", 3)>>}
    \cup {<<SplitOf({2 * m}, {1, 2}, {T[k] : k \in (m + 1)..(n - 1)})>> : m \in 2..(n - 1)}
    \cup {<<SplitOf({2 * m, 2 * m + 1}, {2, 3}, {})>> : m \in 2..(n - 1)}
    \cup {<<RevertOf(T[m], "Cascade")>> : m \in 2..(n - 1)}
    \cup {<<Change("Dormant", 2)>>, <<Change("Reactivate", 2)>>,
          <<Change("Dormant", 1), Change("Reactivate", 1), Change("Retire", 1)>>,
          <<SplitOf({}, {1, 2}, {}), Change("Dormant", 3)>>,
          <<PromoteTo(3),
            [kind |-> "Materialized", materialization |-> "m", decision |-> 1]>>, <<Resolve(n, 1, "AssignLatent", 2, None)>>}

(* The last envelope finds no version left. *)
MCEnvelope ==
    UNION {[transaction: {T[n]}, expected_version: {n - 1}, idempotency: {K[n]},
            depends_on: IF n = 3 THEN {{}, {"t2"}} ELSE {{}},
            commands: CASE n = 1 -> Scene [] n = 6 -> {<<Change("Dormant", 2)>>}
                       [] OTHER -> Bodies(n)] : n \in 1..6}
=============================================================================
