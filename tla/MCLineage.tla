----------------------------- MODULE MCLineage -----------------------------
(***************************************************************************)
(* The log and what it says of the evidence: corrections, resolutions that *)
(* are superseded, dependencies, reverts in every mode, replays, colliding *)
(* keys, stale snapshots, and identifiers that are used again.             *)
(***************************************************************************)
EXTENDS LedgerProperties

MCMaxVersion == 4
T == <<"t1", "t2", "t3", "t4", "t5">>
K == <<"k1", "k2", "k3", "k4", "k5">>
MCTransaction == {T[n] : n \in 1..5}
MCKey == {K[n] : n \in 1..5}
E == <<"e1", "e2", "e3">>

Evidence(o, old) == [kind |-> "PersistObservation", observation |-> o, supersedes |-> old]

(* Records number i, begun for version n by an envelope that may be late. *)
Resolve(n, i, o, name, id, created) ==
    [kind |-> "CommitResolution",
     inference |-> [id |-> i, observation |-> o, begin |-> n],
     decision |-> [id |-> i, inference |-> i, begin |-> n,
                   action |-> [name |-> name, identity |-> id]],
     provenance |-> TRUE, created |-> created]

Noise(n, i, o) == Resolve(n, i, o, "RejectNoise", None, None)

RevertOf(t, mode) == [kind |-> "Revert", transaction |-> t, mode |-> mode]

(* Records of transaction n are numbered 2n and 2n + 1. *)
Bodies(n) ==
    {<<Evidence("o1", None), Evidence("o2", "o1")>>,
     <<Evidence("o2", "o1"), Evidence("o1", "o2")>>,
     <<Evidence("o1", None), Noise(n, 2 * n, "o1")>>,
     <<Noise(n, 2 * n, "o1")>>,
     <<Noise(n, 2 * n, "o2")>>,
     <<Noise(n, 2 * n, "o1"), Noise(n, 2 * n + 1, "o2")>>,
     <<Noise(n, 2 * n, "o1"), Noise(n, 2 * n + 1, "o1")>>,
     <<Noise(n - 1, 2 * n, "o1")>>,
     <<Noise(n, 2 * (n - 1), "o1")>>,
     <<Evidence("o1", "o2")>>}
    \cup UNION {{<<RevertOf(T[m], "Cascade")>>,
                 <<RevertOf(T[m], "Strict"), Noise(n, 2 * n, "o1")>>,
                 <<Noise(n, 2 * n, "o1"), RevertOf(T[m], "Strict")>>} : m \in 1..(n - 1)}

Of(t, n, k, depends, body) ==
    [transaction |-> t, expected_version |-> n - 1, idempotency |-> k,
     depends_on |-> depends, commands |-> body]

(* Envelopes that declare dependencies, *)
Depends(n) ==
    {{}} \cup (IF n > 1 THEN {{T[n - 1]}} ELSE {}) \cup (IF n = 3 THEN {{"t1"}, {"t1", "t2"}} ELSE {})

Dependent(n) ==
    {<<RevertOf(T[m], "Strict")>> : m \in 1..(n - 1)}
    \cup IF n = 4 THEN {} ELSE {<<Evidence(E[n], None)>>, <<RevertOf("t1", "Compensating")>>}

(* ... one that reuses a key, one that reuses a transaction identifier, and *)
(* one that reuses both.                                                   *)
MCEnvelope ==
    UNION {{Of(T[n], n, K[n], {}, b) : b \in Bodies(n)} : n \in 1..5}
    \cup {Of("t3", 3, "k3", {"t2"}, b) : b \in Bodies(3)}
    \cup UNION {{Of(T[n], n, K[n], d, b) : d \in Depends(n), b \in Dependent(n)} : n \in 2..4}
    \cup {Of("t5", 2, "k1", {}, <<Evidence("e1", None)>>),
          Of("t1", 2, "k5", {}, <<Evidence("e1", None)>>),
          Of("t2", 2, "k2", {}, <<Evidence("e1", None)>>)}
=============================================================================
