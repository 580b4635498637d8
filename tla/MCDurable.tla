----------------------------- MODULE MCDurable -----------------------------
(***************************************************************************)
(* The host writes of MCOutbox, and splits, committed through the backend  *)
(* with write failures, crashes at every step of a commit and of the       *)
(* replay, and resubmitted envelopes.                                      *)
(***************************************************************************)
EXTENDS MCOutbox, DurableLedger

SplitOf(d) ==
    [kind |-> "Split", close_merges |-> {d}, invalidate_dependents |-> {},
     partitions |-> {[identity |-> id, observations |-> {id}] : id \in {1, 2}}]

DurableEnvelope ==
    MCEnvelope \cup
    {[transaction |-> T[n], expected_version |-> n - 1, idempotency |-> K[n],
      depends_on |-> {}, commands |-> <<SplitOf(2)>>] : n \in 3..5}
=============================================================================
