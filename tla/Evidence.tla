------------------------------ MODULE Evidence ------------------------------
(***************************************************************************)
(* The value types of li-core that evidence and its interpretation are     *)
(* made of, by what their constructors accept: probabilities, score        *)
(* contributions, distributions and decision records.                      *)
(* Probabilities count parts of One.                                       *)
(***************************************************************************)
EXTENDS Floats, Sequences, FiniteSets, TLC

CONSTANT One   \* the probability 1

LOCAL INSTANCE SequencesExt

ASSUME EvidenceAssumption == One \in 1..MaxFinite

-----------------------------------------------------------------------------
(* Probability *)
SaturatedProbability(value) ==
    IF value = NaN \/ value <= 0 THEN 0 ELSE IF value >= One THEN One ELSE value

ProbabilityError(value) ==
    CASE ~IsFinite(value)         -> "NonFinite"
      [] ~Within(value, 0, One)   -> "OutOfRange"
      [] OTHER                    -> "None"

-----------------------------------------------------------------------------
(* ScoreContribution *)
ScoreError(value, semantics, domain) ==
    CASE ~IsFinite(value) -> "NonFinite"
      [] semantics = "CalibratedPosterior" /\ ~Within(value, 0, One) -> "PosteriorOutOfRange"
      [] domain = "" -> "EmptyValidityDomain"
      [] OTHER -> "None"

-----------------------------------------------------------------------------
(* NormalizedDistribution: entries are in the order of their outcomes,     *)
(* latent identities before known ones, new and noise.                     *)
Latent(id) == [rank |-> 1, id |-> id, snapshot |-> 0]
Known(key, snapshot) == [rank |-> 2, id |-> key, snapshot |-> snapshot]
New == [rank |-> 3, id |-> 0, snapshot |-> 0]
Noise == [rank |-> 4, id |-> 0, snapshot |-> 0]

Before(x, y) ==
    \/ x.rank < y.rank
    \/ x.rank = y.rank /\ x.id < y.id
    \/ x.rank = y.rank /\ x.id = y.id /\ x.snapshot < y.snapshot

Sorted(entries) == SortSeq(entries, LAMBDA x, y : Before(x.outcome, y.outcome))

(* The residual mass is optional; its rule may be empty. *)
Mass(entries, residual) ==
    FoldLeft(LAMBDA sum, e : sum + e.probability, 0, entries \o SetToSeq(residual))

OutcomesOf(entries) == {entries[n].outcome : n \in DOMAIN entries}

DistributionError(entries, residual) ==
    CASE \E r \in residual : r.rule = ""                       -> "EmptyTruncationRule"
      [] Cardinality(OutcomesOf(entries)) < Len(entries)       -> "DuplicateOutcome"
      [] ~({New, Noise} \subseteq OutcomesOf(entries))         -> "MissingOpenWorldOutcome"
      [] Mass(entries, residual) # One                         -> "NotNormalized"
      [] OTHER -> "None"

Distribution(entries, residual) == [entries |-> Sorted(entries), residual |-> residual]

(* DecisionRecord::new: an assignment needs its target in the domain. *)
DecisionError(action, distribution) ==
    IF action.name = "assign" /\ action.target \notin OutcomesOf(distribution.entries)
    THEN "TargetOutsideDomain" ELSE "None"
=============================================================================
