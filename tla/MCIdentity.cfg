SPECIFICATION Spec
CONSTANTS
    None = None
    Observation = {1, 2, 3}
    Inference = {1, 2, 3, 4, 5}
    Decision <- MCDecision
    Materialization = {"m"}
    Identity <- MCIdentities
    Target = {"h"}
    Relation = {"r"}
    Transaction <- MCTransaction
    Key <- MCKey
    Envelope <- MCEnvelope
    MaxVersion <- MCMaxVersion
INVARIANTS TypeOK CanonicalIsLeast MembersAreMerged OpenMergesJustified ValidationHolds
PROPERTIES MergeHistoryFrozen
