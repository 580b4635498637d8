SPECIFICATION Spec
CONSTANTS
    None = None
    Observation = {1}
    Inference = {1, 2, 3, 4, 5, 6}
    Decision <- MCDecision
    Materialization = {"m1", "m2"}
    Identity = {1, 2}
    Target = {}
    Relation = {"r"}
    Transaction <- MCTransaction
    Key <- MCKey
    Envelope <- MCEnvelope
    MaxVersion <- MCMaxVersion
INVARIANT ActiveEnqueuesKept
