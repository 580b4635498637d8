SPECIFICATION Spec
CONSTANTS
    None = None
    Observation = {"o1", "o2", "e1", "e2", "e3"}
    Inference = {0, 1, 2, 3, 4, 5, 6, 7, 8, 9, 10, 11}
    Decision = {0, 1, 2, 3, 4, 5, 6, 7, 8, 9, 10, 11}
    Materialization = {}
    Identity = {}
    Target = {}
    Relation = {}
    Transaction <- MCTransaction
    Key <- MCKey
    Envelope <- MCEnvelope
    MaxVersion <- MCMaxVersion
INVARIANT DecisionAsOfUnique
