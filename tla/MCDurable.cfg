SPECIFICATION FairDurableSpec
CONSTANTS
    None = None
    Observation = {1, 2}
    Inference = {1, 2, 3, 4, 5, 6}
    Decision <- MCDecision
    Materialization = {"m1", "m2"}
    Identity = {1, 2}
    Target = {}
    Relation = {"r"}
    Transaction <- MCTransaction
    Key <- MCKey
    Envelope <- DurableEnvelope
    MaxVersion <- MCMaxVersion
    Radix = 2
    Digits = 3
INVARIANTS NeverCorrupt Recovered
INVARIANTS OutboxJustified ReceiptsMatch
PROPERTIES ImplementsDurableLog CallsTerminate
