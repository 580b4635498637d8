SPECIFICATION FairRuntimeSpec
CONSTANTS
    None = None
    Observation = {1, 2, 3}
    Inference = {1, 2, 3, 4, 5, 6}
    Decision = {1, 2, 3, 4, 5, 6}
    Materialization = {1, 2, 3, 4}
    Identity = {1, 2, 3, 4, 5}
    Target = {}
    Relation <- MCRelation
    Transaction = {1, 2, 3, 4, 5, 6}
    Key = {1, 2, 3, 4, 5, 6}
    Envelope = {}
    MaxVersion = 4
    HostNode = {"s"}
    Batch <- MCBatch
    Outcome <- MCOutcome
    LastId <- MCLastId
    HistoryCapacity = 1
    MaxRestarts = 1
INVARIANTS HostMatchesOutbox ResolvedOnce ResolutionCoversEvidence
    NeverReplayed WorkspaceFollowsLog ResultHolds
PROPERTY CallTerminates
