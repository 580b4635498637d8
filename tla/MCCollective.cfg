SPECIFICATION CollectiveSpec
CONSTANTS
    MaxCandidates = 3
    MaxTable = 9
    BatchLength = {2, 4}
    Providers = {0, 1, 2}
    Proposable <- MCProposable
    Emittable <- MCEmittable
    MaxFactors = 3
    MaxIterations = 2
    Mass = 2
    LossModel <- MCLossModel
INVARIANTS DomainsGated TopologyRight ExactIsExact LeastRisk
