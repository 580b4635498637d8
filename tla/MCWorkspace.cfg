SPECIFICATION Spec
CONSTANTS
    Identity = {a, b}
    Time = {1, 2}
    Provider = {"p"}
    HistoryCapacity = 2
    MaxAssociations = 3
    MaxTurns = 2
SYMMETRY Symmetry
INVARIANT HistoryFollowsLog
PROPERTY NothingLost
