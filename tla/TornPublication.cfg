SPECIFICATION Spec
CONSTANTS
    Producer = {"a", "b"}
    Publisher = {"p", "q"}
    Capacity = 2
    BatchSize = 2
    MaxItems = 2
    MaxPublications = 3
INVARIANTS PublishedTogether
