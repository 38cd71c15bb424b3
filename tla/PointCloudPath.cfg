SPECIFICATION Spec
CONSTANTS
    Keys = {"a", "b"}
    Rejected = "rejected"
    MaxInputPoints = {1, 4}
    Clouds <- MCClouds
    MaxClouds = 3
    MaxPending = 2
    ChainDepth = 2
INVARIANTS TypeOK OutputIsItsSample NothingPendingWhileInactive
PROPERTIES ObservationsAscend NewestIsPublished QueueDrains
