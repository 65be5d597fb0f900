CONSTANTS
    Keys = {k1, k2, k3}
    None = None
    MaxSessions = 2
    PruningTimeout = 2
    NominalTimeout = 1
    Features <- Unskipped
SPECIFICATION FairSpec
PROPERTY IdleRetired
