CONSTANTS
    Keys = {k1, k2, k3, k4}
    None = None
    MaxSessions = 3
    PruningTimeout = 1
    NominalTimeout = 2
    Features <- Apart
SPECIFICATION Spec
SYMMETRY KeySymmetry
INVARIANT TypeOK
INVARIANT ListsAgree
INVARIANT CurrentKept
INVARIANT RoomUnlessMixed
