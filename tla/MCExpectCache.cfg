SPECIFICATION Spec
CONSTANTS
    Pool = {f1, f2, f3, f4}
    None = None
    Ports = {1}
    Callers <- MCCallers
    MaxNodes = 2
    MaxList = 2
    MaxPrune = 1
    MaxWait = 1
SYMMETRY PoolSymmetry
INVARIANTS
    PoolShared
    FreeWhenNeeded
    PacketFlowsExpected
PROPERTIES
    ImplementsQueues
