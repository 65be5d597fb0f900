SPECIFICATION FairSpec
CONSTANTS
    Flows = {f1, f2}
    Workers = {w1}
    None = None
    MaxContexts = 8
    Reserve = 5
    Setups <- MCSetups
INVARIANTS
    ContextsInPlace
    OnloadComplete
    SearchUndisturbed
    PduKeepsFlow
    OnePduAtATime
    NothingOutBetweenPackets
PROPERTIES
    PacketReturns
    ThreadEnds
