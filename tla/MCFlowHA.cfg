SPECIFICATION Spec
CONSTANTS
    Peers = {a, b}
    Setups <- MCSetups
SYMMETRY PeerSymmetry
INVARIANTS
    TypeOK
    UdpCopiesAgree
    CriticalTold
PROPERTIES
    FailoverKept
