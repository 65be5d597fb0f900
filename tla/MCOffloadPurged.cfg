SPECIFICATION Spec
CONSTANTS
    Flows = {f1, f2}
    Workers = {w1, w2}
    None = None
    MaxContexts = 8
    Reserve = 5
    Setups <- EndingInFlush
INVARIANTS
    SegmentToFlush
