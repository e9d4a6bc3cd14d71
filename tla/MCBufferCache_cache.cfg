SPECIFICATION Spec
CONSTANTS
    Procs = {p1, p2}
    NoProc = NoProc
    Bufs = {k1, k2, k3}
    NoBuf = NoBuf
    Blocks = {b1, b2, b3, b4}
    NoBlock = NoBlock
    Vals = {v0, v1}
    MaxPinned = 2
SYMMETRY Symmetric
INVARIANTS BuffersCounted QueueMatchesWaiters
PROPERTY BlockStoreSpec
