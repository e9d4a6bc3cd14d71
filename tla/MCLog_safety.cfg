SPECIFICATION Spec
CONSTANTS
    Procs = {p1, p2, p3}
    Blocks = {b1, b2, b3}
    Vals = {v0, v1}
    MAXOPBLOCKS = 3
    OPBLOCKS = 2
    LOGSIZE = 7
    NLog = 7
SYMMETRY Symmetric
PROPERTIES AtomicDiskSpec
