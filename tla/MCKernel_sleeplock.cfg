SPECIFICATION MCSpec
CONSTANTS
    Procs = {p1, p2, p3, p4}
    Users = {u1, u2}
    NoProc = NoProc
    CPUs = {c1, c2}
    Locks = {pt, dev}
    Ptable = pt
    NoCpu = NoCpu
    MaxDepth = 3
    NINODES = 3
    Names = {"a", "b"}
    NFILE = 3
    NOFILE = 2
    Pipes = {a1}
    Inodes = {i1, i2}
    OpenFiles = {f1, f2}
    NoOpenFile = NoOpenFile
    Vals = {1, 2}
    NDIRECT = 1
    NINDIRECT = 2
    NBLOCKS = 5
    Lengths = {4}
    CHUNK = 3
    NPROC = 3
    NPAGES = 14
    MaxSize = 3
    Steps = {2}
    HEAP = 12
    MORE = 3
    Requests = {2, 3, 4}
    MAXCMDS = 2
    BUFLINES = 2
CHECK_DEADLOCK FALSE
SYMMETRY Symmetric
INVARIANTS SleeperHasWaker NoPanic InterruptsRestored LinksCounted FreedWhenUnused CircleNeedsIput FilesAccounted BlocksOwned  SizeIsMapped HeapSound OneLineAtATime
PROPERTIES MutexSpec FilesSpec
