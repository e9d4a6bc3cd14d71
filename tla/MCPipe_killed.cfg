SPECIFICATION Spec
CONSTANTS
    Procs = {p1, p2, p3}
    victim = p1
    Killable <- OnlyVictim
    Bytes = {0}
    PIPESIZE = 2
    UINT = 4
    Sizes = {1, 2, 3}
CHECK_DEADLOCK FALSE
INVARIANT ReaderWaits
