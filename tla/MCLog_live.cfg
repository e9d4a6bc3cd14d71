SPECIFICATION FairSpec
CONSTANTS
    Procs = {p1, p2, p3}
    Blocks = {b1, b2, b3, b4, b5}
    Vals = {v0}
    MAXOPBLOCKS = 3
    OPBLOCKS = 2
    LOGSIZE = 6
    NLog = 6
INVARIANTS LogSpace SleeperHasWaker
PROPERTIES SleeperWoken
