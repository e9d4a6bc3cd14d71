SPECIFICATION Spec
CONSTANTS
    NPROC = 3
    NCPU = 1
    UINT = 16
    MaxTickets = 7
INVARIANT LotteryHasWinner
