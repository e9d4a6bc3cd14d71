SPECIFICATION MCSpec
CONSTANTS
    NPROC = 3
    NCPU = 1
    UINT = 16
    MaxTickets = 4
    Sleepers = {s1, s2}
    TICKS = 4
    Args = {1, 3}
    MaxLag = 1
INVARIANTS FairShare
PROPERTIES  SleepsTicks SleepEnds
