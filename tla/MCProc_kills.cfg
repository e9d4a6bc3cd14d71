SPECIFICATION FairSpec
CONSTANTS
    NPROC = 3
    CPUs = {c1}
    PageDirs = {d1, d2, d3}
    MaxPid = 5
    KillTargets <- KillOthers
    Clones = FALSE
    Discipline = FALSE
INVARIANTS ParentAlive
PROPERTIES OrphansReaped KilledExits WaitReturns
