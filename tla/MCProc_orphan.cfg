SPECIFICATION FairSpec
CONSTANTS
    NPROC = 3
    CPUs = {c1}
    PageDirs = {d1, d2}
    MaxPid = 6
    KillTargets <- NoKills
    Clones = TRUE
    Discipline = FALSE
PROPERTIES OrphanThreadsReaped
