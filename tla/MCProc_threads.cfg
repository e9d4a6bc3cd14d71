SPECIFICATION Spec
CONSTANTS
    NPROC = 4
    CPUs = {c1, c2}
    PageDirs = {d1, d2, d3, d4}
    MaxPid = 6
    KillTargets <- NoKills
    Clones = TRUE
    Discipline = TRUE
SYMMETRY Symmetric
INVARIANTS AddrSpaceAlive NoMemoryLost NoMissedExit
