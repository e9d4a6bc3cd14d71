SPECIFICATION Spec
CONSTANTS
    NPROC = 3
    CPUs = {c1, c2}
    PageDirs = {d1, d2, d3}
    MaxPid = 6
    KillTargets <- NoKills
    Clones = TRUE
    Discipline = FALSE
SYMMETRY Symmetric
INVARIANTS AddrSpaceAlive
