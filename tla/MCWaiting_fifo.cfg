SPECIFICATION MCSpec
CONSTANTS
    Procs = {p1, p2}
    victim = p1
    Killable <- OnlyVictim
    Bytes = {0, 1}
    PIPESIZE = 2
    UINT = 4
    Sizes = {1, 3}
    Waiters = {w1, w2, w3}
    NoProc = NoProc
    Readers = {c1, c2}
    Letters = {a}
    Newline = nl
    CtrlD = eof
    INPUT_BUF = 3
    Reads = {2}
    NPROC = 6
    NPIPE = 2
    NOFILE = 7
    Output = 3
    Behind = 0
CHECK_DEADLOCK FALSE
INVARIANTS SleepersWait ReadersServed ForegroundDone
PROPERTIES FifoSpec OtherEndSeen SomebodyGetsIt TerminalSpec LineEnds
