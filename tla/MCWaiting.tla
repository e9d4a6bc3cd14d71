------------------------------ MODULE MCWaiting ------------------------------
(* Who waits in sleep, side by side: a behaviour is one of readers and writers *)
(* of a Pipe, of processes that want a SleepLock, of readers of the Console, or *)
(* of the processes of a line of the shell Sh, and the variables of the other  *)
(* parts stay as they are.                                                     *)
EXTENDS MCPipe

CONSTANTS Waiters, NoProc,
          Readers, Letters, Newline, CtrlD, INPUT_BUF, Reads,
          NPROC, NPIPE, NOFILE, Output, Behind

VARIABLES
    part,
    locked, pid, lk, ptable, lpc,
    input, r, w, e, cpc, ckilled, got, n, cout,
    spc, cmd, parent, fds, ends, left, bg, piped, failed

Lock == INSTANCE SleepLock WITH Procs <- Waiters, pc <- lpc

Cons == INSTANCE Console
    WITH Procs <- Readers, Sizes <- Reads, UINT <- 2 * INPUT_BUF,
         pc <- cpc, killed <- ckilled, out <- cout

-----------------------------------------------------------------------------
(* The lines typed: pipes of three, to and from files, lists in pipes and pipes *)
(* in the background, as parsecmd builds them.                                 *)

Exec(prog) == [type |-> "EXEC", prog |-> prog]
PipeOf(a, b) == [type |-> "PIPE", left |-> a, right |-> b]
ListOf(a, b) == [type |-> "LIST", left |-> a, right |-> b]
BackOf(a) == [type |-> "BACK", left |-> a]
Redir(a, fd) == [type |-> "REDIR", left |-> a, fd |-> fd]

Lines ==
    LET Cat == Exec("cat") Ls == Exec("ls") IN
    { PipeOf(Ls, PipeOf(Cat, Cat)),
      PipeOf(ListOf(Ls, BackOf(Ls)), Cat),
      BackOf(PipeOf(Cat, Redir(Cat, 1))),
      PipeOf(Ls, Redir(Cat, 0)),
      ListOf(Cat, Ls) }

Shell == INSTANCE Sh
    WITH Bytes <- Output, pc <- spc, p <- ends, data <- piped

-----------------------------------------------------------------------------
pipevars == vars
lockvars == <<locked, pid, lk, ptable, lpc>>
consvars == <<input, r, w, e, cpc, ckilled, got, n, cout>>
shvars == <<spc, cmd, parent, fds, ends, left, bg, piped, failed>>
allvars == <<part, pipevars, lockvars, consvars, shvars>>

\* A part that does not move has one initial state.
MCInit ==
    /\ part \in {"pipe", "sleeplock", "console", "sh"}
    /\ Init /\ Lock!Init /\ Cons!Init /\ Shell!Init
    /\ part # "pipe" =>
           /\ data = [i \in 0..PIPESIZE-1 |-> CHOOSE b \in Bytes : TRUE]
           /\ holds = [p \in Procs |-> IF p = victim THEN {"r", "w"} ELSE {}]

MCNext ==
    /\ \/ part = "pipe" /\ Next /\ UNCHANGED <<lockvars, consvars, shvars>>
       \/ part = "sleeplock" /\ Lock!Next /\ UNCHANGED <<pipevars, consvars, shvars>>
       \/ part = "console" /\ Cons!Next /\ UNCHANGED <<pipevars, lockvars, shvars>>
       \/ part = "sh" /\ Shell!Next /\ UNCHANGED <<pipevars, lockvars, consvars>>
    /\ UNCHANGED part

\* The fairness of each part, when a behaviour is one of it.
MCSpec ==
    /\ MCInit /\ [][MCNext]_allvars
    /\ \A p \in Procs : WF_vars(part = "pipe" /\ InKernel(p))
    /\ \A p \in Waiters : WF_lockvars(part = "sleeplock" /\ Lock!InKernel(p))
    /\ WF_shvars(part = "sh" /\ Shell!Work)

-----------------------------------------------------------------------------
(* The properties of SleepLock and Console, which say what they mean.          *)

\* While processes wait for a sleep-lock, one gets it.
SomebodyGetsIt == Lock!SomebodyGetsIt

\* What was entered is read once, a line at a time.
TerminalSpec == Cons!TerminalSpec

\* Readers of the console sleep only while there is nothing to read.
ReadersServed == Cons!ReadersServed

\* The shell's prompt comes back.
LineEnds == Shell!LineEnds

\* It comes back when what is not in the background is done.
ForegroundDone == Shell!ForegroundDone
=============================================================================
