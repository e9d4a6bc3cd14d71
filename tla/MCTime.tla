-------------------------------- MODULE MCTime --------------------------------
(* What the timer interrupt drives, side by side: a behaviour is one of Lottery *)
(* or of Clock, and the variables of the other part stay as they are.           *)
EXTENDS Lottery

CONSTANTS Sleepers, TICKS, Args, MaxLag

VARIABLES
    part,
    ticks, pc, killed, ticks0, n, passed, lag

Time == INSTANCE Clock WITH Procs <- Sleepers, UINT <- TICKS

lotteryvars == vars
clockvars == <<ticks, pc, killed, ticks0, n, passed, lag>>
allvars == <<part, lotteryvars, clockvars>>

NoProcesses ==
    /\ state = [p \in Slots |-> "UNUSED"] /\ tickets = [p \in Slots |-> 0]
    /\ rng = 1 /\ cpu = [c \in Cpus |-> 0]
    /\ draws = 0 /\ won = [p \in Slots |-> 0]

\* The part that does not move has one initial state.
MCInit ==
    /\ part \in {"lottery", "clock"}
    /\ Time!Init
    /\ IF part = "lottery" THEN Init /\ ticks = 0 ELSE NoProcesses

MCNext ==
    /\ \/ part = "lottery" /\ Next /\ UNCHANGED clockvars
       \/ part = "clock" /\ Time!Next /\ UNCHANGED lotteryvars
    /\ UNCHANGED part

\* The fairness of each part, when a behaviour is one of it.
MCSpec ==
    /\ MCInit /\ [][MCNext]_allvars
    /\ WF_vars(part = "lottery" /\ Schedule) /\ WF_vars(part = "lottery" /\ Preempt)
    /\ WF_clockvars(part = "clock" /\ Time!Timer)
    /\ \A p \in Sleepers : WF_clockvars(part = "clock" /\ Time!Run(p))

-----------------------------------------------------------------------------
(* The properties of Clock, which says what they mean.                          *)

\* A sleep lasts the ticks it asked for.
SleepsTicks == Time!SleepsTicks

\* A sleep ends.
SleepEnds == Time!SleepEnds
===============================================================================
