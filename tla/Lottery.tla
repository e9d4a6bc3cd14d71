-------------------------------- MODULE Lottery --------------------------------
(***************************************************************************)
(* The lottery scheduler (Xv6-Lottery/src/proc.c): tickets of processes,   *)
(* the draw of a winner with krand in machine integers, and how many time  *)
(* slices each process has won. What processes do besides (fork, exit,     *)
(* sleep, settickets) only changes who takes part.                         *)
(***************************************************************************)
EXTENDS Integers, FiniteSets, FiniteSetsExt

CONSTANTS NPROC, NCPU,
          UINT,         \* number of values of an unsigned int: 2^32
          MaxTickets    \* largest argument of settickets

ASSUME SizeAssumption ==
    /\ NPROC \in Nat \ {0} /\ NCPU \in Nat \ {0}
    /\ UINT \in Nat /\ UINT % 2 = 0
    /\ MaxTickets \in 1..(UINT \div 2) - 1

VARIABLES state, tickets,   \* struct proc
          rng,              \* the state of krand
          cpu,              \* cpu.proc, 0 while the scheduler looks
          draws, won        \* since the participants last changed (one period
                            \* of krand at most): draws, and those each won

vars == <<state, tickets, rng, cpu, draws, won>>

Slots == 1..NPROC

Cpus == 1..NCPU

Init ==
    /\ state = [p \in Slots |-> IF p = 1 THEN "RUNNABLE" ELSE "UNUSED"]
    /\ tickets = [p \in Slots |-> IF p = 1 THEN 1 ELSE 0]
    /\ rng = 1
    /\ cpu = [c \in Cpus |-> 0]
    /\ draws = 0
    /\ won = [p \in Slots |-> 0]

-----------------------------------------------------------------------------
(* Machine integers                                                        *)

\* The int with the bits of the unsigned int u.
ToInt(u) == IF u < UINT \div 2 THEN u ELSE u - UINT

ToUnsigned(i) == i % UINT

NoIncrement(r) == (r * (1664525 % UINT)) % UINT

\* rng = rng * 1664525 + 1013904223
Krand(r) == (r * (1664525 % UINT) + (1013904223 % UINT)) % UINT

-----------------------------------------------------------------------------
(* The draw                                                                *)

Runnable == {p \in Slots : state[p] = "RUNNABLE"}

\* The tickets of a set of processes, added up in an int.
TicketSum(S) == ToInt(ToUnsigned(MapThenSumSet(LAMBDA p : tickets[p], S)))

Total == TicketSum(Runnable)


\* cumulative, once p's tickets are in it, exceeds winner.
Reaches(p, winner) ==
    TicketSum({q \in Runnable : q <= p}) > winner

\* The processes at which the loop would stop, the first one if any.
Stops(r) ==
    LET winner == ToInt(r % ToUnsigned(Total))
    IN {p \in Runnable : Reaches(p, winner)}

IsFirst(p, S) == p \in S /\ \A q \in S : p <= q

Dispatch(c, p) ==
    /\ state' = [state EXCEPT ![p] = "RUNNING"]
    /\ cpu' = [cpu EXCEPT ![c] = p]

\* After a whole period of krand the bookkeeping starts again.
Count(p) ==
    LET over == draws = UINT
    IN /\ draws' = IF over THEN 1 ELSE draws + 1
       /\ won' = [q \in Slots |-> (IF over THEN 0 ELSE won[q]) + (IF q = p THEN 1 ELSE 0)]

\* One turn of the scheduler's loop that finds a winner.
Draw(c) ==
    /\ cpu[c] = 0 /\ Total # 0
    /\ rng' = Krand(rng)
    /\ \E p \in Slots :
           /\ IsFirst(p, Stops(rng'))
           /\ Dispatch(c, p)
           /\ Count(p)
    /\ UNCHANGED tickets

\* No process is reached: the number is drawn in vain.
DrawInVain(c) ==
    /\ cpu[c] = 0 /\ Total # 0
    /\ rng' = Krand(rng)
    /\ Stops(rng') = {}
    /\ UNCHANGED <<state, tickets, cpu, draws, won>>

-----------------------------------------------------------------------------
(* What processes do                                                       *)

FreeCpu(p) == cpu' = [c \in Cpus |-> IF cpu[c] = p THEN 0 ELSE cpu[c]]

Leave(p, s) ==
    /\ state[p] = "RUNNING"
    /\ state' = [state EXCEPT ![p] = s]
    /\ FreeCpu(p)

\* The participants change.
Recount == draws' = 0 /\ won' = [p \in Slots |-> 0]

Yield(p) ==
    /\ Leave(p, "RUNNABLE")
    /\ UNCHANGED <<tickets, rng, draws, won>>

\* "n < 1" returns -1 and changes nothing.
SetTickets(p, n) ==
    /\ state[p] = "RUNNING" /\ n # tickets[p]
    /\ tickets' = [tickets EXCEPT ![p] = n]
    /\ Recount
    /\ UNCHANGED <<state, rng, cpu>>

InheritTickets(p, child) == tickets' = [tickets EXCEPT ![child] = tickets[p]]

Fork(p, child) ==
    /\ state[p] = "RUNNING"
    /\ IsFirst(child, {q \in Slots : state[q] = "UNUSED"})
    /\ state' = [state EXCEPT ![child] = "RUNNABLE"]
    /\ InheritTickets(p, child)
    /\ Recount
    /\ UNCHANGED <<rng, cpu>>

Sleep(p) ==
    /\ Leave(p, "SLEEPING")
    /\ Recount
    /\ UNCHANGED <<tickets, rng>>

Wakeup(p) ==
    /\ state[p] = "SLEEPING"
    /\ state' = [state EXCEPT ![p] = "RUNNABLE"]
    /\ Recount
    /\ UNCHANGED <<tickets, rng, cpu>>

\* exit, and wait by the parent; the first process does not exit.
Exit(p) ==
    /\ p # 1
    /\ Leave(p, "UNUSED")
    /\ Recount
    /\ tickets' = [tickets EXCEPT ![p] = 0]
    /\ UNCHANGED rng

-----------------------------------------------------------------------------
Schedule == \E c \in Cpus : Draw(c) \/ DrawInVain(c)

Preempt == \E p \in Slots : Yield(p)

Changes ==
    \E p \in Slots :
        \/ \E n \in 1..MaxTickets : SetTickets(p, n)
        \/ \E child \in Slots : Fork(p, child)
        \/ Sleep(p) \/ Wakeup(p) \/ Exit(p)

Next == Schedule \/ Preempt \/ Changes

Spec == Init /\ [][Next]_vars

\* The scheduler's loop runs, and the timer ends every time slice.
FairSpec == Spec /\ WF_vars(Schedule) /\ WF_vars(Preempt)

-----------------------------------------------------------------------------
(* Properties                                                              *)

\* "Each time slice, a randomized lottery determines the winner": whatever
\* number krand returns, a lottery with participants has a winner.
LotteryHasWinner ==
    Runnable # {} => Total # 0 /\ \A r \in 0..UINT-1 : Stops(r) # {}

\* What the scheduler may rely on: the tickets of those who compete add up
\* within an int.
Competing == {p \in Slots : state[p] \in {"RUNNABLE", "RUNNING"}}

AllTickets == MapThenSumSet(LAMBDA p : tickets[p], Competing)

Fits == AllTickets < UINT \div 2

\* "The more tickets a process has, the more it runs": over a whole period of
\* krand each ticket wins the floor or the ceiling of its share of the draws.
FairShare ==
    draws = UINT /\ NCPU = 1 /\ Fits =>
        \A p \in Competing :
            /\ won[p] >= tickets[p] * (UINT \div AllTickets)
            /\ won[p] <= tickets[p] * ((UINT + AllTickets - 1) \div AllTickets)

\* When processes have settled (only compute), with tickets that fit, each of
\* them keeps running.
Settled == <>[][Schedule \/ Preempt]_vars


=============================================================================
