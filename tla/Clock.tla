-------------------------------- MODULE Clock --------------------------------
(***************************************************************************)
(* The tick counter: the timer interrupt (Xv6-Threads/src/trap.c) and      *)
(* sys_sleep (sysproc.c), whose int argument is compared as a uint. A      *)
(* step is a critical section of tickslock, up to a sleep; between the     *)
(* test of killed and the sleep ("doze") it is held, and only kill acts.   *)
(***************************************************************************)
EXTENDS Integers

CONSTANTS Procs,
          UINT,     \* number of values of the type uint
          Args,     \* the n that programs pass, as uints: from UINT \div 2 on negative
          MaxLag    \* ticks that pass at most until a RUNNABLE process runs

VARIABLES
    ticks,
    pc, killed,
    ticks0, n,      \* locals of sys_sleep
    passed,         \* history: ticks since the call, up to 2 * UINT
    lag             \* ticks since the process became RUNNABLE in the kernel

vars == <<ticks, pc, killed, ticks0, n, passed, lag>>

Init ==
    /\ ticks \in 0..UINT-1
    /\ pc = [p \in Procs |-> "user"] /\ killed = [p \in Procs |-> FALSE]
    /\ ticks0 = [p \in Procs |-> 0] /\ n = [p \in Procs |-> 0]
    /\ passed = [p \in Procs |-> 0] /\ lag = [p \in Procs |-> 0]

LockFree == \A p \in Procs : pc[p] # "doze"

Inside(p) == pc[p] # "user"

\* ticks++ and wakeup(&ticks), by the first processor.
Timer ==
    /\ LockFree /\ \A p \in Procs : pc[p] = "test" => lag[p] < MaxLag
    /\ ticks' = (ticks + 1) % UINT
    /\ pc' = [p \in Procs |-> IF pc[p] = "asleep" THEN "test" ELSE pc[p]]
    /\ passed' = [p \in Procs |->
                    IF Inside(p) /\ passed[p] < 2 * UINT THEN passed[p] + 1 ELSE passed[p]]
    /\ lag' = [p \in Procs |-> IF pc[p] = "test" THEN lag[p] + 1 ELSE lag[p]]
    /\ UNCHANGED <<killed, ticks0, n>>

\* sys_sleep
Sleep(p, arg) ==
    /\ ~Inside(p) /\ ~killed[p] /\ LockFree
    /\ ticks0' = [ticks0 EXCEPT ![p] = ticks]
    /\ n' = [n EXCEPT ![p] = arg]
    /\ pc' = [pc EXCEPT ![p] = "test"]
    /\ UNCHANGED <<ticks, killed, passed, lag>>

Deadline(p) == ticks < (ticks0[p] + n[p]) % UINT

NotExactly(p) == (ticks - ticks0[p]) % UINT # n[p]

\* ticks - ticks0 < n
TooEarly(p) == (ticks - ticks0[p]) % UINT < n[p]

Test(p) ==
    /\ pc[p] = "test" /\ LockFree
    /\ lag' = [lag EXCEPT ![p] = 0]
    /\ \/ /\ TooEarly(p) /\ ~killed[p]
          /\ pc' = [pc EXCEPT ![p] = "doze"]
          /\ UNCHANGED <<ticks0, n, passed>>
       \/ /\ ~TooEarly(p) \/ killed[p]
          /\ pc' = [pc EXCEPT ![p] = "user"]
          /\ ticks0' = [ticks0 EXCEPT ![p] = 0] /\ n' = [n EXCEPT ![p] = 0]
          /\ passed' = [passed EXCEPT ![p] = 0]
    /\ UNCHANGED <<ticks, killed>>

Doze(p) ==
    /\ pc[p] = "doze"
    /\ pc' = [pc EXCEPT ![p] = "asleep"]
    /\ UNCHANGED <<ticks, killed, ticks0, n, passed, lag>>

\* A killed process exits on its way out.
Kill(p) ==
    /\ ~killed[p]
    /\ killed' = [killed EXCEPT ![p] = TRUE]
    /\ pc' = [pc EXCEPT ![p] = IF @ = "asleep" THEN "test" ELSE @]
    /\ UNCHANGED <<ticks, ticks0, n, passed, lag>>

Run(p) == Test(p) \/ Doze(p)

Next ==
    \/ Timer
    \/ \E p \in Procs : Run(p) \/ Kill(p) \/ \E arg \in Args : Sleep(p, arg)

Spec == Init /\ [][Next]_vars

\* The timer goes on, and RUNNABLE processes run (within MaxLag ticks).
Fairness == WF_vars(Timer) /\ \A p \in Procs : WF_vars(Run(p))

-----------------------------------------------------------------------------
(* Properties                                                              *)

Negative(k) == k >= UINT \div 2

\* A sleep that is not killed lasts the ticks it asked for, across the wrap of the
\* counter, and no more of them than it takes to get the processor back; a
\* negative argument lasts at least as long as its value as a uint.
SleepsTicks ==
    [][\A p \in Procs :
        Inside(p) /\ ~Inside(p)' /\ ~killed[p] =>
            /\ passed[p] >= n[p]
            /\ Negative(n[p]) \/ passed[p] <= n[p] + MaxLag]_vars

\* Every sleep ends, unless its argument is negative; and that one ends when the
\* process is killed, even if kill comes just before it falls asleep.
SleepEnds ==
    \A p \in Procs : (Inside(p) /\ (~Negative(n[p]) \/ killed[p])) ~> ~Inside(p)

=============================================================================
