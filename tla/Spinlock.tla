------------------------------ MODULE Spinlock ------------------------------
(***************************************************************************)
(* Spinlocks (Xv6-Threads/src/spinlock.c) on processors that take          *)
(* interrupts: pushcli and popcli with their nesting count, sched's saved  *)
(* intena (proc.c), the scheduler's sti, and handlers that run on the      *)
(* kernel stack they interrupt and want locks themselves. A kernel thread  *)
(* is a process or the scheduler of a processor; its stack holds one       *)
(* activation for its own code and one for each handler on top of it.      *)
(* xchg and the note of the owner in lk->cpu are one step: in between      *)
(* lk->cpu is 0, and every other processor's holding is false either way.  *)
(***************************************************************************)
EXTENDS Naturals, Sequences, FiniteSets

CONSTANTS CPUs, Procs,
          Locks, Ptable,    \* the spinlocks, ptable.lock among them
          NoCpu,
          MaxDepth          \* bound on the activations of a thread

VARIABLES
    iflag,          \* FL_IF of the processor
    ncli, intena,   \* struct cpu
    running,        \* the thread on the processor (its own name: scheduler)
    cpu,            \* lk->cpu, NoCpu while lk->locked is 0
    stack           \* activations of a thread, innermost first

vars == <<iflag, ncli, intena, running, cpu, stack>>

Threads == CPUs \cup Procs

\* at: the place in the code; lk: the lock asked for; fl: the local eflags of
\* pushcli, or intena of sched; held: the locks this activation has taken.
Activation == [at : {"sti", "run", "readeflags", "cli", "xchg", "popcli", "sched",
                     "swtch", "back", "forkret"},
               lk : Locks, fl : BOOLEAN, held : SUBSET Locks]

Fresh(where) == [at |-> where, lk |-> Ptable, fl |-> FALSE, held |-> {}]

\* The schedulers are about to enter their loop, no process has run yet.
Init ==
    /\ iflag = [c \in CPUs |-> FALSE]
    /\ ncli = [c \in CPUs |-> 0]
    /\ intena = [c \in CPUs |-> FALSE]
    /\ running = [c \in CPUs |-> c]
    /\ cpu = [l \in Locks |-> NoCpu]
    /\ stack = [t \in Threads |->
                  <<Fresh(IF t \in CPUs THEN "sti" ELSE "forkret")>>]

Top(c) == Head(stack[running[c]])

At(c, here) == Top(c).at = here

\* The innermost activation on processor c becomes a.
Becomes(c, a) == stack' = [stack EXCEPT ![running[c]] = <<a>> \o Tail(@)]

Goto(c, where) == Becomes(c, [Top(c) EXCEPT !.at = where])

InHandler(c) == Len(stack[running[c]]) > 1

\* The scheduler's own loop, not a handler on its stack.
InScheduler(c) == running[c] = c /\ ~InHandler(c)

-----------------------------------------------------------------------------
(* acquire, release                                                        *)

\* The kernel takes ptable.lock last, and at most one lock before it. The
\* scheduler takes no other.
Acquire(c, l) ==
    /\ At(c, "run") /\ Ptable \notin Top(c).held
    /\ l = Ptable \/ (Top(c).held = {} /\ ~InScheduler(c))
    /\ Becomes(c, [Top(c) EXCEPT !.at = "readeflags", !.lk = l])
    /\ UNCHANGED <<iflag, ncli, intena, running, cpu>>

ReadEflags(c) ==
    /\ At(c, "readeflags")
    /\ Becomes(c, [Top(c) EXCEPT !.at = "cli", !.fl = iflag[c]])
    /\ UNCHANGED <<iflag, ncli, intena, running, cpu>>

SavesOutermost(c) ==
    intena' = [intena EXCEPT ![c] = IF ncli[c] = 0 THEN Top(c).fl ELSE @]

Pushcli(c) ==
    /\ At(c, "cli")
    /\ iflag' = [iflag EXCEPT ![c] = FALSE]
    /\ SavesOutermost(c)
    /\ ncli' = [ncli EXCEPT ![c] = @ + 1]
    /\ Becomes(c, [Top(c) EXCEPT !.at = "xchg", !.fl = FALSE])
    /\ UNCHANGED <<running, cpu>>

\* The spinning ends: the lock was free.
Xchg(c) ==
    LET l == Top(c).lk IN
    /\ At(c, "xchg") /\ cpu[l] = NoCpu
    /\ cpu' = [cpu EXCEPT ![l] = c]
    /\ Becomes(c, [Top(c) EXCEPT !.at = "run", !.lk = Ptable, !.held = @ \cup {l}])
    /\ UNCHANGED <<iflag, ncli, intena, running>>

\* In any order: sleep releases its lk while it holds ptable.lock.
Release(c, l) ==
    /\ Top(c).at \in {"run", "back"} /\ l \in Top(c).held /\ cpu[l] = c
    /\ cpu' = [cpu EXCEPT ![l] = NoCpu]
    /\ Becomes(c, [Top(c) EXCEPT !.at = "popcli", !.held = @ \ {l}])
    /\ UNCHANGED <<iflag, ncli, intena, running>>

\* popcli without the test of ncli.
StiAtOnce(c) == intena[c]

StiAtLast(c) == ncli[c] = 1 /\ intena[c]

Popcli(c) ==
    /\ At(c, "popcli") /\ ~iflag[c] /\ ncli[c] > 0
    /\ ncli' = [ncli EXCEPT ![c] = @ - 1]
    /\ iflag' = [iflag EXCEPT ![c] = StiAtLast(c)]
    /\ Goto(c, IF InScheduler(c) THEN "sti" ELSE "run")
    /\ UNCHANGED <<intena, running, cpu>>

-----------------------------------------------------------------------------
(* sched and the scheduler                                                 *)

\* yield, sleep, exit: of a process, in a system call or in a handler.
Sched(c) ==
    /\ running[c] \in Procs /\ At(c, "run") /\ Top(c).held = {Ptable}
    /\ Goto(c, "sched")
    /\ UNCHANGED <<iflag, ncli, intena, running, cpu>>

\* sched: intena of this kernel thread is saved in a local; the scheduler
\* comes back from its own swtch.
Swtch(c) ==
    /\ At(c, "sched")
    /\ stack' = [stack EXCEPT
         ![running[c]] = <<[Top(c) EXCEPT !.at = "swtch", !.fl = intena[c]]>> \o Tail(@),
         ![c] = <<[Head(@) EXCEPT !.at = "back"]>> \o Tail(@)]
    /\ running' = [running EXCEPT ![c] = c]
    /\ UNCHANGED <<iflag, ncli, intena, cpu>>

Sti(c) == iflag' = [iflag EXCEPT ![c] = TRUE]

SchedulerSti(c) ==
    /\ At(c, "sti")
    /\ Sti(c)
    /\ Goto(c, "run")
    /\ UNCHANGED <<ncli, intena, running, cpu>>

NotRestored(c, a) == UNCHANGED intena

\* After swtch sched puts back the intena it saved; forkret has none.
Restored(c, a) ==
    intena' = [intena EXCEPT ![c] = IF a.at = "swtch" THEN a.fl ELSE @]

\* The scheduler switches to p, which runs on with ptable.lock. Which
\* processes are RUNNABLE is left open.
Dispatch(c, p) ==
    LET a == Head(stack[p]) IN
    /\ InScheduler(c) /\ At(c, "run") /\ Ptable \in Top(c).held
    /\ a.at \in {"swtch", "forkret"}
    /\ running' = [running EXCEPT ![c] = p]
    /\ Restored(c, a)
    /\ stack' = [stack EXCEPT
         ![c] = <<[Head(@) EXCEPT !.at = "swtch"]>>,
         ![p] = <<[a EXCEPT !.at = "run", !.fl = FALSE, !.held = {Ptable}]>> \o Tail(@)]
    /\ UNCHANGED <<iflag, ncli, cpu>>

-----------------------------------------------------------------------------
(* Interrupts: the gate clears IF, iret restores it.                       *)

Interrupt(c) ==
    /\ iflag[c] /\ Len(stack[running[c]]) < MaxDepth
    /\ iflag' = [iflag EXCEPT ![c] = FALSE]
    /\ stack' = [stack EXCEPT ![running[c]] = <<Fresh("run")>> \o @]
    /\ UNCHANGED <<ncli, intena, running, cpu>>

Iret(c) ==
    /\ InHandler(c) /\ At(c, "run") /\ Top(c).held = {}
    /\ iflag' = [iflag EXCEPT ![c] = TRUE]
    /\ stack' = [stack EXCEPT ![running[c]] = Tail(@)]
    /\ UNCHANGED <<ncli, intena, running, cpu>>

Next ==
    \E c \in CPUs :
        \/ \E l \in Locks : Acquire(c, l) \/ Release(c, l)
        \/ ReadEflags(c) \/ Pushcli(c) \/ Xchg(c) \/ Popcli(c)
        \/ Sched(c) \/ Swtch(c) \/ SchedulerSti(c)
        \/ \E p \in Procs : Dispatch(c, p)
        \/ Interrupt(c) \/ Iret(c)

Spec == Init /\ [][Next]_vars

-----------------------------------------------------------------------------
(* Properties                                                              *)

\* Every variable holds a value of its type; a thread runs on one processor.
TypeOK ==
    /\ iflag \in [CPUs -> BOOLEAN] /\ intena \in [CPUs -> BOOLEAN]
    /\ ncli \in [CPUs -> Nat]
    /\ running \in [CPUs -> Threads]
    /\ cpu \in [Locks -> CPUs \cup {NoCpu}]
    /\ stack \in [Threads -> Seq(Activation)]
    /\ \A t \in Threads : stack[t] # << >>

\* None of the panics of spinlock.c and sched is reached: no processor asks for a
\* lock it has ("acquire": a handler that wants the lock of the code it
\* interrupted would spin for ever), releases one it has not ("release"),
\* enables interrupts too early or too often ("popcli"), or switches with more
\* than ptable.lock held ("sched locks").
NoPanic ==
    \A c \in CPUs :
        /\ At(c, "xchg") => cpu[Top(c).lk] # c
        /\ \A l \in Top(c).held : cpu[l] = c
        /\ At(c, "popcli") => ~iflag[c] /\ ncli[c] > 0
        /\ At(c, "sched") => ncli[c] = 1 /\ ~iflag[c]

\* "if interrupts are off, then pushcli, popcli leaves them off", "intena is a
\* property of this kernel thread, not this CPU": code that holds no lock has
\* interrupts on, unless it is a handler, which has them off, so handlers do
\* not nest; on whatever processor the thread was last, and in the scheduler,
\* who would otherwise look for ever at a table nobody changes.
InterruptsRestored ==
    \A c \in CPUs :
        At(c, "run") /\ Top(c).held = {} => (iflag[c] <=> ~InHandler(c))

=============================================================================
