------------------------------- MODULE SleepLock -------------------------------
(***************************************************************************)
(* A sleep-lock (Xv6-Threads/src/sleeplock.c) with sleep and wakeup        *)
(* (proc.c) taken apart into the steps between which other processors can  *)
(* get in: every acquire and release of the two spinlocks involved, the    *)
(* lock's own lk and ptable.lock, is a step, and so is what happens        *)
(* between them. kill may wake a sleeper at any time.                      *)
(***************************************************************************)
EXTENDS Naturals, FiniteSets

CONSTANTS Procs, NoProc

ASSUME ProcsAssumption == NoProc \notin Procs

VARIABLES
    locked, pid,    \* struct sleeplock
    lk, ptable,     \* who holds the spinlocks lk.lk and ptable.lock
    pc

vars == <<locked, pid, lk, ptable, pc>>

Init ==
    /\ locked = FALSE /\ pid = NoProc
    /\ lk = NoProc /\ ptable = NoProc
    /\ pc = [p \in Procs |-> "idle"]

At(p, here) == pc[p] = here

Goto(p, where) == pc' = [pc EXCEPT ![p] = where]

Acquire(p, lock) == lock = NoProc /\ lock' = p

Release(p, lock) == lock' = NoProc

-----------------------------------------------------------------------------
(* acquiresleep                                                            *)

AcquireSleep(p) ==
    /\ At(p, "idle")
    /\ Acquire(p, lk)
    /\ Goto(p, "test")
    /\ UNCHANGED <<locked, pid, ptable>>

ReleasesTooEarly(p) == Release(p, lk)

KeepsCondition(p) == UNCHANGED lk

\* while (lk->locked) sleep(lk, &lk->lk): sleep is entered with lk held.
TestLocked(p) ==
    /\ At(p, "test") /\ locked
    /\ KeepsCondition(p)
    /\ Goto(p, "sleep")
    /\ UNCHANGED <<locked, pid, ptable>>

Take(p) ==
    /\ locked' = TRUE
    /\ pid' = p
    /\ Release(p, lk)
    /\ Goto(p, "holding")

TestFree(p) ==
    /\ At(p, "test") /\ ~locked
    /\ Take(p)
    /\ UNCHANGED ptable

-----------------------------------------------------------------------------
(* sleep                                                                   *)

SleepPtable(p) ==
    /\ At(p, "sleep")
    /\ Acquire(p, ptable)
    /\ Goto(p, "sleep2")
    /\ UNCHANGED <<locked, pid, lk>>

SleepRelease(p) ==
    /\ At(p, "sleep2")
    /\ Release(p, lk)
    /\ Goto(p, "sleep3")
    /\ UNCHANGED <<locked, pid, ptable>>

\* p->state = SLEEPING and sched: the scheduler releases ptable.lock.
SleepSched(p) ==
    /\ At(p, "sleep3")
    /\ Release(p, ptable)
    /\ Goto(p, "asleep")
    /\ UNCHANGED <<locked, pid, lk>>

\* The scheduler takes ptable.lock and switches to p, which returns in sleep.
Dispatch(p) ==
    /\ At(p, "runnable")
    /\ Acquire(p, ptable)
    /\ Goto(p, "awake")
    /\ UNCHANGED <<locked, pid, lk>>

SleepEnd(p) ==
    /\ At(p, "awake")
    /\ Release(p, ptable)
    /\ Goto(p, "again")
    /\ UNCHANGED <<locked, pid, lk>>

IfNotWhile(p) == locked' = TRUE /\ pid' = p /\ lk' = NoProc /\ Goto(p, "holding")

BackToTest(p) == lk' = p /\ Goto(p, "test") /\ UNCHANGED <<locked, pid>>

SleepReacquire(p) ==
    /\ At(p, "again")
    /\ lk = NoProc
    /\ BackToTest(p)
    /\ UNCHANGED ptable

-----------------------------------------------------------------------------
(* releasesleep, wakeup, kill                                              *)

ReleaseSleep(p) ==
    /\ At(p, "holding")
    /\ Acquire(p, lk)
    /\ Goto(p, "unlock")
    /\ UNCHANGED <<locked, pid, ptable>>

ClearLock == locked' = FALSE /\ pid' = NoProc

Unlock(p) ==
    /\ At(p, "unlock")
    /\ ClearLock
    /\ Goto(p, "wakeup")
    /\ UNCHANGED <<lk, ptable>>

WakeupPtable(p) ==
    /\ At(p, "wakeup")
    /\ Acquire(p, ptable)
    /\ Goto(p, "wake")
    /\ UNCHANGED <<locked, pid, lk>>

WakesNobody(p) == Goto(p, "release")

\* wakeup1 makes every sleeper on the lock runnable.
WakesSleepers(p) ==
    pc' = [q \in Procs |-> IF q = p THEN "release"
                           ELSE IF pc[q] = "asleep" THEN "runnable" ELSE pc[q]]

Wakeup(p) ==
    /\ At(p, "wake")
    /\ WakesSleepers(p)
    /\ Release(p, ptable)
    /\ UNCHANGED <<locked, pid, lk>>

ReleaseLk(p) ==
    /\ At(p, "release")
    /\ Release(p, lk)
    /\ Goto(p, "idle")
    /\ UNCHANGED <<locked, pid, ptable>>

\* kill makes a sleeper runnable, under ptable.lock.
Kill(p) ==
    /\ At(p, "asleep") /\ ptable = NoProc
    /\ Goto(p, "runnable")
    /\ UNCHANGED <<locked, pid, lk, ptable>>

-----------------------------------------------------------------------------
\* What a process does once it has asked for the lock.
InKernel(p) ==
    \/ TestLocked(p) \/ TestFree(p)
    \/ SleepPtable(p) \/ SleepRelease(p) \/ SleepSched(p)
    \/ Dispatch(p) \/ SleepEnd(p) \/ SleepReacquire(p)
    \/ ReleaseSleep(p) \/ Unlock(p) \/ WakeupPtable(p) \/ Wakeup(p) \/ ReleaseLk(p)

Next == \E p \in Procs : InKernel(p) \/ AcquireSleep(p) \/ Kill(p)

Spec == Init /\ [][Next]_vars

\* A spinlock that stays free is taken, a critical section ends, a runnable
\* process is dispatched. Nothing is assumed of a spinlock that is contended.
FairSpec == Spec /\ \A p \in Procs : WF_vars(InKernel(p))

-----------------------------------------------------------------------------
(* Properties                                                              *)

Owners == {p \in Procs : pc[p] \in {"holding", "unlock"}}

HasLk(p) == pc[p] \in {"test", "sleep", "sleep2", "unlock", "wakeup", "wake",
                       "release"}

HasPtable(p) == pc[p] \in {"sleep2", "sleep3", "awake", "wake"}

\* Every variable holds a value of its C type; pid is 0 while nobody holds the
\* lock.
TypeOK ==
    /\ locked \in BOOLEAN
    /\ pid \in Procs \cup {NoProc} /\ (pid = NoProc <=> ~locked)
    /\ lk \in Procs \cup {NoProc} /\ ptable \in Procs \cup {NoProc}
    /\ pc \in [Procs -> {"idle", "test", "sleep", "sleep2", "sleep3", "asleep",
                         "runnable", "awake", "again", "holding", "unlock",
                         "wakeup", "wake", "release"}]

\* One process at a time is between acquiresleep and releasesleep, and
\* holdingsleep is true for it and for nobody else: bwrite, brelse, iderw,
\* iunlock never panic for a caller that has the lock.
Exclusive ==
    \A p \in Procs : p \in Owners <=> (locked /\ pid = p)

\* Whoever a spinlock names is at a place in the code where it has it, so a
\* process sleeps or spins with no spinlock but the ones it passes on ("sched
\* locks").
SpinlocksOwned ==
    \A p \in Procs : (HasLk(p) <=> lk = p) /\ (HasPtable(p) <=> ptable = p)

\* "We can be guaranteed that we won't miss any wakeup": who is asleep, or so
\* far into sleep that it no longer looks, has an owner left to wake it.
SleeperHasWaker ==
    (\E p \in Procs : pc[p] \in {"sleep", "sleep2", "sleep3", "asleep"}) =>
        locked \/ \E q \in Procs : pc[q] \in {"wakeup", "wake"}

\* The sleep-lock implements a lock: it never changes hands without being
\* released.
Abstract == INSTANCE Mutex WITH holder <- pid

MutexSpec == Abstract!Spec

\* While processes wait for the lock, some process gets it.
Waiting(p) == pc[p] \notin {"idle", "holding", "unlock", "wakeup", "wake", "release"}

SomebodyGetsIt ==
    (\E p \in Procs : Waiting(p)) ~> (\E p \in Procs : pc[p] = "holding")

IInv == TypeOK /\ Exclusive /\ SpinlocksOwned /\ SleeperHasWaker

=============================================================================
