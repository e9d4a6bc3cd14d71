---------------------------- MODULE SleepLockProofs ----------------------------
(***************************************************************************)
(* Proofs about the sleep-lock, for any number of processes: it excludes,  *)
(* it implements Mutex, and no sleeper is forgotten.                       *)
(***************************************************************************)
EXTENDS SleepLock, TLAPS

LEMMA InitEstablishes == Init => IInv
BY ProcsAssumption
   DEF Init, IInv, TypeOK, Exclusive, SpinlocksOwned, SleeperHasWaker, Owners,
       HasLk, HasPtable

\* The steps of acquiresleep, the sleep in it included.
LEMMA AcquireSteps ==
    ASSUME IInv, NEW p \in Procs,
           \/ AcquireSleep(p) \/ TestLocked(p) \/ TestFree(p)
           \/ SleepPtable(p) \/ SleepRelease(p) \/ SleepSched(p)
           \/ Dispatch(p) \/ SleepEnd(p) \/ SleepReacquire(p) \/ Kill(p)
    PROVE  IInv'
<1> USE ProcsAssumption DEF IInv, At, Goto, Acquire, Release
<1>1. CASE AcquireSleep(p)
  BY <1>1 DEF AcquireSleep, TypeOK, Exclusive, SpinlocksOwned, SleeperHasWaker,
              Owners, HasLk, HasPtable
<1>2. CASE TestLocked(p)
  BY <1>2 DEF TestLocked, KeepsCondition, TypeOK, Exclusive, SpinlocksOwned,
              SleeperHasWaker, Owners, HasLk, HasPtable
<1>3. CASE TestFree(p)
  BY <1>3 DEF TestFree, Take, TypeOK, Exclusive, SpinlocksOwned,
              SleeperHasWaker, Owners, HasLk, HasPtable
<1>4. CASE SleepPtable(p)
  BY <1>4 DEF SleepPtable, TypeOK, Exclusive, SpinlocksOwned, SleeperHasWaker,
              Owners, HasLk, HasPtable
<1>5. CASE SleepRelease(p)
  BY <1>5 DEF SleepRelease, TypeOK, Exclusive, SpinlocksOwned,
              SleeperHasWaker, Owners, HasLk, HasPtable
<1>6. CASE SleepSched(p)
  BY <1>6 DEF SleepSched, TypeOK, Exclusive, SpinlocksOwned, SleeperHasWaker,
              Owners, HasLk, HasPtable
<1>7. CASE Dispatch(p)
  BY <1>7 DEF Dispatch, TypeOK, Exclusive, SpinlocksOwned, SleeperHasWaker,
              Owners, HasLk, HasPtable
<1>8. CASE SleepEnd(p)
  BY <1>8 DEF SleepEnd, TypeOK, Exclusive, SpinlocksOwned, SleeperHasWaker,
              Owners, HasLk, HasPtable
<1>9. CASE SleepReacquire(p)
  BY <1>9 DEF SleepReacquire, BackToTest, TypeOK, Exclusive, SpinlocksOwned,
              SleeperHasWaker, Owners, HasLk, HasPtable
<1>10. CASE Kill(p)
  BY <1>10 DEF Kill, TypeOK, Exclusive, SpinlocksOwned, SleeperHasWaker,
               Owners, HasLk, HasPtable
<1> QED BY <1>1, <1>2, <1>3, <1>4, <1>5, <1>6, <1>7, <1>8, <1>9, <1>10

\* The steps of releasesleep, the wakeup in it included.
LEMMA ReleaseSteps ==
    ASSUME IInv, NEW p \in Procs,
           \/ ReleaseSleep(p) \/ Unlock(p) \/ WakeupPtable(p) \/ Wakeup(p)
           \/ ReleaseLk(p)
    PROVE  IInv'
<1> USE ProcsAssumption DEF IInv, At, Goto, Acquire, Release
<1>1. CASE ReleaseSleep(p)
  BY <1>1 DEF ReleaseSleep, TypeOK, Exclusive, SpinlocksOwned, SleeperHasWaker,
              Owners, HasLk, HasPtable
<1>2. CASE Unlock(p)
  BY <1>2 DEF Unlock, ClearLock, TypeOK, Exclusive, SpinlocksOwned,
              SleeperHasWaker, Owners, HasLk, HasPtable
<1>3. CASE WakeupPtable(p)
  BY <1>3 DEF WakeupPtable, TypeOK, Exclusive, SpinlocksOwned, SleeperHasWaker,
              Owners, HasLk, HasPtable
<1>4. CASE Wakeup(p)
  <2>1. TypeOK' /\ Exclusive' /\ SpinlocksOwned'
    BY <1>4 DEF Wakeup, WakesSleepers, TypeOK, Exclusive, SpinlocksOwned,
                Owners, HasLk, HasPtable
  \* p has both spinlocks, so nobody is between its test and its sleep.
  <2>2. \A q \in Procs : pc'[q] \notin {"sleep", "sleep2", "sleep3", "asleep"}
    BY <1>4 DEF Wakeup, WakesSleepers, TypeOK, SpinlocksOwned, HasLk, HasPtable
  <2> QED BY <2>1, <2>2 DEF SleeperHasWaker
<1>5. CASE ReleaseLk(p)
  BY <1>5 DEF ReleaseLk, TypeOK, Exclusive, SpinlocksOwned, SleeperHasWaker,
              Owners, HasLk, HasPtable
<1> QED BY <1>1, <1>2, <1>3, <1>4, <1>5

LEMMA NextPreserves == IInv /\ [Next]_vars => IInv'
<1> SUFFICES ASSUME IInv, [Next]_vars PROVE IInv'
  OBVIOUS
<1>1. ASSUME NEW p \in Procs, InKernel(p) \/ AcquireSleep(p) \/ Kill(p) PROVE IInv'
  BY <1>1, AcquireSteps, ReleaseSteps DEF InKernel
<1>2. CASE UNCHANGED vars
  BY <1>2 DEF vars, IInv, TypeOK, Exclusive, SpinlocksOwned, SleeperHasWaker,
              Owners, HasLk, HasPtable
<1> QED BY <1>1, <1>2 DEF Next

\* In every reachable state of the sleep-lock the inductive invariant holds.
THEOREM Invariance == Spec => []IInv
<1>1. Init => IInv
  BY InitEstablishes
<1>2. IInv /\ [Next]_vars => IInv'
  BY NextPreserves
<1> QED BY <1>1, <1>2, PTL DEF Spec

\* acquiresleep excludes, and holdingsleep (sleeplock.c:44) answers yes to the
\* one process between acquiresleep and releasesleep.
THEOREM Exclusion == Spec => []Exclusive
<1>1. IInv => Exclusive
  BY DEF IInv
<1> QED BY <1>1, Invariance, PTL

\* No wakeup is missed between the test of lk->locked and the sleep
\* (proc.c:524-529).
THEOREM NobodyForgotten == Spec => []SleeperHasWaker
<1>1. IInv => SleeperHasWaker
  BY DEF IInv
<1> QED BY <1>1, Invariance, PTL

LEMMA StepRefines == IInv /\ [Next]_vars => [Abstract!Next]_pid
<1> SUFFICES ASSUME IInv, [Next]_vars PROVE Abstract!Next \/ UNCHANGED pid
  OBVIOUS
<1>1. ASSUME NEW p \in Procs, TestFree(p) PROVE Abstract!Next
  BY <1>1 DEF IInv, TypeOK, TestFree, Take, Abstract!Next, Abstract!Take
<1>2. ASSUME NEW p \in Procs, Unlock(p) PROVE Abstract!Next
  BY <1>2, ProcsAssumption
     DEF IInv, TypeOK, Exclusive, Owners, At, Unlock, ClearLock, Abstract!Next,
         Abstract!Give
<1>3. ASSUME NEW p \in Procs, InKernel(p) \/ AcquireSleep(p) \/ Kill(p),
             ~TestFree(p), ~Unlock(p)
      PROVE  UNCHANGED pid
  BY <1>3 DEF InKernel, AcquireSleep, Kill, TestLocked, SleepPtable,
              SleepRelease, SleepSched, Dispatch, SleepEnd, SleepReacquire,
              BackToTest, ReleaseSleep, WakeupPtable, Wakeup, ReleaseLk
<1>4. CASE UNCHANGED vars
  BY <1>4 DEF vars
<1> QED BY <1>1, <1>2, <1>3, <1>4 DEF Next

\* The sleep-lock implements a lock, whoever sleeps, is woken or killed.
THEOREM Refinement == Spec => MutexSpec
<1>1. Init => Abstract!Init
  BY DEF Init, Abstract!Init
<1>2. IInv /\ [Next]_vars => [Abstract!Next]_pid
  BY StepRefines
<1> QED BY <1>1, <1>2, Invariance, PTL DEF Spec, MutexSpec, Abstract!Spec

================================================================================
