------------------------------ MODULE ProcProofs ------------------------------
(***************************************************************************)
(* For every number of table entries and CPUs, every set of kill targets,  *)
(* and programs that clone, kill and fault as they like: the process table *)
(* keeps its types, no parent pointer outlives its process, and no parent  *)
(* sleeps through the exit of a child.                                     *)
(***************************************************************************)
EXTENDS Proc, TLAPS

LEMMA InitInSlots == InitProc \in Slots /\ Null \notin Slots
BY NPROCAssumption DEF Slots, InitProc, Null

\* userinit leaves the table in a state of the inductive invariant.
LEMMA InitEstablishes == Init => IInv
<1> SUFFICES ASSUME Init PROVE IInv
  OBVIOUS
<1>1. TypeOK
  BY InitInSlots DEF Init, TypeOK, States, Counters, Null
<1>2. ParentAlive /\ InitAlive /\ FreeHasNoParent /\ NotOwnParent
      /\ InitHasNoParent /\ SleepersWait
  BY InitInSlots DEF Init, ParentAlive, InitAlive, FreeHasNoParent,
     NotOwnParent, InitHasNoParent, SleepersWait, Active
<1>3. ForkInProgress /\ NoMissedExit
  BY InitInSlots DEF Init, ForkInProgress, NoMissedExit, Active, Creating
<1> QED BY <1>1, <1>2, <1>3 DEF IInv

\* The system calls that take a new entry.
LEMMA AllocStep ==
    ASSUME IInv, NEW p \in Slots, NEW next \in Creating,
           next \in {"forkstack", "clonestack"}, InUser(p), AllocProc(p, next),
           UNCHANGED <<cproc, newdir, inuse, shell, panicked>>
    PROVE  IInv'
<1>1. CASE AllocFails(p)
  BY <1>1, InitInSlots
     DEF IInv, TypeOK, ParentAlive, InitAlive, ForkInProgress, FreeHasNoParent,
         NotOwnParent, InitHasNoParent, NoMissedExit, SleepersWait, Active,
         Counters, Creating, Zombies, ThreadsOf, ProcessesOf, AllocProc,
         AllocFails, Goto, AfterFailure, InUser, At
<1>2. ASSUME NEW q \in Slots, state[q] = "UNUSED", AllocEntry(p, q, next)
      PROVE  IInv'
  <2>1. TypeOK'
    BY <1>2 DEF IInv, TypeOK, States, Counters, Creating, AllocProc, AllocEntry,
                NextPid, Goto
  <2>2. ParentAlive' /\ InitAlive' /\ FreeHasNoParent' /\ NotOwnParent'
        /\ InitHasNoParent' /\ SleepersWait'
    BY <1>2, InitInSlots
       DEF IInv, TypeOK, ParentAlive, InitAlive, FreeHasNoParent, NotOwnParent,
           InitHasNoParent, SleepersWait, Active, AllocProc, AllocEntry, Goto,
           InUser, At
  <2>3. ForkInProgress'
    BY <1>2, InitInSlots
       DEF IInv, TypeOK, ForkInProgress, FreeHasNoParent, Active, Creating,
           AllocProc, AllocEntry, Goto, InUser, At
  <2>4. NoMissedExit'
    BY <1>2, InitInSlots
       DEF IInv, TypeOK, NoMissedExit, FreeHasNoParent, Zombies, ThreadsOf,
           ProcessesOf, AllocProc, AllocEntry, Goto, InUser, At
  <2> QED BY <2>1, <2>2, <2>3, <2>4 DEF IInv
<1> QED BY <1>1, <1>2 DEF AllocProc, Free

LEMMA AllocStackStep ==
    ASSUME IInv, NEW p \in Slots, NEW from, NEW to, AllocStack(p, from, to),
           \/ from = "forkstack" /\ to = "forkcopy"
           \/ from = "clonestack" /\ to = "clonecopy"
    PROVE  IInv'
<1>1. TypeOK'
  <2>1. np[p] \in Slots
    BY DEF IInv, ForkInProgress, Active, Creating, AllocStack, At
  <2>2. CASE kstack' = [kstack EXCEPT ![np[p]] = TRUE] /\ Goto(p, to)
             /\ UNCHANGED <<state, np>>
    BY <2>1, <2>2 DEF IInv, TypeOK, Counters, AllocStack, Goto
  <2>3. CASE state' = [state EXCEPT ![np[p]] = "UNUSED"]
             /\ np' = [np EXCEPT ![p] = Null] /\ Goto(p, AfterFailure(p))
             /\ UNCHANGED kstack
    BY <2>1, <2>3
       DEF IInv, TypeOK, States, Counters, Null, AllocStack, Goto, AfterFailure
  <2> QED BY <2>2, <2>3 DEF AllocStack
<1>2. ParentAlive' /\ InitAlive' /\ ForkInProgress'
  BY InitInSlots
     DEF IInv, TypeOK, ParentAlive, InitAlive, ForkInProgress, FreeHasNoParent,
         NotOwnParent, InitHasNoParent, Active, Creating, Zombies, ThreadsOf,
         ProcessesOf, AllocStack, At, Goto, AfterFailure
<1>3. FreeHasNoParent' /\ NotOwnParent' /\ InitHasNoParent' /\ SleepersWait'
  BY InitInSlots
     DEF IInv, TypeOK, InitAlive, ForkInProgress, FreeHasNoParent,
         NotOwnParent, InitHasNoParent, SleepersWait, Active, Creating,
         Zombies, ThreadsOf, ProcessesOf, AllocStack, At, Goto,
         AfterFailure
<1>4. NoMissedExit'
  BY InitInSlots
     DEF IInv, TypeOK, ForkInProgress, FreeHasNoParent, NotOwnParent,
         InitAlive, NoMissedExit, SleepersWait, Active, Creating, Zombies,
         ThreadsOf, ProcessesOf, AllocStack, At, Goto, AfterFailure
<1> QED BY <1>1, <1>2, <1>3, <1>4 DEF IInv

LEMMA ForkCopyStep ==
    ASSUME IInv, NEW p \in Slots, ForkCopy(p) PROVE IInv'
BY InitInSlots
   DEF IInv, TypeOK, ParentAlive, InitAlive, ForkInProgress, FreeHasNoParent,
       NotOwnParent, InitHasNoParent, NoMissedExit, SleepersWait, Active,
       Creating, States, Counters, Null, Zombies, ThreadsOf, ProcessesOf,
       ForkCopy, At, Goto

LEMMA ForkNoMemoryStep ==
    ASSUME IInv, NEW p \in Slots, ForkNoMemory(p) PROVE IInv'
BY InitInSlots
   DEF IInv, TypeOK, ParentAlive, InitAlive, ForkInProgress, FreeHasNoParent,
       NotOwnParent, InitHasNoParent, NoMissedExit, SleepersWait, Active,
       Creating, States, Counters, Null, Zombies, ThreadsOf, ProcessesOf,
       ForkNoMemory, At, Goto, AfterFailure

LEMMA CloneCopyStep ==
    ASSUME IInv, NEW p \in Slots, CloneCopy(p) PROVE IInv'
BY InitInSlots
   DEF IInv, TypeOK, ParentAlive, InitAlive, ForkInProgress, FreeHasNoParent,
       NotOwnParent, InitHasNoParent, NoMissedExit, SleepersWait, Active,
       Creating, States, Counters, Null, Zombies, ThreadsOf, ProcessesOf,
       CloneCopy, At, Goto

LEMMA ForkRunStep ==
    ASSUME IInv, NEW p \in Slots, ForkRun(p) PROVE IInv'
BY InitInSlots
   DEF IInv, TypeOK, ParentAlive, InitAlive, ForkInProgress, FreeHasNoParent,
       NotOwnParent, InitHasNoParent, NoMissedExit, SleepersWait, Active,
       Creating, States, Counters, Null, Zombies, ThreadsOf, ProcessesOf,
       ForkRun, MakeRunnable, At

LEMMA CloneRunStep ==
    ASSUME IInv, NEW p \in Slots, CloneRun(p) PROVE IInv'
BY InitInSlots
   DEF IInv, TypeOK, ParentAlive, InitAlive, ForkInProgress, FreeHasNoParent,
       NotOwnParent, InitHasNoParent, NoMissedExit, SleepersWait, Active,
       Creating, States, Counters, Null, Zombies, ThreadsOf, ProcessesOf,
       CloneRun, MakeRunnable, At

LEMMA ExecBuildStep ==
    ASSUME IInv, NEW p \in Slots, ExecBuild(p) PROVE IInv'
BY InitInSlots
   DEF IInv, TypeOK, ParentAlive, InitAlive, ForkInProgress, FreeHasNoParent,
       NotOwnParent, InitHasNoParent, NoMissedExit, SleepersWait, Active,
       Creating, States, Counters, Null, Zombies, ThreadsOf, ProcessesOf,
       ExecBuild, InUser, At, Goto, table

LEMMA ExecCommitStep ==
    ASSUME IInv, NEW p \in Slots, ExecCommit(p) PROVE IInv'
BY InitInSlots
   DEF IInv, TypeOK, ParentAlive, InitAlive, ForkInProgress, FreeHasNoParent,
       NotOwnParent, InitHasNoParent, NoMissedExit, SleepersWait, Active,
       Creating, States, Counters, Null, Zombies, ThreadsOf, ProcessesOf,
       ExecCommit, Commit, FreeVm, At, Goto

LEMMA WaitCallStep ==
    ASSUME IInv, NEW p \in Slots, WaitCall(p) PROVE IInv'
BY InitInSlots
   DEF IInv, TypeOK, ParentAlive, InitAlive, ForkInProgress, FreeHasNoParent,
       NotOwnParent, InitHasNoParent, NoMissedExit, SleepersWait, Active,
       Creating, States, Counters, Null, Zombies, ThreadsOf, ProcessesOf,
       WaitCall, InUser, At, Goto, table

LEMMA JoinCallStep ==
    ASSUME IInv, NEW p \in Slots, JoinCall(p) PROVE IInv'
BY InitInSlots
   DEF IInv, TypeOK, ParentAlive, InitAlive, ForkInProgress, FreeHasNoParent,
       NotOwnParent, InitHasNoParent, NoMissedExit, SleepersWait, Active,
       Creating, States, Counters, Null, Zombies, ThreadsOf, ProcessesOf,
       JoinCall, InUser, At, Goto, table

LEMMA WaitReapStep ==
    ASSUME IInv, NEW p \in Slots, WaitReap(p) PROVE IInv'
<1>1. TypeOK'
  BY InitInSlots
     DEF IInv, TypeOK, ForkInProgress, Active, Creating, States, Counters,
         Null, Zombies, ThreadsOf, ProcessesOf, WaitReap, Reap, FreeVm, At,
         Goto
<1>2. ParentAlive' /\ InitAlive' /\ ForkInProgress'
  BY InitInSlots
     DEF IInv, TypeOK, ParentAlive, InitAlive, ForkInProgress, FreeHasNoParent,
         NotOwnParent, InitHasNoParent, Active, Creating, Zombies, ThreadsOf,
         ProcessesOf, WaitReap, Reap, FreeVm, At, Goto
<1>3. FreeHasNoParent' /\ NotOwnParent' /\ InitHasNoParent' /\ SleepersWait'
  BY InitInSlots
     DEF IInv, TypeOK, InitAlive, ForkInProgress, FreeHasNoParent,
         NotOwnParent, InitHasNoParent, SleepersWait, Active, Creating,
         Zombies, ThreadsOf, ProcessesOf, WaitReap, Reap, FreeVm, At, Goto
<1>4. NoMissedExit'
  BY InitInSlots
     DEF IInv, TypeOK, ForkInProgress, FreeHasNoParent, NotOwnParent,
         InitAlive, NoMissedExit, SleepersWait, Active, Creating, Zombies,
         ThreadsOf, ProcessesOf, WaitReap, Reap, FreeVm, At, Goto
<1> QED BY <1>1, <1>2, <1>3, <1>4 DEF IInv

LEMMA JoinReapStep ==
    ASSUME IInv, NEW p \in Slots, JoinReap(p) PROVE IInv'
<1>1. TypeOK'
  BY InitInSlots
     DEF IInv, TypeOK, ForkInProgress, Active, Creating, States, Counters,
         Null, Zombies, ThreadsOf, ProcessesOf, JoinReap, Reap, At, Goto
<1>2. ParentAlive' /\ InitAlive' /\ ForkInProgress'
  BY InitInSlots
     DEF IInv, TypeOK, ParentAlive, InitAlive, ForkInProgress, FreeHasNoParent,
         NotOwnParent, InitHasNoParent, Active, Creating, Zombies, ThreadsOf,
         ProcessesOf, JoinReap, Reap, At, Goto
<1>3. FreeHasNoParent' /\ NotOwnParent' /\ InitHasNoParent' /\ SleepersWait'
  BY InitInSlots
     DEF IInv, TypeOK, InitAlive, ForkInProgress, FreeHasNoParent,
         NotOwnParent, InitHasNoParent, SleepersWait, Active, Creating,
         Zombies, ThreadsOf, ProcessesOf, JoinReap, Reap, At, Goto
<1>4. NoMissedExit'
  BY InitInSlots
     DEF IInv, TypeOK, ForkInProgress, FreeHasNoParent, NotOwnParent,
         InitAlive, NoMissedExit, SleepersWait, Active, Creating, Zombies,
         ThreadsOf, ProcessesOf, JoinReap, Reap, At, Goto
<1> QED BY <1>1, <1>2, <1>3, <1>4 DEF IInv

LEMMA WaitGiveUpStep ==
    ASSUME IInv, NEW p \in Slots, WaitGiveUp(p) PROVE IInv'
BY InitInSlots
   DEF IInv, TypeOK, ParentAlive, InitAlive, ForkInProgress, FreeHasNoParent,
       NotOwnParent, InitHasNoParent, NoMissedExit, SleepersWait, Active,
       Creating, States, Counters, Null, Zombies, ThreadsOf, ProcessesOf,
       WaitGiveUp, GiveUp, At, Goto, table

LEMMA JoinGiveUpStep ==
    ASSUME IInv, NEW p \in Slots, JoinGiveUp(p) PROVE IInv'
BY InitInSlots
   DEF IInv, TypeOK, ParentAlive, InitAlive, ForkInProgress, FreeHasNoParent,
       NotOwnParent, InitHasNoParent, NoMissedExit, SleepersWait, Active,
       Creating, States, Counters, Null, Zombies, ThreadsOf, ProcessesOf,
       JoinGiveUp, GiveUp, At, Goto, table

LEMMA WaitSleepStep ==
    ASSUME IInv, NEW p \in Slots, WaitSleep(p) PROVE IInv'
BY InitInSlots
   DEF IInv, TypeOK, ParentAlive, InitAlive, ForkInProgress, FreeHasNoParent,
       NotOwnParent, InitHasNoParent, NoMissedExit, SleepersWait, Active,
       Creating, States, Counters, Null, Zombies, ThreadsOf, ProcessesOf,
       WaitSleep, SleepOn, At, LeaveCpu

LEMMA JoinSleepStep ==
    ASSUME IInv, NEW p \in Slots, JoinSleep(p) PROVE IInv'
BY InitInSlots
   DEF IInv, TypeOK, ParentAlive, InitAlive, ForkInProgress, FreeHasNoParent,
       NotOwnParent, InitHasNoParent, NoMissedExit, SleepersWait, Active,
       Creating, States, Counters, Null, Zombies, ThreadsOf, ProcessesOf,
       JoinSleep, SleepOn, At, LeaveCpu

LEMMA ExitCallStep ==
    ASSUME IInv, NEW p \in Slots, ExitCall(p) PROVE IInv'
BY InitInSlots
   DEF IInv, TypeOK, ParentAlive, InitAlive, ForkInProgress, FreeHasNoParent,
       NotOwnParent, InitHasNoParent, NoMissedExit, SleepersWait, Active,
       Creating, States, Counters, Null, Zombies, ThreadsOf, ProcessesOf,
       ExitCall, At, Goto, table

LEMMA FaultStep ==
    ASSUME IInv, NEW p \in Slots, Fault(p) PROVE IInv'
BY InitInSlots
   DEF IInv, TypeOK, ParentAlive, InitAlive, ForkInProgress, FreeHasNoParent,
       NotOwnParent, InitHasNoParent, NoMissedExit, SleepersWait, Active,
       Creating, States, Counters, Null, Zombies, ThreadsOf, ProcessesOf,
       Fault, At, Goto

LEMMA InitExitingStep ==
    ASSUME IInv, NEW p \in Slots, InitExiting(p) PROVE IInv'
BY InitInSlots
   DEF IInv, TypeOK, ParentAlive, InitAlive, ForkInProgress, FreeHasNoParent,
       NotOwnParent, InitHasNoParent, NoMissedExit, SleepersWait, Active,
       Creating, States, Counters, Null, Zombies, ThreadsOf, ProcessesOf,
       InitExiting, At, table

LEMMA ExitStep ==
    ASSUME IInv, NEW p \in Slots, Exit(p) PROVE IInv'
<1>1. TypeOK'
  BY InitInSlots
     DEF IInv, TypeOK, ForkInProgress, Active, Creating, States, Counters,
         Null, Zombies, ThreadsOf, ProcessesOf, Exit, At, HandOver, LeaveCpu,
         Woken
<1>2. ParentAlive' /\ InitAlive' /\ ForkInProgress'
  BY InitInSlots
     DEF IInv, TypeOK, ParentAlive, InitAlive, ForkInProgress, FreeHasNoParent,
         NotOwnParent, InitHasNoParent, Active, Creating, Zombies, ThreadsOf,
         ProcessesOf, Exit, At, HandOver, LeaveCpu, Woken
<1>3. FreeHasNoParent' /\ NotOwnParent' /\ InitHasNoParent' /\ SleepersWait'
  BY InitInSlots
     DEF IInv, TypeOK, InitAlive, ForkInProgress, FreeHasNoParent,
         NotOwnParent, InitHasNoParent, SleepersWait, Active, Creating,
         Zombies, ThreadsOf, ProcessesOf, Exit, At, HandOver, LeaveCpu, Woken
<1>4. NoMissedExit'
  BY InitInSlots
     DEF IInv, TypeOK, ForkInProgress, FreeHasNoParent, NotOwnParent,
         InitAlive, NoMissedExit, SleepersWait, Active, Creating, Zombies,
         ThreadsOf, ProcessesOf, Exit, At, HandOver, LeaveCpu, Woken
<1> QED BY <1>1, <1>2, <1>3, <1>4 DEF IInv

LEMMA YieldStep ==
    ASSUME IInv, NEW p \in Slots, Yield(p) PROVE IInv'
BY InitInSlots
   DEF IInv, TypeOK, ParentAlive, InitAlive, ForkInProgress, FreeHasNoParent,
       NotOwnParent, InitHasNoParent, NoMissedExit, SleepersWait, Active,
       Creating, States, Counters, Null, Zombies, ThreadsOf, ProcessesOf,
       Yield, LeaveCpu

LEMMA KillStep ==
    ASSUME IInv, NEW p \in Slots, NEW n, Kill(p, n) PROVE IInv'
BY InitInSlots
   DEF IInv, TypeOK, ParentAlive, InitAlive, ForkInProgress, FreeHasNoParent,
       NotOwnParent, InitHasNoParent, NoMissedExit, SleepersWait, Active,
       Creating, States, Counters, Null, Zombies, ThreadsOf, ProcessesOf, Kill,
       InUser, At, WakeKilled, IsFirst

LEMMA DispatchStep ==
    ASSUME IInv, NEW p \in Slots, NEW c \in CPUs, Dispatch(c, p) PROVE IInv'
BY InitInSlots
   DEF IInv, TypeOK, ParentAlive, InitAlive, ForkInProgress, FreeHasNoParent,
       NotOwnParent, InitHasNoParent, NoMissedExit, SleepersWait, Active,
       Creating, States, Counters, Null, Zombies, ThreadsOf, ProcessesOf,
       Dispatch

LEMMA StutterStep == ASSUME IInv, UNCHANGED vars PROVE IInv'
BY DEF IInv, TypeOK, ParentAlive, InitAlive, ForkInProgress, FreeHasNoParent,
       NotOwnParent, InitHasNoParent, NoMissedExit, SleepersWait, Zombies,
       ThreadsOf, ProcessesOf, vars

LEMMA NextPreserves == IInv /\ [Next]_vars => IInv'
<1> SUFFICES ASSUME IInv, [Next]_vars PROVE IInv'
  OBVIOUS
<1>1. ASSUME NEW p \in Slots, SysCall(p) PROVE IInv'
  BY <1>1, AllocStep, ExecBuildStep, WaitCallStep, JoinCallStep
     DEF SysCall, Fork, Clone, Creating
<1>2. ASSUME NEW p \in Slots, InKernel(p) PROVE IInv'
  BY <1>2, AllocStackStep, ForkCopyStep, ForkNoMemoryStep, ForkRunStep,
     CloneCopyStep, CloneRunStep, ExecCommitStep,
     WaitReapStep, WaitGiveUpStep, WaitSleepStep, JoinReapStep,
     JoinGiveUpStep, JoinSleepStep, InitExitingStep, ExitStep
     DEF InKernel, ForkStack, CloneStack
<1>3. ASSUME NEW p \in Slots, Step(p) PROVE IInv'
  BY <1>1, <1>2, <1>3, ExitCallStep, FaultStep, YieldStep, KillStep DEF Step
<1>4. ASSUME NEW p \in Slots, NEW c \in CPUs, Dispatch(c, p) PROVE IInv'
  BY <1>4, DispatchStep
<1>5. CASE Halted \/ UNCHANGED vars
  BY <1>5, StutterStep DEF Halted
<1> QED BY <1>3, <1>4, <1>5 DEF Next

\* Every reachable state satisfies the inductive invariant.
THEOREM Invariance == Spec => []IInv
BY InitEstablishes, NextPreserves, PTL DEF Spec

\* Type correctness: pointers between processes stay within the table.
THEOREM TypeCorrect == Spec => []TypeOK
<1>1. IInv => TypeOK
  BY DEF IInv
<1> QED BY <1>1, Invariance, PTL

\* exit's handing over of children to init is enough: no process ever has a
\* parent that has exited or been freed.
THEOREM ParentsOutlive == Spec => []ParentAlive
<1>1. IInv => ParentAlive
  BY DEF IInv
<1> QED BY <1>1, Invariance, PTL

\* The wakeups of exit and kill, and the test before sleep under ptable.lock,
\* are enough: a parent in wait or join never sleeps on a ZOMBIE child.
THEOREM NoExitMissed == Spec => []NoMissedExit
<1>1. IInv => NoMissedExit
  BY DEF IInv
<1> QED BY <1>1, Invariance, PTL
=============================================================================
