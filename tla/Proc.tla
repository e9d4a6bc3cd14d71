-------------------------------- MODULE Proc --------------------------------
(***************************************************************************)
(* The process table of the xv6 kernel with threads                        *)
(* (Xv6-Threads/src/proc.c): allocproc, fork, clone, exec's change of page *)
(* directory, exit, wait, join, kill, sleep/wakeup as wait and join use    *)
(* them, the dispatch of RUNNABLE processes onto CPUs, and the two places  *)
(* in trap.c that turn a killed process into an exiting one.               *)
(*                                                                         *)
(* A critical section of ptable.lock is one action (SleepLock takes sleep  *)
(* and wakeup apart); everything the code does to the table WITHOUT        *)
(* the lock -- the failure paths of allocproc and fork, the copying of the *)
(* parent -- is an action of its own, and other CPUs run in between.       *)
(***************************************************************************)
EXTENDS Naturals, FiniteSets

CONSTANTS NPROC,        \* param.h: size of ptable.proc
          CPUs,         \* the processors
          PageDirs,     \* page directories that memory has room for
          MaxPid,       \* bound of the model: pids handed out stay below it
          KillTargets,  \* pids that programs pass to kill()
          Clones,       \* TRUE: programs call clone() and join()
          Discipline    \* TRUE: programs join their threads before they exit
                        \* or exec, and threads neither clone, fork nor exec

ASSUME NPROCAssumption  == NPROC \in Nat \ {0}
ASSUME MaxPidAssumption == MaxPid \in Nat \ {0, 1}
ASSUME KillAssumption   == KillTargets \subseteq Nat
ASSUME FlagAssumption   == Clones \in BOOLEAN /\ Discipline \in BOOLEAN

Slots    == 1..NPROC
InitProc == 1                   \* userinit takes the first slot
Null     == 0                   \* a null struct proc *, chan or pid
NoPage   == "nopage"
ASSUME PageDirAssumption == NoPage \notin PageDirs /\ PageDirs # {}

States   == {"UNUSED", "EMBRYO", "SLEEPING", "RUNNABLE", "RUNNING", "ZOMBIE"}
Counters == {"user", "forkstack", "forkcopy", "forkrun", "clonestack",
             "clonecopy", "clonerun", "execcommit", "wait", "join", "exit"}

VARIABLES
    state, pid, parent, killed, isthread, pgdir, chan, kstack, \* struct proc
    nextpid,                    \* proc.c: nextpid
    cproc,                      \* struct cpu: proc
    pc,                         \* where the process is in the kernel
    np,                         \* local np of its fork or clone
    newdir,                     \* local pgdir of its exec
    inuse,                      \* page directories allocated and not freed
    shell,                      \* init.c: pid of the shell init waits for
    panicked                    \* the kernel called panic()

vars == <<state, pid, parent, killed, isthread, pgdir, chan, kstack, nextpid,
          cproc, pc, np, newdir, inuse, shell, panicked>>

\* Everything an action of a process other than init's wait leaves alone.
table == <<state, pid, parent, killed, isthread, pgdir, chan, kstack>>

-----------------------------------------------------------------------------
\* userinit: the first process, allocated, given a page directory, RUNNABLE.
Init ==
    /\ \E d \in PageDirs :
          /\ pgdir = [p \in Slots |-> IF p = InitProc THEN d ELSE NoPage]
          /\ inuse = {d}
    /\ state    = [p \in Slots |-> IF p = InitProc THEN "RUNNABLE" ELSE "UNUSED"]
    /\ pid      = [p \in Slots |-> IF p = InitProc THEN 1 ELSE 0]
    /\ kstack   = [p \in Slots |-> p = InitProc]
    /\ parent   = [p \in Slots |-> Null]
    /\ killed   = [p \in Slots |-> FALSE]
    /\ isthread = [p \in Slots |-> FALSE]
    /\ chan     = [p \in Slots |-> Null]
    /\ nextpid  = 2
    /\ cproc    = [c \in CPUs |-> Null]
    /\ pc       = [p \in Slots |-> "user"]
    /\ np       = [p \in Slots |-> Null]
    /\ newdir   = [p \in Slots |-> NoPage]
    /\ shell    = Null
    /\ panicked = FALSE

At(p, where) == ~panicked /\ state[p] = "RUNNING" /\ pc[p] = where

Goto(p, where) == pc' = [pc EXCEPT ![p] = where]

\* The scan of the table stops at the first entry that satisfies the test.
IsFirst(q, S) == q \in S /\ \A r \in S : q <= r

\* sched(): the process gives its CPU back to the scheduler.
LeaveCpu(p) == cproc' = [c \in CPUs |-> IF cproc[c] = p THEN Null ELSE cproc[c]]

\* A system call starts only if the process has not been killed (trap).
InUser(p) == At(p, "user") /\ ~killed[p]

AnyChildOf(p) == {q \in Slots : parent[q] = p}

ThreadsOf(p)   == {q \in Slots : parent[q] = p /\ isthread[q]}
ProcessesOf(p) == {q \in Slots : parent[q] = p /\ ~isthread[q]}

-----------------------------------------------------------------------------
(* scheduler() and yield()                                                 *)

Dispatch(c, p) ==
    /\ ~panicked
    /\ cproc[c] = Null
    /\ state[p] = "RUNNABLE"
    /\ state' = [state EXCEPT ![p] = "RUNNING"]
    /\ cproc' = [cproc EXCEPT ![c] = p]
    /\ chan' = [chan EXCEPT ![p] = Null]       \* sleep()'s tidying up
    /\ UNCHANGED <<pid, parent, killed, isthread, pgdir, kstack, nextpid, pc,
                   np, newdir, inuse, shell, panicked>>

Yield(p) ==
    /\ ~panicked
    /\ state[p] = "RUNNING"
    /\ state' = [state EXCEPT ![p] = "RUNNABLE"]
    /\ LeaveCpu(p)
    /\ UNCHANGED <<pid, parent, killed, isthread, pgdir, chan, kstack, nextpid,
                   pc, np, newdir, inuse, shell, panicked>>

-----------------------------------------------------------------------------
(* fork() and clone(), which share allocproc()                             *)

\* What a caller does with -1: init exits (init.c), other programs go on.
AfterFailure(p) == IF p = InitProc THEN "exit" ELSE "user"

Free == {q \in Slots : state[q] = "UNUSED"}

NextPid(q) == pid' = [pid EXCEPT ![q] = nextpid] /\ nextpid' = nextpid + 1

AllocFails(p) ==
    /\ Free = {}
    /\ Goto(p, AfterFailure(p))
    /\ UNCHANGED <<state, pid, isthread, nextpid, np>>

\* The entry is taken; killed and parent keep what they were.
AllocEntry(p, q, next) ==
    /\ IsFirst(q, Free)
    /\ nextpid < MaxPid
    /\ state'    = [state EXCEPT ![q] = "EMBRYO"]
    /\ isthread' = [isthread EXCEPT ![q] = FALSE]
    /\ NextPid(q)
    /\ np'       = [np EXCEPT ![p] = q]
    /\ Goto(p, next)

\* The locked half of allocproc.
AllocProc(p, next) ==
    /\ AllocFails(p) \/ \E q \in Free : AllocEntry(p, q, next)
    /\ UNCHANGED <<parent, killed, pgdir, chan, kstack>>

\* init forks when it has no shell to wait for.
Fork(p) ==
    /\ InUser(p)
    /\ p = InitProc => shell = Null
    /\ Discipline => ~isthread[p]
    /\ AllocProc(p, "forkstack")
    /\ UNCHANGED <<cproc, newdir, inuse, shell, panicked>>

Clone(p) ==
    /\ InUser(p)
    /\ Clones
    /\ p # InitProc
    /\ Discipline => ~isthread[p]
    /\ AllocProc(p, "clonestack")
    /\ UNCHANGED <<cproc, newdir, inuse, shell, panicked>>

\* The unlocked half of allocproc: the kernel stack, or back to UNUSED.
AllocStack(p, from, to) ==
    /\ At(p, from)
    /\ \/ /\ kstack' = [kstack EXCEPT ![np[p]] = TRUE]
          /\ Goto(p, to)
          /\ UNCHANGED <<state, np>>
       \/ /\ state' = [state EXCEPT ![np[p]] = "UNUSED"]
          /\ np' = [np EXCEPT ![p] = Null]
          /\ Goto(p, AfterFailure(p))
          /\ UNCHANGED kstack
    /\ UNCHANGED <<pid, parent, killed, isthread, pgdir, chan, nextpid, cproc,
                   newdir, inuse, shell, panicked>>

ForkStack(p)  == AllocStack(p, "forkstack", "forkcopy")
CloneStack(p) == AllocStack(p, "clonestack", "clonecopy")

\* copyuvm succeeds while memory has room, and the child is filled in ...
ForkCopy(p) ==
    /\ At(p, "forkcopy")
    /\ \E d \in PageDirs \ inuse :
          /\ inuse' = inuse \cup {d}
          /\ pgdir' = [pgdir EXCEPT ![np[p]] = d]
    /\ parent' = [parent EXCEPT ![np[p]] = p]
    /\ Goto(p, "forkrun")
    /\ UNCHANGED <<state, pid, killed, isthread, chan, kstack, nextpid, cproc,
                   np, newdir, shell, panicked>>

\* ... or it fails, and fork undoes allocproc without taking the lock.
ForkNoMemory(p) ==
    /\ At(p, "forkcopy")
    /\ kstack' = [kstack EXCEPT ![np[p]] = FALSE]
    /\ pgdir'  = [pgdir EXCEPT ![np[p]] = NoPage]
    /\ state'  = [state EXCEPT ![np[p]] = "UNUSED"]
    /\ np'     = [np EXCEPT ![p] = Null]
    /\ Goto(p, AfterFailure(p))
    /\ UNCHANGED <<pid, parent, killed, isthread, chan, nextpid, cproc, newdir,
                   inuse, shell, panicked>>

CloneCopy(p) ==
    /\ At(p, "clonecopy")
    /\ pgdir'    = [pgdir EXCEPT ![np[p]] = pgdir[p]]
    /\ parent'   = [parent EXCEPT ![np[p]] = p]
    /\ isthread' = [isthread EXCEPT ![np[p]] = TRUE]
    /\ Goto(p, "clonerun")
    /\ UNCHANGED <<state, pid, killed, chan, kstack, nextpid, cproc, np, newdir,
                   inuse, shell, panicked>>

\* The last critical section: the child may run; the pid is returned.
MakeRunnable(p, from) ==
    /\ At(p, from)
    /\ state' = [state EXCEPT ![np[p]] = "RUNNABLE"]
    /\ pc'    = [pc EXCEPT ![p] = "user", ![np[p]] = "user"]
    /\ np'    = [np EXCEPT ![p] = Null]
    /\ UNCHANGED <<pid, parent, killed, isthread, pgdir, chan, kstack, nextpid,
                   cproc, newdir, inuse, panicked>>

ForkRun(p) ==
    /\ MakeRunnable(p, "forkrun")
    /\ shell' = IF p = InitProc THEN pid[np[p]] ELSE shell

CloneRun(p) == MakeRunnable(p, "clonerun") /\ UNCHANGED shell

-----------------------------------------------------------------------------
(* exec(): a new page directory is built, then the process switches to it  *)

ExecBuild(p) ==
    /\ InUser(p)
    /\ p # InitProc
    /\ Discipline => ~isthread[p] /\ ThreadsOf(p) = {}
    /\ \/ \E d \in PageDirs \ inuse :
             /\ inuse'  = inuse \cup {d}
             /\ newdir' = [newdir EXCEPT ![p] = d]
             /\ Goto(p, "execcommit")
       \/ UNCHANGED <<inuse, newdir, pc>>        \* out of memory, returns -1
    /\ UNCHANGED <<table, nextpid, cproc, np, shell, panicked>>

Commit(p) == pgdir' = [pgdir EXCEPT ![p] = newdir[p]]

NoFreeVm(q) == UNCHANGED inuse

\* freevm(): whoever else uses the directory.
FreeVm(q) == inuse' = inuse \ {pgdir[q]}

\* Commit and free the old directory, or "bad": free the new one.
ExecCommit(p) ==
    /\ At(p, "execcommit")
    /\ \/ Commit(p) /\ FreeVm(p)
       \/ /\ inuse' = inuse \ {newdir[p]}
          /\ UNCHANGED pgdir
    /\ newdir' = [newdir EXCEPT ![p] = NoPage]
    /\ Goto(p, "user")
    /\ UNCHANGED <<state, pid, parent, killed, isthread, chan, kstack, nextpid,
                   cproc, np, shell, panicked>>

-----------------------------------------------------------------------------
(* wait() and join()                                                       *)

WaitCall(p) ==
    /\ InUser(p)
    /\ p = InitProc => shell # Null
    /\ Goto(p, "wait")
    /\ UNCHANGED <<table, nextpid, cproc, np, newdir, inuse, shell, panicked>>

JoinCall(p) ==
    /\ InUser(p)
    /\ Clones
    /\ p # InitProc
    /\ Goto(p, "join")
    /\ UNCHANGED <<table, nextpid, cproc, np, newdir, inuse, shell, panicked>>

Zombies(S) == {q \in S : state[q] = "ZOMBIE"}

\* Free a table entry; its page directory field keeps its value.
Reap(q) ==
    /\ state'  = [state EXCEPT ![q] = "UNUSED"]
    /\ pid'    = [pid EXCEPT ![q] = 0]
    /\ parent' = [parent EXCEPT ![q] = Null]
    /\ killed' = [killed EXCEPT ![q] = FALSE]
    /\ kstack' = [kstack EXCEPT ![q] = FALSE]

\* wait() frees the child's page directory, whoever else uses it.
WaitReap(p) ==
    /\ At(p, "wait")
    /\ \E q \in Zombies(ProcessesOf(p)) :
          /\ IsFirst(q, Zombies(ProcessesOf(p)))
          /\ Reap(q)
          /\ FreeVm(q)
          /\ shell' = IF p = InitProc /\ pid[q] = shell THEN Null ELSE shell
    /\ Goto(p, "user")
    /\ UNCHANGED <<isthread, pgdir, chan, nextpid, cproc, np, newdir, panicked>>

JoinReap(p) ==
    /\ At(p, "join")
    /\ \E q \in Zombies(ThreadsOf(p)) :
          /\ IsFirst(q, Zombies(ThreadsOf(p)))
          /\ Reap(q)
    /\ Goto(p, "user")
    /\ UNCHANGED <<isthread, pgdir, chan, nextpid, cproc, np, newdir, inuse,
                   shell, panicked>>

\* Nobody to wait for, or killed: -1.
GiveUp(p, where, kids) ==
    /\ At(p, where)
    /\ Zombies(kids) = {}
    /\ kids = {} \/ killed[p]
    /\ Goto(p, "user")
    /\ UNCHANGED <<table, nextpid, cproc, np, newdir, inuse, panicked>>

WaitGiveUp(p) ==
    /\ GiveUp(p, "wait", ProcessesOf(p))
    /\ shell' = IF p = InitProc THEN Null ELSE shell
JoinGiveUp(p) == GiveUp(p, "join", ThreadsOf(p)) /\ UNCHANGED shell

\* sleep(curproc, &ptable.lock): the lock is held throughout.
SleepOn(p, where, kids) ==
    /\ At(p, where)
    /\ Zombies(kids) = {} /\ kids # {} /\ ~killed[p]
    /\ state' = [state EXCEPT ![p] = "SLEEPING"]
    /\ chan' = [chan EXCEPT ![p] = p]
    /\ LeaveCpu(p)
    /\ UNCHANGED <<pid, parent, killed, isthread, pgdir, kstack, nextpid, pc,
                   np, newdir, inuse, shell, panicked>>

WaitSleep(p) == SleepOn(p, "wait", ProcessesOf(p))
JoinSleep(p) == SleepOn(p, "join", ThreadsOf(p))

-----------------------------------------------------------------------------
(* exit() and kill()                                                       *)

\* The exit system call, or (trap) the way back to user space once killed.
ExitCall(p) ==
    /\ At(p, "user")
    /\ killed[p] \/ p # InitProc
    /\ Discipline /\ ~killed[p] => ThreadsOf(p) = {}
    /\ Goto(p, "exit")
    /\ UNCHANGED <<table, nextpid, cproc, np, newdir, inuse, shell, panicked>>

\* trap's default case: a program that misbehaves is killed where it stands.
Fault(p) ==
    /\ At(p, "user")
    /\ p # InitProc
    /\ ~Discipline
    /\ killed' = [killed EXCEPT ![p] = TRUE]
    /\ Goto(p, "exit")
    /\ UNCHANGED <<state, pid, parent, isthread, pgdir, chan, kstack, nextpid,
                   cproc, np, newdir, inuse, shell, panicked>>

InitExiting(p) ==
    /\ At(p, "exit")
    /\ p = InitProc
    /\ panicked' = TRUE
    /\ UNCHANGED <<table, nextpid, cproc, pc, np, newdir, inuse, shell>>

WokenByParentOnly(p) ==
    {q \in Slots : state[q] = "SLEEPING" /\ chan[q] = parent[p]}

WokenOnOwnChannel(p) == {q \in Slots : state[q] = "SLEEPING" /\ chan[q] = p}

\* Who the two wakeup1 calls of exit wake up.
Woken(p) ==
    {q \in Slots : /\ state[q] = "SLEEPING"
                   /\ \/ chan[q] = parent[p]
                      \/ /\ chan[q] = InitProc
                         /\ \E r \in Slots : parent[r] = p /\ state[r] = "ZOMBIE"}

NoHandOver(p) == UNCHANGED parent

HandOver(p) ==
    parent' = [q \in Slots |-> IF parent[q] = p THEN InitProc ELSE parent[q]]

Exit(p) ==
    /\ At(p, "exit")
    /\ p # InitProc
    /\ state' = [q \in Slots |-> IF q = p THEN "ZOMBIE"
                                 ELSE IF q \in Woken(p) THEN "RUNNABLE"
                                 ELSE state[q]]
    /\ HandOver(p)
    /\ LeaveCpu(p)
    /\ UNCHANGED <<pid, killed, isthread, pgdir, chan, kstack, nextpid, pc, np,
                   newdir, inuse, shell, panicked>>

SleepsOn(q) == UNCHANGED state

WakeKilled(q) ==
    state' = IF state[q] = "SLEEPING"
             THEN [state EXCEPT ![q] = "RUNNABLE"] ELSE state

\* kill(n): the first entry with that pid, whatever its state.
Kill(p, n) ==
    /\ InUser(p)
    /\ p # InitProc
    /\ \E q \in Slots :
          /\ IsFirst(q, {r \in Slots : pid[r] = n})
          /\ killed' = [killed EXCEPT ![q] = TRUE]
          /\ WakeKilled(q)
    /\ UNCHANGED <<pid, parent, isthread, pgdir, chan, kstack, nextpid, cproc,
                   pc, np, newdir, inuse, shell, panicked>>

-----------------------------------------------------------------------------
SysCall(p) == Fork(p) \/ Clone(p) \/ ExecBuild(p) \/ WaitCall(p) \/ JoinCall(p)

\* What a process does once it is in the kernel.
InKernel(p) ==
    \/ ForkStack(p) \/ ForkCopy(p) \/ ForkNoMemory(p) \/ ForkRun(p)
    \/ CloneStack(p) \/ CloneCopy(p) \/ CloneRun(p)
    \/ ExecCommit(p)
    \/ WaitReap(p) \/ WaitGiveUp(p) \/ WaitSleep(p)
    \/ JoinReap(p) \/ JoinGiveUp(p) \/ JoinSleep(p)
    \/ InitExiting(p) \/ Exit(p)

Step(p) == \/ SysCall(p) \/ InKernel(p) \/ ExitCall(p) \/ Fault(p) \/ Yield(p)
           \/ \E n \in KillTargets : Kill(p, n)

\* panic() spins for ever, and freezes the other CPUs when they print.
Halted == panicked /\ UNCHANGED vars

Next == \/ \E p \in Slots : Step(p) \/ \E c \in CPUs : Dispatch(c, p)
        \/ Halted

Spec == Init /\ [][Next]_vars

\* What a process certainly does next: go on in the kernel, exit if killed, and,
\* for init, make the next call of the loop of init.c.
Progress(p) ==
    \/ InKernel(p)
    \/ killed[p] /\ ExitCall(p)
    \/ p = InitProc /\ (Fork(p) \/ WaitCall(p))

\* The lottery gives every RUNNABLE process a positive share of the rounds, so
\* one that is RUNNABLE again and again is dispatched; the clock ticks, so none
\* keeps its CPU; and a process dispatched again and again gets on.
Fairness ==
    \A p \in Slots :
        /\ SF_vars(\E c \in CPUs : Dispatch(c, p))
        /\ WF_vars(Yield(p))
        /\ SF_vars(Progress(p))

FairSpec == Spec /\ Fairness

-----------------------------------------------------------------------------
(* Properties                                                              *)

\* Every variable holds a value of its C type, pointers into the table.
TypeOK ==
    /\ state \in [Slots -> States]
    /\ pid \in [Slots -> Nat]
    /\ parent \in [Slots -> Slots \cup {Null}]
    /\ killed \in [Slots -> BOOLEAN]
    /\ isthread \in [Slots -> BOOLEAN]
    /\ pgdir \in [Slots -> PageDirs \cup {NoPage}]
    /\ chan \in [Slots -> Slots \cup {Null}]
    /\ kstack \in [Slots -> BOOLEAN]
    /\ nextpid \in Nat
    /\ cproc \in [CPUs -> Slots \cup {Null}]
    /\ pc \in [Slots -> Counters]
    /\ np \in [Slots -> Slots \cup {Null}]
    /\ newdir \in [Slots -> PageDirs \cup {NoPage}]
    /\ inuse \subseteq PageDirs
    /\ shell \in Nat
    /\ panicked \in BOOLEAN

Active == {"RUNNABLE", "RUNNING", "SLEEPING"}

\* The parent of a process is never an entry that has exited or been freed:
\* exit hands children over to init before it becomes a ZOMBIE, so a parent
\* pointer never names a stranger that took over the entry.
ParentAlive ==
    \A p \in Slots :
        state[p] \in Active \cup {"ZOMBIE"} /\ p # InitProc =>
            parent[p] # Null /\ state[parent[p]] \in Active

\* A process asleep in wait() has a child and none of its children is a ZOMBIE
\* it has not been woken for, and likewise in join() for its threads; neither
\* sleeps through a kill. Exit of a child, handing of ZOMBIEs to init and kill
\* each have their own wakeup, and the sleeper tests before it sleeps.
NoMissedExit ==
    \A p \in Slots : state[p] = "SLEEPING" =>
        LET kids == IF pc[p] = "wait" THEN ProcessesOf(p) ELSE ThreadsOf(p)
        IN  kids # {} /\ Zombies(kids) = {} /\ ~killed[p]

\* The entry that a fork or clone is working on: EMBRYO, its own, and without
\* a parent until it has been filled in.
Creating == {"forkstack", "forkcopy", "forkrun",
             "clonestack", "clonecopy", "clonerun"}

ForkInProgress ==
    \A p \in Slots : state[p] \in Active /\ pc[p] \in Creating =>
        /\ np[p] \in Slots
        /\ state[np[p]] = "EMBRYO"
        /\ parent[np[p]] = IF pc[p] \in {"forkrun", "clonerun"} THEN p ELSE Null
        /\ \A q \in Slots : /\ state[q] \in Active /\ pc[q] \in Creating
                             /\ np[q] = np[p]
                             => q = p

\* The inductive invariant behind ParentAlive and NoMissedExit: init is always
\* there to inherit, entries not in use have no parent, nobody is its own
\* parent, and who sleeps does so on its own entry, in wait or join.
InitAlive       == state[InitProc] \in Active
FreeHasNoParent == \A p \in Slots : state[p] = "UNUSED" => parent[p] = Null
NotOwnParent    == \A p \in Slots : parent[p] # p
InitHasNoParent == parent[InitProc] = Null
SleepersWait    == \A p \in Slots : state[p] = "SLEEPING" =>
                                    chan[p] = p /\ pc[p] \in {"wait", "join"}

IInv == /\ TypeOK
        /\ ParentAlive /\ InitAlive /\ ForkInProgress
        /\ FreeHasNoParent /\ NotOwnParent /\ InitHasNoParent
        /\ NoMissedExit /\ SleepersWait

\* A process that can still run has an address space: nobody has freed the
\* page directory its pgdir points to.
AddrSpaceAlive ==
    \A p \in Slots : state[p] \in Active => pgdir[p] \in inuse

\* No memory of processes is lost, and no stack freed under its user, where fork,
\* clone and exec fail half-way, and at exit: each page directory allocated is the
\* pgdir of an entry that someone will reap, or is being built by an exec; and
\* exactly the entries in use, from allocproc's second half on, have a stack.
NoMemoryLost ==
    /\ \A d \in inuse :
           \E p \in Slots : \/ state[p] # "UNUSED" /\ pgdir[p] = d
                            \/ newdir[p] = d
    /\ \A p \in Slots :
           /\ state[p] = "UNUSED" => ~kstack[p]
           /\ state[p] \in Active \cup {"ZOMBIE"} => kstack[p]

\* A ZOMBIE that is not a thread does not stay once init is its parent, or its
\* parent has exited as well: init takes it over and waits again and again
\* (unless the kernel has panicked, or init is in its loop without a shell and
\* the model has run out of pids for the next one).
Orphan(p) == parent[p] = InitProc \/ state[parent[p]] \notin Active

OutOfPids == nextpid = MaxPid /\ shell = Null /\ np[InitProc] = Null

OrphansReaped ==
    \A p \in Slots :
        (state[p] = "ZOMBIE" /\ ~isthread[p] /\ Orphan(p))
            ~> (state[p] = "UNUSED" \/ panicked \/ OutOfPids)

\* exit passes "abandoned children to init" (proc.c:344) so that they are
\* waited for; the same for the threads among them.
OrphanThreadsReaped ==
    \A p \in Slots :
        (state[p] = "ZOMBIE" /\ isthread[p] /\ Orphan(p))
            ~> (state[p] = "UNUSED" \/ panicked \/ OutOfPids)

\* A killed process does exit, wherever kill caught it: in user space, on its
\* way through fork, or asleep in wait.
KilledExits ==
    \A p \in Slots :
        (killed[p] /\ state[p] \in Active)
            ~> (state[p] = "ZOMBIE" \/ state[p] = "UNUSED" \/ panicked)

\* wait() returns once a child is a ZOMBIE.
WaitReturns ==
    \A p \in Slots :
        (state[p] \in Active /\ pc[p] = "wait" /\ Zombies(ProcessesOf(p)) # {})
            ~> (pc[p] # "wait" \/ panicked)

=============================================================================
