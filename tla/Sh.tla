---------------------------------- MODULE Sh ----------------------------------
(***************************************************************************)
(* The shell of xv6 (Xv6-Threads/src/sh.c): how runcmd turns a line into   *)
(* processes and pipes, each of which must close the ends it does not use, *)
(* and who waits for whom. A step is a system call, or a few of a process  *)
(* on its own descriptors; pipes and wait are those of Pipe and Proc, in   *)
(* short. Programs copy their input, or only write, and end.               *)
(***************************************************************************)
EXTENDS Integers, FiniteSets

CONSTANTS NPROC,
          Lines,        \* the commands typed, as parsecmd builds them
          NPIPE, PIPESIZE,
          NOFILE,
          Bytes,        \* what a program writes, or reads that is no pipe, at most
          Behind        \* the next line is typed when no more than these are left

VARIABLES
    pc,                 \* place in main, runcmd or the program; free, zombie
    cmd,                \* the command that runcmd has still to run
    parent,             \* Init: handed to init
    fds,                \* open files of a process
    p,                  \* p[0] and p[1] of runcmd
    left,               \* bytes a program has still to make
    bg,                 \* history: in the background
    data,               \* bytes in a pipe
    failed              \* history: fork or pipe failed

vars == <<pc, cmd, parent, fds, p, left, bg, data, failed>>

Entries == 1..NPROC

Main == 1

InitProc == 0

Pipes == 1..NPIPE

Closed == [kind |-> "closed", pipe |-> 0]
Console == [kind |-> "console", pipe |-> 0]
Inode == [kind |-> "inode", pipe |-> 0]
ReadEnd(k) == [kind |-> "r", pipe |-> k]
WriteEnd(k) == [kind |-> "w", pipe |-> k]

NoFiles == [f \in 0..NOFILE-1 |-> Closed]

NoCmd == [type |-> "none"]

\* main has opened the console as 0, 1 and 2.
Init ==
    /\ pc = [q \in Entries |-> IF q = Main THEN "prompt" ELSE "free"]
    /\ cmd = [q \in Entries |-> NoCmd]
    /\ parent = [q \in Entries |-> InitProc]
    /\ fds = [q \in Entries |->
                IF q = Main THEN [f \in 0..NOFILE-1 |-> IF f <= 2 THEN Console ELSE Closed]
                ELSE NoFiles]
    /\ p = [q \in Entries |-> <<0, 0>>]
    /\ left = [q \in Entries |-> 0] /\ bg = [q \in Entries |-> FALSE]
    /\ data = [k \in Pipes |-> 0]
    /\ failed = FALSE

Held(end) == \E q \in Entries : \E f \in 0..NOFILE-1 : fds[q][f] = end

Goto(q, where) == pc' = [pc EXCEPT ![q] = where]

Children(q) == {c \in Entries : parent[c] = q /\ pc[c] # "free"}

-----------------------------------------------------------------------------
(* fork, exit, wait                                                        *)

\* fork1 of q, which goes on at "here" and its child at "there" with command c.
Forks(q, here, there, c, behind) ==
    \E child \in Entries :
        /\ pc[child] = "free" /\ \A o \in Entries : pc[o] = "free" => child <= o
        /\ pc' = [pc EXCEPT ![q] = here, ![child] = there]
        /\ cmd' = [cmd EXCEPT ![child] = c]
        /\ parent' = [parent EXCEPT ![child] = q]
        /\ fds' = [fds EXCEPT ![child] = fds[q]]
        /\ p' = [p EXCEPT ![child] = p[q]]
        /\ bg' = [bg EXCEPT ![child] = bg[q] \/ behind]
        /\ UNCHANGED <<left, data, failed>>

\* panic
Fails(q) ==
    /\ failed' = TRUE
    /\ Goto(q, "exit")
    /\ UNCHANGED <<cmd, parent, fds, p, left, bg, data>>

Fork1(q, here, there, c, behind) == Forks(q, here, there, c, behind) \/ Fails(q)

\* The children go to init, which waits for those that are gone, and for q if it is
\* an orphan itself.
Exit(q) ==
    LET gone == {c \in Children(q) : pc[c] = "zombie"}
                \cup {c \in {q} : parent[q] = InitProc} IN
    /\ pc[q] = "exit" /\ q # Main
    /\ pc' = [c \in Entries |-> IF c \in gone THEN "free"
                              ELSE IF c = q THEN "zombie" ELSE pc[c]]
    /\ parent' = [c \in Entries |-> IF c \in Children(q) \cup gone THEN InitProc ELSE parent[c]]
    /\ fds' = [fds EXCEPT ![q] = NoFiles]
    /\ cmd' = [cmd EXCEPT ![q] = NoCmd] /\ p' = [p EXCEPT ![q] = <<0, 0>>]
    /\ left' = [left EXCEPT ![q] = 0]
    /\ bg' = [c \in Entries |-> IF c \in gone THEN FALSE ELSE bg[c]]
    /\ UNCHANGED <<data, failed>>

\* init starts the shell again.
Restart ==
    /\ pc[Main] = "exit"
    /\ Goto(Main, "prompt")
    /\ parent' = [c \in Entries |-> IF parent[c] = Main THEN InitProc ELSE parent[c]]
    /\ UNCHANGED <<cmd, fds, p, left, bg, data, failed>>

\* wait: for any child, and none if there is none.
Waits(q, where, c) ==
    /\ \/ /\ Children(q) = {}
          /\ pc' = [pc EXCEPT ![q] = where]
          /\ UNCHANGED <<parent, bg>>
       \/ \E z \in Children(q) :
             /\ pc[z] = "zombie"
             /\ pc' = [pc EXCEPT ![q] = where, ![z] = "free"]
             /\ parent' = [parent EXCEPT ![z] = InitProc]
             /\ bg' = [bg EXCEPT ![z] = FALSE]
    /\ cmd' = [cmd EXCEPT ![q] = c]
    /\ UNCHANGED <<fds, p, left, data, failed>>

-----------------------------------------------------------------------------
(* main                                                                    *)

GetCmd(line) ==
    /\ pc[Main] = "prompt" /\ ~failed
    /\ Cardinality({q \in Entries \ {Main} : pc[q] # "free"}) <= Behind
    /\ Fork1(Main, "wait", "runcmd", line, FALSE)

MainWait == pc[Main] = "wait" /\ Waits(Main, "prompt", NoCmd)

-----------------------------------------------------------------------------
(* runcmd                                                                  *)

Runs(q, type) == pc[q] = "runcmd" /\ cmd[q].type = type

RunExec(q) ==
    /\ Runs(q, "EXEC")
    /\ \/ /\ Goto(q, "program")
          /\ left' = [left EXCEPT ![q] = Bytes]
       \/ Goto(q, "exit") /\ UNCHANGED left
    /\ UNCHANGED <<cmd, parent, fds, p, bg, data, failed>>

\* close, and open, which takes the lowest descriptor: the same one.
RunRedir(q) ==
    /\ Runs(q, "REDIR")
    /\ \/ /\ fds' = [fds EXCEPT ![q][cmd[q].fd] = Inode]
          /\ cmd' = [cmd EXCEPT ![q] = @.left]
          /\ UNCHANGED pc
       \/ /\ fds' = [fds EXCEPT ![q][cmd[q].fd] = Closed]
          /\ Goto(q, "exit")
          /\ UNCHANGED cmd
    /\ UNCHANGED <<parent, p, left, bg, data, failed>>

RunList(q) == Runs(q, "LIST") /\ Fork1(q, "waitleft", "runcmd", cmd[q].left, FALSE)

ListRight(q) == pc[q] = "waitleft" /\ Waits(q, "runcmd", cmd[q].right)

RunBack(q) == Runs(q, "BACK") /\ Fork1(q, "exit", "runcmd", cmd[q].left, TRUE)

\* pipe(p)
MakePipe(q) ==
    /\ Runs(q, "PIPE")
    /\ \/ \E k \in Pipes, f, g \in 0..NOFILE-1 :
             /\ ~Held(ReadEnd(k)) /\ ~Held(WriteEnd(k))
             /\ \A j \in Pipes : ~Held(ReadEnd(j)) /\ ~Held(WriteEnd(j)) => k <= j
             /\ f < g /\ fds[q][f] = Closed /\ fds[q][g] = Closed
             /\ \A h \in 0..g-1 : fds[q][h] = Closed => h = f
             /\ fds' = [fds EXCEPT ![q][f] = ReadEnd(k), ![q][g] = WriteEnd(k)]
             /\ p' = [p EXCEPT ![q] = <<f, g>>]
             /\ data' = [data EXCEPT ![k] = 0]
             /\ Goto(q, "forkleft")
             /\ UNCHANGED <<cmd, parent, left, bg, failed>>
       \/ Fails(q)

ForkLeft(q) ==
    /\ pc[q] = "forkleft"
    /\ Fork1(q, "forkright", "lefthalf", cmd[q].left, FALSE)

ForkRight(q) ==
    /\ pc[q] = "forkright"
    /\ Fork1(q, "closeboth", "righthalf", cmd[q].right, FALSE)

\* close(fd), dup(end), close(p[0]), close(p[1]): the lowest free descriptor is fd.
Half(q, here, fd, end) ==
    /\ pc[q] = here
    /\ fds' = [fds EXCEPT ![q] = [f \in 0..NOFILE-1 |->
                 IF f = fd THEN fds[q][end]
                 ELSE IF f \in {p[q][1], p[q][2]} THEN Closed ELSE fds[q][f]]]
    /\ Goto(q, "runcmd")
    /\ UNCHANGED <<cmd, parent, p, left, bg, data, failed>>

LeftHalf(q) == Half(q, "lefthalf", 1, p[q][2])

RightHalf(q) == Half(q, "righthalf", 0, p[q][1])

ClosesReadEnd(q) == {p[q][1]}

ClosesBothEnds(q) == {p[q][1], p[q][2]}

CloseBoth(q) ==
    /\ pc[q] = "closeboth"
    /\ fds' = [fds EXCEPT ![q] = [f \in 0..NOFILE-1 |->
                 IF f \in ClosesBothEnds(q) THEN Closed ELSE fds[q][f]]]
    /\ Goto(q, "wait2")
    /\ UNCHANGED <<cmd, parent, p, left, bg, data, failed>>

WaitsOnce(q) == pc[q] = "wait2" /\ Waits(q, "exit", NoCmd)

FirstWait(q) == pc[q] = "wait2" /\ Waits(q, "wait1", NoCmd)

SecondWait(q) == pc[q] = "wait1" /\ Waits(q, "exit", NoCmd)

-----------------------------------------------------------------------------
(* Programs: cat reads to the end of file; the others only write.          *)

Copies(q) == cmd[q].prog = "cat"

\* read(0, ...)
ReadInput(q) ==
    LET in == fds[q][0] IN
    /\ pc[q] = "program" /\ Copies(q)
    /\ \/ /\ in.kind = "r" /\ data[in.pipe] > 0
          /\ data' = [data EXCEPT ![in.pipe] = @ - 1]
          /\ Goto(q, "write")
          /\ UNCHANGED left
       \/ /\ in.kind = "r" /\ data[in.pipe] = 0 /\ ~Held(WriteEnd(in.pipe))
          /\ Goto(q, "exit")
          /\ UNCHANGED <<data, left>>
       \/ /\ in.kind # "r"
          /\ \/ left[q] > 0 /\ Goto(q, "write") /\ left' = [left EXCEPT ![q] = @ - 1]
             \/ Goto(q, "exit") /\ UNCHANGED left
          /\ UNCHANGED data
    /\ UNCHANGED <<cmd, parent, fds, p, bg, failed>>

Make(q) ==
    /\ pc[q] = "program" /\ ~Copies(q)
    /\ \/ left[q] > 0 /\ Goto(q, "write") /\ left' = [left EXCEPT ![q] = @ - 1]
       \/ left[q] = 0 /\ Goto(q, "exit") /\ UNCHANGED left
    /\ UNCHANGED <<cmd, parent, fds, p, bg, data, failed>>

\* write(1, ...): -1 if the pipe is full and nobody can read it, on which cat gives
\* up and ls goes on.
WriteOutput(q) ==
    LET to == fds[q][1] IN
    /\ pc[q] = "write"
    /\ \/ /\ to.kind = "w" /\ data[to.pipe] = PIPESIZE /\ ~Held(ReadEnd(to.pipe))
          /\ Goto(q, IF Copies(q) THEN "exit" ELSE "program") /\ UNCHANGED data
       \/ /\ to.kind = "w" /\ data[to.pipe] < PIPESIZE
          /\ data' = [data EXCEPT ![to.pipe] = @ + 1]
          /\ Goto(q, "program")
       \/ /\ to.kind # "w"
          /\ Goto(q, "program") /\ UNCHANGED data
    /\ UNCHANGED <<cmd, parent, fds, p, left, bg, failed>>

-----------------------------------------------------------------------------
Step(q) ==
    \/ RunExec(q) \/ RunRedir(q) \/ RunList(q) \/ ListRight(q) \/ RunBack(q)
    \/ MakePipe(q) \/ ForkLeft(q) \/ ForkRight(q) \/ LeftHalf(q) \/ RightHalf(q)
    \/ CloseBoth(q) \/ FirstWait(q) \/ SecondWait(q)
    \/ ReadInput(q) \/ Make(q) \/ WriteOutput(q) \/ Exit(q)

\* Some process runs, or init waits.
Work == MainWait \/ Restart \/ \E q \in Entries : Step(q)

Next == Work \/ \E line \in Lines : GetCmd(line)

Spec == Init /\ [][Next]_vars

\* The processors are not idle while a process can run; nobody need type. To be
\* fair to each process adds nothing, as programs end: a line has finitely many
\* steps.
Fairness == WF_vars(Work)

-----------------------------------------------------------------------------
(* Properties                                                              *)

\* The prompt comes back after every line whose programs end with their input or
\* output: no end of a pipe stays open in a process that waits for its reader,
\* wherever a fork, a pipe, an open or an exec fails.
LineEnds == pc[Main] = "wait" ~> pc[Main] # "wait"

\* And it does not come back too early: unless a fork or a pipe failed, all that
\* is left of the lines before is in the background.
ForegroundDone ==
    pc[Main] = "prompt" /\ ~failed =>
        \A q \in Entries \ {Main} : pc[q] # "free" => bg[q]
===============================================================================
