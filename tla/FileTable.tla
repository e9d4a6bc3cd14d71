------------------------------ MODULE FileTable ------------------------------
(***************************************************************************)
(* Open files (Xv6-Threads/src/file.c) under the system calls that make,   *)
(* share and drop them (sysfile.c, pipealloc of pipe.c, fork and exit of   *)
(* proc.c). A step is a critical section of ftable.lock or a change of the *)
(* object behind a file; what a process does to its own descriptors, which *)
(* nobody else looks at, goes with the step before it.                     *)
(***************************************************************************)
EXTENDS Integers, Sequences, FiniteSets

LOCAL INSTANCE FiniteSetsExt

CONSTANTS Procs,
          NFILE,        \* entries of ftable
          NOFILE,       \* descriptors of a process
          Pipes,        \* pages that memory has for pipes
          Inodes

VARIABLES
    ref, object,        \* struct file; object: what type, pipe, ip, writable say
    ofile, alive,       \* struct proc
    pipeopen,           \* the ends <<pipe, "r" or "w">> that are open
    iref,               \* references to inodes by files and system calls
    pc, loc             \* a process inside a system call, and its locals

ftable == <<ref, object>>
objects == <<pipeopen, iref>>
vars == <<ftable, ofile, alive, objects, pc, loc>>

Fds == 0..NOFILE-1

Files == 1..NFILE

NoFile == 0

Nothing == <<"none", "none">>       \* FD_NONE

\* f0, f1: files being made; ip: the inode sys_open has; closing: the files that
\* are to go to fileclose; ff: its local, the file whose last reference went.
NoLocals == [f0 |-> NoFile, f1 |-> NoFile, ip |-> "none", closing |-> << >>,
             ff |-> Nothing, exits |-> FALSE]

NoFiles ==
    /\ ref = [f \in Files |-> 0] /\ object = [f \in Files |-> Nothing]
    /\ ofile = [p \in Procs |-> [d \in Fds |-> NoFile]]
    /\ pipeopen = {} /\ iref = [i \in Inodes |-> 0]
    /\ pc = [p \in Procs |-> "user"] /\ loc = [p \in Procs |-> NoLocals]

\* One process.
Init == NoFiles /\ \E p \in Procs : alive = {p}

At(p, here) == p \in alive /\ pc[p] = here

Goes(p, where, l) ==
    /\ pc' = [pc EXCEPT ![p] = where]
    /\ loc' = [loc EXCEPT ![p] = l]

Returns(p) == Goes(p, "user", NoLocals)

\* The first free entry.
Filealloc(f) ==
    /\ ref[f] = 0 /\ \A g \in 1..f-1 : ref[g] > 0
    /\ ref' = [ref EXCEPT ![f] = 1]

TableFull == \A f \in Files : ref[f] > 0

FreeFds(p) == {d \in Fds : ofile[p][d] = NoFile}

Fdalloc(p, d) == d \in FreeFds(p) /\ \A e \in FreeFds(p) : d <= e

-----------------------------------------------------------------------------
(* fileclose                                                               *)

\* fileclose of these files, then of the inode of a sys_open that failed.
Closes(p, files) == Goes(p, "close", [loc[p] EXCEPT !.closing = files])

KeepsType(f) == UNCHANGED object

FreesEntry(f) == object' = [object EXCEPT ![f] = Nothing]

Fileclose(p) ==
    LET f == Head(loc[p].closing)
        l == [loc[p] EXCEPT !.closing = Tail(@)]
    IN
    /\ At(p, "close") /\ loc[p].closing # << >>
    /\ ref' = [ref EXCEPT ![f] = @ - 1]
    /\ \/ /\ ref[f] > 1
          /\ Goes(p, "close", l)
          /\ UNCHANGED object
       \/ /\ ref[f] = 1
          /\ FreesEntry(f)
          /\ Goes(p, IF object[f] = Nothing THEN "close" ELSE "release",
                  [l EXCEPT !.ff = object[f]])
    /\ UNCHANGED <<ofile, alive, objects>>

\* pipeclose, which frees the page with the second end, or iput.
Release(p) ==
    LET ff == loc[p].ff IN
    /\ At(p, "release")
    /\ \/ ff \in pipeopen /\ pipeopen' = pipeopen \ {ff} /\ UNCHANGED iref
       \/ ff[1] \in Inodes /\ iref' = [iref EXCEPT ![ff[1]] = @ - 1] /\ UNCHANGED pipeopen
    /\ Goes(p, "close", [loc[p] EXCEPT !.ff = Nothing])
    /\ UNCHANGED <<ftable, ofile, alive>>

\* iunlockput(ip) of sys_open; the other calls return, exit does not.
Closed(p) ==
    LET ip == loc[p].ip IN
    /\ At(p, "close") /\ loc[p].closing = << >>
    /\ iref' = [i \in Inodes |-> IF i = ip THEN iref[i] - 1 ELSE iref[i]]
    /\ alive' = IF loc[p].exits THEN alive \ {p} ELSE alive
    /\ Returns(p)
    /\ UNCHANGED <<ftable, ofile, pipeopen>>

SysClose(p, d) ==
    /\ At(p, "user") /\ ofile[p][d] # NoFile
    /\ ofile' = [ofile EXCEPT ![p][d] = NoFile]
    /\ Closes(p, <<ofile[p][d]>>)
    /\ UNCHANGED <<ftable, alive, objects>>

-----------------------------------------------------------------------------
(* sys_dup                                                                 *)

SysDup(p, d) ==
    LET f == ofile[p][d] IN
    /\ At(p, "user") /\ f # NoFile
    /\ \E e \in Fds : Fdalloc(p, e) /\ ofile' = [ofile EXCEPT ![p][e] = f]
    /\ Goes(p, "dup", [NoLocals EXCEPT !.f0 = f])
    /\ UNCHANGED <<ftable, alive, objects>>

Filedup(p) ==
    /\ At(p, "dup") /\ ref[loc[p].f0] >= 1
    /\ ref' = [ref EXCEPT ![loc[p].f0] = @ + 1]
    /\ Returns(p)
    /\ UNCHANGED <<object, ofile, alive, objects>>

-----------------------------------------------------------------------------
(* sys_open                                                                *)

\* namei or create has found the inode, with a reference.
SysOpen(p, i) ==
    /\ At(p, "user")
    /\ iref' = [iref EXCEPT ![i] = @ + 1]
    /\ Goes(p, "open", [NoLocals EXCEPT !.ip = i])
    /\ UNCHANGED <<ftable, ofile, alive, pipeopen>>

OpenFile(p) ==
    /\ At(p, "open")
    /\ \/ /\ TableFull
          /\ Closes(p, << >>)
          /\ UNCHANGED <<ref, ofile>>
       \/ \E f \in Files :
             /\ Filealloc(f)
             /\ \/ /\ FreeFds(p) = {}
                   /\ Closes(p, <<f>>)
                   /\ UNCHANGED ofile
                \/ \E d \in Fds :
                     /\ Fdalloc(p, d)
                     /\ ofile' = [ofile EXCEPT ![p][d] = f]
                     /\ Goes(p, "opened", [loc[p] EXCEPT !.f0 = f])
    /\ UNCHANGED <<object, alive, objects>>

\* After end_op; the descriptor is there already.
Opened(p) ==
    /\ At(p, "opened")
    /\ object' = [object EXCEPT ![loc[p].f0] = <<loc[p].ip, "ip">>]
    /\ Returns(p)
    /\ UNCHANGED <<ref, ofile, alive, objects>>

-----------------------------------------------------------------------------
(* sys_pipe                                                                *)

PipeRead(p) ==
    /\ At(p, "user")
    /\ \E f \in Files : Filealloc(f) /\ Goes(p, "pipe", [NoLocals EXCEPT !.f0 = f])
    /\ UNCHANGED <<object, ofile, alive, objects>>

PipeWrite(p) ==
    /\ At(p, "pipe")
    /\ \/ TableFull /\ Closes(p, <<loc[p].f0>>) /\ UNCHANGED ref
       \/ \E f \in Files : Filealloc(f) /\ Goes(p, "pipe2", [loc[p] EXCEPT !.f1 = f])
    /\ UNCHANGED <<object, ofile, alive, objects>>

IsPage(a) == {<<a, "r">>, <<a, "w">>} \cap pipeopen = {}

\* kalloc fails: bad, in pipealloc.
PipeNoMemory(p) ==
    /\ At(p, "pipe2")
    /\ Closes(p, <<loc[p].f0, loc[p].f1>>)
    /\ UNCHANGED <<ftable, ofile, alive, objects>>

ClosesOne(p) == Closes(p, <<loc[p].f1>>)

ClosesBoth(p) == Closes(p, <<loc[p].f0, loc[p].f1>>)

\* The rest of pipealloc, and the two descriptors; a first one without a second is
\* given back.
PipeMake(p) ==
    LET f == loc[p].f0  g == loc[p].f1 IN
    /\ At(p, "pipe2")
    /\ \E a \in Pipes :
          /\ IsPage(a)
          /\ object' = [object EXCEPT ![f] = <<a, "r">>, ![g] = <<a, "w">>]
          /\ pipeopen' = pipeopen \cup {<<a, "r">>, <<a, "w">>}
    /\ \/ /\ Cardinality(FreeFds(p)) < 2
          /\ ClosesBoth(p)
          /\ UNCHANGED ofile
       \/ \E d, e \in Fds :
             /\ Fdalloc(p, d) /\ e \in FreeFds(p) \ {d}
             /\ \A x \in FreeFds(p) \ {d} : e <= x
             /\ ofile' = [ofile EXCEPT ![p][d] = f, ![p][e] = g]
             /\ Returns(p)
    /\ UNCHANGED <<ref, alive, iref>>

-----------------------------------------------------------------------------
(* fork (and clone), exit                                                  *)

FdsOf(p, f) == {d \in Fds : ofile[p][d] = f}

\* filedup for each descriptor.
DupsAll(p) == ref' = [f \in Files |-> ref[f] + Cardinality(FdsOf(p, f))]

Fork(p, child) ==
    /\ At(p, "user") /\ child \notin alive
    /\ alive' = alive \cup {child}
    /\ ofile' = [ofile EXCEPT ![child] = ofile[p]]
    /\ DupsAll(p)
    /\ UNCHANGED <<object, objects, pc, loc>>

\* fileclose of every descriptor. Somebody, init at least, stays.
Exit(p) ==
    /\ At(p, "user") /\ \E q \in alive \ {p} : ~loc[q].exits
    /\ ofile' = [ofile EXCEPT ![p] = [d \in Fds |-> NoFile]]
    /\ Goes(p, "close", [NoLocals EXCEPT !.exits = TRUE, !.closing =
            SelectSeq([k \in 1..NOFILE |-> ofile[p][k - 1]], LAMBDA f : f # NoFile)])
    /\ UNCHANGED <<ftable, alive, objects>>

Next ==
    \E p \in Procs :
        \/ Fileclose(p) \/ Release(p) \/ Closed(p)
        \/ \E d \in Fds : SysClose(p, d) \/ SysDup(p, d)
        \/ Filedup(p)
        \/ \E i \in Inodes : SysOpen(p, i)
        \/ OpenFile(p) \/ Opened(p)
        \/ PipeRead(p) \/ PipeWrite(p) \/ PipeNoMemory(p) \/ PipeMake(p)
        \/ \E child \in Procs : Fork(p, child)
        \/ Exit(p)

Spec == Init /\ [][Next]_vars

-----------------------------------------------------------------------------
(* Properties                                                              *)

\* A call that makes files has them in f0 and f1, before they have descriptors.
Made(p) ==
    IF pc[p] = "pipe" THEN {loc[p].f0}
    ELSE IF pc[p] = "pipe2" THEN {loc[p].f0, loc[p].f1} ELSE {}

\* References to f that process p has: its descriptors (the newest of a dup does
\* not count yet), and what its call under way has taken or is to close.
RefsOf(p, f) ==
    Cardinality(FdsOf(p, f)) - (IF pc[p] = "dup" /\ loc[p].f0 = f THEN 1 ELSE 0)
    + Cardinality({k \in 1..Len(loc[p].closing) : loc[p].closing[k] = f})
    + Cardinality(Made(p) \cap {f})

\* What is behind a file is held once, by a file that somebody has open or by the
\* fileclose that is about to let it go.
Holders(o) ==
    Cardinality({f \in Files : ref[f] > 0 /\ object[f] = o})
    + Cardinality({p \in Procs : loc[p].ff = o})

\* "ref: reference count": the descriptors of all processes and the calls under
\* way account for it exactly, through dup, fork and exit and when open or pipe
\* fail half-way, so no entry of ftable leaks and none is reused while open; and
\* an end of a pipe is closed by its last descriptor and by nobody else, in
\* particular not by a sys_open or sys_pipe that gets the entry later and gives it
\* back; and inodes likewise.
FilesAccounted ==
    /\ \A f \in Files : ref[f] = MapThenSumSet(LAMBDA p : RefsOf(p, f), Procs)
    /\ \A a \in Pipes, end \in {"r", "w"} :
           Holders(<<a, end>>) = IF <<a, end>> \in pipeopen THEN 1 ELSE 0
    /\ \A i \in Inodes :
           iref[i] = Holders(<<i, "ip">>) + Cardinality({p \in Procs : loc[p].ip = i})
=============================================================================
