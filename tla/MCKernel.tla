------------------------------- MODULE MCKernel -------------------------------
(* What system calls on files and memory go through, side by side: a behaviour  *)
(* is one of FileTable, Inode, FileBlocks or Memory, of the locks under them,   *)
(* SleepLock or Spinlock, or of programs that use them, the allocator Malloc    *)
(* and the shell Seush, and the variables of the others stay.                   *)
EXTENDS SleepLock, TLC

CONSTANTS Users,        \* the processes of all parts but SleepLock
          CPUs, Locks, Ptable, NoCpu, MaxDepth,
          NINODES, Names, NFILE, NOFILE, Pipes, Inodes,
          OpenFiles, NoOpenFile, Vals, NDIRECT, NINDIRECT, NBLOCKS, Lengths, CHUNK,
          NPROC, NPAGES, MaxSize, Steps,
          HEAP, MORE, Requests, MAXCMDS, BUFLINES

VARIABLES
    part,
    iflag, ncli, intena, running, cpu, stack,
    dinode, dir, mem, valid, ref, ilock, ipc, iloc, cwd, fd, prog, strays, raced,
    fref, object, ofile, alive, pipeopen, iref, fpc, floc,
    used, data, addrs, size, open, ino, off, file, rest, word, out,
    free, dirs, ktab, utab, mapped, live, pgdir, sz, kstack, mpc, mloc, resized, mpanicked,
    heap, brk, given, cores,
    batch, offset, next, end, bpc, todo, haspath, child, last, again, moved

-----------------------------------------------------------------------------
(* What programs the inodes serve: to remove and make one name while it is      *)
(* open, linked, a directory or a current directory; and names that lead back.  *)

Makes(calls, paths) == [calls |-> calls, paths |-> paths]

Programs == {
    Makes({"create", "mkdir", "unlink"}, {<<"a">>, <<"a", "b">>}),
    Makes({"link", "create", "unlink"}, {<<"a">>, <<"b">>}),
    Makes({"link", "create", "unlink"}, {<<"a">>, <<".">>}),
    Makes({"mkdir", "create", "link"}, {<<"a">>, <<"a", ".">>}),
    Makes({"open", "create", "unlink", "close"}, {<<"a">>}),
    Makes({"mkdir", "chdir", "unlink"}, {<<"a">>, <<"..">>}) }

Spins == INSTANCE Spinlock WITH Procs <- Users

Inds == INSTANCE Inode WITH Procs <- Users, lock <- ilock, pc <- ipc, loc <- iloc

Table == INSTANCE FileTable WITH Procs <- Users, ref <- fref, pc <- fpc, loc <- floc

Data == INSTANCE FileBlocks WITH Procs <- Users

Mem == INSTANCE Memory WITH pc <- mpc, loc <- mloc, panicked <- mpanicked

Heap == INSTANCE Malloc

\* Programs that work or give up, alone and side by side, and what the shell does
\* itself.
Batches ==
    [1..3 -> {<<"prog">>, <<"deny">>, <<"deny", "prog">>, <<"deny", "deny">>}]
    \cup {<< <<"unknown", "prog">>, << >>, <<"path", "prog">>, <<"prog", "exit">>,
             <<"prog">> >>}

Batch == INSTANCE Seush WITH pc <- bpc

lockvars == vars
spinvars == <<iflag, ncli, intena, running, cpu, stack>>
indvars == <<dinode, dir, mem, valid, ref, ilock, ipc, iloc, cwd, fd, prog, strays, raced>>
tabvars == <<fref, object, ofile, alive, pipeopen, iref, fpc, floc>>
datavars == <<used, data, addrs, size, open, ino, off, file, rest, word, out>>
memvars == <<free, dirs, ktab, utab, mapped, live, pgdir, sz, kstack, mpc, mloc, resized,
             mpanicked>>
heapvars == <<heap, brk, given, cores>>
batchvars == <<batch, offset, next, end, bpc, todo, haspath, child, last, again, moved>>

allvars == <<part, lockvars, spinvars, indvars, tabvars, datavars, memvars, heapvars, batchvars>>

\* A part that does not move has one initial state.
MCInit ==
    /\ part \in {"sleeplock", "spinlock", "inode", "filetable", "fileblocks",
                "memory", "malloc", "seush"}
    /\ Init /\ Spins!Init /\ Inds!Init /\ Table!NoFiles /\ Data!Init /\ Mem!Init
    /\ Heap!Init /\ Batch!Init
    /\ part # "seush" => batch = CHOOSE b \in Batches : TRUE
    /\ part # "inode" => prog = CHOOSE p \in Programs : TRUE
    /\ IF part = "filetable" THEN Table!Init ELSE alive = Users
    /\ part # "fileblocks" => ino = [f \in OpenFiles |-> CHOOSE i \in Inodes : TRUE]

MCNext ==
    /\ \/ /\ part = "sleeplock" /\ Next
          /\ UNCHANGED <<spinvars, indvars, tabvars, datavars, memvars, heapvars, batchvars>>
       \/ /\ part = "spinlock" /\ Spins!Next
          /\ UNCHANGED <<lockvars, indvars, tabvars, datavars, memvars, heapvars, batchvars>>
       \/ /\ part = "inode" /\ Inds!Next
          /\ UNCHANGED <<lockvars, spinvars, tabvars, datavars, memvars, heapvars, batchvars>>
       \/ /\ part = "filetable" /\ Table!Next
          /\ UNCHANGED <<lockvars, spinvars, indvars, datavars, memvars, heapvars, batchvars>>
       \/ /\ part = "fileblocks" /\ Data!Next
          /\ UNCHANGED <<lockvars, spinvars, indvars, tabvars, memvars, heapvars, batchvars>>
       \/ /\ part = "memory" /\ Mem!Next
          /\ UNCHANGED <<lockvars, spinvars, indvars, tabvars, datavars, heapvars, batchvars>>
       \/ /\ part = "malloc" /\ Heap!Next
          /\ UNCHANGED <<lockvars, spinvars, indvars, tabvars, datavars, memvars, batchvars>>
       \/ /\ part = "seush" /\ Batch!Next
          /\ UNCHANGED <<lockvars, spinvars, indvars, tabvars, datavars, memvars, heapvars>>
    /\ UNCHANGED part

MCSpec == MCInit /\ [][MCNext]_allvars

Symmetric == Permutations(Users)

-----------------------------------------------------------------------------
(* The properties of the parts, which say of themselves what they mean.         *)

\* No panic of spinlock.c or sched.
NoPanic == part = "spinlock" => Spins!NoPanic

\* Code that holds no lock has interrupts on, but handlers.
InterruptsRestored == part = "spinlock" => Spins!InterruptsRestored

\* An inode has as many links as names.
LinksCounted == part = "inode" => Inds!LinksCounted

\* An inode is freed when nothing refers to it, and not before.
FreedWhenUnused == part = "inode" => Inds!FreedWhenUnused

\* Processes wait for inodes in a circle only by way of iput.
CircleNeedsIput == part = "inode" => Inds!CircleNeedsIput

\* Open files, ends of pipes and inodes are accounted for.
FilesAccounted == part = "filetable" => Table!FilesAccounted

\* A block has one owner.
BlocksOwned == part = "fileblocks" => Data!BlocksOwned

\* A read returns what was written last.
FilesSpec == Data!FilesSpec


\* The size of a process is what is mapped.
SizeIsMapped == part = "memory" => Mem!SizeIsMapped

\* The blocks of malloc are all its memory, disjoint and joined.
HeapSound == part = "malloc" => Heap!HeapSound

\* A line of a batch file is done before the next one, and not done again.
OneLineAtATime == part = "seush" => Batch!OneLineAtATime
===============================================================================
