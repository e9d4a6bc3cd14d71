--------------------------------- MODULE Pipe ---------------------------------
(***************************************************************************)
(* A pipe (Xv6-Threads/src/pipe.c) between processes that inherit its ends *)
(* by fork, close them and may be killed. One action is one critical       *)
(* section of p->lock up to the next sleep; the moment between the test of *)
(* p->killed and the sleep, which only kill can use, is a state of its own *)
(* ("doze") in which the lock is held.                                     *)
(***************************************************************************)
EXTENDS Integers, Sequences, FiniteSets

CONSTANTS Procs,
          Killable,   \* processes that somebody may kill
          Bytes,
          PIPESIZE,
          UINT,       \* number of values of the type uint
          Sizes       \* the n that programs pass to read and write

ASSUME ProcsAssumption == Killable \subseteq Procs /\ Procs # {}
\* 2^32 is a multiple of the size of the pipe, and larger.
ASSUME SizeAssumption  ==
    /\ PIPESIZE \in Nat \ {0} /\ Sizes \subseteq Nat \ {0}
    /\ \E k \in 2..UINT : UINT = k * PIPESIZE

VARIABLES
    data, nread, nwrite,    \* struct pipe
    readopen, writeopen,
    holds,                  \* ends of the pipe in each process's ofile table
    pc, killed,
    buf,                    \* bytes a writer has still to write
    want,                   \* n of a reader
    out                     \* <<bytes>> after a piperead that returns them

pipe == <<data, nread, nwrite, readopen, writeopen>>
vars == <<pipe, holds, pc, killed, buf, want, out>>

Init ==
    /\ data \in [0..PIPESIZE-1 -> Bytes]
    /\ nread = 0 /\ nwrite = 0
    /\ readopen = TRUE /\ writeopen = TRUE
    /\ \E p \in Procs :
           holds = [q \in Procs |-> IF q = p THEN {"r", "w"} ELSE {}]
    /\ pc = [p \in Procs |-> "idle"]
    /\ killed = [p \in Procs |-> FALSE]
    /\ buf = [p \in Procs |-> << >>]
    /\ want = [p \in Procs |-> 0]
    /\ out = << >>

-----------------------------------------------------------------------------
Smaller(a, b) == IF a <= b THEN a ELSE b

\* The counters run through the whole type and wrap.
Advance(i, k) == (i + k) % UINT

Count == (nwrite - nread) % UINT

OneByteMore == PIPESIZE + 1 - Count

Room == PIPESIZE - Count

\* acquire(&p->lock) succeeds: nobody is on the way to sleep with it.
LockFree == \A q \in Procs : pc[q] \notin {"rdoze", "wdoze"}

\* wakeup(&p->nread) wakes "rasleep", wakeup(&p->nwrite) the other: a
\* sleeper on the channel goes back to its loop.
Back(state) == IF state = "rasleep" THEN "read" ELSE "write"

WakeAll(where, chan) ==
    [q \in DOMAIN where |-> IF where[q] = chan THEN Back(chan) ELSE where[q]]

Goto(p, where) == pc' = [pc EXCEPT ![p] = where]

WakeAndGoto(chan, p, where) == pc' = [WakeAll(pc, chan) EXCEPT ![p] = where]

\* Nothing is read in this step.
Quiet == out' = << >>

-----------------------------------------------------------------------------
(* pipewrite                                                               *)

WriteCall(p) ==
    /\ pc[p] = "idle" /\ ~killed[p] /\ "w" \in holds[p]
    /\ \E n \in Sizes : \E s \in [1..n -> Bytes] :
           buf' = [buf EXCEPT ![p] = s]
    /\ Goto(p, "write")
    /\ Quiet
    /\ UNCHANGED <<pipe, holds, killed, want>>

\* The loop up to the end of the buffer or of the room in the pipe.
Fill(p) ==
    LET k == Smaller(Len(buf[p]), Room) IN
    /\ data' = [i \in 0..PIPESIZE-1 |->
                  LET at == ((i - nwrite) % PIPESIZE) + 1
                  IN IF at <= k THEN buf[p][at] ELSE data[i]]
    /\ nwrite' = Advance(nwrite, k)
    /\ UNCHANGED <<nread, readopen, writeopen>>

WriteAll(p) ==
    /\ pc[p] = "write" /\ LockFree
    /\ Len(buf[p]) <= Room
    /\ Fill(p)
    /\ buf' = [buf EXCEPT ![p] = << >>]
    /\ WakeAndGoto("rasleep", p, "idle")
    /\ Quiet
    /\ UNCHANGED <<holds, killed, want>>

\* return -1: what fitted stays in the pipe, and nobody is woken.
WriteFails(p) ==
    /\ pc[p] = "write" /\ LockFree
    /\ Len(buf[p]) > Room
    /\ ~readopen \/ killed[p]
    /\ Fill(p)
    /\ buf' = [buf EXCEPT ![p] = << >>]
    /\ Goto(p, "idle")
    /\ Quiet
    /\ UNCHANGED <<holds, killed, want>>

NoWakeWhenFull(p) == Goto(p, "wdoze")

WakeWhenFull(p) == WakeAndGoto("rasleep", p, "wdoze")

WriteFull(p) ==
    /\ pc[p] = "write" /\ LockFree
    /\ Len(buf[p]) > Room
    /\ readopen /\ ~killed[p]
    /\ Fill(p)
    /\ buf' = [buf EXCEPT ![p] = SubSeq(buf[p], Room + 1, Len(buf[p]))]
    /\ WakeWhenFull(p)
    /\ Quiet
    /\ UNCHANGED <<holds, killed, want>>

-----------------------------------------------------------------------------
(* piperead                                                                *)

ReadCall(p) ==
    /\ pc[p] = "idle" /\ ~killed[p] /\ "r" \in holds[p]
    /\ \E n \in Sizes : want' = [want EXCEPT ![p] = n]
    /\ Goto(p, "read")
    /\ Quiet
    /\ UNCHANGED <<pipe, holds, killed, buf>>

WaitsForData == nread = nwrite /\ writeopen

ReadFails(p) ==
    /\ pc[p] = "read" /\ LockFree
    /\ WaitsForData /\ killed[p]
    /\ want' = [want EXCEPT ![p] = 0]
    /\ Goto(p, "idle")
    /\ Quiet
    /\ UNCHANGED <<pipe, holds, killed, buf>>

ReadEmpty(p) ==
    /\ pc[p] = "read" /\ LockFree
    /\ WaitsForData /\ ~killed[p]
    /\ Goto(p, "rdoze")
    /\ Quiet
    /\ UNCHANGED <<pipe, holds, killed, buf, want>>

Read(p) ==
    LET k == Smaller(want[p], Count) IN
    /\ pc[p] = "read" /\ LockFree
    /\ ~WaitsForData
    /\ out' = <<[i \in 1..k |-> data[(nread + i - 1) % PIPESIZE]]>>
    /\ nread' = Advance(nread, k)
    /\ want' = [want EXCEPT ![p] = 0]
    /\ WakeAndGoto("wasleep", p, "idle")
    /\ UNCHANGED <<data, nwrite, readopen, writeopen, holds, killed, buf>>

-----------------------------------------------------------------------------
(* sleep, kill, and what happens to the file descriptors                   *)

Sleep(p) ==
    /\ \/ pc[p] = "rdoze" /\ Goto(p, "rasleep")
       \/ pc[p] = "wdoze" /\ Goto(p, "wasleep")
    /\ Quiet
    /\ UNCHANGED <<pipe, holds, killed, buf, want>>

Kill(p) ==
    /\ p \in Killable /\ ~killed[p] /\ holds[p] # {}
    /\ killed' = [killed EXCEPT ![p] = TRUE]
    /\ Goto(p, IF pc[p] \in {"rasleep", "wasleep"} THEN Back(pc[p]) ELSE pc[p])
    /\ Quiet
    /\ UNCHANGED <<pipe, holds, buf, want>>

\* fileclose: only the last reference calls pipeclose.
LastRef(p, end) == \A q \in Procs \ {p} : end \notin holds[q]

WakesNobody(end) == UNCHANGED pc

\* pipeclose wakes those who wait for the other end.
WakeOtherEnd(end) ==
    pc' = WakeAll(pc, IF end = "w" THEN "rasleep" ELSE "wasleep")

\* sys_close, or exit of the process.
Close(p, end) ==
    /\ pc[p] = "idle" /\ end \in holds[p]
    /\ holds' = [holds EXCEPT ![p] = @ \ {end}]
    /\ \/ /\ ~LastRef(p, end)
          /\ UNCHANGED <<readopen, writeopen, pc>>
       \/ /\ LastRef(p, end) /\ LockFree
          /\ writeopen' = (writeopen /\ end # "w")
          /\ readopen' = (readopen /\ end # "r")
          /\ WakeOtherEnd(end)
    /\ Quiet
    /\ UNCHANGED <<data, nread, nwrite, killed, buf, want>>

\* fork: filedup of every open file, for a process that does not exist yet (a
\* killed one does not come back).
Fork(p, child) ==
    /\ pc[p] = "idle" /\ ~killed[p] /\ holds[p] # {}
    /\ pc[child] = "idle" /\ holds[child] = {} /\ ~killed[child]
    /\ holds' = [holds EXCEPT ![child] = holds[p]]
    /\ Quiet
    /\ UNCHANGED <<pipe, pc, killed, buf, want>>

InKernel(p) ==
    \/ WriteAll(p) \/ WriteFails(p) \/ WriteFull(p)
    \/ ReadFails(p) \/ ReadEmpty(p) \/ Read(p)
    \/ Sleep(p)

Next ==
    \E p \in Procs :
        \/ InKernel(p) \/ WriteCall(p) \/ ReadCall(p) \/ Kill(p)
        \/ \E end \in {"r", "w"} : Close(p, end)
        \/ \E child \in Procs \ {p} : Fork(p, child)

Spec == Init /\ [][Next]_vars

\* A process inside a system call is scheduled until it sleeps or returns. What
\* programs do with the pipe (read, write, close, fork, kill) is up to them.
FairSpec == Spec /\ \A p \in Procs : WF_vars(InKernel(p))

-----------------------------------------------------------------------------
(* Properties                                                              *)

\* "pipe-empty": a reader sleeps only while there is nothing to read and somebody
\* may still write.
ReaderWaits == \A p \in Procs : pc[p] = "rasleep" => nread = nwrite /\ writeopen

\* "pipe-empty", "pipewrite-full": a process sleeps in the pipe only while what
\* it waits for has not happened, so no wakeup was missed; as long as nobody is
\* killed, for readers.
SleepersWait ==
    /\ \A p \in Procs : pc[p] = "wasleep" => Count = PIPESIZE /\ readopen
    /\ ReaderWaits \/ \E q \in Procs : killed[q]

\* The pipe implements a bounded first-in first-out queue, also when the uint
\* counters wrap and several readers and writers interleave.
Abstract == INSTANCE Fifo
    WITH Capacity <- PIPESIZE,
         queue    <- [i \in 1..Count |-> data[(nread + i - 1) % PIPESIZE]],
         writing  <- writeopen

FifoSpec == Abstract!Spec

\* When the last write end closes, every read under way returns, with what is
\* left or with the end of file; when the last read end closes, every write under
\* way returns.
OtherEndSeen ==
    \A p \in Procs :
        /\ (pc[p] \in {"read", "rdoze", "rasleep"} /\ ~writeopen) ~> (pc[p] = "idle")
        /\ (pc[p] \in {"write", "wdoze", "wasleep"} /\ ~readopen) ~> (pc[p] = "idle")

=============================================================================
