------------------------------ MODULE BufferCache ------------------------------
(***************************************************************************)
(* The buffer cache and the IDE driver (Xv6-Threads/src/bio.c, ide.c).     *)
(* One action is one critical section of bcache.lock or idelock, one step  *)
(* of a buffer's sleep-lock, or the interrupt of the disk. A process uses  *)
(* one buffer at a time.                                                   *)
(***************************************************************************)
EXTENDS Integers, Sequences, SequencesExt

CONSTANTS Procs, NoProc, Bufs, NoBuf, Blocks, NoBlock, Vals,
          MaxPinned     \* blocks the log keeps dirty in the cache: LOGSIZE

ASSUME NamesAssumption  == NoProc \notin Procs /\ NoBuf \notin Bufs /\ NoBlock \notin Blocks
ASSUME FiniteAssumption == IsFiniteSet(Bufs) /\ IsFiniteSet(Procs)
ASSUME ValuesAssumption == MaxPinned \in Nat

VARIABLES
    blockno, refcnt, valid, dirty, data,    \* struct buf
    holder,                                 \* owner of the buffer's sleep-lock
    lru,                                    \* bcache.head's list, MRU first
    idequeue,
    disk,
    pc, buf,                                \* a process and the buffer it has
    panicked

bcache == <<blockno, refcnt, lru>>
content == <<valid, dirty, data>>
vars == <<bcache, content, holder, idequeue, disk, pc, buf, panicked>>

Init ==
    /\ blockno = [b \in Bufs |-> NoBlock]
    /\ refcnt = [b \in Bufs |-> 0]
    /\ valid = [b \in Bufs |-> FALSE] /\ dirty = [b \in Bufs |-> FALSE]
    /\ \E v \in Vals : data = [b \in Bufs |-> v]
    /\ holder = [b \in Bufs |-> NoProc]
    /\ lru \in SetToSeqs(Bufs)
    /\ idequeue = << >>
    /\ disk \in [Blocks -> Vals]
    /\ pc = [p \in Procs |-> "idle"]
    /\ buf = [p \in Procs |-> NoBuf]
    /\ panicked = FALSE

At(p, here) == ~panicked /\ pc[p] = here

Goto(p, where) == pc' = [pc EXCEPT ![p] = where]

-----------------------------------------------------------------------------
(* bget                                                                    *)

InUse(n) == {b \in Bufs : blockno[b] = n /\ refcnt[b] > 0}

Cached(n) == {b \in Bufs : blockno[b] = n}

GetHit(p, n) ==
    \E b \in Cached(n) :
        /\ At(p, "idle")
        /\ refcnt' = [refcnt EXCEPT ![b] = @ + 1]
        /\ buf' = [buf EXCEPT ![p] = b]
        /\ Goto(p, "lock")
        /\ UNCHANGED <<blockno, lru, content, holder, idequeue, disk, panicked>>

UnusedOrDirty(b) == refcnt[b] = 0

\* "Even if refcnt==0, B_DIRTY indicates a buffer is in use."
Recyclable(b) == refcnt[b] = 0 /\ ~dirty[b]

ClearFlags(b) == valid' = [valid EXCEPT ![b] = FALSE]

\* Nobody has the block: the least recently used buffer that is free gets it.
GetMiss(p, n) ==
    \E i \in 1..Len(lru) :
        LET b == lru[i] IN
        /\ At(p, "idle")
        /\ Cached(n) = {}
        /\ Recyclable(b) /\ \A j \in i+1..Len(lru) : ~Recyclable(lru[j])
        /\ blockno' = [blockno EXCEPT ![b] = n]
        /\ ClearFlags(b)
        /\ dirty' = [dirty EXCEPT ![b] = FALSE]
        /\ refcnt' = [refcnt EXCEPT ![b] = 1]
        /\ buf' = [buf EXCEPT ![p] = b]
        /\ Goto(p, "lock")
        /\ UNCHANGED <<lru, data, holder, idequeue, disk, panicked>>

\* panic("bget: no buffers")
GetNone(p, n) ==
    /\ At(p, "idle")
    /\ Cached(n) = {} /\ \A b \in Bufs : ~Recyclable(b)
    /\ panicked' = TRUE
    /\ UNCHANGED <<bcache, content, holder, idequeue, disk, pc, buf>>

LockFree(b) == holder[b] = NoProc

\* acquiresleep, then bread's test of B_VALID.
Lock(p) ==
    /\ At(p, "lock") /\ LockFree(buf[p])
    /\ holder' = [holder EXCEPT ![buf[p]] = p]
    /\ Goto(p, IF valid[buf[p]] THEN "holding" ELSE "iderw")
    /\ UNCHANGED <<bcache, content, idequeue, disk, buf, panicked>>

-----------------------------------------------------------------------------
(* What the holder does: fs.c and log.c change the data and log_write it,  *)
(* log.c writes it out.                                                    *)

Change(p, v) ==
    /\ At(p, "holding")
    /\ data' = [data EXCEPT ![buf[p]] = v]
    /\ Goto(p, "changed")
    /\ UNCHANGED <<bcache, valid, dirty, holder, idequeue, disk, buf, panicked>>

Pinned == {b \in Bufs : dirty[b]}

\* log_write; begin_op keeps the number of logged blocks in bounds.
LogWrite(p) ==
    /\ At(p, "changed")
    /\ Cardinality(Pinned \cup {buf[p]}) <= MaxPinned
    /\ dirty' = [dirty EXCEPT ![buf[p]] = TRUE]
    /\ Goto(p, "holding")
    /\ UNCHANGED <<bcache, valid, data, holder, idequeue, disk, buf, panicked>>

Bwrite(p) ==
    /\ At(p, "changed") \/ (At(p, "holding") /\ dirty[buf[p]])
    /\ dirty' = [dirty EXCEPT ![buf[p]] = TRUE]
    /\ Goto(p, "iderw")
    /\ UNCHANGED <<bcache, valid, data, holder, idequeue, disk, buf, panicked>>

BrelseUnlock(p) ==
    /\ At(p, "holding")
    /\ holder' = [holder EXCEPT ![buf[p]] = NoProc]
    /\ Goto(p, "brelse")
    /\ UNCHANGED <<bcache, content, idequeue, disk, buf, panicked>>

ToFront(b) == <<b>> \o SelectSeq(lru, LAMBDA c : c # b)

Unref(b) == refcnt' = [refcnt EXCEPT ![b] = @ - 1]

BrelseDrop(p) ==
    /\ At(p, "brelse")
    /\ Unref(buf[p])
    /\ lru' = IF refcnt[buf[p]] = 1 THEN ToFront(buf[p]) ELSE lru
    /\ buf' = [buf EXCEPT ![p] = NoBuf]
    /\ Goto(p, "idle")
    /\ UNCHANGED <<blockno, content, holder, idequeue, disk, panicked>>

-----------------------------------------------------------------------------
(* iderw and ideintr                                                       *)

ReplaceQueue(b) == idequeue' = <<b>>

Enqueue(b) == idequeue' = Append(idequeue, b)

Done(b) == valid[b] /\ ~dirty[b]

\* The request is queued; the flags cannot change before idelock is released
\* by sleep. ("nothing to do" is a panic.)
Iderw(p) ==
    /\ At(p, "iderw")
    /\ panicked' = Done(buf[p])
    /\ Enqueue(buf[p])
    /\ Goto(p, "iosleep")
    /\ UNCHANGED <<bcache, content, holder, disk, buf>>

WakeWaiters(b) ==
    pc' = [p \in Procs |-> IF pc[p] = "iosleep" /\ buf[p] = b THEN "iowoken"
                           ELSE pc[p]]

\* The interrupt for the request at the head, which the disk has done without
\* an error.
Ideintr ==
    LET b == Head(idequeue) IN
    /\ ~panicked /\ idequeue # << >>
    /\ idequeue' = Tail(idequeue)
    /\ \/ /\ dirty[b]
          /\ disk' = [disk EXCEPT ![blockno[b]] = data[b]] /\ UNCHANGED data
       \/ /\ ~dirty[b]
          /\ data' = [data EXCEPT ![b] = disk[blockno[b]]] /\ UNCHANGED disk
    /\ valid' = [valid EXCEPT ![b] = TRUE]
    /\ dirty' = [dirty EXCEPT ![b] = FALSE]
    /\ WakeWaiters(b)
    /\ UNCHANGED <<bcache, holder, buf, panicked>>

\* while((b->flags & (B_VALID|B_DIRTY)) != B_VALID) sleep(b, &idelock)
IderwRetry(p) ==
    /\ At(p, "iowoken")
    /\ Goto(p, IF Done(buf[p]) THEN "holding" ELSE "iosleep")
    /\ UNCHANGED <<bcache, content, holder, idequeue, disk, buf, panicked>>

\* kill makes the sleeper runnable.
Kill(p) ==
    /\ At(p, "iosleep")
    /\ Goto(p, "iowoken")
    /\ UNCHANGED <<bcache, content, holder, idequeue, disk, buf, panicked>>

Halted == panicked /\ UNCHANGED vars

-----------------------------------------------------------------------------
Bget(p) == \E n \in Blocks : GetHit(p, n) \/ GetMiss(p, n) \/ GetNone(p, n)

InKernel(p) == Lock(p) \/ Iderw(p) \/ IderwRetry(p) \/ BrelseDrop(p)

Uses(p) == LogWrite(p) \/ Bwrite(p) \/ BrelseUnlock(p) \/ \E v \in Vals : Change(p, v)

Next == Ideintr \/ Halted \/ \E p \in Procs : Bget(p) \/ InKernel(p) \/ Uses(p) \/ Kill(p)

Spec == Init /\ [][Next]_vars

-----------------------------------------------------------------------------
(* Properties                                                              *)

\* A block is cached in at most one buffer, and a buffer is recycled under nobody,
\* however lookups and recycling interleave: its count is that of the processes
\* that have it, and the owner of its lock is one of them. The list lru, relinked by
\* every brelse, keeps each buffer once.
BuffersCounted ==
    /\ Len(lru) = Cardinality(Bufs) /\ \A b \in Bufs : \E i \in 1..Len(lru) : lru[i] = b
    /\ \A b, c \in Bufs : blockno[b] = blockno[c] => b = c \/ blockno[b] = NoBlock
    /\ \A b \in Bufs :
           /\ refcnt[b] = Cardinality({p \in Procs : buf[p] = b})
           /\ holder[b] # NoProc => buf[holder[b]] = b

\* A request is on the queue once, for a process that waits for it with the
\* buffer locked: the interrupt of one request never completes another. And a
\* process sleeps in iderw only while its request is on the queue: a completion
\* before the sleep, or after a kill that woke it too early, is not missed.
QueueMatchesWaiters ==
    /\ \A i, j \in 1..Len(idequeue) : idequeue[i] = idequeue[j] => i = j
    /\ \A b \in Bufs :
           (\E i \in 1..Len(idequeue) : idequeue[i] = b) <=>
           \E p \in Procs : /\ buf[p] = b /\ holder[b] = p /\ ~Done(b)
                            /\ pc[p] \in {"iosleep", "iowoken"}
    /\ \A p \in Procs : pc[p] = "iosleep" =>
           \E i \in 1..Len(idequeue) : idequeue[i] = buf[p]

\* The cache implements a store in which every block has one contents, seen and
\* changed by one process at a time, through eviction and concurrent misses.
Valid(n) == {b \in Cached(n) : valid[b]}

Users(n) == {p \in Procs : \E b \in Cached(n) : holder[b] = p}

Abstract == INSTANCE BlockStore
    WITH store <- [n \in Blocks |-> IF Valid(n) = {} THEN disk[n]
                                    ELSE data[CHOOSE b \in Valid(n) : TRUE]],
         user  <- [n \in Blocks |-> IF Users(n) = {} THEN NoProc
                                    ELSE CHOOSE p \in Users(n) : TRUE]

BlockStoreSpec == Abstract!Spec

=============================================================================
