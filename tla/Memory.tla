-------------------------------- MODULE Memory --------------------------------
(***************************************************************************)
(* Pages and address spaces (Xv6-Threads/src/kalloc.c, vm.c): what fork,   *)
(* clone, exec, sbrk and wait do with them (proc.c, exec.c), one critical  *)
(* section of kmem.lock at a time; freevm and deallocuvm, which only give  *)
(* pages back, are one step. Pages are alike, so they are counted: a page  *)
(* given back twice or never shows in the sum. Threads share a space (a    *)
(* page directory), each with a size of its own. The kernel's part of a    *)
(* space has one page table, and so has the user's, which walkpgdir makes  *)
(* when it is needed.                                                      *)
(***************************************************************************)
EXTENDS Integers, FiniteSets

LOCAL INSTANCE FiniteSetsExt

CONSTANTS NPROC,
          NPAGES,       \* pages of physical memory
          MaxSize,      \* bound on the size of an address space, in pages
          Steps         \* the pages that exec and sbrk ask for

VARIABLES
    free,               \* length of kmem.freelist
    dirs, ktab, utab,   \* spaces that have a directory, and page tables
    mapped,             \* the user pages of a space
    live, pgdir, sz, kstack,    \* struct proc
    pc, loc,            \* a process inside a system call, and its locals
    resized,            \* history: spaces whose size changed while shared
    panicked

space == <<dirs, ktab, utab, mapped>>
proc == <<live, pgdir, sz, kstack>>
vars == <<free, space, proc, pc, loc, resized, panicked>>

Entries == 1..NPROC

\* It stays for ever, and keeps its program.
InitProc == 1

\* A process has one and builds another.
Spaces == 1..2*NPROC

\* d: the space that is filled from page a up to size "to", which was "from"; mem:
\* is there a page to map next; np: the child of fork or clone.
NoLocals == [call |-> "none", d |-> 0, a |-> 0, to |-> 0, from |-> 0,
             mem |-> FALSE, np |-> 0]

\* userinit: one process of one page.
Init ==
    /\ free = NPAGES - 5
    /\ dirs = {1} /\ ktab = {1} /\ utab = {1}
    /\ mapped = [d \in Spaces |-> IF d = 1 THEN {0} ELSE {}]
    /\ live = {1} /\ kstack = {1}
    /\ pgdir = [p \in Entries |-> IF p = 1 THEN 1 ELSE 0]
    /\ sz = [p \in Entries |-> IF p = 1 THEN 1 ELSE 0]
    /\ pc = [p \in Entries |-> "user"] /\ loc = [p \in Entries |-> NoLocals]
    /\ resized = {} /\ panicked = FALSE

At(p, here) == ~panicked /\ p \in live /\ pc[p] = here

Goes(p, where, l) ==
    /\ pc' = [pc EXCEPT ![p] = where]
    /\ loc' = [loc EXCEPT ![p] = l]

Returns(p) == Goes(p, "user", NoLocals)

Kalloc == free > 0 /\ free' = free - 1

Kfree(k) == free' = free + k

Panic == panicked' = TRUE /\ UNCHANGED <<free, space, proc, pc, loc, resized>>

\* Threads in p's space, p among them.
Sharers(p) == {q \in live : pgdir[q] = pgdir[p]}

One(b) == IF b THEN 1 ELSE 0

PagesOf(d) == One(d \in dirs) + One(d \in ktab) + One(d \in utab) + Cardinality(mapped[d])

\* freevm(d), and kfree of k other pages.
Freevm(d, k) ==
    /\ Kfree(PagesOf(d) + k)
    /\ dirs' = dirs \ {d} /\ ktab' = ktab \ {d} /\ utab' = utab \ {d}
    /\ mapped' = [mapped EXCEPT ![d] = {}]

-----------------------------------------------------------------------------
(* setupkvm                                                                *)

KvmDir(p) ==
    /\ At(p, "setupkvm") /\ Kalloc
    /\ \E d \in Spaces \ dirs :
          /\ \A e \in Spaces \ dirs : d <= e
          /\ dirs' = dirs \cup {d}
          /\ Goes(p, "kernel", [loc[p] EXCEPT !.d = d])
    /\ UNCHANGED <<ktab, utab, mapped, proc, resized, panicked>>

KvmKernel(p) ==
    /\ At(p, "kernel") /\ Kalloc
    /\ ktab' = ktab \cup {loc[p].d}
    /\ Goes(p, "page", loc[p])
    /\ UNCHANGED <<dirs, utab, mapped, proc, resized, panicked>>

-----------------------------------------------------------------------------
(* The loops of allocuvm and copyuvm                                       *)

Filling(p) == At(p, "page") /\ loc[p].a < loc[p].to

\* copyuvm: "page not present".
Missing(p) == loc[p].call = "fork" /\ loc[p].a \notin mapped[pgdir[p]]

AllocPage(p) ==
    /\ Filling(p)
    /\ \/ Missing(p) /\ Panic
       \/ /\ ~Missing(p) /\ Kalloc
          /\ Goes(p, "map", [loc[p] EXCEPT !.mem = TRUE])
          /\ UNCHANGED <<space, proc, resized, panicked>>

\* walkpgdir allocates the page table.
MapTable(p) ==
    /\ At(p, "map") /\ loc[p].d \notin utab /\ Kalloc
    /\ utab' = utab \cup {loc[p].d}
    /\ UNCHANGED <<dirs, ktab, mapped, proc, pc, loc, resized, panicked>>

\* mappages: "remap".
MapPage(p) ==
    LET l == loc[p] IN
    /\ At(p, "map") /\ l.d \in utab
    /\ \/ l.a \in mapped[l.d] /\ Panic
       \/ /\ l.a \notin mapped[l.d]
          /\ mapped' = [mapped EXCEPT ![l.d] = @ \cup {l.a}]
          /\ Goes(p, "page", [l EXCEPT !.a = @ + 1, !.mem = FALSE])
          /\ UNCHANGED <<free, dirs, ktab, utab, proc, resized, panicked>>

-----------------------------------------------------------------------------
(* kalloc returns 0                                                        *)


\* copyuvm frees mem and d, fork the stack of the child; exec frees pgdir.
FreesSpace(p) ==
    IF loc[p].d = 0 THEN Kfree(One(loc[p].np # 0)) /\ UNCHANGED space
    ELSE Freevm(loc[p].d, One(loc[p].mem) + One(loc[p].np # 0))

BuildFails(p) ==
    /\ loc[p].call \in {"fork", "exec"}
    /\ FreesSpace(p)
    /\ kstack' = kstack \ {loc[p].np}

KeepsPages(p) == Kfree(One(loc[p].mem)) /\ UNCHANGED space

\* deallocuvm(pgdir, newsz, oldsz), and kfree(mem).
TakesBack(p) ==
    LET l == loc[p]  gone == mapped[l.d] \cap (l.from..l.to-1) IN
    /\ Kfree(Cardinality(gone) + One(l.mem))
    /\ mapped' = [mapped EXCEPT ![l.d] = @ \ gone]
    /\ UNCHANGED <<dirs, ktab, utab>>

GrowFails(p) == loc[p].call = "sbrk" /\ TakesBack(p) /\ UNCHANGED kstack

NoMemory(p) ==
    /\ free = 0
    /\ At(p, "setupkvm") \/ At(p, "kernel") \/ (Filling(p) /\ ~Missing(p))
       \/ (At(p, "map") /\ loc[p].d \notin utab)
    /\ BuildFails(p) \/ GrowFails(p)
    /\ Returns(p)
    /\ UNCHANGED <<live, pgdir, sz, resized, panicked>>

-----------------------------------------------------------------------------
(* fork, clone, exec, growproc, and wait                                   *)

\* allocproc: an entry, and a stack.
NewProc(p, call, where) ==
    /\ At(p, "user") /\ Kalloc
    /\ \E q \in Entries \ kstack :
          /\ \A o \in Entries \ kstack : q <= o
          /\ kstack' = kstack \cup {q}
          /\ Goes(p, where, [NoLocals EXCEPT !.call = call, !.np = q, !.to = sz[p]])
    /\ UNCHANGED <<space, live, pgdir, sz, resized, panicked>>

Fork(p) == NewProc(p, "fork", "setupkvm")

Clone(p) == NewProc(p, "clone", "cloned")

Born(p, d) ==
    /\ live' = live \cup {loc[p].np}
    /\ pgdir' = [pgdir EXCEPT ![loc[p].np] = d]
    /\ sz' = [sz EXCEPT ![loc[p].np] = sz[p]]
    /\ Returns(p)
    /\ UNCHANGED <<free, space, kstack, resized, panicked>>

Done(p, call) == At(p, "page") /\ loc[p].a >= loc[p].to /\ loc[p].call = call

Forked(p) == Done(p, "fork") /\ Born(p, loc[p].d)

Cloned(p) == At(p, "cloned") /\ Born(p, pgdir[p])

\* A program of k pages, with its stack; programs exec without other threads.
Exec(p, k) ==
    /\ At(p, "user") /\ Sharers(p) = {p}
    /\ Goes(p, "setupkvm", [NoLocals EXCEPT !.call = "exec", !.to = k])
    /\ UNCHANGED <<free, space, proc, resized, panicked>>

Execed(p) ==
    /\ Done(p, "exec")
    /\ pgdir' = [pgdir EXCEPT ![p] = loc[p].d] /\ sz' = [sz EXCEPT ![p] = loc[p].to]
    /\ Freevm(pgdir[p], 0)
    /\ resized' = resized \ {pgdir[p]}
    /\ Returns(p)
    /\ UNCHANGED <<live, kstack, panicked>>

Resizes(p) ==
    resized' = IF Sharers(p) = {p} THEN resized ELSE resized \cup {pgdir[p]}

\* growproc, n > 0: allocuvm.
Grow(p, k) ==
    /\ At(p, "user") /\ sz[p] + k <= MaxSize
    /\ Goes(p, "page", [NoLocals EXCEPT !.call = "sbrk", !.d = pgdir[p], !.a = sz[p],
                                        !.from = sz[p], !.to = sz[p] + k])
    /\ Resizes(p)
    /\ UNCHANGED <<free, space, proc, panicked>>

Grown(p) ==
    /\ Done(p, "sbrk")
    /\ sz' = [sz EXCEPT ![p] = loc[p].to]
    /\ Returns(p)
    /\ UNCHANGED <<free, space, live, pgdir, kstack, resized, panicked>>

\* growproc, n < 0: deallocuvm frees what is mapped there. Its result 0, when nothing
\* is left, is taken for a failure: the size stays, and the caller faults.
Shrink(p, k) ==
    LET gone == mapped[pgdir[p]] \cap (sz[p]-k..sz[p]-1) IN
    /\ At(p, "user") /\ k <= sz[p]
    /\ Kfree(Cardinality(gone))
    /\ mapped' = [mapped EXCEPT ![pgdir[p]] = @ \ gone]
    /\ \/ /\ k < sz[p]
          /\ sz' = [sz EXCEPT ![p] = @ - k]
          /\ UNCHANGED <<pc, loc>>
       \/ /\ k = sz[p] /\ p # InitProc
          /\ Goes(p, "fault", NoLocals)
          /\ UNCHANGED sz
    /\ Resizes(p)
    /\ UNCHANGED <<dirs, ktab, utab, live, pgdir, kstack, panicked>>

\* A thread exits and is joined; or a process that is alone in its space exits and
\* is waited for. (Proc has the other orders.)
Gone(p) ==
    /\ At(p, "user") \/ At(p, "fault")
    /\ p # InitProc
    /\ live' = live \ {p} /\ kstack' = kstack \ {p}
    /\ \/ /\ Sharers(p) = {p}
          /\ Freevm(pgdir[p], 1)
          /\ resized' = resized \ {pgdir[p]}
       \/ /\ Sharers(p) # {p}
          /\ Kfree(1)
          /\ UNCHANGED <<space, resized>>
    /\ pgdir' = [pgdir EXCEPT ![p] = 0] /\ sz' = [sz EXCEPT ![p] = 0]
    /\ Returns(p)
    /\ UNCHANGED panicked

Next ==
    \E p \in Entries :
        \/ KvmDir(p) \/ KvmKernel(p) \/ NoMemory(p)
        \/ AllocPage(p) \/ MapTable(p) \/ MapPage(p)
        \/ Fork(p) \/ Forked(p) \/ Clone(p) \/ Cloned(p)
        \/ Execed(p) \/ Grown(p) \/ Gone(p)
        \/ \E k \in Steps : Exec(p, k) \/ Grow(p, k) \/ Shrink(p, k)

Spec == Init /\ [][Next]_vars

-----------------------------------------------------------------------------
(* Properties                                                              *)

PagesAt(d) ==
    One(d \in dirs) + One(d \in ktab) + One(d \in utab) + Cardinality(mapped[d])


\* "One thing you need to be careful with is when an address space is grown by a
\* thread": a process that is in no system call has exactly the pages its size
\* says, also after a growth that failed, and neither "remap" nor "page not
\* present" is reached; unless sbrk was called while threads shared the space,
\* for they keep the size they had.
SizeIsMapped ==
    /\ panicked => resized # {}
    /\ \A p \in live : pc[p] = "user" /\ pgdir[p] \notin resized =>
           mapped[pgdir[p]] = 0..sz[p]-1

=============================================================================
