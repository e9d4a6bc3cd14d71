-------------------------------- MODULE Malloc --------------------------------
(***************************************************************************)
(* malloc and free of user programs (Xv6-Threads/src/umalloc.c): a list of *)
(* free blocks, circular and in the order of addresses but for the wrap,   *)
(* that is searched from where the last call left off. Addresses count     *)
(* Headers; a block is its Header and what follows. Only one thread calls. *)
(***************************************************************************)
EXTENDS Integers, FiniteSets

LOCAL INSTANCE FiniteSetsExt

CONSTANTS HEAP,         \* the highest address that sbrk gives
          MORE,         \* what morecore asks for at least (4096)
          Requests      \* nunits, the Header included, of what programs ask for

VARIABLES
    heap,               \* freep, and ptr and size of the Headers in memory
    brk,
    given,              \* the blocks the program has
    cores               \* history: units that morecore got

vars == <<heap, brk, given, cores>>

Null == -1

Base == 0

\* sbrk's memory lies above the program's data.
Start == 2

Addresses == 0..HEAP

Init ==
    /\ heap = [freep |-> Null, ptr |-> [a \in Addresses |-> Null],
               size |-> [a \in Addresses |-> 0]]
    /\ brk = Start /\ given = {} /\ cores = 0

\* The first call makes the list: the empty block base.
Listing == IF heap.freep # Null THEN heap
           ELSE [heap EXCEPT !.freep = Base, !.ptr[Base] = Base]

\* The k-th block after block b.
After(h, b, k) == LET a[i \in 0..k] == IF i = 0 THEN b ELSE h.ptr[a[i-1]] IN a[k]

Listed(h) == {After(h, Base, k) : k \in 0..HEAP}

\* What nobody reads again: the pointer of a block that is not on the list, and the
\* Header of one that was joined.
Forgets(h, used) ==
    [h EXCEPT !.ptr = [a \in Addresses |-> IF a \in Listed(h) THEN h.ptr[a] ELSE Null],
              !.size = [a \in Addresses |-> IF a \in Listed(h) \cup used THEN h.size[a] ELSE 0]]

\* The blocks in the order of a search, until freep is reached again; both loops
\* stop at the first that is good.
First(h, good) ==
    LET k == CHOOSE k \in 0..HEAP :
                 After(h, h.freep, k) \in good /\ \A j \in 0..k-1 : After(h, h.freep, j) \notin good
    IN  After(h, h.freep, k)

-----------------------------------------------------------------------------
(* free                                                                    *)

\* bp lies between q and its successor, or q is the last and bp before the first
\* or after the last.
Between(h, bp, q) ==
    \/ bp > q /\ bp < h.ptr[q]
    \/ q >= h.ptr[q] /\ (bp > q \/ bp < h.ptr[q])

Never(h, p, bp) == FALSE

\* Blocks that touch are joined.
JoinsPrev(h, p, bp) == p + h.size[p] = bp

JoinsNext(h, p, bp) == bp + h.size[bp] = h.ptr[p]

Insert(h, bp) ==
    LET p == First(h, {q \in Listed(h) : Between(h, bp, q)})
        after == h.ptr[p]
        g == IF JoinsNext(h, p, bp)
             THEN [h EXCEPT !.size[bp] = @ + h.size[after], !.ptr[bp] = h.ptr[after]]
             ELSE [h EXCEPT !.ptr[bp] = after]
    IN  [IF JoinsPrev(h, p, bp)
         THEN [g EXCEPT !.size[p] = @ + g.size[bp], !.ptr[p] = g.ptr[bp]]
         ELSE [g EXCEPT !.ptr[p] = bp] EXCEPT !.freep = p]

Free(b) ==
    /\ b \in given
    /\ given' = given \ {b}
    /\ heap' = Forgets(Insert(heap, b), given')
    /\ UNCHANGED <<brk, cores>>

-----------------------------------------------------------------------------
(* malloc                                                                  *)

HasRoom(h, n) == \E a \in Listed(h) : h.size[a] >= n

\* All of the block after prevp, or its tail.
Take(h, n) ==
    LET prevp == First(h, {q \in Listed(h) : h.size[h.ptr[q]] >= n})
        p == h.ptr[prevp]
        rest == h.size[p] - n
    IN
    /\ given' = given \cup {p + rest}
    /\ heap' = Forgets([IF rest = 0 THEN [h EXCEPT !.ptr[prevp] = h.ptr[p]]
                        ELSE [h EXCEPT !.size[p] = rest, !.size[p + rest] = n]
                        EXCEPT !.freep = prevp], given')

Malloc(n) == HasRoom(Listing, n) /\ Take(Listing, n) /\ UNCHANGED <<brk, cores>>

AtLeastMore(n) == IF n < MORE THEN MORE ELSE n

\* morecore gives what it got to free.
Morecore(n) ==
    LET nu == AtLeastMore(n) IN
    /\ ~HasRoom(Listing, n)
    /\ IF brk + nu - 1 <= HEAP
       THEN /\ Take(Insert([Listing EXCEPT !.size[brk] = nu], brk), n)
            /\ brk' = brk + nu /\ cores' = cores + nu
       ELSE heap' = Listing /\ UNCHANGED <<brk, given, cores>>

\* The program moves brk itself, so the heap has gaps.
Sbrk ==
    /\ brk < HEAP
    /\ brk' = brk + 1
    /\ UNCHANGED <<heap, given, cores>>

Next ==
    \/ \E n \in Requests : Malloc(n) \/ Morecore(n)
    \/ \E b \in given : Free(b)
    \/ Sbrk

Spec == Init /\ [][Next]_vars

-----------------------------------------------------------------------------
(* Properties                                                              *)

Units(b) == b..b+heap.size[b]-1

\* The blocks on the list and the program's are disjoint and are all the memory
\* that malloc ever got; no two on the list touch, so memory that is free is found
\* when it is asked for; the list closes and its addresses go down once; and
\* freep is on it.
HeapSound ==
    heap.freep # Null =>
        LET listed == Listed(heap)
            blocks == listed \cup given
        IN
        /\ listed \cap given = {} /\ heap.freep \in listed
        /\ \A b, c \in blocks : b # c => Units(b) \cap Units(c) = {}
        /\ MapThenSumSet(LAMBDA b : heap.size[b], blocks) = cores
        /\ \A b \in listed \ {Base} : b + heap.size[b] \notin listed
        /\ \A b \in listed : heap.ptr[b] # Base => heap.ptr[b] > b
===============================================================================
