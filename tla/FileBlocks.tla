------------------------------ MODULE FileBlocks ------------------------------
(***************************************************************************)
(* The blocks of files (Xv6-Threads/src/fs.c: balloc, bfree, bmap, itrunc, *)
(* readi, writei) and the position of an open file that processes share    *)
(* (file.c: fileread, filewrite). A block is as many words as it has room  *)
(* for block numbers. One action is what happens while ip->lock is held;   *)
(* a long write gives it up after each chunk.                              *)
(***************************************************************************)
EXTENDS Integers, Sequences, FiniteSets

LOCAL INSTANCE SequencesExt

CONSTANTS Procs, OpenFiles, NoOpenFile, Inodes, Vals,
          NDIRECT, NINDIRECT,
          NBLOCKS,      \* data blocks of the disk
          Lengths,      \* words that a system call reads or writes
          CHUNK         \* words that filewrite writes at a time (its max)

VARIABLES
    used, data,             \* the bitmap and the data blocks
    addrs, size,            \* struct inode
    open, ino, off,         \* struct file
    file, rest, word,       \* a process inside filewrite: what is left to write
    out

disk == <<used, data, addrs, size>>
files == <<open, ino, off>>
writers == <<file, rest, word>>
vars == <<disk, files, writers, out>>

BSIZE == NINDIRECT

MAXFILE == NDIRECT + NINDIRECT

Zeroed == [k \in 0..BSIZE-1 |-> 0]

Init ==
    /\ used = {} /\ data = [b \in 1..NBLOCKS |-> Zeroed]
    /\ addrs = [i \in Inodes |-> [k \in 0..NDIRECT |-> 0]]
    /\ size = [i \in Inodes |-> 0]
    /\ open = {} /\ off = [f \in OpenFiles |-> 0]
    /\ \E i \in Inodes : ino = [f \in OpenFiles |-> i]
    /\ file = [p \in Procs |-> NoOpenFile] /\ rest = [p \in Procs |-> 0]
    /\ word = [p \in Procs |-> 0]
    /\ out = << >>

-----------------------------------------------------------------------------
(* balloc and bmap, as functions of a record s of the disk's variables     *)

Disk == [used |-> used, data |-> data, addrs |-> addrs]

IsFree(s, b) == b \notin s.used

FirstFree(s) == CHOOSE b \in 1..NBLOCKS : IsFree(s, b) /\ \A c \in 1..b-1 : ~IsFree(s, c)

\* balloc without bzero.
Unzeroed(s) == [s EXCEPT !.used = @ \cup {FirstFree(s)}]

\* Mark and zero it.
Balloc(s) == [s EXCEPT !.used = @ \cup {FirstFree(s)}, !.data[FirstFree(s)] = Zeroed]

\* A slot of the inode, after bmap has made sure that it names a block.
Direct(s, i, k) ==
    IF s.addrs[i][k] # 0 THEN s ELSE [Balloc(s) EXCEPT !.addrs[i][k] = FirstFree(s)]

\* The same for a slot of its indirect block.
Indirect(s, i, k) ==
    LET t == Direct(s, i, NDIRECT)
        b == t.addrs[i][NDIRECT]
    IN IF t.data[b][k] # 0 THEN t ELSE [Balloc(t) EXCEPT !.data[b][k] = FirstFree(t)]

Bmap(s, i, bn) == IF bn < NDIRECT THEN Direct(s, i, bn) ELSE Indirect(s, i, bn - NDIRECT)

\* The block that bmap returns then.
BlockOf(s, i, bn) ==
    IF bn < NDIRECT THEN s.addrs[i][bn] ELSE s.data[s.addrs[i][NDIRECT]][bn - NDIRECT]

-----------------------------------------------------------------------------
(* readi and writei                                                        *)

WordAt(i, at) == data[BlockOf(Disk, i, at \div BSIZE)][at % BSIZE]

Smaller(a, b) == IF a <= b THEN a ELSE b

\* One round of the loop in writei: the words from..to-1 of the file that fall
\* into block bn become v.
PutBlock(s, i, bn, from, to, v) ==
    LET t == Bmap(s, i, bn) IN
    [t EXCEPT !.data[BlockOf(t, i, bn)] =
        [k \in 0..BSIZE-1 |-> IF bn * BSIZE + k \in from..to-1 THEN v ELSE @[k]]]

Blocks(from, to) ==
    LET first == from \div BSIZE IN
    [k \in 1..((to - 1) \div BSIZE) - first + 1 |-> first + k - 1]

Written(i, from, to, v) ==
    FoldLeft(LAMBDA s, bn : PutBlock(s, i, bn, from, to, v), Disk, Blocks(from, to))

\* Bound: the disk is large enough for what programs write (balloc panics).
Room(i, from, to) ==
    NBLOCKS - Cardinality(used) >=
        Len(Blocks(from, to)) + (IF addrs[i][NDIRECT] = 0 THEN 1 ELSE 0)

-----------------------------------------------------------------------------
(* filewrite                                                               *)

Writing(p) == file[p] # NoOpenFile

WriteCall(p, f, n, v) ==
    /\ ~Writing(p) /\ f \in open
    /\ file' = [file EXCEPT ![p] = f]
    /\ rest' = [rest EXCEPT ![p] = n] /\ word' = [word EXCEPT ![p] = v]
    /\ UNCHANGED <<disk, files, out>>

\* filewrite returns.
Returns(p) ==
    /\ file' = [file EXCEPT ![p] = NoOpenFile]
    /\ rest' = [rest EXCEPT ![p] = 0] /\ word' = [word EXCEPT ![p] = 0]

\* One chunk: writei succeeds.
WriteChunk(p) ==
    LET f == file[p]
        i == ino[f]
        n == Smaller(rest[p], CHUNK)
        s == Written(i, off[f], off[f] + n, word[p])
    IN
    /\ Writing(p)
    /\ off[f] <= size[i] /\ off[f] + n <= MAXFILE * BSIZE
    /\ Room(i, off[f], off[f] + n)
    /\ used' = s.used /\ data' = s.data /\ addrs' = s.addrs
    /\ size' = [size EXCEPT ![i] = IF off[f] + n > @ THEN off[f] + n ELSE @]
    /\ off' = [off EXCEPT ![f] = @ + n]
    /\ IF n = rest[p] THEN Returns(p)
       ELSE rest' = [rest EXCEPT ![p] = @ - n] /\ UNCHANGED <<file, word>>
    /\ out' = << >>
    /\ UNCHANGED <<open, ino>>

\* writei returns -1: the position is beyond the end, or the file too large.
WriteFails(p) ==
    LET f == file[p] IN
    /\ Writing(p)
    /\ ~(off[f] <= size[ino[f]] /\ off[f] + Smaller(rest[p], CHUNK) <= MAXFILE * BSIZE)
    /\ Returns(p)
    /\ UNCHANGED <<disk, files, out>>

\* fileread: no more than there is.
Read(f, n) ==
    LET i == ino[f]
        m == Smaller(n, size[i] - off[f])
    IN
    /\ f \in open /\ off[f] <= size[i]
    /\ out' = <<[k \in 1..m |-> WordAt(i, off[f] + k - 1)]>>
    /\ off' = [off EXCEPT ![f] = @ + m]
    /\ UNCHANGED <<disk, open, ino, writers>>

-----------------------------------------------------------------------------
(* open, close, and iput of an inode without links                         *)

Open(f, i) ==
    /\ f \notin open
    /\ open' = open \cup {f}
    /\ ino' = [ino EXCEPT ![f] = i] /\ off' = [off EXCEPT ![f] = 0]
    /\ out' = << >>
    /\ UNCHANGED <<disk, writers>>

\* The last close; a write holds the file.
Close(f) ==
    /\ f \in open /\ \A p \in Procs : file[p] # f
    /\ open' = open \ {f}
    /\ UNCHANGED <<disk, ino, off, writers, out>>

BlocksUnder(i) ==
    LET b == addrs[i][NDIRECT] IN
    ({addrs[i][k] : k \in 0..NDIRECT} \cup
     (IF b = 0 THEN {} ELSE {data[b][k] : k \in 0..NINDIRECT-1})) \ {0}

\* bfree of what the inode names itself.
DirectOnly(i) == used \ {addrs[i][k] : k \in 0..NDIRECT}

\* bfree of the direct blocks, those of the indirect block, and that.
Bfreed(i) == used \ BlocksUnder(i)

\* itrunc, when the last name and the last reference are gone.
Itrunc(i) ==
    /\ \A f \in open : ino[f] # i
    /\ size[i] > 0
    /\ used' = Bfreed(i)
    /\ addrs' = [addrs EXCEPT ![i] = [k \in 0..NDIRECT |-> 0]]
    /\ size' = [size EXCEPT ![i] = 0]
    /\ out' = << >>
    /\ UNCHANGED <<data, files, writers>>

Next ==
    \/ \E p \in Procs :
         \/ WriteChunk(p) \/ WriteFails(p)
         \/ \E f \in OpenFiles, n \in Lengths, v \in Vals : WriteCall(p, f, n, v)
    \/ \E f \in OpenFiles :
         \/ Close(f)
         \/ \E n \in Lengths : Read(f, n)
         \/ \E i \in Inodes : Open(f, i)
    \/ \E i \in Inodes : Itrunc(i)

Spec == Init /\ [][Next]_vars

-----------------------------------------------------------------------------
(* Properties                                                              *)

\* A block that the bitmap calls used belongs to one inode, as a data block or as
\* its indirect block, once; and no other block does. So none is lost when a
\* file is removed, and none is given to two files.
BlocksOwned ==
    /\ used = UNION {BlocksUnder(i) : i \in Inodes}
    /\ \A i, j \in Inodes : i # j => BlocksUnder(i) \cap BlocksUnder(j) = {}
    /\ \A i \in Inodes :
         Cardinality(BlocksUnder(i)) =
            LET n == (size[i] + BSIZE - 1) \div BSIZE IN IF n > NDIRECT THEN n + 1 ELSE n

\* Files are what Files promises: a read returns what was written there last,
\* across block boundaries, in the direct and the indirect blocks, after blocks
\* have changed their owner; processes that share an open file never overwrite
\* each other's chunks.
Contents == INSTANCE Files
    WITH contents <- [i \in Inodes |-> [k \in 1..size[i] |-> WordAt(i, k - 1)]]

FilesSpec == Contents!Spec

=============================================================================
