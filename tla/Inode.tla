-------------------------------- MODULE Inode --------------------------------
(***************************************************************************)
(* Inodes, directories and paths (Xv6-Threads/src/fs.c) under the system   *)
(* calls that use them (sysfile.c). A step goes from one wait for an       *)
(* inode's sleep-lock to the next; what it does while it has the locks is  *)
(* one action, because nobody else looks at it. Reference counts, which    *)
(* icache.lock guards, change in steps of their own where a race could see *)
(* it: iput tests the count under the sleep-lock and lowers it after. Each *)
(* call is a transaction of Log; the blocks under an inode are FileBlocks. *)
(***************************************************************************)
EXTENDS Naturals, Sequences, FiniteSets, TLC

CONSTANTS Procs, NoProc,
          NINODES,      \* inodes on the disk, numbered from 1
          Names,        \* besides "." and ".."
          Programs      \* what programs there are: records of the system
                        \* calls they make and the paths they name

VARIABLES
    dinode,             \* type and nlink on the disk (through the cache)
    dir,                \* the entries in the blocks of a directory
    mem, valid, ref,    \* struct inode, of the entry that caches the inode
    lock,               \* owner of ip->lock
    pc, loc,            \* a process inside a system call, and its locals
    cwd, fd,            \* its directory, and the file it has open (or 0)
    prog,               \* one of Programs, for a whole behaviour
    strays,             \* history: entered in a directory already removed
    raced               \* history: two iputs let each other be the last

fs == <<dinode, dir>>
icache == <<mem, valid, ref>>
proc == <<cwd, fd>>
vars == <<fs, icache, lock, pc, loc, proc, prog, strays, raced>>

ROOTINO == 1

Inums == 1..NINODES

Free == [type |-> "free", nlink |-> 0]

NoEntries == [n \in Names \cup {".", ".."} |-> 0]

Dots(i, parent) == [NoEntries EXCEPT !["."] = i, ![".."] = parent]

\* ip, dp, name: as in the code; src: the inode sys_link links to; rest, up: path
\* and nameiparent of namex; put, then: the argument of iput, and what follows.
NoLocals == [call |-> "none", new |-> << >>, rest |-> << >>, up |-> FALSE,
             ip |-> 0, dp |-> 0, name |-> ".", src |-> 0, put |-> 0, then |-> "idle"]

\* mkfs makes the root; every process starts in it.
Init ==
    /\ dinode = [i \in Inums |-> IF i = ROOTINO THEN [type |-> "dir", nlink |-> 1]
                                 ELSE Free]
    /\ dir = [i \in Inums |-> IF i = ROOTINO THEN Dots(i, i) ELSE NoEntries]
    /\ mem = dinode /\ valid = [i \in Inums |-> FALSE]
    /\ ref = [i \in Inums |-> IF i = ROOTINO THEN Cardinality(Procs) ELSE 0]
    /\ lock = [i \in Inums |-> NoProc]
    /\ pc = [p \in Procs |-> "idle"] /\ loc = [p \in Procs |-> NoLocals]
    /\ cwd = [p \in Procs |-> ROOTINO] /\ fd = [p \in Procs |-> 0]
    /\ prog \in Programs
    /\ strays = {} /\ raced = {}

-----------------------------------------------------------------------------
(* iget, idup, ilock, iupdate                                              *)

At(p, here) == pc[p] = here

\* p goes on at "where" with the locals l.
Goes(p, where, l) ==
    /\ pc' = [pc EXCEPT ![p] = where]
    /\ UNCHANGED prog
    /\ loc' = [loc EXCEPT ![p] = IF where = "idle" THEN NoLocals ELSE l]

\* iput(i), then go on at "next".
Puts(p, i, next, l) == Goes(p, "iput", [l EXCEPT !.put = i, !.then = next])

Unlocked(i) == lock[i] = NoProc

\* The inode as ilock leaves it in memory.
Loaded(i) == IF valid[i] THEN mem[i] ELSE dinode[i]

\* A step that has locked the inodes of "changed" leaves them so, in memory and,
\* by iupdate, on the disk.
Update(changed) ==
    /\ dinode' = [i \in Inums |-> IF i \in DOMAIN changed THEN changed[i] ELSE dinode[i]]
    /\ mem' = [i \in Inums |-> IF i \in DOMAIN changed THEN changed[i] ELSE mem[i]]

\* ilock alone: nothing changes on the disk.
Load(i) ==
    /\ mem' = [mem EXCEPT ![i] = Loaded(i)]
    /\ UNCHANGED dinode

ReadIn(i) == valid' = [valid EXCEPT ![i] = TRUE]

\* dirlookup's iget of e, while i is locked and read: one more reference; an entry
\* of icache that is taken anew has not been read.
ReadInAndGet(i, e) ==
    /\ ref' = [ref EXCEPT ![e] = @ + 1]
    /\ valid' = [valid EXCEPT ![e] = @ /\ ref[e] > 0, ![i] = TRUE]

-----------------------------------------------------------------------------
(* iput                                                                    *)

\* It has no links.
AnyRef(i) == valid[i] /\ mem[i].nlink = 0

\* It has no links and no other references.
LastRef(i) == valid[i] /\ mem[i].nlink = 0 /\ ref[i] = 1

\* The others are all past their own test.
OthersGone(p, i) ==
    ref[i] = 1 + Cardinality({q \in Procs \ {p} : At(q, "drop") /\ loc[q].put = i})

\* acquiresleep, test, itrunc and free, releasesleep.
Iput(p) ==
    LET i == loc[p].put IN
    /\ At(p, "iput") /\ Unlocked(i)
    /\ IF LastRef(i)
       THEN /\ Update(i :> Free)
            /\ dir' = [dir EXCEPT ![i] = NoEntries]
            /\ valid' = [valid EXCEPT ![i] = FALSE]
            /\ strays' = strays \ {i}
            /\ UNCHANGED raced
       ELSE /\ raced' = IF AnyRef(i) /\ OthersGone(p, i) THEN raced \cup {i} ELSE raced
            /\ UNCHANGED <<fs, mem, valid, strays>>
    /\ Goes(p, "drop", loc[p])
    /\ UNCHANGED <<ref, lock, proc>>

Drop(p) ==
    /\ At(p, "drop")
    /\ ref' = [ref EXCEPT ![loc[p].put] = @ - 1]
    /\ Goes(p, loc[p].then, [loc[p] EXCEPT !.put = 0, !.then = "idle"])
    /\ UNCHANGED <<fs, mem, valid, lock, proc, strays, raced>>

-----------------------------------------------------------------------------
(* namex                                                                   *)

\* A path that is not found: sys_link takes its link back, the others return.
Failed(p) == IF loc[p].src # 0 THEN "bad" ELSE "idle"

\* begin_op, and idup of the current directory.
Call(p) ==
    /\ At(p, "idle")
    /\ \E call \in prog.calls \ {"close"}, path \in prog.paths, new \in prog.paths :
         /\ new = path \/ call = "link"
         /\ Goes(p, "namex", [NoLocals EXCEPT
               !.call = call, !.rest = path, !.ip = cwd[p],
               !.new = IF call = "link" THEN new ELSE << >>,
               !.up = call \in {"create", "mkdir", "unlink"}])
    /\ ref' = [ref EXCEPT ![cwd[p]] = @ + 1]
    /\ UNCHANGED <<fs, mem, valid, lock, proc, strays, raced>>

\* One round of the loop of namex, from ilock(ip) to iunlock(ip). An inode without
\* a type is a panic: the process stays where it is.
Namex(p) ==
    LET i == loc[p].ip
        name == Head(loc[p].rest)
        last == Len(loc[p].rest) = 1
        next == dir[i][name]
    IN
    /\ At(p, "namex") /\ Unlocked(i) /\ Loaded(i).type # "free"
    /\ Load(i)
    /\ \/ /\ Loaded(i).type # "dir" \/ (next = 0 /\ ~(loc[p].up /\ last))
          /\ Puts(p, i, Failed(p), loc[p])
          /\ ReadIn(i) /\ UNCHANGED ref
       \/ /\ Loaded(i).type = "dir" /\ loc[p].up /\ last
          /\ Goes(p, "parent", [loc[p] EXCEPT !.dp = i, !.ip = 0, !.name = name,
                                              !.rest = << >>])
          /\ ReadIn(i) /\ UNCHANGED ref
       \/ /\ Loaded(i).type = "dir" /\ next # 0 /\ ~(loc[p].up /\ last)
          /\ ReadInAndGet(i, next)
          /\ Puts(p, i, IF last THEN "found" ELSE "namex",
                  [loc[p] EXCEPT !.ip = next, !.rest = Tail(@)])
    /\ UNCHANGED <<dir, lock, proc, strays, raced>>

-----------------------------------------------------------------------------
(* sys_open without O_CREATE, sys_chdir, sys_close                         *)

\* ilock(ip) of the inode that namei found.
Found(p, calls) ==
    /\ At(p, "found") /\ loc[p].call \in calls
    /\ Unlocked(loc[p].ip) /\ Loaded(loc[p].ip).type # "free"

\* A directory opens for reading only; and there must be a free descriptor.
Open(p) ==
    LET i == loc[p].ip IN
    /\ Found(p, {"open"})
    /\ Load(i) /\ ReadIn(i)
    /\ \/ /\ Loaded(i).type = "dir" \/ fd[p] # 0
          /\ Puts(p, i, "idle", loc[p])
          /\ UNCHANGED fd
       \/ /\ fd[p] = 0
          /\ fd' = [fd EXCEPT ![p] = i]
          /\ Goes(p, "idle", loc[p])
    /\ UNCHANGED <<dir, ref, lock, cwd, strays, raced>>

Chdir(p) ==
    LET i == loc[p].ip IN
    /\ Found(p, {"chdir"})
    /\ Load(i) /\ ReadIn(i)
    /\ \/ /\ Loaded(i).type # "dir"
          /\ Puts(p, i, "idle", loc[p])
          /\ UNCHANGED cwd
       \/ /\ Loaded(i).type = "dir"
          /\ Puts(p, cwd[p], "idle", loc[p])
          /\ cwd' = [cwd EXCEPT ![p] = i]
    /\ UNCHANGED <<dir, ref, lock, fd, strays, raced>>

\* sys_close, or exit.
Close(p) ==
    /\ At(p, "idle") /\ fd[p] # 0 /\ "close" \in prog.calls
    /\ Puts(p, fd[p], "idle", [NoLocals EXCEPT !.call = "close"])
    /\ fd' = [fd EXCEPT ![p] = 0]
    /\ UNCHANGED <<fs, icache, lock, cwd, strays, raced>>

-----------------------------------------------------------------------------
(* sys_link                                                                *)

\* Counts the link before it is made, then looks for the parent of the new name.
LinkOld(p) ==
    LET i == loc[p].ip  d == Loaded(loc[p].ip) IN
    /\ Found(p, {"link"})
    /\ ReadIn(i)
    /\ \/ /\ d.type = "dir"
          /\ Puts(p, i, "idle", loc[p])
          /\ Load(i) /\ UNCHANGED ref
       \/ /\ d.type # "dir"
          /\ Update(i :> [d EXCEPT !.nlink = @ + 1])
          /\ ref' = [ref EXCEPT ![cwd[p]] = @ + 1]
          /\ Goes(p, "namex", [loc[p] EXCEPT !.src = i, !.ip = cwd[p], !.up = TRUE,
                                             !.rest = loc[p].new])
    /\ UNCHANGED <<dir, lock, proc, strays, raced>>

\* ilock(dp) of the directory that nameiparent returned.
Parent(p, calls) ==
    At(p, "parent") /\ loc[p].call \in calls /\ Unlocked(loc[p].dp)

Entry(p) == dir[loc[p].dp][loc[p].name]

\* Nothing tests whether the directory is still linked.
Enters(d, what) == strays' = IF Loaded(d).nlink = 0 THEN strays \cup what ELSE strays

\* dirlink: an entry that exists is put while the directory stays locked.
LinkNew(p) ==
    LET d == loc[p].dp IN
    /\ Parent(p, {"link"})
    /\ Load(d)
    /\ \/ /\ Entry(p) # 0
          /\ ReadInAndGet(d, Entry(p))
          /\ lock' = [lock EXCEPT ![d] = p]
          /\ Puts(p, Entry(p), "linkbad", loc[p])
          /\ UNCHANGED <<dir, strays>>
       \/ /\ Entry(p) = 0
          /\ ReadIn(d)
          /\ dir' = [dir EXCEPT ![d][loc[p].name] = loc[p].src]
          /\ Enters(d, {loc[p].src})
          /\ Puts(p, d, "linked", loc[p])
          /\ UNCHANGED <<ref, lock>>
    /\ UNCHANGED <<proc, raced>>

\* iunlockput(dp) after a failure, in sys_link and sys_unlink.
Unparent(p) ==
    /\ pc[p] \in {"linkbad", "unlinkbad"}
    /\ lock' = [lock EXCEPT ![loc[p].dp] = NoProc]
    /\ Puts(p, loc[p].dp, Failed(p), loc[p])
    /\ UNCHANGED <<fs, icache, proc, strays, raced>>

Linked(p) ==
    /\ At(p, "linked")
    /\ Puts(p, loc[p].src, "idle", loc[p])
    /\ UNCHANGED <<fs, icache, lock, proc, strays, raced>>

KeepsCount(p) ==
    Load(loc[p].src) /\ ReadIn(loc[p].src)

Uncount(p) ==
    LET i == loc[p].src IN
    Update(i :> [Loaded(i) EXCEPT !.nlink = @ - 1]) /\ ReadIn(i)

\* bad: in sys_link.
LinkBad(p) ==
    /\ At(p, "bad") /\ Unlocked(loc[p].src)
    /\ Uncount(p)
    /\ Puts(p, loc[p].src, "idle", loc[p])
    /\ UNCHANGED <<dir, ref, lock, proc, strays, raced>>

-----------------------------------------------------------------------------
(* sys_unlink                                                              *)

IsDirEmpty(i) == \A n \in Names : dir[i][n] = 0

Unlink(p) ==
    LET d == loc[p].dp IN
    /\ Parent(p, {"unlink"})
    /\ Load(d)
    /\ \/ /\ loc[p].name \in {".", ".."} \/ Entry(p) = 0
          /\ ReadIn(d)
          /\ Puts(p, d, "idle", loc[p])
          /\ UNCHANGED <<ref, lock>>
       \/ /\ loc[p].name \notin {".", ".."} /\ Entry(p) # 0
          /\ ReadInAndGet(d, Entry(p))
          /\ lock' = [lock EXCEPT ![d] = p]
          /\ Goes(p, "unlink", [loc[p] EXCEPT !.ip = Entry(p)])
    /\ UNCHANGED <<dir, proc, strays, raced>>

\* With both locked: clear the entry and unlock the directory.
UnlinkEntry(p) ==
    LET i == loc[p].ip  d == loc[p].dp
        busy == Loaded(i).type = "dir" /\ ~IsDirEmpty(i)
        isdir == Loaded(i).type = "dir"
    IN
    /\ At(p, "unlink") /\ Unlocked(i) /\ Loaded(i).nlink > 0
    /\ ReadIn(i)
    /\ \/ /\ busy
          /\ Load(i)
          /\ Puts(p, i, "unlinkbad", loc[p])
          /\ UNCHANGED <<dir, lock>>
       \/ /\ ~busy
          /\ Update(i :> Loaded(i) @@
                    d :> [mem[d] EXCEPT !.nlink = IF isdir THEN @ - 1 ELSE @])
          /\ dir' = [dir EXCEPT ![d][loc[p].name] = 0]
          /\ lock' = [lock EXCEPT ![d] = NoProc, ![i] = p]
          /\ Puts(p, d, "unlinked", loc[p])
    /\ UNCHANGED <<ref, proc, strays, raced>>

Unlinked(p) ==
    LET i == loc[p].ip IN
    /\ At(p, "unlinked")
    /\ Update(i :> [mem[i] EXCEPT !.nlink = @ - 1])
    /\ lock' = [lock EXCEPT ![i] = NoProc]
    /\ Puts(p, i, "idle", loc[p])
    /\ UNCHANGED <<dir, valid, ref, proc, strays, raced>>

-----------------------------------------------------------------------------
(* create, for sys_open with O_CREATE, sys_mkdir and sys_mknod             *)

\* create without iunlockput(dp) before ilock(ip).
FindsLocked(p) ==
    LET d == loc[p].dp IN
    /\ Parent(p, {"create", "mkdir"}) /\ Entry(p) # 0
    /\ Load(d) /\ ReadInAndGet(d, Entry(p))
    /\ lock' = [lock EXCEPT ![d] = p]
    /\ Goes(p, "exists", [loc[p] EXCEPT !.ip = Entry(p)])
    /\ UNCHANGED <<dir, proc, strays, raced>>

\* The name exists: the directory is unlocked before the inode is locked.
CreateFinds(p) ==
    LET d == loc[p].dp IN
    /\ Parent(p, {"create", "mkdir"}) /\ Entry(p) # 0
    /\ Load(d) /\ ReadInAndGet(d, Entry(p))
    /\ Puts(p, d, "exists", [loc[p] EXCEPT !.ip = Entry(p)])
    /\ UNCHANGED <<dir, lock, proc, strays, raced>>

\* ialloc takes the first free inode (none is a panic: p stays where it is).
Ialloc(i) == dinode[i].type = "free" /\ \A j \in 1..i-1 : dinode[j].type # "free"

\* ialloc, the new inode and its entry; dp is unlocked, the inode stays locked.
CreateNew(p, i) ==
    LET d == loc[p].dp  isdir == loc[p].call = "mkdir" IN
    /\ Parent(p, {"create", "mkdir"}) /\ Entry(p) = 0 /\ Ialloc(i) /\ Unlocked(i)
    /\ ref' = [ref EXCEPT ![i] = @ + 1]
    /\ valid' = [valid EXCEPT ![i] = TRUE, ![d] = TRUE]
    /\ Update(i :> [type |-> IF isdir THEN "dir" ELSE "file", nlink |-> 1] @@
              d :> [Loaded(d) EXCEPT !.nlink = IF isdir THEN @ + 1 ELSE @])
    /\ dir' = [dir EXCEPT ![i] = IF isdir THEN Dots(i, d) ELSE NoEntries,
                          ![d][loc[p].name] = i]
    /\ Enters(d, IF isdir THEN {i, d} ELSE {i})
    /\ lock' = [lock EXCEPT ![i] = p]
    /\ Puts(p, d, "created", [loc[p] EXCEPT !.ip = i])
    /\ UNCHANGED <<proc, raced>>

\* sys_open has room for one file; sys_mkdir keeps none.
Opens(p) == loc[p].call = "create" /\ fd[p] = 0

Created(p) ==
    LET i == loc[p].ip IN
    /\ At(p, "created")
    /\ lock' = [lock EXCEPT ![i] = NoProc]
    /\ \/ Opens(p) /\ fd' = [fd EXCEPT ![p] = i] /\ Goes(p, "idle", loc[p])
       \/ ~Opens(p) /\ Puts(p, i, "idle", loc[p]) /\ UNCHANGED fd
    /\ UNCHANGED <<fs, icache, cwd, strays, raced>>

Exists(p) ==
    LET i == loc[p].ip  ok == Opens(p) /\ Loaded(i).type = "file" IN
    /\ At(p, "exists") /\ Unlocked(i) /\ Loaded(i).type # "free"
    /\ Load(i) /\ ReadIn(i)
    /\ \/ ok /\ fd' = [fd EXCEPT ![p] = i] /\ Goes(p, "idle", loc[p])
       \/ ~ok /\ Puts(p, i, "idle", loc[p]) /\ UNCHANGED fd
    /\ UNCHANGED <<dir, ref, lock, cwd, strays, raced>>

-----------------------------------------------------------------------------
Next ==
    \E p \in Procs :
        \/ Call(p) \/ Namex(p) \/ Iput(p) \/ Drop(p)
        \/ Open(p) \/ Chdir(p) \/ Close(p)
        \/ LinkOld(p) \/ LinkNew(p) \/ Linked(p) \/ LinkBad(p) \/ Unparent(p)
        \/ Unlink(p) \/ UnlinkEntry(p) \/ Unlinked(p)
        \/ CreateFinds(p) \/ Created(p) \/ Exists(p)
        \/ \E i \in Inums : CreateNew(p, i)

Spec == Init /\ [][Next]_vars

-----------------------------------------------------------------------------
(* Properties                                                              *)

Quiet == \A p \in Procs : At(p, "idle")

Named(i) == {e \in Inums \X Names : dir[e[1]][e[2]] = i}

\* Subdirectories that are not removed: their ".." counts.
Children(i) == {c \in Inums \ (strays \cup {i}) : dir[c][".."] = i /\ dinode[c].nlink > 0}

\* "the number of links referring to it": when no call is under way, an inode has
\* as many links as there are names for it (and a directory one for each
\* subdirectory), however link, unlink, create and their failures interleave. Only
\* what was entered in a directory already removed keeps a link to nowhere.
LinksCounted ==
    Quiet => \A i \in Inums \ strays :
        dinode[i].type # "free" =>
            dinode[i].nlink = Cardinality(Named(i)) + Cardinality(Children(i))
                              + (IF i = ROOTINO THEN 1 ELSE 0)

\* "iput() frees if the reference and link counts have fallen to zero": never
\* before, so that what a directory, a descriptor or a current directory names is
\* there; and always, but for one case, in which two processes call iput at a time,
\* each sees the reference of the other, and both leave the inode allocated.
FreedWhenUnused ==
    /\ \A i \in Inums, n \in Names :
           dir[i][n] # 0 => dinode[dir[i][n]].type # "free"
    /\ \A p \in Procs : \A i \in {cwd[p], fd[p]} \ {0} :
           dinode[i].type # "free" /\ ref[i] > 0
    /\ \A i \in Inums : dinode[i].type # "free" /\ dinode[i].nlink = 0 /\ ref[i] = 0
           => i \in raced

\* A process waits for the lock of this inode.
Wants(p) ==
    IF pc[p] = "iput" THEN loc[p].put
    ELSE IF pc[p] \in {"namex", "found", "unlink", "exists"} THEN loc[p].ip
    ELSE IF pc[p] = "parent" THEN loc[p].dp
    ELSE IF pc[p] = "bad" THEN loc[p].src ELSE 0

WaitsFor(p, q) == Wants(p) # 0 /\ lock[Wants(p)] = q

\* "The separation also helps avoid deadlock": processes that lock inodes never
\* wait for each other in a circle, nor for themselves, but by way of iput, which
\* locks the directory its caller has just unlocked while the caller keeps an
\* inode in it locked (unlink, create), or an entry of the directory (link).
CircleNeedsIput ==
    /\ \A p \in Procs : WaitsFor(p, p) => At(p, "iput")
    /\ \A p, q \in Procs :
           WaitsFor(p, q) /\ WaitsFor(q, p) => At(p, "iput") \/ At(q, "iput")

=============================================================================
