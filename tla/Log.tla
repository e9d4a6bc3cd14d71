--------------------------------- MODULE Log ---------------------------------
(***************************************************************************)
(* The redo log of the xv6 file system (Xv6-Threads/src/log.c): begin_op,  *)
(* log_write, end_op with group commit, and recovery after a crash at any  *)
(* point. One action is one critical section of log.lock or one block      *)
(* written to the disk, which the disk does whole or not at all.           *)
(*                                                                         *)
(* What bread returns is cache: the block as the running system sees it,   *)
(* the copy on the disk when nothing newer is in the buffer cache.         *)
(***************************************************************************)
EXTENDS Integers, Sequences, FiniteSets

CONSTANTS Procs, Blocks, Vals,
          MAXOPBLOCKS,  \* param.h: what begin_op reserves per operation
          OPBLOCKS,     \* most different blocks an operation really writes
          LOGSIZE,      \* param.h: size of logheader.block
          NLog          \* superblock: blocks of the log, header included

ASSUME ProcsAssumption  == IsFiniteSet(Procs)
ASSUME BlocksAssumption == IsFiniteSet(Blocks)
ASSUME SizeAssumption   ==
    /\ MAXOPBLOCKS \in Nat \ {0}
    /\ OPBLOCKS \in Nat /\ OPBLOCKS <= MAXOPBLOCKS
    /\ LOGSIZE \in Nat /\ MAXOPBLOCKS <= LOGSIZE
    /\ NLog \in Nat

VARIABLES
    disk, area, head,           \* on disk: home blocks, log blocks, header
    cache,                      \* the blocks as the buffer cache shows them
    lh,                         \* log.lh, the first n entries
    outstanding, committing,    \* log.outstanding, log.committing
    pc,                         \* where each process is
    blk,                        \* the buffer it is passing to log_write
    wrote,                      \* blocks written by operations under way
    tail,                       \* the loop variable of write_log, install_trans
    boot,                       \* "install", "clear" in recovery, then "up"
    panicked

vars == <<disk, area, head, cache, lh, outstanding, committing, pc, blk, wrote,
          tail, boot, panicked>>
ondisk == <<disk, area, head>>

NoBlock == "noblock"

Init ==
    /\ disk \in [Blocks -> Vals]
    /\ \E v \in Vals : area = [i \in 1..LOGSIZE |-> v]
    /\ head = << >>
    /\ cache = disk
    /\ lh = << >>
    /\ outstanding = 0
    /\ committing = FALSE
    /\ pc = [p \in Procs |-> "idle"]
    /\ blk = [p \in Procs |-> NoBlock]
    /\ wrote = {}
    /\ tail = 0
    /\ boot = "install"
    /\ panicked = FALSE

At(p, where) == boot = "up" /\ ~panicked /\ pc[p] = where

Goto(p, where) == pc' = [pc EXCEPT ![p] = where]

\* wakeup(&log), for the process that goes on at where.
WakeAllAndGoto(p, where) ==
    pc' = [q \in Procs |-> IF q = p THEN where
                           ELSE IF pc[q] = "asleep" THEN "begin" ELSE pc[q]]

InLog(s, b) == \E i \in 1..Len(s) : s[i] = b

-----------------------------------------------------------------------------
(* begin_op                                                                *)

Call(p) ==
    /\ At(p, "idle")
    /\ Goto(p, "begin")
    /\ UNCHANGED <<ondisk, cache, lh, outstanding, committing, blk, wrote, tail,
                   boot, panicked>>

NoSpaceOffByOp == Len(lh) + outstanding * MAXOPBLOCKS > LOGSIZE

NoSpace == Len(lh) + (outstanding + 1) * MAXOPBLOCKS > LOGSIZE

MustWait == committing \/ NoSpace

BeginSleep(p) ==
    /\ At(p, "begin")
    /\ MustWait
    /\ Goto(p, "asleep")
    /\ UNCHANGED <<ondisk, cache, lh, outstanding, committing, blk, wrote, tail,
                   boot, panicked>>

Reserve == outstanding' = outstanding + 1

Begin(p) ==
    /\ At(p, "begin")
    /\ ~MustWait
    /\ Reserve
    /\ Goto(p, "op")
    /\ UNCHANGED <<ondisk, cache, lh, committing, blk, wrote, tail, boot, panicked>>

-----------------------------------------------------------------------------
(* log_write                                                               *)

WritesOf(p) == {w \in wrote : w[1] = p}

\* The contract of an operation: at most OPBLOCKS different blocks.
MayWrite(p, b) ==
    <<p, b>> \in wrote \/ Cardinality(WritesOf(p)) < OPBLOCKS

\* The buffer's sleep-lock is held from the change of its data to brelse.
Unlocked(b) == \A q \in Procs : pc[q] = "append" => blk[q] # b

TooBig == Len(lh) >= LOGSIZE \/ Len(lh) >= NLog - 1

\* The data is modified, and log_write tests log.lh.n before it takes the lock.
Write(p, b, v) ==
    /\ At(p, "op")
    /\ MayWrite(p, b) /\ Unlocked(b)
    /\ cache' = [cache EXCEPT ![b] = v]
    /\ panicked' = (TooBig \/ outstanding < 1)
    /\ blk' = [blk EXCEPT ![p] = b]
    /\ wrote' = wrote \cup {<<p, b>>}
    /\ Goto(p, "append")
    /\ UNCHANGED <<ondisk, lh, outstanding, committing, tail, boot>>

\* A block that is in the header already keeps its place (absorption).
LogBlock(b) == lh' = IF InLog(lh, b) THEN lh ELSE Append(lh, b)

AppendBlock(p) ==
    /\ At(p, "append")
    /\ LogBlock(blk[p])
    /\ blk' = [blk EXCEPT ![p] = NoBlock]
    /\ Goto(p, "op")
    /\ UNCHANGED <<ondisk, cache, outstanding, committing, wrote, tail, boot,
                   panicked>>

-----------------------------------------------------------------------------
(* end_op and commit                                                       *)

Forget(p) == wrote' = wrote \ WritesOf(p)

LeavesOthersAsleep(p) == Goto(p, "idle")

\* Others are under way: one reservation less, so begin_op may find space.
WakeForSpace(p) == WakeAllAndGoto(p, "idle")

EndOther(p) ==
    /\ At(p, "op")
    /\ outstanding # 1
    /\ outstanding' = outstanding - 1
    /\ panicked' = committing
    /\ Forget(p)
    /\ WakeForSpace(p)
    /\ UNCHANGED <<ondisk, cache, lh, committing, blk, tail, boot>>

\* The last one out commits; nothing to do if nothing was written.
EndLast(p) ==
    /\ At(p, "op")
    /\ outstanding = 1
    /\ outstanding' = 0
    /\ panicked' = committing
    /\ committing' = TRUE
    /\ tail' = 0
    /\ Forget(p)
    /\ Goto(p, IF Len(lh) > 0 THEN "writelog" ELSE "commitdone")
    /\ UNCHANGED <<ondisk, cache, lh, blk, boot>>

WriteLog(p) ==
    /\ At(p, "writelog")
    /\ tail < Len(lh)
    /\ area' = [area EXCEPT ![tail + 1] = cache[lh[tail + 1]]]
    /\ tail' = tail + 1
    /\ UNCHANGED <<disk, head, cache, lh, outstanding, committing, pc, blk, wrote,
                   boot, panicked>>

OneTooFew == tail >= Len(lh) - 1

LogWritten == tail >= Len(lh)

\* write_head: "the true point at which the current transaction commits".
WriteHead(p) ==
    /\ At(p, "writelog")
    /\ LogWritten
    /\ head' = lh
    /\ tail' = 0
    /\ Goto(p, "install")
    /\ UNCHANGED <<disk, area, cache, lh, outstanding, committing, blk, wrote,
                   boot, panicked>>

\* One turn of install_trans: the log block goes to its home location.
InstallBlock ==
    /\ tail < Len(lh)
    /\ disk' = [disk EXCEPT ![lh[tail + 1]] = area[tail + 1]]
    /\ cache' = [cache EXCEPT ![lh[tail + 1]] = area[tail + 1]]
    /\ tail' = tail + 1

Install(p) ==
    /\ At(p, "install")
    /\ InstallBlock
    /\ UNCHANGED <<area, head, lh, outstanding, committing, pc, blk, wrote, boot,
                   panicked>>

\* log.lh.n = 0 and the header goes to the disk empty.
ClearHead ==
    /\ tail >= Len(lh)
    /\ lh' = << >>
    /\ head' = << >>
    /\ tail' = 0

Clear(p) ==
    /\ At(p, "install")
    /\ ClearHead
    /\ Goto(p, "commitdone")
    /\ UNCHANGED <<disk, area, cache, outstanding, committing, blk, wrote, boot,
                   panicked>>

LeavesAllAsleep(p) == Goto(p, "idle")

WakeAfterCommit(p) == WakeAllAndGoto(p, "idle")

CommitDone(p) ==
    /\ At(p, "commitdone")
    /\ committing' = FALSE
    /\ WakeAfterCommit(p)
    /\ UNCHANGED <<ondisk, cache, lh, outstanding, blk, wrote, tail, boot, panicked>>

-----------------------------------------------------------------------------
(* crash and recover_from_log                                              *)

\* Memory is lost; initlog starts with read_head.
Crash ==
    /\ lh' = head
    /\ cache' = disk
    /\ outstanding' = 0
    /\ committing' = FALSE
    /\ pc' = [p \in Procs |-> "idle"]
    /\ blk' = [p \in Procs |-> NoBlock]
    /\ wrote' = {}
    /\ tail' = 0
    /\ boot' = "install"
    /\ panicked' = FALSE
    /\ UNCHANGED ondisk

RecoverInstall ==
    /\ boot = "install"
    /\ InstallBlock
    /\ UNCHANGED <<area, head, lh, outstanding, committing, pc, blk, wrote, boot,
                   panicked>>

RecoverClear ==
    /\ boot = "install"
    /\ ClearHead
    /\ boot' = "up"
    /\ UNCHANGED <<disk, area, cache, outstanding, committing, pc, blk, wrote,
                   panicked>>

-----------------------------------------------------------------------------
Commit(p) == WriteLog(p) \/ WriteHead(p) \/ Install(p) \/ Clear(p) \/ CommitDone(p)

End(p) == EndOther(p) \/ EndLast(p)

Step(p) ==
    \/ Call(p) \/ BeginSleep(p) \/ Begin(p)
    \/ \E b \in Blocks, v \in Vals : Write(p, b, v)
    \/ AppendBlock(p) \/ End(p) \/ Commit(p)

Recover == RecoverInstall \/ RecoverClear

Next == (\E p \in Procs : Step(p)) \/ Recover \/ Crash

Spec == Init /\ [][Next]_vars

\* An operation under way does end (its loops are bounded), a commit goes on,
\* and recovery too, while the machine stays up.
Fairness ==
    /\ WF_vars(Recover)
    /\ \A p \in Procs : /\ WF_vars(BeginSleep(p) \/ Begin(p))
                        /\ WF_vars(AppendBlock(p) \/ Commit(p))
                        /\ SF_vars(End(p))

FairSpec == Spec /\ Fairness

-----------------------------------------------------------------------------
(* Properties                                                              *)

Counters == {"idle", "begin", "asleep", "op", "append", "writelog", "install",
             "commitdone"}

\* Every variable holds a value of its C type, the header lists blocks.
TypeOK ==
    /\ disk \in [Blocks -> Vals]
    /\ area \in [1..LOGSIZE -> Vals]
    /\ cache \in [Blocks -> Vals]
    /\ head \in Seq(Blocks)
    /\ lh \in Seq(Blocks)
    /\ outstanding \in Nat
    /\ committing \in BOOLEAN
    /\ pc \in [Procs -> Counters]
    /\ blk \in [Procs -> Blocks \cup {NoBlock}]
    /\ wrote \subseteq Procs \X Blocks
    /\ tail \in Nat
    /\ boot \in {"install", "up"}
    /\ panicked \in BOOLEAN

InOp == {p \in Procs : pc[p] \in {"op", "append"}}

\* Writes between log_write's test and its append, of a block not yet there.
Pending == {w \in wrote : /\ pc[w[1]] = "append" /\ blk[w[1]] = w[2]
                          /\ ~InLog(lh, w[2])}

\* The reservation of begin_op is enough: however operations overlap and their
\* blocks are absorbed or not, the header holds what they have written and has
\* room for what they still may write.
LogSpace ==
    /\ outstanding = Cardinality(InOp)
    /\ Len(lh) + Cardinality(Pending) + outstanding * MAXOPBLOCKS
           <= LOGSIZE + Cardinality(wrote)

\* While blocks are being installed nobody is in an operation: the commit reads
\* only finished operations.
CommitAlone == committing => outstanding = 0 /\ InOp = {}

\* Who sleeps in begin_op has somebody left to wake it: a commit in progress
\* or an operation whose end_op is still to come.
SleeperHasWaker ==
    (\E p \in Procs : pc[p] = "asleep") => committing \/ outstanding > 0

InCommit == {p \in Procs : pc[p] \in {"writelog", "install", "commitdone"}}

\* The inductive invariant behind LogSpace, CommitAlone and SleeperHasWaker:
\* what an operation wrote is in the header unless log_write is on its way,
\* one process commits at a time, an empty system has an empty header.
RecoversAlone  == boot = "install" =>
                      (\A p \in Procs : pc[p] = "idle") /\ wrote = {} /\ ~committing
HeadFits       == Len(head) <= LOGSIZE
WroteInOp      == \A w \in wrote : w[1] \in InOp
WithinBudget   == \A p \in Procs : Cardinality(WritesOf(p)) <= OPBLOCKS
WroteLogged    == \A w \in wrote :
                      InLog(lh, w[2]) \/ (pc[w[1]] = "append" /\ blk[w[1]] = w[2])
AppendsWritten == \A p \in Procs : pc[p] = "append" => <<p, blk[p]>> \in wrote
OneCommitter   == /\ committing <=> InCommit # {}
                  /\ \A p, q \in InCommit : p = q
DoneIsEmpty    == \A p \in Procs : pc[p] = "commitdone" => lh = << >>
IdleIsEmpty    == boot = "up" /\ outstanding = 0 /\ ~committing => lh = << >>

IInv == /\ TypeOK /\ LogSpace /\ CommitAlone /\ SleeperHasWaker
        /\ RecoversAlone /\ HeadFits /\ WroteInOp /\ WithinBudget
        /\ WroteLogged /\ AppendsWritten /\ OneCommitter /\ DoneIsEmpty
        /\ IdleIsEmpty

\* What a crash at this point leaves, once recovery is through.
Recovered ==
    [b \in Blocks |->
        IF InLog(head, b) THEN area[CHOOSE i \in 1..Len(head) : head[i] = b]
        ELSE disk[b]]

\* The log implements a disk that moves from one state without operations under
\* way to the next in a single step, whatever crash or recovery does.
Abstract == INSTANCE AtomicDisk
    WITH committed <- Recovered,
         mem       <- IF boot = "up" THEN cache ELSE Recovered,
         active    <- IF boot = "up" THEN InOp ELSE {}

AtomicDiskSpec == Abstract!Spec

\* Nobody sleeps in begin_op for ever without being woken to try again, unless
\* the machine crashes.
SleeperWoken ==
    \A p \in Procs : (pc[p] = "asleep") ~> (pc[p] # "asleep")

=============================================================================
