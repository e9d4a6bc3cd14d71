------------------------------ MODULE LogProofs ------------------------------
(***************************************************************************)
(* For every number of processes and blocks and every size of the log: the *)
(* space begin_op reserves is enough, commits run alone, and nobody sleeps *)
(* in begin_op without somebody left to wake it.                           *)
(***************************************************************************)
EXTENDS Log, TLAPS, FiniteSetTheorems

LEMMA Reservation ==
    ASSUME NEW n \in Nat PROVE /\ (n + 1) * MAXOPBLOCKS = n * MAXOPBLOCKS + MAXOPBLOCKS
                               /\ n * MAXOPBLOCKS \in Nat
BY SizeAssumption

\* What the state consists of is finite.
LEMMA Finite ==
    ASSUME TypeOK
    PROVE  /\ IsFiniteSet(InOp) /\ Cardinality(InOp) \in Nat
           /\ IsFiniteSet(wrote) /\ Cardinality(wrote) \in Nat
           /\ IsFiniteSet(Pending) /\ Cardinality(Pending) \in Nat
           /\ Cardinality(Pending) <= Cardinality(wrote)
<1>1. IsFiniteSet(InOp)
  BY ProcsAssumption, FS_Subset DEF InOp
<1>2. IsFiniteSet(wrote)
  BY ProcsAssumption, BlocksAssumption, FS_Product, FS_Subset DEF TypeOK
<1>3. IsFiniteSet(Pending) /\ Cardinality(Pending) <= Cardinality(wrote)
  BY <1>2, FS_Subset DEF Pending
<1> QED BY <1>1, <1>2, <1>3, FS_CardinalityType

\* The header, as far as it is read, holds blocks.
LEMMA HeaderBlock ==
    ASSUME TypeOK, tail < Len(lh)
    PROVE  lh[tail + 1] \in Blocks
BY DEF TypeOK

\* With nobody in an operation, the reservation bounds the header itself.
LEMMA QuietHeader ==
    ASSUME IInv, InOp = {} PROVE Len(lh) <= LOGSIZE /\ wrote = {} /\ outstanding = 0
<1>1. wrote = {}
  BY DEF IInv, WroteInOp
<1>2. outstanding = 0 /\ Cardinality(wrote) = 0
  BY <1>1, FS_EmptySet DEF IInv, LogSpace
<1>3. 0 * MAXOPBLOCKS = 0 /\ Len(lh) \in Nat /\ LOGSIZE \in Nat
  BY SizeAssumption DEF IInv, TypeOK
<1>4. Cardinality(Pending) \in Nat
  BY Finite DEF IInv
<1> QED BY <1>1, <1>2, <1>3, <1>4 DEF IInv, LogSpace

\* A step that leaves the header and the operations alone keeps the balance.
LEMMA SameSpace ==
    ASSUME IInv, InOp' = InOp, Pending' = Pending,
           lh' = lh, outstanding' = outstanding, wrote' = wrote
    PROVE  LogSpace' /\ WithinBudget'
BY DEF IInv, LogSpace, WithinBudget, WritesOf

LEMMA CallStep ==
    ASSUME IInv, NEW p \in Procs, Call(p) PROVE IInv'
<1>1. TypeOK'
  BY DEF IInv, TypeOK, Counters, NoBlock, ondisk, Call, At, Goto
<1>2. InOp' = InOp /\ Pending' = Pending
  BY DEF IInv, TypeOK, InOp, Pending, InLog, ondisk, RecoversAlone, Call, At,
         Goto
<1>3. LogSpace' /\ WithinBudget'
  BY <1>2, SameSpace DEF ondisk, Call, At, Goto
<1>4. HeadFits'
  BY SizeAssumption DEF IInv, HeadFits, CommitAlone, OneCommitter, InCommit, ondisk, Call, At,
         Goto
<1>5. SleeperHasWaker' /\ RecoversAlone' /\ WroteInOp' /\ WroteLogged' /\
      AppendsWritten'
  BY SizeAssumption
     DEF IInv, TypeOK, SleeperHasWaker, CommitAlone, RecoversAlone, WroteInOp,
         WroteLogged, AppendsWritten, OneCommitter, DoneIsEmpty, IdleIsEmpty,
         LogSpace, InOp, InCommit, InLog, WritesOf, ondisk, Call, At, Goto
<1>6. CommitAlone' /\ OneCommitter' /\ DoneIsEmpty' /\ IdleIsEmpty'
  BY SizeAssumption
     DEF IInv, TypeOK, SleeperHasWaker, CommitAlone, RecoversAlone, WroteInOp,
         WroteLogged, AppendsWritten, OneCommitter, DoneIsEmpty, IdleIsEmpty,
         InOp, InCommit, InLog, WritesOf, ondisk, Call, At, Goto
<1> QED BY <1>1, <1>3, <1>4, <1>5, <1>6 DEF IInv

LEMMA BeginSleepStep ==
    ASSUME IInv, NEW p \in Procs, BeginSleep(p) PROVE IInv'
<1>1. TypeOK'
  BY DEF IInv, TypeOK, Counters, NoBlock, ondisk, BeginSleep, MustWait,
         NoSpace, At, Goto
<1>2. InOp' = InOp /\ Pending' = Pending
  BY DEF IInv, TypeOK, InOp, Pending, InLog, ondisk, RecoversAlone, BeginSleep,
         MustWait, NoSpace, At, Goto
<1>3. LogSpace' /\ WithinBudget'
  BY <1>2, SameSpace DEF ondisk, BeginSleep, MustWait, NoSpace, At, Goto
<1>4. HeadFits'
  BY SizeAssumption DEF IInv, HeadFits, CommitAlone, OneCommitter, InCommit, ondisk,
         BeginSleep, MustWait, NoSpace, At, Goto
<1>5. SleeperHasWaker' /\ RecoversAlone' /\ WroteInOp' /\ WroteLogged' /\
      AppendsWritten'
  BY SizeAssumption
     DEF IInv, TypeOK, SleeperHasWaker, CommitAlone, RecoversAlone, WroteInOp,
         WroteLogged, AppendsWritten, OneCommitter, DoneIsEmpty, IdleIsEmpty,
         LogSpace, InOp, InCommit, InLog, WritesOf, ondisk, BeginSleep,
         MustWait, NoSpace, At, Goto
<1>6. CommitAlone' /\ OneCommitter' /\ DoneIsEmpty' /\ IdleIsEmpty'
  BY SizeAssumption
     DEF IInv, TypeOK, SleeperHasWaker, CommitAlone, RecoversAlone, WroteInOp,
         WroteLogged, AppendsWritten, OneCommitter, DoneIsEmpty, IdleIsEmpty,
         InOp, InCommit, InLog, WritesOf, ondisk, BeginSleep, MustWait,
         NoSpace, At, Goto
<1> QED BY <1>1, <1>3, <1>4, <1>5, <1>6 DEF IInv

LEMMA WriteLogStep ==
    ASSUME IInv, NEW p \in Procs, WriteLog(p) PROVE IInv'
<1>1. TypeOK'
  <2>1. lh[tail + 1] \in Blocks
    BY HeaderBlock DEF IInv, WriteLog, At
  <2>2. tail + 1 \in 1..LOGSIZE
    <3>1. InOp = {}
      BY DEF IInv, CommitAlone, OneCommitter, InCommit, RecoversAlone, InOp,
         WriteLog, At
    <3> QED BY <3>1, QuietHeader, SizeAssumption DEF IInv, TypeOK, WriteLog, At
  <2> QED BY <2>1, <2>2
          DEF IInv, TypeOK, Counters, ondisk, WriteLog, At
<1>2. InOp' = InOp /\ Pending' = Pending
  BY DEF IInv, TypeOK, InOp, Pending, InLog, ondisk, RecoversAlone, WriteLog,
         At
<1>3. LogSpace' /\ WithinBudget'
  BY <1>2, SameSpace DEF ondisk, WriteLog, At
<1>4. HeadFits'
  BY SizeAssumption DEF IInv, HeadFits, CommitAlone, OneCommitter, InCommit, ondisk, WriteLog,
         At
<1>5. SleeperHasWaker' /\ RecoversAlone' /\ WroteInOp' /\ WroteLogged' /\
      AppendsWritten'
  BY SizeAssumption
     DEF IInv, TypeOK, SleeperHasWaker, CommitAlone, RecoversAlone, WroteInOp,
         WroteLogged, AppendsWritten, OneCommitter, DoneIsEmpty, IdleIsEmpty,
         LogSpace, InOp, InCommit, InLog, WritesOf, ondisk, WriteLog, At
<1>6. CommitAlone' /\ OneCommitter' /\ DoneIsEmpty' /\ IdleIsEmpty'
  BY SizeAssumption
     DEF IInv, TypeOK, SleeperHasWaker, CommitAlone, RecoversAlone, WroteInOp,
         WroteLogged, AppendsWritten, OneCommitter, DoneIsEmpty, IdleIsEmpty,
         InOp, InCommit, InLog, WritesOf, ondisk, WriteLog, At
<1> QED BY <1>1, <1>3, <1>4, <1>5, <1>6 DEF IInv

LEMMA WriteHeadStep ==
    ASSUME IInv, NEW p \in Procs, WriteHead(p) PROVE IInv'
<1>1. TypeOK'
  BY DEF IInv, TypeOK, Counters, NoBlock, ondisk, WriteHead, LogWritten, At,
         Goto
<1>2. InOp' = InOp /\ Pending' = Pending
  BY DEF IInv, TypeOK, InOp, Pending, InLog, ondisk, RecoversAlone, WriteHead,
         LogWritten, At, Goto
<1>3. LogSpace' /\ WithinBudget'
  BY <1>2, SameSpace DEF ondisk, WriteHead, LogWritten, At, Goto
<1>4. HeadFits'
  BY QuietHeader, SizeAssumption DEF IInv, HeadFits, CommitAlone, OneCommitter, InCommit, ondisk,
         WriteHead, LogWritten, At, Goto
<1>5. SleeperHasWaker' /\ RecoversAlone' /\ WroteInOp' /\ WroteLogged' /\
      AppendsWritten'
  BY SizeAssumption
     DEF IInv, TypeOK, SleeperHasWaker, CommitAlone, RecoversAlone, WroteInOp,
         WroteLogged, AppendsWritten, OneCommitter, DoneIsEmpty, IdleIsEmpty,
         LogSpace, InOp, InCommit, InLog, WritesOf, ondisk, WriteHead,
         LogWritten, At, Goto
<1>6. CommitAlone' /\ OneCommitter' /\ DoneIsEmpty' /\ IdleIsEmpty'
  BY SizeAssumption
     DEF IInv, TypeOK, SleeperHasWaker, CommitAlone, RecoversAlone, WroteInOp,
         WroteLogged, AppendsWritten, OneCommitter, DoneIsEmpty, IdleIsEmpty,
         InOp, InCommit, InLog, WritesOf, ondisk, WriteHead, LogWritten, At,
         Goto
<1> QED BY <1>1, <1>3, <1>4, <1>5, <1>6 DEF IInv

LEMMA InstallStep ==
    ASSUME IInv, NEW p \in Procs, Install(p) PROVE IInv'
<1>1. TypeOK'
  <2>1. lh[tail + 1] \in Blocks
    BY HeaderBlock DEF IInv, Install, InstallBlock, At
  <2>2. tail + 1 \in 1..LOGSIZE
    <3>1. InOp = {}
      BY DEF IInv, CommitAlone, OneCommitter, InCommit, RecoversAlone, InOp,
         Install, InstallBlock, At
    <3> QED BY <3>1, QuietHeader, SizeAssumption DEF IInv, TypeOK, Install, InstallBlock, At
  <2> QED BY <2>1, <2>2
          DEF IInv, TypeOK, Counters, ondisk, Install, InstallBlock, At
<1>2. InOp' = InOp /\ Pending' = Pending
  BY DEF IInv, TypeOK, InOp, Pending, InLog, ondisk, RecoversAlone, Install,
         InstallBlock, At
<1>3. LogSpace' /\ WithinBudget'
  BY <1>2, SameSpace DEF ondisk, Install, InstallBlock, At
<1>4. HeadFits'
  BY SizeAssumption DEF IInv, HeadFits, CommitAlone, OneCommitter, InCommit, ondisk, Install,
         InstallBlock, At
<1>5. SleeperHasWaker' /\ RecoversAlone' /\ WroteInOp' /\ WroteLogged' /\
      AppendsWritten'
  BY SizeAssumption
     DEF IInv, TypeOK, SleeperHasWaker, CommitAlone, RecoversAlone, WroteInOp,
         WroteLogged, AppendsWritten, OneCommitter, DoneIsEmpty, IdleIsEmpty,
         LogSpace, InOp, InCommit, InLog, WritesOf, ondisk, Install,
         InstallBlock, At
<1>6. CommitAlone' /\ OneCommitter' /\ DoneIsEmpty' /\ IdleIsEmpty'
  BY SizeAssumption
     DEF IInv, TypeOK, SleeperHasWaker, CommitAlone, RecoversAlone, WroteInOp,
         WroteLogged, AppendsWritten, OneCommitter, DoneIsEmpty, IdleIsEmpty,
         InOp, InCommit, InLog, WritesOf, ondisk, Install, InstallBlock, At
<1> QED BY <1>1, <1>3, <1>4, <1>5, <1>6 DEF IInv

LEMMA CommitDoneStep ==
    ASSUME IInv, NEW p \in Procs, CommitDone(p) PROVE IInv'
<1>1. TypeOK'
  BY DEF IInv, TypeOK, Counters, NoBlock, ondisk, CommitDone, WakeAfterCommit,
         WakeAllAndGoto, At
<1>2. InOp' = InOp /\ Pending' = Pending
  BY DEF IInv, TypeOK, InOp, Pending, InLog, ondisk, RecoversAlone, CommitDone,
         WakeAfterCommit, WakeAllAndGoto, At
<1>3. LogSpace' /\ WithinBudget'
  BY <1>2, SameSpace DEF ondisk, CommitDone, WakeAfterCommit, WakeAllAndGoto, At
<1>4. HeadFits'
  BY SizeAssumption DEF IInv, HeadFits, CommitAlone, OneCommitter, InCommit, ondisk,
         CommitDone, WakeAfterCommit, WakeAllAndGoto, At
<1>5. SleeperHasWaker' /\ RecoversAlone' /\ WroteInOp' /\ WroteLogged' /\
      AppendsWritten'
  BY SizeAssumption
     DEF IInv, TypeOK, SleeperHasWaker, CommitAlone, RecoversAlone, WroteInOp,
         WroteLogged, AppendsWritten, OneCommitter, DoneIsEmpty, IdleIsEmpty,
         LogSpace, InOp, InCommit, InLog, WritesOf, ondisk, CommitDone,
         WakeAfterCommit, WakeAllAndGoto, At
<1>6. CommitAlone' /\ OneCommitter' /\ DoneIsEmpty' /\ IdleIsEmpty'
  BY SizeAssumption
     DEF IInv, TypeOK, SleeperHasWaker, CommitAlone, RecoversAlone, WroteInOp,
         WroteLogged, AppendsWritten, OneCommitter, DoneIsEmpty, IdleIsEmpty,
         InOp, InCommit, InLog, WritesOf, ondisk, CommitDone, WakeAfterCommit,
         WakeAllAndGoto, At
<1> QED BY <1>1, <1>3, <1>4, <1>5, <1>6 DEF IInv

LEMMA RecoverInstallStep ==
    ASSUME IInv, RecoverInstall PROVE IInv'
<1>1. TypeOK'
  <2>1. lh[tail + 1] \in Blocks
    BY HeaderBlock DEF IInv, RecoverInstall, InstallBlock
  <2>2. tail + 1 \in 1..LOGSIZE
    <3>1. InOp = {}
      BY DEF IInv, CommitAlone, OneCommitter, InCommit, RecoversAlone, InOp,
         RecoverInstall, InstallBlock
    <3> QED BY <3>1, QuietHeader, SizeAssumption DEF IInv, TypeOK, RecoverInstall, InstallBlock
  <2>3. area[tail + 1] \in Vals
    BY <2>2 DEF IInv, TypeOK
  <2>4. disk' \in [Blocks -> Vals] /\ cache' \in [Blocks -> Vals] /\ tail' \in Nat
    BY <2>1, <2>3 DEF IInv, TypeOK, RecoverInstall, InstallBlock
  <2> QED BY <2>4 DEF IInv, TypeOK, RecoverInstall
<1>2. InOp' = InOp /\ Pending' = Pending
  BY DEF IInv, TypeOK, InOp, Pending, InLog, ondisk, RecoversAlone,
         RecoverInstall, InstallBlock
<1>3. LogSpace' /\ WithinBudget'
  BY <1>2, SameSpace DEF ondisk, RecoverInstall, InstallBlock
<1>4. HeadFits'
  BY SizeAssumption DEF IInv, HeadFits, CommitAlone, OneCommitter, InCommit, ondisk,
         RecoverInstall, InstallBlock
<1>5. SleeperHasWaker' /\ RecoversAlone' /\ WroteInOp' /\ WroteLogged' /\
      AppendsWritten'
  BY SizeAssumption
     DEF IInv, TypeOK, SleeperHasWaker, CommitAlone, RecoversAlone, WroteInOp,
         WroteLogged, AppendsWritten, OneCommitter, DoneIsEmpty, IdleIsEmpty,
         LogSpace, InOp, InCommit, InLog, WritesOf, ondisk, RecoverInstall,
         InstallBlock
<1>6. CommitAlone' /\ OneCommitter' /\ DoneIsEmpty' /\ IdleIsEmpty'
  BY SizeAssumption
     DEF IInv, TypeOK, SleeperHasWaker, CommitAlone, RecoversAlone, WroteInOp,
         WroteLogged, AppendsWritten, OneCommitter, DoneIsEmpty, IdleIsEmpty,
         InOp, InCommit, InLog, WritesOf, ondisk, RecoverInstall, InstallBlock
<1> QED BY <1>1, <1>3, <1>4, <1>5, <1>6 DEF IInv

LEMMA BeginStep ==
    ASSUME IInv, NEW p \in Procs, Begin(p) PROVE IInv'
<1> USE DEF Begin, Reserve, MustWait, NoSpace, At, Goto, ondisk
<1>1. TypeOK'
  BY DEF IInv, TypeOK, Counters
<1>2. InOp' = InOp \cup {p} /\ p \notin InOp
  BY DEF IInv, TypeOK, InOp
<1>3. Pending' = Pending
  BY DEF IInv, TypeOK, Pending, WroteInOp, InOp
<1>4. LogSpace'
  <2>1. Cardinality(InOp') = outstanding'
    BY <1>2, Finite, FS_AddElement DEF IInv, LogSpace
  <2>2. Len(lh') + Cardinality(Pending') + outstanding' * MAXOPBLOCKS
           <= LOGSIZE + Cardinality(wrote')
    BY <1>3, Finite, Reservation, SizeAssumption DEF IInv, TypeOK
  <2> QED BY <2>1, <2>2 DEF LogSpace
<1>5. WithinBudget' /\ HeadFits'
  BY DEF IInv, WithinBudget, WritesOf, HeadFits
<1>6. SleeperHasWaker' /\ RecoversAlone' /\ WroteInOp' /\ WroteLogged' /\
      AppendsWritten'
  BY SizeAssumption
     DEF IInv, TypeOK, SleeperHasWaker, CommitAlone, RecoversAlone, WroteInOp,
         WroteLogged, AppendsWritten, OneCommitter, DoneIsEmpty, IdleIsEmpty,
         LogSpace, InOp, InCommit, InLog, WritesOf
<1>7. CommitAlone' /\ OneCommitter' /\ DoneIsEmpty' /\ IdleIsEmpty'
  BY SizeAssumption
     DEF IInv, TypeOK, SleeperHasWaker, CommitAlone, RecoversAlone, WroteInOp,
         WroteLogged, AppendsWritten, OneCommitter, DoneIsEmpty, IdleIsEmpty,
         InOp, InCommit, InLog, WritesOf
<1> QED BY <1>1, <1>4, <1>5, <1>6, <1>7 DEF IInv

LEMMA WriteStep ==
    ASSUME IInv, NEW p \in Procs, NEW b \in Blocks, NEW v \in Vals, Write(p, b, v)
    PROVE  IInv'
<1> USE DEF Write, MayWrite, At, Goto, ondisk
<1>1. TypeOK'
  BY DEF IInv, TypeOK, Counters
<1>2. InOp' = InOp
  BY DEF IInv, TypeOK, InOp
<1>3. LogSpace'
  <2>1. CASE InLog(lh, b)
    <3>1. Pending' = Pending
      BY <2>1 DEF IInv, TypeOK, Pending
    <3>2. Cardinality(wrote) <= Cardinality(wrote') /\ Cardinality(wrote') \in Nat
      <4>1. wrote' = wrote \cup {<<p, b>>} /\ IsFiniteSet(wrote)
        BY Finite DEF IInv
      <4>2. Cardinality(wrote) \in Nat
        BY <4>1, FS_CardinalityType
      <4>3. Cardinality(wrote \cup {<<p, b>>}) \in {Cardinality(wrote), Cardinality(wrote) + 1}
        BY <4>1, FS_AddElement
      <4> QED BY <4>1, <4>2, <4>3
    <3>3. /\ Cardinality(wrote) \in Nat /\ Cardinality(Pending) \in Nat
          /\ Len(lh) \in Nat /\ LOGSIZE \in Nat /\ outstanding * MAXOPBLOCKS \in Nat
      BY Finite, Reservation, SizeAssumption DEF IInv, TypeOK
    <3> QED BY <1>2, <3>1, <3>2, <3>3 DEF IInv, LogSpace
  <2>2. CASE ~InLog(lh, b)
    <3>1. <<p, b>> \notin wrote
      BY <2>2 DEF IInv, WroteLogged
    <3>2. Pending' = Pending \cup {<<p, b>>} /\ <<p, b>> \notin Pending
      BY <2>2, <3>1 DEF IInv, TypeOK, Pending
    <3>3. /\ Cardinality(Pending') = Cardinality(Pending) + 1
          /\ Cardinality(wrote') = Cardinality(wrote) + 1
      BY <3>1, <3>2, Finite, FS_AddElement DEF IInv
    <3>4. /\ Cardinality(wrote) \in Nat /\ Cardinality(Pending) \in Nat
          /\ Len(lh) \in Nat /\ LOGSIZE \in Nat /\ outstanding * MAXOPBLOCKS \in Nat
      BY Finite, Reservation, SizeAssumption DEF IInv, TypeOK
    <3> QED BY <1>2, <3>3, <3>4 DEF IInv, LogSpace
  <2> QED BY <2>1, <2>2
<1>4. WithinBudget'
  <2>1. ASSUME NEW q \in Procs, q # p PROVE WritesOf(q)' = WritesOf(q)
    BY <2>1 DEF WritesOf
  <2>2. WritesOf(p)' = WritesOf(p) \cup {<<p, b>>}
    BY DEF WritesOf
  <2>3. CASE <<p, b>> \in wrote
    BY <2>1, <2>2, <2>3 DEF IInv, WithinBudget, WritesOf
  <2>4. CASE <<p, b>> \notin wrote
    <3>1. IsFiniteSet(WritesOf(p)) /\ Cardinality(WritesOf(p)) \in Nat
      BY Finite, FS_Subset, FS_CardinalityType DEF IInv, WritesOf
    <3>2. Cardinality(WritesOf(p)') = Cardinality(WritesOf(p)) + 1
      BY <2>2, <2>4, <3>1, FS_AddElement DEF WritesOf
    <3>3. Cardinality(WritesOf(p)) < OPBLOCKS
      BY <2>4
    <3> QED BY <2>1, <3>1, <3>2, <3>3, SizeAssumption DEF IInv, WithinBudget
  <2> QED BY <2>3, <2>4
<1>5. HeadFits'
  BY DEF IInv, HeadFits
<1>6. SleeperHasWaker' /\ RecoversAlone' /\ WroteInOp' /\ WroteLogged' /\
      AppendsWritten'
  BY SizeAssumption
     DEF IInv, TypeOK, SleeperHasWaker, CommitAlone, RecoversAlone, WroteInOp,
         WroteLogged, AppendsWritten, OneCommitter, DoneIsEmpty, IdleIsEmpty,
         LogSpace, InOp, InCommit, InLog, WritesOf
<1>7. CommitAlone' /\ OneCommitter' /\ DoneIsEmpty' /\ IdleIsEmpty'
  BY SizeAssumption
     DEF IInv, TypeOK, SleeperHasWaker, CommitAlone, RecoversAlone, WroteInOp,
         WroteLogged, AppendsWritten, OneCommitter, DoneIsEmpty, IdleIsEmpty,
         InOp, InCommit, InLog, WritesOf
<1> QED BY <1>1, <1>3, <1>4, <1>5, <1>6, <1>7 DEF IInv

LEMMA AppendBlockStep ==
    ASSUME IInv, NEW p \in Procs, AppendBlock(p) PROVE IInv'
<1> USE DEF AppendBlock, LogBlock, At, Goto, ondisk
<1>0. blk[p] \in Blocks /\ <<p, blk[p]>> \in wrote
  BY DEF IInv, TypeOK, AppendsWritten
<1>1. TypeOK'
  BY <1>0 DEF IInv, TypeOK, Counters
<1>2. InOp' = InOp
  BY DEF IInv, TypeOK, InOp
<1>a. /\ InLog(lh', blk[p])
      /\ \A c \in Blocks : InLog(lh, c) => InLog(lh', c)
  <2>1. CASE InLog(lh, blk[p])
    BY <2>1
  <2>2. CASE ~InLog(lh, blk[p])
    <3>1. lh' = Append(lh, blk[p]) /\ lh \in Seq(Blocks)
      BY <2>2 DEF IInv, TypeOK
    <3>2. /\ Len(lh') = Len(lh) + 1 /\ lh'[Len(lh) + 1] = blk[p]
          /\ \A i \in 1..Len(lh) : lh'[i] = lh[i]
      BY <3>1, <1>0
    <3> QED BY <3>1, <3>2 DEF InLog
  <2> QED BY <2>1, <2>2
<1>3. LogSpace'
  <2>1. CASE InLog(lh, blk[p])
    <3>1. Pending' = Pending
      BY <2>1, <1>0 DEF IInv, TypeOK, Pending
    <3> QED BY <1>2, <2>1, <3>1 DEF IInv, LogSpace
  <2>2. CASE ~InLog(lh, blk[p])
    <3>1. <<p, blk[p]>> \in Pending
      BY <2>2, <1>0 DEF Pending
    <3>2. Pending' \subseteq Pending \ {<<p, blk[p]>>}
      BY <1>0, <1>a DEF IInv, TypeOK, Pending
    <3>3. /\ Cardinality(Pending \ {<<p, blk[p]>>}) = Cardinality(Pending) - 1
          /\ IsFiniteSet(Pending \ {<<p, blk[p]>>})
      BY <3>1, Finite, FS_RemoveElement DEF IInv
    <3>4. /\ Cardinality(Pending') <= Cardinality(Pending) - 1
          /\ Cardinality(Pending') \in Nat
      BY <3>2, <3>3, FS_Subset, FS_CardinalityType
    <3>5. Len(lh') = Len(lh) + 1
      BY <2>2, <1>0 DEF IInv, TypeOK
    <3>6. /\ Cardinality(wrote) \in Nat /\ Cardinality(Pending) \in Nat
          /\ Len(lh) \in Nat /\ LOGSIZE \in Nat /\ outstanding * MAXOPBLOCKS \in Nat
      BY Finite, Reservation, SizeAssumption DEF IInv, TypeOK
    <3> QED BY <1>2, <3>4, <3>5, <3>6 DEF IInv, LogSpace
  <2> QED BY <2>1, <2>2
<1>4. WithinBudget' /\ HeadFits'
  BY DEF IInv, WithinBudget, WritesOf, HeadFits
<1>5. WroteLogged'
  BY <1>0, <1>a DEF IInv, TypeOK, WroteLogged
<1>6. SleeperHasWaker' /\ RecoversAlone' /\ WroteInOp' /\ AppendsWritten'
  BY DEF IInv, TypeOK, SleeperHasWaker, RecoversAlone, WroteInOp, AppendsWritten,
         InOp
<1>7. CommitAlone' /\ OneCommitter' /\ DoneIsEmpty'
  BY <1>2 DEF IInv, TypeOK, CommitAlone, OneCommitter, DoneIsEmpty, InOp, InCommit
<1>8. IdleIsEmpty'
  <2>1. outstanding # 0
    BY Finite, FS_EmptySet DEF IInv, LogSpace, InOp
  <2> QED BY <2>1 DEF IdleIsEmpty
<1> QED BY <1>1, <1>3, <1>4, <1>5, <1>6, <1>7, <1>8 DEF IInv

\* What an operation gives back is at least what it has written.
LEMMA LeaveOp ==
    ASSUME IInv, NEW p \in Procs, pc[p] = "op", InOp' = InOp \ {p}, Pending' = Pending,
           lh' = lh, outstanding' = outstanding - 1, Forget(p)
    PROVE  LogSpace' /\ WithinBudget' /\ outstanding >= 1
<1>1. /\ IsFiniteSet(WritesOf(p)) /\ Cardinality(WritesOf(p)) \in Nat
      /\ Cardinality(WritesOf(p)) <= MAXOPBLOCKS
  BY Finite, FS_Subset, FS_CardinalityType, SizeAssumption
     DEF IInv, WritesOf, WithinBudget
<1>2. Cardinality(wrote') = Cardinality(wrote) - Cardinality(WritesOf(p))
  <2>1. wrote \cap WritesOf(p) = WritesOf(p)
    BY DEF WritesOf
  <2>2. IsFiniteSet(wrote)
    BY Finite DEF IInv
  <2>3. Cardinality(wrote \ WritesOf(p))
            = Cardinality(wrote) - Cardinality(wrote \cap WritesOf(p))
    BY <1>1, <2>2, FS_Difference
  <2> QED BY <2>1, <2>3 DEF Forget
<1>3. Cardinality(InOp') = Cardinality(InOp) - 1 /\ Cardinality(InOp) >= 1
  <2>1. p \in InOp
    BY DEF InOp
  <2>2. IsFiniteSet(InOp) /\ Cardinality(InOp) \in Nat
    BY Finite DEF IInv
  <2>3. Cardinality(InOp) # 0
    BY <2>1, <2>2, FS_EmptySet
  <2>4. Cardinality(InOp \ {p}) = Cardinality(InOp) - 1
    BY <2>1, <2>2, FS_RemoveElement
  <2> QED BY <2>2, <2>3, <2>4
<1>4. outstanding \in Nat /\ outstanding >= 1
  BY <1>3 DEF IInv, TypeOK, LogSpace
<1>5. outstanding * MAXOPBLOCKS = (outstanding - 1) * MAXOPBLOCKS + MAXOPBLOCKS
  BY <1>4, Reservation, SizeAssumption
<1>6. LogSpace'
  <2>1. (outstanding - 1) * MAXOPBLOCKS \in Nat
    BY <1>4, SizeAssumption
  <2>2. /\ Cardinality(wrote) \in Nat /\ Cardinality(Pending) \in Nat
        /\ Len(lh) \in Nat /\ LOGSIZE \in Nat /\ MAXOPBLOCKS \in Nat
    BY Finite, SizeAssumption DEF IInv, TypeOK
  <2> QED BY <1>1, <1>2, <1>3, <1>5, <2>1, <2>2 DEF IInv, LogSpace
<1>7. WithinBudget'
  <2>1. ASSUME NEW q \in Procs
        PROVE  Cardinality(WritesOf(q)') <= OPBLOCKS
    <3>1. WritesOf(q)' = IF q = p THEN {} ELSE WritesOf(q)
      BY DEF WritesOf, Forget
    <3> QED BY <3>1, FS_EmptySet, SizeAssumption DEF IInv, WithinBudget
  <2> QED BY <2>1 DEF WithinBudget
<1> QED BY <1>4, <1>6, <1>7

LEMMA EndOtherStep ==
    ASSUME IInv, NEW p \in Procs, EndOther(p) PROVE IInv'
<1> USE DEF EndOther, WakeForSpace, WakeAllAndGoto, At, ondisk
<1>1. InOp' = InOp \ {p}
  BY DEF IInv, TypeOK, InOp
<1>2. Pending' = Pending
  BY DEF IInv, TypeOK, Pending, Forget, WritesOf
<1>3. LogSpace' /\ WithinBudget' /\ outstanding >= 1
  BY <1>1, <1>2, LeaveOp
<1>4. TypeOK'
  BY <1>3 DEF IInv, TypeOK, Counters, Forget, CommitAlone
<1>5. HeadFits'
  BY DEF IInv, HeadFits
<1>6. SleeperHasWaker' /\ RecoversAlone' /\ WroteInOp' /\ WroteLogged' /\
      AppendsWritten'
  BY <1>3
     DEF IInv, TypeOK, SleeperHasWaker, CommitAlone, RecoversAlone, WroteInOp,
         WroteLogged, AppendsWritten, OneCommitter, DoneIsEmpty, IdleIsEmpty,
         LogSpace, InOp, InCommit, InLog, WritesOf, Forget
<1>7. CommitAlone' /\ OneCommitter' /\ DoneIsEmpty' /\ IdleIsEmpty'
  BY <1>3
     DEF IInv, TypeOK, SleeperHasWaker, CommitAlone, RecoversAlone, WroteInOp,
         WroteLogged, AppendsWritten, OneCommitter, DoneIsEmpty, IdleIsEmpty,
         InOp, InCommit, InLog, WritesOf, Forget
<1> QED BY <1>3, <1>4, <1>5, <1>6, <1>7 DEF IInv

LEMMA EndLastStep ==
    ASSUME IInv, NEW p \in Procs, EndLast(p) PROVE IInv'
<1> USE DEF EndLast, At, Goto, ondisk
<1>1. InOp' = InOp \ {p} /\ InOp = {p}
  <2>1. p \in InOp /\ Cardinality(InOp) = 1
    BY DEF IInv, LogSpace, InOp
  <2>2. InOp = {p}
    BY <2>1, Finite, FS_Singleton DEF IInv
  <2> QED BY <2>2 DEF IInv, TypeOK, InOp
<1>2. Pending' = Pending
  BY DEF IInv, TypeOK, Pending, Forget, WritesOf
<1>3. LogSpace' /\ WithinBudget'
  BY <1>1, <1>2, LeaveOp
<1>4. TypeOK'
  BY DEF IInv, TypeOK, Counters, Forget
<1>5. HeadFits'
  BY DEF IInv, HeadFits
<1>6. wrote' = {} /\ InOp' = {} /\ InCommit = {}
  BY <1>1 DEF IInv, WroteInOp, Forget, WritesOf, CommitAlone, OneCommitter
<1>7. SleeperHasWaker' /\ RecoversAlone' /\ WroteInOp' /\ WroteLogged'
      /\ AppendsWritten'
  BY <1>1, <1>6 DEF IInv, TypeOK, SleeperHasWaker, RecoversAlone, WroteInOp,
                    WroteLogged, AppendsWritten, InOp
<1>8. InCommit' = {p}
  BY <1>6 DEF IInv, TypeOK, InCommit
<1>9. CommitAlone' /\ OneCommitter' /\ IdleIsEmpty'
  BY <1>6, <1>8 DEF CommitAlone, OneCommitter, IdleIsEmpty
<1>10. DoneIsEmpty'
  BY <1>6 DEF IInv, TypeOK, DoneIsEmpty, InCommit
<1> QED BY <1>3, <1>4, <1>5, <1>7, <1>9, <1>10 DEF IInv

LEMMA ClearStep ==
    ASSUME IInv, NEW p \in Procs, Clear(p) PROVE IInv'
<1> USE DEF Clear, ClearHead, At, Goto, ondisk
<1>1. TypeOK'
  BY DEF IInv, TypeOK, Counters
<1>2. InOp = {} /\ InOp' = {} /\ wrote = {} /\ outstanding = 0 /\ committing
  BY QuietHeader DEF IInv, TypeOK, CommitAlone, OneCommitter, InCommit, InOp
<1>3. LogSpace'
  BY <1>2, FS_EmptySet, SizeAssumption DEF IInv, LogSpace, Pending
<1>4. WithinBudget' /\ HeadFits'
  BY SizeAssumption DEF IInv, WithinBudget, WritesOf, HeadFits
<1>5. SleeperHasWaker' /\ RecoversAlone' /\ WroteInOp' /\ WroteLogged' /\
      AppendsWritten'
  BY <1>2
     DEF IInv, TypeOK, SleeperHasWaker, CommitAlone, RecoversAlone, WroteInOp,
         WroteLogged, AppendsWritten, OneCommitter, DoneIsEmpty, IdleIsEmpty,
         LogSpace, InOp, InCommit, InLog, WritesOf
<1>6. CommitAlone' /\ OneCommitter' /\ DoneIsEmpty' /\ IdleIsEmpty'
  BY <1>2
     DEF IInv, TypeOK, SleeperHasWaker, CommitAlone, RecoversAlone, WroteInOp,
         WroteLogged, AppendsWritten, OneCommitter, DoneIsEmpty, IdleIsEmpty,
         InOp, InCommit, InLog, WritesOf
<1> QED BY <1>1, <1>3, <1>4, <1>5, <1>6 DEF IInv

LEMMA CrashStep == ASSUME IInv, Crash PROVE IInv'
<1> USE DEF Crash, ondisk
<1>1. TypeOK'
  BY DEF IInv, TypeOK, Counters
<1>2. InOp' = {} /\ InCommit' = {} /\ Pending' = {}
  BY DEF InOp, InCommit, Pending
<1>3. LogSpace' /\ HeadFits'
  <2>1. 0 * MAXOPBLOCKS = 0
    BY SizeAssumption
  <2> QED BY <1>2, <2>1, FS_EmptySet, SizeAssumption
          DEF IInv, TypeOK, LogSpace, HeadFits
<1>4. WithinBudget'
  BY FS_EmptySet, SizeAssumption DEF WithinBudget, WritesOf
<1>5. SleeperHasWaker' /\ RecoversAlone' /\ WroteInOp' /\ WroteLogged' /\
      AppendsWritten'
  BY <1>2
     DEF IInv, TypeOK, SleeperHasWaker, CommitAlone, RecoversAlone, WroteInOp,
         WroteLogged, AppendsWritten, OneCommitter, DoneIsEmpty, IdleIsEmpty,
         LogSpace, InOp, InCommit, InLog, WritesOf
<1>6. CommitAlone' /\ OneCommitter' /\ DoneIsEmpty' /\ IdleIsEmpty'
  BY <1>2
     DEF IInv, TypeOK, SleeperHasWaker, CommitAlone, RecoversAlone, WroteInOp,
         WroteLogged, AppendsWritten, OneCommitter, DoneIsEmpty, IdleIsEmpty,
         InOp, InCommit, InLog, WritesOf
<1> QED BY <1>1, <1>3, <1>4, <1>5, <1>6 DEF IInv

LEMMA RecoverClearStep == ASSUME IInv, RecoverClear PROVE IInv'
<1> USE DEF RecoverClear, ClearHead, ondisk
<1>1. TypeOK'
  BY DEF IInv, TypeOK
<1>2. InOp = {} /\ InOp' = {} /\ wrote = {} /\ outstanding = 0 /\ ~committing
  BY QuietHeader DEF IInv, RecoversAlone, InOp
<1>3. LogSpace'
  <2>1. 0 * MAXOPBLOCKS = 0
    BY SizeAssumption
  <2> QED BY <1>2, <2>1, FS_EmptySet, SizeAssumption DEF IInv, LogSpace, Pending
<1>4. WithinBudget' /\ HeadFits'
  BY SizeAssumption DEF IInv, WithinBudget, WritesOf, HeadFits
<1>5. SleeperHasWaker' /\ RecoversAlone' /\ WroteInOp' /\ WroteLogged' /\
      AppendsWritten'
  BY <1>2
     DEF IInv, TypeOK, SleeperHasWaker, CommitAlone, RecoversAlone, WroteInOp,
         WroteLogged, AppendsWritten, OneCommitter, DoneIsEmpty, IdleIsEmpty,
         LogSpace, InOp, InCommit, InLog, WritesOf
<1>6. CommitAlone' /\ OneCommitter' /\ DoneIsEmpty' /\ IdleIsEmpty'
  BY <1>2
     DEF IInv, TypeOK, SleeperHasWaker, CommitAlone, RecoversAlone, WroteInOp,
         WroteLogged, AppendsWritten, OneCommitter, DoneIsEmpty, IdleIsEmpty,
         InOp, InCommit, InLog, WritesOf
<1> QED BY <1>1, <1>3, <1>4, <1>5, <1>6 DEF IInv

LEMMA InitEstablishes == Init => IInv
<1> SUFFICES ASSUME Init PROVE IInv
  OBVIOUS
<1>1. TypeOK
  <2>1. area \in [1..LOGSIZE -> Vals]
    BY DEF Init
  <2>2. disk \in [Blocks -> Vals] /\ cache \in [Blocks -> Vals]
    BY DEF Init
  <2>3. << >> \in Seq(Blocks)
    OBVIOUS
  <2>4. pc \in [Procs -> Counters]
    BY DEF Init, Counters
  <2>5. blk \in [Procs -> Blocks \cup {NoBlock}]
    BY DEF Init
  <2>6. /\ outstanding \in Nat /\ committing \in BOOLEAN /\ tail \in Nat
        /\ wrote \subseteq Procs \X Blocks
        /\ boot \in {"install", "up"} /\ panicked \in BOOLEAN
    BY DEF Init
  <2>7. head \in Seq(Blocks) /\ lh \in Seq(Blocks)
    BY <2>3 DEF Init
  <2> QED BY <2>1, <2>2, <2>4, <2>5, <2>6, <2>7 DEF TypeOK
<1>2. InOp = {} /\ InCommit = {} /\ Pending = {}
  BY DEF Init, InOp, InCommit, Pending
<1>3. LogSpace
  <2>1. 0 * MAXOPBLOCKS = 0
    BY SizeAssumption
  <2> QED BY <1>2, <2>1, FS_EmptySet, SizeAssumption DEF Init, LogSpace
<1>4. WithinBudget /\ HeadFits
  BY FS_EmptySet, SizeAssumption DEF Init, WithinBudget, WritesOf, HeadFits
<1>5. SleeperHasWaker /\ CommitAlone /\ RecoversAlone /\ WroteInOp /\ WroteLogged
      /\ AppendsWritten /\ OneCommitter /\ DoneIsEmpty /\ IdleIsEmpty
  BY <1>2 DEF Init, SleeperHasWaker, CommitAlone, RecoversAlone, WroteInOp,
         WroteLogged, AppendsWritten, OneCommitter, DoneIsEmpty, IdleIsEmpty
<1> QED BY <1>1, <1>3, <1>4, <1>5 DEF IInv

LEMMA NextPreserves == IInv /\ [Next]_vars => IInv'
<1> SUFFICES ASSUME IInv, [Next]_vars PROVE IInv'
  OBVIOUS
<1>1. ASSUME NEW p \in Procs, Step(p) PROVE IInv'
  BY <1>1, CallStep, BeginSleepStep, BeginStep, WriteStep, AppendBlockStep,
     EndOtherStep, EndLastStep, WriteLogStep, WriteHeadStep, InstallStep,
     ClearStep, CommitDoneStep
     DEF Step, End, Commit
<1>2. CASE Recover \/ Crash
  BY <1>2, RecoverInstallStep, RecoverClearStep, CrashStep DEF Recover
<1>3. CASE UNCHANGED vars
  <2>1. InOp' = InOp /\ Pending' = Pending /\ InCommit' = InCommit
    BY <1>3 DEF vars, InOp, Pending, InCommit
  <2> QED BY <1>3, <2>1, SameSpace
          DEF vars, IInv, TypeOK, SleeperHasWaker, CommitAlone, RecoversAlone,
              HeadFits, WroteInOp, WroteLogged, AppendsWritten, OneCommitter,
              DoneIsEmpty, IdleIsEmpty
<1> QED BY <1>1, <1>2, <1>3 DEF Next

THEOREM Invariance == Spec => []IInv
BY InitEstablishes, NextPreserves, PTL DEF Spec

\* begin_op's reservation: with any number of operations under way, the blocks
\* they have logged and may still log fit into logheader.block.
THEOREM ReservationSuffices == Spec => []LogSpace
<1>1. IInv => LogSpace
  BY DEF IInv
<1> QED BY <1>1, Invariance, PTL

\* A commit never reads the blocks of an operation that is still under way.
THEOREM CommitsAlone == Spec => []CommitAlone
<1>1. IInv => CommitAlone
  BY DEF IInv
<1> QED BY <1>1, Invariance, PTL

\* No wakeup is missing from log.c: a sleeper in begin_op has a waker.
THEOREM NobodyForgotten == Spec => []SleeperHasWaker
<1>1. IInv => SleeperHasWaker
  BY DEF IInv
<1> QED BY <1>1, Invariance, PTL
=============================================================================
