-------------------------------- MODULE Files --------------------------------
(***************************************************************************)
(* What open files promise: each inode is a sequence of words of its own,  *)
(* each open file a position in one, which every read and write moves.     *)
(***************************************************************************)
EXTENDS Naturals, Sequences

CONSTANTS OpenFiles, Inodes, Vals

VARIABLES
    contents,   \* of each inode
    ino, off,   \* inode and position of each open file
    out         \* <<words>> after a read that returns them

Init ==
    /\ contents = [i \in Inodes |-> << >>]
    /\ ino \in [OpenFiles -> Inodes]
    /\ off = [f \in OpenFiles |-> 0]
    /\ out = << >>

\* n words v at the position of f, over what is there or beyond it.
Write(f) ==
    LET s == contents[ino[f]] IN
    /\ off[f] <= Len(s)
    /\ \E v \in Vals :
         /\ off'[f] > off[f]
         /\ contents' = [contents EXCEPT ![ino[f]] =
              SubSeq(s, 1, off[f]) \o [k \in 1..(off'[f] - off[f]) |-> v]
              \o SubSeq(s, off'[f] + 1, Len(s))]
    /\ \A g \in OpenFiles \ {f} : off'[g] = off[g]
    /\ out' = << >> /\ UNCHANGED ino

Read(f) ==
    /\ off'[f] \in off[f]..Len(contents[ino[f]])
    /\ out' = <<SubSeq(contents[ino[f]], off[f] + 1, off'[f])>>
    /\ \A g \in OpenFiles \ {f} : off'[g] = off[g]
    /\ UNCHANGED <<contents, ino>>

Open(f) ==
    /\ off' = [off EXCEPT ![f] = 0]
    /\ \E i \in Inodes : ino' = [ino EXCEPT ![f] = i]
    /\ out' = << >> /\ UNCHANGED contents

\* The inode of a file that is gone starts a new life.
Renew(i) ==
    /\ contents' = [contents EXCEPT ![i] = << >>]
    /\ out' = << >> /\ UNCHANGED <<ino, off>>

Next == \/ \E f \in OpenFiles : Write(f) \/ Read(f) \/ Open(f)
        \/ \E i \in Inodes : Renew(i)

Spec == Init /\ [][Next]_<<contents, ino, off, out>>

=============================================================================
