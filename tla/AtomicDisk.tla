----------------------------- MODULE AtomicDisk -----------------------------
(***************************************************************************)
(* What the log (Xv6-Threads/src/log.c) promises to the file system: the   *)
(* blocks written by the operations that ran together reach the disk all   *)
(* at once, when none of them is under way, and a crash takes the disk     *)
(* back to the last such point.                                            *)
(***************************************************************************)
CONSTANTS Procs, Blocks, Vals

VARIABLES committed,    \* what a crash leaves
          mem,          \* what the running system reads
          active        \* who is between begin_op and end_op

Init == /\ committed \in [Blocks -> Vals]
        /\ mem = committed
        /\ active = {}

Begin(p) == /\ p \notin active
            /\ active' = active \cup {p}
            /\ UNCHANGED <<committed, mem>>

Write(p, b, v) == /\ p \in active
                  /\ mem' = [mem EXCEPT ![b] = v]
                  /\ UNCHANGED <<committed, active>>

End(p) == /\ p \in active
          /\ active' = active \ {p}
          /\ UNCHANGED <<committed, mem>>

Commit == /\ active = {}
          /\ committed' = mem
          /\ UNCHANGED <<mem, active>>

Crash == /\ mem' = committed
         /\ active' = {}
         /\ UNCHANGED committed

Next == \/ \E p \in Procs : \/ Begin(p) \/ End(p)
                            \/ \E b \in Blocks, v \in Vals : Write(p, b, v)
        \/ Commit \/ Crash

Spec == Init /\ [][Next]_<<committed, mem, active>>
=============================================================================
