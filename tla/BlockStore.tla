------------------------------ MODULE BlockStore ------------------------------
(***************************************************************************)
(* What the buffer cache promises: every block has one contents, and one   *)
(* process at a time may see and change it.                                *)
(***************************************************************************)
CONSTANTS Procs, NoProc, Blocks, Vals

VARIABLES store, user

Init == store \in [Blocks -> Vals] /\ user = [n \in Blocks |-> NoProc]

Get(p, n) ==
    /\ user[n] = NoProc
    /\ user' = [user EXCEPT ![n] = p]
    /\ UNCHANGED store

Change(p, n, v) ==
    /\ user[n] = p
    /\ store' = [store EXCEPT ![n] = v]
    /\ UNCHANGED user

Put(p, n) ==
    /\ user[n] = p
    /\ user' = [user EXCEPT ![n] = NoProc]
    /\ UNCHANGED store

Next == \E p \in Procs, n \in Blocks :
            Get(p, n) \/ Put(p, n) \/ \E v \in Vals : Change(p, n, v)

Spec == Init /\ [][Next]_<<store, user>>

=============================================================================
