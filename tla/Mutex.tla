--------------------------------- MODULE Mutex ---------------------------------
(***************************************************************************)
(* What a lock promises: it goes from free to one process and back.        *)
(***************************************************************************)
CONSTANTS Procs, NoProc

VARIABLE holder

Init == holder = NoProc

Take(p) == holder = NoProc /\ holder' = p

Give == holder # NoProc /\ holder' = NoProc

Next == Give \/ \E p \in Procs : Take(p)

Spec == Init /\ [][Next]_holder

=============================================================================
