------------------------------- MODULE MCLog -------------------------------
(* Instances of Log.                                                       *)
EXTENDS Log, TLC

Symmetric == Permutations(Procs) \cup Permutations(Blocks) \cup Permutations(Vals)
=============================================================================
