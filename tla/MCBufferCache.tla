----------------------------- MODULE MCBufferCache -----------------------------
(* Model values for the runs of BufferCache.                                   *)
EXTENDS BufferCache, TLC

\* All that is named is interchangeable.
Symmetric == Permutations(Procs) \cup Permutations(Bufs)
             \cup Permutations(Blocks) \cup Permutations(Vals)
=============================================================================
