------------------------------- MODULE MCProc -------------------------------
(* Instances of Proc: which programs run, and what they may call.           *)
EXTENDS Proc, TLC

NoKills    == {}
KillOthers == 2..(MaxPid - 1)   \* any pid but init's

\* Page directories and processors are interchangeable.
Symmetric == Permutations(PageDirs) \cup Permutations(CPUs)
=============================================================================
