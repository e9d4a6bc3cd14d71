-------------------------------- MODULE MCPipe --------------------------------
(* Model values for the runs of Pipe: one process may be killed.              *)
EXTENDS Pipe

CONSTANT victim

OnlyVictim == {victim}
=============================================================================
