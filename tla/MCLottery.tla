------------------------------- MODULE MCLottery -------------------------------
(* The runs of Lottery give its constants their values in the .cfg. *)
EXTENDS Lottery
=============================================================================
