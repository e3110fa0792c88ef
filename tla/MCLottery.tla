------------------------------ MODULE MCLottery ------------------------------
(* Instances of Lottery for TLC; the bounds are in the .cfg files. *)
EXTENDS Lottery
=============================================================================
