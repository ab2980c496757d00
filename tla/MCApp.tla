------------------------------- MODULE MCApp -------------------------------
(***************************************************************************)
(* The manager with two engines in succession and a few units of output.   *)
(***************************************************************************)
EXTENDS AppInv
=============================================================================
