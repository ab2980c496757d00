---------------------------- MODULE MCHypervisor ----------------------------
(***************************************************************************)
(* The hypervisor on a small machine, for TLC, and its control words on    *)
(* the processors that differ in the bits the code knows of and in one it  *)
(* does not know in each word.                                             *)
(***************************************************************************)
EXTENDS HypervisorInv, Controls

MCOffered ==
  [pin |-> {0}, proc |-> {2, 7}, secondary |-> {1}, exit |-> {3, 9, 21}, entry |-> {2, 9, 15}]
=============================================================================
