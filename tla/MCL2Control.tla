---------------------------- MODULE MCL2Control ----------------------------
(***************************************************************************)
(* Instances of L2Control on the memories of MCImages.                     *)
(***************************************************************************)
EXTENDS L2Control, MCImages

MCMmio == [base |-> 56, cells |-> 4]
=============================================================================
