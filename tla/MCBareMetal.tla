---------------------------- MODULE MCBareMetal ----------------------------
(***************************************************************************)
(* An instance of BareMetal: a workspace of two children, batches of one   *)
(* to three.                                                               *)
(***************************************************************************)
EXTENDS BareMetal
=============================================================================
