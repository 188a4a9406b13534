--------------------------- MODULE MCCostAlgebra ---------------------------
(* Every triple of 5-bit words, with Inf at a quarter of the positive range *)
(* as ACCEL_INF is.                                                         *)
EXTENDS CostAlgebra

MCMinInt == -16
=============================================================================
