---------------------------- MODULE MCHostDevice ----------------------------
(***************************************************************************)
(* An instance of HostDevice: addresses of two halves of four, storage for *)
(* one batch and a command before it has to be recycled.                   *)
(***************************************************************************)
EXTENDS HostDevice
=============================================================================
