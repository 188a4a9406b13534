--------------------------- MODULE MCBatchReplay ---------------------------
(***************************************************************************)
(* Instances of BatchReplay on the memories of MCImages.                   *)
(***************************************************************************)
EXTENDS BatchReplay, MCImages
=============================================================================
