---------------------------- MODULE MCPbqpArena -----------------------------
(* A storage of 104 bytes near the end of an address space of 256.  One of *)
(* the problems fits, two are too large for the storage, in three a        *)
(* product or the sum overflows.                                           *)
EXTENDS PbqpArena

MCProblems == {<<1, 0, 1>>, <<1, 1, 2>>, <<2, 2, 3>>, <<37, 0, 1>>, <<1, 3, 10>>, <<1, 1, 17>>}
=============================================================================
