---------------------------- MODULE MCExecutorRpc ----------------------------
(* Small instances of ExecutorRpc for TLC.                                   *)
EXTENDS ExecutorRpc

CONSTANTS c1, c2, e1, e2
=============================================================================
