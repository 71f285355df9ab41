--------------------------- MODULE MCCompileQueue ---------------------------
(* CompileQueue with two compiles of one device: a job and its re-submit.   *)
EXTENDS CompileQueue, TLC

CONSTANTS j1, d1

MCDeviceOf == [j \in Jobs |-> d1]
=============================================================================
