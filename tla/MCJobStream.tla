---------------------------- MODULE MCJobStream -----------------------------
(* JobStream with two browser tabs and channels of two events.              *)
EXTENDS JobStream
=============================================================================
