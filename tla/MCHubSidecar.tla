---------------------------- MODULE MCHubSidecar ----------------------------
(* A small instance: every call is for a device of the same slug, so that  *)
(* all of them build in one directory.                                     *)
EXTENDS HubSidecar, TLC

CONSTANT d1

MCDirOf == [j \in 1..NCalls |-> d1]
=============================================================================
