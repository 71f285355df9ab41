---------------------------- MODULE MCProvisioning ----------------------------
(* Provisioning of two chips, the first one registered before.             *)
EXTENDS Provisioning, TLC

CONSTANTS c1, r1, t1, v1, old

MCBundles == Attempts \cup Tokens \cup {old}

MCNames == [r \in Requests |-> 2]

MCFwOf == [r \in Requests |-> v1]

MCMerged == [v \in Versions |-> "merged"]

MCAppOnly == [v \in Versions |-> "app"]

MCOldFleet == [c \in Chips |-> IF c = c1 THEN [bundle |-> old, by |-> old] ELSE NoRow]
=============================================================================
