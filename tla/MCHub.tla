-------------------------------- MODULE MCHub --------------------------------
(* Hub over an empty data directory or one with a registered device.       *)
EXTENDS Hub, TLC

CONSTANTS c1, old

MCOldFleet == [c \in Chips |-> IF c = c1 THEN [bundle |-> old, by |-> old] ELSE NoRow]
=============================================================================
