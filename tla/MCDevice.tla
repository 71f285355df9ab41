------------------------------- MODULE MCDevice -------------------------------
(* Device with a whole configuration in NVS.                               *)
EXTENDS Device, TLC

MCConfigs == {[ssid |-> TRUE, pins |-> {1, 2}]}

MCGamma == [l \in 1..253 |-> IF l = 64 THEN 99 ELSE 453]
=============================================================================
