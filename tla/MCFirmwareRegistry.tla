------------------------ MODULE MCFirmwareRegistry ------------------------
(* A small instance: every upload and drop is for one version but the last *)
(* drop, which brings the next version.                                    *)
EXTENDS FirmwareRegistry, TLC

CONSTANTS v1, v2, u1, w1, w2

MCVersionOf == [w \in Writers |-> IF w = w2 THEN v2 ELSE v1]
=============================================================================
