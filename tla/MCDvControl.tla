---------------------------- MODULE MCDvControl ----------------------------
(* A Fronius inverter (two points of the flag) with its feed-in limit.       *)
EXTENDS DvControl

MCFlagSteps == <<"storCtlMod", "outWRte">>
=============================================================================
