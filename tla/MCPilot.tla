------------------------------- MODULE MCPilot --------------------------------
(* Instances of Pilot for TLC.                                                *)
EXTENDS Pilot

CONSTANTS r1, r2

===============================================================================
