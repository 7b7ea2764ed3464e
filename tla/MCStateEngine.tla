--------------------------- MODULE MCStateEngine ---------------------------
(* StateEngine for TLC: one PIR camera and one ordinary input.               *)
EXTENDS StateEngine, TLC

CONSTANTS cam, door

MCZones == {cam, door}
MCMotionZones == {cam}

=============================================================================
