---------------------------- MODULE MCTrafficJob ----------------------------
(***************************************************************************)
(* Model-checking instances of TrafficJob.                                 *)
(***************************************************************************)
EXTENDS TrafficJob, TLC

CONSTANTS j1, j2, j3, u1, u2

\* Two jobs of one UE, and one of another.
MCUeOf == [j \in Jobs |-> IF j = j3 THEN u2 ELSE u1]
==============================================================================
