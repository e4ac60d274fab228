---------------------------- MODULE MCVoiceGuardRF ---------------------------
(***************************************************************************)
(* Model-checking instances of VoiceGuardRF: two voice UEs, as ue9 and     *)
(* ue10 of the ten-UE topology.  The xApp never tells them apart.          *)
(***************************************************************************)
EXTENDS VoiceGuardRF, TLC

CONSTANTS ue9, ue10

MCVoiceUEs == {ue9, ue10}

Symmetry == Permutations(MCVoiceUEs)
==============================================================================
