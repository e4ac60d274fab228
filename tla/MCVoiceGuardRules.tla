-------------------------- MODULE MCVoiceGuardRules --------------------------
(***************************************************************************)
(* Model-checking instances of VoiceGuardRules.                            *)
(***************************************************************************)
EXTENDS VoiceGuardRules
==============================================================================
