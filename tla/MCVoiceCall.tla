----------------------------- MODULE MCVoiceCall -----------------------------
(* VoiceCall for TLC.                                                      *)
EXTENDS VoiceCall
=============================================================================
