----------------------------- MODULE MCChatSync -----------------------------
(* ChatSync for TLC.                                                       *)
EXTENDS ChatSync

=============================================================================
