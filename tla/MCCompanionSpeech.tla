--------------------------- MODULE MCCompanionSpeech ---------------------------
(* One device with its three notifying characteristics. *)
EXTENDS CompanionSpeech
================================================================================
