--------------------------- MODULE MCMicroPushToTalk ---------------------------
(* MicroPushToTalk with two messages under way to the companion: the end of  *)
(* one talk and the beginning of the next.                                   *)
EXTENDS MicroPushToTalk
================================================================================
