----------------------------- MODULE CompanionTalk -----------------------------
(***************************************************************************)
(* What the Mac promises about a talk, without requests, jobs, recognisers *)
(* or links: an end is begun only in a talk, and while that talk goes on   *)
(* the end is not over.  An end that is left to return later may return in *)
(* a later talk, and then ends that one.  CompanionSpeech is shown to      *)
(* implement this module, and MicroPushToTalk takes the Mac by it.         *)
(***************************************************************************)
VARIABLES talking,   \* the coordinator takes audio for a talk
          ending     \* an end was begun, of this talk or one before, and has not returned

vars == <<talking, ending>>

Init == talking = FALSE /\ ending = FALSE

(* A talk may begin while the end of one that was given up is still to      *)
(* return.                                                                  *)
Begin == ~talking /\ talking' = TRUE /\ UNCHANGED ending

End == talking /\ ending' = TRUE /\ UNCHANGED talking

(* An end returned, of this talk or of one before, or could not be begun,   *)
(* audio was not taken, or the link changed: an end under way is given up,  *)
(* or left to return later.                                                 *)
Over == talking' = FALSE /\ ending' \in {ending, FALSE}

Next == Begin \/ End \/ Over

Spec == Init /\ [][Next]_vars
================================================================================
