----------------------------- MODULE MCHookQueue -----------------------------
(* Two launchers that run in one terminal, so that the second launch takes   *)
(* the first session away and a queued event of it is refused.               *)
EXTENDS HookQueue, TLC

CONSTANTS l1, l2, t1

SameTerminal == l1 :> t1 @@ l2 :> t1
================================================================================
