------------------------------ MODULE MCPushToTalk ------------------------------
(* PushToTalk with two sessions, which are interchangeable, and two messages *)
(* under way to the Mac.                                                     *)
EXTENDS PushToTalk, TLC

SessionSymmetry == Permutations(Sessions)
================================================================================
