-------------------------- MODULE MCSessionRegistry --------------------------
(* SessionRegistry on two launchers, two terminals and two provider          *)
(* sessions: enough for a relaunch in an occupied terminal, for a provider   *)
(* that is already bound, and for one identifier to be left free.            *)
EXTENDS SessionRegistry
================================================================================
