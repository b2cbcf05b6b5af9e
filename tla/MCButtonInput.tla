----------------------------- MODULE MCButtonInput -----------------------------
(* ButtonInput in units of 5 ms: the 20, 350 and 250 ms of input_state.h are *)
(* 4, 70 and 50 of them.  A poll comes 10, 15 or 25 ms after the last one,   *)
(* or 300 ms after it, when the work of a round held button_task up for      *)
(* longer than a whole double-click window.                                  *)
EXTENDS ButtonInput
================================================================================
