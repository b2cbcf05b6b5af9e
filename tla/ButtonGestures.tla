----------------------------- MODULE ButtonGestures -----------------------------
(***************************************************************************)
(* What the user button promises to the rest of the firmware: the order in *)
(* which gesture actions may come out of it, without levels, edges or      *)
(* clocks.  ButtonInput is shown to implement this module, and PushToTalk  *)
(* is driven by it.                                                        *)
(***************************************************************************)
VARIABLES phase,   \* what the current press has become
          click,   \* a completed click waits for a second one
          out      \* the action the last step returned

vars == <<phase, click, out>>

Phases == {"up", "consumed", "held", "talking"}

Actions == {"NONE", "PRE_ROLL_BEGIN", "PRE_ROLL_DISCARD", "ENTER", "ESCAPE",
            "PTT_BEGIN", "PTT_END", "WAKE"}

Init == phase = "up" /\ click = FALSE /\ out = "NONE"

(* A press wakes a dark screen and is consumed, is consumed where the       *)
(* button means nothing, or starts the pre-roll.                            *)
WakePress == phase = "up" /\ phase' = "consumed" /\ click' = FALSE /\ out' = "WAKE"

LockedPress == phase = "up" /\ phase' = "consumed" /\ out' = "NONE" /\ UNCHANGED click

HeldPress == phase = "up" /\ phase' = "held" /\ out' = "PRE_ROLL_BEGIN" /\ UNCHANGED click

(* A consumed press ends without an action. *)
ConsumedRelease == phase = "consumed" /\ phase' = "up" /\ out' = "NONE" /\ UNCHANGED click

TalkRelease == phase = "talking" /\ phase' = "up" /\ click' = FALSE /\ out' = "PTT_END"

(* A short press discards the pre-roll; it may leave a click pending. *)
ShortRelease ==
  phase = "held" /\ phase' = "up" /\ click' \in BOOLEAN /\ out' = "PRE_ROLL_DISCARD"

SecondClick ==
  phase = "held" /\ click /\ phase' = "up" /\ click' = FALSE /\ out' = "ESCAPE"

(* A press held long enough talks; it can no longer be part of a click. *)
Hold == phase = "held" /\ phase' = "talking" /\ click' = FALSE /\ out' = "PTT_BEGIN"

(* The double-click window closes while the button is up. *)
WindowCloses ==
  phase = "up" /\ click /\ click' = FALSE /\ out' \in {"ENTER", "NONE"} /\ UNCHANGED phase

(* A poll that finds nothing to do clears the last action. *)
Quiet == out' = "NONE" /\ UNCHANGED <<phase, click>>

Next ==
  \/ WakePress \/ LockedPress \/ HeldPress
  \/ ConsumedRelease \/ TalkRelease \/ ShortRelease \/ SecondClick
  \/ Hold \/ WindowCloses \/ Quiet

Spec == Init /\ [][Next]_vars
================================================================================
