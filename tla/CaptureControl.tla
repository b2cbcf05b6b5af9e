----------------------------- MODULE CaptureControl -----------------------------
(***************************************************************************)
(* What the audio capture promises its callers: microphone frames reach    *)
(* the transport only out of a commit or while streaming, in increasing    *)
(* order, and a halt lets at most the one frame through that the capture   *)
(* task had already taken.  AudioCapture is shown to implement this        *)
(* module; PushToTalk keeps the mode alone and moves it as this module     *)
(* does.                                                                   *)
(***************************************************************************)
EXTENDS Naturals

VARIABLES mode,      \* capture_mode_t
          taken,     \* a frame has been taken for streaming and not yet sent
          newest     \* sequence number of the newest frame sent, 0 for none

vars == <<mode, taken, newest>>

Modes == {"IDLE", "PRE_ROLL", "STREAMING"}

Init == mode = "IDLE" /\ taken = FALSE /\ newest = 0

Prepare == mode = "IDLE" /\ mode' = "PRE_ROLL" /\ UNCHANGED <<taken, newest>>

(* The pre-roll goes out in order before the mode changes. *)
Flush == mode = "PRE_ROLL" /\ newest' \in Nat /\ newest' > newest /\ UNCHANGED <<mode, taken>>

Commit == mode = "PRE_ROLL" /\ mode' = "STREAMING" /\ UNCHANGED <<taken, newest>>

(* cr_audio_capture_discard and cr_audio_capture_stop. *)
Halt == mode' = "IDLE" /\ UNCHANGED <<taken, newest>>

Take == mode = "STREAMING" /\ ~taken /\ taken' = TRUE /\ UNCHANGED <<mode, newest>>

Emit == taken /\ taken' = FALSE /\ newest' \in Nat /\ newest' > newest /\ UNCHANGED mode

Next == Prepare \/ Flush \/ Commit \/ Halt \/ Take \/ Emit

Spec == Init /\ [][Next]_vars
================================================================================
