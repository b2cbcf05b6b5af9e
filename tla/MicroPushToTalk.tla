---------------------------- MODULE MicroPushToTalk ----------------------------
(***************************************************************************)
(* Push to talk in Codex Micro mode, where the device is a HID keyboard of *)
(* the desktop and, once the Mac's companion app has subscribed to its     *)
(* channels on the same link, a microphone as well.  execute_input_action  *)
(* of app_main.c takes the enhanced path (audio to the companion) or the   *)
(* HID path (the key ACT10) anew for every action of the button, so one    *)
(* press can begin on one path and end on the other.                       *)
(* The button is taken by its promise, ButtonGestures, the companion app   *)
(* by its own, CompanionTalk, and the capture by its mode alone, as        *)
(* CaptureControl moves it.                                                *)
(***************************************************************************)
EXTENDS Naturals, Sequences

CONSTANT MaxWire   (* messages of the device the companion has yet to handle *)

ASSUME MaxWireAssumption == MaxWire \in Nat \ {0}

VARIABLES
  phase, click, out,        \* ButtonGestures
  pc,                       \* where button_task is
  allowed,                  \* interaction_locked of this round, negated
  ptt_active,               \* device_state.ptt_active
  enhanced_ptt_active, micro_button_ptt_active, audio_prepared,
  capture,                  \* capture_mode_t
  link,                     \* "down", "hid" only, or companion "ready" too
  wire,                     \* messages the companion has not handled
  host_talk,                \* CompanionAudioCoordinator.activePTTSessionKey
  ending,                   \* its pttEnd is awaiting audioInput.end
  key_down,                 \* ACT10 as the desktop has it
  upset                     \* what came between since the last press began

flags  == <<ptt_active, enhanced_ptt_active, micro_button_ptt_active, audio_prepared>>
button == <<phase, click, out, pc, allowed>>
host   == <<host_talk, ending>>
vars   == <<button, flags, capture, link, wire, host, key_down, upset>>

Button == INSTANCE ButtonGestures

Capture == INSTANCE CaptureControl WITH mode <- capture, taken <- FALSE, newest <- 0

Companion == INSTANCE CompanionTalk WITH talking <- host_talk

(* The companion came or went, something could not be sent, the release was *)
(* the second click; or the press found the capture on, the companion busy  *)
(* or the key down.                                                         *)
Incidents == {"came", "went", "unsent", "double", "captured", "busy", "key"}

connected == link = "ready"      \* cr_ble_is_connected

Init ==
  /\ Button!Init
  /\ pc = "sample" /\ allowed = FALSE
  /\ ptt_active = FALSE /\ enhanced_ptt_active = FALSE
  /\ micro_button_ptt_active = FALSE /\ audio_prepared = FALSE
  /\ capture = "IDLE"
  /\ link = "down" /\ wire = <<>>
  /\ Companion!Init
  /\ key_down = FALSE
  /\ upset = {}

-----------------------------------------------------------------------------
UnlockedOfAudio == ~ptt_active      \* mutant: the HID talk does not lock

Unlocked == ~ptt_active /\ ~micro_button_ptt_active

Found ==
  {i \in {"captured"} : capture # "IDLE"} \union
  {i \in {"busy"} : host_talk \/ wire # <<>>} \union
  {i \in {"key"} : key_down \/ micro_button_ptt_active}

(* button_task: the context is read once for the edge and the tick. *)
Sample(edge) ==
  /\ pc = "sample"
  /\ allowed' = Unlocked
  /\ pc' = IF edge THEN "edge" ELSE "tick"
  /\ upset' = IF edge /\ phase = "up" THEN Found ELSE upset
  /\ UNCHANGED <<phase, click, out, flags, capture, link, wire, host, key_down>>

Edge ==
  /\ pc = "edge"
  /\ \/ Button!WakePress
     \/ ~allowed /\ Button!LockedPress
     \/ allowed /\ Button!HeldPress
     \/ Button!ConsumedRelease
     \/ Button!TalkRelease
     \/ Button!ShortRelease /\ click' = allowed
     \/ allowed /\ Button!SecondClick
  /\ pc' = "edge_action"
  /\ upset' = IF out' = "ESCAPE" THEN upset \union {"double"} ELSE upset
  /\ UNCHANGED <<allowed, flags, capture, link, wire, host, key_down>>

(* An edge that is debounced away changes nothing. *)
DroppedEdge ==
  /\ pc = "edge"
  /\ pc' = "tick"
  /\ UNCHANGED <<phase, click, out, allowed, flags, capture, link, wire, host, key_down, upset>>

Tick ==
  /\ pc = "tick"
  /\ \/ allowed /\ Button!Hold
     \/ Button!WindowCloses /\ out' = IF allowed THEN "ENTER" ELSE "NONE"
     \/ Button!Quiet
  /\ pc' = "tick_action"
  /\ UNCHANGED <<allowed, flags, capture, link, wire, host, key_down, upset>>

-----------------------------------------------------------------------------
(* execute_input_action, Codex Micro branch. *)
AfterAction == IF pc = "tick_action" THEN "sample" ELSE "tick"

EnhancedUnlessTalking ==     \* mutant: a talk under way does not keep the path
  connected \/ audio_prepared

EnhancedPath == connected \/ audio_prepared \/ enhanced_ptt_active

Dispatching(action) ==
  /\ pc \in {"edge_action", "tick_action"}
  /\ out = action

(* WAKE and NONE change nothing here; ENTER and ESCAPE only send a key; the  *)
(* HID path has no pre-roll.                                                 *)
NothingToDo ==
  /\ pc \in {"edge_action", "tick_action"}
  /\ \/ out \in {"NONE", "WAKE", "ENTER", "ESCAPE"}
     \/ out \in {"PRE_ROLL_BEGIN", "PRE_ROLL_DISCARD"} /\ ~EnhancedPath
  /\ pc' = AfterAction
  /\ UNCHANGED <<phase, click, out, allowed, flags, capture, link, wire, host, key_down, upset>>

(* The enhanced path. *)
PreRollBegin(opens) ==
  /\ Dispatching("PRE_ROLL_BEGIN")
  /\ EnhancedPath
  /\ audio_prepared' = (connected /\ opens /\ capture = "IDLE")
  /\ capture' = IF audio_prepared' THEN "PRE_ROLL" ELSE capture
  /\ pc' = AfterAction
  /\ UNCHANGED <<phase, click, out, allowed, ptt_active, enhanced_ptt_active,
                 micro_button_ptt_active, link, wire, host, key_down, upset>>

GiveUp ==
  /\ capture' = "IDLE"
  /\ audio_prepared' = FALSE
  /\ UNCHANGED <<ptt_active, enhanced_ptt_active, micro_button_ptt_active>>

PreRollDiscard ==
  /\ Dispatching("PRE_ROLL_DISCARD")
  /\ EnhancedPath
  /\ GiveUp
  /\ pc' = AfterAction
  /\ UNCHANGED <<phase, click, out, allowed, link, wire, host, key_down, upset>>

TalkBegin ==
  /\ Dispatching("PTT_BEGIN")
  /\ EnhancedPath
  /\ IF audio_prepared /\ connected
     THEN pc' = "begin" /\ UNCHANGED <<flags, capture>>
     ELSE pc' = "sample" /\ GiveUp
  /\ UNCHANGED <<phase, click, out, allowed, link, wire, host, key_down, upset>>

(* send_message: fails without a companion or without a buffer. *)
Sent(message) == connected /\ Len(wire) < MaxWire /\ wire' = Append(wire, message)

BeginSent ==
  /\ pc = "begin"
  /\ Sent("BEGIN")
  /\ pc' = "commit"
  /\ UNCHANGED <<phase, click, out, allowed, flags, capture, link, host, key_down, upset>>

BeginUnsent ==
  /\ pc = "begin"
  /\ GiveUp
  /\ pc' = "sample"
  /\ UNCHANGED <<phase, click, out, allowed, link, wire, host, key_down, upset>>

(* A commit that finds no pre-roll gives the talk up again. *)
Commit ==
  /\ pc = "commit"
  /\ IF capture = "PRE_ROLL"
     THEN /\ capture' = "STREAMING"
          /\ pc' = "flag"
          /\ UNCHANGED <<flags, wire>>
     ELSE /\ Sent("END") \/ UNCHANGED wire
          /\ GiveUp
          /\ pc' = "sample"
  /\ UNCHANGED <<phase, click, out, allowed, link, host, key_down, upset>>

FlagKeepsPrepared ==         \* mutant: the pre-roll stays noted as prepared
  /\ pc = "flag"
  /\ enhanced_ptt_active' = TRUE
  /\ ptt_active' = TRUE
  /\ pc' = "sample"
  /\ UNCHANGED <<phase, click, out, allowed, micro_button_ptt_active, audio_prepared, capture,
                 link, wire, host, key_down, upset>>

Flag ==
  /\ pc = "flag"
  /\ enhanced_ptt_active' = TRUE
  /\ ptt_active' = TRUE
  /\ audio_prepared' = FALSE
  /\ pc' = "sample"
  /\ UNCHANGED <<phase, click, out, allowed, micro_button_ptt_active, capture, link, wire,
                 host, key_down, upset>>

TalkEnd ==
  /\ Dispatching("PTT_END")
  /\ EnhancedPath
  /\ capture' = "IDLE"
  /\ pc' = "end"
  /\ UNCHANGED <<phase, click, out, allowed, flags, link, wire, host, key_down, upset>>

EndSent ==
  /\ pc = "end"
  /\ Sent("END")
  /\ pc' = "unflag"
  /\ UNCHANGED <<phase, click, out, allowed, flags, capture, link, host, key_down, upset>>

EndUnsent ==
  /\ pc = "end"
  /\ upset' = upset \union {"unsent"}
  /\ pc' = "unflag"
  /\ UNCHANGED <<phase, click, out, allowed, flags, capture, link, wire, host, key_down>>

Unflag ==
  /\ pc = "unflag"
  /\ enhanced_ptt_active' = FALSE
  /\ ptt_active' = FALSE
  /\ pc' = "tick"
  /\ UNCHANGED <<phase, click, out, allowed, micro_button_ptt_active, audio_prepared, capture,
                 link, wire, host, key_down, upset>>

(* The HID path.  cr_codex_micro_hid_send_control_key fails without a host   *)
(* and may fail with one.                                                    *)
KeyDown(ok) ==
  /\ Dispatching("PTT_BEGIN")
  /\ ~EnhancedPath
  /\ ok => link # "down"
  /\ key_down' = (ok \/ key_down)
  /\ micro_button_ptt_active' = (ok \/ micro_button_ptt_active)
  /\ pc' = AfterAction
  /\ UNCHANGED <<phase, click, out, allowed, ptt_active, enhanced_ptt_active, audio_prepared,
                 capture, link, wire, host, upset>>

KeyUpNotSent(ok) ==          \* mutant: only the flag is cleared
  /\ Dispatching("PTT_END")
  /\ ~EnhancedPath
  /\ ok => link # "down"
  /\ micro_button_ptt_active' = FALSE
  /\ pc' = AfterAction
  /\ UNCHANGED <<phase, click, out, allowed, ptt_active, enhanced_ptt_active, audio_prepared,
                 capture, link, wire, host, key_down, upset>>

KeyUp(ok) ==
  /\ Dispatching("PTT_END")
  /\ ~EnhancedPath
  /\ ok => link # "down"
  /\ IF micro_button_ptt_active
     THEN /\ key_down' = (key_down /\ ~ok)
          /\ upset' = IF ok THEN upset ELSE upset \union {"unsent"}
     ELSE UNCHANGED <<key_down, upset>>
  /\ micro_button_ptt_active' = FALSE
  /\ pc' = AfterAction
  /\ UNCHANGED <<phase, click, out, allowed, ptt_active, enhanced_ptt_active, audio_prepared,
                 capture, link, wire, host>>

ButtonStep ==
  \/ \E edge \in BOOLEAN : Sample(edge)
  \/ Edge \/ DroppedEdge \/ Tick
  \/ NothingToDo
  \/ \E ok \in BOOLEAN : PreRollBegin(ok) \/ KeyDown(ok) \/ KeyUp(ok)
  \/ PreRollDiscard
  \/ TalkBegin \/ BeginSent \/ BeginUnsent \/ Commit \/ Flag
  \/ TalkEnd \/ EndSent \/ EndUnsent \/ Unflag

-----------------------------------------------------------------------------
(* cr_ble_handle_shared_gap_event *)
Connect ==
  /\ link = "down"
  /\ link' = "hid"
  /\ UNCHANGED <<button, flags, capture, wire, host, key_down, upset>>

(* The states the companion's connection comes up by reset it, behind all    *)
(* that was queued.                                                          *)
CompanionCame ==
  /\ link = "hid" /\ wire = <<>>
  /\ link' = "ready"
  /\ Companion!Over
  /\ upset' = upset \union {"came"}
  /\ UNCHANGED <<button, flags, capture, wire, key_down>>

(* Both ends forget the talk; what came before is still handled, and an end  *)
(* that awaits the cancelled recogniser may still return later or never.     *)
TalkDropped ==
  /\ ptt_active' = FALSE
  /\ Companion!Over
  /\ \E n \in 0..Len(wire) : wire' = SubSeq(wire, 1, n)
  /\ upset' = upset \union {"went"}
  /\ UNCHANGED <<button, enhanced_ptt_active, micro_button_ptt_active, audio_prepared, capture>>

CompanionWent ==
  /\ link = "ready"
  /\ link' = "hid"
  /\ TalkDropped
  /\ UNCHANGED key_down

(* A desktop that loses the keyboard has no key down. *)
Disconnect ==
  /\ link # "down"
  /\ link' = "down"
  /\ key_down' = FALSE
  /\ TalkDropped

LinkStep == Connect \/ CompanionCame \/ CompanionWent \/ Disconnect

(* CompanionAudioCoordinator.receive *)
Handling(message) ==
  /\ wire # <<>>
  /\ Head(wire) = message
  /\ wire' = Tail(wire)
  /\ UNCHANGED <<button, flags, capture, link, key_down, upset>>

(* A second talk is refused, and the recogniser may not start. *)
HostBegin == Handling("BEGIN") /\ (Companion!Begin \/ UNCHANGED host)

HostEndIgnored ==            \* mutant: the end is not carried out
  Handling("END") /\ UNCHANGED host

HostEnd ==
  /\ Handling("END")
  /\ IF host_talk THEN Companion!End \/ Companion!Over ELSE UNCHANGED host

(* An end returned, or an audio frame was not taken by the recogniser.       *)
HostOver ==
  /\ host_talk \/ ending
  /\ Companion!Over
  /\ UNCHANGED <<button, flags, capture, link, wire, key_down, upset>>

HostStep == HostBegin \/ HostEnd \/ HostOver

Next == ButtonStep \/ LinkStep \/ HostStep

(* button_task keeps polling, and a button that is down is released in the   *)
(* end, with an edge that is not debounced away.                             *)
Fairness ==
  /\ WF_vars(ButtonStep)
  /\ SF_vars(phase # "up" /\ Sample(TRUE))
  /\ SF_vars(phase # "up" /\ Edge)

Spec == Init /\ [][Next]_vars /\ Fairness

-----------------------------------------------------------------------------
(* Types; and a talk leaves no pre-roll prepared. *)
TypeOK ==
  /\ phase \in Button!Phases /\ click \in BOOLEAN /\ out \in Button!Actions
  /\ pc \in {"sample", "edge", "edge_action", "tick", "tick_action",
             "begin", "commit", "flag", "end", "unflag"}
  /\ allowed \in BOOLEAN
  /\ ptt_active \in BOOLEAN /\ enhanced_ptt_active \in BOOLEAN
  /\ micro_button_ptt_active \in BOOLEAN /\ audio_prepared \in BOOLEAN
  /\ capture \in {"IDLE", "PRE_ROLL", "STREAMING"}
  /\ link \in {"down", "hid", "ready"}
  /\ wire \in Seq({"BEGIN", "END"}) /\ Len(wire) <= MaxWire
  /\ host_talk \in BOOLEAN /\ ending \in BOOLEAN
  /\ key_down \in BOOLEAN
  /\ upset \subseteq Incidents
  /\ enhanced_ptt_active => ~audio_prepared

Released == pc = "sample" /\ phase = "up"

(* The two paths never hold the voice at once: while ACT10 is down on behalf *)
(* of the button there is no pre-roll and no enhanced talk.                  *)
OneVoicePath == micro_button_ptt_active => ~audio_prepared /\ ~enhanced_ptt_active

(* After a press the microphone is off, whatever the companion did meanwhile, *)
(* unless the release was a second click or the press found it on.            *)
CaptureEndsWithPress ==
  Released /\ capture # "IDLE" => upset \intersect {"double", "captured"} # {}

(* Once the companion has handled what was sent, it does not go on listening *)
(* after the release, unless the PTT_END could not be sent or the press      *)
(* found it busy; or it went, and a PTT_BEGIN that had come before is        *)
(* cleared only when it comes back.                                          *)
HostTalkEndsWithPress ==
  Released /\ wire = <<>> /\ ~ending /\ host_talk
    => \/ upset \intersect {"unsent", "busy"} # {}
       \/ link # "ready" /\ "went" \in upset

(* ACT10 comes up with the button, unless the companion came in between, the *)
(* report could not be sent, or the press found it down.                     *)
KeyUpWithPress ==
  Released /\ (key_down \/ micro_button_ptt_active)
    => upset \intersect {"came", "unsent", "key"} # {}

(* The parts keep, in whatever order the tasks and the companion move, the   *)
(* promises ButtonInput, AudioCapture and CompanionSpeech implement.         *)
PartsKeepPromises == Button!Spec /\ Capture!Spec /\ Companion!Spec

(* An enhanced talk does not lock the button for good. *)
TalkLockEnds == ptt_active ~> ~ptt_active

(* action page design: ACT10 act=0 is sent on release. *)
KeyUpOnRelease == Released /\ "unsent" \notin upset => ~key_down

================================================================================
