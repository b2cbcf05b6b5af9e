------------------------------- MODULE PushToTalk -------------------------------
(***************************************************************************)
(* Push to talk in Mac-app mode: button_task and execute_input_action of   *)
(* app_main.c, the part of cr_device_state_t they share with the NimBLE    *)
(* host task, the capture mode they drive, and the Mac at the other end.   *)
(* The button is taken by its promise, ButtonGestures, and the capture by  *)
(* its mode alone, as CaptureControl moves it; the Mac keeps CompanionTalk *)
(* and looks at the sessions of messages as well.  Neither                 *)
(* device_state.has_selection nor selected_session_key is under a lock:    *)
(* between two reads of the button task the host task may change both.     *)
(***************************************************************************)
EXTENDS Naturals, Sequences

CONSTANTS Sessions,   (* session keys the Mac hands out                     *)
          None,       (* no selection; as a key in a message, 0             *)
          MaxWire     (* messages of the device the Mac has yet to handle   *)

ASSUME PushToTalkAssumption == None \notin Sessions /\ MaxWire \in Nat \ {0}

VARIABLES
  phase, click, out,  \* ButtonGestures
  pc,                 \* where button_task is
  allowed,            \* input_context of this round, but for screen_on
  selected,           \* selected_session_key, None when not has_selection
  listed,             \* the keys of device_state.sessions
  ptt_active,         \* device_state.ptt_active
  audio_prepared,
  capture,            \* capture_mode_t
  link,               \* "down", "up" before any subscription, "partial", "ready"
  wire,               \* messages the device sent and the Mac has not handled
  host_selected,      \* selectedSessionKey
  focusing,           \* the key of a select the Mac is still carrying out
  answer,             \* the key of a successful select result on its way back
  host_talk,          \* activePTTSessionKey
  ending,             \* pttEnd is awaiting audioInput.end
  upset,              \* what came between since the last press began
  told                \* the key of the last PTT_BEGIN sent on this link

device == <<selected, listed, ptt_active, audio_prepared, capture>>
host   == <<host_selected, focusing, answer, host_talk, ending>>
button == <<phase, click, out, pc, allowed>>
vars   == <<button, device, link, wire, host, upset, told>>

Button == INSTANCE ButtonGestures

Capture == INSTANCE CaptureControl WITH mode <- capture, taken <- FALSE, newest <- 0

Companion == INSTANCE CompanionTalk WITH talking <- host_talk # None

Keys == Sessions \union {None}

Messages == [type : {"SELECT", "BEGIN", "END"}, key : Keys]

(* What can come between a press and its release: the selection goes or     *)
(* changes, the channels go, a message could not be sent, the release was   *)
(* the second click; or the press found the capture on or the Mac busy.     *)
Incidents == {"lost", "reselected", "link", "unsent", "double", "captured", "busy"}

connected == link \in {"up", "ready"}      \* cr_ble_is_connected

Init ==
  /\ Button!Init
  /\ pc = "sample" /\ allowed = FALSE
  /\ selected = None /\ listed = {} /\ ptt_active = FALSE
  /\ audio_prepared = FALSE /\ capture = "IDLE"
  /\ link = "down" /\ wire = <<>>
  /\ host_selected = None /\ focusing = None /\ answer = None
  /\ host_talk = None /\ ending = FALSE
  /\ upset = {} /\ told = None

-----------------------------------------------------------------------------
(* send_message: it succeeds into a connection, whether or not the Mac has   *)
(* subscribed, and fails without one or without a buffer.                    *)
Sent(type, key) ==
  /\ connected
  /\ IF link = "ready"
     THEN Len(wire) < MaxWire /\ wire' = Append(wire, [type |-> type, key |-> key])
     ELSE UNCHANGED wire

(* button_task: the context is read once for the edge and the tick.  A press *)
(* is the edge of this sample exactly if the button was up before it.        *)
Sample(edge) ==
  /\ pc = "sample"
  /\ allowed' = (selected # None /\ ~ptt_active)
  /\ pc' = IF edge THEN "edge" ELSE "tick"
  /\ upset' = IF edge /\ phase = "up"
              THEN {i \in {"captured"} : capture # "IDLE"} \union
                   {i \in {"busy"} : host_talk # None \/ wire # <<>>}
              ELSE upset
  /\ UNCHANGED <<phase, click, out, device, link, wire, host, told>>

(* cr_input_reduce on an edge.  Whether the screen is lit is up to           *)
(* power_task.                                                               *)
Edge ==
  /\ pc = "edge"
  /\ \/ Button!WakePress
     \/ ~allowed /\ Button!LockedPress
     \/ allowed /\ Button!HeldPress
     \/ Button!ConsumedRelease
     \/ Button!TalkRelease
     \/ Button!ShortRelease /\ click' = allowed
     \/ allowed /\ Button!SecondClick
  /\ pc' = "edge_action"
  /\ upset' = IF out' = "ESCAPE" THEN upset \union {"double"} ELSE upset
  /\ UNCHANGED <<allowed, device, link, wire, host, told>>

(* An edge that is debounced away changes nothing. *)
DroppedEdge ==
  /\ pc = "edge"
  /\ pc' = "tick"
  /\ UNCHANGED <<phase, click, out, allowed, device, link, wire, host, upset, told>>

Tick ==
  /\ pc = "tick"
  /\ \/ allowed /\ Button!Hold
     \/ Button!WindowCloses /\ out' = IF allowed THEN "ENTER" ELSE "NONE"
     \/ Button!Quiet
  /\ pc' = "tick_action"
  /\ UNCHANGED <<allowed, device, link, wire, host, upset, told>>

-----------------------------------------------------------------------------
(* execute_input_action, Mac-app branch. *)
AfterAction == IF pc \in {"edge_action", "end", "unflag"} THEN "tick" ELSE "sample"

Dispatching(action) ==
  /\ pc \in {"edge_action", "tick_action"}
  /\ out = action

(* WAKE and NONE change nothing here, and without a selection every other    *)
(* action is dropped.  ENTER and ESCAPE only send a key.                     *)
NothingToDo ==
  /\ pc \in {"edge_action", "tick_action"}
  /\ out \in {"NONE", "WAKE", "ENTER", "ESCAPE"} \/ selected = None
  /\ pc' = AfterAction
  /\ UNCHANGED <<phase, click, out, allowed, device, link, wire, host, upset, told>>

PreRollUnchecked(opens) ==   \* mutant: a capture that is on passes for a pre-roll
  /\ Dispatching("PRE_ROLL_BEGIN")
  /\ selected # None
  /\ audio_prepared' = opens
  /\ capture' = IF opens /\ capture = "IDLE" THEN "PRE_ROLL" ELSE capture
  /\ pc' = AfterAction
  /\ UNCHANGED <<phase, click, out, allowed, selected, listed, ptt_active, link, wire,
                 host, upset, told>>

(* cr_audio_capture_prepare refuses a capture that is on, and the codecs may *)
(* not open.                                                                 *)
PreRollBegin(opens) ==
  /\ Dispatching("PRE_ROLL_BEGIN")
  /\ selected # None
  /\ audio_prepared' = (opens /\ capture = "IDLE")
  /\ capture' = IF audio_prepared' THEN "PRE_ROLL" ELSE capture
  /\ pc' = AfterAction
  /\ UNCHANGED <<phase, click, out, allowed, selected, listed, ptt_active, link, wire,
                 host, upset, told>>

PreRollDiscard ==
  /\ Dispatching("PRE_ROLL_DISCARD")
  /\ selected # None
  /\ capture' = "IDLE"
  /\ audio_prepared' = FALSE
  /\ pc' = AfterAction
  /\ UNCHANGED <<phase, click, out, allowed, selected, listed, ptt_active, link, wire,
                 host, upset, told>>

(* PTT_BEGIN: the pre-roll must be ready; the key is read again for the      *)
(* message.                                                                  *)
TalkBegin ==
  /\ Dispatching("PTT_BEGIN")
  /\ selected # None
  /\ pc' = IF audio_prepared THEN "begin" ELSE "sample"
  /\ UNCHANGED <<phase, click, out, allowed, device, link, wire, host, upset, told>>

BeginSent ==
  /\ pc = "begin"
  /\ Sent("BEGIN", selected)
  /\ told' = selected
  /\ pc' = "commit"
  /\ UNCHANGED <<phase, click, out, allowed, device, link, host, upset>>

BeginUnsent ==
  /\ pc = "begin"
  /\ capture' = "IDLE"
  /\ audio_prepared' = FALSE
  /\ pc' = "sample"
  /\ UNCHANGED <<phase, click, out, allowed, selected, listed, ptt_active, link, wire,
                 host, upset, told>>

(* A commit that finds no pre-roll gives the talk up again. *)
Commit ==
  /\ pc = "commit"
  /\ IF capture = "PRE_ROLL"
     THEN /\ capture' = "STREAMING"
          /\ pc' = "flag"
          /\ UNCHANGED <<audio_prepared, wire>>
     ELSE /\ Sent("END", selected) \/ UNCHANGED wire
          /\ capture' = "IDLE"
          /\ audio_prepared' = FALSE
          /\ pc' = "sample"
  /\ UNCHANGED <<phase, click, out, allowed, selected, listed, ptt_active, link, host,
                 upset, told>>

FlagForgotten ==             \* mutant: the lock of the talk is not set
  /\ pc = "flag"
  /\ audio_prepared' = FALSE
  /\ pc' = "sample"
  /\ UNCHANGED <<phase, click, out, allowed, selected, listed, ptt_active, capture, link,
                 wire, host, upset, told>>

(* ptt_active is set whatever has become of the selection since. *)
Flag ==
  /\ pc = "flag"
  /\ ptt_active' = TRUE
  /\ audio_prepared' = FALSE
  /\ pc' = "sample"
  /\ UNCHANGED <<phase, click, out, allowed, selected, listed, capture, link, wire, host,
                 upset, told>>

TalkEndRunsOn ==             \* mutant: the capture is not stopped
  /\ Dispatching("PTT_END")
  /\ selected # None
  /\ pc' = "end"
  /\ UNCHANGED <<phase, click, out, allowed, device, link, wire, host, upset, told>>

(* PTT_END: the capture stops; the key of the message is the one selected    *)
(* now; whether the message went out is not looked at.                       *)
TalkEnd ==
  /\ Dispatching("PTT_END")
  /\ selected # None
  /\ capture' = "IDLE"
  /\ pc' = "end"
  /\ UNCHANGED <<phase, click, out, allowed, selected, listed, ptt_active, audio_prepared,
                 link, wire, host, upset, told>>

EndSent ==
  /\ pc = "end"
  /\ Sent("END", selected)
  /\ pc' = "unflag"
  /\ UNCHANGED <<phase, click, out, allowed, device, link, host, upset, told>>

EndUnsent ==
  /\ pc = "end"
  /\ upset' = upset \union {"unsent"}
  /\ pc' = "unflag"
  /\ UNCHANGED <<phase, click, out, allowed, device, link, wire, host, told>>

Unflag ==
  /\ pc = "unflag"
  /\ ptt_active' = FALSE
  /\ pc' = AfterAction
  /\ UNCHANGED <<phase, click, out, allowed, selected, listed, audio_prepared, capture,
                 link, wire, host, upset, told>>

ButtonStep ==
  \/ \E edge \in BOOLEAN : Sample(edge)
  \/ Edge \/ DroppedEdge \/ Tick
  \/ NothingToDo
  \/ \E opens \in BOOLEAN : PreRollBegin(opens)
  \/ PreRollDiscard
  \/ TalkBegin \/ BeginSent \/ BeginUnsent \/ Commit \/ Flag
  \/ TalkEnd \/ EndSent \/ EndUnsent \/ Unflag

-----------------------------------------------------------------------------
(* The NimBLE host task. *)
Lost(more) == upset' = upset \union more \union {i \in {"lost"} : selected # None}

(* A snapshot drops the selection and ptt_active, whatever it lists; a delta *)
(* out of order does the same and lists nothing.                             *)
Snapshot(ss) ==
  /\ link = "ready"
  /\ listed' = ss
  /\ selected' = None
  /\ ptt_active' = FALSE
  /\ Lost({})
  /\ UNCHANGED <<button, audio_prepared, capture, link, wire, host, told>>

(* A delta in order lists one session more, or changes one that is listed. *)
Delta(key) ==
  /\ link = "ready"
  /\ listed' = listed \union {key}
  /\ UNCHANGED <<button, selected, ptt_active, audio_prepared, capture, link, wire, host,
                 upset, told>>

SelectUnlisted ==            \* mutant: the session need not be listed any more
  /\ link = "ready"
  /\ answer # None
  /\ answer' = None
  /\ selected' = answer
  /\ upset' = IF selected' # selected THEN upset \union {"reselected"} ELSE upset
  /\ UNCHANGED <<button, listed, ptt_active, audio_prepared, capture, link, wire,
                 host_selected, focusing, host_talk, ending, told>>

(* The result of the pending select request, applied whenever it comes. *)
SelectResult ==
  /\ link = "ready"
  /\ answer # None
  /\ answer' = None
  /\ selected' = IF answer \in listed THEN answer ELSE selected
  /\ upset' = IF selected' # selected THEN upset \union {"reselected"} ELSE upset
  /\ UNCHANGED <<button, listed, ptt_active, audio_prepared, capture, link, wire,
                 host_selected, focusing, host_talk, ending, told>>

(* The Mac's resetConnection, on every transport state but ready.  What came *)
(* before the link was lost is still handled; a select the Mac is carrying   *)
(* out goes on; an end that awaits the recogniser, which is cancelled, may   *)
(* still return later or never.                                              *)
HostReset ==
  /\ host_selected' = None
  /\ answer' = None
  /\ host_talk' = None
  /\ ending' \in {ending, FALSE}
  /\ \E n \in 0..Len(wire) : wire' = SubSeq(wire, 1, n)
  /\ UNCHANGED focusing

(* A connection is reset by every state it comes up by as well, behind all   *)
(* that was queued; only a select may have been carried out since.           *)
HostReady ==
  /\ wire = <<>>
  /\ host_selected' \in {host_selected, None}
  /\ host_talk' = None
  /\ ending' \in {ending, FALSE}
  /\ UNCHANGED <<wire, focusing, answer>>

Connect ==
  /\ link = "down"
  /\ link' = "up"
  /\ UNCHANGED <<button, device, wire, host, upset, told>>

(* cr_device_state_disconnect *)
Disconnect ==
  /\ link # "down"
  /\ link' = "down"
  /\ selected' = None
  /\ listed' = {}
  /\ ptt_active' = FALSE
  /\ told' = None
  /\ Lost({"link"})
  /\ HostReset
  /\ UNCHANGED <<button, audio_prepared, capture>>

(* A subscription event with some required channel still missing. *)
Unsubscribed ==
  /\ link \in {"up", "ready"}
  /\ link' = "partial"
  /\ ptt_active' = FALSE
  /\ told' = None
  /\ upset' = upset \union {"link"}
  /\ HostReset
  /\ UNCHANGED <<button, selected, listed, audio_prepared, capture>>

Subscribed ==
  /\ link = "partial"
  /\ link' = "ready"
  /\ HostReady
  /\ UNCHANGED <<button, device, upset, told>>

LinkStep ==
  \/ \E ss \in SUBSET Sessions : Snapshot(ss)
  \/ \E key \in Sessions : Delta(key)
  \/ SelectResult
  \/ Connect \/ Disconnect \/ Unsubscribed \/ Subscribed

-----------------------------------------------------------------------------
(* A tap on a card.  One select at a time is on its way. *)
TapCard(key) ==
  /\ key \in listed
  /\ focusing = None /\ answer = None
  /\ \A i \in DOMAIN wire : wire[i].type # "SELECT"
  /\ Sent("SELECT", key)
  /\ UNCHANGED <<button, device, link, host, upset, told>>

(* MacClientCoordinator.receive, one handler for each message; it goes to    *)
(* the next one while a select or an end is awaiting.                        *)
Handling(type) ==
  /\ wire # <<>>
  /\ Head(wire).type = type
  /\ wire' = Tail(wire)

HostSelect ==
  /\ Handling("SELECT")
  /\ focusing' = Head(wire).key
  /\ UNCHANGED <<button, device, link, host_selected, answer, host_talk, ending, upset, told>>

(* The terminal has the focus, or it could not be focused. *)
HostFocused(ok) ==
  /\ focusing # None
  /\ focusing' = None
  /\ host_selected' = IF ok THEN focusing ELSE host_selected
  /\ answer' = IF ok /\ link = "ready" THEN focusing ELSE None
  /\ UNCHANGED <<button, device, link, wire, host_talk, ending, upset, told>>

(* A second talk is refused while the first is still being recognised, and   *)
(* the recogniser may not start.                                             *)
MayTalk(key) == host_selected = key /\ host_talk = None

HostBegin(starts) ==
  /\ Handling("BEGIN")
  /\ host_talk' = IF starts /\ MayTalk(Head(wire).key) THEN Head(wire).key ELSE host_talk
  /\ UNCHANGED <<button, device, link, host_selected, focusing, answer, ending, upset, told>>

MayEndSelected(key) == host_talk # None /\ host_selected = key   \* mutant

MayEnd(key) == host_talk # None /\ host_talk = key

HostEnd ==
  /\ Handling("END")
  /\ ending' = (ending \/ MayEnd(Head(wire).key))
  /\ UNCHANGED <<button, device, link, host_selected, focusing, answer, host_talk, upset, told>>

(* An audio frame the recogniser does not take ends the talk at once. *)
HostAborts ==
  /\ host_talk # None
  /\ host_talk' = None
  /\ UNCHANGED <<button, device, link, wire, host_selected, focusing, answer, ending, upset,
                 told>>

HostEnded ==
  /\ ending
  /\ ending' = FALSE
  /\ host_talk' = None
  /\ UNCHANGED <<button, device, link, wire, host_selected, focusing, answer, upset, told>>

HostStep ==
  \/ HostSelect \/ HostEnd \/ HostAborts \/ HostEnded
  \/ \E ok \in BOOLEAN : HostFocused(ok) \/ HostBegin(ok)

Next ==
  \/ ButtonStep
  \/ LinkStep
  \/ \E key \in Sessions : TapCard(key)
  \/ HostStep

Spec == Init /\ [][Next]_vars

-----------------------------------------------------------------------------
(* Types; and a selected session is one the last snapshot lists. *)
TypeOK ==
  /\ phase \in Button!Phases /\ click \in BOOLEAN /\ out \in Button!Actions
  /\ pc \in {"sample", "edge", "edge_action", "tick", "tick_action",
             "begin", "commit", "flag", "end", "unflag"}
  /\ allowed \in BOOLEAN
  /\ listed \subseteq Sessions
  /\ selected \in listed \union {None}
  /\ ptt_active \in BOOLEAN /\ audio_prepared \in BOOLEAN
  /\ capture \in {"IDLE", "PRE_ROLL", "STREAMING"}
  /\ link \in {"down", "up", "partial", "ready"}
  /\ wire \in Seq(Messages) /\ Len(wire) <= MaxWire
  /\ host_selected \in Keys /\ focusing \in Keys /\ answer \in Keys
  /\ host_talk \in Keys /\ ending \in BOOLEAN
  /\ upset \subseteq Incidents
  /\ told \in Keys

Released == pc = "sample" /\ phase = "up"

(* The commit finds the pre-roll its PTT_BEGIN was sent for, unless the      *)
(* selection went away since the press: audio_prepared is only a note about  *)
(* a mode that has its own lock.                                             *)
CommitFindsPreRoll == pc = "commit" /\ "lost" \notin upset => capture = "PRE_ROLL"

(* After a press the microphone is off, unless the selection went away       *)
(* before the release, the release was a second click, or the press found    *)
(* it on.  No other order of button, host task and Mac leaves it on.         *)
CaptureEndsWithPress ==
  Released /\ capture # "IDLE" => upset \intersect {"lost", "double", "captured"} # {}

(* Once the Mac has handled what was sent, it does not go on listening       *)
(* after the release, unless the selection went or changed, the PTT_END      *)
(* could not be sent, or the press found it busy; or the link went, and a    *)
(* PTT_BEGIN that had come before it is cleared by the next one only.        *)
HostTalkEndsWithPress ==
  Released /\ wire = <<>> /\ ~ending /\ host_talk # None
    => \/ upset \intersect {"lost", "reselected", "unsent", "busy"} # {}
       \/ link # "ready" /\ "link" \in upset

(* While a talk goes on undisturbed, the lock against further input, the     *)
(* capture and the session the Mac was told of agree.                        *)
TalkAgrees ==
  pc = "sample" /\ phase = "talking" /\ upset = {}
    => /\ ptt_active = (capture = "STREAMING")
       /\ ptt_active => selected # None /\ told = selected

(* The parts keep, in whatever order the two tasks and the Mac move, the     *)
(* promises ButtonInput, AudioCapture and CompanionSpeech implement: the     *)
(* button's gestures, the mode of the capture, and the talk on the Mac.      *)
PartsKeepPromises == Button!Spec /\ Capture!Spec /\ Companion!Spec

(* design section 11.4: the pre-roll of a double click is discarded at once. *)
DoubleClickDiscards == Released /\ upset = {"double"} => capture = "IDLE"

(* design section 13.1: a link or a mapping that is lost stops the audio;    *)
(* section 11.4: the release ends the talk.                                  *)
ReleaseEndsCapture == Released => capture # "STREAMING"

================================================================================
