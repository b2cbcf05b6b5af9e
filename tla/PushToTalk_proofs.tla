--------------------------- MODULE PushToTalk_proofs ---------------------------
(***************************************************************************)
(* Types of PushToTalk and its safety properties, for any set of sessions  *)
(* and any number of messages on the way.  The invariant says of every     *)
(* place button_task can be at what the reducer, the selection, the        *)
(* capture and the flags have to do with one another there; a second one,  *)
(* built on it, what the messages on the way and the Mac's talk have to do *)
(* with the press.                                                         *)
(***************************************************************************)
EXTENDS PushToTalk, TLAPS

USE DEF Released

(* What the place in execute_input_action says about the gesture. *)
Place ==
  /\ pc = "edge_action" =>
       /\ out # "PTT_BEGIN"
       /\ out = "PRE_ROLL_BEGIN" => phase = "held"
       /\ out \in {"PRE_ROLL_DISCARD", "PTT_END"} => phase = "up"
  /\ pc = "tick_action" =>
       /\ out \in {"PTT_BEGIN", "ENTER", "NONE"}
       /\ out = "PTT_BEGIN" => phase = "talking"
  /\ pc \in {"begin", "commit"} => phase = "talking" /\ audio_prepared
  /\ pc = "flag" => phase = "talking" /\ capture = "STREAMING"
  /\ pc \in {"end", "unflag"} => phase = "up" /\ capture = "IDLE"

(* The press goes on, or its release is still to be carried out. *)
Engaged ==
  \/ phase \in {"held", "talking"}
  \/ pc = "edge_action" /\ out \in {"PRE_ROLL_DISCARD", "PTT_END"}

(* A press that was allowed has a selection, unless it was lost. *)
Selection ==
  "lost" \notin upset =>
    /\ Engaged => selected # None
    /\ pc = "edge" /\ phase = "up" /\ allowed => selected # None

(* The note agrees with the mode from the press on until the talk began. *)
Prepared ==
  audio_prepared /\ phase \in {"held", "talking"} /\ "lost" \notin upset =>
    \/ capture = "PRE_ROLL"
    \/ pc = "flag"
    \/ pc = "edge_action" /\ out = "PRE_ROLL_BEGIN"

Excused == "lost" \in upset \/ "double" \in upset \/ "captured" \in upset

(* The microphone is on for a press only. *)
Microphone == capture # "IDLE" => Engaged \/ Excused

Begun ==
  \/ pc \in {"begin", "commit"}
  \/ pc = "tick_action" /\ out = "PTT_BEGIN"

(* The lock, the mode and the key announced, step by step through a talk. *)
Talk ==
  /\ pc = "edge" /\ phase = "up" /\ allowed => ~ptt_active
  /\ phase = "held" /\ upset = {} => ~ptt_active /\ capture # "STREAMING"
  /\ phase = "talking" /\ upset = {} =>
       /\ Begun => ~ptt_active /\ capture # "STREAMING"
       /\ pc = "commit" => told = selected
       /\ pc = "flag" => told = selected
       /\ ~Begun /\ pc # "flag" =>
            /\ ptt_active = (capture = "STREAMING")
            /\ ptt_active => told = selected

Inv == TypeOK /\ Place /\ Selection /\ Prepared /\ Microphone /\ Talk

-----------------------------------------------------------------------------
(* What a step of the button's gestures leaves of its types. *)
LEMMA GestureTypes ==
  ASSUME TypeOK, [Button!Next]_<<phase, click, out>>
  PROVE  phase' \in Button!Phases /\ click' \in BOOLEAN /\ out' \in Button!Actions
BY DEF TypeOK, Button!Next, Button!Phases, Button!Actions, Button!WakePress,
       Button!LockedPress, Button!HeldPress, Button!ConsumedRelease, Button!TalkRelease,
       Button!ShortRelease, Button!SecondClick, Button!Hold, Button!WindowCloses,
       Button!Quiet

(* A message of the right shape may join the ones on the way. *)
LEMMA SentTypes ==
  ASSUME TypeOK, NEW type \in {"SELECT", "BEGIN", "END"}, NEW key \in Keys, Sent(type, key)
  PROVE  wire' \in Seq(Messages) /\ Len(wire') <= MaxWire
<1> DEFINE m == [type |-> type, key |-> key]
<1>1. m \in Messages
  BY DEF Messages
<1>2. wire \in Seq(Messages) /\ Len(wire) <= MaxWire /\ MaxWire \in Nat
  BY PushToTalkAssumption DEF TypeOK
<1>3. CASE link = "ready"
  <2>1. wire' = Append(wire, m) /\ Len(wire) < MaxWire
    BY <1>3 DEF Sent
  <2> HIDE DEF m
  <2> QED BY <1>1, <1>2, <2>1
<1>4. CASE link # "ready"
  BY <1>2, <1>4 DEF Sent
<1> QED BY <1>3, <1>4

(* One message less is on the way once it is handled. *)
LEMMA HandlingTypes ==
  ASSUME TypeOK, NEW type, Handling(type)
  PROVE  /\ wire' \in Seq(Messages) /\ Len(wire') <= MaxWire
         /\ Head(wire).key \in Keys
<1>1. wire \in Seq(Messages) /\ wire # <<>> /\ wire' = Tail(wire) /\ Len(wire) <= MaxWire
  BY DEF TypeOK, Handling
<1>2. Head(wire) \in Messages
  BY <1>1
<1>3. Head(wire).key \in Keys
  BY <1>2 DEF Messages
<1>4. Tail(wire) \in Seq(Messages) /\ Len(Tail(wire)) = Len(wire) - 1 /\ Len(wire) \in Nat
  BY <1>1
<1> QED BY <1>1, <1>3, <1>4, PushToTalkAssumption DEF TypeOK

LEMMA InitTypes == Init => TypeOK
<1> SUFFICES ASSUME Init PROVE TypeOK
  OBVIOUS
<1>1. wire \in Seq(Messages) /\ Len(wire) <= MaxWire
  <2>1. wire = <<>> /\ MaxWire \in Nat
    BY PushToTalkAssumption DEF Init
  <2> QED BY <2>1
<1>2. phase \in Button!Phases /\ click \in BOOLEAN /\ out \in Button!Actions
  BY DEF Init, Button!Init, Button!Phases, Button!Actions
<1> QED BY <1>1, <1>2 DEF Init, TypeOK, Keys

LEMMA ButtonTypes == ASSUME TypeOK, ButtonStep PROVE TypeOK'
<1> USE DEF Keys, device, host
<1>1. CASE \E edge \in BOOLEAN : Sample(edge)
  <2>1. /\ click' \in BOOLEAN /\ ptt_active' \in BOOLEAN /\ audio_prepared' \in BOOLEAN
        /\ ending' \in BOOLEAN /\ allowed' \in BOOLEAN
    BY <1>1 DEF Sample, TypeOK
  <2> QED BY <1>1, <2>1 DEF Sample, TypeOK, Incidents
<1>2. CASE Edge
  <2>1. Button!Next
    BY <1>2 DEF Edge, Button!Next
  <2> QED BY <1>2, <2>1, GestureTypes DEF Edge, TypeOK, Incidents
<1>3. CASE DroppedEdge
  BY <1>3 DEF DroppedEdge, TypeOK
<1>4. CASE Tick
  <2>1. Button!Next
    BY <1>4 DEF Tick, Button!Next
  <2> QED BY <1>4, <2>1, GestureTypes DEF Tick, TypeOK
<1>5. CASE NothingToDo
  <2>1. /\ click' \in BOOLEAN /\ ptt_active' \in BOOLEAN /\ audio_prepared' \in BOOLEAN
        /\ ending' \in BOOLEAN /\ allowed' \in BOOLEAN
    BY <1>5 DEF NothingToDo, TypeOK
  <2> QED BY <1>5, <2>1 DEF NothingToDo, AfterAction, TypeOK
<1>6. CASE \E opens \in BOOLEAN : PreRollBegin(opens)
  BY <1>6 DEF PreRollBegin, AfterAction, TypeOK
<1>7. CASE PreRollDiscard
  BY <1>7, ZenonT(60) DEF PreRollDiscard, AfterAction, TypeOK
<1>8. CASE TalkBegin
  <2>1. /\ click' \in BOOLEAN /\ ptt_active' \in BOOLEAN /\ audio_prepared' \in BOOLEAN
        /\ ending' \in BOOLEAN /\ allowed' \in BOOLEAN
    BY <1>8 DEF TalkBegin, TypeOK
  <2> QED BY <1>8, <2>1 DEF TalkBegin, TypeOK
<1>9. CASE BeginSent
  <2>1. selected \in Keys
    BY DEF TypeOK
  <2>2. /\ click' \in BOOLEAN /\ ptt_active' \in BOOLEAN /\ audio_prepared' \in BOOLEAN
        /\ ending' \in BOOLEAN /\ allowed' \in BOOLEAN
    BY <1>9 DEF BeginSent, TypeOK
  <2> QED BY <1>9, <2>1, <2>2, SentTypes DEF BeginSent, TypeOK
<1>10. CASE BeginUnsent
  BY <1>10, ZenonT(60) DEF BeginUnsent, TypeOK
<1>11. CASE Commit
  <2>1. selected \in Keys
    BY DEF TypeOK
  <2>2. wire' \in Seq(Messages) /\ Len(wire') <= MaxWire
    BY <1>11, <2>1, SentTypes DEF Commit, TypeOK
  <2>3. /\ pc' \in {"sample", "flag"} /\ capture' \in {"IDLE", "STREAMING"}
        /\ audio_prepared' \in BOOLEAN
    BY <1>11 DEF Commit, TypeOK
  <2> QED BY <1>11, <2>2, <2>3 DEF Commit, TypeOK
<1>12. CASE Flag
  <2>1. pc' = "sample" /\ ptt_active' \in BOOLEAN /\ audio_prepared' \in BOOLEAN
    BY <1>12 DEF Flag
  <2>2. allowed' \in BOOLEAN /\ click' \in BOOLEAN /\ ending' \in BOOLEAN
    BY <1>12 DEF Flag, TypeOK
  <2> QED BY <1>12, <2>1, <2>2 DEF Flag, TypeOK
<1>13. CASE TalkEnd
  BY <1>13 DEF TalkEnd, TypeOK
<1>14. CASE EndSent
  <2>1. selected \in Keys
    BY DEF TypeOK
  <2> QED BY <1>14, <2>1, SentTypes DEF EndSent, TypeOK
<1>15. CASE EndUnsent
  BY <1>15 DEF EndUnsent, TypeOK, Incidents
<1>16. CASE Unflag
  <2>1. pc' = "tick" /\ ptt_active' \in BOOLEAN
    BY <1>16 DEF Unflag, AfterAction
  <2>2. /\ audio_prepared' \in BOOLEAN /\ allowed' \in BOOLEAN /\ click' \in BOOLEAN
        /\ ending' \in BOOLEAN
    BY <1>16 DEF Unflag, TypeOK
  <2> QED BY <1>16, <2>1, <2>2 DEF Unflag, TypeOK
<1> QED BY <1>1, <1>2, <1>3, <1>4, <1>5, <1>6, <1>7, <1>8, <1>9, <1>10, <1>11, <1>12,
           <1>13, <1>14, <1>15, <1>16 DEF ButtonStep

(* The host task and the link. *)
LEMMA ResetTypes ==
  ASSUME TypeOK, HostReset
  PROVE  /\ host_selected' \in Keys /\ answer' \in Keys /\ host_talk' \in Keys
         /\ focusing' \in Keys /\ ending' \in BOOLEAN
         /\ wire' \in Seq(Messages) /\ Len(wire') <= MaxWire
<1>1. PICK n \in 0..Len(wire) : wire' = SubSeq(wire, 1, n)
  BY DEF HostReset
<1>2. wire \in Seq(Messages) /\ Len(wire) \in Nat /\ Len(wire) <= MaxWire /\ MaxWire \in Nat
  BY PushToTalkAssumption DEF TypeOK
<1>3. wire' \in Seq(Messages) /\ Len(wire') <= MaxWire
  BY <1>1, <1>2
<1> QED BY <1>3 DEF HostReset, TypeOK, Keys

LEMMA LinkTypes == ASSUME TypeOK, LinkStep PROVE TypeOK'
<1> USE DEF button, host, device, Lost, Incidents
<1>1. CASE \E ss \in SUBSET Sessions : Snapshot(ss)
  BY <1>1, ZenonT(60) DEF Snapshot, TypeOK
<1>2. CASE \E key \in Sessions : Delta(key)
  BY <1>2 DEF Delta, TypeOK
<1>3. CASE SelectResult
  BY <1>3 DEF SelectResult, TypeOK, Keys
<1>4. CASE Connect
  BY <1>4 DEF Connect, TypeOK
<1>5. CASE Disconnect
  BY <1>5, ResetTypes, ZenonT(60) DEF Disconnect, TypeOK, Keys
<1>6. CASE Unsubscribed
  BY <1>6, ResetTypes, ZenonT(60) DEF Unsubscribed, TypeOK, Keys
<1>7. CASE Subscribed
  <2>1. host_selected' \in Keys /\ host_talk' \in Keys /\ ending' \in BOOLEAN
    BY <1>7 DEF Subscribed, HostReady, TypeOK, Keys
  <2> QED BY <1>7, <2>1, ZenonT(60) DEF Subscribed, HostReady, TypeOK
<1> QED BY <1>1, <1>2, <1>3, <1>4, <1>5, <1>6, <1>7 DEF LinkStep

LEMMA TapTypes == ASSUME TypeOK, NEW key \in Sessions, TapCard(key) PROVE TypeOK'
<1>1. key \in Keys /\ Sent("SELECT", key)
  BY DEF TapCard, Keys
<1>2. wire' \in Seq(Messages) /\ Len(wire') <= MaxWire
  BY <1>1, SentTypes
<1> QED BY <1>2 DEF TapCard, TypeOK, button, device, host

LEMMA HostTypes == ASSUME TypeOK, HostStep PROVE TypeOK'
<1> USE DEF button, host, device
<1>1. CASE HostSelect
  BY <1>1, HandlingTypes DEF HostSelect, TypeOK
<1>2. CASE HostEnd
  BY <1>2, HandlingTypes DEF HostEnd, MayEnd, TypeOK
<1>3. CASE HostAborts
  BY <1>3 DEF HostAborts, TypeOK, Keys
<1>4. CASE HostEnded
  <2>1. host_talk' \in Keys /\ ending' \in BOOLEAN
    BY <1>4 DEF HostEnded, Keys
  <2> QED BY <1>4, <2>1 DEF HostEnded, TypeOK
<1>5. CASE \E ok \in BOOLEAN : HostFocused(ok)
  BY <1>5 DEF HostFocused, TypeOK, Keys
<1>6. CASE \E ok \in BOOLEAN : HostBegin(ok)
  BY <1>6, HandlingTypes DEF HostBegin, TypeOK
<1> QED BY <1>1, <1>2, <1>3, <1>4, <1>5, <1>6 DEF HostStep
-----------------------------------------------------------------------------
(* The parts of the invariant beside the types, under each step of           *)
(* button_task.                                                              *)
Kept == Place /\ Selection /\ Prepared /\ Microphone /\ Talk

LEMMA ButtonKeeps == ASSUME Inv, ButtonStep PROVE Kept'
<1> USE DEF Inv, TypeOK, Place, Keys, device, host, Engaged, Excused, Begun
<1>1. CASE \E edge \in BOOLEAN : Sample(edge)
  <2>1. Place'
    BY <1>1 DEF Sample
  <2>2. Selection'
    BY <1>1 DEF Selection, Sample
  <2>3. Prepared'
    BY <1>1 DEF Selection, Prepared, Sample
  <2>4. Microphone'
    BY <1>1 DEF Selection, Microphone, Sample
  <2>5. Talk'
    <3>1. /\ pc = "sample" /\ pc' \in {"edge", "tick"}
          /\ allowed' => ~ptt_active
          /\ UNCHANGED <<phase, out, selected, capture, ptt_active, told>>
          /\ phase # "up" => upset' = upset
      BY <1>1 DEF Sample
    <3> QED BY <3>1 DEF Talk
  <2> QED BY <2>1, <2>2, <2>3, <2>4, <2>5 DEF Kept
<1>2. CASE Edge
  <2>1. /\ pc = "edge" /\ pc' = "edge_action" /\ upset \subseteq upset'
        /\ selected' = selected /\ capture' = capture /\ ptt_active' = ptt_active
        /\ audio_prepared' = audio_prepared /\ told' = told
    BY <1>2 DEF Edge
  <2>2. \/ phase = "up" /\ phase' = "consumed" /\ out' \in {"WAKE", "NONE"}
        \/ phase = "up" /\ allowed /\ phase' = "held" /\ out' = "PRE_ROLL_BEGIN"
        \/ phase = "consumed" /\ phase' = "up" /\ out' = "NONE"
        \/ phase = "talking" /\ phase' = "up" /\ out' = "PTT_END"
        \/ phase = "held" /\ phase' = "up" /\ out' = "PRE_ROLL_DISCARD"
        \/ phase = "held" /\ phase' = "up" /\ out' = "ESCAPE" /\ "double" \in upset'
    BY <1>2 DEF Edge, Button!WakePress, Button!LockedPress, Button!HeldPress,
         Button!ConsumedRelease, Button!TalkRelease, Button!ShortRelease, Button!SecondClick
  <2>3. Place'
    BY <2>1, <2>2
  <2>4. Selection'
    BY <2>1, <2>2 DEF Selection
  <2>5. Prepared'
    BY <2>1, <2>2 DEF Prepared
  <2>6. Microphone'
    BY <2>1, <2>2 DEF Microphone
  <2>7. Talk'
    BY <2>1, <2>2 DEF Microphone, Talk
  <2> QED BY <2>3, <2>4, <2>5, <2>6, <2>7 DEF Kept
<1>3. CASE DroppedEdge
  <2>1. Place'
    BY <1>3 DEF DroppedEdge
  <2>2. Selection'
    BY <1>3 DEF Selection, DroppedEdge
  <2>3. Prepared'
    BY <1>3 DEF Selection, Prepared, DroppedEdge
  <2>4. Microphone'
    BY <1>3 DEF Selection, Microphone, DroppedEdge
  <2>5. Talk'
    BY <1>3 DEF Selection, Prepared, Microphone, Talk, DroppedEdge
  <2> QED BY <2>1, <2>2, <2>3, <2>4, <2>5 DEF Kept
<1>4. CASE Tick
  <2>1. Place'
    BY <1>4 DEF Tick, Button!Hold, Button!WindowCloses, Button!Quiet
  <2>2. Selection'
    BY <1>4 DEF Selection, Tick, Button!Hold, Button!WindowCloses, Button!Quiet
  <2>3. Prepared'
    BY <1>4 DEF Selection, Prepared, Tick, Button!Hold, Button!WindowCloses,
         Button!Quiet
  <2>4. Microphone'
    BY <1>4 DEF Selection, Microphone, Tick, Button!Hold, Button!WindowCloses,
         Button!Quiet
  <2>5. Talk'
    BY <1>4 DEF Selection, Prepared, Microphone, Talk, Tick, Button!Hold,
         Button!WindowCloses, Button!Quiet
  <2> QED BY <2>1, <2>2, <2>3, <2>4, <2>5 DEF Kept
<1>5. CASE NothingToDo
  <2>1. Place'
    BY <1>5 DEF NothingToDo, AfterAction
  <2>2. Selection'
    BY <1>5 DEF Selection, NothingToDo, AfterAction
  <2>3. Prepared'
    BY <1>5 DEF Selection, Prepared, NothingToDo, AfterAction
  <2>4. Microphone'
    BY <1>5 DEF Selection, Microphone, NothingToDo, AfterAction
  <2>5. Talk'
    BY <1>5 DEF Selection, Prepared, Microphone, Talk, NothingToDo, AfterAction
  <2> QED BY <2>1, <2>2, <2>3, <2>4, <2>5 DEF Kept
<1>6. CASE \E opens \in BOOLEAN : PreRollBegin(opens)
  <2>1. Place'
    BY <1>6 DEF PreRollBegin, Dispatching, AfterAction
  <2>2. Selection'
    BY <1>6 DEF Selection, PreRollBegin, Dispatching, AfterAction
  <2>3. Prepared'
    BY <1>6 DEF Selection, Prepared, PreRollBegin, Dispatching, AfterAction
  <2>4. Microphone'
    BY <1>6 DEF Selection, Microphone, PreRollBegin, Dispatching, AfterAction
  <2>5. Talk'
    BY <1>6 DEF Selection, Prepared, Microphone, Talk, PreRollBegin, Dispatching,
         AfterAction
  <2> QED BY <2>1, <2>2, <2>3, <2>4, <2>5 DEF Kept
<1>7. CASE PreRollDiscard
  <2>1. Place'
    BY <1>7 DEF PreRollDiscard, Dispatching, AfterAction
  <2>2. Selection'
    BY <1>7 DEF Selection, PreRollDiscard, Dispatching, AfterAction
  <2>3. Prepared'
    BY <1>7 DEF Selection, Prepared, PreRollDiscard, Dispatching, AfterAction
  <2>4. Microphone'
    BY <1>7 DEF Selection, Microphone, PreRollDiscard, Dispatching, AfterAction
  <2>5. Talk'
    BY <1>7 DEF Selection, Prepared, Microphone, Talk, PreRollDiscard, Dispatching,
         AfterAction
  <2> QED BY <2>1, <2>2, <2>3, <2>4, <2>5 DEF Kept
<1>8. CASE TalkBegin
  <2>1. Place'
    BY <1>8 DEF TalkBegin, Dispatching
  <2>2. Selection'
    BY <1>8 DEF Selection, TalkBegin, Dispatching
  <2>3. Prepared'
    BY <1>8 DEF Selection, Prepared, TalkBegin, Dispatching
  <2>4. Microphone'
    BY <1>8 DEF Selection, Microphone, TalkBegin, Dispatching
  <2>5. Talk'
    BY <1>8 DEF Selection, Prepared, Microphone, Talk, TalkBegin, Dispatching
  <2> QED BY <2>1, <2>2, <2>3, <2>4, <2>5 DEF Kept
<1>9. CASE BeginSent
  <2>1. Place'
    BY <1>9 DEF BeginSent
  <2>2. Selection'
    BY <1>9 DEF Selection, BeginSent
  <2>3. Prepared'
    BY <1>9 DEF Selection, Prepared, BeginSent
  <2>4. Microphone'
    BY <1>9 DEF Selection, Microphone, BeginSent
  <2>5. Talk'
    BY <1>9 DEF Selection, Prepared, Microphone, Talk, BeginSent
  <2> QED BY <2>1, <2>2, <2>3, <2>4, <2>5 DEF Kept
<1>10. CASE BeginUnsent
  <2>1. Place'
    BY <1>10 DEF BeginUnsent
  <2>2. Selection'
    BY <1>10 DEF Selection, BeginUnsent
  <2>3. Prepared'
    BY <1>10 DEF Selection, Prepared, BeginUnsent
  <2>4. Microphone'
    BY <1>10 DEF Selection, Microphone, BeginUnsent
  <2>5. Talk'
    BY <1>10 DEF Selection, Prepared, Microphone, Talk, BeginUnsent
  <2> QED BY <2>1, <2>2, <2>3, <2>4, <2>5 DEF Kept
<1>11. CASE Commit
  <2>1. Place'
    BY <1>11 DEF Commit
  <2>2. Selection'
    BY <1>11 DEF Selection, Commit
  <2>3. Prepared'
    <3>1. pc' = "flag" \/ audio_prepared' = FALSE
      BY <1>11 DEF Commit
    <3> QED BY <3>1 DEF Prepared
  <2>4. Microphone'
    BY <1>11 DEF Selection, Microphone, Commit
  <2>5. Talk'
    BY <1>11 DEF Selection, Prepared, Microphone, Talk, Commit
  <2> QED BY <2>1, <2>2, <2>3, <2>4, <2>5 DEF Kept
<1>12. CASE Flag
  <2>1. Place'
    BY <1>12 DEF Flag
  <2>2. Selection'
    BY <1>12 DEF Selection, Flag
  <2>3. Prepared'
    BY <1>12 DEF Selection, Prepared, Flag
  <2>4. Microphone'
    BY <1>12 DEF Selection, Microphone, Flag
  <2>5. Talk'
    BY <1>12 DEF Selection, Prepared, Microphone, Talk, Flag
  <2> QED BY <2>1, <2>2, <2>3, <2>4, <2>5 DEF Kept
<1>13. CASE TalkEnd
  <2>1. Place'
    BY <1>13 DEF TalkEnd, Dispatching
  <2>2. Selection'
    BY <1>13 DEF Selection, TalkEnd, Dispatching
  <2>3. Prepared'
    BY <1>13 DEF Selection, Prepared, TalkEnd, Dispatching
  <2>4. Microphone'
    BY <1>13 DEF Selection, Microphone, TalkEnd, Dispatching
  <2>5. Talk'
    BY <1>13 DEF Selection, Prepared, Microphone, Talk, TalkEnd, Dispatching
  <2> QED BY <2>1, <2>2, <2>3, <2>4, <2>5 DEF Kept
<1>14. CASE EndSent
  <2>1. Place'
    BY <1>14 DEF EndSent
  <2>2. Selection'
    BY <1>14 DEF Selection, EndSent
  <2>3. Prepared'
    BY <1>14 DEF Selection, Prepared, EndSent
  <2>4. Microphone'
    BY <1>14 DEF Selection, Microphone, EndSent
  <2>5. Talk'
    BY <1>14 DEF Selection, Prepared, Microphone, Talk, EndSent
  <2> QED BY <2>1, <2>2, <2>3, <2>4, <2>5 DEF Kept
<1>15. CASE EndUnsent
  <2>1. Place'
    BY <1>15 DEF EndUnsent
  <2>2. Selection'
    BY <1>15 DEF Selection, EndUnsent
  <2>3. Prepared'
    BY <1>15 DEF Selection, Prepared, EndUnsent
  <2>4. Microphone'
    BY <1>15 DEF Selection, Microphone, EndUnsent
  <2>5. Talk'
    BY <1>15 DEF Selection, Prepared, Microphone, Talk, EndUnsent
  <2> QED BY <2>1, <2>2, <2>3, <2>4, <2>5 DEF Kept
<1>16. CASE Unflag
  <2>1. Place'
    BY <1>16 DEF Unflag, AfterAction
  <2>2. Selection'
    BY <1>16 DEF Selection, Unflag, AfterAction
  <2>3. Prepared'
    BY <1>16 DEF Selection, Prepared, Unflag, AfterAction
  <2>4. Microphone'
    BY <1>16 DEF Selection, Microphone, Unflag, AfterAction
  <2>5. Talk'
    BY <1>16 DEF Selection, Prepared, Microphone, Talk, Unflag, AfterAction
  <2> QED BY <2>1, <2>2, <2>3, <2>4, <2>5 DEF Kept
<1> QED BY <1>1, <1>2, <1>3, <1>4, <1>5, <1>6, <1>7, <1>8, <1>9, <1>10, <1>11, <1>12,
           <1>13, <1>14, <1>15, <1>16 DEF ButtonStep

(* What the host task, the link and the Mac do to what the invariant reads.  *)
LEMMA OthersKeep == ASSUME Inv, LinkStep \/ HostStep \/ \E key \in Sessions : TapCard(key)
                    PROVE  Kept'
<1> USE DEF Inv, TypeOK, Place, Keys, button, device, host, Lost, Engaged, Begun
<1>1. /\ UNCHANGED <<phase, out, pc, allowed, capture, audio_prepared>>
      /\ upset \subseteq upset'
      /\ selected' = None /\ selected # None => "lost" \in upset'
  BY DEF LinkStep, Snapshot, Delta, SelectResult, Connect, Disconnect, Unsubscribed,
         Subscribed, HostStep, HostSelect, HostEnd, HostAborts, HostEnded, HostFocused,
         HostBegin, TapCard, Handling
<1>2. \/ selected' = selected /\ ptt_active' = ptt_active /\ told' = told
      \/ upset' # {}
      \/ selected' = None /\ selected = None /\ ptt_active' = FALSE
  BY DEF LinkStep, Snapshot, Delta, SelectResult, Connect, Disconnect, Unsubscribed,
         Subscribed, HostStep, HostSelect, HostEnd, HostAborts, HostEnded, HostFocused,
         HostBegin, TapCard, Handling
<1>3. ptt_active' => ptt_active
  BY DEF LinkStep, Snapshot, Delta, SelectResult, Connect, Disconnect, Unsubscribed,
         Subscribed, HostStep, HostSelect, HostEnd, HostAborts, HostEnded, HostFocused,
         HostBegin, TapCard, Handling
<1>4. Place'
  BY <1>1
<1>5. Selection'
  BY <1>1 DEF Selection
<1>6. Prepared'
  BY <1>1 DEF Prepared
<1>7. Microphone'
  BY <1>1 DEF Microphone, Excused
<1>8. Talk'
  BY <1>1, <1>2, <1>3 DEF Talk, Selection
<1> QED BY <1>4, <1>5, <1>6, <1>7, <1>8 DEF Kept

-----------------------------------------------------------------------------
(* The invariant holds throughout. *)
THEOREM Invariance == Spec => []Inv
<1>1. Init => Inv
  BY InitTypes DEF Init, Button!Init, Inv, Place, Selection, Prepared, Microphone, Talk,
       Engaged, Excused, Begun
<1>2. Inv /\ [Next]_vars => Inv'
  <2> SUFFICES ASSUME Inv, [Next]_vars PROVE Inv'
    OBVIOUS
  <2>1. CASE ButtonStep
    BY <2>1, ButtonTypes, ButtonKeeps DEF Inv, Kept
  <2>2. CASE LinkStep
    BY <2>2, LinkTypes, OthersKeep DEF Inv, Kept
  <2>3. CASE \E key \in Sessions : TapCard(key)
    BY <2>3, TapTypes, OthersKeep DEF Inv, Kept
  <2>4. CASE HostStep
    BY <2>4, HostTypes, OthersKeep DEF Inv, Kept
  <2>5. CASE UNCHANGED vars
    BY <2>5 DEF vars, button, device, host, Inv, TypeOK, Place, Selection, Prepared,
         Microphone, Talk, Engaged, Excused, Begun
  <2> QED BY <2>1, <2>2, <2>3, <2>4, <2>5 DEF Next
<1> QED BY <1>1, <1>2, PTL DEF Spec

(* Types; and a selected session is one that the device lists. *)
THEOREM TypeCorrect == Spec => []TypeOK
<1>1. Inv => TypeOK
  BY DEF Inv
<1> QED BY <1>1, Invariance, PTL

(* A PTT_BEGIN is committed with the pre-roll it was sent for, unless the    *)
(* selection went away since the press (app_main.c, PTT_BEGIN).              *)
THEOREM CommitHasPreRoll == Spec => []CommitFindsPreRoll
<1>1. Inv => CommitFindsPreRoll
  BY DEF Inv, Place, Prepared, CommitFindsPreRoll
<1> QED BY <1>1, Invariance, PTL

(* After a press the microphone is off, but for the three ways the code      *)
(* leaves it on.                                                             *)
THEOREM CaptureEnds == Spec => []CaptureEndsWithPress
<1>1. Inv => CaptureEndsWithPress
  BY DEF Inv, Microphone, Engaged, Excused, CaptureEndsWithPress
<1> QED BY <1>1, Invariance, PTL

(* The lock, the capture and the session announced agree during an           *)
(* undisturbed talk.                                                         *)
THEOREM TalkIsConsistent == Spec => []TalkAgrees
<1>1. Inv => TalkAgrees
  BY DEF Inv, Selection, Engaged, Begun, Talk, TalkAgrees
<1> QED BY <1>1, Invariance, PTL

-----------------------------------------------------------------------------
(* The Mac beside the button.  What excuses a talk that goes on at the Mac;   *)
(* a link that went does until it is back.                                   *)
Disturbed ==
  \/ \E i \in {"lost", "reselected", "unsent", "busy"} : i \in upset
  \/ link # "ready" /\ "link" \in upset

(* The press has not sent its PTT_BEGIN; it has, or may have, and not yet    *)
(* its PTT_END.                                                              *)
Unannounced == phase = "held" \/ (pc = "edge" /\ phase = "up")
Announced == phase = "talking" \/ pc = "end" \/ (pc = "edge_action" /\ out = "PTT_END")

NoBegin(w) == \A i \in DOMAIN w : w[i].type # "BEGIN"

BeginsFor(w, key) == \A i \in DOMAIN w : w[i].type = "BEGIN" => w[i].key = key

(* Some end for key is on the way. *)
EndComes(w, key) == \E j \in DOMAIN w : w[j].type = "END" /\ w[j].key = key

(* Every begin on the way has its end behind it. *)
EndsFollow(w) ==
  \A i \in DOMAIN w : w[i].type = "BEGIN" =>
    \E j \in DOMAIN w : i < j /\ w[j].type = "END" /\ w[j].key = w[i].key

Silent(w, talk) == talk = None /\ NoBegin(w)
Heard(w, talk, key) == talk \in {None, key} /\ BeginsFor(w, key)
Settled(w, talk, ends) == (talk # None => ends \/ EndComes(w, talk)) /\ EndsFollow(w)

(* A press without a link is not heard of, whatever it sends.               *)
Mac ==
  ~Disturbed =>
       /\ link # "ready" => Silent(wire, host_talk)
       /\ Unannounced => Silent(wire, host_talk)
       /\ Announced => Heard(wire, host_talk, selected)
       /\ ~Unannounced /\ ~Announced => Settled(wire, host_talk, ending)

(* Before a talk the two weaker conditions hold as well. *)
LEMMA SilentIsBoth ==
  ASSUME NEW w, NEW talk, Silent(w, talk), NEW key, NEW ends
  PROVE  Heard(w, talk, key) /\ Settled(w, talk, ends)
BY DEF Silent, Heard, Settled, NoBegin, BeginsFor, EndsFollow

(* Nothing on the way and no talk. *)
LEMMA NothingIsSilent == Silent(<<>>, None)
BY DEF Silent, NoBegin

(* The places of a sequence without its first element. *)
LEMMA TailPlaces ==
  ASSUME NEW w \in Seq(Messages), w # <<>>
  PROVE  /\ 1 \in DOMAIN w /\ Head(w) = w[1]
         /\ DOMAIN w \subseteq Nat /\ DOMAIN Tail(w) \subseteq Nat
         /\ \A i \in DOMAIN Tail(w) : i + 1 \in DOMAIN w /\ Tail(w)[i] = w[i + 1]
         /\ \A i \in DOMAIN w : i # 1 => /\ i - 1 \in DOMAIN Tail(w)
                                         /\ Tail(w)[i - 1] = w[i]
<1>1. /\ Len(w) \in Nat \ {0} /\ Len(Tail(w)) = Len(w) - 1
      /\ DOMAIN w = 1 .. Len(w) /\ DOMAIN Tail(w) = 1 .. Len(Tail(w))
      /\ Head(w) = w[1]
  OBVIOUS
<1>2. \A i \in 1 .. Len(Tail(w)) : Tail(w)[i] = w[i + 1]
  BY <1>1
<1> QED BY <1>1, <1>2

(* The places of a sequence that grew by one element. *)
LEMMA AppendPlaces ==
  ASSUME NEW w \in Seq(Messages), NEW m \in Messages
  PROVE  /\ DOMAIN w \subseteq Nat /\ DOMAIN w \subseteq DOMAIN Append(w, m)
         /\ Len(w) + 1 \in DOMAIN Append(w, m) /\ Append(w, m)[Len(w) + 1] = m
         /\ \A i \in DOMAIN w : i < Len(w) + 1 /\ Append(w, m)[i] = w[i]
         /\ \A i \in DOMAIN Append(w, m) : i \in DOMAIN w \/ i = Len(w) + 1
<1>1. /\ Len(w) \in Nat /\ Len(Append(w, m)) = Len(w) + 1
      /\ DOMAIN w = 1 .. Len(w) /\ DOMAIN Append(w, m) = 1 .. Len(Append(w, m))
  OBVIOUS
<1>2. \A i \in 1 .. Len(w) : Append(w, m)[i] = w[i]
  OBVIOUS
<1>3. Append(w, m)[Len(w) + 1] = m
  OBVIOUS
<1> QED BY <1>1, <1>2, <1>3

(* The first message is taken from the ones on the way. *)
LEMMA HandledKeeps ==
  ASSUME NEW w \in Seq(Messages), w # <<>>
  PROVE  /\ NoBegin(w) => NoBegin(Tail(w)) /\ Head(w).type # "BEGIN"
         /\ \A key : BeginsFor(w, key) => /\ BeginsFor(Tail(w), key)
                                          /\ Head(w).type = "BEGIN" => Head(w).key = key
         /\ EndsFollow(w) => /\ EndsFollow(Tail(w))
                             /\ Head(w).type = "BEGIN" => EndComes(Tail(w), Head(w).key)
         /\ \A key : EndComes(w, key) => \/ EndComes(Tail(w), key)
                                         \/ Head(w).type = "END" /\ Head(w).key = key
<1> DEFINE v == Tail(w)
<1>1. /\ 1 \in DOMAIN w /\ Head(w) = w[1] /\ DOMAIN w \subseteq Nat /\ DOMAIN v \subseteq Nat
      /\ \A i \in DOMAIN v : i + 1 \in DOMAIN w /\ v[i] = w[i + 1]
      /\ \A i \in DOMAIN w : i # 1 => i - 1 \in DOMAIN v /\ v[i - 1] = w[i]
  BY TailPlaces
<1> HIDE DEF v
<1>2. NoBegin(w) => NoBegin(v) /\ Head(w).type # "BEGIN"
  BY <1>1 DEF NoBegin
<1>3. ASSUME NEW key, BeginsFor(w, key)
      PROVE  BeginsFor(v, key) /\ (Head(w).type = "BEGIN" => Head(w).key = key)
  BY <1>1, <1>3 DEF BeginsFor
<1>4. ASSUME EndsFollow(w), NEW i \in DOMAIN w, w[i].type = "BEGIN"
      PROVE  \E j \in DOMAIN v : i < j + 1 /\ v[j].type = "END" /\ v[j].key = w[i].key
  <2>1. PICK j \in DOMAIN w : i < j /\ w[j].type = "END" /\ w[j].key = w[i].key
    BY <1>4 DEF EndsFollow
  <2>2. j # 1 /\ i \in Nat /\ j \in Nat
    BY <1>1, <1>4, <2>1
  <2>3. j - 1 \in DOMAIN v /\ v[j - 1] = w[j] /\ i < (j - 1) + 1
    BY <1>1, <2>1, <2>2
  <2> QED BY <2>1, <2>3
<1>5. ASSUME EndsFollow(w) PROVE EndsFollow(v)
  <2> SUFFICES ASSUME NEW i \in DOMAIN v, v[i].type = "BEGIN"
               PROVE  \E j \in DOMAIN v : i < j /\ v[j].type = "END" /\ v[j].key = v[i].key
    BY DEF EndsFollow
  <2>1. i + 1 \in DOMAIN w /\ v[i] = w[i + 1] /\ i \in Nat
    BY <1>1
  <2>2. PICK j \in DOMAIN v :
          i + 1 < j + 1 /\ v[j].type = "END" /\ v[j].key = w[i + 1].key
    BY <1>4, <1>5, <2>1
  <2>3. i < j
    BY <1>1, <2>1, <2>2
  <2> QED BY <2>1, <2>2, <2>3
<1>6. EndsFollow(w) /\ Head(w).type = "BEGIN" => EndComes(v, Head(w).key)
  BY <1>1, <1>4 DEF EndComes
<1>7. ASSUME NEW key, EndComes(w, key)
      PROVE  EndComes(v, key) \/ (Head(w).type = "END" /\ Head(w).key = key)
  BY <1>1, <1>7 DEF EndComes
<1> QED BY <1>2, <1>3, <1>5, <1>6, <1>7 DEF v

(* A message joins the ones on the way. *)
LEMMA JoinedKeeps ==
  ASSUME NEW w \in Seq(Messages), NEW m \in Messages, NEW talk, NEW ends
  PROVE  LET v == Append(w, m)
         IN  /\ m.type # "BEGIN" => /\ Silent(w, talk) => Silent(v, talk)
                                    /\ Settled(w, talk, ends) => Settled(v, talk, ends)
             /\ \A key : m.type # "BEGIN" \/ m.key = key =>
                           (Heard(w, talk, key) => Heard(v, talk, key))
             /\ m.type = "END" /\ Heard(w, talk, m.key) => Settled(v, talk, ends)
<1> DEFINE v == Append(w, m)
           n == Len(w) + 1
<1>1. /\ DOMAIN w \subseteq Nat /\ DOMAIN w \subseteq DOMAIN v
      /\ n \in DOMAIN v /\ v[n] = m
      /\ \A i \in DOMAIN w : i < n /\ v[i] = w[i]
      /\ \A i \in DOMAIN v : i \in DOMAIN w \/ i = n
  BY AppendPlaces
<1> HIDE DEF v, n
<1>2. m.type # "BEGIN" /\ Silent(w, talk) => Silent(v, talk)
  BY <1>1 DEF Silent, NoBegin
<1>3. m.type # "BEGIN" /\ Settled(w, talk, ends) => Settled(v, talk, ends)
  <2> SUFFICES ASSUME m.type # "BEGIN", Settled(w, talk, ends) PROVE Settled(v, talk, ends)
    OBVIOUS
  <2>1. talk # None => ends \/ EndComes(v, talk)
    BY <1>1 DEF Settled, EndComes
  <2>2. EndsFollow(v)
    BY <1>1 DEF Settled, EndsFollow
  <2> QED BY <2>1, <2>2 DEF Settled
<1>4. ASSUME NEW key, m.type # "BEGIN" \/ m.key = key, Heard(w, talk, key)
      PROVE  Heard(v, talk, key)
  BY <1>1, <1>4 DEF Heard, BeginsFor
<1>5. m.type = "END" /\ Heard(w, talk, m.key) => Settled(v, talk, ends)
  <2> SUFFICES ASSUME m.type = "END", Heard(w, talk, m.key) PROVE Settled(v, talk, ends)
    OBVIOUS
  <2>1. EndComes(v, m.key)
    BY <1>1 DEF EndComes
  <2>2. EndsFollow(v)
    BY <1>1 DEF Heard, BeginsFor, EndsFollow
  <2> QED BY <2>1, <2>2 DEF Heard, Settled
<1> QED BY <1>2, <1>3, <1>4, <1>5 DEF v

(* A step that touches neither the channel nor the Mac's talk: the press may *)
(* go from unannounced to announced or settle at once, never from announced  *)
(* to settled.                                                               *)
LEMMA QuietKeepsMac ==
  ASSUME Mac, UNCHANGED <<wire, host_talk, ending>>, link' = "ready" => link = "ready",
         ~Disturbed' => /\ ~Disturbed
                        /\ link' # "ready" => link # "ready"
                        /\ Unannounced' => Unannounced
                        /\ Announced' => Unannounced \/ (Announced /\ selected' = selected)
                        /\ ~Unannounced' /\ ~Announced' => Unannounced \/ ~Announced
  PROVE  Mac'
<1> SUFFICES ASSUME ~Disturbed' PROVE Mac'
  BY DEF Mac
<1>1. (link # "ready" => Silent(wire, host_talk))'
  BY DEF Mac
<1>2. (Unannounced => Silent(wire, host_talk))'
  BY DEF Mac
<1>3. (Announced => Heard(wire, host_talk, selected))'
  BY SilentIsBoth DEF Mac
<1>4. (~Unannounced /\ ~Announced => Settled(wire, host_talk, ending))'
  BY SilentIsBoth DEF Mac
<1> QED BY <1>1, <1>2, <1>3, <1>4 DEF Mac

LEMMA ButtonKeepsMac == ASSUME Inv, Mac, ButtonStep PROVE Mac'
<1> USE DEF Inv, TypeOK, Place, device, host
<1>1. CASE \E edge \in BOOLEAN : Sample(edge)
  <2>1. PICK edge \in BOOLEAN : Sample(edge)
    BY <1>1
  <2>2. CASE edge /\ phase = "up"
    <3>1. UNCHANGED <<phase, out, selected, link, wire, host_talk, ending>> /\ pc' = "edge"
      BY <2>1, <2>2 DEF Sample
    <3>2. ~Disturbed' => host_talk = None /\ wire = <<>>
      BY <2>1, <2>2 DEF Sample, Disturbed
    <3>3. (~Disturbed => Silent(wire, host_talk))'
      BY <3>1, <3>2, NothingIsSilent
    <3>4. Unannounced' /\ ~Announced'
      BY <2>2, <3>1 DEF Unannounced, Announced
    <3> QED BY <3>3, <3>4 DEF Mac
  <2>3. CASE ~(edge /\ phase = "up")
    <3>1. /\ UNCHANGED <<phase, out, selected, link, wire, host_talk, ending, upset>>
          /\ pc = "sample" /\ pc' \in {"edge", "tick"}
          /\ pc' = "edge" => phase # "up"
      BY <2>1, <2>3 DEF Sample
    <3> QED BY <3>1, QuietKeepsMac DEF Disturbed, Unannounced, Announced
  <2> QED BY <2>2, <2>3
<1>2. CASE Edge
  <2>1. /\ pc = "edge" /\ pc' = "edge_action" /\ upset \subseteq upset'
        /\ UNCHANGED <<selected, link, wire, host_talk, ending>>
    BY <1>2 DEF Edge
  <2>2. \/ phase = "up" /\ phase' = "consumed" /\ out' \in {"WAKE", "NONE"}
        \/ phase = "up" /\ phase' = "held" /\ out' = "PRE_ROLL_BEGIN"
        \/ phase = "consumed" /\ phase' = "up" /\ out' = "NONE"
        \/ phase = "talking" /\ phase' = "up" /\ out' = "PTT_END"
        \/ phase = "held" /\ phase' = "up" /\ out' \in {"PRE_ROLL_DISCARD", "ESCAPE"}
    BY <1>2 DEF Edge, Button!WakePress, Button!LockedPress, Button!HeldPress,
         Button!ConsumedRelease, Button!TalkRelease, Button!ShortRelease, Button!SecondClick
  <2> QED BY <2>1, <2>2, QuietKeepsMac DEF Disturbed, Unannounced, Announced
<1>3. CASE DroppedEdge
  BY <1>3, QuietKeepsMac DEF DroppedEdge, Disturbed, Unannounced, Announced
<1>4. CASE Tick
  <2>1. /\ pc = "tick" /\ pc' = "tick_action" /\ upset' = upset
        /\ UNCHANGED <<selected, link, wire, host_talk, ending>>
        /\ phase' = phase \/ (phase = "held" /\ phase' = "talking")
    BY <1>4 DEF Tick, Button!Hold, Button!WindowCloses, Button!Quiet
  <2> QED BY <2>1, QuietKeepsMac DEF Disturbed, Unannounced, Announced
<1>5. CASE NothingToDo
  <2>1. ~Disturbed => ~(pc = "edge_action" /\ out = "PTT_END")
    BY <1>5 DEF NothingToDo, Selection, Engaged, Disturbed
  <2>2. /\ pc \in {"edge_action", "tick_action"} /\ pc' \in {"tick", "sample"}
        /\ UNCHANGED <<phase, out, selected, link, wire, host_talk, ending, upset>>
    BY <1>5 DEF NothingToDo, AfterAction
  <2> QED BY <2>1, <2>2, QuietKeepsMac DEF Disturbed, Unannounced, Announced
<1>6. CASE \E opens \in BOOLEAN : PreRollBegin(opens)
  BY <1>6, QuietKeepsMac
     DEF PreRollBegin, Dispatching, AfterAction, Disturbed, Unannounced, Announced
<1>7. CASE PreRollDiscard
  BY <1>7, QuietKeepsMac
     DEF PreRollDiscard, Dispatching, AfterAction, Disturbed, Unannounced, Announced
<1>8. CASE TalkBegin
  BY <1>8, QuietKeepsMac DEF TalkBegin, Dispatching, Disturbed, Unannounced, Announced
<1>9. CASE BeginSent
  <2>1. /\ phase = "talking" /\ pc = "begin" /\ pc' = "commit"
        /\ UNCHANGED <<phase, out, selected, link, host_talk, ending, upset>>
        /\ Sent("BEGIN", selected)
    BY <1>9 DEF BeginSent
  <2>2. CASE link = "ready"
    <3> DEFINE m == [type |-> "BEGIN", key |-> selected]
    <3>1. m \in Messages /\ m.type = "BEGIN" /\ m.key = selected
      BY DEF Messages, Keys
    <3>2. wire' = Append(wire, m)
      BY <2>1, <2>2 DEF Sent
    <3> HIDE DEF m
    <3>3. Heard(wire, host_talk, selected) => Heard(wire', host_talk, selected)
      BY <3>1, <3>2, JoinedKeeps
    <3> QED BY <2>1, <2>2, <3>3 DEF Mac, Disturbed, Unannounced, Announced
  <2>3. CASE link # "ready"
    <3>1. wire' = wire
      BY <2>1, <2>3 DEF Sent
    <3> QED BY <2>1, <3>1, QuietKeepsMac DEF Disturbed, Unannounced, Announced
  <2> QED BY <2>2, <2>3
<1>10. CASE BeginUnsent
  BY <1>10, QuietKeepsMac DEF BeginUnsent, Disturbed, Unannounced, Announced
<1>11. CASE Commit
  <2>1. CASE capture = "PRE_ROLL"
    BY <1>11, <2>1, QuietKeepsMac DEF Commit, Disturbed, Unannounced, Announced
  <2>2. CASE capture # "PRE_ROLL"
    <3>1. Disturbed'
      BY <1>11, <2>2 DEF Commit, Prepared, Disturbed
    <3> QED BY <3>1 DEF Mac
  <2> QED BY <2>1, <2>2
<1>12. CASE Flag
  BY <1>12, QuietKeepsMac DEF Flag, Disturbed, Unannounced, Announced
<1>13. CASE TalkEnd
  BY <1>13, QuietKeepsMac DEF TalkEnd, Dispatching, Disturbed, Unannounced, Announced
<1>14. CASE EndSent
  <2>1. /\ phase = "up" /\ pc = "end" /\ pc' = "unflag"
        /\ UNCHANGED <<phase, out, selected, link, host_talk, ending, upset>>
        /\ Sent("END", selected)
    BY <1>14 DEF EndSent
  <2>2. ~Unannounced' /\ ~Announced' /\ Announced
    BY <2>1 DEF Unannounced, Announced
  <2>3. Disturbed' = Disturbed
    BY <2>1 DEF Disturbed
  <2>4. CASE link = "ready"
    <3> DEFINE m == [type |-> "END", key |-> selected]
    <3>1. m \in Messages /\ m.type = "END" /\ m.key = selected
      BY DEF Messages, Keys
    <3>2. wire' = Append(wire, m)
      BY <2>1, <2>4 DEF Sent
    <3> HIDE DEF m
    <3>3. Heard(wire, host_talk, selected) => Settled(wire', host_talk, ending)
      BY <3>1, <3>2, JoinedKeeps
    <3> QED BY <2>1, <2>2, <2>3, <2>4, <3>3 DEF Mac
  <2>5. CASE link # "ready"
    <3>1. UNCHANGED <<link, wire, host_talk, ending>>
      BY <2>1, <2>5 DEF Sent
    <3>2. ~Disturbed => Silent(wire, host_talk)
      BY <2>5 DEF Mac
    <3>3. (~Disturbed => Silent(wire, host_talk))'
      BY <2>3, <3>1, <3>2
    <3>4. (~Disturbed => Settled(wire, host_talk, ending))'
      BY <3>3, SilentIsBoth
    <3> QED BY <2>2, <3>3, <3>4 DEF Mac
  <2> QED BY <2>4, <2>5
<1>15. CASE EndUnsent
  BY <1>15 DEF EndUnsent, Disturbed, Mac
<1>16. CASE Unflag
  BY <1>16, QuietKeepsMac DEF Unflag, AfterAction, Disturbed, Unannounced, Announced
<1> QED BY <1>1, <1>2, <1>3, <1>4, <1>5, <1>6, <1>7, <1>8, <1>9, <1>10, <1>11, <1>12,
           <1>13, <1>14, <1>15, <1>16 DEF ButtonStep

(* The host task and the link leave the gesture alone; a selection changes   *)
(* only with a note of it; a link that went is noted until it is back with    *)
(* nothing of the old one.                                                   *)
LEMMA LinkKeepsMac == ASSUME Inv, Mac, LinkStep PROVE Mac'
<1> USE DEF Inv, TypeOK, button, device, host, Lost
<1>1. /\ UNCHANGED <<phase, out, pc>> /\ upset \subseteq upset'
      /\ selected' # selected => "lost" \in upset' \/ "reselected" \in upset'
  BY DEF LinkStep, Snapshot, Delta, SelectResult, Connect, Disconnect, Unsubscribed,
         Subscribed
<1>2. Unannounced' = Unannounced /\ Announced' = Announced
  BY <1>1 DEF Unannounced, Announced
<1>3. CASE UNCHANGED <<wire, host_talk, ending>> /\ (link' = "ready" <=> link = "ready")
  <2>1. ~Disturbed' => ~Disturbed /\ selected' = selected
    BY <1>1, <1>3 DEF Disturbed
  <2> QED BY <1>2, <1>3, <2>1, QuietKeepsMac
<1>4. CASE link' # "ready" /\ "link" \in upset'
  BY <1>4 DEF Mac, Disturbed
<1>5. CASE wire' = <<>> /\ host_talk' = None
  BY <1>5, NothingIsSilent, SilentIsBoth DEF Mac
<1>6. CASE Disconnect \/ Unsubscribed
  BY <1>4, <1>6 DEF Disconnect, Unsubscribed
<1>7. CASE Subscribed
  BY <1>5, <1>7 DEF Subscribed, HostReady
<1>8. CASE \/ \E ss \in SUBSET Sessions : Snapshot(ss)
           \/ \E key \in Sessions : Delta(key)
           \/ SelectResult \/ Connect
  BY <1>3, <1>8 DEF Snapshot, Delta, SelectResult, Connect
<1> QED BY <1>6, <1>7, <1>8 DEF LinkStep

LEMMA TapKeepsMac ==
  ASSUME Inv, Mac, NEW key \in Sessions, TapCard(key)
  PROVE  Mac'
<1> USE DEF Inv, TypeOK, button, device, host
<1>1. UNCHANGED <<phase, out, pc, selected, link, host_talk, ending, upset>>
  BY DEF TapCard
<1>2. /\ Disturbed' = Disturbed /\ Unannounced' = Unannounced /\ Announced' = Announced
  BY <1>1 DEF Disturbed, Unannounced, Announced
<1>3. CASE wire' = wire
  BY <1>1, <1>2, <1>3, QuietKeepsMac
<1>4. CASE wire' # wire
  <2> DEFINE m == [type |-> "SELECT", key |-> key]
  <2>1. m \in Messages /\ m.type = "SELECT"
    BY DEF Messages, Keys
  <2>2. link = "ready" /\ wire' = Append(wire, m)
    BY <1>4 DEF TapCard, Sent
  <2> HIDE DEF m
  <2>3. /\ Silent(wire, host_talk) => Silent(wire', host_talk)
        /\ Heard(wire, host_talk, selected) => Heard(wire', host_talk, selected)
        /\ Settled(wire, host_talk, ending) => Settled(wire', host_talk, ending)
    BY <2>1, <2>2, JoinedKeeps
  <2> QED BY <1>1, <1>2, <2>2, <2>3 DEF Mac
<1> QED BY <1>3, <1>4

(* The Mac handles what came, or its talk ends.                              *)
LEMMA HostKeepsMac == ASSUME Inv, Mac, HostStep PROVE Mac'
<1> USE DEF Inv, TypeOK, button, device
<1>1. UNCHANGED <<phase, out, pc, selected, link, upset>>
  BY DEF HostStep, HostSelect, HostEnd, HostAborts, HostEnded, HostFocused, HostBegin
<1>2. /\ Disturbed' = Disturbed /\ Unannounced' = Unannounced /\ Announced' = Announced
  BY <1>1 DEF Disturbed, Unannounced, Announced
<1>3. CASE /\ wire # <<>> /\ wire' = Tail(wire)
           /\ \/ host_talk' = host_talk
              \/ Head(wire).type = "BEGIN" /\ host_talk = None
                   /\ host_talk' = Head(wire).key
           /\ ending' \in BOOLEAN /\ (ending => ending')
           /\ Head(wire).type = "END" /\ host_talk # None /\ host_talk = Head(wire).key
                => ending'
  <2>1. /\ Silent(wire, host_talk) => Silent(wire', host_talk')
        /\ Heard(wire, host_talk, selected) => Heard(wire', host_talk', selected)
        /\ Settled(wire, host_talk, ending) => Settled(wire', host_talk', ending')
    <3>1. wire \in Seq(Messages) /\ ending \in BOOLEAN /\ ending' \in BOOLEAN
      BY <1>3
    <3>2. /\ wire # <<>> /\ wire' = Tail(wire) /\ (ending => ending')
          /\ \/ host_talk' = host_talk
             \/ Head(wire).type = "BEGIN" /\ host_talk = None
                  /\ host_talk' = Head(wire).key
          /\ Head(wire).type = "END" /\ host_talk # None /\ host_talk = Head(wire).key
               => ending'
      BY <1>3
    <3>3. Silent(wire, host_talk) => Silent(wire', host_talk')
      BY <3>1, <3>2, HandledKeeps DEF Silent
    <3>4. Heard(wire, host_talk, selected) => Heard(wire', host_talk', selected)
      BY <3>1, <3>2, HandledKeeps DEF Heard
    <3>5. Settled(wire, host_talk, ending) => Settled(wire', host_talk', ending')
      BY <3>1, <3>2, HandledKeeps DEF Settled
    <3> QED BY <3>3, <3>4, <3>5
  <2> QED BY <1>1, <1>2, <2>1 DEF Mac
<1>4. CASE wire' = wire /\ host_talk' = None
  <2>1. /\ Silent(wire, host_talk) => Silent(wire', host_talk')
        /\ Heard(wire, host_talk, selected) => Heard(wire', host_talk', selected)
        /\ Settled(wire, host_talk, ending) => Settled(wire', host_talk', ending')
    BY <1>4 DEF Silent, Heard, Settled
  <2> QED BY <1>1, <1>2, <1>4, <2>1 DEF Mac
<1>5. CASE UNCHANGED <<wire, host_talk, ending>>
  BY <1>1, <1>2, <1>5, QuietKeepsMac
<1>6. CASE HostSelect
  BY <1>3, <1>6 DEF HostSelect, Handling
<1>7. CASE HostEnd
  BY <1>3, <1>7 DEF HostEnd, Handling, MayEnd
<1>8. CASE HostAborts \/ HostEnded
  BY <1>4, <1>8 DEF HostAborts, HostEnded
<1>9. CASE \E ok \in BOOLEAN : HostFocused(ok)
  BY <1>5, <1>9 DEF HostFocused
<1>10. CASE \E ok \in BOOLEAN : HostBegin(ok)
  BY <1>3, <1>10 DEF HostBegin, Handling, MayTalk
<1> QED BY <1>6, <1>7, <1>8, <1>9, <1>10 DEF HostStep

(* What is on the way and the Mac's talk follow the press throughout.        *)
THEOREM MacFollows == Spec => []Mac
<1>1. Init => Mac
  BY NothingIsSilent, SilentIsBoth
     DEF Init, Button!Init, Mac, Unannounced, Announced
<1>2. Inv /\ Mac /\ [Next]_vars => Mac'
  <2> SUFFICES ASSUME Inv, Mac, [Next]_vars PROVE Mac'
    OBVIOUS
  <2>1. CASE UNCHANGED vars
    BY <2>1, QuietKeepsMac DEF vars, button, device, host, Disturbed, Unannounced, Announced
  <2> QED BY <2>1, ButtonKeepsMac, LinkKeepsMac, TapKeepsMac, HostKeepsMac DEF Next
<1> QED BY <1>1, <1>2, Invariance, PTL DEF Spec

(* Once the Mac has handled what the device sent, it does not listen on      *)
(* after the release, but for the ways the code lets it                      *)
(* (MacClientCoordinator.swift, receive, pttBegin and pttEnd).            *)
THEOREM HostTalkEnds == Spec => []HostTalkEndsWithPress
<1>1. Mac => HostTalkEndsWithPress
  BY DEF Mac, HostTalkEndsWithPress, Disturbed, Unannounced, Announced, Settled, EndComes
<1> QED BY <1>1, MacFollows, PTL

-----------------------------------------------------------------------------
(* Every step of the two tasks and of the Mac is a step of each part, or     *)
(* leaves it alone.                                                          *)
LEMMA PartsStep ==
  ASSUME TypeOK, [Next]_vars
  PROVE  /\ [Button!Next]_(Button!vars)
         /\ [Capture!Next]_(Capture!vars)
         /\ [Companion!Next]_(Companion!vars)
<1> USE DEF button, device, host, Button!vars, Capture!vars, Companion!vars
<1>1. CASE ButtonStep
  <2>1. [Button!Next]_(Button!vars)
    <3>1. CASE Edge \/ Tick
      BY <3>1 DEF Edge, Tick, Button!Next
    <3>2. CASE ~(Edge \/ Tick)
      BY <1>1, <3>2 DEF ButtonStep, Sample, DroppedEdge, NothingToDo, PreRollBegin, PreRollDiscard,
         TalkBegin, BeginSent, BeginUnsent, Commit, Flag, TalkEnd, EndSent, EndUnsent, Unflag
    <3> QED BY <3>1, <3>2
  <2>2. [Capture!Next]_(Capture!vars)
    <3>1. CASE capture' = "IDLE"
      BY <3>1 DEF Capture!Next, Capture!Halt
    <3>2. CASE capture = "IDLE" /\ capture' = "PRE_ROLL"
      BY <3>2 DEF Capture!Next, Capture!Prepare
    <3>3. CASE capture = "PRE_ROLL" /\ capture' = "STREAMING"
      BY <3>3 DEF Capture!Next, Capture!Commit
    <3>4. \/ capture' = capture
          \/ capture' = "IDLE"
          \/ capture = "IDLE" /\ capture' = "PRE_ROLL"
          \/ capture = "PRE_ROLL" /\ capture' = "STREAMING"
      BY <1>1 DEF ButtonStep, Edge, Tick, Sample, DroppedEdge, NothingToDo, PreRollBegin, PreRollDiscard,
         TalkBegin, BeginSent, BeginUnsent, Commit, Flag, TalkEnd, EndSent, EndUnsent, Unflag
    <3> QED BY <3>1, <3>2, <3>3, <3>4
  <2>3. UNCHANGED Companion!vars
    BY <1>1 DEF ButtonStep, Edge, Tick, Sample, DroppedEdge, NothingToDo, PreRollBegin, PreRollDiscard,
         TalkBegin, BeginSent, BeginUnsent, Commit, Flag, TalkEnd, EndSent, EndUnsent, Unflag
  <2> QED BY <2>1, <2>2, <2>3
<1>2. CASE LinkStep
  <2>1. UNCHANGED Button!vars /\ UNCHANGED Capture!vars
    BY <1>2 DEF LinkStep, Snapshot, Delta, SelectResult, Connect, Disconnect, Unsubscribed,
         Subscribed
  <2>2. CASE Disconnect \/ Unsubscribed \/ Subscribed
    <3>1. Companion!Over
      BY <2>2 DEF Disconnect, Unsubscribed, Subscribed, HostReset, HostReady, Companion!Over
    <3> QED BY <2>1, <3>1 DEF Companion!Next
  <2>3. CASE ~(Disconnect \/ Unsubscribed \/ Subscribed)
    BY <1>2, <2>1, <2>3 DEF LinkStep, Snapshot, Delta, SelectResult, Connect
  <2> QED BY <2>2, <2>3
<1>3. CASE \E key \in Sessions : TapCard(key)
  BY <1>3 DEF TapCard
<1>4. CASE HostStep
  <2>1. UNCHANGED Button!vars /\ UNCHANGED Capture!vars
    BY <1>4 DEF HostStep, HostSelect, HostFocused, HostBegin, HostEnd, HostAborts, HostEnded
  <2>2. CASE HostSelect \/ \E ok \in BOOLEAN : HostFocused(ok)
    BY <2>1, <2>2 DEF HostSelect, HostFocused
  <2>3. CASE \E ok \in BOOLEAN : HostBegin(ok)
    <3>1. UNCHANGED Companion!vars \/ Companion!Begin
      BY <2>3 DEF HostBegin, MayTalk, Companion!Begin
    <3> QED BY <2>1, <3>1 DEF Companion!Next
  <2>4. CASE HostEnd
    <3>1. ending \in BOOLEAN
      BY DEF TypeOK
    <3>2. UNCHANGED Companion!vars \/ Companion!End
      BY <2>4, <3>1 DEF HostEnd, MayEnd, Companion!End
    <3> QED BY <2>1, <3>2 DEF Companion!Next
  <2>5. CASE HostAborts \/ HostEnded
    <3>1. Companion!Over
      BY <2>5 DEF HostAborts, HostEnded, Companion!Over
    <3> QED BY <2>1, <3>1 DEF Companion!Next
  <2> QED BY <1>4, <2>2, <2>3, <2>4, <2>5 DEF HostStep
<1>5. CASE UNCHANGED vars
  BY <1>5 DEF vars
<1> QED BY <1>1, <1>2, <1>3, <1>4, <1>5 DEF Next

(* execute_input_action and the Mac use the button, the capture and the talk *)
(* only as ButtonInput, AudioCapture and CompanionSpeech promise them.       *)
THEOREM PartsArePromised == Spec => PartsKeepPromises
<1>1. Init => Button!Init /\ Capture!Init /\ Companion!Init
  BY DEF Init, Capture!Init, Companion!Init
<1> QED BY <1>1, PartsStep, TypeCorrect, PTL
     DEF Spec, PartsKeepPromises, Button!Spec, Capture!Spec, Companion!Spec

================================================================================
