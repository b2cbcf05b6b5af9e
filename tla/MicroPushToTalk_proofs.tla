------------------------ MODULE MicroPushToTalk_proofs ------------------------
(***************************************************************************)
(* The safety properties of MicroPushToTalk for any number of messages on  *)
(* the way.  The invariant ties the two paths to one another: which flags  *)
(* are set at which place of execute_input_action, and what of a press the *)
(* companion has still to hear.                                            *)
(***************************************************************************)
EXTENDS MicroPushToTalk, SequenceTheorems, TLAPS

USE DEF Released

(* What the place in execute_input_action says about the gesture. *)
Place ==
  /\ pc = "edge_action" =>
       /\ out # "PTT_BEGIN"
       /\ out = "PRE_ROLL_BEGIN" => phase = "held"
       /\ out \in {"PRE_ROLL_DISCARD", "PTT_END"} => phase = "up"
  /\ pc = "tick_action" =>
       /\ out \in {"PTT_BEGIN", "ENTER", "NONE"}
       /\ out = "PTT_BEGIN" => phase = "talking"
  /\ pc \in {"begin", "commit", "flag"} => phase = "talking" /\ audio_prepared
  /\ pc \in {"end", "unflag"} => phase = "up" /\ capture = "IDLE"

Pending(action) == pc = "edge_action" /\ out = action

Beginning ==
  \/ pc \in {"begin", "commit", "flag"}
  \/ pc = "tick_action" /\ out = "PTT_BEGIN"

(* A pre-roll that is prepared is in the ring, and no talk follows it yet; an *)
(* enhanced talk lasts from its begin to the release; the key of the HID path *)
(* excludes both.                                                             *)
Paths ==
  /\ audio_prepared =>
       /\ pc # "flag" => capture = "PRE_ROLL"
       /\ ~Pending("PTT_END") /\ pc \notin {"end", "unflag"}
       /\ phase = "talking" => Beginning
  /\ enhanced_ptt_active =>
       /\ ~audio_prepared /\ ~Beginning
       /\ phase = "talking" \/ Pending("PTT_END") \/ pc \in {"end", "unflag"}
  /\ micro_button_ptt_active => ~audio_prepared /\ ~enhanced_ptt_active
  /\ pc = "edge" /\ phase = "up" /\ allowed => ~micro_button_ptt_active
  /\ Pending("PRE_ROLL_BEGIN") => ~micro_button_ptt_active

(* The press is under way as far as the capture goes, or its release is still *)
(* to be carried out.                                                         *)
Engaged ==
  \/ phase \in {"held", "talking"} /\ ~Pending("PRE_ROLL_BEGIN")
  \/ Pending("PRE_ROLL_DISCARD")
  \/ Pending("PTT_END")

(* While the microphone is on, the release will take the enhanced path. *)
Microphone ==
  capture # "IDLE" =>
    \/ "double" \in upset
    \/ "captured" \in upset
    \/ Engaged /\ (audio_prepared \/ enhanced_ptt_active)

(* While the key is down, the release will take the HID path. *)
KeyHeld ==
  key_down \/ micro_button_ptt_active =>
    \/ "came" \in upset
    \/ "unsent" \in upset
    \/ "key" \in upset
    \/ /\ phase = "talking" \/ Pending("PTT_END")
       /\ micro_button_ptt_active /\ link # "ready"

Unheard == wire = <<>> /\ ~host_talk            \* nothing of this press was sent

Opened == wire = <<>> \/ wire = <<"BEGIN">>      \* its PTT_BEGIN may have been

Closed ==                                        \* so was its PTT_END
  \/ wire = <<>> /\ (host_talk => ending)
  \/ wire = <<"END">>
  \/ wire = <<"BEGIN", "END">>

InTalk == pc \in {"commit", "flag", "end"} \/ (enhanced_ptt_active /\ pc # "unflag")

InPress == phase \in {"held", "talking"} \/ Pending("PTT_END")

(* The companion went during the press and has not come back. *)
Away == link # "ready" /\ "went" \in upset

(* What the companion has still to hear. *)
Heard ==
  "unsent" \notin upset /\ "busy" \notin upset /\ ~Away =>
    /\ pc = "edge" /\ phase = "up" => Unheard
    /\ InTalk => Opened
    /\ InPress /\ ~InTalk => Unheard
    /\ ~InTalk /\ ~InPress => Closed

Inv == TypeOK /\ Place /\ Paths /\ Microphone /\ KeyHeld /\ Heard

-----------------------------------------------------------------------------
LEMMA GestureTypes ==
  ASSUME TypeOK, [Button!Next]_<<phase, click, out>>
  PROVE  phase' \in Button!Phases /\ click' \in BOOLEAN /\ out' \in Button!Actions
BY DEF TypeOK, Button!Next, Button!Phases, Button!Actions, Button!WakePress,
       Button!LockedPress, Button!HeldPress, Button!ConsumedRelease, Button!TalkRelease,
       Button!ShortRelease, Button!SecondClick, Button!Hold, Button!WindowCloses,
       Button!Quiet

LEMMA SentTypes ==
  ASSUME TypeOK, NEW message \in {"BEGIN", "END"}, Sent(message)
  PROVE  wire' \in Seq({"BEGIN", "END"}) /\ Len(wire') <= MaxWire
BY MaxWireAssumption DEF TypeOK, Sent

LEMMA HandlingTypes ==
  ASSUME TypeOK, NEW message, Handling(message)
  PROVE  wire' \in Seq({"BEGIN", "END"}) /\ Len(wire') <= MaxWire
<1>1. wire \in Seq({"BEGIN", "END"}) /\ wire # <<>> /\ wire' = Tail(wire)
  BY DEF TypeOK, Handling
<1>2. Tail(wire) \in Seq({"BEGIN", "END"}) /\ Len(Tail(wire)) = Len(wire) - 1
  BY <1>1
<1> QED BY <1>1, <1>2, MaxWireAssumption DEF TypeOK

LEMMA EmptyTypes == <<>> \in Seq({"BEGIN", "END"}) /\ Len(<<>>) <= MaxWire
BY MaxWireAssumption

(* How the few messages of one press move along the wire. *)
LEMMA WireSteps ==
  /\ Append(<<>>, "BEGIN") = <<"BEGIN">>
  /\ Append(<<>>, "END") = <<"END">>
  /\ Append(<<"BEGIN">>, "END") = <<"BEGIN", "END">>
  /\ Head(<<"BEGIN">>) = "BEGIN" /\ Tail(<<"BEGIN">>) = <<>>
  /\ Head(<<"END">>) = "END" /\ Tail(<<"END">>) = <<>>
  /\ Head(<<"BEGIN", "END">>) = "BEGIN" /\ Tail(<<"BEGIN", "END">>) = <<"END">>
  /\ <<"BEGIN">> # <<>> /\ <<"END">> # <<>> /\ <<"BEGIN">> # <<"END">>
<1>1. Append(<<>>, "BEGIN") = <<"BEGIN">>
  OBVIOUS
<1>2. Append(<<>>, "END") = <<"END">>
  OBVIOUS
<1>3. Append(<<"BEGIN">>, "END") = <<"BEGIN", "END">>
  <2> DEFINE s == Append(<<"BEGIN">>, "END")
             t == <<"BEGIN", "END">>
  <2>1. s \in Seq({"BEGIN", "END"}) /\ t \in Seq({"BEGIN", "END"})
    OBVIOUS
  <2>2. Len(s) = 2 /\ Len(t) = 2
    OBVIOUS
  <2>3. s[1] = t[1] /\ s[2] = t[2]
    OBVIOUS
  <2>4. \A i \in 1..2 : s[i] = t[i]
    BY <2>3
  <2> HIDE DEF s, t
  <2>5. s = t
    BY <2>1, <2>2, <2>4, SeqEqual
  <2> QED BY <2>5 DEF s, t
<1>4. Head(<<"BEGIN">>) = "BEGIN" /\ Tail(<<"BEGIN">>) = <<>>
  OBVIOUS
<1>5. Head(<<"END">>) = "END" /\ Tail(<<"END">>) = <<>>
  OBVIOUS
<1>6. Head(<<"BEGIN", "END">>) = "BEGIN" /\ Tail(<<"BEGIN", "END">>) = <<"END">>
  OBVIOUS
<1>7. <<"BEGIN">> # <<>> /\ <<"END">> # <<>> /\ <<"BEGIN">> # <<"END">>
  OBVIOUS
<1> QED BY <1>1, <1>2, <1>3, <1>4, <1>5, <1>6, <1>7

LEMMA InitTypes == Init => TypeOK
<1> SUFFICES ASSUME Init PROVE TypeOK
  OBVIOUS
<1>1. phase \in Button!Phases /\ click \in BOOLEAN /\ out \in Button!Actions
  BY DEF Init, Button!Init, Button!Phases, Button!Actions
<1> QED BY <1>1, EmptyTypes DEF Init, Companion!Init, TypeOK

LEMMA ButtonTypes == ASSUME TypeOK, Paths, Place, ButtonStep PROVE TypeOK'
<1> USE DEF flags, host, Pending, Beginning
<1>1. CASE \E edge \in BOOLEAN : Sample(edge)
  <2>1. Found \subseteq Incidents
    BY DEF Found, Incidents
  <2>2. upset' \subseteq Incidents /\ pc' \in {"edge", "tick"} /\ allowed' \in BOOLEAN
    BY <1>1, <2>1 DEF Sample, Unlocked, TypeOK
  <2> QED BY <1>1, <2>2 DEF Sample, TypeOK
<1>2. CASE Edge
  <2>1. Button!Next
    BY <1>2 DEF Edge, Button!Next
  <2> QED BY <1>2, <2>1, GestureTypes DEF Edge, TypeOK, Incidents
<1>3. CASE DroppedEdge
  BY <1>3 DEF DroppedEdge, TypeOK, Paths, Place, Incidents
<1>4. CASE Tick
  <2>1. Button!Next
    BY <1>4 DEF Tick, Button!Next
  <2> QED BY <1>4, <2>1, GestureTypes DEF Tick, TypeOK, Incidents
<1>5. CASE NothingToDo
  BY <1>5 DEF NothingToDo, EnhancedPath, AfterAction, TypeOK, Paths, Place, Incidents
<1>6. CASE \E ok \in BOOLEAN : PreRollBegin(ok)
  BY <1>6 DEF PreRollBegin, Dispatching, EnhancedPath, AfterAction, TypeOK, Paths,
       Place, Incidents
<1>7. CASE \E ok \in BOOLEAN : KeyDown(ok)
  BY <1>7 DEF KeyDown, Dispatching, EnhancedPath, AfterAction, TypeOK, Paths, Place,
       Incidents
<1>8. CASE \E ok \in BOOLEAN : KeyUp(ok)
  <2>1. pc' \in {"tick", "sample"} /\ upset' \subseteq Incidents /\ key_down' \in BOOLEAN
    BY <1>8 DEF KeyUp, AfterAction, TypeOK, Incidents
  <2>2. micro_button_ptt_active' \in BOOLEAN
    BY <1>8 DEF KeyUp
  <2> QED BY <1>8, <2>1, <2>2 DEF KeyUp, TypeOK
<1>9. CASE PreRollDiscard
  BY <1>9, ZenonT(60)
     DEF PreRollDiscard, GiveUp, Dispatching, EnhancedPath, AfterAction, TypeOK, Paths, Place,
         Incidents
<1>10. CASE TalkBegin
  BY <1>10, ZenonT(60)
     DEF TalkBegin, GiveUp, Dispatching, EnhancedPath, TypeOK, Paths, Place, Incidents
<1>11. CASE BeginSent
  BY <1>11, SentTypes DEF BeginSent, TypeOK
<1>12. CASE BeginUnsent
  BY <1>12 DEF BeginUnsent, GiveUp, TypeOK, Paths, Place, Incidents
<1>13. CASE Commit
  <2>1. wire' \in Seq({"BEGIN", "END"}) /\ Len(wire') <= MaxWire
    BY <1>13, SentTypes DEF Commit, TypeOK
  <2>2. /\ pc' \in {"sample", "flag"} /\ capture' \in {"IDLE", "STREAMING"}
        /\ audio_prepared' \in BOOLEAN
        /\ enhanced_ptt_active' => ~audio_prepared'
    BY <1>13 DEF Commit, GiveUp, TypeOK
  <2>3. UNCHANGED <<phase, click, out, allowed, ptt_active, enhanced_ptt_active,
                    micro_button_ptt_active, link, host_talk, ending, key_down, upset>>
    BY <1>13 DEF Commit, GiveUp
  <2>4. /\ allowed' \in BOOLEAN /\ ptt_active' \in BOOLEAN /\ enhanced_ptt_active' \in BOOLEAN
        /\ micro_button_ptt_active' \in BOOLEAN /\ key_down' \in BOOLEAN
        /\ host_talk' \in BOOLEAN /\ ending' \in BOOLEAN /\ click' \in BOOLEAN
    BY <2>3 DEF TypeOK
  <2>5. /\ phase' \in Button!Phases /\ out' \in Button!Actions
        /\ link' \in {"down", "hid", "ready"} /\ upset' \subseteq Incidents
    BY <2>3 DEF TypeOK
  <2> QED BY <2>1, <2>2, <2>4, <2>5 DEF TypeOK
<1>14. CASE Flag
  BY <1>14 DEF Flag, TypeOK, Paths, Place, Incidents
<1>15. CASE TalkEnd
  BY <1>15 DEF TalkEnd, Dispatching, EnhancedPath, TypeOK, Paths, Place, Incidents
<1>16. CASE EndSent
  BY <1>16, SentTypes DEF EndSent, TypeOK
<1>17. CASE EndUnsent
  BY <1>17 DEF EndUnsent, TypeOK, Paths, Place, Incidents
<1>18. CASE Unflag
  BY <1>18 DEF Unflag, TypeOK, Paths, Place, Incidents
<1> QED BY <1>1, <1>2, <1>3, <1>4, <1>5, <1>6, <1>7, <1>8, <1>9, <1>10, <1>11, <1>12,
     <1>13, <1>14, <1>15, <1>16, <1>17, <1>18 DEF ButtonStep

LEMMA CompanionTypes ==
  ASSUME TypeOK, Companion!Begin \/ Companion!End \/ Companion!Over \/ UNCHANGED host
  PROVE  host_talk' \in BOOLEAN /\ ending' \in BOOLEAN
BY DEF TypeOK, host, Companion!Begin, Companion!End, Companion!Over

LEMMA OtherTypes == ASSUME TypeOK, LinkStep \/ HostStep PROVE TypeOK'
<1> USE DEF LinkStep, Connect, CompanionCame, CompanionWent, TalkDropped, Disconnect,
        HostStep, HostBegin, HostEnd, HostOver, Handling
<1>1. wire' \in Seq({"BEGIN", "END"}) /\ Len(wire') <= MaxWire
  <2>1. CASE wire' = wire
    BY <2>1 DEF TypeOK
  <2>2. CASE \E n \in 0..Len(wire) : wire' = SubSeq(wire, 1, n)
    <3>1. PICK n \in 0..Len(wire) : wire' = SubSeq(wire, 1, n)
      BY <2>2
    <3>2. SubSeq(wire, 1, n) \in Seq({"BEGIN", "END"}) /\ Len(SubSeq(wire, 1, n)) = n
      BY DEF TypeOK
    <3> QED BY <3>1, <3>2, MaxWireAssumption DEF TypeOK
  <2>3. CASE \E message : Handling(message)
    BY <2>3, HandlingTypes
  <2> QED BY <2>1, <2>2, <2>3
<1>2. host_talk' \in BOOLEAN /\ ending' \in BOOLEAN
  BY CompanionTypes DEF host, Companion!Over
<1>3. /\ UNCHANGED <<phase, click, out, pc, allowed, enhanced_ptt_active,
                     micro_button_ptt_active, audio_prepared, capture>>
      /\ ptt_active' \in {ptt_active, FALSE} /\ key_down' \in {key_down, FALSE}
      /\ link' \in {"down", "hid", "ready"}
      /\ upset' \subseteq upset \union {"came", "went"}
  BY DEF button, flags, TypeOK
<1>4. /\ phase' \in Button!Phases /\ click' \in BOOLEAN /\ out' \in Button!Actions
      /\ pc' \in {"sample", "edge", "edge_action", "tick", "tick_action",
                  "begin", "commit", "flag", "end", "unflag"}
      /\ allowed' \in BOOLEAN
  BY <1>3 DEF TypeOK
<1>5. /\ ptt_active' \in BOOLEAN /\ enhanced_ptt_active' \in BOOLEAN
      /\ micro_button_ptt_active' \in BOOLEAN /\ audio_prepared' \in BOOLEAN
      /\ key_down' \in BOOLEAN
  BY <1>3 DEF TypeOK
<1>6. /\ capture' \in {"IDLE", "PRE_ROLL", "STREAMING"}
      /\ upset' \subseteq Incidents
      /\ enhanced_ptt_active' => ~audio_prepared'
  BY <1>3 DEF TypeOK, Incidents
<1> QED BY <1>1, <1>2, <1>3, <1>4, <1>5, <1>6 DEF TypeOK

-----------------------------------------------------------------------------
(* The parts of the invariant beside the types, under each step of           *)
(* button_task.                                                              *)
Kept == Place /\ Paths /\ Microphone /\ KeyHeld /\ Heard

LEMMA ButtonKeeps == ASSUME Inv, ButtonStep PROVE Kept'
<1> USE DEF Inv, TypeOK, Place, flags, host, connected, Engaged, Beginning, Pending
<1>1. CASE \E edge \in BOOLEAN : Sample(edge)
  <2>1. Place'
    BY <1>1 DEF Sample, Found
  <2>2. Paths'
    <3>1. /\ pc = "sample" /\ pc' \in {"edge", "tick"}
          /\ allowed' => ~micro_button_ptt_active
          /\ UNCHANGED <<phase, out, flags, capture>>
      BY <1>1 DEF Sample, Unlocked
    <3> QED BY <3>1 DEF Paths
  <2>3. Microphone'
    BY <1>1 DEF Paths, Microphone, Sample, Found
  <2>4. KeyHeld'
    BY <1>1 DEF Paths, KeyHeld, Sample, Found
  <2>5. Heard'
    BY <1>1 DEF Paths, Heard, Away, InTalk, InPress, Unheard, Opened, Closed, Sample, Found
  <2> QED BY <2>1, <2>2, <2>3, <2>4, <2>5 DEF Kept
<1>2. CASE Edge
  <2>1. /\ pc = "edge" /\ pc' = "edge_action" /\ upset \subseteq upset'
        /\ upset' \subseteq upset \union {"double"}
        /\ allowed' = allowed /\ UNCHANGED <<flags, capture, link, wire, host, key_down>>
    BY <1>2 DEF Edge
  <2>2. \/ phase = "up" /\ phase' = "consumed" /\ out' \in {"WAKE", "NONE"}
        \/ phase = "up" /\ allowed /\ phase' = "held" /\ out' = "PRE_ROLL_BEGIN"
        \/ phase = "consumed" /\ phase' = "up" /\ out' = "NONE"
        \/ phase = "talking" /\ phase' = "up" /\ out' = "PTT_END"
        \/ phase = "held" /\ phase' = "up" /\ out' = "PRE_ROLL_DISCARD"
        \/ phase = "held" /\ phase' = "up" /\ out' = "ESCAPE" /\ "double" \in upset'
    BY <1>2 DEF Edge, Button!WakePress, Button!LockedPress, Button!HeldPress,
         Button!ConsumedRelease, Button!TalkRelease, Button!ShortRelease, Button!SecondClick
  <2>3. Place'
    BY <2>1, <2>2
  <2>4. Paths'
    BY <2>1, <2>2 DEF Paths
  <2>5. Microphone'
    BY <2>1, <2>2 DEF Paths, Microphone
  <2>6. KeyHeld'
    BY <2>1, <2>2 DEF Paths, KeyHeld
  <2>7. Heard'
    BY <2>1, <2>2 DEF Paths, Heard, Away, InTalk, InPress, Unheard, Opened, Closed
  <2> QED BY <2>3, <2>4, <2>5, <2>6, <2>7 DEF Kept
<1>3. CASE DroppedEdge
  <2>1. Place'
    BY <1>3 DEF DroppedEdge
  <2>2. Paths'
    BY <1>3 DEF Paths, DroppedEdge
  <2>3. Microphone'
    BY <1>3 DEF Paths, Microphone, DroppedEdge
  <2>4. KeyHeld'
    BY <1>3 DEF Paths, KeyHeld, DroppedEdge
  <2>5. Heard'
    BY <1>3 DEF Paths, Heard, Away, InTalk, InPress, Unheard, Opened, Closed, DroppedEdge
  <2> QED BY <2>1, <2>2, <2>3, <2>4, <2>5 DEF Kept
<1>4. CASE Tick
  <2>1. /\ pc = "tick" /\ pc' = "tick_action" /\ upset' = upset
        /\ allowed' = allowed /\ UNCHANGED <<flags, capture, link, wire, host, key_down>>
    BY <1>4 DEF Tick
  <2>2. \/ phase = "held" /\ phase' = "talking" /\ out' = "PTT_BEGIN"
        \/ phase = "up" /\ phase' = "up" /\ out' \in {"ENTER", "NONE"}
        \/ phase' = phase /\ out' = "NONE"
    BY <1>4 DEF Tick, Button!Hold, Button!WindowCloses, Button!Quiet
  <2>3. Place'
    BY <2>1, <2>2
  <2>4. Paths'
    BY <2>1, <2>2 DEF Paths
  <2>5. Microphone'
    BY <2>1, <2>2 DEF Paths, Microphone
  <2>6. KeyHeld'
    BY <2>1, <2>2 DEF Paths, KeyHeld
  <2>7. Heard'
    BY <2>1, <2>2 DEF Paths, Heard, Away, InTalk, InPress, Unheard, Opened, Closed
  <2> QED BY <2>3, <2>4, <2>5, <2>6, <2>7 DEF Kept
<1>5. CASE NothingToDo
  <2>1. Place'
    BY <1>5 DEF NothingToDo, EnhancedPath, AfterAction
  <2>2. Paths'
    BY <1>5 DEF Paths, NothingToDo, EnhancedPath, AfterAction
  <2>3. Microphone'
    BY <1>5 DEF Paths, Microphone, NothingToDo, EnhancedPath, AfterAction
  <2>4. KeyHeld'
    BY <1>5 DEF Paths, KeyHeld, NothingToDo, EnhancedPath, AfterAction
  <2>5. Heard'
    BY <1>5 DEF Paths, Heard, Away, InTalk, InPress, Unheard, Opened, Closed, NothingToDo,
         EnhancedPath, AfterAction
  <2> QED BY <2>1, <2>2, <2>3, <2>4, <2>5 DEF Kept
<1>6. CASE \E ok \in BOOLEAN : PreRollBegin(ok)
  <2>1. Place'
    BY <1>6 DEF PreRollBegin, Dispatching, EnhancedPath, AfterAction
  <2>2. Paths'
    BY <1>6 DEF Paths, PreRollBegin, Dispatching, EnhancedPath, AfterAction
  <2>3. Microphone'
    BY <1>6 DEF Paths, Microphone, PreRollBegin, Dispatching, EnhancedPath,
         AfterAction
  <2>4. KeyHeld'
    BY <1>6 DEF Paths, KeyHeld, PreRollBegin, Dispatching, EnhancedPath, AfterAction
  <2>5. Heard'
    BY <1>6 DEF Paths, Heard, Away, InTalk, InPress, Unheard, Opened, Closed, PreRollBegin,
         Dispatching, EnhancedPath, AfterAction
  <2> QED BY <2>1, <2>2, <2>3, <2>4, <2>5 DEF Kept
<1>7. CASE \E ok \in BOOLEAN : KeyDown(ok)
  <2>1. Place'
    BY <1>7 DEF KeyDown, Dispatching, EnhancedPath, AfterAction
  <2>2. Paths'
    BY <1>7 DEF Paths, KeyDown, Dispatching, EnhancedPath, AfterAction
  <2>3. Microphone'
    BY <1>7 DEF Paths, Microphone, KeyDown, Dispatching, EnhancedPath, AfterAction
  <2>4. KeyHeld'
    BY <1>7 DEF Paths, KeyHeld, KeyDown, Dispatching, EnhancedPath, AfterAction
  <2>5. Heard'
    BY <1>7 DEF Paths, Heard, Away, InTalk, InPress, Unheard, Opened, Closed, KeyDown,
         Dispatching, EnhancedPath, AfterAction
  <2> QED BY <2>1, <2>2, <2>3, <2>4, <2>5 DEF Kept
<1>8. CASE \E ok \in BOOLEAN : KeyUp(ok)
  <2>1. Place'
    BY <1>8 DEF KeyUp, Dispatching, EnhancedPath, AfterAction
  <2>2. Paths'
    BY <1>8 DEF Paths, KeyUp, Dispatching, EnhancedPath, AfterAction
  <2>3. Microphone'
    BY <1>8 DEF Paths, Microphone, KeyUp, Dispatching, EnhancedPath, AfterAction
  <2>4. KeyHeld'
    BY <1>8 DEF Paths, KeyHeld, KeyUp, Dispatching, EnhancedPath, AfterAction
  <2>5. Heard'
    BY <1>8 DEF Paths, Heard, Away, InTalk, InPress, Unheard, Opened, Closed, KeyUp,
         Dispatching, EnhancedPath, AfterAction
  <2> QED BY <2>1, <2>2, <2>3, <2>4, <2>5 DEF Kept
<1>9. CASE PreRollDiscard
  <2>1. Place'
    BY <1>9 DEF PreRollDiscard, GiveUp, Dispatching, EnhancedPath, AfterAction
  <2>2. Paths'
    BY <1>9 DEF Paths, PreRollDiscard, GiveUp, Dispatching, EnhancedPath, AfterAction
  <2>3. Microphone'
    BY <1>9 DEF Paths, Microphone, PreRollDiscard, GiveUp, Dispatching, EnhancedPath,
         AfterAction
  <2>4. KeyHeld'
    BY <1>9 DEF Paths, KeyHeld, PreRollDiscard, GiveUp, Dispatching, EnhancedPath,
         AfterAction
  <2>5. Heard'
    BY <1>9 DEF Paths, Heard, Away, InTalk, InPress, Unheard, Opened, Closed,
         PreRollDiscard, GiveUp, Dispatching, EnhancedPath, AfterAction
  <2> QED BY <2>1, <2>2, <2>3, <2>4, <2>5 DEF Kept
<1>10. CASE TalkBegin
  <2>1. Place'
    BY <1>10 DEF TalkBegin, GiveUp, Dispatching, EnhancedPath
  <2>2. Paths'
    BY <1>10 DEF Paths, TalkBegin, GiveUp, Dispatching, EnhancedPath
  <2>3. Microphone'
    BY <1>10 DEF Paths, Microphone, TalkBegin, GiveUp, Dispatching, EnhancedPath
  <2>4. KeyHeld'
    BY <1>10 DEF Paths, KeyHeld, TalkBegin, GiveUp, Dispatching, EnhancedPath
  <2>5. Heard'
    BY <1>10 DEF Paths, Heard, Away, InTalk, InPress, Unheard, Opened, Closed, TalkBegin,
         GiveUp, Dispatching, EnhancedPath
  <2> QED BY <2>1, <2>2, <2>3, <2>4, <2>5 DEF Kept
<1>11. CASE BeginSent
  <2>1. Place'
    BY <1>11 DEF BeginSent
  <2>2. Paths'
    BY <1>11 DEF Paths, BeginSent
  <2>3. Microphone'
    BY <1>11 DEF Paths, Microphone, BeginSent
  <2>4. KeyHeld'
    BY <1>11 DEF Paths, KeyHeld, BeginSent
  <2>5. Heard'
    BY <1>11, WireSteps DEF Paths, Heard, Away, InTalk, InPress, Unheard, Opened, Closed,
         BeginSent, Sent
  <2> QED BY <2>1, <2>2, <2>3, <2>4, <2>5 DEF Kept
<1>12. CASE BeginUnsent
  <2>1. Place'
    BY <1>12 DEF BeginUnsent, GiveUp
  <2>2. Paths'
    BY <1>12 DEF Paths, BeginUnsent, GiveUp
  <2>3. Microphone'
    BY <1>12 DEF Paths, Microphone, BeginUnsent, GiveUp
  <2>4. KeyHeld'
    BY <1>12 DEF Paths, KeyHeld, BeginUnsent, GiveUp
  <2>5. Heard'
    BY <1>12 DEF Paths, Heard, Away, InTalk, InPress, Unheard, Opened, Closed, BeginUnsent,
         GiveUp
  <2> QED BY <2>1, <2>2, <2>3, <2>4, <2>5 DEF Kept
<1>13. CASE Commit
  <2>1. Place'
    BY <1>13 DEF Commit, GiveUp
  <2>2. Paths'
    BY <1>13 DEF Paths, Commit, GiveUp
  <2>3. Microphone'
    BY <1>13 DEF Paths, Microphone, Commit, GiveUp
  <2>4. KeyHeld'
    BY <1>13 DEF Paths, KeyHeld, Commit, GiveUp
  <2>5. Heard'
    BY <1>13, WireSteps DEF Paths, Heard, Away, InTalk, InPress, Unheard, Opened, Closed,
         Commit, GiveUp, Sent
  <2> QED BY <2>1, <2>2, <2>3, <2>4, <2>5 DEF Kept
<1>14. CASE Flag
  <2>1. Place'
    BY <1>14 DEF Flag
  <2>2. Paths'
    BY <1>14 DEF Paths, Flag
  <2>3. Microphone'
    BY <1>14 DEF Paths, Microphone, Flag
  <2>4. KeyHeld'
    BY <1>14 DEF Paths, KeyHeld, Flag
  <2>5. Heard'
    BY <1>14 DEF Paths, Heard, Away, InTalk, InPress, Unheard, Opened, Closed, Flag
  <2> QED BY <2>1, <2>2, <2>3, <2>4, <2>5 DEF Kept
<1>15. CASE TalkEnd
  <2>1. Place'
    BY <1>15 DEF TalkEnd, Dispatching, EnhancedPath
  <2>2. Paths'
    BY <1>15 DEF Paths, TalkEnd, Dispatching, EnhancedPath
  <2>3. Microphone'
    BY <1>15 DEF Paths, Microphone, TalkEnd, Dispatching, EnhancedPath
  <2>4. KeyHeld'
    BY <1>15 DEF Paths, KeyHeld, TalkEnd, Dispatching, EnhancedPath
  <2>5. Heard'
    BY <1>15 DEF Paths, Heard, Away, InTalk, InPress, Unheard, Opened, Closed, TalkEnd,
         Dispatching, EnhancedPath
  <2> QED BY <2>1, <2>2, <2>3, <2>4, <2>5 DEF Kept
<1>16. CASE EndSent
  <2>1. Place'
    BY <1>16 DEF EndSent
  <2>2. Paths'
    BY <1>16 DEF Paths, EndSent
  <2>3. Microphone'
    BY <1>16 DEF Paths, Microphone, EndSent
  <2>4. KeyHeld'
    BY <1>16 DEF Paths, KeyHeld, EndSent
  <2>5. Heard'
    BY <1>16, WireSteps DEF Paths, Heard, Away, InTalk, InPress, Unheard, Opened, Closed,
         EndSent, Sent
  <2> QED BY <2>1, <2>2, <2>3, <2>4, <2>5 DEF Kept
<1>17. CASE EndUnsent
  <2>1. Place'
    BY <1>17 DEF EndUnsent
  <2>2. Paths'
    BY <1>17 DEF Paths, EndUnsent
  <2>3. Microphone'
    BY <1>17 DEF Paths, Microphone, EndUnsent
  <2>4. KeyHeld'
    BY <1>17 DEF Paths, KeyHeld, EndUnsent
  <2>5. Heard'
    BY <1>17 DEF Paths, Heard, Away, InTalk, InPress, Unheard, Opened, Closed, EndUnsent
  <2> QED BY <2>1, <2>2, <2>3, <2>4, <2>5 DEF Kept
<1>18. CASE Unflag
  <2>1. Place'
    BY <1>18 DEF Unflag
  <2>2. Paths'
    BY <1>18 DEF Paths, Unflag
  <2>3. Microphone'
    BY <1>18 DEF Paths, Microphone, Unflag
  <2>4. KeyHeld'
    BY <1>18 DEF Paths, KeyHeld, Unflag
  <2>5. Heard'
    BY <1>18 DEF Paths, Heard, Away, InTalk, InPress, Unheard, Opened, Closed, Unflag
  <2> QED BY <2>1, <2>2, <2>3, <2>4, <2>5 DEF Kept
<1> QED BY <1>1, <1>2, <1>3, <1>4, <1>5, <1>6, <1>7, <1>8, <1>9, <1>10, <1>11, <1>12,
     <1>13, <1>14, <1>15, <1>16, <1>17, <1>18 DEF ButtonStep

(* What the link and the companion do to what the invariant reads. *)
LEMMA OthersKeep == ASSUME Inv, LinkStep \/ HostStep PROVE Kept'
<1> USE DEF Inv, TypeOK, Place, Engaged, Beginning, Pending
<1> USE DEF LinkStep, Connect, CompanionCame, CompanionWent, TalkDropped, Disconnect,
        HostStep, HostBegin, HostEnd, HostOver, Handling
<1>1. /\ UNCHANGED <<phase, out, pc, allowed, capture, audio_prepared,
                     enhanced_ptt_active, micro_button_ptt_active>>
      /\ upset \subseteq upset'
  BY DEF flags, button
<1>2. key_down' => key_down
  OBVIOUS
<1>3. link' = "ready" => link = "ready" \/ "came" \in upset'
  OBVIOUS
<1>4. "unsent" \in upset' <=> "unsent" \in upset
  OBVIOUS
<1>5. "busy" \in upset' <=> "busy" \in upset
  OBVIOUS
<1>6. Place'
  BY <1>1
<1>7. Paths'
  BY <1>1 DEF Paths
<1>8. Microphone'
  BY <1>1 DEF Microphone
<1>9. KeyHeld'
  BY <1>1, <1>2, <1>3 DEF KeyHeld
<1>10. Heard'
  <2>1. CASE CompanionWent \/ Disconnect
    <3>1. Away'
      BY <2>1 DEF Away
    <3> QED BY <3>1 DEF Heard
  <2>2. CASE CompanionCame
    <3>1. Unheard'
      BY <2>2 DEF Unheard, Companion!Over
    <3> QED BY <3>1 DEF Heard, Unheard, Opened, Closed
  <2>3. CASE Connect \/ HostStep
    <3>1. Away <=> Away'
      BY <2>3 DEF Away
    <3>2. Unheard => Unheard'
      BY <2>3, WireSteps DEF Unheard, host, Companion!Over
    <3>3. Opened => Opened'
      BY <2>3, WireSteps DEF Opened
    <3>4. Closed => Closed'
      BY <2>3, WireSteps DEF Closed, host, Companion!Begin, Companion!End, Companion!Over
    <3> QED BY <1>1, <1>4, <1>5, <3>1, <3>2, <3>3, <3>4 DEF Heard, InTalk, InPress
  <2> QED BY <2>1, <2>2, <2>3
<1> QED BY <1>6, <1>7, <1>8, <1>9, <1>10 DEF Kept

-----------------------------------------------------------------------------
(* The invariant holds throughout. *)
THEOREM Invariance == Spec => []Inv
<1>1. Init => Inv
  BY InitTypes DEF Init, Button!Init, Companion!Init, Inv, Place, Paths, Microphone, KeyHeld,
       Heard, Away, InTalk, InPress, Unheard, Opened, Closed, Engaged, Beginning, Pending
<1>2. Inv /\ [Next]_vars => Inv'
  <2> SUFFICES ASSUME Inv, [Next]_vars PROVE Inv'
    OBVIOUS
  <2>1. CASE ButtonStep
    BY <2>1, ButtonTypes, ButtonKeeps DEF Inv, Kept
  <2>2. CASE LinkStep \/ HostStep
    BY <2>2, OtherTypes, OthersKeep DEF Inv, Kept
  <2>3. CASE UNCHANGED vars
    BY <2>3 DEF vars, button, flags, host, Inv, TypeOK, Place, Paths, Microphone, KeyHeld,
         Heard, Away, InTalk, InPress, Unheard, Opened, Closed, Engaged, Beginning, Pending
  <2> QED BY <2>1, <2>2, <2>3 DEF Next
<1> QED BY <1>1, <1>2, PTL DEF Spec

(* Types; and a talk leaves no pre-roll prepared. *)
THEOREM TypeCorrect == Spec => []TypeOK
<1>1. Inv => TypeOK
  BY DEF Inv
<1> QED BY <1>1, Invariance, PTL

(* The key of the HID path and the audio of the enhanced path are never held *)
(* for the voice at once.                                                    *)
THEOREM VoiceHasOnePath == Spec => []OneVoicePath
<1>1. Inv => OneVoicePath
  BY DEF Inv, Paths, OneVoicePath
<1> QED BY <1>1, Invariance, PTL

(* The microphone is off after a press, however the companion comes and goes. *)
THEOREM CaptureEnds == Spec => []CaptureEndsWithPress
<1>1. Inv => CaptureEndsWithPress
  BY DEF Inv, Microphone, Engaged, Pending, CaptureEndsWithPress
<1> QED BY <1>1, Invariance, PTL

(* The companion does not listen on after the release once it has heard of it. *)
THEOREM HostTalkEnds == Spec => []HostTalkEndsWithPress
<1>1. Inv => HostTalkEndsWithPress
  BY WireSteps DEF Inv, Paths, Pending, Heard, Away, InTalk, InPress, Unheard, Opened, Closed,
       HostTalkEndsWithPress
<1> QED BY <1>1, Invariance, PTL

(* ACT10 comes up with the button, but for a companion that came meanwhile or *)
(* a report that could not be sent.                                           *)
THEOREM KeyComesUp == Spec => []KeyUpWithPress
<1>1. Inv => KeyUpWithPress
  BY DEF Inv, KeyHeld, Pending, KeyUpWithPress
<1> QED BY <1>1, Invariance, PTL

-----------------------------------------------------------------------------
(* Every step of the tasks and of the companion is a step of each part, or   *)
(* leaves it alone.                                                          *)
LEMMA PartsStep ==
  ASSUME [Next]_vars
  PROVE  /\ [Button!Next]_(Button!vars)
         /\ [Capture!Next]_(Capture!vars)
         /\ [Companion!Next]_(Companion!vars)
<1> USE DEF button, flags, host, Button!vars, Capture!vars, Companion!vars
<1>1. CASE ButtonStep
  <2>1. [Button!Next]_(Button!vars)
    <3>1. CASE Edge \/ Tick
      BY <3>1 DEF Edge, Tick, Button!Next
    <3>2. CASE ~(Edge \/ Tick)
      BY <1>1, <3>2 DEF ButtonStep, Sample, DroppedEdge, NothingToDo, PreRollBegin, PreRollDiscard,
         GiveUp, TalkBegin, BeginSent, BeginUnsent, Commit, Flag, TalkEnd, EndSent, EndUnsent,
         Unflag, KeyDown, KeyUp
    <3> QED BY <3>1, <3>2
  <2>2. [Capture!Next]_(Capture!vars)
    <3>1. CASE capture' = "IDLE"
      BY <3>1 DEF Capture!Next, Capture!Halt
    <3>2. CASE capture = "IDLE" /\ capture' = "PRE_ROLL"
      BY <3>2 DEF Capture!Next, Capture!Prepare
    <3>3. CASE capture = "PRE_ROLL" /\ capture' = "STREAMING"
      BY <3>3 DEF Capture!Next, Capture!Commit
    <3>4. \/ capture' = capture
          \/ capture' = "IDLE"
          \/ capture = "IDLE" /\ capture' = "PRE_ROLL"
          \/ capture = "PRE_ROLL" /\ capture' = "STREAMING"
      BY <1>1 DEF ButtonStep, Edge, Tick, Sample, DroppedEdge, NothingToDo, PreRollBegin, PreRollDiscard,
         GiveUp, TalkBegin, BeginSent, BeginUnsent, Commit, Flag, TalkEnd, EndSent, EndUnsent,
         Unflag, KeyDown, KeyUp
    <3> QED BY <3>1, <3>2, <3>3, <3>4
  <2>3. UNCHANGED Companion!vars
    BY <1>1 DEF ButtonStep, Edge, Tick, Sample, DroppedEdge, NothingToDo, PreRollBegin, PreRollDiscard,
         GiveUp, TalkBegin, BeginSent, BeginUnsent, Commit, Flag, TalkEnd, EndSent, EndUnsent,
         Unflag, KeyDown, KeyUp
  <2> QED BY <2>1, <2>2, <2>3
<1>2. CASE LinkStep \/ HostStep
  <2>1. UNCHANGED Button!vars /\ UNCHANGED Capture!vars
    BY <1>2 DEF LinkStep, Connect, CompanionCame, CompanionWent, Disconnect, TalkDropped,
         HostStep, HostBegin, HostEnd, HostOver, Handling
  <2>2. UNCHANGED host \/ Companion!Begin \/ Companion!End \/ Companion!Over
    BY <1>2 DEF LinkStep, Connect, CompanionCame, CompanionWent, Disconnect, TalkDropped,
         HostStep, HostBegin, HostEnd, HostOver
  <2> QED BY <2>1, <2>2 DEF Companion!Next
<1>3. CASE UNCHANGED vars
  BY <1>3 DEF vars
<1> QED BY <1>1, <1>2, <1>3 DEF Next

(* Either path of execute_input_action and the companion use the button, the *)
(* capture and the talk only as their modules promise them.                  *)
THEOREM PartsArePromised == Spec => PartsKeepPromises
<1>1. Init => Button!Init /\ Capture!Init /\ Companion!Init
  BY DEF Init, Capture!Init
<1> QED BY <1>1, PartsStep, PTL
     DEF Spec, PartsKeepPromises, Button!Spec, Capture!Spec, Companion!Spec

================================================================================
