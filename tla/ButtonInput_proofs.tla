--------------------------- MODULE ButtonInput_proofs ---------------------------
(***************************************************************************)
(* The five press flags stay consistent and implement ButtonGestures for   *)
(* any debounce, hold and double-click time and any times between polls;   *)
(* a first click is replaced unanswered only by a poll that jumps over the *)
(* end of the double-click window.                                         *)
(***************************************************************************)
EXTENDS ButtonInput, TLAPS

Inv == TypeOK /\ PressRecordConsistent

(* An age stays within its limit. *)
LEMMA GrownInRange ==
  ASSUME NEW limit \in Nat, NEW age \in 0..limit, NEW d \in Nat
  PROVE  Grown(age, d, limit) \in 0..limit
BY DEF Grown

LEMMA InitInv == Init => Inv
<1> SUFFICES ASSUME Init PROVE Inv
  OBVIOUS
<1>1. /\ edge_age \in 0..DebounceTicks
      /\ press_age \in 0..HoldTicks
      /\ release_age \in 0..(DoubleClickTicks + 1)
  BY TicksAssumption DEF Init
<1>2. TypeOK
  BY <1>1 DEF Init, TypeOK, Gestures!Actions
<1>3. PressRecordConsistent
  BY DEF Init, PressRecordConsistent
<1> QED
  BY <1>2, <1>3 DEF Inv

LEMMA SampleInv ==
  ASSUME Inv, NEW l \in {"up", "down"}, NEW c \in Contexts, NEW d \in Periods,
         Sample(l, c, d)
  PROVE  Inv'
<1>1. /\ edge_age' \in 0..DebounceTicks
      /\ press_age' \in 0..HoldTicks
      /\ release_age' \in 0..(DoubleClickTicks + 1)
  BY TicksAssumption, GrownInRange DEF Inv, TypeOK, Sample
<1> QED
  BY <1>1 DEF Inv, TypeOK, PressRecordConsistent, Sample, state, Gestures!Actions

(* An accepted edge sets its own age to zero and leaves the others in range. *)
LEMMA EdgeAgesInRange ==
  ASSUME TypeOK, edge_age' = 0, press_age' \in {0, press_age}, release_age' \in {0, release_age}
  PROVE  /\ edge_age' \in 0..DebounceTicks
         /\ press_age' \in 0..HoldTicks
         /\ release_age' \in 0..(DoubleClickTicks + 1)
BY TicksAssumption DEF TypeOK

LEMMA HandleDownInv ==
  ASSUME Inv, HandleDown, UNCHANGED jumped
  PROVE  Inv'
<1>1. /\ edge_age' \in 0..DebounceTicks
      /\ press_age' \in 0..HoldTicks
      /\ release_age' \in 0..(DoubleClickTicks + 1)
  BY EdgeAgesInRange DEF Inv, HandleDown, AcceptedEdge
<1>2. TypeOK'
  BY <1>1 DEF Inv, TypeOK, HandleDown, AcceptedEdge, PressConsumed, PressHeld, Gestures!Actions
<1>3. button_down' /\ ~button_down
  BY DEF HandleDown, AcceptedEdge
<1>4. PressRecordConsistent'
  BY <1>3 DEF Inv, TypeOK, PressRecordConsistent, HandleDown, PressConsumed, PressHeld
<1> QED
  BY <1>2, <1>4 DEF Inv

LEMMA HandleUpInv ==
  ASSUME Inv, HandleUp, UNCHANGED jumped
  PROVE  Inv'
<1> DEFINE Release == \/ ReleaseConsumed \/ ReleaseTalking \/ ReleaseNotAllowed
                      \/ ReleaseSecondClick \/ ReleaseFirstClick
<1> USE DEF ReleaseConsumed, ReleaseTalking, ReleaseNotAllowed, ReleaseSecondClick,
            ReleaseFirstClick
<1>1. Release
  BY DEF HandleUp
<1>2. /\ edge_age' \in 0..DebounceTicks
      /\ press_age' \in 0..HoldTicks
      /\ release_age' \in 0..(DoubleClickTicks + 1)
  BY <1>1, EdgeAgesInRange DEF Inv, HandleUp, AcceptedEdge
<1>3. /\ pc' = "tick" /\ level' = level /\ ctx' = ctx /\ button_down' = FALSE
  BY DEF HandleUp, AcceptedEdge
<1>4. /\ consume_until_release' \in BOOLEAN
      /\ ptt_started' \in BOOLEAN
      /\ waiting_for_second_click' \in BOOLEAN
      /\ second_click_down' \in BOOLEAN
      /\ action' \in Gestures!Actions
  BY <1>1 DEF Inv, TypeOK, Gestures!Actions
<1>5. TypeOK'
  BY <1>2, <1>3, <1>4 DEF Inv, TypeOK
<1>6. ~consume_until_release' /\ ~ptt_started' /\ ~second_click_down'
  BY <1>1 DEF Inv, TypeOK
<1>7. PressRecordConsistent'
  BY <1>6 DEF PressRecordConsistent
<1> QED
  BY <1>5, <1>7 DEF Inv

LEMMA TaskStepInv ==
  ASSUME Inv, TaskStep, UNCHANGED jumped
  PROVE  Inv'
<1>1. CASE IgnoredEdge
  BY <1>1 DEF Inv, TypeOK, PressRecordConsistent, IgnoredEdge, state, ages, Gestures!Actions
<1>2. CASE RepeatedEdge
  BY <1>2, TicksAssumption
     DEF Inv, TypeOK, PressRecordConsistent, RepeatedEdge, state, Gestures!Actions
<1>3. CASE HandleDown
  BY <1>3, HandleDownInv
<1>4. CASE HandleUp
  BY <1>4, HandleUpInv
<1>5. CASE TickHold
  BY <1>5 DEF Inv, TypeOK, PressRecordConsistent, TickHold, HoldReached, ages, Gestures!Actions
<1>6. CASE TickWindowOver
  BY <1>6
     DEF Inv, TypeOK, PressRecordConsistent, TickWindowOver, WindowOver, ages, Gestures!Actions
<1>7. CASE TickIdle
  BY <1>7 DEF Inv, TypeOK, PressRecordConsistent, TickIdle, state, ages, Gestures!Actions
<1> QED
  BY <1>1, <1>2, <1>3, <1>4, <1>5, <1>6, <1>7 DEF TaskStep

LEMMA NextInv == Inv /\ [Next]_vars => Inv'
<1> SUFFICES ASSUME Inv, [Next]_vars PROVE Inv'
  OBVIOUS
<1>1. CASE \E l \in {"up", "down"}, c \in Contexts, d \in Periods : Sample(l, c, d)
  BY <1>1, SampleInv
<1>2. CASE TaskStep /\ UNCHANGED jumped
  BY <1>2, TaskStepInv
<1>3. CASE UNCHANGED vars
  BY <1>3 DEF vars, state, ages, Inv, TypeOK, PressRecordConsistent
<1> QED
  BY <1>1, <1>2, <1>3 DEF Next

LEMMA SpecInv == Spec => []Inv
BY InitInv, NextInv, PTL DEF Spec

(* The task's variables keep their types and the ages their limits. *)
THEOREM TypeCorrect == Spec => []TypeOK
<1>1. Inv => TypeOK
  BY DEF Inv
<1> QED
  BY <1>1, SpecInv, PTL

(* A press is consumed, or talks, or may be a second click: never two of    *)
(* them, and none of them with the button up.                               *)
THEOREM PressRecord == Spec => []PressRecordConsistent
<1>1. Inv => PressRecordConsistent
  BY DEF Inv
<1> QED
  BY <1>1, SpecInv, PTL

-----------------------------------------------------------------------------
(* The refinement, one gesture per branch of the reducer. *)
LEMMA SampleRefines ==
  ASSUME NEW l, NEW c, NEW d, Sample(l, c, d)
  PROVE  Gestures!Quiet
BY DEF Sample, state, Gestures!Quiet, Phase

LEMMA DownRefines ==
  ASSUME Inv, HandleDown
  PROVE  Gestures!WakePress \/ Gestures!LockedPress \/ Gestures!HeldPress
<1> USE DEF Inv, TypeOK, PressRecordConsistent, HandleDown, AcceptedEdge, Phase
<1>1. CASE PressConsumed /\ ~ctx.screen_on
  BY <1>1 DEF PressConsumed, Gestures!WakePress
<1>2. CASE PressConsumed /\ ctx.screen_on
  BY <1>2 DEF PressConsumed, Gestures!LockedPress
<1>3. CASE PressHeld
  BY <1>3 DEF PressHeld, Gestures!HeldPress
<1> QED
  BY <1>1, <1>2, <1>3

LEMMA UpRefines ==
  ASSUME Inv, HandleUp
  PROVE  \/ Gestures!ConsumedRelease \/ Gestures!TalkRelease
         \/ Gestures!ShortRelease \/ Gestures!SecondClick
<1> USE DEF Inv, TypeOK, PressRecordConsistent, HandleUp, AcceptedEdge, Phase
<1>1. CASE ReleaseConsumed
  BY <1>1 DEF ReleaseConsumed, Gestures!ConsumedRelease
<1>2. CASE ReleaseTalking
  BY <1>2 DEF ReleaseTalking, Gestures!TalkRelease
<1>3. CASE ReleaseNotAllowed
  BY <1>3 DEF ReleaseNotAllowed, Gestures!ShortRelease
<1>4. CASE ReleaseSecondClick
  BY <1>4 DEF ReleaseSecondClick, Gestures!SecondClick
<1>5. CASE ReleaseFirstClick
  BY <1>5 DEF ReleaseFirstClick, Gestures!ShortRelease
<1> QED
  BY <1>1, <1>2, <1>3, <1>4, <1>5

LEMMA TickRefines ==
  ASSUME Inv, TickHold \/ TickWindowOver \/ TickIdle
  PROVE  Gestures!Hold \/ Gestures!WindowCloses \/ Gestures!Quiet
<1> USE DEF Inv, TypeOK, PressRecordConsistent, Phase
<1>1. CASE TickHold
  BY <1>1 DEF TickHold, HoldReached, Gestures!Hold
<1>2. CASE TickWindowOver
  BY <1>2 DEF TickWindowOver, WindowOver, Gestures!WindowCloses
<1>3. CASE TickIdle
  BY <1>3 DEF TickIdle, state, Gestures!Quiet
<1> QED
  BY <1>1, <1>2, <1>3

(* Whatever the timing, the actions come out in the order ButtonGestures    *)
(* allows: nothing but the wake from a press in the dark, one PTT_END for   *)
(* each PTT_BEGIN, no Enter or Escape from a press that talked.             *)
THEOREM InputImplementsGestures == Spec => ImplementsGestures
<1>1. Init => Gestures!Init
  BY DEF Init, Gestures!Init, Phase
<1>2. Inv /\ [Next]_vars => [Gestures!Next]_(Gestures!vars)
  <2> SUFFICES ASSUME Inv, [Next]_vars PROVE [Gestures!Next]_(Gestures!vars)
    OBVIOUS
  <2>1. CASE \E l \in {"up", "down"}, c \in Contexts, d \in Periods : Sample(l, c, d)
    BY <2>1, SampleRefines DEF Gestures!Next
  <2>2. CASE IgnoredEdge \/ RepeatedEdge
    BY <2>2 DEF IgnoredEdge, RepeatedEdge, state, Gestures!Next, Gestures!Quiet, Phase
  <2>3. CASE HandleDown
    BY <2>3, DownRefines DEF Gestures!Next
  <2>4. CASE HandleUp
    BY <2>4, UpRefines DEF Gestures!Next
  <2>5. CASE TickHold \/ TickWindowOver \/ TickIdle
    BY <2>5, TickRefines DEF Gestures!Next
  <2>6. CASE UNCHANGED vars
    BY <2>6 DEF vars, state, Gestures!vars, Phase
  <2> QED
    BY <2>1, <2>2, <2>3, <2>4, <2>5, <2>6 DEF Next, TaskStep
<1> QED
  BY <1>1, <1>2, SpecInv, PTL DEF Spec, ImplementsGestures, Gestures!Spec

-----------------------------------------------------------------------------
(* A click that waits with the button up is within its window when the task  *)
(* next samples, and in that sample the window is still open, or closes, or  *)
(* was jumped over.  A press while a click waits is thus its second click,   *)
(* or is consumed, or came with a jump.                                      *)
Window ==
  /\ pc = "edge" => release_age >= 1
  /\ waiting_for_second_click /\ ~button_down =>
       /\ pc = "sample" => release_age < DoubleClickTicks
       /\ pc = "edge" => release_age <= DoubleClickTicks \/ jumped
  /\ waiting_for_second_click /\ button_down =>
       second_click_down \/ consume_until_release \/ jumped

LEMMA SampleWindow ==
  ASSUME Inv, Window, NEW l \in {"up", "down"}, NEW c \in Contexts, NEW d \in Periods,
         Sample(l, c, d)
  PROVE  Window'
<1> USE DEF Inv, TypeOK, Window
<1>1. d \in Nat /\ d >= 1
  BY TicksAssumption
<1>2. release_age' >= 1
  BY <1>1, TicksAssumption DEF Sample, Grown
<1>3. /\ pc = "sample" /\ pc' \in {"edge", "tick"}
      /\ UNCHANGED <<button_down, consume_until_release, waiting_for_second_click,
                     second_click_down>>
  BY DEF Sample, state
<1>4. button_down => jumped' = jumped
  BY DEF Sample
<1>5. ~button_down /\ release_age < DoubleClickTicks =>
        release_age' <= DoubleClickTicks \/ jumped'
  <2>1. release_age' \in Nat
    BY <1>1, TicksAssumption DEF Sample, Grown
  <2>2. ~button_down =>
          jumped' = (release_age < DoubleClickTicks /\ release_age' > DoubleClickTicks)
    BY DEF Sample
  <2>3. ~(release_age' > DoubleClickTicks) => release_age' <= DoubleClickTicks
    BY <2>1, TicksAssumption
  <2> QED BY <2>2, <2>3
<1> QED BY <1>2, <1>3, <1>4, <1>5

LEMMA WindowInv ==
  ASSUME Inv, Window, [Next]_vars
  PROVE  Window'
<1> USE DEF Inv, TypeOK, Window
<1>1. CASE \E l \in {"up", "down"}, c \in Contexts, d \in Periods : Sample(l, c, d)
  BY <1>1, SampleWindow
<1>2. CASE (IgnoredEdge \/ RepeatedEdge) /\ UNCHANGED jumped
  BY <1>2 DEF IgnoredEdge, RepeatedEdge, state, ages
<1>3. CASE HandleDown /\ UNCHANGED jumped
  BY <1>3 DEF HandleDown, AcceptedEdge, PressConsumed, PressHeld
<1>4. CASE HandleUp /\ UNCHANGED jumped
  BY <1>4 DEF HandleUp, AcceptedEdge
<1>5. CASE (TickHold \/ TickWindowOver) /\ UNCHANGED jumped
  BY <1>5 DEF TickHold, TickWindowOver
<1>6. CASE TickIdle /\ UNCHANGED jumped
  BY <1>6, TicksAssumption DEF TickIdle, WindowOver, state, ages
<1>7. CASE UNCHANGED vars
  BY <1>7 DEF vars, state, ages
<1> QED BY <1>1, <1>2, <1>3, <1>4, <1>5, <1>6, <1>7 DEF Next, TaskStep

(* Whatever the thresholds are and however late and irregular the polls, the *)
(* button takes another click for the first while one is unanswered only if  *)
(* the poll that found the press had jumped over the end of the window.      *)
THEOREM ClickIsKept == Spec => ReplacedOnlyByAJump
<1>1. Init => Window
  BY DEF Init, Window
<1>2. Inv /\ Window /\ [Next]_vars => Window'
  BY WindowInv
<1>3. Inv /\ Window => (waiting_for_second_click /\ HandleUp /\ release_age' = 0 => jumped)
  <2> SUFFICES ASSUME Inv, Window, waiting_for_second_click, HandleUp, release_age' = 0,
                      ~jumped
               PROVE  FALSE
    OBVIOUS
  <2>1. pc = "edge" /\ button_down /\ release_age >= 1
    BY DEF HandleUp, AcceptedEdge, Window
  <2>2. second_click_down \/ consume_until_release
    BY <2>1 DEF Window
  <2>3. release_age' = release_age
    BY <2>2 DEF HandleUp, ReleaseConsumed, ReleaseTalking, ReleaseNotAllowed,
         ReleaseSecondClick, ReleaseFirstClick
  <2> QED BY <2>1, <2>3
<1> QED BY <1>1, <1>2, <1>3, SpecInv, PTL DEF Spec, ReplacedOnlyByAJump
================================================================================
