------------------------------ MODULE ButtonInput ------------------------------
(***************************************************************************)
(* The user button of the device: button_task in app_main.c samples the    *)
(* level of the pin and the context, reduces an edge if there is one, and  *)
(* then a tick, with cr_input_reduce of input_state.c.  It works, which    *)
(* may take any time, and then sleeps 10 ms, so that polls are neither     *)
(* regular nor bounded.  Times are kept as the ages now_ms - t, in a unit  *)
(* of the model's choice, and stop growing once they have passed every     *)
(* limit they are compared with.                                           *)
(***************************************************************************)
EXTENDS Naturals

CONSTANTS DebounceTicks,     (* CR_INPUT_DEBOUNCE_MS                       *)
          HoldTicks,         (* CR_INPUT_HOLD_MS                           *)
          DoubleClickTicks,  (* CR_INPUT_DOUBLE_CLICK_MS                   *)
          Periods            (* the times that may pass between two samples *)

ASSUME TicksAssumption ==
  /\ DebounceTicks \in Nat /\ HoldTicks \in Nat /\ DoubleClickTicks \in Nat
  /\ Periods \subseteq Nat \ {0}

VARIABLES
  pc,                       \* where button_task is in its loop
  level,                    \* previous_level, and from the sample on, level
  ctx,                      \* input_context of this round
  button_down, consume_until_release, ptt_started,
  waiting_for_second_click, second_click_down,
  edge_age,                 \* now - last_edge_at; no edge yet counts as old
  press_age,                \* now - press_started_at
  release_age,              \* now - first_release_at
  action,                   \* what cr_input_reduce returned last
  jumped                    \* history, for a property: the last poll that found
                            \* the button up, or found it pressed, had jumped over
                            \* the instant at which the double-click window closes

state == <<button_down, consume_until_release, ptt_started,
           waiting_for_second_click, second_click_down>>
ages  == <<edge_age, press_age, release_age>>
vars  == <<pc, level, ctx, state, ages, action, jumped>>

(* allowed: detail_active, session_selected and not interaction_locked. *)
Contexts == [screen_on : BOOLEAN, allowed : BOOLEAN]

Grown(age, d, limit) == IF age + d >= limit THEN limit ELSE age + d

Init ==
  /\ pc = "sample"
  /\ level \in {"up", "down"}
  /\ ctx \in Contexts
  /\ button_down = FALSE /\ consume_until_release = FALSE /\ ptt_started = FALSE
  /\ waiting_for_second_click = FALSE /\ second_click_down = FALSE
  /\ edge_age = DebounceTicks
  /\ press_age = HoldTicks
  /\ release_age = DoubleClickTicks + 1
  /\ action = "NONE"
  /\ jumped = FALSE

(* Level, time and context are read once and serve the edge and the tick. *)
Sample(l, c, d) ==
  /\ pc = "sample"
  /\ level' = l
  /\ ctx' = c
  /\ edge_age' = Grown(edge_age, d, DebounceTicks)
  /\ press_age' = Grown(press_age, d, HoldTicks)
  /\ release_age' = Grown(release_age, d, DoubleClickTicks + 1)
  /\ pc' = IF l # level THEN "edge" ELSE "tick"
  /\ action' = "NONE"
  /\ jumped' = IF button_down THEN jumped
               ELSE release_age < DoubleClickTicks /\ release_age' > DoubleClickTicks
  /\ UNCHANGED state

(* edge_is_debounced: an edge too soon after the last accepted one is        *)
(* dropped for good, because button_task has already taken its level over.  *)
Debounced == edge_age < DebounceTicks

IgnoredEdge ==
  /\ pc = "edge"
  /\ Debounced
  /\ action' = "NONE"
  /\ pc' = "tick"
  /\ UNCHANGED <<level, ctx, state, ages>>

(* An edge that the button's own record already accounts for. *)
RepeatedEdge ==
  /\ pc = "edge"
  /\ ~Debounced
  /\ button_down = (level = "down")
  /\ edge_age' = 0
  /\ action' = "NONE"
  /\ pc' = "tick"
  /\ UNCHANGED <<level, ctx, state, press_age, release_age>>

AcceptedEdge(l) ==
  /\ pc = "edge"
  /\ level = l
  /\ ~Debounced
  /\ button_down' = (l = "down")
  /\ edge_age' = 0
  /\ pc' = "tick"
  /\ UNCHANGED <<level, ctx>>

-----------------------------------------------------------------------------
(* handle_down *)
PressConsumed ==
  /\ ~ctx.screen_on \/ ~ctx.allowed
  /\ consume_until_release' = TRUE
  /\ IF ~ctx.screen_on
     THEN /\ waiting_for_second_click' = FALSE
          /\ second_click_down' = FALSE
          /\ action' = "WAKE"
     ELSE /\ action' = "NONE"
          /\ UNCHANGED <<waiting_for_second_click, second_click_down>>

PressHeld ==
  /\ ctx.screen_on
  /\ ctx.allowed
  /\ second_click_down' = (waiting_for_second_click /\ release_age <= DoubleClickTicks)
  /\ action' = "PRE_ROLL_BEGIN"
  /\ UNCHANGED <<consume_until_release, waiting_for_second_click>>

HandleDown ==
  /\ AcceptedEdge("down")
  /\ ~button_down
  /\ press_age' = 0
  /\ PressConsumed \/ PressHeld
  /\ UNCHANGED <<ptt_started, release_age>>

(* handle_up *)
ReleaseConsumed ==
  /\ consume_until_release
  /\ consume_until_release' = FALSE
  /\ ptt_started' = FALSE
  /\ second_click_down' = FALSE
  /\ action' = "NONE"
  /\ UNCHANGED <<waiting_for_second_click, release_age>>

ReleaseTalking ==
  /\ ~consume_until_release
  /\ ptt_started
  /\ ptt_started' = FALSE
  /\ waiting_for_second_click' = FALSE
  /\ second_click_down' = FALSE
  /\ action' = "PTT_END"
  /\ UNCHANGED <<consume_until_release, release_age>>

ReleaseNotAllowed ==
  /\ ~consume_until_release
  /\ ~ptt_started
  /\ ~ctx.allowed
  /\ waiting_for_second_click' = FALSE
  /\ second_click_down' = FALSE
  /\ action' = "PRE_ROLL_DISCARD"
  /\ UNCHANGED <<consume_until_release, ptt_started, release_age>>

ReleaseSecondClick ==
  /\ ~consume_until_release
  /\ ~ptt_started
  /\ ctx.allowed
  /\ second_click_down
  /\ waiting_for_second_click' = FALSE
  /\ second_click_down' = FALSE
  /\ action' = "ESCAPE"
  /\ UNCHANGED <<consume_until_release, ptt_started, release_age>>

ReleaseFirstClick ==
  /\ ~consume_until_release
  /\ ~ptt_started
  /\ ctx.allowed
  /\ ~second_click_down
  /\ waiting_for_second_click' = TRUE
  /\ release_age' = 0
  /\ action' = "PRE_ROLL_DISCARD"
  /\ UNCHANGED <<consume_until_release, ptt_started, second_click_down>>

HandleUp ==
  /\ AcceptedEdge("up")
  /\ button_down
  /\ \/ ReleaseConsumed \/ ReleaseTalking \/ ReleaseNotAllowed
     \/ ReleaseSecondClick \/ ReleaseFirstClick
  /\ UNCHANGED press_age

-----------------------------------------------------------------------------
HoldReachedUnchecked ==      \* mutant: a consumed press can still talk
  button_down /\ ~ptt_started /\ ctx.allowed /\ press_age >= HoldTicks

(* handle_tick *)
HoldReached ==
  /\ button_down
  /\ ~consume_until_release
  /\ ~ptt_started
  /\ ctx.allowed
  /\ press_age >= HoldTicks

WindowOverLate ==            \* mutant: > instead of >=
  ~button_down /\ waiting_for_second_click /\ release_age > DoubleClickTicks

WindowOverAllowed ==         \* mutant: a click waits while input is not allowed
  /\ ~button_down
  /\ waiting_for_second_click
  /\ release_age >= DoubleClickTicks
  /\ ctx.allowed

WindowOver ==
  /\ ~button_down
  /\ waiting_for_second_click
  /\ release_age >= DoubleClickTicks

TickHold ==
  /\ pc = "tick"
  /\ HoldReached
  /\ ptt_started' = TRUE
  /\ waiting_for_second_click' = FALSE
  /\ second_click_down' = FALSE
  /\ action' = "PTT_BEGIN"
  /\ pc' = "sample"
  /\ UNCHANGED <<level, ctx, button_down, consume_until_release, ages>>

TickWindowOver ==
  /\ pc = "tick"
  /\ ~HoldReached
  /\ WindowOver
  /\ waiting_for_second_click' = FALSE
  /\ action' = IF ctx.allowed THEN "ENTER" ELSE "NONE"
  /\ pc' = "sample"
  /\ UNCHANGED <<level, ctx, button_down, consume_until_release, ptt_started,
                 second_click_down, ages>>

TickIdle ==
  /\ pc = "tick"
  /\ ~HoldReached
  /\ ~WindowOver
  /\ action' = "NONE"
  /\ pc' = "sample"
  /\ UNCHANGED <<level, ctx, state, ages>>

TaskStep ==
  \/ IgnoredEdge \/ RepeatedEdge \/ HandleDown \/ HandleUp
  \/ TickHold \/ TickWindowOver \/ TickIdle

Next ==
  \/ \E l \in {"up", "down"}, c \in Contexts, d \in Periods : Sample(l, c, d)
  \/ TaskStep /\ UNCHANGED jumped

(* button_task never blocks for good: it keeps polling.  What the user does *)
(* with the button is not fair.                                             *)
Spec == Init /\ [][Next]_vars /\ WF_vars(Next)

-----------------------------------------------------------------------------
(* The flags implement the gestures of ButtonGestures. *)
Phase ==
  CASE ~button_down          -> "up"
    [] consume_until_release -> "consumed"
    [] ptt_started           -> "talking"
    [] OTHER                 -> "held"

Gestures == INSTANCE ButtonGestures WITH
              phase <- Phase, click <- waiting_for_second_click, out <- action

ImplementsGestures == Gestures!Spec

-----------------------------------------------------------------------------
TypeOK ==
  /\ pc \in {"sample", "edge", "tick"}
  /\ level \in {"up", "down"}
  /\ ctx \in Contexts
  /\ button_down \in BOOLEAN
  /\ consume_until_release \in BOOLEAN
  /\ ptt_started \in BOOLEAN
  /\ waiting_for_second_click \in BOOLEAN
  /\ second_click_down \in BOOLEAN
  /\ edge_age \in 0..DebounceTicks
  /\ press_age \in 0..HoldTicks
  /\ release_age \in 0..(DoubleClickTicks + 1)
  /\ action \in Gestures!Actions
  /\ jumped \in BOOLEAN

(* The five flags of cr_input_state_t describe one press: it is consumed,   *)
(* or it talks, or it may be the second click of one still pending.  A flag *)
(* that one of the release paths forgot would turn the next press into      *)
(* something it is not.                                                     *)
PressRecordConsistent ==
  /\ consume_until_release => button_down /\ ~ptt_started /\ ~second_click_down
  /\ ptt_started => button_down /\ ~waiting_for_second_click
  /\ second_click_down => button_down /\ waiting_for_second_click

(* A first click that is still unanswered is replaced by a later first      *)
(* click, and its Enter lost, only if the press came to light in a poll     *)
(* that jumped over the instant at which the double-click window closes: at *)
(* every other moment, and however the polls fall, a press within the       *)
(* window is the second click and one after it finds the Enter sent.        *)
ReplacedOnlyByAJump ==
  [][waiting_for_second_click /\ HandleUp /\ release_age' = 0 => jumped]_vars

(* A pending click does not stay pending: it is answered or dropped, or the *)
(* button is pressed again.                                                 *)
PendingClickResolves ==
  waiting_for_second_click ~> (~waiting_for_second_click \/ button_down)

================================================================================
