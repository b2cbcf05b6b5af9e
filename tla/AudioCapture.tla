------------------------------ MODULE AudioCapture ------------------------------
(***************************************************************************)
(* audio_capture.c: the capture task, the alert task and the calls of the  *)
(* other tasks, over one mutex, a ring of pre-roll frames and the shared   *)
(* codecs.  A section under the mutex is one action, except in commit,     *)
(* which holds it while it sends the ring frame by frame: there "lock"     *)
(* says who holds it.  What a task does outside the mutex is a step of its *)
(* own.  A frame is its sequence number.                                   *)
(***************************************************************************)
EXTENDS Naturals, Sequences

CONSTANTS PRE_ROLL_FRAME_COUNT,
          AlertChunks,    (* chunks of one alert melody                    *)
          MaxSequence     (* bound: frames the microphone delivers         *)

ASSUME RingAssumption == PRE_ROLL_FRAME_COUNT \in Nat \ {0}
ASSUME BoundsAssumption == AlertChunks \in Nat /\ MaxSequence \in Nat

VARIABLES
  mode, lock,
  pre_roll, pre_roll_start, pre_roll_count,
  next_sequence, last_sequence,
  first_sequence,            \* what the last prepare handed to its caller
  sent_index,                \* commit: index of its loop
  capture_pc, frame,         \* capture_task: where it is, and its frame
  newest_sent,               \* newest frame handed to the transport
  codecs_open, alert_active,
  alert_posting,             \* alert_play: between the mutex and the queue
  alert_queue, alert_pc, alert_left,
  stored,                    \* history: frames stored since the last prepare
  alert_leaked               \* history: chunks played since it into a capture

ring    == <<pre_roll, pre_roll_start, pre_roll_count>>
capture == <<capture_pc, frame>>
alert   == <<alert_active, alert_posting, alert_queue, alert_pc, alert_left, alert_leaked>>
vars == <<mode, lock, ring, next_sequence, last_sequence, first_sequence, sent_index,
          capture, newest_sent, codecs_open, alert, stored>>

N == PRE_ROLL_FRAME_COUNT

Wrapped(k) == k % N              \* an index of the ring

Init ==
  /\ mode = "IDLE"
  /\ lock = "free"
  /\ pre_roll = [i \in 0..(N - 1) |-> 0]
  /\ pre_roll_start = 0
  /\ pre_roll_count = 0
  /\ next_sequence = 1
  /\ last_sequence = 0
  /\ first_sequence = 1
  /\ sent_index = 0
  /\ capture_pc = "check" /\ frame = 0
  /\ newest_sent = 0
  /\ codecs_open = TRUE              \* cr_audio_capture_init opens them
  /\ alert_active = FALSE
  /\ alert_posting = FALSE
  /\ alert_queue = FALSE
  /\ alert_pc = "wait" /\ alert_left = 0
  /\ stored = <<>>
  /\ alert_leaked = 0

-----------------------------------------------------------------------------
(* The calls of the button task and of the mode change. *)
FirstSequenceLate == next_sequence + 1     \* mutant: one frame too many skipped

FirstSequence == next_sequence

(* open_codecs may fail only where it has to open them; prepare then        *)
(* returns the error and changes nothing.                                   *)
Prepare ==
  /\ lock = "free"
  /\ mode = "IDLE"
  /\ codecs_open' = TRUE
  /\ pre_roll_start' = 0
  /\ pre_roll_count' = 0
  /\ mode' = "PRE_ROLL"
  /\ first_sequence' = FirstSequence
  /\ stored' = <<>>
  /\ alert_leaked' = 0
  /\ UNCHANGED <<lock, pre_roll, next_sequence, last_sequence, sent_index, capture,
                 newest_sent, alert_active, alert_posting, alert_queue, alert_pc, alert_left>>

CommitBegin ==
  /\ lock = "free"
  /\ mode = "PRE_ROLL"
  /\ lock' = "commit"
  /\ sent_index' = 0
  /\ UNCHANGED <<mode, ring, next_sequence, last_sequence, first_sequence, capture,
                 newest_sent, codecs_open, alert, stored>>

RingSlotFromZero(index) == index      \* mutant: ignores where the ring starts

RingSlot(index) == Wrapped(pre_roll_start + index)

CommitForgets(sequence) == UNCHANGED last_sequence   \* mutant: only streaming records

CommitRecords(sequence) == last_sequence' = sequence

CommitSend ==
  /\ lock = "commit"
  /\ sent_index < pre_roll_count
  /\ newest_sent' = pre_roll[RingSlot(sent_index)]
  /\ CommitRecords(pre_roll[RingSlot(sent_index)])
  /\ sent_index' = sent_index + 1
  /\ UNCHANGED <<mode, lock, ring, next_sequence, first_sequence, capture, codecs_open,
                 alert, stored>>

CommitEnd ==
  /\ lock = "commit"
  /\ sent_index = pre_roll_count
  /\ pre_roll_count' = 0
  /\ mode' = "STREAMING"
  /\ lock' = "free"
  /\ UNCHANGED <<pre_roll, pre_roll_start, next_sequence, last_sequence, first_sequence,
                 sent_index, capture, newest_sent, codecs_open, alert, stored>>

(* cr_audio_capture_discard and cr_audio_capture_stop change the same state; *)
(* stop also returns last_sequence.                                          *)
Halt ==
  /\ lock = "free"
  /\ mode' = "IDLE"
  /\ pre_roll_count' = 0
  /\ UNCHANGED <<lock, pre_roll, pre_roll_start, next_sequence, last_sequence, first_sequence,
                 sent_index, capture, newest_sent, codecs_open, alert, stored>>

PowerDownUnchecked == lock = "free"     \* mutant: set_powered without its check

MayPowerDown == lock = "free" /\ mode = "IDLE" /\ ~alert_active

(* cr_audio_capture_set_powered(false), by power_task once the screen is off. *)
PowerDown ==
  /\ MayPowerDown
  /\ codecs_open' = FALSE
  /\ UNCHANGED <<mode, lock, ring, next_sequence, last_sequence, first_sequence, sent_index,
                 capture, newest_sent, alert, stored>>

-----------------------------------------------------------------------------
(* capture_task *)
CheckMode ==
  /\ capture_pc = "check"
  /\ lock = "free"
  /\ mode # "IDLE"
  /\ capture_pc' = "read"
  /\ UNCHANGED <<mode, lock, ring, next_sequence, last_sequence, first_sequence, sent_index,
                 frame, newest_sent, codecs_open, alert, stored>>

(* The microphone delivers a frame, which gets its number outside the mutex. *)
ReadFrame ==
  /\ capture_pc = "read"
  /\ next_sequence <= MaxSequence
  /\ frame' = next_sequence
  /\ next_sequence' = next_sequence + 1
  /\ capture_pc' = "store"
  /\ UNCHANGED <<mode, lock, ring, last_sequence, first_sequence, sent_index, newest_sent,
                 codecs_open, alert, stored>>

ReadFails ==
  /\ capture_pc = "read"
  /\ capture_pc' = "check"
  /\ UNCHANGED <<mode, lock, ring, next_sequence, last_sequence, first_sequence, sent_index,
                 frame, newest_sent, codecs_open, alert, stored>>

(* A full ring moves its start on and overwrites the oldest frame. *)
PutInRingStuck ==             \* mutant: the start of a full ring stays
  /\ pre_roll' = [pre_roll EXCEPT ![Wrapped(pre_roll_start + pre_roll_count)] = frame]
  /\ pre_roll_count' = IF pre_roll_count = N THEN N ELSE pre_roll_count + 1
  /\ UNCHANGED pre_roll_start

PutInRingUnbounded ==         \* mutant: the count passes the size of the ring
  /\ pre_roll' = [pre_roll EXCEPT ![Wrapped(pre_roll_start + pre_roll_count)] = frame]
  /\ pre_roll_count' = pre_roll_count + 1
  /\ UNCHANGED pre_roll_start

PutInRing ==
  \/ /\ pre_roll_count = N
     /\ pre_roll_start' = Wrapped(pre_roll_start + 1)
     /\ pre_roll' = [pre_roll EXCEPT
                       ![Wrapped(Wrapped(pre_roll_start + 1) + pre_roll_count - 1)] = frame]
     /\ UNCHANGED pre_roll_count
  \/ /\ pre_roll_count < N
     /\ pre_roll' = [pre_roll EXCEPT ![Wrapped(pre_roll_start + pre_roll_count)] = frame]
     /\ pre_roll_count' = pre_roll_count + 1
     /\ UNCHANGED pre_roll_start

StoreFrame ==
  /\ capture_pc = "store"
  /\ lock = "free"
  /\ mode = "PRE_ROLL"
  /\ PutInRing
  /\ stored' = Append(stored, frame)
  /\ capture_pc' = "check"
  /\ UNCHANGED <<mode, lock, next_sequence, last_sequence, first_sequence, sent_index, frame,
                 newest_sent, codecs_open, alert>>

MayStream == mode = "STREAMING"

TakeFrame ==
  /\ capture_pc = "store"
  /\ lock = "free"
  /\ MayStream
  /\ capture_pc' = "send"
  /\ UNCHANGED <<mode, lock, ring, next_sequence, last_sequence, first_sequence, sent_index,
                 frame, newest_sent, codecs_open, alert, stored>>

(* The capture was halted while the frame was read: its number is spent. *)
DropFrame ==
  /\ capture_pc = "store"
  /\ lock = "free"
  /\ mode = "IDLE"
  /\ capture_pc' = "check"
  /\ UNCHANGED <<mode, lock, ring, next_sequence, last_sequence, first_sequence, sent_index,
                 frame, newest_sent, codecs_open, alert, stored>>

(* send_stored, outside the mutex: the transport may still drop the frame. *)
SendFrame ==
  /\ capture_pc = "send"
  /\ newest_sent' = frame
  /\ capture_pc' = "record"
  /\ UNCHANGED <<mode, lock, ring, next_sequence, last_sequence, first_sequence, sent_index,
                 frame, codecs_open, alert, stored>>

RecordLast ==
  /\ capture_pc = "record"
  /\ last_sequence' = frame
  /\ capture_pc' = "check"
  /\ UNCHANGED <<mode, lock, ring, next_sequence, first_sequence, sent_index, frame,
                 newest_sent, codecs_open, alert, stored>>

CaptureStep ==
  \/ CheckMode \/ ReadFrame \/ ReadFails \/ StoreFrame \/ TakeFrame \/ DropFrame
  \/ SendFrame \/ RecordLast

-----------------------------------------------------------------------------
(* cr_audio_alert_play: the codecs are opened under the mutex, the request  *)
(* is queued after it; a queue of length one keeps the last request.        *)
AlertPlay ==
  /\ lock = "free"
  /\ ~alert_posting
  /\ mode = "IDLE"
  /\ codecs_open' = TRUE
  /\ alert_posting' = TRUE
  /\ UNCHANGED <<mode, lock, ring, next_sequence, last_sequence, first_sequence, sent_index,
                 capture, newest_sent, alert_active, alert_queue, alert_pc, alert_left,
                 alert_leaked, stored>>

AlertPost ==
  /\ alert_posting
  /\ alert_posting' = FALSE
  /\ alert_queue' = TRUE
  /\ UNCHANGED <<mode, lock, ring, next_sequence, last_sequence, first_sequence, sent_index,
                 capture, newest_sent, codecs_open, alert_active, alert_pc, alert_left,
                 alert_leaked, stored>>

(* alert_task; the steps below change nothing but the alert's own state and *)
(* the codecs.                                                              *)
AlertFrame ==
  UNCHANGED <<mode, lock, ring, next_sequence, last_sequence, first_sequence, sent_index,
              capture, newest_sent, alert_posting, stored>>

AlertReceive ==
  /\ alert_pc = "wait"
  /\ alert_queue
  /\ alert_queue' = FALSE
  /\ alert_pc' = "peek"
  /\ AlertFrame /\ UNCHANGED <<codecs_open, alert_active, alert_left, alert_leaked>>

(* alert_can_continue, once before the codecs are opened and once before    *)
(* each chunk: the mutex is released before its answer is used.             *)
AlertPeek ==
  /\ alert_pc = "peek"
  /\ lock = "free"
  /\ alert_pc' = IF mode = "IDLE" THEN "open" ELSE "wait"
  /\ AlertFrame
  /\ UNCHANGED <<codecs_open, alert_active, alert_queue, alert_left, alert_leaked>>

(* Only a codec that is closed can fail to open. *)
AlertOpen ==
  /\ alert_pc = "open"
  /\ lock = "free"
  /\ \/ /\ codecs_open' = TRUE
        /\ alert_active' = TRUE
        /\ alert_left' = AlertChunks
        /\ alert_pc' = "next"
     \/ /\ ~codecs_open
        /\ alert_pc' = "wait"
        /\ UNCHANGED <<codecs_open, alert_active, alert_left>>
  /\ AlertFrame /\ UNCHANGED <<alert_queue, alert_leaked>>

MayPlayAlways == TRUE                 \* mutant: a melody plays to its end

MayPlay == mode = "IDLE"

AlertNext ==
  /\ alert_pc = "next"
  /\ alert_left > 0 => lock = "free"
  /\ alert_pc' = IF alert_left > 0 /\ MayPlay THEN "write" ELSE "done"
  /\ AlertFrame
  /\ UNCHANGED <<codecs_open, alert_active, alert_queue, alert_left, alert_leaked>>

ChunksKept == alert_left               \* mutant: remaining is never reduced

ChunksLeft == alert_left - 1

(* esp_codec_dev_write blocks for the chunk; an error ends the melody. *)
AlertWrite ==
  /\ alert_pc = "write"
  /\ alert_left' = ChunksLeft
  /\ alert_leaked' = IF mode = "IDLE" THEN alert_leaked ELSE alert_leaked + 1
  /\ alert_pc' \in {"next", "done"}
  /\ AlertFrame /\ UNCHANGED <<codecs_open, alert_active, alert_queue>>

AlertDone ==
  /\ alert_pc = "done"
  /\ lock = "free"
  /\ alert_active' = FALSE
  /\ alert_pc' = "wait"
  /\ AlertFrame /\ UNCHANGED <<codecs_open, alert_queue, alert_left, alert_leaked>>

AlertStep ==
  AlertReceive \/ AlertPeek \/ AlertOpen \/ AlertNext \/ AlertWrite \/ AlertDone

-----------------------------------------------------------------------------
CommitStep == CommitSend \/ CommitEnd

Next ==
  \/ Prepare \/ CommitBegin \/ CommitStep \/ Halt \/ PowerDown
  \/ CaptureStep
  \/ AlertPlay \/ AlertPost
  \/ AlertStep

(* The tasks are scheduled and a commit returns; a task that waits for the  *)
(* mutex gets it in the end, however often it is held when the task looks.  *)
(* When the callers call is not fair.                                       *)
Fairness == WF_vars(CommitStep) /\ SF_vars(AlertStep) /\ WF_vars(AlertPost)

Spec == Init /\ [][Next]_vars /\ Fairness

-----------------------------------------------------------------------------
(* The capture implements CaptureControl. *)
Control == INSTANCE CaptureControl WITH
             taken <- capture_pc = "send", newest <- newest_sent

ImplementsControl == Control!Spec

-----------------------------------------------------------------------------
TypeOK ==
  /\ mode \in Control!Modes
  /\ lock \in {"free", "commit"}
  /\ pre_roll \in [0..(N - 1) -> Nat]
  /\ pre_roll_start \in 0..(N - 1)
  /\ pre_roll_count \in 0..N
  /\ next_sequence \in Nat \ {0}
  /\ last_sequence \in Nat
  /\ first_sequence \in Nat \ {0}
  /\ sent_index \in 0..N
  /\ capture_pc \in {"check", "read", "store", "send", "record"}
  /\ frame \in Nat
  /\ newest_sent \in Nat
  /\ codecs_open \in BOOLEAN
  /\ alert_active \in BOOLEAN
  /\ alert_posting \in BOOLEAN
  /\ alert_queue \in BOOLEAN
  /\ alert_pc \in {"wait", "peek", "open", "next", "write", "done"}
  /\ alert_left \in 0..AlertChunks
  /\ stored \in Seq(Nat)
  /\ alert_leaked \in Nat

(* The pre-roll ring holds the newest frames stored since prepare, oldest    *)
(* first, however often it has wrapped: the speech before the hold time is  *)
(* what the user said, in order and without a hole.                         *)
RingIsNewest ==
  mode = "PRE_ROLL" =>
    /\ pre_roll_count = (IF Len(stored) < N THEN Len(stored) ELSE N)
    /\ \A i \in 0..(pre_roll_count - 1) :
         pre_roll[RingSlot(i)] = stored[Len(stored) - pre_roll_count + i + 1]

(* A capture, and an alert that plays, never lose their codecs to the power *)
(* task that switches them off with the screen.                             *)
CodecsOpenInUse == mode # "IDLE" \/ alert_active => codecs_open

(* stop reports the newest frame sent, or the one before it while the       *)
(* capture task is between sending a frame and recording it: last_sequence  *)
(* is written outside the mutex that stop reads it under.                   *)
LastSequenceTracksWire ==
  \/ last_sequence = newest_sent
  \/ capture_pc = "record" /\ newest_sent = frame /\ last_sequence < frame

(* Frames reach the transport in strictly increasing order, across commits, *)
(* halts and the two tasks that send them.                                  *)
FramesInOrder == [][newest_sent' # newest_sent => newest_sent' > newest_sent]_vars

(* No frame older than the one before the announced first one is sent: a    *)
(* frame numbered just before prepare may still enter the new capture.      *)
FramesAnnounced ==
  [][newest_sent' # newest_sent => newest_sent' + 1 >= first_sequence]_vars

(* An alert plays at most one chunk into a capture before it gives way. *)
AlertYields == alert_leaked <= 1

(* An alert ends, by itself or because a capture interrupted it: until then *)
(* the codecs could not be powered down.                                    *)
AlertEnds == alert_active ~> ~alert_active
================================================================================
