-------------------------- MODULE AudioCapture_proofs --------------------------
(***************************************************************************)
(* AudioCapture for a ring, a melody and a recording of any length.  The   *)
(* argument runs over "stored", the frames stored since prepare: the ring  *)
(* is its tail, it increases, and a commit sends its tail; the frame the   *)
(* capture task holds is the newest number of all, and while that task is  *)
(* sending the ring is empty, so the two senders never overtake each other.*)
(***************************************************************************)
EXTENDS AudioCapture, TLAPS

(* Frames stored since prepare that a commit has not sent yet. *)
Unsent ==
  IF lock = "commit"
  THEN (Len(stored) - pre_roll_count + sent_index + 1)..Len(stored)
  ELSE 1..Len(stored)

NumbersInv ==
  /\ newest_sent < next_sequence
  /\ frame < next_sequence
  /\ first_sequence <= next_sequence
  /\ capture_pc \in {"store", "send"} => frame + 1 = next_sequence /\ newest_sent < frame
  /\ capture_pc \in {"send", "record"} => pre_roll_count = 0
  /\ capture_pc = "record" => newest_sent = frame

ModeInv ==
  /\ mode # "PRE_ROLL" => pre_roll_count = 0
  /\ lock = "commit" => mode = "PRE_ROLL" /\ sent_index <= pre_roll_count

StoredInv ==
  /\ \A i, j \in 1..Len(stored) : i < j => stored[i] < stored[j]
  /\ \A i \in 1..Len(stored) :
       /\ stored[i] < next_sequence
       /\ stored[i] + 1 >= first_sequence
       /\ capture_pc = "store" => stored[i] < frame
  /\ mode = "PRE_ROLL" => \A i \in Unsent : newest_sent < stored[i]

AlertInv ==
  /\ alert_pc = "write" => alert_left > 0
  /\ alert_pc = "write" /\ mode # "IDLE" => alert_leaked = 0

CaptureInv == NumbersInv /\ ModeInv /\ StoredInv /\ RingIsNewest /\ LastSequenceTracksWire

Inv == TypeOK /\ CaptureInv /\ AlertInv /\ AlertYields /\ CodecsOpenInUse

(* What the alert and the power task never touch. *)
core == <<mode, lock, ring, next_sequence, last_sequence, first_sequence, sent_index,
          capture, newest_sent, stored>>

-----------------------------------------------------------------------------
(* Indices into the ring. *)
LEMMA Modulo ==
  ASSUME NEW n \in Nat \ {0}, NEW k \in Nat, k < n + n
  PROVE  k % n = (IF k < n THEN k ELSE k - n)
OBVIOUS

LEMMA RingSize == N \in Nat \ {0}
BY RingAssumption DEF N

LEMMA WrappedIndex ==
  ASSUME NEW k \in Nat, k < N + N
  PROVE  /\ k < N => Wrapped(k) = k
         /\ k >= N => Wrapped(k) = k - N
         /\ Wrapped(k) \in 0..(N - 1)
<1>1. Wrapped(k) = (IF k < N THEN k ELSE k - N)
  BY RingSize, Modulo DEF Wrapped
<1> QED
  BY <1>1, RingSize

(* Moving the start of a full ring on by one shifts every slot by one, and  *)
(* leaves the old start as its last slot.                                   *)
LEMMA ShiftedStart ==
  ASSUME NEW a \in 0..(N - 1), NEW s, s = Wrapped(a + 1)
  PROVE  /\ s \in 0..(N - 1)
         /\ Wrapped(s + N - 1) = a
         /\ \A i \in 0..(N - 2) : Wrapped(s + i) = Wrapped(a + (i + 1))
<1>1. N \in Nat \ {0}
  BY RingSize
<1>2. /\ a < N - 1 => s = a + 1
      /\ a = N - 1 => s = 0
      /\ s \in 0..(N - 1)
  <2> PICK k : k = a + 1
    OBVIOUS
  <2>1. k \in Nat /\ k < N + N
    BY <1>1
  <2>2. s = Wrapped(k)
    OBVIOUS
  <2>3. /\ k < N => s = k
        /\ k >= N => s = k - N
        /\ s \in 0..(N - 1)
    BY <2>1, <2>2, WrappedIndex
  <2> QED
    BY <2>3, <1>1
<1>3. ASSUME NEW k, k = s + N - 1
      PROVE  Wrapped(k) = a
  <2>1. k \in Nat /\ k < N + N
    BY <1>1, <1>2, <1>3
  <2>2. /\ k < N => Wrapped(k) = k
        /\ k >= N => Wrapped(k) = k - N
    BY <2>1, WrappedIndex
  <2> QED
    BY <1>1, <1>2, <1>3, <2>2
<1>4. ASSUME NEW i \in 0..(N - 2), NEW k, k = s + i, NEW m, m = a + (i + 1)
      PROVE  Wrapped(k) = Wrapped(m)
  <2>1. k \in Nat /\ k < N + N /\ m \in Nat /\ m < N + N
    BY <1>1, <1>2, <1>4
  <2>2. /\ k < N => Wrapped(k) = k
        /\ k >= N => Wrapped(k) = k - N
        /\ m < N => Wrapped(m) = m
        /\ m >= N => Wrapped(m) = m - N
    BY <2>1, WrappedIndex
  <2> QED
    BY <1>1, <1>2, <1>4, <2>1, <2>2
<1> QED
  BY <1>2, <1>3, <1>4

(* Different indices of a ring are different slots. *)
LEMMA SlotsDiffer ==
  ASSUME NEW a \in 0..(N - 1), NEW i \in 0..(N - 1), NEW j \in 0..(N - 1), i < j
  PROVE  Wrapped(a + i) # Wrapped(a + j)
<1>1. N \in Nat \ {0}
  BY RingSize
<1> SUFFICES ASSUME NEW k, k = a + i, NEW m, m = a + j
             PROVE  Wrapped(k) # Wrapped(m)
  OBVIOUS
<1>2. k \in Nat /\ k < N + N /\ m \in Nat /\ m < N + N
  BY <1>1
<1>3. /\ k < N => Wrapped(k) = k
      /\ k >= N => Wrapped(k) = k - N
      /\ m < N => Wrapped(m) = m
      /\ m >= N => Wrapped(m) = m - N
  BY <1>2, WrappedIndex
<1> QED
  BY <1>1, <1>2, <1>3

LEMMA SlotInRing ==
  ASSUME NEW a \in 0..(N - 1), NEW i \in 0..N
  PROVE  Wrapped(a + i) \in 0..(N - 1)
<1> SUFFICES ASSUME NEW k, k = a + i
             PROVE  Wrapped(k) \in 0..(N - 1)
  OBVIOUS
<1>1. k \in Nat /\ k < N + N
  BY RingSize
<1> QED
  BY <1>1, WrappedIndex

(* A frame put into the ring becomes the newest of it; a full ring loses    *)
(* its oldest.                                                              *)
LEMMA PutInRingIsNewest ==
  ASSUME TypeOK, RingIsNewest, mode = "PRE_ROLL", PutInRing,
         stored' = Append(stored, frame)
  PROVE  /\ pre_roll' \in [0..(N - 1) -> Nat]
         /\ pre_roll_start' \in 0..(N - 1)
         /\ pre_roll_count' \in 0..N
         /\ RingIsNewest'
<1>1. N \in Nat \ {0}
  BY RingSize
<1>2. /\ frame \in Nat /\ stored \in Seq(Nat) /\ Len(stored) \in Nat
      /\ pre_roll \in [0..(N - 1) -> Nat]
      /\ pre_roll_start \in 0..(N - 1) /\ pre_roll_count \in 0..N
  BY DEF TypeOK
<1>3. /\ Len(stored') = Len(stored) + 1
      /\ stored'[Len(stored) + 1] = frame
      /\ \A i \in 1..Len(stored) : stored'[i] = stored[i]
  BY <1>2
<1>4. /\ Len(stored) < N => pre_roll_count = Len(stored)
      /\ Len(stored) >= N => pre_roll_count = N
  BY <1>1, <1>2 DEF RingIsNewest
<1>5. \A i \in 0..(pre_roll_count - 1) :
        pre_roll[Wrapped(pre_roll_start + i)] = stored[Len(stored) - pre_roll_count + i + 1]
  BY DEF RingIsNewest, RingSlot
<1>6. CASE pre_roll_count = N
  <2> DEFINE s == Wrapped(pre_roll_start + 1)
  <2>1. /\ s \in 0..(N - 1)
        /\ Wrapped(s + N - 1) = pre_roll_start
        /\ \A i \in 0..(N - 2) : Wrapped(s + i) = Wrapped(pre_roll_start + (i + 1))
    BY <1>2, ShiftedStart
  <2>2. /\ pre_roll_start' = s
        /\ pre_roll' = [pre_roll EXCEPT ![Wrapped(s + N - 1)] = frame]
        /\ pre_roll_count' = N
    BY <1>6, <1>1, <1>2 DEF PutInRing
  <2> HIDE DEF s
  <2>3. \A i \in 0..(N - 2) : Wrapped(s + i) \in 0..(N - 1) /\ Wrapped(s + i) # pre_roll_start
    <3> SUFFICES ASSUME NEW i \in 0..(N - 2)
                 PROVE  Wrapped(s + i) \in 0..(N - 1) /\ Wrapped(s + i) # pre_roll_start
      OBVIOUS
    <3>1. i \in 0..N /\ i \in 0..(N - 1) /\ N - 1 \in 0..(N - 1) /\ i < N - 1
      BY <1>1
    <3>2. Wrapped(s + (N - 1)) = pre_roll_start
      BY <2>1, <1>1
    <3> QED
      BY <3>1, <3>2, <2>1, SlotInRing, SlotsDiffer
  <2>4. \A i \in 0..(N - 1) :
          pre_roll'[Wrapped(s + i)] = stored'[Len(stored') - N + i + 1]
    <3> SUFFICES ASSUME NEW i \in 0..(N - 1), NEW n, n = Len(stored') - N + i + 1
                 PROVE  pre_roll'[Wrapped(s + i)] = stored'[n]
      OBVIOUS
    <3>2. CASE i = N - 1
      <4>1. n = Len(stored) + 1
        BY <3>2, <1>1, <1>2, <1>3
      <4>2. Wrapped(s + i) = pre_roll_start
        BY <3>2, <2>1, <1>1
      <4> QED
        BY <4>1, <4>2, <2>1, <2>2, <1>2, <1>3
    <3>3. CASE i \in 0..(N - 2)
      <4>1. /\ i + 1 \in 0..(pre_roll_count - 1)
            /\ n = Len(stored) - pre_roll_count + (i + 1) + 1
            /\ n \in 1..Len(stored)
        BY <3>3, <1>1, <1>2, <1>3, <1>4, <1>6
      <4>2. pre_roll[Wrapped(pre_roll_start + (i + 1))] = stored[n]
        BY <4>1, <1>5
      <4>3. pre_roll'[Wrapped(s + i)] = pre_roll[Wrapped(s + i)]
        BY <3>3, <2>1, <2>2, <2>3, <1>2
      <4> QED
        BY <3>3, <4>1, <4>2, <4>3, <2>1, <1>3
    <3>4. i = N - 1 \/ i \in 0..(N - 2)
      BY <1>1
    <3> QED
      BY <3>2, <3>3, <3>4
  <2>5. pre_roll' \in [0..(N - 1) -> Nat]
    BY <2>2, <1>2
  <2>6. Len(stored) + 1 >= N
    BY <1>1, <1>2, <1>4, <1>6
  <2>7. pre_roll_count' = (IF Len(stored') < N THEN Len(stored') ELSE N)
    BY <1>1, <1>2, <1>3, <2>2, <2>6
  <2>8. \A i \in 0..(pre_roll_count' - 1) :
          pre_roll'[Wrapped(pre_roll_start' + i)]
            = stored'[Len(stored') - pre_roll_count' + i + 1]
    BY <2>2, <2>4
  <2> QED
    <3>1. pre_roll_start' \in 0..(N - 1) /\ pre_roll_count' \in 0..N
      BY <1>1, <2>1, <2>2
    <3>2. RingIsNewest'
      BY <2>7, <2>8 DEF RingIsNewest, RingSlot
    <3> QED
      BY <2>5, <3>1, <3>2
<1>7. CASE pre_roll_count < N
  <2> DEFINE s == pre_roll_start
             t == Wrapped(s + pre_roll_count)
  <2>1. /\ pre_roll_start' = s
        /\ pre_roll' = [pre_roll EXCEPT ![t] = frame]
        /\ pre_roll_count' = pre_roll_count + 1
    BY <1>7, <1>2 DEF PutInRing
  <2>2. t \in 0..(N - 1)
    BY <1>2, SlotInRing
  <2>3. pre_roll_count = Len(stored)
    BY <1>1, <1>2, <1>4, <1>7
  <2>4. \A i \in 0..(pre_roll_count - 1) : Wrapped(s + i) \in 0..(N - 1) /\ Wrapped(s + i) # t
    <3> SUFFICES ASSUME NEW i \in 0..(pre_roll_count - 1)
                 PROVE  Wrapped(s + i) \in 0..(N - 1) /\ Wrapped(s + i) # t
      OBVIOUS
    <3>1. i \in 0..N /\ i \in 0..(N - 1) /\ pre_roll_count \in 0..(N - 1) /\ i < pre_roll_count
      BY <1>1, <1>2, <1>7
    <3> QED
      BY <3>1, <1>2, SlotInRing, SlotsDiffer
  <2> HIDE DEF t
  <2>5. \A i \in 0..pre_roll_count : pre_roll'[Wrapped(s + i)] = stored'[i + 1]
    <3> SUFFICES ASSUME NEW i \in 0..pre_roll_count
                 PROVE  pre_roll'[Wrapped(s + i)] = stored'[i + 1]
      OBVIOUS
    <3>1. CASE i = pre_roll_count
      BY <3>1, <2>1, <2>2, <2>3, <1>2, <1>3 DEF t
    <3>2. CASE i \in 0..(pre_roll_count - 1)
      <4>1. /\ i + 1 = Len(stored) - pre_roll_count + i + 1
            /\ i + 1 \in 1..Len(stored)
        BY <3>2, <2>3, <1>2
      <4>2. pre_roll[Wrapped(s + i)] = stored[i + 1]
        BY <3>2, <4>1, <1>5
      <4>3. pre_roll'[Wrapped(s + i)] = pre_roll[Wrapped(s + i)]
        BY <3>2, <2>1, <2>2, <2>4, <1>2
      <4> QED
        BY <4>1, <4>2, <4>3, <1>3
    <3>3. i = pre_roll_count \/ i \in 0..(pre_roll_count - 1)
      BY <1>2
    <3> QED
      BY <3>1, <3>2, <3>3
  <2>6. pre_roll' \in [0..(N - 1) -> Nat]
    BY <2>1, <1>2
  <2> QED
    BY <1>1, <1>2, <1>3, <1>7, <2>1, <2>3, <2>5, <2>6 DEF RingIsNewest, RingSlot
<1>8. pre_roll_count = N \/ pre_roll_count < N
  BY <1>1, <1>2
<1> QED
  BY <1>6, <1>7, <1>8

-----------------------------------------------------------------------------
(* Types. *)
LEMMA TypeInitial ==
  ASSUME Init
  PROVE  TypeOK
<1>1. 0 \in 0..(N - 1) /\ 0 \in 0..N /\ 0 \in 0..AlertChunks
  BY RingSize, BoundsAssumption
<1>2. pre_roll \in [0..(N - 1) -> Nat] /\ stored \in Seq(Nat)
  BY DEF Init
<1>3. /\ codecs_open \in BOOLEAN /\ alert_active \in BOOLEAN
      /\ alert_posting \in BOOLEAN /\ alert_queue \in BOOLEAN
  BY Zenon DEF Init
<1>4. mode \in Control!Modes /\ capture_pc = "check" /\ alert_pc = "wait" /\ lock = "free"
  BY DEF Init, Control!Modes
<1>5. /\ pre_roll_start = 0 /\ pre_roll_count = 0 /\ sent_index = 0 /\ alert_left = 0
      /\ next_sequence = 1 /\ first_sequence = 1 /\ last_sequence = 0 /\ newest_sent = 0
      /\ frame = 0 /\ alert_leaked = 0
  BY DEF Init
<1> QED
  BY <1>1, <1>2, <1>3, <1>4, <1>5 DEF TypeOK

LEMMA TypeStep ==
  ASSUME Inv, [Next]_vars
  PROVE  TypeOK'
<1> USE DEF Control!Modes
<1>1. TypeOK /\ ModeInv /\ RingIsNewest /\ AlertInv /\ N \in Nat \ {0}
  BY RingSize DEF Inv, CaptureInv
<1>2. CASE Prepare
  BY <1>1, <1>2 DEF TypeOK, Prepare, FirstSequence, capture
<1>3. CASE CommitBegin
  BY <1>1, <1>3 DEF TypeOK, CommitBegin, capture, ring, alert
<1>4. CASE CommitSend
  <2>1. RingSlot(sent_index) \in 0..(N - 1) /\ sent_index + 1 \in 0..N
    BY <1>1, <1>4, SlotInRing DEF TypeOK, CommitSend, RingSlot
  <2> QED
    BY <1>1, <1>4, <2>1 DEF TypeOK, CommitSend, CommitRecords, capture, ring, alert
<1>5. CASE CommitEnd
  BY <1>1, <1>5 DEF TypeOK, CommitEnd, capture, ring, alert
<1>6. CASE Halt
  BY <1>1, <1>6, SMTT(30) DEF TypeOK, Halt, capture, ring, alert
<1>7. CASE PowerDown
  BY <1>1, <1>7, SMTT(30) DEF TypeOK, PowerDown, capture, ring, alert
<1>8. CASE CheckMode \/ ReadFrame \/ ReadFails
  <2>1. CASE CheckMode
    BY <1>1, <2>1 DEF TypeOK, CheckMode, ring, alert
  <2>2. CASE ReadFrame
    <3>1. next_sequence' \in Nat \ {0} /\ frame' \in Nat
      BY <1>1, <2>2 DEF TypeOK, ReadFrame
    <3> QED
      BY <1>1, <2>2, <3>1 DEF TypeOK, ReadFrame, ring, alert
  <2>3. CASE ReadFails
    BY <1>1, <2>3 DEF TypeOK, ReadFails, ring, alert
  <2> QED
    BY <1>8, <2>1, <2>2, <2>3
<1>9. CASE StoreFrame
  <2>1. /\ pre_roll' \in [0..(N - 1) -> Nat]
        /\ pre_roll_start' \in 0..(N - 1)
        /\ pre_roll_count' \in 0..N
    BY <1>1, <1>9, PutInRingIsNewest DEF StoreFrame
  <2>2. stored' \in Seq(Nat)
    BY <1>1, <1>9 DEF TypeOK, StoreFrame
  <2> QED
    BY <1>1, <1>9, <2>1, <2>2 DEF TypeOK, StoreFrame, capture, ring, alert
<1>10. CASE TakeFrame \/ DropFrame \/ SendFrame \/ RecordLast
  <2>1. CASE TakeFrame
    BY <1>1, <2>1 DEF TypeOK, TakeFrame, capture, ring, alert
  <2>2. CASE DropFrame
    BY <1>1, <2>2 DEF TypeOK, DropFrame, capture, ring, alert
  <2>3. CASE SendFrame
    BY <1>1, <2>3 DEF TypeOK, SendFrame, capture, ring, alert
  <2>4. CASE RecordLast
    BY <1>1, <2>4 DEF TypeOK, RecordLast, capture, ring, alert
  <2> QED
    BY <1>10, <2>1, <2>2, <2>3, <2>4
<1>11. CASE AlertPlay \/ AlertPost
  <2>1. CASE AlertPlay
    BY <1>1, <2>1 DEF TypeOK, AlertPlay, capture, ring
  <2>2. CASE AlertPost
    BY <1>1, <2>2, ZenonT(60) DEF TypeOK, AlertPost, capture, ring
  <2> QED
    BY <1>11, <2>1, <2>2
<1>12. CASE AlertStep
  <2>1. CASE AlertReceive \/ AlertPeek
    <3>1. CASE AlertReceive
      BY <1>1, <3>1 DEF TypeOK, AlertReceive, AlertFrame, capture, ring
    <3>2. CASE AlertPeek
      BY <1>1, <3>2 DEF TypeOK, AlertPeek, AlertFrame, capture, ring
    <3> QED
      BY <2>1, <3>1, <3>2
  <2>2. CASE AlertOpen
    <3>1. AlertChunks \in 0..AlertChunks
      BY BoundsAssumption
    <3> QED
      BY <1>1, <2>2, <3>1 DEF TypeOK, AlertOpen, AlertFrame, capture, ring
  <2>3. CASE AlertNext \/ AlertDone
    <3>1. CASE AlertNext
      BY <1>1, <3>1 DEF TypeOK, AlertNext, AlertFrame, capture, ring
    <3>2. CASE AlertDone
      BY <1>1, <3>2 DEF TypeOK, AlertDone, AlertFrame, capture, ring
    <3> QED
      BY <2>3, <3>1, <3>2
  <2>4. CASE AlertWrite
    <3>1. alert_left' \in 0..AlertChunks /\ alert_leaked' \in Nat
      BY <1>1, <2>4, BoundsAssumption DEF TypeOK, AlertInv, AlertWrite, ChunksLeft
    <3> QED
      BY <1>1, <2>4, <3>1 DEF TypeOK, AlertWrite, AlertFrame, capture, ring
  <2> QED
    BY <1>12, <2>1, <2>2, <2>3, <2>4 DEF AlertStep
<1>13. CASE UNCHANGED vars
  BY <1>1, <1>13 DEF TypeOK, vars, capture, ring, alert
<1> QED
  BY <1>2, <1>3, <1>4, <1>5, <1>6, <1>7, <1>8, <1>9, <1>10, <1>11, <1>12, <1>13
  DEF Next, CommitStep, CaptureStep

-----------------------------------------------------------------------------
(* The alert, the codecs and the power task. *)
LEMMA AlertStepKeeps ==
  ASSUME Inv, [Next]_vars
  PROVE  AlertInv' /\ AlertYields' /\ CodecsOpenInUse'
<1> USE DEF AlertInv, AlertYields, CodecsOpenInUse
<1>1. TypeOK /\ ModeInv /\ AlertInv /\ AlertYields /\ CodecsOpenInUse
  BY DEF Inv, CaptureInv
<1>2. CASE Prepare
  BY <1>1, <1>2 DEF Prepare
<1>3. CASE CommitBegin \/ CommitSend
  BY <1>1, <1>3 DEF CommitBegin, CommitSend, alert
<1>4. CASE CommitEnd
  BY <1>1, <1>4 DEF CommitEnd, ModeInv, alert
<1>5. CASE Halt
  BY <1>1, <1>5 DEF Halt, alert
<1>6. CASE PowerDown
  BY <1>1, <1>6 DEF PowerDown, MayPowerDown, alert
<1>7. CASE CaptureStep
  BY <1>1, <1>7 DEF CaptureStep, CheckMode, ReadFrame, ReadFails, StoreFrame, TakeFrame,
                    DropFrame, SendFrame, RecordLast, alert
<1>8. CASE AlertPlay \/ AlertPost
  BY <1>1, <1>8 DEF AlertPlay, AlertPost
<1>9. CASE AlertStep
  BY <1>1, <1>9, BoundsAssumption
  DEF TypeOK, AlertStep, AlertReceive, AlertPeek, AlertOpen, AlertNext, AlertWrite,
      AlertDone, AlertFrame, MayPlay
<1>10. CASE UNCHANGED vars
  BY <1>1, <1>10 DEF vars, alert
<1> QED
  BY <1>2, <1>3, <1>4, <1>5, <1>6, <1>7, <1>8, <1>9, <1>10 DEF Next, CommitStep

-----------------------------------------------------------------------------
(* The recording. *)
LEMMA CaptureInitial ==
  ASSUME Init
  PROVE  CaptureInv /\ AlertInv /\ AlertYields /\ CodecsOpenInUse
BY DEF Init, CaptureInv, NumbersInv, ModeInv, StoredInv, RingIsNewest, LastSequenceTracksWire,
       AlertInv, AlertYields, CodecsOpenInUse

(* The frame a commit sends is the oldest one stored and not yet sent. *)
LEMMA SentIsUnsent ==
  ASSUME Inv, CommitSend
  PROVE  \E n \in 1..Len(stored) :
           /\ newest_sent' = stored[n]
           /\ newest_sent < stored[n]
           /\ Unsent' = (n + 1)..Len(stored)
<1>1. /\ TypeOK /\ ModeInv /\ StoredInv /\ RingIsNewest /\ mode = "PRE_ROLL"
      /\ N \in Nat \ {0}
  BY RingSize DEF Inv, CaptureInv, ModeInv, CommitSend
<1> DEFINE n == Len(stored) - pre_roll_count + sent_index + 1
<1>2. /\ sent_index \in 0..(pre_roll_count - 1)
      /\ Len(stored) \in Nat /\ pre_roll_count <= Len(stored) /\ pre_roll_count \in Nat
  BY <1>1 DEF TypeOK, CommitSend, RingIsNewest
<1>3. n \in 1..Len(stored)
  BY <1>2
<1>4. newest_sent' = stored[n]
  BY <1>1, <1>2 DEF CommitSend, RingIsNewest
<1>5. Unsent = n..Len(stored) /\ Unsent' = (n + 1)..Len(stored)
  BY <1>2 DEF Unsent, CommitSend, ring
<1>6. n \in Unsent
  BY <1>3, <1>5
<1>7. newest_sent < stored[n]
  BY <1>1, <1>6 DEF StoredInv
<1> QED
  BY <1>3, <1>4, <1>5, <1>7

LEMMA CommitSendKeeps ==
  ASSUME Inv, CommitSend
  PROVE  CaptureInv'
<1>1. PICK n \in 1..Len(stored) :
        /\ newest_sent' = stored[n]
        /\ newest_sent < stored[n]
        /\ Unsent' = (n + 1)..Len(stored)
  BY SentIsUnsent
<1>2. TypeOK /\ NumbersInv /\ ModeInv /\ StoredInv /\ RingIsNewest /\ LastSequenceTracksWire
  BY DEF Inv, CaptureInv
<1>3. capture_pc # "send" /\ capture_pc # "record"
  BY <1>2 DEF CommitSend, NumbersInv, TypeOK
<1>4. /\ stored[n] \in Nat /\ stored[n] < next_sequence
      /\ capture_pc = "store" => stored[n] < frame
  BY <1>2 DEF StoredInv, TypeOK
<1>5. NumbersInv'
  BY <1>1, <1>2, <1>3, <1>4 DEF CommitSend, NumbersInv, capture, ring
<1>6. ModeInv'
  BY <1>2 DEF CommitSend, ModeInv, TypeOK, ring
<1>7. StoredInv'
  <2>1. \A i \in Unsent' : newest_sent' < stored[i]
    BY <1>1, <1>2 DEF StoredInv, TypeOK
  <2> QED
    BY <1>2, <2>1 DEF CommitSend, StoredInv, capture, ring
<1>8. RingIsNewest'
  BY <1>2 DEF CommitSend, RingIsNewest, RingSlot, ring
<1>9. LastSequenceTracksWire'
  BY DEF CommitSend, CommitRecords, LastSequenceTracksWire
<1> QED
  BY <1>5, <1>6, <1>7, <1>8, <1>9 DEF CaptureInv

LEMMA StoreFrameKeeps ==
  ASSUME Inv, StoreFrame
  PROVE  CaptureInv'
<1>1. TypeOK /\ NumbersInv /\ ModeInv /\ StoredInv /\ RingIsNewest /\ LastSequenceTracksWire
  BY DEF Inv, CaptureInv
<1>2. NumbersInv'
  BY <1>1 DEF StoreFrame, NumbersInv
<1>3. ModeInv'
  BY <1>1 DEF StoreFrame, ModeInv
<1>4. StoredInv'
  <2>1. /\ Len(stored') = Len(stored) + 1 /\ Len(stored) \in Nat
        /\ stored'[Len(stored) + 1] = frame
        /\ \A i \in 1..Len(stored) : stored'[i] = stored[i]
    BY <1>1 DEF StoreFrame, TypeOK
  <2>2. /\ \A i \in 1..Len(stored) : stored[i] < frame
        /\ newest_sent < frame /\ frame < next_sequence /\ frame + 1 >= first_sequence
    BY <1>1 DEF StoreFrame, StoredInv, NumbersInv, TypeOK
  <2>3. \A i, j \in 1..Len(stored') : i < j => stored'[i] < stored'[j]
    BY <1>1, <2>1, <2>2 DEF StoredInv
  <2>4. \A i \in 1..Len(stored') : stored'[i] < next_sequence /\ stored'[i] + 1 >= first_sequence
    BY <1>1, <2>1, <2>2 DEF StoredInv
  <2>5. \A i \in Unsent' : newest_sent < stored'[i]
    <3>1. Unsent = 1..Len(stored) /\ Unsent' = 1..Len(stored')
      BY DEF Unsent, StoreFrame
    <3> QED
      BY <1>1, <2>1, <2>2, <3>1 DEF StoredInv, StoreFrame
  <2> QED
    BY <2>3, <2>4, <2>5 DEF StoredInv, StoreFrame
<1>5. RingIsNewest'
  BY <1>1, PutInRingIsNewest DEF StoreFrame
<1>6. LastSequenceTracksWire'
  BY <1>1 DEF StoreFrame, LastSequenceTracksWire
<1> QED
  BY <1>2, <1>3, <1>4, <1>5, <1>6 DEF CaptureInv

LEMMA CaptureStepKeeps ==
  ASSUME Inv, [Next]_vars
  PROVE  CaptureInv'
<1>1. TypeOK /\ NumbersInv /\ ModeInv /\ StoredInv /\ RingIsNewest /\ LastSequenceTracksWire
  BY DEF Inv, CaptureInv
<1>2. mode = "PRE_ROLL" /\ pre_roll_count = 0 => Len(stored) = 0
  BY <1>1, RingSize DEF RingIsNewest, TypeOK
<1> USE DEF CaptureInv
<1>3. CASE Prepare
  <2>1. Len(stored') = 0
    BY <1>3 DEF Prepare
  <2>2. NumbersInv' /\ ModeInv'
    BY <1>1, <1>3 DEF Prepare, FirstSequence, NumbersInv, ModeInv, TypeOK, capture
  <2>3. StoredInv'
    <3>1. Unsent' = 1..0
      BY <1>3, <2>1 DEF Prepare, Unsent
    <3> QED
      BY <2>1, <3>1 DEF StoredInv
  <2>4. RingIsNewest'
    BY <1>3, <2>1, RingSize DEF Prepare, RingIsNewest
  <2>5. LastSequenceTracksWire'
    BY <1>1, <1>3 DEF Prepare, LastSequenceTracksWire, capture
  <2> QED
    BY <2>2, <2>3, <2>4, <2>5
<1>4. CASE CommitBegin
  <2>1. Unsent' \subseteq Unsent
    BY <1>1, <1>4, RingSize DEF CommitBegin, Unsent, RingIsNewest, TypeOK, ring
  <2>2. StoredInv'
    BY <1>1, <1>4, <2>1 DEF CommitBegin, StoredInv, capture, ring
  <2>3. NumbersInv' /\ ModeInv' /\ RingIsNewest' /\ LastSequenceTracksWire'
    BY <1>1, <1>4
    DEF CommitBegin, NumbersInv, ModeInv, RingIsNewest, RingSlot, LastSequenceTracksWire,
        TypeOK, capture, ring
  <2> QED
    BY <2>2, <2>3
<1>5. CASE CommitSend
  BY <1>5, CommitSendKeeps
<1>6. CASE CommitEnd \/ Halt
  BY <1>1, <1>6
  DEF CommitEnd, Halt, NumbersInv, ModeInv, StoredInv, RingIsNewest, LastSequenceTracksWire,
      capture
<1>7. CASE CheckMode \/ ReadFails \/ TakeFrame \/ DropFrame
  <2>1. Unsent' = Unsent
    BY <1>7 DEF CheckMode, ReadFails, TakeFrame, DropFrame, Unsent, ring
  <2>2. StoredInv'
    BY <1>1, <1>7, <2>1 DEF CheckMode, ReadFails, TakeFrame, DropFrame, StoredInv
  <2>3. NumbersInv' /\ ModeInv' /\ RingIsNewest' /\ LastSequenceTracksWire'
    BY <1>1, <1>7
    DEF CheckMode, ReadFails, TakeFrame, DropFrame, MayStream, NumbersInv, ModeInv,
        RingIsNewest, RingSlot, LastSequenceTracksWire, ring
  <2> QED
    BY <2>2, <2>3
<1>8. CASE ReadFrame
  <2>1. Unsent' = Unsent
    BY <1>8 DEF ReadFrame, Unsent, ring
  <2>2. \A i \in 1..Len(stored) : stored[i] \in Nat
    BY <1>1 DEF TypeOK
  <2>3. StoredInv'
    BY <1>1, <1>8, <2>1, <2>2 DEF ReadFrame, StoredInv, TypeOK
  <2>4. NumbersInv' /\ ModeInv' /\ RingIsNewest' /\ LastSequenceTracksWire'
    BY <1>1, <1>8
    DEF ReadFrame, NumbersInv, ModeInv, RingIsNewest, RingSlot, LastSequenceTracksWire,
        TypeOK, ring
  <2> QED
    BY <2>3, <2>4
<1>9. CASE StoreFrame
  BY <1>9, StoreFrameKeeps
<1>10. CASE SendFrame
  <2>1. Unsent' = Unsent
    BY <1>10 DEF SendFrame, Unsent, ring
  <2>2. mode = "PRE_ROLL" => Unsent = {}
    BY <1>1, <1>2, <1>10 DEF SendFrame, Unsent, NumbersInv, ModeInv, TypeOK
  <2>3. StoredInv'
    BY <1>1, <1>10, <2>1, <2>2 DEF SendFrame, StoredInv
  <2>4. NumbersInv' /\ ModeInv' /\ RingIsNewest' /\ LastSequenceTracksWire'
    BY <1>1, <1>10
    DEF SendFrame, NumbersInv, ModeInv, RingIsNewest, RingSlot, LastSequenceTracksWire,
        TypeOK, ring
  <2> QED
    BY <2>3, <2>4
<1>11. CASE RecordLast
  <2>1. Unsent' = Unsent
    BY <1>11 DEF RecordLast, Unsent, ring
  <2>2. StoredInv'
    BY <1>1, <1>11, <2>1 DEF RecordLast, StoredInv
  <2>3. NumbersInv' /\ ModeInv' /\ RingIsNewest' /\ LastSequenceTracksWire'
    BY <1>1, <1>11
    DEF RecordLast, NumbersInv, ModeInv, RingIsNewest, RingSlot, LastSequenceTracksWire, ring
  <2> QED
    BY <2>2, <2>3
<1>12. CASE UNCHANGED core
  <2>1. Unsent' = Unsent
    BY <1>12 DEF core, Unsent, ring
  <2>2. StoredInv'
    BY <1>1, <1>12, <2>1 DEF core, StoredInv, ring, capture
  <2>3. NumbersInv' /\ ModeInv' /\ RingIsNewest' /\ LastSequenceTracksWire'
    BY <1>1, <1>12
    DEF core, NumbersInv, ModeInv, RingIsNewest, RingSlot, LastSequenceTracksWire, ring, capture
  <2> QED
    BY <2>2, <2>3
<1>13. PowerDown \/ AlertPlay \/ AlertPost \/ AlertStep \/ UNCHANGED vars => UNCHANGED core
  BY DEF PowerDown, AlertPlay, AlertPost, AlertStep, AlertReceive, AlertPeek, AlertOpen,
         AlertNext, AlertWrite, AlertDone, AlertFrame, vars, core
<1> QED
  BY <1>3, <1>4, <1>5, <1>6, <1>7, <1>8, <1>9, <1>10, <1>11, <1>12, <1>13
  DEF Next, CommitStep, CaptureStep

-----------------------------------------------------------------------------
THEOREM Invariance == Spec => []Inv
<1>1. Init => Inv
  BY TypeInitial, CaptureInitial DEF Inv
<1>2. Inv /\ [Next]_vars => Inv'
  BY TypeStep, CaptureStepKeeps, AlertStepKeeps DEF Inv
<1> QED
  BY <1>1, <1>2, PTL DEF Spec

(* Every value of the capture and the alert keeps its type; in particular   *)
(* the ring's start and count stay inside the ring, whatever its size.      *)
THEOREM TypeCorrect == Spec => []TypeOK
<1>1. Inv => TypeOK
  BY DEF Inv
<1> QED
  BY <1>1, Invariance, PTL

(* audio_capture.c:259-273: the pre-roll ring is the tail of what was       *)
(* stored, for every ring size and however often it wraps.                  *)
THEOREM PreRollIsNewest == Spec => []RingIsNewest
<1>1. Inv => RingIsNewest
  BY DEF Inv, CaptureInv
<1> QED
  BY <1>1, Invariance, PTL

(* The sequence number stop returns lags the wire by one frame at most.     *)
THEOREM LastSequenceIsRecent == Spec => []LastSequenceTracksWire
<1>1. Inv => LastSequenceTracksWire
  BY DEF Inv, CaptureInv
<1> QED
  BY <1>1, Invariance, PTL

(* The power task never closes the codecs of a capture or of an alert.      *)
THEOREM CodecsStayOpen == Spec => []CodecsOpenInUse
<1>1. Inv => CodecsOpenInUse
  BY DEF Inv
<1> QED
  BY <1>1, Invariance, PTL

(* However long the melody, one chunk of it at most enters a capture.       *)
THEOREM AlertGivesWay == Spec => []AlertYields
<1>1. Inv => AlertYields
  BY DEF Inv
<1> QED
  BY <1>1, Invariance, PTL

LEMMA SentFrames ==
  ASSUME Inv, [Next]_vars, newest_sent' # newest_sent
  PROVE  /\ newest_sent' > newest_sent
         /\ newest_sent' + 1 >= first_sequence
<1>1. TypeOK /\ NumbersInv /\ StoredInv
  BY DEF Inv, CaptureInv
<1>2. CASE CommitSend
  <2>1. PICK n \in 1..Len(stored) : newest_sent' = stored[n] /\ newest_sent < stored[n]
    BY <1>2, SentIsUnsent
  <2>2. stored[n] \in Nat /\ stored[n] + 1 >= first_sequence
    BY <1>1 DEF StoredInv, TypeOK
  <2> QED
    BY <1>1, <2>1, <2>2 DEF TypeOK
<1>3. CASE SendFrame
  BY <1>1, <1>3 DEF SendFrame, NumbersInv, TypeOK
<1>4. CommitSend \/ SendFrame
  BY DEF Next, Prepare, CommitBegin, CommitStep, CommitEnd, Halt, PowerDown, CaptureStep,
         CheckMode, ReadFrame, ReadFails, StoreFrame, TakeFrame, DropFrame, RecordLast,
         AlertPlay, AlertPost, AlertStep, AlertReceive, AlertPeek, AlertOpen, AlertNext,
         AlertWrite, AlertDone, AlertFrame, vars
<1> QED
  BY <1>2, <1>3, <1>4

(* Two tasks send frames, one of them without the mutex: their numbers      *)
(* still only grow.                                                         *)
THEOREM FramesAreOrdered == Spec => FramesInOrder
<1>1. Inv /\ [Next]_vars => [newest_sent' # newest_sent => newest_sent' > newest_sent]_vars
  BY SentFrames
<1> QED
  BY <1>1, Invariance, PTL DEF Spec, FramesInOrder

(* The first sequence number announced with PTT_BEGIN is right but for one  *)
(* frame that was read before the capture was prepared.                     *)
THEOREM FramesAreAnnounced == Spec => FramesAnnounced
<1>1. Inv /\ [Next]_vars
        => [newest_sent' # newest_sent => newest_sent' + 1 >= first_sequence]_vars
  BY SentFrames
<1> QED
  BY <1>1, Invariance, PTL DEF Spec, FramesAnnounced

(* The tasks, the ring and the mutex together implement CaptureControl.     *)
THEOREM CaptureImplementsControl == Spec => ImplementsControl
<1> USE DEF Control!vars
<1>1. Init => Control!Init
  BY DEF Init, Control!Init
<1>2. Inv /\ [Next]_vars => [Control!Next]_(Control!vars)
  <2> SUFFICES ASSUME Inv, [Next]_vars
               PROVE  [Control!Next]_(Control!vars)
    OBVIOUS
  <2>1. TypeOK /\ TypeOK' /\ NumbersInv /\ ModeInv
    BY TypeStep DEF Inv, CaptureInv
  <2>2. CASE Prepare
    BY <2>2 DEF Prepare, Control!Next, Control!Prepare, capture
  <2>3. CASE CommitSend
    <3>1. newest_sent' > newest_sent
      BY <2>3, <2>1, SentIsUnsent DEF TypeOK
    <3> QED
      BY <2>3, <2>1, <3>1 DEF CommitSend, ModeInv, TypeOK, Control!Next, Control!Flush, capture
  <2>4. CASE CommitEnd
    BY <2>4, <2>1 DEF CommitEnd, ModeInv, Control!Next, Control!Commit, capture
  <2>5. CASE Halt
    BY <2>5 DEF Halt, Control!Next, Control!Halt, capture
  <2>6. CASE TakeFrame
    BY <2>6 DEF TakeFrame, MayStream, Control!Next, Control!Take
  <2>7. CASE SendFrame
    BY <2>7, <2>1 DEF SendFrame, NumbersInv, TypeOK, Control!Next, Control!Emit
  <2>8. CASE CheckMode \/ ReadFrame \/ ReadFails \/ StoreFrame \/ DropFrame \/ RecordLast
    BY <2>8 DEF CheckMode, ReadFrame, ReadFails, StoreFrame, DropFrame, RecordLast
  <2>9. CASE CommitBegin \/ PowerDown \/ AlertPlay \/ AlertPost \/ AlertStep \/ UNCHANGED vars
    BY <2>9 DEF CommitBegin, PowerDown, AlertPlay, AlertPost, AlertStep, AlertReceive,
                AlertPeek, AlertOpen, AlertNext, AlertWrite, AlertDone, AlertFrame, vars, capture
  <2> QED
    BY <2>2, <2>3, <2>4, <2>5, <2>6, <2>7, <2>8, <2>9 DEF Next, CommitStep, CaptureStep
<1> QED
  BY <1>1, <1>2, Invariance, PTL DEF Spec, ImplementsControl, Control!Spec
================================================================================
