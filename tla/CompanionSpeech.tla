---------------------------- MODULE CompanionSpeech ----------------------------
(***************************************************************************)
(* A talk at the Mac: CompanionAudioCoordinator, which takes the device's  *)
(* requests off the link, the replaceable SpeechAudioInputBridge behind it *)
(* and the bridge's DoubaoSpeechRecognitionSession, with its server and    *)
(* its timers.  Everything runs on the main queue, one job after the       *)
(* other: a packet is handled in a task of its own, and an awaited end     *)
(* goes on in a job queued when its result came.  A lost link, a change of *)
(* the radio or of the settings may come before the jobs queued already.   *)
(***************************************************************************)
EXTENDS CompanionLink, Sequences

CONSTANTS MaxRequest,    \* bounds: request ids of one boot of the device,
          MaxTasks,      \* jobs queued at a time,
          MaxBridges,    \* and replacements of the bridge
          Objects        \* the recogniser's session objects; one that is not
                         \* referred to any more may be used again

ASSUME SpeechAssumption == MaxRequest \in Nat /\ MaxTasks \in Nat /\ MaxBridges \in Nat

VARIABLES talk,          \* activePTTSessionKey is set; the device uses one key
          speech,        \* speechState
          cached,        \* ids of the requests whose results are kept
          session,       \* the bridge's session, or {}
          dropped,       \* sessions the bridge let go of while their ends were
                         \* awaited, and which the awaiting end keeps alive
          bridge,        \* how often ReloadableAudioInputBridge.replace ran
          tasks,         \* the main queue's jobs
          request,       \* the device's next_request_id
          replaced,      \* history: the bridge was replaced during the talk
          overlapped     \* history: a talk was begun while the job of an end was queued

coordinator == <<talk, speech, cached, replaced>>
vars == <<link, coordinator, session, dropped, bridge, tasks, request, overlapped>>

(* A session object; sending stands for audio queued or under way.  The     *)
(* finish timer runs exactly while the end is awaited.                      *)
Session == [object : Objects, socket : BOOLEAN, finishing : BOOLEAN, awaited : BOOLEAN, 
            sending : BOOLEAN, text : BOOLEAN, finished : BOOLEAN, settling : BOOLEAN,
            end : 0..MaxRequest]

(* Of a dropped session only how its end will go on matters. *)
DroppedSession == [object : Objects, end : 0..MaxRequest, bridge : 0..MaxBridges]

Packet == [kind : {"begin", "frame", "end"}, id : 0..MaxRequest]
Outcomes == {"text", "empty", "error"}
Resume == [kind : {"resume"}, id : 0..MaxRequest, bridge : 0..MaxBridges,
           object : Objects, outcome : Outcomes]

Init ==
  /\ LinkInit
  /\ talk = FALSE /\ speech = "idle" /\ cached = {} /\ replaced = FALSE
  /\ session = {} /\ dropped = {} /\ bridge = 0 /\ tasks = <<>> /\ request = 1 /\ overlapped = FALSE

ResumeJob(object, id, from, outcome) ==
  [kind |-> "resume", id |-> id, bridge |-> from, object |-> object, outcome |-> outcome]

Resuming == \E i \in 1..Len(tasks) : tasks[i].kind = "resume"

-----------------------------------------------------------------------------
(* DoubaoSpeechRecognitionSession.  complete and fail resume the awaited    *)
(* end, if there is one: what follows is a job of the main queue.  A        *)
(* session whose socket is closed takes no audio and no end any more, so    *)
(* that the rest of its fields is not read again, and what its server may   *)
(* still bring finds nothing to resume.                                     *)
Open == {s \in session : s.socket}

Unstarted(o, socket) ==
  [object |-> o, socket |-> socket, finishing |-> FALSE, awaited |-> FALSE,
   sending |-> FALSE, text |-> FALSE, finished |-> FALSE, settling |-> FALSE, end |-> 0]

Closed(s) == Unstarted(s.object, FALSE)

Resumed(s, outcome) ==
  tasks' = IF s.awaited
           THEN Append(tasks, ResumeJob(s.object, s.end, bridge, outcome))
           ELSE tasks

Result(s) == IF s.text THEN "text" ELSE "empty"

Completed(s) ==
  /\ Resumed(s, Result(s))
  /\ session' = {IF s.awaited THEN Closed(s) ELSE [s EXCEPT !.settling = FALSE]}

Failed(s) ==
  /\ Resumed(s, "error")
  /\ session' = {Closed(s)}

(* scheduleResultSettlementIfReady *)
Settling(s) ==
  [s EXCEPT !.settling = @ \/ (s.finishing /\ s.text /\ ~s.sending /\ ~s.finished)]

sessionOnly == <<coordinator, dropped, bridge, request, overlapped>>

AudioSent ==
  /\ \E s \in Open :
       /\ s.sending
       /\ session' = {Settling([s EXCEPT !.sending = FALSE])}
  /\ UNCHANGED <<link, sessionOnly, tasks>>

ServerResult ==
  /\ \E s \in Open : session' = {Settling([s EXCEPT !.text = TRUE])}
  /\ UNCHANGED <<link, sessionOnly, tasks>>

ServerFinish ==
  /\ \E s \in Open :
       IF s.finishing
       THEN Completed([s EXCEPT !.finished = TRUE])
       ELSE session' = {[s EXCEPT !.finished = TRUE]} /\ UNCHANGED tasks
  /\ UNCHANGED <<link, sessionOnly>>

(* The connection, a send or a receive failed, or the server rejects.       *)
ServerFails ==
  /\ \E s \in Open : Failed(s)
  /\ UNCHANGED <<link, sessionOnly>>

(* completeSettledResult *)
ResultSettles ==
  /\ \E s \in Open :
       s.settling /\ s.finishing /\ s.text /\ ~s.sending /\ Completed(s)
  /\ UNCHANGED <<link, sessionOnly>>

TimeoutNeedsText ==          \* mutant: a timeout without a result is passed over
  /\ \E s \in session : s.awaited /\ s.text /\ Completed(s)
  /\ UNCHANGED <<link, sessionOnly>>

FinishTimesOut ==
  /\ \E s \in session : s.awaited /\ IF s.text THEN Completed(s) ELSE Failed(s)
  /\ UNCHANGED <<link, sessionOnly>>

SessionStep ==
  AudioSent \/ ServerResult \/ ServerFinish \/ ServerFails \/ ResultSettles \/ FinishTimesOut

(* A dropped session was not cancelled: its server, or at the latest its    *)
(* finish timer, still resumes its end.  A text that was received before    *)
(* only rules out the empty result, which does no more than a text does.    *)
DroppedAnswers(o) ==
  /\ \E d \in dropped, outcome \in Outcomes :
       /\ d.object = o
       /\ tasks' = Append(tasks, ResumeJob(o, d.end, d.bridge, outcome))
       /\ dropped' = dropped \ {d}
  /\ UNCHANGED <<link, coordinator, session, bridge, request, overlapped>>

-----------------------------------------------------------------------------
(* The bridge's abort: the session is cancelled and its awaited end is      *)
(* never resumed.                                                           *)
Aborted == session' = {}

TalkStays ==                 \* mutant: the key outlives the talk
  UNCHANGED talk /\ replaced' = FALSE

TalkOver == talk' = FALSE /\ replaced' = FALSE

CacheKept ==                 \* mutant: the cached results outlive the link
  UNCHANGED cached

CacheCleared == cached' = {}

KeyClearedFirst ==           \* mutant: the key is cleared before it is looked at
  UNCHANGED session

GivenUp == IF talk THEN Aborted ELSE UNCHANGED session

ResetConnection ==
  /\ GivenUp
  /\ TalkOver /\ speech' = "idle" /\ CacheCleared

(* handleRequest keeps the result when the operation has returned. *)
Answer(id) == cached' = cached \cup {id}

(* A request that was answered before is answered again, and nothing more.  *)
Repeated(id) ==
  /\ id \in cached
  /\ UNCHANGED <<coordinator, session>>

InUse == {s.object : s \in session} \cup {d.object : d \in dropped}
           \cup {tasks[i].object : i \in {j \in 1..Len(tasks) : tasks[j].kind = "resume"}}

Unused == CHOOSE o \in Objects : o \notin InUse

NewSession == Unstarted(Unused, TRUE)

BeginRefused(id) ==
  /\ id \notin cached /\ talk
  /\ Answer(id)
  /\ UNCHANGED <<talk, speech, replaced, session>>

Begin(id) ==
  /\ id \notin cached /\ ~talk /\ session = {}
  /\ \E o \in Objects : o \notin InUse
  /\ session' = {NewSession}
  /\ talk' = TRUE /\ speech' = "recording"
  /\ Answer(id)
  /\ UNCHANGED replaced

(* No credentials, or the bridge has a session already. *)
BeginFails(id) ==
  /\ id \notin cached /\ ~talk
  /\ speech' = "failed"
  /\ Answer(id)
  /\ UNCHANGED <<talk, replaced, session>>

(* A frame without a talk, or older than the one expected. *)
FrameIgnored == UNCHANGED <<coordinator, session>>

FrameTaken ==
  /\ talk
  /\ \E s \in Open :
       /\ ~s.finishing
       /\ session' = {[s EXCEPT !.sending = TRUE]}
  /\ UNCHANGED coordinator

FrameFails ==
  /\ talk
  /\ \A s \in Open : s.finishing
  /\ Aborted
  /\ TalkOver /\ speech' = "failed"
  /\ UNCHANGED cached

EndRefused(id) ==
  /\ id \notin cached /\ ~talk
  /\ Answer(id)
  /\ UNCHANGED <<talk, speech, replaced, session>>

EndFails(id) ==
  /\ id \notin cached /\ talk
  /\ \A s \in Open : s.awaited
  /\ Aborted
  /\ TalkOver /\ speech' = "failed"
  /\ Answer(id)

(* The result of this request is kept when its end has returned.            *)
End(id) ==
  /\ id \notin cached /\ talk
  /\ \E s \in Open :
       LET ending == [s EXCEPT !.finishing = TRUE, !.awaited = TRUE, !.end = id] IN
       /\ ~s.awaited
       /\ IF s.finished
          THEN /\ session' = {Closed(s)}
               /\ tasks' = Append(Tail(tasks), ResumeJob(s.object, id, bridge, Result(s)))
          ELSE /\ session' = {Settling(ending)}
               /\ tasks' = Tail(tasks)
  /\ speech' = "processing"
  /\ UNCHANGED <<talk, replaced, cached>>

RunPacket ==
  /\ tasks # <<>>
  /\ LET id == Head(tasks).id IN
     CASE Head(tasks).kind = "begin" ->
            Repeated(id) \/ BeginRefused(id) \/ Begin(id) \/ BeginFails(id)
       [] Head(tasks).kind = "frame" -> FrameIgnored \/ FrameTaken \/ FrameFails
       [] Head(tasks).kind = "end" -> Repeated(id) \/ EndRefused(id) \/ EndFails(id)
       [] OTHER -> FALSE
  /\ tasks' = Tail(tasks)
  /\ overlapped' = (overlapped \/ (~talk /\ talk' /\ Resuming))
  /\ UNCHANGED <<link, dropped, bridge, request>>

RunEnd ==
  /\ tasks # <<>> /\ Head(tasks).kind = "end"
  /\ End(Head(tasks).id)
  /\ UNCHANGED <<link, dropped, bridge, request, overlapped>>

(* The end goes on: the text is typed, and whatever session its bridge has  *)
(* now is let go of, open or not, but not cancelled.  One whose end is      *)
(* awaited lives on.                                                        *)
EndReturns(job) ==
  /\ job.outcome # "error"
  /\ IF job.bridge = bridge
     THEN /\ session' = {}
          /\ dropped' = dropped \cup {[object |-> s.object, end |-> s.end, bridge |-> bridge] :
                                     s \in {t \in session : t.awaited}}
     ELSE UNCHANGED <<session, dropped>>
  /\ speech' = "idle"

(* An error of the recogniser, or of the typing. *)
EndThrows(job) ==
  /\ job.outcome # "empty"
  /\ Aborted
  /\ speech' = "failed"
  /\ UNCHANGED dropped

RunResume ==
  /\ tasks # <<>> /\ Head(tasks).kind = "resume"
  /\ EndReturns(Head(tasks)) \/ EndThrows(Head(tasks))
  /\ TalkOver
  /\ Answer(Head(tasks).id)
  /\ tasks' = Tail(tasks)
  /\ UNCHANGED <<link, bridge, request, overlapped>>

RunTask == RunPacket \/ RunEnd \/ RunResume

-----------------------------------------------------------------------------
(* onPacket.  A device counts its requests from 1 at each boot. *)
Receive(kind) ==
  /\ state = "ready" /\ Len(tasks) < MaxTasks
  /\ IF kind = "frame"
     THEN tasks' = Append(tasks, [kind |-> kind, id |-> 0]) /\ UNCHANGED request
     ELSE /\ request <= MaxRequest
          /\ tasks' = Append(tasks, [kind |-> kind, id |-> request])
          /\ request' = request + 1
  /\ UNCHANGED <<link, coordinator, session, dropped, bridge, overlapped>>

(* handleTransportState: every state but ready resets the connection, each  *)
(* time the state machine was asked.                                        *)
Announced ==
  /\ IF state' = "ready" THEN UNCHANGED <<coordinator, session>> ELSE ResetConnection
  /\ UNCHANGED <<dropped, bridge, tasks, overlapped>>

LinkAnswers ==
  (Answered \/ DiscoveryFails) /\ tasks = <<>> /\ Announced /\ UNCHANGED request

LinkAnswersQuietly ==
  /\ ResetDone \/ DiscoveryFails
  /\ tasks = <<>>
  /\ UNCHANGED <<coordinator, session, dropped, bridge, tasks, request, overlapped>>

LinkBreaks ==
  /\ Disconnected \/ PoweredOff \/ PoweredOn
  /\ Announced
  /\ request' \in {request, 1}

(* Settings were saved or the login changed: nobody tells the coordinator.  *)
Replace ==
  /\ bridge < MaxBridges
  /\ bridge' = bridge + 1
  /\ Aborted
  /\ replaced' = talk
  /\ UNCHANGED <<link, talk, speech, cached, dropped, tasks, request, overlapped>>

Next ==
  \/ SessionStep \/ RunTask
  \/ \E o \in Objects : DroppedAnswers(o)
  \/ \E kind \in {"begin", "frame", "end"} : Receive(kind)
  \/ LinkAnswers \/ LinkAnswersQuietly \/ LinkBreaks \/ Replace

(* The main queue runs its jobs, a timer fires, and Core Bluetooth answers  *)
(* what it is asked while the device is near: when it fails is not fair.    *)
Fairness ==
  /\ WF_vars(RunTask) /\ WF_vars(FinishTimesOut)
  /\ \A o \in Objects : WF_vars(DroppedAnswers(o))
  /\ WF_vars(LinkAnswers) /\ WF_vars(ResetDone /\ LinkAnswersQuietly)
  /\ WF_vars(cancelled /\ Disconnected /\ LinkBreaks)

Spec == Init /\ [][Next]_vars /\ Fairness

-----------------------------------------------------------------------------
TypeOK ==
  /\ LinkTypeOK
  /\ talk \in BOOLEAN /\ speech \in {"idle", "recording", "processing", "failed"}
  /\ cached \subseteq 0..MaxRequest
  /\ session = {} \/ \E s \in Session : session = {s}
  /\ dropped \subseteq DroppedSession
  /\ bridge \in 0..MaxBridges /\ tasks \in Seq(Packet \cup Resume)
  /\ request \in 1..(MaxRequest + 1)
  /\ replaced \in BOOLEAN /\ overlapped \in BOOLEAN

Awaited == \E s \in session : s.awaited

(* However results, the timer and failures follow each other, and whether   *)
(* its bridge still has the session or not, an end is resumed once: a       *)
(* continuation that is resumed again traps.                                *)
ResumedOnce ==
  \A i \in 1..Len(tasks) :
    tasks[i].kind = "resume" =>
      /\ \A s \in session : s.awaited => s.object # tasks[i].object
      /\ \A d \in dropped : d.object # tasks[i].object
      /\ \A j \in 1..(i - 1) : tasks[j].kind = "resume" => tasks[j].object # tasks[i].object

(* The coordinator and the bridge agree on whether there is a talk: a       *)
(* session left without one would have every later begin refused, one still *)
(* open when an end goes on would keep its socket, and an end that is       *)
(* processed and that nothing resumes would have every begin refused until  *)
(* the link is lost.  They disagree only after the bridge was replaced      *)
(* during the talk, or a talk was given up and the next begun while the job *)
(* of its end was queued: that job drops the session that is not its own,   *)
(* and if that one's end is awaited, it does the same to a later talk.      *)
TalkRecordsAgree ==
  /\ ResumedOnce
  /\ talk /\ ~replaced => session # {}
  /\ speech = "processing" /\ ~replaced => Awaited \/ Resuming
  /\ ~talk /\ ~overlapped => session = {}
  /\ Resuming /\ ~overlapped => Open = {}
  /\ dropped # {} => overlapped

(* A link that comes up starts with nothing of the one before: no talk, and *)
(* no kept result that a device that was restarted could ask for, although  *)
(* packets and results of the old link may be handled after it is lost.     *)
FreshLink ==
  [][state # "ready" /\ state' = "ready" =>
       ~talk' /\ (~overlapped => speech' = "idle" /\ cached' = {})]_vars

(* However often the device restarts and counts its requests from 1 again,  *)
(* none is taken for one that was answered before: an end that only had the *)
(* kept result of an older one repeated would leave the microphone open.    *)
RequestsAreNew ==
  ~overlapped =>
    \A i \in 1..Len(tasks) : tasks[i].kind \in {"begin", "end"} => tasks[i].id \notin cached

(* To whoever only sees talks, the coordinator, its bridge and the queue    *)
(* are CompanionTalk: an end goes on while it is awaited, by the bridge's   *)
(* session or a dropped one, while the job of its result is queued, and for *)
(* as long as the coordinator believes so.                                  *)
Talk == INSTANCE CompanionTalk
  WITH talking <- talk,
       ending <- Awaited \/ Resuming \/ dropped # {} \/ speech = "processing"

(* An end is begun only in a talk, and while that talk goes on the end is   *)
(* not over: a recogniser that was replaced, a result that comes late and a *)
(* link that is lost change that as little as a repeated request does.  An  *)
(* end that outlives its talk may return in a later one, and ends that.     *)
ImplementsCompanionTalk == Talk!Spec

Ending(o) ==
  \/ \E s \in session : s.awaited /\ s.object = o
  \/ \E d \in dropped : d.object = o
  \/ \E i \in 1..Len(tasks) : tasks[i].kind = "resume" /\ tasks[i].object = o

(* An end that is awaited returns, or is given up with its session: the     *)
(* recogniser need not answer at all, and the bridge may have let go of it. *)
EndIsOver == \A o \in Objects : Ending(o) ~> ~Ending(o)

(* While the radio is on, the link comes up, or a discovery that was not    *)
(* answered as it should be has left it where it is.                        *)
LinkComesUp ==
  state # "unavailable" ~>
    \/ state \in {"ready", "unavailable"}
    \/ state \in {"discoveringService", "discoveringCharacteristics"} /\ ~discovery
================================================================================
