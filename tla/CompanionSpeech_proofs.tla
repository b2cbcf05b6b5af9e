------------------------ MODULE CompanionSpeech_proofs ------------------------
(***************************************************************************)
(* The talk at the Mac, for any number of requests, queued jobs, faults    *)
(* and replacements of the bridge: the coordinator and the recogniser      *)
(* agree on whether there is a talk, an end is resumed once, and a link    *)
(* that comes up starts with nothing of the one before.                    *)
(***************************************************************************)
EXTENDS CompanionSpeech, TLAPS

Job == Packet \cup Resume

IsRequest(job) == job.kind \in {"begin", "end"}
IsResume(job) == job.kind = "resume"

Places == 1..Len(tasks)

(* Nothing is asked of a connection before its characteristics are known.   *)
AskedLater ==
  state \notin {"subscribingNotifications", "ready"} => asked = NothingAsked

(* While a connection comes about there is no talk and no request to begin  *)
(* one.                                                                     *)
Rising == {"discoveringService", "discoveringCharacteristics", "subscribingNotifications"}

RisesFresh ==
  state \in Rising =>
    /\ ~talk
    /\ \A i \in Places : ~IsRequest(tasks[i])
    /\ ~overlapped => speech = "idle" /\ cached = {} /\ ~Resuming

(* Requests are queued in the order of their ids; what comes next on a      *)
(* ready link is younger than all of them.                                  *)
InOrder ==
  /\ \A i, j \in Places :
       IsRequest(tasks[i]) /\ IsRequest(tasks[j]) /\ i < j => tasks[i].id < tasks[j].id
  /\ state = "ready" => \A i \in Places : IsRequest(tasks[i]) => tasks[i].id < request

(* The id is older than all requests to come. *)
Older(id) ==
  /\ \A i \in Places : IsRequest(tasks[i]) => id < tasks[i].id
  /\ state = "ready" => id < request

EndOlder == ~overlapped => \A s \in session : s.awaited => Older(s.end)

(* An awaited session has its socket, and is dropped only by the job of an  *)
(* end that another talk has overlapped.                                    *)
DropsOverlap ==
  /\ \A s \in session : s.awaited => s.socket
  /\ dropped # {} => overlapped

(* A session left by a talk is of the bridge that the queued jobs are of.   *)
OwnBridge ==
  ~overlapped /\ session # {} =>
    \A i \in Places : IsResume(tasks[i]) => tasks[i].bridge = bridge

Processed == speech = "processing" => talk

(* The parts of TalkRecordsAgree. *)
TalkHasSession == talk /\ ~replaced => session # {}
EndGoesOn == speech = "processing" /\ ~replaced => Awaited \/ Resuming
SessionHasTalk == ~talk /\ ~overlapped => session = {}
SocketClosed == Resuming /\ ~overlapped => \A s \in session : ~s.socket

Agreement == TalkHasSession /\ EndGoesOn /\ Processed /\ SessionHasTalk /\ SocketClosed

Ids == InOrder /\ EndOlder

IInv == TypeOK /\ AskedLater /\ RisesFresh /\ Agreement /\ OwnBridge /\ Ids /\ DropsOverlap

-----------------------------------------------------------------------------
(* Jobs and the queue. *)
LEMMA ResumeType ==
  ASSUME NEW job \in Job, IsResume(job)
  PROVE  job \in Resume /\ job.id \in 0..MaxRequest /\ job.bridge \in 0..MaxBridges
BY DEF Job, Packet, Resume, IsResume

LEMMA RequestType ==
  ASSUME NEW job \in Job, ~IsResume(job)
  PROVE  job \in Packet /\ job.id \in 0..MaxRequest
BY DEF Job, Packet, Resume, IsResume

LEMMA TailFacts ==
  ASSUME NEW q \in Seq(Job), q # <<>>
  PROVE  /\ Len(q) \in Nat /\ Len(q) >= 1
         /\ Head(q) = q[1] /\ q[1] \in Job
         /\ Tail(q) \in Seq(Job) /\ Len(Tail(q)) = Len(q) - 1
         /\ \A i \in 1..Len(Tail(q)) : Tail(q)[i] = q[i + 1] /\ i + 1 \in 1..Len(q)
OBVIOUS

LEMMA AppendFacts ==
  ASSUME NEW q \in Seq(Job), NEW x \in Job
  PROVE  /\ Append(q, x) \in Seq(Job) /\ Len(q) \in Nat /\ Len(Append(q, x)) = Len(q) + 1
         /\ \A i \in 1..Len(q) : Append(q, x)[i] = q[i]
         /\ Append(q, x)[Len(q) + 1] = x
OBVIOUS

-----------------------------------------------------------------------------
(* What is left of the session object when a step of the recogniser is over. *)
Quiet(s, t) ==
  /\ session' = {t} /\ tasks' = tasks
  /\ t.awaited = s.awaited /\ t.object = s.object
  /\ t.socket => s.socket
  /\ t.awaited => t.socket = s.socket /\ t.end = s.end

Over(s, t) ==
  /\ s.awaited /\ session' = {t} /\ ~t.awaited /\ ~t.socket
  /\ \E outcome \in Outcomes :
       tasks' = Append(tasks, ResumeJob(s.object, s.end, bridge, outcome))

LEMMA SettlingFacts ==
  ASSUME NEW s \in Session
  PROVE  /\ Settling(s) \in Session
         /\ Settling(s).awaited = s.awaited /\ Settling(s).end = s.end
         /\ Settling(s).socket = s.socket /\ Settling(s).object = s.object
BY DEF Settling, Session

LEMMA ClosedFacts ==
  ASSUME NEW s \in Session
  PROVE  /\ Closed(s) \in Session /\ ~Closed(s).awaited /\ ~Closed(s).socket
         /\ Closed(s).object = s.object
BY SpeechAssumption DEF Closed, Unstarted, Session

LEMMA CompletedFacts ==
  ASSUME NEW s \in Session, Completed(s)
  PROVE  \E t \in Session : Quiet(s, t) \/ Over(s, t)
<1>1. CASE s.awaited
  <2>1. session' = {Closed(s)} /\ Result(s) \in Outcomes
    BY <1>1 DEF Completed, Result, Outcomes
  <2>2. tasks' = Append(tasks, ResumeJob(s.object, s.end, bridge, Result(s)))
    BY <1>1 DEF Completed, Resumed
  <2> QED
    BY <1>1, <2>1, <2>2, ClosedFacts DEF Over
<1>2. CASE ~s.awaited
  <2> DEFINE t == [s EXCEPT !.settling = FALSE]
  <2>1. /\ t \in Session /\ t.awaited = s.awaited /\ t.end = s.end /\ t.object = s.object
        /\ t.socket = s.socket
    BY DEF Session
  <2>2. session' = {t} /\ tasks' = tasks
    BY <1>2 DEF Completed, Resumed
  <2> QED
    BY <2>1, <2>2 DEF Quiet
<1> QED
  BY <1>1, <1>2

LEMMA FailedFacts ==
  ASSUME NEW s \in Session, Failed(s)
  PROVE  \E t \in Session : Quiet(s, t) \/ Over(s, t)
<1>1. CASE s.awaited
  <2>1. session' = {Closed(s)} /\ "error" \in Outcomes
    BY DEF Failed, Outcomes
  <2>2. tasks' = Append(tasks, ResumeJob(s.object, s.end, bridge, "error"))
    BY <1>1 DEF Failed, Resumed
  <2> QED
    BY <1>1, <2>1, <2>2, ClosedFacts DEF Over
<1>2. CASE ~s.awaited
  <2>1. session' = {Closed(s)} /\ tasks' = tasks
    BY <1>2 DEF Failed, Resumed
  <2>2. /\ s.awaited = FALSE /\ Closed(s).awaited = FALSE /\ Closed(s).socket = FALSE
    BY <1>2 DEF Session, Closed, Unstarted
  <2> QED
    BY <2>1, <2>2, ClosedFacts DEF Quiet
<1> QED
  BY <1>1, <1>2

LEMMA SessionOne ==
  ASSUME TypeOK, NEW s \in session
  PROVE  s \in Session /\ session = {s}
BY DEF TypeOK

LEMMA StepFacts ==
  ASSUME TypeOK, SessionStep
  PROVE  /\ UNCHANGED <<link, sessionOnly>>
         /\ \E s, t \in Session : session = {s} /\ (Quiet(s, t) \/ Over(s, t))
<1>1. CASE AudioSent
  <2>1. PICK s \in session : session' = {Settling([s EXCEPT !.sending = FALSE])}
    BY <1>1 DEF AudioSent, Open
  <2> DEFINE t == [s EXCEPT !.sending = FALSE]
  <2>2. s \in Session /\ session = {s}
    BY SessionOne
  <2>3. t \in Session /\ t.awaited = s.awaited /\ t.end = s.end /\ t.socket = s.socket
        /\ t.object = s.object
    BY <2>2 DEF Session
  <2>4. session' = {Settling(t)}
    BY <2>1
  <2>5. tasks' = tasks /\ UNCHANGED <<link, sessionOnly>>
    BY <1>1 DEF AudioSent
  <2> HIDE DEF t
  <2> QED
    BY <2>2, <2>3, <2>4, <2>5, SettlingFacts DEF Quiet
<1>2. CASE ServerResult
  <2>1. PICK s \in session : session' = {Settling([s EXCEPT !.text = TRUE])}
    BY <1>2 DEF ServerResult, Open
  <2> DEFINE t == [s EXCEPT !.text = TRUE]
  <2>2. s \in Session /\ session = {s}
    BY SessionOne
  <2>3. t \in Session /\ t.awaited = s.awaited /\ t.end = s.end /\ t.socket = s.socket
        /\ t.object = s.object
    BY <2>2 DEF Session
  <2>4. session' = {Settling(t)}
    BY <2>1
  <2>5. tasks' = tasks /\ UNCHANGED <<link, sessionOnly>>
    BY <1>2 DEF ServerResult
  <2> HIDE DEF t
  <2> QED
    BY <2>2, <2>3, <2>4, <2>5, SettlingFacts DEF Quiet
<1>3. CASE ServerFinish
  <2> USE DEF ServerFinish, Open
  <2>1. PICK s \in session :
          IF s.finishing
          THEN Completed([s EXCEPT !.finished = TRUE])
          ELSE session' = {[s EXCEPT !.finished = TRUE]} /\ UNCHANGED tasks
    BY <1>3
  <2> DEFINE u == [s EXCEPT !.finished = TRUE]
  <2>2. s \in Session /\ session = {s}
    BY SessionOne
  <2>3. u \in Session /\ u.awaited = s.awaited /\ u.end = s.end /\ u.socket = s.socket
        /\ u.object = s.object
    BY <2>2 DEF Session
  <2>4. Completed(u) \/ (session' = {u} /\ tasks' = tasks)
    BY <2>1
  <2>5. UNCHANGED <<link, sessionOnly>>
    BY <1>3
  <2> HIDE DEF u
  <2>6. CASE Completed(u)
    <3>1. PICK t \in Session : Quiet(u, t) \/ Over(u, t)
      BY <2>3, <2>6, CompletedFacts
    <3>2. Quiet(s, t) \/ Over(s, t)
      BY <2>3, <3>1 DEF Quiet, Over
    <3> QED
      BY <2>2, <2>5, <3>2
  <2>7. CASE session' = {u} /\ tasks' = tasks
    BY <2>2, <2>3, <2>5, <2>7 DEF Quiet
  <2> QED
    BY <2>4, <2>6, <2>7
<1>4. ASSUME NEW s \in session, Completed(s) \/ Failed(s)
      PROVE  \E t \in Session : Quiet(s, t) \/ Over(s, t)
  BY <1>4, SessionOne, CompletedFacts, FailedFacts
<1>5. CASE ServerFails \/ ResultSettles \/ FinishTimesOut
  <2>1. \E s \in session : Completed(s) \/ Failed(s)
    BY <1>5 DEF ServerFails, ResultSettles, FinishTimesOut, Open
  <2>2. UNCHANGED <<link, sessionOnly>>
    BY <1>5 DEF ServerFails, ResultSettles, FinishTimesOut
  <2> QED
    BY <1>4, <2>1, <2>2, SessionOne
<1> QED
  BY <1>1, <1>2, <1>3, <1>5 DEF SessionStep

-----------------------------------------------------------------------------
(* The link: its steps keep its own part of the invariant. *)
LinkInv == LinkTypeOK /\ AskedLater

LinkStep ==
  \/ Answered \/ DiscoveryFails \/ ResetDone
  \/ Disconnected \/ PoweredOff \/ PoweredOn

LEMMA FaultKeeps ==
  ASSUME LinkTypeOK, Fault \/ UNCHANGED faults
  PROVE  (faults \in 0..MaxFaults)'
BY LinkAssumption DEF LinkTypeOK, Fault

LEMMA LinkKeeps == ASSUME LinkInv, LinkStep PROVE LinkInv'
<1> USE LinkAssumption DEF LinkInv, LinkTypeOK, AskedLater, Connections, NothingAsked
<1>0. LinkTypeOK
  OBVIOUS
<1>1. CASE DiscoveredDevice
  BY <1>1 DEF DiscoveredDevice
<1>2. CASE Connected
  BY <1>2 DEF Connected
<1>3. CASE ServiceDiscovered
  BY <1>3 DEF ServiceDiscovered
<1>4. CASE CharacteristicsDiscovered
  BY <1>4 DEF CharacteristicsDiscovered
<1>5. ASSUME NEW r \in Roles, NotificationOn(r) PROVE LinkInv'
  BY <1>5 DEF NotificationOn
<1>6. ASSUME NEW r \in Roles, NotificationFails(r) PROVE LinkInv'
  BY <1>6 DEF NotificationFails, CancelConnection, Fault
<1>7. CASE DiscoveryFails
  BY <1>0, <1>7, FaultKeeps DEF DiscoveryFails
<1>8. CASE ResetDone
  BY <1>8 DEF ResetDone
<1>9. CASE Disconnected
  <2>1. (faults \in 0..MaxFaults)'
    BY <1>0, <1>9, FaultKeeps DEF Disconnected
  <2>2. resets' \subseteq {Info}
    BY <1>9 DEF Disconnected
  <2> QED
    BY <1>9, <2>1, <2>2 DEF Disconnected, StartScan
<1>10. CASE PoweredOff
  <2>1. (faults \in 0..MaxFaults)'
    BY <1>0, <1>10, FaultKeeps DEF PoweredOff
  <2>2. resets' \subseteq {Info}
    BY <1>10 DEF PoweredOff
  <2> QED
    BY <1>10, <2>1, <2>2 DEF PoweredOff
<1>11. CASE PoweredOn
  BY <1>11 DEF PoweredOn, StartScan
<1> QED
  BY <1>1, <1>2, <1>3, <1>4, <1>5, <1>6, <1>7, <1>8, <1>9, <1>10, <1>11
  DEF LinkStep, Answered

(* A link is ready only after it was subscribed to. *)
LEMMA LinkAnswerFacts ==
  ASSUME LinkInv, Answered \/ DiscoveryFails \/ ResetDone
  PROVE  state' = "ready" => state \in {"subscribingNotifications", "ready"}
BY LinkAssumption
DEF LinkInv, LinkTypeOK, AskedLater, Connections, NothingAsked, Answered, DiscoveredDevice,
    Connected, ServiceDiscovered, CharacteristicsDiscovered, NotificationOn, NotificationFails,
    DiscoveryFails, ResetDone

LEMMA LinkBreakFacts ==
  ASSUME Disconnected \/ PoweredOff \/ PoweredOn
  PROVE  state' \in {"scanning", "connecting", "unavailable"}
BY DEF Disconnected, PoweredOff, PoweredOn, StartScan

-----------------------------------------------------------------------------
LEMMA StutterKeeps == ASSUME IInv, UNCHANGED vars PROVE IInv'
<1> USE DEF vars, link, coordinator
<1>1. TypeOK'
  BY DEF IInv, TypeOK, LinkTypeOK
<1>2. AskedLater' /\ RisesFresh'
  BY DEF IInv, AskedLater, RisesFresh, Resuming, Places
<1>3. Agreement' /\ OwnBridge'
  BY DEF IInv, Agreement, TalkHasSession, EndGoesOn, Processed, SessionHasTalk, SocketClosed,
         OwnBridge, Awaited, Resuming, Places
<1>4. Ids'
  BY DEF IInv, Ids, InOrder, EndOlder, Older, Places
<1>5. DropsOverlap'
  BY DEF IInv, DropsOverlap
<1> QED
  BY <1>1, <1>2, <1>3, <1>4, <1>5 DEF IInv

LEMMA QuietKeeps ==
  ASSUME IInv, UNCHANGED <<link, sessionOnly>>, NEW s \in Session, NEW t \in Session,
         session = {s}, Quiet(s, t)
  PROVE  IInv'
<1> USE DEF link, sessionOnly, coordinator
<1>0. /\ session = {s} /\ session' = {t} /\ tasks' = tasks
      /\ t.awaited = s.awaited /\ (t.socket => s.socket)
      /\ t.awaited => t.socket = s.socket /\ t.end = s.end
  BY DEF Quiet
<1>1. TypeOK'
  BY <1>0 DEF IInv, TypeOK, LinkTypeOK
<1>2. AskedLater' /\ RisesFresh'
  BY <1>0 DEF IInv, AskedLater, RisesFresh, Resuming, Places
<1>3. Awaited' = Awaited /\ Resuming' = Resuming
  BY <1>0 DEF Awaited, Resuming
<1>4. Agreement' /\ OwnBridge'
  BY <1>0, <1>3 DEF IInv, Agreement, TalkHasSession, EndGoesOn, Processed, SessionHasTalk,
                    SocketClosed, OwnBridge, Places
<1>5. InOrder' /\ \A id : Older(id) => Older(id)'
  BY <1>0 DEF IInv, Ids, InOrder, Older, Places
<1>6. EndOlder'
  BY <1>0, <1>5 DEF IInv, Ids, EndOlder
<1>7. DropsOverlap'
  BY <1>0 DEF IInv, DropsOverlap
<1> QED
  BY <1>1, <1>2, <1>4, <1>5, <1>6, <1>7 DEF IInv, Ids

(* An awaited end is resumed: its job comes behind all that is queued. *)
LEMMA OverKeeps ==
  ASSUME IInv, UNCHANGED <<link, sessionOnly>>, NEW s \in Session, NEW t \in Session,
         session = {s}, Over(s, t)
  PROVE  IInv'
<1> USE DEF link, sessionOnly, coordinator
<1>1. PICK outcome \in Outcomes :
        tasks' = Append(tasks, ResumeJob(s.object, s.end, bridge, outcome))
  BY DEF Over
<1> DEFINE job == ResumeJob(s.object, s.end, bridge, outcome)
<1>2. /\ job \in Job /\ IsResume(job) /\ ~IsRequest(job)
      /\ job.id = s.end /\ job.bridge = bridge /\ job.kind = "resume"
  BY DEF IInv, TypeOK, Job, Resume, ResumeJob, Session, IsResume, IsRequest
<1>3. tasks' = Append(tasks, job)
  BY <1>1
<1> HIDE DEF job
<1>0. PICK n \in Nat : n = Len(tasks)
  BY DEF IInv, TypeOK
<1>4. /\ tasks \in Seq(Job) /\ tasks' \in Seq(Job) /\ Len(tasks') = n + 1
      /\ \A i \in 1..n : tasks'[i] = tasks[i]
      /\ tasks'[n + 1] = job
  BY <1>0, <1>2, <1>3, AppendFacts DEF IInv, TypeOK, Job
<1>5. session = {s} /\ session' = {t} /\ s.awaited /\ ~t.awaited /\ ~t.socket
  BY DEF Over
<1>6. Places' = 1..(n + 1) /\ Places = 1..n
  BY <1>0, <1>4 DEF Places
<1>7. Resuming' /\ Awaited /\ ~Awaited'
  BY <1>0, <1>2, <1>4, <1>5 DEF Resuming, Awaited
<1>8. TypeOK'
  BY <1>4, <1>5 DEF IInv, TypeOK, LinkTypeOK, Job
<1>9. state \in Rising => overlapped
  BY <1>5 DEF IInv, RisesFresh, Agreement, SessionHasTalk
<1>10. AskedLater' /\ RisesFresh'
  BY <1>2, <1>4, <1>6, <1>9 DEF IInv, AskedLater, RisesFresh
<1>11. Agreement'
  BY <1>5, <1>7 DEF IInv, Agreement, TalkHasSession, EndGoesOn, Processed, SessionHasTalk,
                    SocketClosed
<1>12. OwnBridge'
  BY <1>2, <1>4, <1>5, <1>6 DEF IInv, OwnBridge
<1>13. InOrder' /\ \A id : Older(id) => Older(id)'
  BY <1>2, <1>4, <1>6 DEF IInv, Ids, InOrder, Older
<1>14. EndOlder'
  BY <1>5 DEF EndOlder
<1>15. DropsOverlap'
  BY <1>5 DEF IInv, DropsOverlap
<1> QED
  BY <1>8, <1>10, <1>11, <1>12, <1>13, <1>14, <1>15 DEF IInv, Ids

-----------------------------------------------------------------------------
(* A packet comes in: a request is younger than what is queued. *)
LEMMA ReceiveKeeps ==
  ASSUME IInv, NEW kind \in {"begin", "frame", "end"}, Receive(kind)
  PROVE  IInv'
<1> USE DEF link, coordinator
<1>1. PICK id \in 0..MaxRequest :
        /\ tasks' = Append(tasks, [kind |-> kind, id |-> id])
        /\ \/ kind = "frame" /\ request' = request
           \/ kind # "frame" /\ id = request /\ request' = request + 1
        /\ request' \in 1..(MaxRequest + 1)
  <2>0. request \in 1..(MaxRequest + 1) /\ MaxRequest \in Nat
    BY SpeechAssumption DEF IInv, TypeOK
  <2>1. CASE kind = "frame"
    <3>1. request' = request /\ tasks' = Append(tasks, [kind |-> kind, id |-> 0])
      BY <2>1 DEF Receive
    <3>2. 0 \in 0..MaxRequest
      BY <2>0
    <3> WITNESS 0 \in 0..MaxRequest
    <3> QED
      BY <2>0, <2>1, <3>1
  <2>2. CASE kind # "frame"
    <3>1. /\ request <= MaxRequest /\ request' = request + 1
          /\ tasks' = Append(tasks, [kind |-> kind, id |-> request])
      BY <2>2 DEF Receive
    <3>2. request \in 0..MaxRequest /\ request' \in 1..(MaxRequest + 1)
      BY <2>0, <3>1
    <3> QED
      BY <2>2, <3>1, <3>2
  <2> QED
    BY <2>1, <2>2
<1> DEFINE job == [kind |-> kind, id |-> id]
<1>2. /\ job \in Job /\ ~IsResume(job) /\ job.id = id
      /\ IsRequest(job) => id = request /\ request' = request + 1
      /\ request <= request'
  BY <1>1 DEF IInv, TypeOK, Job, Packet, IsResume, IsRequest
<1>3. tasks' = Append(tasks, job)
  BY <1>1
<1> HIDE DEF job
<1>4. /\ state = "ready"
      /\ UNCHANGED <<state, enabledNotifications, resets, asked, discovery, cancelled, faults,
                     talk, speech, cached, replaced, session, dropped, bridge, overlapped>>
  BY DEF Receive
<1>5. PICK n \in Nat : n = Len(tasks)
  BY DEF IInv, TypeOK
<1>6. /\ tasks \in Seq(Job) /\ tasks' \in Seq(Job) /\ Len(tasks') = n + 1
      /\ \A i \in 1..n : tasks'[i] = tasks[i]
      /\ tasks'[n + 1] = job
  BY <1>2, <1>3, <1>5, AppendFacts DEF IInv, TypeOK, Job
<1>7. Places' = 1..(n + 1) /\ Places = 1..n
  BY <1>5, <1>6 DEF Places
<1>8. Resuming' = Resuming /\ Awaited' = Awaited
  BY <1>2, <1>4, <1>5, <1>6 DEF Resuming, Awaited, IsResume
<1>9. TypeOK'
  BY <1>1, <1>4, <1>6 DEF IInv, TypeOK, LinkTypeOK, Job
<1>10. AskedLater' /\ RisesFresh'
  BY <1>4 DEF IInv, AskedLater, RisesFresh, Rising
<1>11. Agreement'
  BY <1>4, <1>8 DEF IInv, Agreement, TalkHasSession, EndGoesOn, Processed, SessionHasTalk,
                    SocketClosed
<1>12. OwnBridge'
  BY <1>2, <1>4, <1>6, <1>7 DEF IInv, OwnBridge
<1>13. \A i \in 1..n : tasks[i].id \in 0..MaxRequest
  BY <1>5, <1>6 DEF Job, Packet, Resume
<1>14. InOrder'
  BY <1>1, <1>2, <1>4, <1>6, <1>7, <1>13 DEF IInv, TypeOK, Ids, InOrder
<1>15. ASSUME NEW i \in 0..MaxRequest, Older(i) PROVE Older(i)'
  BY <1>1, <1>2, <1>4, <1>6, <1>7, <1>15 DEF IInv, TypeOK, Older
<1>16. EndOlder'
  BY <1>4, <1>15 DEF IInv, Ids, EndOlder, TypeOK, Session
<1>17. DropsOverlap'
  BY <1>4 DEF IInv, DropsOverlap
<1> QED
  BY <1>9, <1>10, <1>11, <1>12, <1>14, <1>16, <1>17 DEF IInv, Ids

-----------------------------------------------------------------------------
(* The bridge is replaced: jobs queued are of an older one from here on. *)
LEMMA ReplaceKeeps == ASSUME IInv, Replace PROVE IInv'
<1> USE DEF link
<1>1. /\ bridge < MaxBridges /\ bridge' = bridge + 1 /\ session' = {} /\ replaced' = talk
      /\ UNCHANGED <<state, enabledNotifications, resets, asked, discovery, cancelled, faults,
                     talk, speech, cached, dropped, tasks, request, overlapped>>
  BY DEF Replace, Aborted
<1>2. TypeOK'
  BY <1>1, SpeechAssumption DEF IInv, TypeOK, LinkTypeOK
<1>3. AskedLater' /\ RisesFresh'
  BY <1>1 DEF IInv, AskedLater, RisesFresh, Resuming, Places
<1>4. Agreement' /\ OwnBridge'
  BY <1>1 DEF IInv, Agreement, TalkHasSession, EndGoesOn, Processed, SessionHasTalk,
              SocketClosed, OwnBridge, TypeOK
<1>5. InOrder' /\ EndOlder'
  BY <1>1 DEF IInv, Ids, InOrder, EndOlder, Places
<1>6. DropsOverlap'
  BY <1>1 DEF IInv, DropsOverlap
<1> QED
  BY <1>2, <1>3, <1>4, <1>5, <1>6 DEF IInv, Ids

-----------------------------------------------------------------------------
(* The connection is reset: a talk goes with its session. *)
LEMMA ResetFacts ==
  ASSUME ResetConnection
  PROVE  /\ talk' = FALSE /\ replaced' = FALSE /\ speech' = "idle" /\ cached' = {}
         /\ session' = IF talk THEN {} ELSE session
BY DEF ResetConnection, GivenUp, Aborted, TalkOver, CacheCleared

(* On an idle main queue little is left to go wrong. *)
LEMMA LinkAnswersKeeps == ASSUME IInv, LinkAnswers PROVE IInv'
<1>1. /\ tasks = <<>> /\ tasks' = tasks
      /\ UNCHANGED <<dropped, bridge, overlapped, request>>
      /\ Answered \/ DiscoveryFails
      /\ IF state' = "ready" THEN UNCHANGED <<coordinator, session>> ELSE ResetConnection
  BY DEF LinkAnswers, Announced
<1>2. LinkInv /\ LinkInv' /\ (state' = "ready" => state \in {"subscribingNotifications", "ready"})
  BY <1>1, LinkKeeps, LinkAnswerFacts DEF IInv, TypeOK, LinkInv, LinkStep
<1>3. Places = {} /\ Places' = {} /\ ~Resuming /\ ~Resuming'
  BY <1>1 DEF Places, Resuming
<1>4. /\ session' = session \/ session' = {}
      /\ (talk' = talk /\ session' = session) \/ talk' = FALSE
      /\ state' # "ready" => talk' = FALSE /\ speech' = "idle" /\ cached' = {}
      /\ state' = "ready" => UNCHANGED <<coordinator, session>>
  BY <1>1, ResetFacts DEF coordinator
<1>5. TypeOK'
  BY <1>1, <1>2, <1>4, ResetFacts DEF IInv, TypeOK, LinkInv, coordinator
<1>6. AskedLater' /\ RisesFresh'
  BY <1>2, <1>3, <1>4 DEF LinkInv, RisesFresh, Rising
<1>7. Agreement'
  <2>1. CASE state' = "ready"
    BY <1>1, <1>3, <1>4, <2>1 DEF IInv, Agreement, TalkHasSession, EndGoesOn, Processed,
       SessionHasTalk, SocketClosed, coordinator, Awaited
  <2>2. CASE state' # "ready"
    BY <1>1, <1>3, <2>2, ResetFacts DEF IInv, Agreement, TalkHasSession, EndGoesOn,
       Processed, SessionHasTalk, SocketClosed
  <2> QED
    BY <2>1, <2>2
<1>8. OwnBridge' /\ InOrder'
  BY <1>1, <1>3 DEF OwnBridge, InOrder, Places
<1>9. EndOlder'
  <2>1. CASE state = "ready" /\ state' = "ready"
    BY <1>1, <1>3, <1>4, <2>1 DEF IInv, Ids, EndOlder, Older, coordinator
  <2>2. CASE ~(state = "ready" /\ state' = "ready")
    <3>1. talk' = FALSE
      BY <1>2, <1>4, <2>2 DEF IInv, RisesFresh, Rising, coordinator, TypeOK
    <3>2. ~overlapped' => session' = {}
      BY <1>7, <3>1 DEF Agreement, SessionHasTalk
    <3> QED
      BY <3>2 DEF EndOlder
  <2> QED
    BY <2>1, <2>2
<1>10. DropsOverlap'
  BY <1>1, <1>4 DEF IInv, DropsOverlap
<1> QED
  BY <1>5, <1>6, <1>7, <1>8, <1>9, <1>10 DEF IInv, Ids

LEMMA LinkQuietKeeps == ASSUME IInv, LinkAnswersQuietly PROVE IInv'
<1>1. /\ UNCHANGED <<coordinator, session, dropped, bridge, tasks, request, overlapped>>
      /\ ResetDone \/ DiscoveryFails
  BY DEF LinkAnswersQuietly
<1>2. LinkInv'
  BY <1>1, LinkKeeps DEF IInv, TypeOK, LinkInv, LinkStep
<1>3. state' = state
  BY <1>1 DEF ResetDone, DiscoveryFails
<1> USE DEF coordinator
<1>4. TypeOK' /\ AskedLater'
  BY <1>1, <1>2 DEF IInv, TypeOK, LinkInv
<1>5. RisesFresh'
  BY <1>1, <1>3 DEF IInv, RisesFresh, Resuming, Places
<1>6. Agreement' /\ OwnBridge'
  BY <1>1 DEF IInv, Agreement, TalkHasSession, EndGoesOn, Processed, SessionHasTalk, SocketClosed,
              OwnBridge, Awaited, Resuming, Places
<1>7. Ids'
  BY <1>1, <1>3 DEF IInv, Ids, InOrder, EndOlder, Older, Places
<1>8. DropsOverlap'
  BY <1>1 DEF IInv, DropsOverlap
<1> QED
  BY <1>4, <1>5, <1>6, <1>7, <1>8 DEF IInv

LEMMA LinkBreaksKeeps == ASSUME IInv, LinkBreaks PROVE IInv'
<1>1. /\ Disconnected \/ PoweredOff \/ PoweredOn
      /\ state' \in {"scanning", "connecting", "unavailable"}
      /\ UNCHANGED <<dropped, bridge, tasks, overlapped>>
      /\ request' \in {request, 1}
      /\ ResetConnection
  BY LinkBreakFacts DEF LinkBreaks, Announced
<1>2. LinkInv'
  BY <1>1, LinkKeeps DEF IInv, TypeOK, LinkInv, LinkStep
<1>3. /\ talk' = FALSE /\ replaced' = FALSE /\ speech' = "idle" /\ cached' = {}
      /\ session' = IF talk THEN {} ELSE session
  BY <1>1, ResetFacts
<1>4. Places' = Places /\ Resuming' = Resuming
  BY <1>1 DEF Places, Resuming
<1>5. TypeOK' /\ AskedLater'
  <2>1. request' \in 1..(MaxRequest + 1)
    BY <1>1, SpeechAssumption DEF IInv, TypeOK
  <2>2. session' = {} \/ \E s \in Session : session' = {s}
    BY <1>3 DEF IInv, TypeOK
  <2> QED
    BY <1>1, <1>2, <1>3, <2>1, <2>2 DEF IInv, TypeOK, LinkInv
<1>6. RisesFresh'
  BY <1>1 DEF RisesFresh, Rising
<1>7. Agreement' /\ OwnBridge'
  BY <1>1, <1>3, <1>4 DEF IInv, Agreement, TalkHasSession, EndGoesOn, Processed, SessionHasTalk,
              SocketClosed, OwnBridge
<1>8. InOrder'
  BY <1>1, <1>4 DEF IInv, Ids, InOrder
<1>9. EndOlder'
  BY <1>3, <1>7 DEF EndOlder, Agreement, SessionHasTalk
<1>10. DropsOverlap'
  BY <1>1, <1>3 DEF IInv, DropsOverlap
<1> QED
  BY <1>5, <1>6, <1>7, <1>8, <1>9, <1>10 DEF IInv, Ids

-----------------------------------------------------------------------------
(* A dropped session answers: its job comes behind all that is queued, and  *)
(* the talks have overlapped.                                               *)
LEMMA DroppedFacts ==
  ASSUME IInv, NEW o \in Objects, DroppedAnswers(o)
  PROVE  /\ overlapped /\ UNCHANGED <<link, coordinator, session, bridge, request, overlapped>>
         /\ \E d \in dropped, job \in Job :
              /\ d.object = o /\ dropped' = dropped \ {d}
              /\ IsResume(job) /\ ~IsRequest(job) /\ job.object = o
              /\ tasks' = Append(tasks, job)
<1>1. PICK d \in dropped, outcome \in Outcomes :
        /\ d.object = o
        /\ tasks' = Append(tasks, ResumeJob(o, d.end, d.bridge, outcome))
        /\ dropped' = dropped \ {d}
  BY DEF DroppedAnswers
<1> DEFINE job == ResumeJob(o, d.end, d.bridge, outcome)
<1>2. job \in Job /\ IsResume(job) /\ ~IsRequest(job) /\ job.object = o
  BY <1>1 DEF IInv, TypeOK, DroppedSession, Job, Resume, ResumeJob, IsResume, IsRequest
<1>3. overlapped
  BY <1>1 DEF IInv, DropsOverlap
<1>4. UNCHANGED <<link, coordinator, session, bridge, request, overlapped>>
  BY DEF DroppedAnswers
<1> QED
  BY <1>1, <1>2, <1>3, <1>4

LEMMA DroppedKeeps ==
  ASSUME IInv, NEW o \in Objects, DroppedAnswers(o)
  PROVE  IInv'
<1> USE DEF link, coordinator
<1>1. PICK d \in dropped, job \in Job :
        /\ dropped' = dropped \ {d} /\ IsResume(job) /\ ~IsRequest(job)
        /\ tasks' = Append(tasks, job)
  BY DroppedFacts
<1>2. overlapped /\ UNCHANGED <<link, coordinator, session, bridge, request, overlapped>>
  BY DroppedFacts
<1>3. PICK n \in Nat : n = Len(tasks)
  BY DEF IInv, TypeOK
<1>4. /\ tasks' \in Seq(Job) /\ Len(tasks') = n + 1 /\ tasks'[n + 1] = job
      /\ \A i \in 1..n : tasks'[i] = tasks[i]
  BY <1>1, <1>3, AppendFacts DEF IInv, TypeOK, Job
<1>5. Places' = 1..(n + 1) /\ Places = 1..n
  BY <1>3, <1>4 DEF Places
<1>6. TypeOK'
  BY <1>1, <1>2, <1>4 DEF IInv, TypeOK, LinkTypeOK, Job
<1>7. AskedLater' /\ RisesFresh'
  BY <1>1, <1>2, <1>4, <1>5 DEF IInv, AskedLater, RisesFresh
<1>8. Resuming' /\ Awaited' = Awaited
  BY <1>1, <1>2, <1>3, <1>4 DEF Resuming, IsResume, Awaited
<1>9. Agreement' /\ OwnBridge'
  BY <1>2, <1>8 DEF IInv, Agreement, TalkHasSession, EndGoesOn, Processed, SessionHasTalk,
                    SocketClosed, OwnBridge
<1>10. InOrder' /\ EndOlder'
  BY <1>1, <1>2, <1>4, <1>5 DEF IInv, Ids, InOrder, EndOlder
<1>11. DropsOverlap'
  BY <1>2 DEF IInv, DropsOverlap
<1> QED
  BY <1>6, <1>7, <1>9, <1>10, <1>11 DEF IInv, Ids

-----------------------------------------------------------------------------
(* The main queue runs its first job. *)
LEMMA Dequeued ==
  ASSUME IInv, tasks # <<>>, tasks' = Tail(tasks)
  PROVE  /\ tasks' \in Seq(Job) /\ 1 \in Places /\ Head(tasks) = tasks[1] /\ tasks[1] \in Job
         /\ \A i \in Places' : i \in Nat /\ i + 1 \in Places /\ tasks'[i] = tasks[i + 1]
         /\ \A i \in Places : i = 1 \/ (i - 1 \in Places' /\ tasks'[i - 1] = tasks[i])
         /\ Resuming' => Resuming
         /\ Resuming /\ ~IsResume(Head(tasks)) => Resuming'
<1>1. tasks \in Seq(Job)
  BY DEF IInv, TypeOK, Job
<1>2. PICK n \in Nat : n = Len(tasks')
  BY <1>1, TailFacts
<1>3. /\ Len(tasks) = n + 1 /\ tasks' \in Seq(Job) /\ Head(tasks) = tasks[1] /\ tasks[1] \in Job
      /\ \A i \in 1..n : tasks'[i] = tasks[i + 1]
  BY <1>1, <1>2, TailFacts
<1>4. Places' = 1..n /\ Places = 1..(n + 1)
  BY <1>2, <1>3 DEF Places
<1>5. \A i \in 1..(n + 1) : i = 1 \/ (i - 1 \in 1..n /\ tasks'[i - 1] = tasks[i])
  <2>1. ASSUME NEW i \in 1..(n + 1), i # 1
        PROVE  i - 1 \in 1..n /\ (i - 1) + 1 = i
    BY <2>1
  <2> QED
    BY <1>3, <2>1
<1>6. Resuming' => Resuming
  BY <1>2, <1>3 DEF Resuming
<1>7. Resuming /\ ~IsResume(Head(tasks)) => Resuming'
  BY <1>2, <1>3, <1>5 DEF Resuming, IsResume
<1> QED
  BY <1>3, <1>4, <1>5, <1>6, <1>7

(* The ids keep their order when the first job is run, if an end that is    *)
(* awaited after it was awaited before or is the job itself.                *)
LEMMA DequeuedIds ==
  ASSUME IInv, tasks # <<>>, tasks' = Tail(tasks), UNCHANGED <<state, request>>,
         overlapped => overlapped',
         \A t \in session' : t.awaited =>
           \/ \E s \in session : s.awaited /\ s.end = t.end
           \/ IsRequest(Head(tasks)) /\ t.end = Head(tasks).id
  PROVE  Ids'
<1>1. /\ 1 \in Places /\ Head(tasks) = tasks[1]
      /\ \A i \in Places' : i \in Nat /\ i + 1 \in Places /\ tasks'[i] = tasks[i + 1]
  BY Dequeued
<1>2. ASSUME NEW i \in Places' PROVE 1 < i + 1
  BY <1>2 DEF Places
<1>3. InOrder'
  <2>1. ASSUME NEW i \in Places', NEW j \in Places', i < j PROVE i + 1 < j + 1
    BY <1>1, <2>1
  <2> QED
    BY <1>1, <2>1 DEF IInv, Ids, InOrder
<1>4. \A id : Older(id) => Older(id)'
  BY <1>1 DEF Older
<1>5. ASSUME NEW id, IsRequest(tasks[1]), id = tasks[1].id PROVE Older(id)'
  BY <1>1, <1>2, <1>5 DEF IInv, Ids, InOrder, Older
<1>6. EndOlder'
  <2> SUFFICES ASSUME ~overlapped', NEW t \in session', t.awaited PROVE Older(t.end)'
    BY DEF EndOlder
  <2>1. CASE IsRequest(Head(tasks)) /\ t.end = Head(tasks).id
    BY <1>1, <1>5, <2>1
  <2>2. ASSUME NEW s \in session, s.awaited, s.end = t.end PROVE Older(t.end)'
    <3>1. Older(s.end)
      BY <2>2 DEF IInv, Ids, EndOlder
    <3> QED
      BY <1>4, <2>2, <3>1
  <2> QED
    BY <2>1, <2>2
<1> QED
  BY <1>3, <1>6 DEF Ids

-----------------------------------------------------------------------------
(* What the handler of a packet does to the talk. *)
Kept ==
  /\ UNCHANGED <<talk, replaced, session>>
  /\ speech' = speech \/ (~talk /\ speech' = "failed")

Begun ==
  /\ ~talk /\ session = {} /\ talk' = TRUE /\ speech' = "recording" /\ UNCHANGED replaced
  /\ \E t \in Session : session' = {t} /\ ~t.awaited /\ t.object \notin InUse

Framed ==
  /\ talk /\ UNCHANGED <<talk, speech, replaced>>
  /\ \E s, t \in Session : /\ session = {s} /\ session' = {t} /\ t.awaited = s.awaited
                           /\ t.end = s.end /\ t.socket = s.socket /\ t.object = s.object

Dropped ==
  talk /\ session' = {} /\ talk' = FALSE /\ replaced' = FALSE /\ speech' = "failed"

LEMMA PacketFacts ==
  ASSUME IInv, RunPacket
  PROVE  /\ tasks # <<>> /\ tasks' = Tail(tasks) /\ ~IsResume(Head(tasks))
         /\ UNCHANGED <<link, dropped, bridge, request>>
         /\ overlapped' = (overlapped \/ (~talk /\ talk' /\ Resuming))
         /\ cached' \subseteq cached \cup {Head(tasks).id}
         /\ ~IsRequest(Head(tasks)) /\ ~talk => UNCHANGED <<talk, speech, cached, session>>
         /\ Kept \/ Begun \/ Framed \/ Dropped
<1> DEFINE id == Head(tasks).id
<1> DEFINE Facts == /\ cached' \subseteq cached \cup {id}
                    /\ ~IsRequest(Head(tasks)) /\ ~talk =>
                         UNCHANGED <<talk, speech, cached, session>>
                    /\ Kept \/ Begun \/ Framed \/ Dropped
<1>1. /\ tasks # <<>> /\ tasks' = Tail(tasks) /\ ~IsResume(Head(tasks))
      /\ UNCHANGED <<link, dropped, bridge, request>>
      /\ overlapped' = (overlapped \/ (~talk /\ talk' /\ Resuming))
  BY DEF RunPacket, IsResume
<1> SUFFICES Facts
  BY <1>1
<1>2. \/ /\ IsRequest(Head(tasks))
         /\ \/ Repeated(id) \/ BeginRefused(id) \/ Begin(id) \/ BeginFails(id)
            \/ EndRefused(id) \/ EndFails(id)
      \/ FrameIgnored \/ FrameTaken \/ FrameFails
  BY DEF RunPacket, IsRequest
<1>3. CASE Repeated(id) /\ IsRequest(Head(tasks))
  BY <1>3 DEF Repeated, coordinator, Kept
<1>4. CASE (BeginRefused(id) \/ BeginFails(id) \/ EndRefused(id)) /\ IsRequest(Head(tasks))
  BY <1>4 DEF BeginRefused, BeginFails, EndRefused, Answer, Kept
<1>5. CASE Begin(id) /\ IsRequest(Head(tasks))
  <2>0. Unused \in Objects /\ Unused \notin InUse
    BY <1>5 DEF Begin, Unused
  <2>1. NewSession \in Session /\ ~NewSession.awaited /\ NewSession.object \notin InUse
    BY <2>0, SpeechAssumption DEF NewSession, Unstarted, Session
  <2>2. Begun
    BY <1>5, <2>1 DEF Begin, Begun
  <2> QED
    BY <1>5, <2>2 DEF Begin, Answer
<1>6. CASE EndFails(id) /\ IsRequest(Head(tasks))
  BY <1>6 DEF EndFails, Answer, Aborted, TalkOver, Dropped
<1>7. CASE FrameIgnored
  BY <1>7 DEF FrameIgnored, coordinator, Kept
<1>8. CASE FrameTaken
  <2>1. PICK s \in session : session' = {[s EXCEPT !.sending = TRUE]}
    BY <1>8 DEF FrameTaken, Open
  <2> DEFINE t == [s EXCEPT !.sending = TRUE]
  <2>2. s \in Session /\ session = {s}
    BY SessionOne DEF IInv
  <2>3. t \in Session /\ t.awaited = s.awaited /\ t.end = s.end /\ t.socket = s.socket
        /\ t.object = s.object
    BY <2>2 DEF Session
  <2>4. session' = {t}
    BY <2>1
  <2>5. talk /\ UNCHANGED <<talk, speech, cached, replaced>>
    BY <1>8 DEF FrameTaken, coordinator
  <2> HIDE DEF t
  <2> QED
    BY <2>2, <2>3, <2>4, <2>5 DEF Framed
<1>9. CASE FrameFails
  BY <1>9 DEF FrameFails, Aborted, TalkOver, Dropped
<1> QED
  BY <1>2, <1>3, <1>4, <1>5, <1>6, <1>7, <1>8, <1>9

(* Only a request is answered. *)
LEMMA PacketCaches ==
  ASSUME RunPacket, ~IsRequest(Head(tasks))
  PROVE  cached' = cached
BY DEF RunPacket, IsRequest, FrameIgnored, FrameTaken, FrameFails, coordinator

LEMMA RunPacketKeeps == ASSUME IInv, RunPacket PROVE IInv'
<1> USE DEF link
<1>1. /\ tasks # <<>> /\ tasks' = Tail(tasks) /\ ~IsResume(Head(tasks))
      /\ UNCHANGED <<state, enabledNotifications, resets, asked, discovery, cancelled, faults,
                     dropped, bridge, request>>
      /\ overlapped' = (overlapped \/ (~talk /\ talk' /\ Resuming))
      /\ cached' \subseteq cached \cup {Head(tasks).id}
      /\ ~IsRequest(Head(tasks)) /\ ~talk => UNCHANGED <<talk, speech, cached, session>>
      /\ Kept \/ Begun \/ Framed \/ Dropped
  BY PacketFacts
<1>2. /\ tasks' \in Seq(Job) /\ 1 \in Places /\ Head(tasks) = tasks[1] /\ tasks[1] \in Job
      /\ \A i \in Places' : i + 1 \in Places /\ tasks'[i] = tasks[i + 1]
      /\ Resuming' = Resuming
  BY <1>1, Dequeued DEF Resuming
<1>3. TypeOK'
  <2>1. cached' \subseteq 0..MaxRequest
    BY <1>1, <1>2, RequestType DEF IInv, TypeOK
  <2>2. session' = {} \/ \E t \in Session : session' = {t}
    BY <1>1 DEF IInv, TypeOK, Kept, Begun, Framed, Dropped
  <2>3. talk' \in BOOLEAN /\ replaced' \in BOOLEAN
        /\ speech' \in {"idle", "recording", "processing", "failed"}
    BY <1>1 DEF IInv, TypeOK, Kept, Begun, Framed, Dropped
  <2>4. overlapped' \in BOOLEAN
    BY <1>1 DEF IInv, TypeOK
  <2> QED
    BY <1>1, <1>2, <2>1, <2>2, <2>3, <2>4 DEF IInv, TypeOK, LinkTypeOK, Job
<1>4. AskedLater'
  BY <1>1 DEF IInv, AskedLater
<1>5. RisesFresh'
  <2>1. state \in Rising => ~IsRequest(Head(tasks)) /\ ~talk
    BY <1>2 DEF IInv, RisesFresh
  <2> QED
    BY <1>1, <1>2, <2>1 DEF IInv, RisesFresh
<1>6. Agreement' /\ OwnBridge'
  <2>1. CASE Kept
    BY <1>1, <1>2, <2>1 DEF IInv, Agreement, TalkHasSession, EndGoesOn, Processed, SessionHasTalk,
                            SocketClosed, OwnBridge, Kept, Awaited
  <2>2. CASE Begun
    <3>1. ~overlapped' => ~Resuming
      BY <1>1, <2>2 DEF Begun
    <3>2. ~Resuming => \A i \in Places' : ~IsResume(tasks'[i])
      BY <1>2 DEF Resuming, IsResume, Places
    <3> QED
      BY <1>1, <1>2, <2>2, <3>1, <3>2 DEF Agreement, TalkHasSession, EndGoesOn, Processed,
                                        SessionHasTalk, SocketClosed, OwnBridge, Begun
  <2>3. CASE Framed
    BY <1>1, <1>2, <2>3 DEF IInv, Agreement, TalkHasSession, EndGoesOn, Processed, SessionHasTalk,
                            SocketClosed, OwnBridge, Framed, Awaited
  <2>4. CASE Dropped
    BY <2>4 DEF Agreement, TalkHasSession, EndGoesOn, Processed, SessionHasTalk,
                SocketClosed, OwnBridge, Dropped
  <2> QED
    BY <1>1, <2>1, <2>2, <2>3, <2>4
<1>7. Ids'
  <2>1. \A t \in session' : t.awaited => \E s \in session : s.awaited /\ s.end = t.end
    BY <1>1 DEF Kept, Begun, Framed, Dropped
  <2> QED
    BY <1>1, <2>1, DequeuedIds
<1>8. DropsOverlap'
  BY <1>1 DEF IInv, DropsOverlap, Kept, Begun, Framed, Dropped
<1> QED
  BY <1>3, <1>4, <1>5, <1>6, <1>7, <1>8 DEF IInv

(* The end goes on, or fails: the talk is over, and the bridge lets go of a *)
(* session, which is dropped if it is awaited.                              *)
Released ==
  /\ session' = {}
  /\ dropped' = dropped \cup {[object |-> s.object, end |-> s.end, bridge |-> bridge] :
                              s \in {t \in session : t.awaited}}

LEMMA ResumeSession ==
  ASSUME RunResume
  PROVE  \/ session' = {} /\ dropped' = dropped
         \/ Released /\ Head(tasks).bridge = bridge
         \/ UNCHANGED <<session, dropped>> /\ Head(tasks).bridge # bridge
BY DEF RunResume, EndReturns, EndThrows, Aborted, Released

LEMMA ResumeDrops ==
  ASSUME IInv, RunResume
  PROVE  /\ session' = {} \/ (session' = session /\ Head(tasks).bridge # bridge)
         /\ dropped' \subseteq DroppedSession
         /\ dropped' # {} => dropped # {} \/ Awaited
<1>1. ASSUME NEW s \in session
      PROVE  [object |-> s.object, end |-> s.end, bridge |-> bridge] \in DroppedSession
  BY SessionOne DEF IInv, TypeOK, Session, DroppedSession
<1>2. CASE Released
  <2>1. dropped' \subseteq DroppedSession
    BY <1>1, <1>2 DEF Released, IInv, TypeOK
  <2>2. dropped' # {} => dropped # {} \/ Awaited
    BY <1>2 DEF Released, Awaited
  <2> QED
    BY <1>2, <2>1, <2>2 DEF Released
<1>3. CASE ~Released
  BY <1>3, ResumeSession DEF IInv, TypeOK
<1> QED
  BY <1>2, <1>3

LEMMA RunResumeKeeps == ASSUME IInv, RunResume PROVE IInv'
<1> USE DEF link
<1>1. /\ tasks # <<>> /\ tasks' = Tail(tasks) /\ IsResume(Head(tasks))
      /\ UNCHANGED <<state, enabledNotifications, resets, asked, discovery, cancelled, faults,
                     bridge, request, overlapped>>
      /\ talk' = FALSE /\ replaced' = FALSE /\ speech' \in {"idle", "failed"}
      /\ cached' = cached \cup {Head(tasks).id}
  BY DEF RunResume, EndReturns, EndThrows, TalkOver, Answer, IsResume
<1>2. /\ tasks' \in Seq(Job) /\ 1 \in Places /\ Head(tasks) = tasks[1] /\ tasks[1] \in Job
      /\ \A i \in Places' : i + 1 \in Places /\ tasks'[i] = tasks[i + 1]
  BY <1>1, Dequeued
<1>10. /\ session' = {} \/ (session' = session /\ Head(tasks).bridge # bridge)
       /\ dropped' \subseteq DroppedSession
       /\ dropped' # {} => dropped # {} \/ Awaited
  BY ResumeDrops
<1>3. Resuming
  BY <1>1, <1>2 DEF Resuming, IsResume, Places
<1>4. TypeOK'
  <2>1. cached' \subseteq 0..MaxRequest
    BY <1>1, <1>2, ResumeType DEF IInv, TypeOK
  <2>2. session' = {} \/ \E t \in Session : session' = {t}
    BY <1>10 DEF IInv, TypeOK
  <2> QED
    BY <1>1, <1>2, <1>10, <2>1, <2>2 DEF IInv, TypeOK, LinkTypeOK, Job
<1>5. AskedLater'
  BY <1>1 DEF IInv, AskedLater
<1>6. RisesFresh'
  BY <1>1, <1>2, <1>3 DEF IInv, RisesFresh
<1>7. Agreement'
  <2>1. ~overlapped => session' = {}
    BY <1>1, <1>2, <1>10 DEF IInv, OwnBridge
  <2> QED
    BY <1>1, <2>1 DEF Agreement, TalkHasSession, EndGoesOn, Processed, SessionHasTalk, SocketClosed
<1>8. OwnBridge'
  BY <1>1, <1>2, <1>10 DEF IInv, OwnBridge
<1>9. Ids'
  <2>1. \A t \in session' : t.awaited => \E s \in session : s.awaited /\ s.end = t.end
    BY <1>10
  <2> QED
    BY <1>1, <2>1, DequeuedIds
<1>11. DropsOverlap'
  <2>1. Awaited => overlapped
    BY <1>3 DEF IInv, Agreement, SocketClosed, DropsOverlap, Awaited
  <2> QED
    BY <1>1, <1>10, <2>1 DEF IInv, DropsOverlap
<1> QED
  BY <1>4, <1>5, <1>6, <1>7, <1>8, <1>9, <1>11 DEF IInv

(* The end of a talk: the session is told to finish, and either is awaited  *)
(* or had its result already.                                               *)
Waits(s) ==
  /\ tasks' = Tail(tasks)
  /\ \E t \in Session : /\ session' = {t} /\ t.awaited /\ t.socket
                       /\ t.end = Head(tasks).id /\ t.object = s.object

HadResult(s) ==
  /\ \E t \in Session : session' = {t} /\ ~t.awaited /\ ~t.socket
  /\ \E outcome \in Outcomes :
       tasks' = Append(Tail(tasks), ResumeJob(s.object, Head(tasks).id, bridge, outcome))

LEMMA EndFacts ==
  ASSUME IInv, RunEnd
  PROVE  /\ tasks # <<>> /\ IsRequest(Head(tasks)) /\ ~IsResume(Head(tasks))
         /\ talk /\ talk' = talk /\ speech' = "processing"
         /\ UNCHANGED <<link, replaced, cached, dropped, bridge, request, overlapped>>
         /\ \E s \in Session : session = {s} /\ s.socket /\ (Waits(s) \/ HadResult(s))
<1> DEFINE id == Head(tasks).id
<1>1. /\ tasks # <<>> /\ Head(tasks).kind = "end" /\ End(id)
      /\ UNCHANGED <<link, dropped, bridge, request, overlapped>>
  BY DEF RunEnd
<1>2. IsRequest(Head(tasks)) /\ ~IsResume(Head(tasks))
  BY <1>1 DEF IsRequest, IsResume
<1>3. talk /\ talk' = talk /\ speech' = "processing" /\ UNCHANGED <<replaced, cached>>
  BY <1>1 DEF End
<1>4. id \in 0..MaxRequest
  BY <1>1, <1>2, TailFacts, RequestType DEF IInv, TypeOK, Job
<1> HIDE DEF id
<1>5. PICK s \in session :
        LET ending == [s EXCEPT !.finishing = TRUE, !.awaited = TRUE, !.end = id] IN
        /\ s.socket /\ ~s.awaited
        /\ IF s.finished
           THEN /\ session' = {Closed(s)}
                /\ tasks' = Append(Tail(tasks), ResumeJob(s.object, id, bridge, Result(s)))
           ELSE /\ session' = {Settling(ending)}
                /\ tasks' = Tail(tasks)
  BY <1>1 DEF End, Open
<1>6. s \in Session /\ session = {s} /\ s.socket
  BY <1>5, SessionOne DEF IInv
<1> DEFINE t == [s EXCEPT !.finishing = TRUE, !.awaited = TRUE, !.end = id]
<1>7. t \in Session /\ t.awaited /\ t.end = id /\ t.socket /\ t.object = s.object
  BY <1>4, <1>6 DEF Session
<1>8. IF s.finished
      THEN /\ session' = {Closed(s)}
           /\ tasks' = Append(Tail(tasks), ResumeJob(s.object, id, bridge, Result(s)))
      ELSE session' = {Settling(t)} /\ tasks' = Tail(tasks)
  BY <1>5
<1> HIDE DEF t
<1>9. Result(s) \in Outcomes
  BY DEF Result, Outcomes
<1>10. CASE s.finished
  <2>1. HadResult(s)
    BY <1>6, <1>8, <1>9, <1>10, ClosedFacts DEF HadResult, id
  <2> QED
    BY <1>1, <1>2, <1>3, <1>6, <2>1
<1>11. CASE ~s.finished
  <2>1. /\ Settling(t) \in Session /\ Settling(t).awaited /\ Settling(t).end = id
        /\ Settling(t).socket /\ Settling(t).object = s.object
    BY <1>7, SettlingFacts
  <2>2. Waits(s)
    BY <1>8, <1>11, <2>1 DEF Waits, id
  <2> QED
    BY <1>1, <1>2, <1>3, <1>6, <2>2
<1> QED
  BY <1>10, <1>11

LEMMA RunEndKeeps == ASSUME IInv, RunEnd PROVE IInv'
<1> USE DEF link
<1>1. /\ tasks # <<>> /\ IsRequest(Head(tasks)) /\ ~IsResume(Head(tasks))
      /\ talk /\ talk' = talk /\ speech' = "processing"
      /\ UNCHANGED <<state, enabledNotifications, resets, asked, discovery, cancelled, faults,
                     replaced, cached, dropped, bridge, request, overlapped>>
  BY EndFacts
<1>2. PICK s \in Session : session = {s} /\ s.socket /\ (Waits(s) \/ HadResult(s))
  BY EndFacts
<1>3. ~Resuming \/ overlapped
  BY <1>2 DEF IInv, Agreement, SocketClosed
<1>4. state \notin Rising
  BY <1>1 DEF IInv, RisesFresh
<1>5. AskedLater' /\ RisesFresh'
  BY <1>1, <1>4 DEF IInv, AskedLater, RisesFresh
<1>6. CASE Waits(s)
  <2>1. PICK t \in Session : session' = {t} /\ t.awaited /\ t.socket /\ t.end = Head(tasks).id
    BY <1>6 DEF Waits
  <2>2. tasks' = Tail(tasks)
    BY <1>6 DEF Waits
  <2>3. /\ tasks' \in Seq(Job) /\ (Resuming' => Resuming)
        /\ \A i \in Places' : i + 1 \in Places /\ tasks'[i] = tasks[i + 1]
    BY <1>1, <2>2, Dequeued
  <2>4. TypeOK'
    BY <1>1, <2>1, <2>3 DEF IInv, TypeOK, LinkTypeOK, Job
  <2>5. Awaited'
    BY <2>1 DEF Awaited
  <2>6. Agreement' /\ OwnBridge'
    BY <1>1, <1>2, <1>3, <2>1, <2>3, <2>5 DEF IInv, Agreement, TalkHasSession, EndGoesOn, Processed,
                                        SessionHasTalk, SocketClosed, OwnBridge
  <2>7. Ids'
    BY <1>1, <2>1, <2>2, DequeuedIds
  <2>8. DropsOverlap'
    BY <1>1, <2>1 DEF IInv, DropsOverlap
  <2> QED
    BY <1>5, <2>4, <2>6, <2>7, <2>8 DEF IInv
<1>7. CASE HadResult(s)
  <2>1. PICK t \in Session : session' = {t} /\ ~t.awaited /\ ~t.socket
    BY <1>7 DEF HadResult
  <2>2. PICK outcome \in Outcomes :
          tasks' = Append(Tail(tasks), ResumeJob(s.object, Head(tasks).id, bridge, outcome))
    BY <1>7 DEF HadResult
  <2>3. PICK job : job = ResumeJob(s.object, Head(tasks).id, bridge, outcome)
    OBVIOUS
  <2>4. tasks \in Seq(Job)
    BY DEF IInv, TypeOK, Job
  <2>5. PICK n \in Nat : n = Len(Tail(tasks))
    BY <1>1, <2>4, TailFacts
  <2>6. /\ Len(tasks) = n + 1 /\ Tail(tasks) \in Seq(Job) /\ Head(tasks) = tasks[1]
        /\ tasks[1] \in Job /\ \A i \in 1..n : Tail(tasks)[i] = tasks[i + 1]
    BY <1>1, <2>4, <2>5, TailFacts
  <2>7. /\ job \in Job /\ IsResume(job) /\ ~IsRequest(job) /\ job.kind = "resume"
        /\ job.id = tasks[1].id /\ job.bridge = bridge
    BY <1>1, <1>2, <2>3, <2>6, RequestType
    DEF IInv, TypeOK, Job, Resume, ResumeJob, Session, IsResume, IsRequest
  <2>8. /\ tasks' \in Seq(Job) /\ Len(tasks') = n + 1 /\ tasks'[n + 1] = job
        /\ \A i \in 1..n : tasks'[i] = tasks[i + 1]
    BY <2>2, <2>3, <2>5, <2>6, <2>7, AppendFacts
  <2>9. Places' = 1..(n + 1) /\ Places = 1..(n + 1)
    BY <2>6, <2>8 DEF Places
  <2>10. TypeOK'
    BY <1>1, <2>1, <2>8 DEF IInv, TypeOK, LinkTypeOK, Job
  <2>11. Resuming'
    BY <2>7, <2>8 DEF Resuming
  <2>12. Agreement'
    BY <1>1, <2>1, <2>11 DEF IInv, Agreement, TalkHasSession, EndGoesOn, Processed, SessionHasTalk,
                             SocketClosed
  <2>13. OwnBridge'
    BY <1>1, <1>2, <2>7, <2>8, <2>9 DEF IInv, OwnBridge
  <2>14. InOrder' /\ \A id : Older(id) => Older(id)'
    <3>1. \A i, j \in 1..n : i < j => i + 1 < j + 1 /\ i + 1 \in 1..(n + 1) /\ j + 1 \in 1..(n + 1)
      OBVIOUS
    <3>2. \A i \in 1..(n + 1) : IsRequest(tasks'[i]) => i \in 1..n
      BY <2>7, <2>8
    <3>3. InOrder'
      BY <1>1, <2>8, <2>9, <3>1, <3>2 DEF IInv, Ids, InOrder
    <3>4. \A id : Older(id) => Older(id)'
      BY <1>1, <2>8, <2>9, <3>1, <3>2 DEF Older
    <3> QED
      BY <3>3, <3>4
  <2>15. EndOlder'
    BY <2>1 DEF EndOlder
  <2>16. DropsOverlap'
    BY <1>1, <2>1 DEF IInv, DropsOverlap
  <2> QED
    BY <1>5, <2>10, <2>12, <2>13, <2>14, <2>15, <2>16 DEF IInv, Ids
<1> QED
  BY <1>2, <1>6, <1>7

-----------------------------------------------------------------------------
LEMMA InitInv == Init => IInv
<1> SUFFICES ASSUME Init PROVE IInv
  OBVIOUS
<1> USE SpeechAssumption, LinkAssumption DEF Init, LinkInit
<1>1. TypeOK
  <2>1. LinkTypeOK
    <3>1. asked \in [Roles -> {"no", "off", "on"}]
      BY DEF NothingAsked
    <3>2. faults \in 0..MaxFaults
      OBVIOUS
    <3>3. /\ state \in Connections \cup {"unavailable", "scanning"} /\ state # "ready"
          /\ enabledNotifications \subseteq Roles /\ resets \subseteq {Info}
      OBVIOUS
    <3> QED
      BY <3>1, <3>2, <3>3, Zenon DEF LinkTypeOK
  <2>2. tasks \in Seq(Packet \cup Resume)
    OBVIOUS
  <2>3. bridge \in 0..MaxBridges /\ request \in 1..(MaxRequest + 1)
    OBVIOUS
  <2> QED
    BY <2>1, <2>2, <2>3 DEF TypeOK
<1>2. AskedLater /\ RisesFresh
  BY DEF AskedLater, RisesFresh, Rising
<1>3. Agreement /\ OwnBridge
  BY DEF Agreement, TalkHasSession, EndGoesOn, Processed, SessionHasTalk, SocketClosed, OwnBridge
<1>4. Ids
  BY DEF Ids, InOrder, EndOlder, Places
<1>5. DropsOverlap
  BY DEF DropsOverlap
<1> QED
  BY <1>1, <1>2, <1>3, <1>4, <1>5 DEF IInv

LEMMA Inductive == IInv /\ [Next]_vars => IInv'
<1> SUFFICES ASSUME IInv, [Next]_vars PROVE IInv'
  OBVIOUS
<1>1. CASE SessionStep
  BY <1>1, StepFacts, QuietKeeps, OverKeeps DEF IInv
<1>2. CASE RunTask
  BY <1>2, RunPacketKeeps, RunEndKeeps, RunResumeKeeps DEF RunTask
<1>3. ASSUME NEW kind \in {"begin", "frame", "end"}, Receive(kind) PROVE IInv'
  BY <1>3, ReceiveKeeps
<1>4. CASE LinkAnswers \/ LinkAnswersQuietly \/ LinkBreaks
  BY <1>4, LinkAnswersKeeps, LinkQuietKeeps, LinkBreaksKeeps
<1>5. CASE Replace
  BY <1>5, ReplaceKeeps
<1>6. CASE UNCHANGED vars
  BY <1>6, StutterKeeps
<1>7. ASSUME NEW o \in Objects, DroppedAnswers(o) PROVE IInv'
  BY <1>7, DroppedKeeps
<1> QED
  BY <1>1, <1>2, <1>3, <1>4, <1>5, <1>6, <1>7 DEF Next

(* The inductive invariant: the coordinator and its bridge agree, queued    *)
(* requests and an awaited end keep their order while links come and go,    *)
(* and no session is dropped but where talks have overlapped.               *)
THEOREM Invariance == Spec => []IInv
BY InitInv, Inductive, PTL DEF Spec

(* Every variable keeps its type: the queue holds packets and results of    *)
(* bridges that were, and a ready link has all its notifications.           *)
THEOREM TypeCorrect == Spec => []TypeOK
<1>1. IInv => TypeOK
  BY DEF IInv
<1> QED
  BY <1>1, Invariance, PTL

-----------------------------------------------------------------------------
(* A session object is the bridge's, a dropped one, or that of one queued   *)
(* result, and never two of these: what resumes an end once.                *)
Apart ==
  /\ \A i, j \in Places :
       IsResume(tasks[i]) /\ IsResume(tasks[j]) /\ i # j => tasks[i].object # tasks[j].object
  /\ \A i \in Places : IsResume(tasks[i]) =>
       /\ \A s \in Open : s.object # tasks[i].object
       /\ \A d \in dropped : d.object # tasks[i].object
  /\ \A s \in Open, d \in dropped : s.object # d.object
  /\ \A d, e \in dropped : d.object = e.object => d = e

(* Objects stay apart when no result is queued, none is dropped, and a new  *)
(* session has an object that is not in use.                                *)
LEMMA ApartStays ==
  ASSUME Apart, NEW k \in Nat,
         \A i \in Places' : i \in Nat /\ (IsResume(tasks'[i]) =>
           i + k \in Places /\ tasks'[i] = tasks[i + k]),
         \A t \in session' : t.socket =>
           t.object \notin InUse \/ \E s \in Open : s.object = t.object,
         dropped' \subseteq dropped
  PROVE  Apart'
<1>1. ASSUME NEW i \in Places', NEW j \in Places', IsResume(tasks'[i]), IsResume(tasks'[j]), i # j
      PROVE  tasks'[i].object # tasks'[j].object
  <2>1. /\ i + k \in Places /\ tasks'[i] = tasks[i + k] /\ i \in Nat
        /\ j + k \in Places /\ tasks'[j] = tasks[j + k] /\ j \in Nat
    BY <1>1
  <2>2. i + k # j + k
    BY <1>1, <2>1
  <2> QED
    BY <1>1, <2>1, <2>2 DEF Apart
<1>2. ASSUME NEW o, o \notin InUse
      PROVE  /\ \A i \in Places : IsResume(tasks[i]) => tasks[i].object # o
             /\ \A d \in dropped : d.object # o
  BY <1>2 DEF InUse, Places, IsResume
<1>3. ASSUME NEW t \in Open'
      PROVE  /\ \A i \in Places : IsResume(tasks[i]) => tasks[i].object # t.object
             /\ \A d \in dropped : d.object # t.object
  <2>1. t \in session' /\ t.socket
    BY <1>3 DEF Open
  <2>2. CASE t.object \notin InUse
    BY <1>2, <2>2
  <2>3. CASE \E s \in Open : s.object = t.object
    BY <2>3 DEF Apart
  <2> QED
    BY <2>1, <2>2, <2>3
<1>4. ASSUME NEW i \in Places', IsResume(tasks'[i])
      PROVE  /\ \A s \in Open' : s.object # tasks'[i].object
             /\ \A d \in dropped' : d.object # tasks'[i].object
  <2>1. i + k \in Places /\ tasks'[i] = tasks[i + k] /\ IsResume(tasks[i + k])
    BY <1>4
  <2> QED
    BY <1>3, <2>1 DEF Apart
<1> QED
  BY <1>1, <1>3, <1>4 DEF Apart

(* They stay apart when a result is queued behind the others, if its object *)
(* was nobody's but the session's or the dropped one's that it was taken    *)
(* from.                                                                    *)
LEMMA ApartJoins ==
  ASSUME Apart, NEW k \in Nat, NEW n \in Nat, NEW job, Places' = 1..(n + 1), tasks'[n + 1] = job,
         \A i \in 1..n : i + k \in Places /\ tasks'[i] = tasks[i + k],
         \A i \in Places : IsResume(tasks[i]) => tasks[i].object # job.object,
         \A t \in session' : t.socket =>
           t.object # job.object /\ \E s \in Open : s.object = t.object,
         dropped' \subseteq dropped, \A d \in dropped' : d.object # job.object
  PROVE  Apart'
<1>1. ASSUME NEW i \in 1..(n + 1), NEW j \in 1..(n + 1), IsResume(tasks'[i]), IsResume(tasks'[j]),
             i # j
      PROVE  tasks'[i].object # tasks'[j].object
  <2>1. CASE i # n + 1 /\ j # n + 1
    <3>1. i \in 1..n /\ j \in 1..n /\ i + k # j + k
      BY <1>1, <2>1
    <3> QED
      BY <1>1, <3>1 DEF Apart
  <2>2. CASE i = n + 1
    <3>1. j \in 1..n
      BY <1>1, <2>2
    <3> QED
      BY <1>1, <2>2, <3>1
  <2>3. CASE j = n + 1
    <3>1. i \in 1..n
      BY <1>1, <2>3
    <3> QED
      BY <1>1, <2>3, <3>1
  <2> QED
    BY <2>1, <2>2, <2>3
<1>2. ASSUME NEW t \in Open' PROVE t.object # job.object /\ \E s \in Open : s.object = t.object
  BY <1>2 DEF Open
<1>3. ASSUME NEW i \in 1..(n + 1), IsResume(tasks'[i])
      PROVE  /\ \A s \in Open' : s.object # tasks'[i].object
             /\ \A d \in dropped' : d.object # tasks'[i].object
  <2>1. CASE i = n + 1
    BY <1>2, <2>1
  <2>2. CASE i # n + 1
    <3>1. i + k \in Places /\ tasks'[i] = tasks[i + k] /\ IsResume(tasks[i + k])
      BY <1>3, <2>2
    <3> QED
      BY <1>2, <3>1 DEF Apart
  <2> QED
    BY <2>1, <2>2
<1>4. \A s \in Open', d \in dropped' : s.object # d.object
  BY <1>2 DEF Apart
<1> QED
  BY <1>1, <1>3, <1>4 DEF Apart

LEMMA ApartSession == ASSUME IInv, Apart, SessionStep PROVE Apart'
<1>1. PICK s \in Session, t \in Session : session = {s} /\ (Quiet(s, t) \/ Over(s, t))
  BY StepFacts DEF IInv
<1>2. dropped' = dropped
  BY StepFacts DEF IInv, sessionOnly
<1>3. CASE Quiet(s, t)
  <2>1. tasks' = tasks /\ session' = {t} /\ t.object = s.object /\ (t.socket => s \in Open)
    BY <1>1, <1>3 DEF Quiet, Open
  <2>2. \A i \in Places' : i \in Nat /\ i + 0 \in Places /\ tasks'[i] = tasks[i + 0]
    BY <2>1 DEF Places
  <2> QED
    BY <1>2, <2>1, <2>2, ApartStays
<1>4. CASE Over(s, t)
  <2>1. PICK outcome \in Outcomes : tasks' = Append(tasks, ResumeJob(s.object, s.end, bridge, outcome))
    BY <1>4 DEF Over
  <2>2. s \in Open /\ session' = {t} /\ ~t.socket
    BY <1>1, <1>4 DEF Over, IInv, DropsOverlap, Open
  <2>3. PICK job : job = ResumeJob(s.object, s.end, bridge, outcome)
    OBVIOUS
  <2>4. job \in Job /\ job.object = s.object
    BY <2>3 DEF IInv, TypeOK, Job, Resume, ResumeJob, Session
  <2>5. PICK n \in Nat : n = Len(tasks)
    BY DEF IInv, TypeOK
  <2>6. /\ Places' = 1..(n + 1) /\ Places = 1..n /\ tasks'[n + 1] = job
        /\ \A i \in 1..n : i + 0 \in Places /\ tasks'[i] = tasks[i + 0]
    BY <2>1, <2>3, <2>4, <2>5, AppendFacts DEF IInv, TypeOK, Job, Places
  <2>7. /\ \A i \in Places : IsResume(tasks[i]) => tasks[i].object # job.object
        /\ \A d \in dropped' : d.object # job.object
    BY <1>2, <2>2, <2>4 DEF Apart
  <2> QED
    BY <1>2, <2>2, <2>6, <2>7, ApartJoins
<1> QED
  BY <1>1, <1>3, <1>4

LEMMA ApartDropped ==
  ASSUME IInv, Apart, NEW o \in Objects, DroppedAnswers(o)
  PROVE  Apart'
<1>1. PICK d \in dropped, job \in Job :
        /\ d.object = o /\ dropped' = dropped \ {d} /\ job.object = o
        /\ tasks' = Append(tasks, job)
  BY DroppedFacts
<1>2. session' = session
  BY DroppedFacts
<1>3. PICK n \in Nat : n = Len(tasks)
  BY DEF IInv, TypeOK
<1>4. /\ Places' = 1..(n + 1) /\ Places = 1..n /\ tasks'[n + 1] = job
      /\ \A i \in 1..n : i + 0 \in Places /\ tasks'[i] = tasks[i + 0]
  BY <1>1, <1>3, AppendFacts DEF IInv, TypeOK, Job, Places
<1>5. /\ \A i \in Places : IsResume(tasks[i]) => tasks[i].object # job.object
      /\ \A e \in dropped' : e.object # job.object
      /\ \A s \in session' : s.socket => s.object # job.object /\ s \in Open
  BY <1>1, <1>2 DEF Apart, Open
<1> QED
  BY <1>1, <1>4, <1>5, ApartJoins

LEMMA ApartReceive ==
  ASSUME IInv, Apart, NEW kind \in {"begin", "frame", "end"}, Receive(kind)
  PROVE  Apart'
<1>1. PICK job \in Job : ~IsResume(job) /\ tasks' = Append(tasks, job)
  <2>1. request \in 0..(MaxRequest + 1) /\ MaxRequest \in Nat
    BY SpeechAssumption DEF IInv, TypeOK
  <2>2. CASE kind = "frame"
    <3>1. [kind |-> kind, id |-> 0] \in Job /\ ~IsResume([kind |-> kind, id |-> 0])
      BY <2>1 DEF Job, Packet, IsResume
    <3> QED
      BY <2>2, <3>1 DEF Receive
  <2>3. CASE kind # "frame"
    <3>1. request <= MaxRequest /\ tasks' = Append(tasks, [kind |-> kind, id |-> request])
      BY <2>3 DEF Receive
    <3>2. [kind |-> kind, id |-> request] \in Job /\ ~IsResume([kind |-> kind, id |-> request])
      BY <2>1, <3>1 DEF Job, Packet, IsResume
    <3> QED
      BY <3>1, <3>2
  <2> QED
    BY <2>2, <2>3
<1>2. UNCHANGED <<session, dropped>>
  BY DEF Receive
<1>3. PICK n \in Nat : n = Len(tasks)
  BY DEF IInv, TypeOK
<1>4. /\ Places' = 1..(n + 1) /\ Places = 1..n /\ tasks'[n + 1] = job
      /\ \A i \in 1..n : tasks'[i] = tasks[i]
  BY <1>1, <1>3, AppendFacts DEF IInv, TypeOK, Job, Places
<1>5. \A i \in Places' : i \in Nat /\ (IsResume(tasks'[i]) =>
        i + 0 \in Places /\ tasks'[i] = tasks[i + 0])
  <2>1. ASSUME NEW i \in 1..(n + 1), IsResume(tasks'[i])
        PROVE  i + 0 \in Places /\ tasks'[i] = tasks[i + 0]
    <3>1. i # n + 1
      BY <1>1, <1>4, <2>1
    <3>2. i \in 1..n /\ i + 0 = i
      BY <3>1
    <3> QED
      BY <1>4, <3>2
  <2>2. \A i \in 1..(n + 1) : i \in Nat
    OBVIOUS
  <2> QED
    BY <1>4, <2>1, <2>2
<1>6. \A t \in session' : t.socket => \E s \in Open : s.object = t.object
  BY <1>2 DEF Open
<1> QED
  BY <1>2, <1>5, <1>6, ApartStays

(* Steps that leave the queue as it is and at most give up the session. *)
LEMMA ApartQuiet ==
  ASSUME Apart, tasks' = tasks, session' \in {session, {}}, dropped' = dropped
  PROVE  Apart'
<1>1. \A i \in Places' : i \in Nat /\ i + 0 \in Places /\ tasks'[i] = tasks[i + 0]
  BY DEF Places
<1>2. \A t \in session' : t.socket => \E s \in Open : s.object = t.object
  BY DEF Open
<1> QED
  BY <1>1, <1>2, ApartStays

LEMMA ApartTask == ASSUME IInv, Apart, RunTask PROVE Apart'
<1>1. ASSUME tasks # <<>>, tasks' = Tail(tasks)
      PROVE  \A i \in Places' : i \in Nat /\ i + 1 \in Places /\ tasks'[i] = tasks[i + 1]
  BY <1>1, Dequeued
<1>2. \A s \in session : s.socket => s \in Open
  BY DEF Open
<1>3. CASE RunPacket
  <2>1. \A t \in session' : t.socket =>
          t.object \notin InUse \/ \E s \in Open : s.object = t.object
    BY <1>2, <1>3, PacketFacts DEF Kept, Begun, Framed, Dropped
  <2>2. tasks # <<>> /\ tasks' = Tail(tasks) /\ dropped' = dropped
    BY <1>3, PacketFacts
  <2> QED
    BY <1>1, <2>1, <2>2, ApartStays
<1>4. CASE RunEnd
  <2>1. PICK s \in Session : session = {s} /\ s \in Open /\ (Waits(s) \/ HadResult(s))
    BY <1>2, <1>4, EndFacts
  <2>2. tasks # <<>> /\ dropped' = dropped /\ ~IsResume(Head(tasks))
    BY <1>4, EndFacts
  <2>3. CASE Waits(s)
    <3>1. tasks' = Tail(tasks) /\ \A t \in session' : t.object = s.object
      BY <2>3 DEF Waits
    <3> QED
      BY <1>1, <2>1, <2>2, <3>1, ApartStays
  <2>4. CASE HadResult(s)
    <3>1. PICK outcome \in Outcomes :
            tasks' = Append(Tail(tasks), ResumeJob(s.object, Head(tasks).id, bridge, outcome))
      BY <2>4 DEF HadResult
    <3>2. PICK job : job = ResumeJob(s.object, Head(tasks).id, bridge, outcome)
      OBVIOUS
    <3>3. PICK n \in Nat : n = Len(Tail(tasks))
      BY <2>2, TailFacts DEF IInv, TypeOK, Job
    <3>4. /\ Len(tasks) = n + 1 /\ Tail(tasks) \in Seq(Job) /\ Head(tasks) \in Job
          /\ \A i \in 1..n : Tail(tasks)[i] = tasks[i + 1]
      BY <2>2, <3>3, TailFacts DEF IInv, TypeOK, Job
    <3>5. job \in Job /\ job.object = s.object
      BY <2>2, <3>2, <3>4, RequestType DEF IInv, TypeOK, Job, Resume, ResumeJob, Session
    <3>6. /\ Len(tasks') = n + 1 /\ tasks'[n + 1] = job
          /\ \A i \in 1..n : tasks'[i] = tasks[i + 1]
      BY <3>1, <3>2, <3>3, <3>4, <3>5, AppendFacts
    <3>7. /\ Places' = 1..(n + 1)
          /\ \A i \in 1..n : i + 1 \in Places /\ tasks'[i] = tasks[i + 1]
      BY <3>4, <3>6 DEF Places
    <3>8. /\ \A i \in Places : IsResume(tasks[i]) => tasks[i].object # job.object
          /\ \A d \in dropped' : d.object # job.object
      BY <2>1, <2>2, <3>5 DEF Apart
    <3>9. \A t \in session' : ~t.socket
      BY <2>4 DEF HadResult
    <3> QED
      BY <2>2, <3>6, <3>7, <3>8, <3>9, ApartJoins
  <2> QED
    BY <2>1, <2>3, <2>4
<1>5. CASE RunResume
  <2>1. tasks # <<>> /\ tasks' = Tail(tasks)
    BY <1>5 DEF RunResume
  <2>2. CASE session' \in {session, {}} /\ dropped' = dropped
    <3>1. \A t \in session' : t.socket => \E s \in Open : s.object = t.object
      BY <1>2, <2>2
    <3> QED
      BY <1>1, <2>1, <2>2, <3>1, ApartStays
  <2>3. CASE Released
    <3>1. session' = {} /\ Open' = {}
      BY <2>3 DEF Released, Open
    <3>2. ASSUME NEW d \in dropped', d \notin dropped
          PROVE  /\ \E s \in Open : d.object = s.object
                 /\ \A e \in dropped' : e \notin dropped => e = d
      <4>1. PICK s \in session : /\ s.awaited
                                 /\ d = [object |-> s.object, end |-> s.end, bridge |-> bridge]
        BY <2>3, <3>2 DEF Released
      <4>2. session = {s} /\ s \in Open
        BY <4>1, SessionOne DEF IInv, DropsOverlap, Open
      <4> QED
        BY <2>3, <4>1, <4>2 DEF Released
    <3>3. ASSUME NEW i \in Places', NEW j \in Places', IsResume(tasks'[i]), IsResume(tasks'[j]),
                 i # j
          PROVE  tasks'[i].object # tasks'[j].object
      <4>1. /\ i + 1 \in Places /\ tasks'[i] = tasks[i + 1] /\ i \in Nat
            /\ j + 1 \in Places /\ tasks'[j] = tasks[j + 1] /\ j \in Nat
        BY <1>1, <2>1
      <4>2. i + 1 # j + 1
        BY <3>3, <4>1
      <4> QED
        BY <3>3, <4>1, <4>2 DEF Apart
    <3>4. ASSUME NEW i \in Places', IsResume(tasks'[i]), NEW d \in dropped'
          PROVE  d.object # tasks'[i].object
      <4>1. i + 1 \in Places /\ tasks'[i] = tasks[i + 1] /\ IsResume(tasks[i + 1])
        BY <1>1, <2>1, <3>4
      <4>2. CASE d \in dropped
        BY <4>1, <4>2 DEF Apart
      <4>3. CASE d \notin dropped
        BY <3>2, <4>1, <4>3 DEF Apart
      <4> QED
        BY <4>2, <4>3
    <3>5. ASSUME NEW d \in dropped', NEW e \in dropped', d.object = e.object
          PROVE  d = e
      <4>1. CASE d \in dropped /\ e \in dropped
        BY <3>5, <4>1 DEF Apart
      <4>2. CASE d \in dropped /\ e \notin dropped
        BY <3>2, <3>5, <4>2 DEF Apart
      <4>3. CASE d \notin dropped /\ e \in dropped
        BY <3>2, <3>5, <4>3 DEF Apart
      <4>4. CASE d \notin dropped /\ e \notin dropped
        BY <3>2, <4>4
      <4> QED
        BY <4>1, <4>2, <4>3, <4>4
    <3> QED
      BY <3>1, <3>3, <3>4, <3>5 DEF Apart
  <2> QED
    BY <1>5, <2>2, <2>3, ResumeSession
<1> QED
  BY <1>3, <1>4, <1>5 DEF RunTask

LEMMA ApartInductive == ASSUME IInv, Apart, [Next]_vars PROVE Apart'
<1>1. CASE SessionStep \/ RunTask
  BY <1>1, ApartSession, ApartTask
<1>2. ASSUME NEW o \in Objects, DroppedAnswers(o) PROVE Apart'
  BY <1>2, ApartDropped
<1>3. ASSUME NEW kind \in {"begin", "frame", "end"}, Receive(kind) PROVE Apart'
  BY <1>3, ApartReceive
<1>4. CASE LinkAnswers \/ LinkBreaks
  <2>1. UNCHANGED <<tasks, dropped>> /\ (UNCHANGED session \/ ResetConnection)
    BY <1>4 DEF LinkAnswers, LinkBreaks, Announced
  <2> QED
    BY <2>1, ResetFacts, ApartQuiet
<1>5. CASE LinkAnswersQuietly \/ Replace \/ UNCHANGED vars
  BY <1>5, ApartQuiet DEF LinkAnswersQuietly, Replace, Aborted, vars
<1> QED
  BY <1>1, <1>2, <1>3, <1>4, <1>5 DEF Next

(* The coordinator and the recogniser agree on whether there is a talk, and *)
(* an awaited end is resumed once, however packets, results, timers, lost   *)
(* links and changes of the settings follow each other, and whether or not  *)
(* the bridge still has the session that the end is awaited of.             *)
THEOREM TalkIsOneThing == Spec => []TalkRecordsAgree
<1>1. Init => Apart
  BY DEF Init, Apart, Places, Open
<1>2. IInv /\ Apart => ResumedOnce
  <2> SUFFICES ASSUME IInv, Apart, NEW i \in Places, IsResume(tasks[i])
               PROVE  /\ \A s \in session : s.awaited => s.object # tasks[i].object
                      /\ \A d \in dropped : d.object # tasks[i].object
                      /\ \A j \in 1..(i - 1) :
                           IsResume(tasks[j]) => tasks[j].object # tasks[i].object
    BY DEF ResumedOnce, Places, IsResume
  <2>1. \A s \in session : s.awaited => s \in Open
    BY DEF IInv, DropsOverlap, Open
  <2>2. \A j \in 1..(i - 1) : j \in Places /\ i # j
    BY DEF Places, IInv, TypeOK
  <2> QED
    BY <2>1, <2>2 DEF Apart
<1>3. IInv /\ ResumedOnce => TalkRecordsAgree
  BY DEF IInv, Agreement, TalkHasSession, EndGoesOn, SessionHasTalk, SocketClosed, DropsOverlap,
         TalkRecordsAgree, Open
<1> QED
  BY <1>1, <1>2, <1>3, ApartInductive, Invariance, PTL DEF Spec

(* A link that comes up has no talk and no kept result of the one before.   *)
THEOREM LinkStartsFresh == Spec => FreshLink
<1> DEFINE Fresh == state # "ready" /\ state' = "ready" =>
                      ~talk' /\ (~overlapped => speech' = "idle" /\ cached' = {})
<1>1. IInv /\ [Next]_vars => [Fresh]_vars
  <2> SUFFICES ASSUME IInv, [Next]_vars, state # "ready", state' = "ready"
               PROVE  ~talk' /\ (~overlapped => speech' = "idle" /\ cached' = {})
    OBVIOUS
  <2>1. LinkAnswers
    <3>1. ~SessionStep
      BY StepFacts DEF IInv, link
    <3>2. ~RunTask
      BY PacketFacts, EndFacts DEF RunTask, RunResume, link
    <3>3. ~LinkBreaks
      BY LinkBreakFacts DEF LinkBreaks
    <3>4. ~LinkAnswersQuietly
      BY DEF LinkAnswersQuietly, ResetDone, DiscoveryFails
    <3> QED
      BY <3>1, <3>2, <3>3, <3>4 DEF Next, vars, link, Receive, Replace, DroppedAnswers
  <2>2. (Answered \/ DiscoveryFails) /\ UNCHANGED coordinator
    BY <2>1 DEF LinkAnswers, Announced
  <2>3. state = "subscribingNotifications"
    BY <2>2, LinkAnswerFacts DEF IInv, TypeOK, LinkInv
  <2> QED
    BY <2>2, <2>3 DEF IInv, RisesFresh, Rising, coordinator
<1> QED
  BY <1>1, Invariance, PTL DEF Spec, FreshLink

-----------------------------------------------------------------------------
(* What is answered, and what is about to be, is older than every request   *)
(* that is queued and than those the link has still to bring.               *)
ResultsOld ==
  ~overlapped =>
    /\ \A id \in cached : Older(id)
    /\ \A i \in Places : IsResume(tasks[i]) => Older(tasks[i].id)

LEMMA ResultsOldOver ==
  ASSUME IInv, ResultsOld, UNCHANGED <<link, sessionOnly>>, NEW s \in Session, NEW t \in Session,
         session = {s}, Over(s, t)
  PROVE  ResultsOld'
<1> USE DEF link, sessionOnly, coordinator
<1>1. PICK outcome \in Outcomes :
        tasks' = Append(tasks, ResumeJob(s.object, s.end, bridge, outcome))
  BY DEF Over
<1> DEFINE job == ResumeJob(s.object, s.end, bridge, outcome)
<1>2. job \in Job /\ ~IsRequest(job) /\ job.id = s.end
  BY DEF IInv, TypeOK, Job, Resume, ResumeJob, Session, IsRequest
<1>3. tasks' = Append(tasks, job)
  BY <1>1
<1> HIDE DEF job
<1>4. PICK n \in Nat : n = Len(tasks)
  BY DEF IInv, TypeOK
<1>5. /\ Len(tasks') = n + 1 /\ tasks'[n + 1] = job
      /\ \A i \in 1..n : tasks'[i] = tasks[i]
  BY <1>2, <1>3, <1>4, AppendFacts DEF IInv, TypeOK, Job
<1>6. Places' = 1..(n + 1) /\ Places = 1..n
  BY <1>4, <1>5 DEF Places
<1>7. \A id : Older(id) => Older(id)'
  BY <1>2, <1>5, <1>6 DEF Older
<1>8. ~overlapped => Older(s.end)
  BY DEF IInv, Ids, EndOlder, Over
<1> QED
  BY <1>2, <1>5, <1>6, <1>7, <1>8 DEF ResultsOld

LEMMA ResultsOldReceive ==
  ASSUME IInv, ResultsOld, NEW kind \in {"begin", "frame", "end"}, Receive(kind)
  PROVE  ResultsOld'
<1> USE DEF link, coordinator
<1>1. PICK job : /\ tasks' = Append(tasks, job) /\ job.kind = kind /\ job \in Packet
                 /\ IsRequest(job) => job.id = request /\ request' = request + 1
                 /\ request' \in {request, request + 1}
  <2>1. request \in 1..(MaxRequest + 1) /\ MaxRequest \in Nat
    BY SpeechAssumption DEF IInv, TypeOK
  <2>2. CASE kind = "frame"
    <3> WITNESS [kind |-> kind, id |-> 0]
    <3> QED
      BY <2>1, <2>2 DEF Receive, Packet, IsRequest
  <2>3. CASE kind # "frame"
    <3> WITNESS [kind |-> kind, id |-> request]
    <3> QED
      BY <2>1, <2>3 DEF Receive, Packet, IsRequest
  <2> QED
    BY <2>2, <2>3
<1>2. state = "ready" /\ UNCHANGED <<state, cached, overlapped>>
  BY DEF Receive
<1>3. PICK n \in Nat : n = Len(tasks)
  BY DEF IInv, TypeOK
<1>4. /\ Len(tasks') = n + 1 /\ tasks'[n + 1] = job
      /\ \A i \in 1..n : tasks'[i] = tasks[i]
  BY <1>1, <1>3, AppendFacts DEF IInv, TypeOK, Job
<1>5. Places' = 1..(n + 1) /\ Places = 1..n /\ ~IsResume(job)
  BY <1>1, <1>3, <1>4 DEF Places, IsResume
<1>6. ASSUME NEW id \in 0..MaxRequest, Older(id) PROVE Older(id)'
  BY <1>1, <1>2, <1>4, <1>5, <1>6 DEF IInv, TypeOK, Older
<1>7. cached \subseteq 0..MaxRequest /\ \A i \in 1..n : tasks[i].id \in 0..MaxRequest
  BY <1>5 DEF IInv, TypeOK, Packet, Resume, Places
<1> QED
  BY <1>2, <1>4, <1>5, <1>6, <1>7 DEF ResultsOld

LEMMA ResultsOldLink ==
  ASSUME IInv, ResultsOld, LinkAnswers \/ LinkAnswersQuietly \/ LinkBreaks
  PROVE  ResultsOld'
<1>1. CASE LinkAnswersQuietly
  <2>1. state' = state /\ UNCHANGED <<cached, tasks, request, overlapped>>
    BY <1>1 DEF LinkAnswersQuietly, ResetDone, DiscoveryFails, coordinator
  <2> QED
    BY <2>1 DEF ResultsOld, Older, Places
<1>2. CASE LinkBreaks
  <2>1. state' # "ready" /\ cached' = {} /\ UNCHANGED <<tasks, overlapped>>
    BY <1>2, LinkBreakFacts, ResetFacts DEF LinkBreaks, Announced
  <2> QED
    BY <2>1 DEF ResultsOld, Older, Places
<1>3. CASE LinkAnswers
  <2>1. /\ tasks = <<>> /\ UNCHANGED <<tasks, request, overlapped>>
        /\ Answered \/ DiscoveryFails
        /\ IF state' = "ready" THEN UNCHANGED coordinator ELSE ResetConnection
    BY <1>3 DEF LinkAnswers, Announced
  <2>2. Places = {} /\ Places' = {}
    BY <2>1 DEF Places
  <2>3. CASE state' # "ready"
    BY <2>1, <2>2, <2>3, ResetFacts DEF ResultsOld
  <2>4. CASE state' = "ready"
    <3>1. state \in {"subscribingNotifications", "ready"}
      BY <2>1, <2>4, LinkAnswerFacts DEF IInv, TypeOK, LinkInv
    <3>2. ~overlapped => cached = {} \/ state = "ready"
      BY <3>1 DEF IInv, RisesFresh, Rising
    <3> QED
      BY <2>1, <2>2, <2>4, <3>2 DEF ResultsOld, Older, coordinator
  <2> QED
    BY <2>3, <2>4
<1> QED
  BY <1>1, <1>2, <1>3

LEMMA ResultsOldTask == ASSUME IInv, ResultsOld, RunTask PROVE ResultsOld'
<1> USE DEF link
<1> DEFINE first == tasks[1]
<1>2. CASE RunPacket \/ RunResume
  <2>0. tasks # <<>> /\ tasks' = Tail(tasks) /\ UNCHANGED <<state, request>>
    BY <1>2, PacketFacts DEF RunResume
  <2>1. /\ cached' \subseteq cached \cup {Head(tasks).id}
        /\ overlapped => overlapped'
        /\ ~IsRequest(Head(tasks)) /\ ~IsResume(Head(tasks)) => cached' = cached
    <3>1. CASE RunPacket
      BY <3>1, PacketFacts, PacketCaches
    <3>2. CASE RunResume
      BY <3>2 DEF RunResume, Answer, IsResume
    <3> QED
      BY <1>2, <3>1, <3>2
  <2>2. /\ 1 \in Places /\ Head(tasks) = first
        /\ \A i \in Places' : i \in Nat /\ i + 1 \in Places /\ tasks'[i] = tasks[i + 1]
    BY <2>0, Dequeued
  <2>3. \A id : Older(id) => Older(id)'
    BY <2>0, <2>2 DEF Older
  <2>4. ASSUME NEW i \in Places' PROVE 1 < i + 1
    BY <2>4 DEF Places
  <2>5. ASSUME NEW id, IsRequest(first), id = first.id PROVE Older(id)'
    BY <2>0, <2>2, <2>4, <2>5 DEF IInv, Ids, InOrder, Older
  <2>6. ASSUME ~overlapped, NEW id \in cached' PROVE Older(id)'
    BY <2>1, <2>2, <2>3, <2>5, <2>6 DEF ResultsOld
  <2> QED
    BY <2>1, <2>2, <2>3, <2>6 DEF ResultsOld
<1>3. CASE RunEnd
  <2>1. /\ tasks # <<>> /\ IsRequest(Head(tasks)) /\ UNCHANGED <<state, cached, request, overlapped>>
    BY <1>3, EndFacts
  <2>8. PICK s \in Session : Waits(s) \/ HadResult(s)
    BY <1>3, EndFacts
  <2>2. PICK n \in Nat : n = Len(Tail(tasks))
    BY <2>1, TailFacts DEF IInv, TypeOK, Job
  <2>3. /\ Len(tasks) = n + 1 /\ Tail(tasks) \in Seq(Job) /\ Head(tasks) = first /\ first \in Job
        /\ \A i \in 1..n : Tail(tasks)[i] = tasks[i + 1]
    BY <2>1, <2>2, TailFacts DEF IInv, TypeOK, Job
  <2>4. \A i \in 1..n : i + 1 \in 1..(n + 1) /\ 1 < i + 1
    OBVIOUS
  <2>5. Places = 1..(n + 1) /\ 1 \in 1..(n + 1)
    BY <2>3 DEF Places
  <2>6. CASE Waits(s)
    <3>1. tasks' = Tail(tasks) /\ Places' = 1..n
      BY <2>2, <2>6 DEF Waits, Places
    <3>2. \A id : Older(id) => Older(id)'
      BY <2>1, <2>3, <2>4, <2>5, <3>1 DEF Older
    <3> QED
      BY <2>1, <2>3, <2>4, <2>5, <3>1, <3>2 DEF ResultsOld
  <2>7. CASE HadResult(s)
    <3>1. PICK outcome \in Outcomes :
            tasks' = Append(Tail(tasks), ResumeJob(s.object, Head(tasks).id, bridge, outcome))
      BY <2>7 DEF HadResult
    <3>2. PICK job : job = ResumeJob(s.object, Head(tasks).id, bridge, outcome)
      OBVIOUS
    <3>3. job \in Job /\ ~IsRequest(job) /\ job.id = first.id
      BY <2>1, <2>3, <3>2, RequestType
      DEF IInv, TypeOK, Job, Resume, ResumeJob, Session, IsResume, IsRequest
    <3>4. /\ Len(tasks') = n + 1 /\ tasks'[n + 1] = job
          /\ \A i \in 1..n : tasks'[i] = tasks[i + 1]
      BY <2>2, <2>3, <3>1, <3>2, <3>3, AppendFacts
    <3>5. Places' = 1..(n + 1)
      BY <3>4 DEF Places
    <3>6. \A id : Older(id) => Older(id)'
      BY <2>1, <2>4, <2>5, <3>3, <3>4, <3>5 DEF Older
    <3>7. ASSUME NEW id, id = first.id PROVE Older(id)'
      <4>1. \A i \in 1..n : IsRequest(tasks[i + 1]) => id < tasks[i + 1].id
        BY <2>1, <2>3, <2>4, <2>5, <3>7 DEF IInv, Ids, InOrder
      <4>2. state = "ready" => id < request
        BY <2>1, <2>3, <2>5, <3>7 DEF IInv, Ids, InOrder
      <4> QED
        BY <2>1, <3>3, <3>4, <3>5, <4>1, <4>2 DEF Older
    <3>8. ASSUME ~overlapped, NEW i \in 1..(n + 1), IsResume(tasks'[i]), NEW id, id = tasks'[i].id
          PROVE  Older(id)'
      <4>1. CASE i = n + 1
        BY <3>3, <3>4, <3>7, <3>8, <4>1
      <4>2. CASE i # n + 1
        BY <2>4, <2>5, <3>4, <3>6, <3>8, <4>2 DEF ResultsOld
      <4> QED
        BY <4>1, <4>2
    <3> QED
      BY <2>1, <3>5, <3>6, <3>8 DEF ResultsOld
  <2> QED
    BY <2>6, <2>7, <2>8
<1> QED
  BY <1>2, <1>3 DEF RunTask

LEMMA ResultsOldInductive == ASSUME IInv, ResultsOld, [Next]_vars PROVE ResultsOld'
<1>1. CASE SessionStep
  <2>1. PICK s, t \in Session : session = {s} /\ (Quiet(s, t) \/ Over(s, t))
    BY <1>1, StepFacts DEF IInv
  <2>2. UNCHANGED <<link, sessionOnly>>
    BY <1>1, StepFacts DEF IInv
  <2>3. Quiet(s, t) => ResultsOld'
    BY <2>2 DEF Quiet, link, sessionOnly, coordinator, ResultsOld, Older, Places
  <2> QED
    BY <2>1, <2>2, <2>3, ResultsOldOver
<1>2. CASE Replace \/ UNCHANGED vars
  BY <1>2 DEF Replace, vars, link, coordinator, ResultsOld, Older, Places
<1>3. ASSUME NEW kind \in {"begin", "frame", "end"}, Receive(kind) PROVE ResultsOld'
  BY <1>3, ResultsOldReceive
<1>4. ASSUME NEW o \in Objects, DroppedAnswers(o) PROVE ResultsOld'
  BY <1>4, DroppedFacts DEF ResultsOld
<1> QED
  BY <1>1, <1>2, <1>3, <1>4, ResultsOldLink, ResultsOldTask DEF Next

(* No request that waits in the queue is taken for one answered before, so  *)
(* that a begin begins and an end ends, however often the device restarts.  *)
THEOREM RequestsAreNeverRepeats == Spec => []RequestsAreNew
<1>1. Init => ResultsOld
  BY DEF Init, ResultsOld, Places
<1>2. IInv /\ ResultsOld => RequestsAreNew
  <2> SUFFICES ASSUME IInv, ResultsOld, ~overlapped, NEW i \in Places,
                      IsRequest(tasks[i]), tasks[i].id \in cached
               PROVE  FALSE
    BY DEF RequestsAreNew, IsRequest, Places
  <2>1. tasks[i].id \in 0..MaxRequest
    BY DEF IInv, TypeOK
  <2>2. tasks[i].id < tasks[i].id
    BY DEF ResultsOld, Older
  <2> QED
    BY <2>1, <2>2, SpeechAssumption
<1> QED
  BY <1>1, <1>2, ResultsOldInductive, Invariance, PTL DEF Spec

-----------------------------------------------------------------------------
(* CompanionSpeech implements CompanionTalk.  An end that is awaited in a   *)
(* talk is being processed, so that a bridge which is replaced does not end *)
(* it for the coordinator.                                                  *)
ProcessedInTalk == Awaited /\ talk => speech = "processing"

UnderWay == Awaited \/ Resuming \/ dropped # {} \/ speech = "processing"

LEMMA ProcessedInductive == ASSUME IInv, ProcessedInTalk, [Next]_vars PROVE ProcessedInTalk'
<1> USE DEF link
<1>1. CASE SessionStep
  <2>1. Awaited' => Awaited
    BY <1>1, StepFacts DEF IInv, Quiet, Over, Awaited
  <2> QED
    BY <1>1, <2>1, StepFacts DEF IInv, ProcessedInTalk, sessionOnly, coordinator
<1>2. CASE RunPacket
  BY <1>2, PacketFacts DEF Kept, Begun, Framed, Dropped, ProcessedInTalk, Awaited
<1>3. CASE RunEnd
  BY <1>3, EndFacts DEF ProcessedInTalk
<1>4. CASE RunResume
  BY <1>4 DEF RunResume, TalkOver, ProcessedInTalk
<1>5. CASE LinkAnswers \/ LinkBreaks
  <2>1. UNCHANGED <<coordinator, session>> \/ ResetConnection
    BY <1>5 DEF LinkAnswers, LinkBreaks, Announced
  <2> QED
    BY <2>1, ResetFacts DEF ProcessedInTalk, coordinator, Awaited
<1>6. CASE Replace \/ UNCHANGED vars \/ LinkAnswersQuietly
           \/ \E kind \in {"begin", "frame", "end"} : Receive(kind)
  BY <1>6 DEF Replace, Aborted, vars, coordinator, LinkAnswersQuietly, Receive, ProcessedInTalk,
              Awaited
<1>7. ASSUME NEW o \in Objects, DroppedAnswers(o) PROVE ProcessedInTalk'
  BY <1>7 DEF DroppedAnswers, ProcessedInTalk, coordinator, Awaited
<1> QED
  BY <1>1, <1>2, <1>3, <1>4, <1>5, <1>6, <1>7 DEF Next, RunTask

LEMMA UnderWayType == UnderWay \in BOOLEAN
BY DEF UnderWay, Awaited, Resuming

(* Every step is a step of the abstract talk or leaves it as it is. *)
LEMMA StepRefines ==
  ASSUME IInv, ProcessedInTalk, [Next]_vars
  PROVE  \/ talk' = talk /\ UnderWay' = UnderWay
         \/ ~talk /\ talk' = TRUE /\ UnderWay' = UnderWay
         \/ talk /\ UnderWay' = TRUE /\ talk' = talk
         \/ talk' = FALSE /\ UnderWay' \in {UnderWay, FALSE}
<1> USE UnderWayType DEF link
<1>1. CASE SessionStep
  <2>1. UNCHANGED <<talk, speech, dropped>>
    BY <1>1, StepFacts DEF IInv, sessionOnly, coordinator
  <2>2. PICK s, t \in Session : session = {s} /\ (Quiet(s, t) \/ Over(s, t))
    BY <1>1, StepFacts DEF IInv
  <2>3. CASE Quiet(s, t)
    BY <2>1, <2>2, <2>3 DEF Quiet, UnderWay, Awaited, Resuming
  <2>4. CASE Over(s, t)
    <3>1. PICK job \in Job : job.kind = "resume" /\ tasks' = Append(tasks, job)
      <4>1. PICK outcome \in Outcomes :
              tasks' = Append(tasks, ResumeJob(s.object, s.end, bridge, outcome))
        BY <2>4 DEF Over
      <4>2. /\ ResumeJob(s.object, s.end, bridge, outcome) \in Job
            /\ ResumeJob(s.object, s.end, bridge, outcome).kind = "resume"
        BY DEF IInv, TypeOK, Job, Resume, ResumeJob, Session
      <4> QED
        BY <4>1, <4>2
    <3>2. Resuming'
      BY <3>1, AppendFacts DEF IInv, TypeOK, Job, Resuming
    <3> QED
      BY <2>1, <2>2, <2>4, <3>2 DEF Over, UnderWay, Awaited
  <2> QED
    BY <2>2, <2>3, <2>4
<1>2. CASE RunPacket
  <2>1. Resuming' = Resuming
    BY <1>2, PacketFacts, Dequeued DEF Resuming
  <2> QED
    BY <1>2, <2>1, PacketFacts
    DEF Kept, Begun, Framed, Dropped, UnderWay, Awaited, IInv, Agreement, Processed
<1>3. CASE RunEnd
  BY <1>3, EndFacts DEF UnderWay
<1>4. CASE RunResume
  <2>1. talk' = FALSE /\ Resuming
    BY <1>4, Dequeued, TailFacts DEF RunResume, TalkOver, Resuming, IInv, TypeOK, Job
  <2> QED
    BY <2>1 DEF UnderWay
<1>5. CASE LinkAnswers \/ LinkBreaks
  <2>1. /\ UNCHANGED <<coordinator, session>> \/ ResetConnection
        /\ UNCHANGED <<dropped, tasks>>
    BY <1>5 DEF LinkAnswers, LinkBreaks, Announced
  <2> QED
    BY <2>1, ResetFacts DEF coordinator, UnderWay, Awaited, Resuming
<1>6. CASE \E kind \in {"begin", "frame", "end"} : Receive(kind)
  <2>1. UNCHANGED <<talk, speech, session, dropped>>
    BY <1>6 DEF Receive, coordinator
  <2>2. PICK job \in Job : job.kind # "resume" /\ tasks' = Append(tasks, job)
    <3>1. request \in 0..(MaxRequest + 1) /\ MaxRequest \in Nat
      BY SpeechAssumption DEF IInv, TypeOK
    <3>2. PICK kind \in {"begin", "frame", "end"} : Receive(kind)
      BY <1>6
    <3>3. CASE kind = "frame"
      <4>1. [kind |-> kind, id |-> 0] \in Job
        BY <3>1 DEF Job, Packet
      <4> QED
        BY <3>2, <3>3, <4>1 DEF Receive
    <3>4. CASE kind # "frame"
      <4>1. request <= MaxRequest /\ tasks' = Append(tasks, [kind |-> kind, id |-> request])
        BY <3>2, <3>4 DEF Receive
      <4>2. [kind |-> kind, id |-> request] \in Job
        BY <3>1, <4>1 DEF Job, Packet
      <4> QED
        BY <4>1, <4>2
    <3> QED
      BY <3>3, <3>4
  <2>3. Resuming' = Resuming
    BY <2>2, AppendFacts DEF IInv, TypeOK, Job, Resuming
  <2> QED
    BY <2>1, <2>3 DEF UnderWay, Awaited
<1>7. CASE Replace
  <2>1. UNCHANGED <<talk, speech, dropped, tasks>> /\ session' = {}
    BY <1>7 DEF Replace, Aborted
  <2>2. Resuming' = Resuming /\ ~Awaited' /\ talk \in BOOLEAN
    BY <2>1 DEF Awaited, Resuming, IInv, TypeOK
  <2>3. CASE talk /\ Awaited
    BY <2>1, <2>2, <2>3 DEF ProcessedInTalk, UnderWay
  <2>4. CASE ~(talk /\ Awaited)
    BY <2>1, <2>2, <2>4 DEF UnderWay
  <2> QED
    BY <2>3, <2>4
<1>8. CASE LinkAnswersQuietly \/ UNCHANGED vars
  BY <1>8 DEF LinkAnswersQuietly, vars, coordinator, UnderWay, Awaited, Resuming
<1>9. ASSUME NEW o \in Objects, DroppedAnswers(o)
      PROVE  talk' = talk /\ UnderWay' = UnderWay
  <2>1. PICK d \in dropped, job \in Job : IsResume(job) /\ tasks' = Append(tasks, job)
    BY <1>9, DroppedFacts
  <2>2. Resuming'
    BY <2>1, AppendFacts DEF IInv, TypeOK, Job, Resuming, IsResume
  <2> QED
    BY <1>9, <2>1, <2>2 DEF DroppedAnswers, coordinator, UnderWay
<1> QED
  BY <1>1, <1>2, <1>3, <1>4, <1>5, <1>6, <1>7, <1>8, <1>9 DEF Next, RunTask

(* The coordinator, its bridges and the main queue implement the abstract   *)
(* talk: an end is begun in a talk and is not over while the talk goes on.  *)
THEOREM SpeechImplementsTalk == Spec => ImplementsCompanionTalk
<1>1. Init => ProcessedInTalk /\ Talk!Init
  BY DEF Init, ProcessedInTalk, Talk!Init, Awaited, Resuming
<1>2. IInv /\ ProcessedInTalk /\ [Next]_vars => [Talk!Next]_(Talk!vars)
  BY StepRefines
  DEF Talk!Next, Talk!Begin, Talk!End, Talk!Over, Talk!vars, UnderWay
<1> QED
  BY <1>1, <1>2, ProcessedInductive, Invariance, PTL
  DEF Spec, ImplementsCompanionTalk, Talk!Spec
================================================================================
