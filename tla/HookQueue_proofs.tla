---------------------------- MODULE HookQueue_proofs ----------------------------
(***************************************************************************)
(* For any launchers, any size of the queue and any number of lives of the *)
(* daemon: a queued event is not lost, takes effect again only after a     *)
(* drain that was cut, and is not overtaken by a request to the daemon     *)
(* that starts.  The induction rests on the lock, which gives whoever      *)
(* rewrites the file the file as it is, and on an event being written once *)
(* and only when it was never sent.                                        *)
(***************************************************************************)
EXTENDS HookQueue, SequenceTheorems, TLAPS

(* The place of an event among its launcher's commands. *)
Step(e) ==
  CASE e.kind = "launch" -> 1
    [] e.kind = "start"  -> 2
    [] e.kind = "prompt" -> 3

Busy == \A l \in Launchers : helper[l] # "idle" => next[l] <= 3

(* One lock: whoever holds it knows the file. *)
Locking ==
  /\ \A l, m \in Launchers : helper[l] = "locked" /\ helper[m] = "locked" => l = m
  /\ \A l \in Launchers : helper[l] = "locked" => daemon # "draining" /\ held[l] = queue
  /\ daemon = "draining" => frames = queue
  /\ daemon # "draining" => frames = <<>> /\ consumed = 0

(* An event is written once, by a command that is over then. *)
OnceWritten ==
  /\ \A i \in 1..Len(log) : Step(log[i]) < next[log[i].launcher]
  /\ \A i, j \in 1..Len(log) : log[i] = log[j] => i = j

(* A request that is not answered yet has done nothing and is not written; *)
(* its command waits for it or is over.                                    *)
Sent ==
  \A e \in pending :
    /\ runs[e] = 0
    /\ \A i \in 1..Len(log) : log[i] # e
    /\ \/ Step(e) < next[e.launcher]
       \/ Step(e) = next[e.launcher] /\ helper[e.launcher] = "waiting"

(* What was not tried yet has done nothing. *)
NotYet == \A e \in Event : Step(e) >= next[e.launcher] => runs[e] = 0

HandledRan == \A i \in 1..consumed : runs[frames[i]] > 0

(* What the file holds may take effect once more. *)
Counted ==
  \A i \in 1..Len(queue) :
    runs[queue[i]] <= cuts[queue[i]] + (IF i <= consumed THEN 1 ELSE 0)

Owed ==
  /\ \A e \in owed : \E i \in 1..Len(log) : log[i] = e
  /\ \A i \in 1..consumed : frames[i] \notin owed
  /\ daemon = "serving" => \A i \in 1..Len(queue) : queue[i] \notin owed

IInv ==
  /\ TypeOK /\ Busy /\ Locking /\ NothingLost /\ OnceWritten /\ Sent /\ NotYet
  /\ HandledRan /\ Counted /\ ReplayOnlyAfterCut /\ Owed

-----------------------------------------------------------------------------
(* The command a launcher runs, as an event. *)
LEMMA CurrentFacts ==
  ASSUME NEW l \in Launchers, next[l] \in 1..3
  PROVE  /\ Current(l) \in Event /\ Current(l).launcher = l
         /\ Step(Current(l)) = next[l]
<1>1. Commands[next[l]] \in {"launch", "start", "prompt"}
  BY DEF Commands
<1> QED
  BY <1>1 DEF Current, Event, Step, Commands

(* No other event of the launcher has its place. *)
LEMMA StepNames ==
  ASSUME NEW e \in Event, e.launcher \in Launchers, next[e.launcher] \in 1..3,
         Step(e) = next[e.launcher]
  PROVE  e = Current(e.launcher)
<1>1. e.kind = Commands[next[e.launcher]]
  BY DEF Event, Step, Commands
<1> QED
  BY <1>1 DEF Current, Event

LEMMA StepType == ASSUME NEW e \in Event PROVE Step(e) \in 1..3
BY DEF Event, Step

(* What a drain leaves in the file is the end of what it read. *)
LEMMA RestFacts ==
  ASSUME NEW s \in Seq(Event), NEW k \in 0..Len(s)
  PROVE  LET t == SubSeq(s, k + 1, Len(s)) IN
         /\ t \in Seq(Event) /\ Len(t) = Len(s) - k
         /\ \A i \in 1..Len(t) : t[i] = s[k + i]
<1>1. Len(s) \in Nat
  OBVIOUS
<1>2. \A i \in (k + 1)..Len(s) : s[i] \in Event
  BY <1>1, ElementOfSeq
<1> QED
  BY <1>1, <1>2, SubSeqProperties

(* A bounded queue is the end of what it was made from, and only a full one is shorter. *)
LEMMA BoundedFacts ==
  ASSUME NEW s \in Seq(Event)
  PROVE  /\ Bounded(s) \in Seq(Event)
         /\ Len(Bounded(s)) \in Nat /\ Len(Bounded(s)) <= Len(s)
         /\ \A i \in 1..Len(Bounded(s)) : Bounded(s)[i] = s[Len(s) - Len(Bounded(s)) + i]
         /\ Len(Bounded(s)) = Len(s) \/ Len(Bounded(s)) = MaxEvents
<1>1. Len(s) \in Nat /\ MaxEvents \in Nat
  BY QueueAssumption
<1>2. CASE Len(s) <= MaxEvents
  <2>1. Bounded(s) = s
    BY <1>1, <1>2 DEF Bounded
  <2> QED
    BY <1>1, <2>1
<1>3. CASE Len(s) > MaxEvents
  <2> DEFINE k == Len(s) - MaxEvents
  <2>1. k \in 0..Len(s)
    BY <1>1, <1>3
  <2> DEFINE t == SubSeq(s, k + 1, Len(s))
  <2>2. Bounded(s) = t
    BY <1>3 DEF Bounded
  <2>3. Len(s) - k = MaxEvents
    BY <1>1
  <2> HIDE DEF k
  <2>4. /\ t \in Seq(Event) /\ Len(t) = Len(s) - k
        /\ \A i \in 1..Len(t) : t[i] = s[k + i]
    BY <2>1, RestFacts
  <2> HIDE DEF t
  <2>5. Len(t) = MaxEvents /\ k = Len(s) - Len(t)
    BY <1>1, <2>1, <2>3, <2>4
  <2> QED
    BY <1>1, <1>3, <2>2, <2>4, <2>5
<1> QED
  BY <1>1, <1>2, <1>3

(* The service keeps its sessions in form. *)
LEMMA EffectType ==
  ASSUME NEW e \in Event, live \subseteq Service!LiveSession, Effect(e)
  PROVE  live' \subseteq Service!LiveSession
<1>1. e.launcher \in Launchers /\ TerminalOf[e.launcher] \in Terminals
  BY QueueAssumption DEF Event
<1>2. CASE e.kind = "launch"
  <2>1. Service!Launch(e.launcher, TerminalOf[e.launcher])
    BY <1>2 DEF Effect
  <2> DEFINE New(id) == [id |-> id, launcher |-> e.launcher,
                         terminal |-> TerminalOf[e.launcher], provider |-> None,
                         state |-> "live", unread |-> FALSE]
  <2>2. PICK id \in Launchers :
          live' = {s \in live : s.terminal # TerminalOf[e.launcher]} \cup {New(id)}
    BY <2>1 DEF Service!Launch
  <2>3. New(id) \in Service!LiveSession
    BY <1>1 DEF Service!LiveSession, SessionStates
  <2> HIDE DEF New
  <2> QED
    BY <2>2, <2>3
<1>3. CASE e.kind = "start"
  BY <1>1, <1>3 DEF Effect, Service!Bind, Service!LiveSession, SessionStates
<1>4. CASE e.kind = "prompt"
  <2>1. Service!Update(e.launcher)
    BY <1>4 DEF Effect
  <2>2. PICK s \in live, st \in SessionStates, u \in BOOLEAN :
          live' = (live \ {s}) \cup {[s EXCEPT !.state = st, !.unread = u]}
    BY <2>1 DEF Service!Update
  <2>3. \A r \in Service!LiveSession : [r EXCEPT !.unread = u] \in Service!LiveSession
    BY DEF Service!LiveSession
  <2>4. [s EXCEPT !.state = st] \in Service!LiveSession
    BY DEF Service!LiveSession
  <2>5. [s EXCEPT !.state = st, !.unread = u] \in Service!LiveSession
    BY <2>3, <2>4, Zenon
  <2> QED
    BY <2>2, <2>5
<1> QED
  BY <1>2, <1>3, <1>4 DEF Event

-----------------------------------------------------------------------------
LEMMA InitInv == Init => IInv
<1> SUFFICES ASSUME Init PROVE IInv
  OBVIOUS
<1>1. Len(queue) = 0 /\ Len(log) = 0 /\ queue \in Seq(Event)
  BY DEF Init
<1>2. \A l \in Launchers : helper[l] = "idle" /\ next[l] = 1
  BY DEF Init
<1>3. \A e \in Event : runs[e] = 0 /\ cuts[e] = 0
  BY DEF Init
<1>4. TypeOK
  <2>1. next \in [Launchers -> 1..(Len(Commands) + 1)]
    BY DEF Init, Commands
  <2>2. lives \in 0..MaxLives /\ consumed \in 0..Len(frames)
    BY QueueAssumption DEF Init
  <2> QED
    BY <2>1, <2>2 DEF Init, TypeOK
<1>5. Busy /\ Locking
  BY <1>2 DEF Init, Busy, Locking
<1>6. NothingLost /\ OnceWritten /\ Sent /\ NotYet
  BY <1>1, <1>3 DEF Init, NothingLost, OnceWritten, Sent, NotYet
<1>7. HandledRan /\ Counted /\ Owed
  BY <1>1 DEF Init, HandledRan, Counted, Owed
<1>8. ReplayOnlyAfterCut
  BY <1>3 DEF ReplayOnlyAfterCut
<1> QED
  BY <1>4, <1>5, <1>6, <1>7, <1>8 DEF IInv

(* Steps that leave the file, the daemon and the history alone. *)
LEMMA FileKept ==
  ASSUME IInv, UNCHANGED <<queue, daemonVars, log, runs, cuts, owed>>
  PROVE  NothingLost' /\ HandledRan' /\ Counted' /\ ReplayOnlyAfterCut' /\ Owed'
BY DEF IInv, daemonVars, NothingLost, HandledRan, Counted, ReplayOnlyAfterCut, Owed

(* The command of a launcher is over. *)
LEMMA EndsFacts ==
  ASSUME IInv, NEW l \in Launchers, helper[l] # "idle", Ends(l)
  PROVE  /\ next' \in [Launchers -> 1..(Len(Commands) + 1)]
         /\ helper' \in [Launchers -> {"idle", "waiting", "queueing", "locked"}]
         /\ held' \in [Launchers -> Seq(Event)]
         /\ next'[l] = next[l] + 1 /\ next[l] \in 1..3 /\ helper'[l] = "idle"
         /\ \A m \in Launchers \ {l} :
              next'[m] = next[m] /\ helper'[m] = helper[m] /\ held'[m] = held[m]
         /\ \A m \in Launchers : next[m] \in Nat /\ next'[m] \in Nat /\ next[m] <= next'[m]
         /\ Busy'
<1>1. /\ next \in [Launchers -> 1..4] /\ held \in [Launchers -> Seq(Event)]
      /\ helper \in [Launchers -> {"idle", "waiting", "queueing", "locked"}]
      /\ Busy /\ Len(Commands) + 1 = 4
  BY DEF IInv, TypeOK, Commands
<1>2. next[l] \in 1..3
  BY <1>1 DEF Busy
<1>3. next' = [next EXCEPT ![l] = @ + 1] /\ helper' = [helper EXCEPT ![l] = "idle"]
  BY DEF Ends
<1>4. /\ next' \in [Launchers -> 1..4] /\ next'[l] = next[l] + 1
      /\ \A m \in Launchers \ {l} : next'[m] = next[m]
  BY <1>1, <1>2, <1>3
<1>5. /\ helper' \in [Launchers -> {"idle", "waiting", "queueing", "locked"}]
      /\ helper'[l] = "idle"
      /\ \A m \in Launchers \ {l} : helper'[m] = helper[m]
  BY <1>1, <1>3
<1>6. held' \in [Launchers -> Seq(Event)] /\ \A m \in Launchers \ {l} : held'[m] = held[m]
  BY <1>1 DEF Ends
<1>7. Busy'
  BY <1>1, <1>4, <1>5 DEF Busy
<1>8. \A m \in Launchers : next[m] \in Nat /\ next'[m] \in Nat /\ next[m] <= next'[m]
  <2>1. \A m \in Launchers : next[m] \in 1..4 /\ next'[m] \in 1..4
    BY <1>1, <1>4
  <2> QED
    BY <2>1, <1>4
<1>9. next' \in [Launchers -> 1..(Len(Commands) + 1)]
  BY <1>1, <1>4
<1> QED
  BY <1>2, <1>4, <1>5, <1>6, <1>7, <1>8, <1>9

(* A helper that ends without writing keeps the invariant. *)
LEMMA EndsKeeps ==
  ASSUME IInv, NEW l \in Launchers, helper[l] # "idle", Ends(l),
         pending' \subseteq pending,
         helper[l] = "waiting" \/ UNCHANGED pending,
         UNCHANGED <<queue, daemonVars, log, runs, cuts, owed>>
  PROVE  IInv'
<1>1. NothingLost' /\ HandledRan' /\ Counted' /\ ReplayOnlyAfterCut' /\ Owed'
  BY FileKept
<1>a. /\ next'[l] = next[l] + 1 /\ next[l] \in 1..3 /\ helper'[l] = "idle"
      /\ \A m \in Launchers \ {l} :
           next'[m] = next[m] /\ helper'[m] = helper[m] /\ held'[m] = held[m]
      /\ \A m \in Launchers : next[m] \in Nat /\ next'[m] \in Nat /\ next[m] <= next'[m]
  BY EndsFacts
<1>2. TypeOK'
  BY EndsFacts DEF IInv, TypeOK, daemonVars
<1>3. Locking'
  BY <1>a DEF IInv, Locking, daemonVars
<1>4. /\ \A i \in 1..Len(log) : log[i] \in Event
      /\ \A e \in Event : e.launcher \in Launchers /\ Step(e) \in 1..3
      /\ pending \subseteq Event
  BY StepType, ElementOfSeq DEF IInv, TypeOK, Event
<1>5. OnceWritten'
  <2>1. \A i \in 1..Len(log) : Step(log[i]) < next'[log[i].launcher]
    BY <1>a, <1>4 DEF IInv, OnceWritten
  <2> QED
    BY <2>1 DEF IInv, OnceWritten
<1>6. NotYet'
  BY <1>4, <1>a DEF IInv, NotYet
<1>7. Sent'
  BY <1>4, <1>a DEF IInv, Sent
<1> QED
  BY <1>1, <1>2, <1>3, <1>5, <1>6, <1>7, EndsFacts DEF IInv

LEMMA RunKeeps == ASSUME IInv, NEW l \in Launchers, Run(l) PROVE IInv'
<1>1. NothingLost' /\ HandledRan' /\ Counted' /\ ReplayOnlyAfterCut' /\ Owed'
  BY FileKept DEF Run
<1>2. next[l] \in 1..3 /\ helper[l] = "idle" /\ UNCHANGED <<next, held, runs, log>>
  BY DEF IInv, TypeOK, Run, Commands
<1>3. Current(l) \in Event /\ Current(l).launcher = l /\ Step(Current(l)) = next[l]
  BY <1>2, CurrentFacts
<1>4. /\ helper' \in [Launchers -> {"idle", "waiting", "queueing", "locked"}]
      /\ helper'[l] \in {"waiting", "queueing"}
      /\ \A m \in Launchers \ {l} : helper'[m] = helper[m]
  BY DEF Run, IInv, TypeOK
<1>5. \/ pending' = pending /\ helper'[l] = "queueing"
      \/ pending' = pending \cup {Current(l)} /\ helper'[l] = "waiting"
  BY DEF Run, IInv, TypeOK
<1>6. TypeOK'
  BY <1>2, <1>3, <1>4, <1>5 DEF IInv, TypeOK, Run, daemonVars
<1>7. Busy' /\ OnceWritten' /\ NotYet'
  BY <1>2, <1>4 DEF IInv, Busy, OnceWritten, NotYet
<1>8. Locking'
  BY <1>2, <1>4 DEF IInv, Locking, Run, daemonVars
<1>9. runs[Current(l)] = 0 /\ \A i \in 1..Len(log) : log[i] # Current(l)
  BY <1>2, <1>3 DEF IInv, NotYet, OnceWritten
<1>10. Sent'
  <2>1. ASSUME NEW e \in pending
        PROVE  /\ runs[e] = 0 /\ \A i \in 1..Len(log) : log[i] # e
               /\ e.launcher \in Launchers
               /\ \/ Step(e) < next[e.launcher]
                  \/ Step(e) = next[e.launcher] /\ helper'[e.launcher] = "waiting"
    BY <1>2, <1>4 DEF IInv, Sent, TypeOK, Event
  <2> QED
    BY <1>2, <1>3, <1>5, <1>9, <2>1 DEF Sent
<1> QED
  BY <1>1, <1>6, <1>7, <1>8, <1>10 DEF IInv

LEMMA LockQueueKeeps == ASSUME IInv, NEW l \in Launchers, LockQueue(l) PROVE IInv'
<1>1. NothingLost' /\ HandledRan' /\ Counted' /\ ReplayOnlyAfterCut' /\ Owed'
  BY FileKept DEF LockQueue
<1>2. /\ helper[l] = "queueing" /\ daemon # "draining"
      /\ \A m \in Launchers : helper[m] # "locked"
      /\ UNCHANGED <<next, pending, runs, log, queue, daemonVars>>
  BY DEF LockQueue, LockFree
<1>3. /\ helper' \in [Launchers -> {"idle", "waiting", "queueing", "locked"}]
      /\ helper'[l] = "locked"
      /\ \A m \in Launchers \ {l} : helper'[m] = helper[m]
  BY DEF LockQueue, IInv, TypeOK
<1>4. held' \in [Launchers -> Seq(Event)] /\ held'[l] = queue
  BY DEF LockQueue, IInv, TypeOK
<1>5. TypeOK'
  BY <1>2, <1>3, <1>4 DEF IInv, TypeOK, LockQueue, daemonVars
<1>6. Busy' /\ OnceWritten' /\ NotYet'
  BY <1>2, <1>3 DEF IInv, Busy, OnceWritten, NotYet
<1>7. Locking'
  BY <1>2, <1>3, <1>4 DEF IInv, Locking, daemonVars
<1>8. Sent'
  <2>1. ASSUME NEW e \in pending
        PROVE  /\ runs[e] = 0 /\ \A i \in 1..Len(log) : log[i] # e
               /\ \/ Step(e) < next[e.launcher]
                  \/ Step(e) = next[e.launcher] /\ helper'[e.launcher] = "waiting"
    BY <1>2, <1>3 DEF IInv, Sent, TypeOK, Event
  <2> QED
    BY <1>2, <2>1 DEF Sent
<1> QED
  BY <1>1, <1>5, <1>6, <1>7, <1>8 DEF IInv

(* What the file holds is the end of the log, without an event twice. *)
LEMMA QueueFacts ==
  ASSUME IInv
  PROVE  /\ queue \in Seq(Event) /\ Len(queue) \in Nat
         /\ log \in Seq(Event) /\ Len(log) \in Nat /\ Len(log) - Len(queue) \in Nat
         /\ \A i \in 1..Len(log) : log[i] \in Event
         /\ \A i \in 1..Len(queue) :
              /\ queue[i] \in Event
              /\ Len(log) - Len(queue) + i \in 1..Len(log)
              /\ queue[i] = log[Len(log) - Len(queue) + i]
              /\ Step(queue[i]) < next[queue[i].launcher]
         /\ \A i, j \in 1..Len(queue) : queue[i] = queue[j] => i = j
<1>1. /\ queue \in Seq(Event) /\ log \in Seq(Event)
      /\ Len(queue) \in Nat /\ Len(log) \in Nat /\ Len(log) - Len(queue) \in Nat
      /\ \A i \in 1..Len(queue) : queue[i] = log[Len(log) - Len(queue) + i]
  BY DEF IInv, TypeOK, NothingLost
<1>2. /\ \A i \in 1..Len(log) : Step(log[i]) < next[log[i].launcher]
      /\ \A i, j \in 1..Len(log) : log[i] = log[j] => i = j
  BY DEF IInv, OnceWritten
<1>3. \A i \in 1..Len(queue) : Len(log) - Len(queue) + i \in 1..Len(log)
  BY <1>1
<1>4. /\ \A i \in 1..Len(queue) : queue[i] \in Event
      /\ \A i \in 1..Len(log) : log[i] \in Event
  BY <1>1, ElementOfSeq
<1>5. \A i, j \in 1..Len(queue) : queue[i] = queue[j] => i = j
  <2> SUFFICES ASSUME NEW i \in 1..Len(queue), NEW j \in 1..Len(queue), queue[i] = queue[j]
               PROVE  i = j
    OBVIOUS
  <2>1. Len(log) - Len(queue) + i = Len(log) - Len(queue) + j
    BY <1>1, <1>2, <1>3
  <2> QED
    BY <1>1, <2>1
<1>6. \A i \in 1..Len(queue) : Step(queue[i]) < next[queue[i].launcher]
  BY <1>1, <1>2, <1>3
<1> QED
  BY <1>1, <1>3, <1>4, <1>5, <1>6

LEMMA EnqueueKeeps == ASSUME IInv, NEW l \in Launchers, Enqueue(l) PROVE IInv'
<1> DEFINE c == Current(l)
           s == Append(queue, c)
<1>1. /\ helper[l] = "locked" /\ held[l] = queue /\ daemon # "draining"
      /\ frames = <<>> /\ consumed = 0 /\ next[l] \in 1..3
      /\ UNCHANGED <<daemonVars, pending, runs, cuts, owed>>
  <2>1. helper[l] = "locked" /\ UNCHANGED <<daemonVars, pending, runs, cuts, owed>>
    BY DEF Enqueue
  <2>2. held[l] = queue /\ daemon # "draining" /\ frames = <<>> /\ consumed = 0
    BY <2>1 DEF IInv, Locking
  <2>3. Ends(l) /\ helper[l] # "idle"
    BY <2>1 DEF Enqueue
  <2>4. next[l] \in 1..3
    BY <2>3, EndsFacts
  <2> QED
    BY <2>1, <2>2, <2>4
<1>2. c \in Event /\ c.launcher = l /\ Step(c) = next[l]
  BY <1>1, CurrentFacts
<1>3. queue' = Bounded(s) /\ log' = Append(log, c) /\ Ends(l)
  BY <1>1 DEF Enqueue
<1>4. /\ next'[l] = next[l] + 1 /\ helper'[l] = "idle"
      /\ \A m \in Launchers \ {l} :
           next'[m] = next[m] /\ helper'[m] = helper[m] /\ held'[m] = held[m]
      /\ \A m \in Launchers : next[m] \in Nat /\ next'[m] \in Nat /\ next[m] <= next'[m]
  BY <1>1, <1>3, EndsFacts
<1>5. runs[c] = 0 /\ \A i \in 1..Len(log) : log[i] # c
  BY <1>1, <1>2 DEF IInv, NotYet, OnceWritten
<1> HIDE DEF c
<1>6. /\ log' \in Seq(Event) /\ Len(log') = Len(log) + 1 /\ log'[Len(log) + 1] = c
      /\ \A i \in 1..Len(log) : log'[i] = log[i]
  BY <1>2, <1>3, QueueFacts
<1>7. /\ s \in Seq(Event) /\ Len(s) = Len(queue) + 1 /\ s[Len(s)] = c
      /\ \A i \in 1..Len(queue) : s[i] = queue[i]
  BY <1>2, QueueFacts
<1> HIDE DEF s
<1>8. /\ queue' \in Seq(Event) /\ Len(queue') \in Nat /\ Len(queue') <= Len(s)
      /\ \A i \in 1..Len(queue') : queue'[i] = s[Len(s) - Len(queue') + i]
      /\ Len(queue') = Len(s) \/ Len(queue') = MaxEvents
  BY <1>3, <1>7, BoundedFacts
<1>a. /\ Len(queue) \in Nat /\ Len(log) \in Nat /\ Len(log) - Len(queue) \in Nat
      /\ \A i \in 1..Len(log) : log[i] \in Event
      /\ \A i \in 1..Len(queue) :
           /\ Len(log) - Len(queue) + i \in 1..Len(log)
           /\ queue[i] = log[Len(log) - Len(queue) + i]
  BY QueueFacts
<1>9. \A i \in 1..Len(s) : s[i] = log'[Len(log) - Len(queue) + i]
  <2> TAKE i \in 1..Len(s)
  <2>1. CASE i \in 1..Len(queue)
    BY <1>6, <1>7, <1>a, <2>1
  <2>2. CASE i = Len(queue) + 1
    <3>1. Len(log) - Len(queue) + i = Len(log) + 1
      BY <1>a, <2>2
    <3> QED
      BY <1>6, <1>7, <2>2, <3>1
  <2> QED
    BY <1>7, <1>a, <2>1, <2>2
<1>10. /\ \A i \in 1..Len(log) : log[i] \in Event
       /\ \A e \in Event : e.launcher \in Launchers /\ Step(e) \in 1..3
       /\ pending \subseteq Event
  BY StepType, QueueFacts DEF IInv, TypeOK, Event
<1>11. TypeOK'
  BY <1>1, <1>3, <1>6, <1>8, EndsFacts DEF IInv, TypeOK, daemonVars
<1>12. Locking'
  BY <1>1, <1>4 DEF IInv, Locking, daemonVars
<1>13. NothingLost'
  <2> DEFINE gone == Len(log') - Len(queue')
  <2>1. gone >= 0
    BY <1>6, <1>7, <1>8, QueueFacts
  <2>2. \A i \in 1..Len(queue') : queue'[i] = log'[gone + i]
    <3> TAKE i \in 1..Len(queue')
    <3>1. Len(s) - Len(queue') + i \in 1..Len(s)
      BY <1>7, <1>8, QueueFacts
    <3>2. queue'[i] = log'[Len(log) - Len(queue) + (Len(s) - Len(queue') + i)]
      BY <1>8, <1>9, <3>1
    <3> QED
      BY <1>6, <1>7, <1>8, <3>2, QueueFacts
  <2>3. \A i \in 1..gone : runs'[log'[i]] > 0 \/ Len(log') - i >= MaxEvents
    <3> TAKE i \in 1..gone
    <3>1. CASE Len(queue') = Len(s)
      <4>1. i \in 1..(Len(log) - Len(queue)) /\ i \in 1..Len(log)
        BY <1>6, <1>7, <3>1, QueueFacts
      <4>2. runs[log[i]] > 0 \/ Len(log) - i >= MaxEvents
        BY <4>1 DEF IInv, NothingLost
      <4> QED
        BY <1>1, <1>6, <4>1, <4>2, QueueFacts, QueueAssumption
    <3>2. CASE Len(queue') = MaxEvents
      BY <1>6, <3>2, QueueFacts, QueueAssumption
    <3> QED
      BY <1>8, <3>1, <3>2
  <2> QED
    BY <2>1, <2>2, <2>3 DEF NothingLost
<1>14. OnceWritten'
  <2>1. \A i \in 1..Len(log) : Step(log[i]) < next'[log[i].launcher]
    BY <1>4, <1>10 DEF IInv, OnceWritten
  <2>2. \A i \in 1..Len(log') : Step(log'[i]) < next'[log'[i].launcher]
    <3>1. Step(c) < next'[c.launcher]
      BY <1>1, <1>2, <1>4
    <3>2. \A i \in 1..Len(log') : i \in 1..Len(log) \/ i = Len(log) + 1
      BY <1>6, <1>a
    <3> QED
      BY <1>6, <2>1, <3>1, <3>2
  <2>3. \A i, j \in 1..Len(log') : log'[i] = log'[j] => i = j
    <3>1. \A i, j \in 1..Len(log) : log[i] = log[j] => i = j
      BY DEF IInv, OnceWritten
    <3>2. \A i \in 1..Len(log') : i \in 1..Len(log) \/ i = Len(log) + 1
      BY <1>6, <1>a
    <3> QED
      BY <1>5, <1>6, <3>1, <3>2
  <2> QED
    BY <2>2, <2>3 DEF OnceWritten
<1>15. NotYet'
  BY <1>1, <1>4, <1>10 DEF IInv, NotYet
<1>16. Sent'
  <2> SUFFICES ASSUME NEW e \in pending
               PROVE  /\ runs[e] = 0 /\ \A i \in 1..Len(log') : log'[i] # e
                      /\ \/ Step(e) < next'[e.launcher]
                         \/ /\ Step(e) = next'[e.launcher]
                            /\ helper'[e.launcher] = "waiting"
    BY <1>1 DEF Sent
  <2>1. /\ runs[e] = 0 /\ \A i \in 1..Len(log) : log[i] # e
        /\ \/ Step(e) < next[e.launcher]
           \/ Step(e) = next[e.launcher] /\ helper[e.launcher] = "waiting"
    BY DEF IInv, Sent
  <2>2. e # c
    BY <1>1, <1>2, <2>1
  <2>3. \A i \in 1..Len(log') : log'[i] # e
    <3>1. \A i \in 1..Len(log') : i \in 1..Len(log) \/ i = Len(log) + 1
      BY <1>6, <1>a
    <3> QED
      BY <1>6, <2>1, <2>2, <3>1
  <2>4. e.launcher \in Launchers /\ Step(e) \in 1..3
    BY <1>10
  <2>5. CASE e.launcher = l
    BY <1>1, <1>4, <2>1, <2>3, <2>4, <2>5
  <2>6. CASE e.launcher # l
    BY <1>4, <2>1, <2>3, <2>4, <2>6
  <2> QED
    BY <2>1, <2>3, <2>5, <2>6
<1>17. \A i \in 1..Len(queue') :
         queue'[i] = c \/ \E j \in 1..Len(queue) : queue'[i] = queue[j]
  <2> TAKE i \in 1..Len(queue')
  <2> DEFINE k == Len(s) - Len(queue') + i
  <2>1. k \in 1..Len(queue) \/ k = Len(s)
    <3>1. /\ Len(s) = Len(queue) + 1 /\ Len(queue) \in Nat /\ Len(queue') \in Nat
          /\ Len(queue') <= Len(s)
      BY <1>7, <1>8, <1>a
    <3> QED
      BY <3>1
  <2>2. queue'[i] = s[k]
    BY <1>8
  <2> HIDE DEF k
  <2> QED
    BY <1>7, <2>1, <2>2
<1>18. HandledRan' /\ ReplayOnlyAfterCut'
  BY <1>1 DEF IInv, HandledRan, ReplayOnlyAfterCut, daemonVars
<1>19. Counted'
  <2>1. \A j \in 1..Len(queue) : runs[queue[j]] <= cuts[queue[j]]
    <3> TAKE j \in 1..Len(queue)
    <3>1. runs[queue[j]] <= cuts[queue[j]] + (IF j <= consumed THEN 1 ELSE 0)
      BY DEF IInv, Counted
    <3>2. ~(j <= consumed)
      BY <1>1, <1>a
    <3>3. queue[j] \in Event
      BY QueueFacts
    <3>4. cuts[queue[j]] \in Nat
      BY <3>3 DEF IInv, TypeOK
    <3> QED
      BY <3>1, <3>2, <3>4
  <2>2. cuts[c] >= 0
    BY <1>2 DEF IInv, TypeOK
  <2>3. \A i \in 1..Len(queue') : runs[queue'[i]] <= cuts[queue'[i]]
    BY <1>5, <1>17, <2>1, <2>2
  <2>4. consumed' = 0 /\ runs' = runs /\ cuts' = cuts
    BY <1>1 DEF daemonVars
  <2>5. \A i \in 1..Len(queue') : ~(i <= consumed')
    BY <1>8, <2>4
  <2>6. \A i \in 1..Len(queue') : queue'[i] \in Event
    BY <1>8, ElementOfSeq
  <2> QED
    BY <2>3, <2>4, <2>5, <2>6 DEF Counted, IInv, TypeOK
<1>20. Owed'
  <2>1. owed' = owed /\ consumed' = 0 /\ daemon' = daemon
    BY <1>1 DEF daemonVars
  <2>2. \A e \in owed : \E i \in 1..Len(log) : log[i] = e
    BY DEF IInv, Owed
  <2>3. \A e \in owed : \E i \in 1..Len(log') : log'[i] = e
    BY <1>6, <2>2, QueueFacts
  <2>4. c \notin owed
    BY <1>5, <2>2
  <2>5. daemon = "serving" => \A i \in 1..Len(queue') : queue'[i] \notin owed
    BY <1>17, <2>4 DEF IInv, Owed
  <2> QED
    BY <2>1, <2>3, <2>5 DEF Owed
<1> QED
  BY <1>1, <1>3, <1>11, <1>12, <1>13, <1>14, <1>15, <1>16, <1>18, <1>19, <1>20, EndsFacts
  DEF IInv

-----------------------------------------------------------------------------
(* Steps of the daemon that leave the helpers alone and take no effect. *)
LEMMA HelpersKept ==
  ASSUME IInv, UNCHANGED <<helperVars, log, runs>>, pending' \subseteq pending
  PROVE  Busy' /\ OnceWritten' /\ Sent' /\ NotYet'
BY DEF IInv, helperVars, Busy, OnceWritten, Sent, NotYet

LEMMA StutterKeeps == ASSUME IInv, UNCHANGED vars PROVE IInv'
<1>1. UNCHANGED <<queue, daemonVars, log, runs, cuts, owed, helperVars, pending>>
  BY DEF vars, daemonVars, helperVars
<1>2. NothingLost' /\ HandledRan' /\ Counted' /\ ReplayOnlyAfterCut' /\ Owed'
  BY <1>1, FileKept
<1>3. Busy' /\ OnceWritten' /\ Sent' /\ NotYet'
  BY <1>1, HelpersKept
<1>4. TypeOK' /\ Locking'
  BY <1>1 DEF IInv, TypeOK, Locking, daemonVars, helperVars
<1> QED
  BY <1>2, <1>3, <1>4 DEF IInv

LEMMA StartKeeps == ASSUME IInv, Start PROVE IInv'
<1>1. /\ daemon = "down" /\ daemon' = "starting" /\ frames = <<>> /\ consumed = 0
      /\ lives < MaxLives /\ lives' = lives + 1
      /\ owed' = {queue[i] : i \in 1..Len(queue)}
      /\ UNCHANGED <<queue, frames, consumed, live, pending, helperVars, log, runs, cuts>>
  BY DEF Start, IInv, Locking
<1>2. Busy' /\ OnceWritten' /\ Sent' /\ NotYet'
  BY <1>1, HelpersKept
<1>3. NothingLost' /\ HandledRan' /\ Counted' /\ ReplayOnlyAfterCut'
  BY <1>1 DEF IInv, NothingLost, HandledRan, Counted, ReplayOnlyAfterCut
<1>4. Locking'
  BY <1>1 DEF IInv, Locking, helperVars
<1>5. owed' \subseteq Event /\ \A e \in owed' : \E i \in 1..Len(log) : log[i] = e
  <2>1. \A i \in 1..Len(queue) :
          queue[i] \in Event /\ \E j \in 1..Len(log) : log[j] = queue[i]
    BY QueueFacts
  <2> QED
    BY <1>1, <2>1
<1>6. Owed'
  BY <1>1, <1>5 DEF Owed
<1>7. lives' \in 0..MaxLives
  BY <1>1, QueueAssumption DEF IInv, TypeOK
<1>8. TypeOK'
  BY <1>1, <1>5, <1>7 DEF IInv, TypeOK, helperVars
<1> QED
  BY <1>2, <1>3, <1>4, <1>6, <1>8 DEF IInv

LEMMA LockForDrainKeeps == ASSUME IInv, LockForDrain PROVE IInv'
<1>1. /\ daemon = "starting" /\ daemon' = "draining" /\ frames' = queue /\ consumed = 0
      /\ \A l \in Launchers : helper[l] # "locked"
      /\ UNCHANGED <<queue, consumed, live, lives, pending, helperVars, log, runs, cuts, owed>>
  BY DEF LockForDrain, LockFree, IInv, Locking
<1>2. Busy' /\ OnceWritten' /\ Sent' /\ NotYet'
  BY <1>1, HelpersKept
<1>3. NothingLost' /\ HandledRan' /\ Counted' /\ ReplayOnlyAfterCut'
  BY <1>1 DEF IInv, NothingLost, HandledRan, Counted, ReplayOnlyAfterCut
<1>4. Locking' /\ Owed'
  BY <1>1 DEF IInv, Locking, Owed, helperVars
<1>5. consumed' \in 0..Len(frames') /\ frames' \in Seq(Event)
  BY <1>1, QueueFacts
<1>6. TypeOK'
  BY <1>1, <1>5 DEF IInv, TypeOK, helperVars
<1> QED
  BY <1>2, <1>3, <1>4, <1>6 DEF IInv

LEMMA SkipDrainKeeps == ASSUME IInv, SkipDrain PROVE IInv'
<1>1. /\ daemon = "starting" /\ daemon' = "serving" /\ owed' = {}
      /\ UNCHANGED <<queue, frames, consumed, live, lives, pending, helperVars, log, runs, cuts>>
  BY DEF SkipDrain
<1>2. Busy' /\ OnceWritten' /\ Sent' /\ NotYet'
  BY <1>1, HelpersKept
<1>3. NothingLost' /\ HandledRan' /\ Counted' /\ ReplayOnlyAfterCut'
  BY <1>1 DEF IInv, NothingLost, HandledRan, Counted, ReplayOnlyAfterCut
<1>4. TypeOK' /\ Locking' /\ Owed'
  BY <1>1 DEF IInv, TypeOK, Locking, Owed, helperVars
<1> QED
  BY <1>2, <1>3, <1>4 DEF IInv

LEMMA HandOverKeeps == ASSUME IInv, HandOver PROVE IInv'
<1> DEFINE k == consumed + 1
           e == queue[k]
<1>1. /\ daemon = "draining" /\ frames = queue /\ consumed \in Nat /\ consumed < Len(queue)
      /\ Len(queue) \in Nat
  BY QueueFacts DEF HandOver, IInv, Locking, TypeOK
<1>2. /\ Effect(e) /\ runs' = [runs EXCEPT ![e] = @ + 1] /\ consumed' = k
      /\ owed' = owed \ {e}
      /\ UNCHANGED <<queue, daemon, frames, lives, pending, helperVars, log, cuts>>
  BY <1>1 DEF HandOver, TakesEffect
<1>3. k \in 1..Len(queue)
  BY <1>1
<1>4. /\ e \in Event /\ Step(e) < next[e.launcher] /\ \E i \in 1..Len(log) : log[i] = e
      /\ \A i \in 1..Len(queue) : queue[i] = e => i = k
      /\ \A i \in 1..Len(queue) : queue[i] \in Event
      /\ \A i \in 1..Len(log) : log[i] \in Event
  BY <1>3, QueueFacts
<1>5. \A i \in 1..Len(queue) : i <= k => i = k \/ i <= consumed
  BY <1>1
<1>6. runs[e] <= cuts[e]
  <2>1. runs[e] <= cuts[e] + (IF k <= consumed THEN 1 ELSE 0)
    BY <1>3 DEF IInv, Counted
  <2>2. ~(k <= consumed)
    BY <1>1
  <2>3. cuts[e] \in Nat
    BY <1>4 DEF IInv, TypeOK
  <2> QED
    BY <2>1, <2>2, <2>3
<1> HIDE DEF e
<1>7. /\ runs \in [Event -> Nat] /\ cuts \in [Event -> Nat] /\ runs' \in [Event -> Nat]
      /\ runs'[e] = runs[e] + 1
      /\ \A x \in Event : x # e => runs'[x] = runs[x]
  <2>1. runs \in [Event -> Nat] /\ cuts \in [Event -> Nat]
    BY DEF IInv, TypeOK
  <2> QED
    BY <1>2, <1>4, <2>1
<1>8. \A x \in Event : runs[x] > 0 => runs'[x] > 0
  BY <1>4, <1>7
<1>9. TypeOK'
  <2>1. live' \subseteq Service!LiveSession
    BY <1>2, <1>4, EffectType DEF IInv, TypeOK
  <2>2. consumed' \in 0..Len(frames')
    BY <1>1, <1>2
  <2>3. owed' \subseteq Event
    BY <1>2 DEF IInv, TypeOK
  <2> HIDE DEF k
  <2> QED
    BY <1>2, <1>7, <2>1, <2>2, <2>3 DEF IInv, TypeOK, helperVars
<1>10. Busy' /\ OnceWritten'
  BY <1>2 DEF IInv, Busy, OnceWritten, helperVars
<1>11. Locking'
  BY <1>1, <1>2 DEF IInv, Locking, helperVars
<1>12. NothingLost'
  <2> DEFINE gone == Len(log) - Len(queue)
  <2>1. \A i \in 1..gone : i \in 1..Len(log)
    BY QueueFacts
  <2>2. /\ gone >= 0 /\ \A i \in 1..Len(queue) : queue[i] = log[gone + i]
        /\ \A i \in 1..gone : runs[log[i]] > 0 \/ Len(log) - i >= MaxEvents
    BY DEF IInv, NothingLost
  <2>3. \A i \in 1..gone : runs'[log[i]] > 0 \/ Len(log) - i >= MaxEvents
    BY <1>4, <1>8, <2>1, <2>2
  <2> QED
    BY <1>2, <2>2, <2>3 DEF NothingLost
<1>13. Sent'
  <2>1. \A p \in pending : p # e /\ p \in Event
    BY <1>4 DEF IInv, Sent, TypeOK
  <2> QED
    BY <1>2, <1>7, <2>1 DEF IInv, Sent, helperVars
<1>14. NotYet'
  <2>1. \A x \in Event : Step(x) >= next[x.launcher] => x # e
    <3>1. Step(e) \in 1..3
      BY <1>4, StepType
    <3>2. next \in [Launchers -> 1..4] /\ e.launcher \in Launchers
      BY <1>4 DEF IInv, TypeOK, Event, Commands
    <3>3. next[e.launcher] \in 1..4
      BY <3>2
    <3> QED
      BY <1>4, <3>1, <3>3
  <2> QED
    BY <1>2, <1>7, <2>1 DEF IInv, NotYet, helperVars
<1>15. HandledRan'
  <2>1. \A i \in 1..k : runs'[queue[i]] > 0
    <3> TAKE i \in 1..k
    <3>1. CASE i = k
      BY <1>4, <1>7, <3>1 DEF e
    <3>2. CASE i # k
      <4>1. i \in 1..consumed /\ i \in 1..Len(queue)
        BY <1>1, <3>2
      <4> QED
        BY <1>1, <1>4, <1>8, <4>1 DEF IInv, HandledRan
    <3> QED
      BY <3>1, <3>2
  <2> HIDE DEF k
  <2> QED
    BY <1>1, <1>2, <2>1 DEF HandledRan
<1>16. Counted'
  <2> SUFFICES ASSUME NEW i \in 1..Len(queue)
               PROVE  runs'[queue[i]] <= cuts[queue[i]] + (IF i <= k THEN 1 ELSE 0)
    BY <1>2 DEF Counted
  <2>1. CASE i = k
    BY <1>1, <1>4, <1>6, <1>7, <2>1 DEF e
  <2>2. CASE i # k
    <3>1. queue[i] # e /\ queue[i] \in Event
      BY <1>4, <2>2
    <3>2. runs[queue[i]] <= cuts[queue[i]] + (IF i <= consumed THEN 1 ELSE 0)
      BY DEF IInv, Counted
    <3>3. runs'[queue[i]] = runs[queue[i]] /\ runs[queue[i]] \in Nat /\ cuts[queue[i]] \in Nat
      BY <1>7, <3>1
    <3> QED
      BY <1>1, <3>2, <3>3
  <2> QED
    BY <2>1, <2>2
<1>17. ReplayOnlyAfterCut'
  <2> SUFFICES ASSUME NEW x \in Event PROVE runs'[x] <= 1 + cuts[x]
    BY <1>2 DEF ReplayOnlyAfterCut
  <2> QED
    BY <1>6, <1>7 DEF IInv, ReplayOnlyAfterCut
<1>18. Owed'
  <2>1. \A i \in 1..k : queue[i] \notin owed'
    <3> TAKE i \in 1..k
    <3>1. CASE i = k
      BY <1>2, <3>1 DEF e
    <3>2. CASE i # k
      <4>1. i \in 1..consumed
        BY <1>1, <3>2
      <4> QED
        BY <1>1, <1>2, <4>1 DEF IInv, Owed
    <3> QED
      BY <3>1, <3>2
  <2>2. \A x \in owed' : \E i \in 1..Len(log) : log[i] = x
    BY <1>2 DEF IInv, Owed
  <2> HIDE DEF k
  <2> QED
    BY <1>1, <1>2, <2>1, <2>2 DEF Owed
<1> QED
  BY <1>9, <1>10, <1>11, <1>12, <1>13, <1>14, <1>15, <1>16, <1>17, <1>18 DEF IInv

(* The count of the cut drains goes up for what the file may bring again. *)
LEMMA CutFacts ==
  ASSUME IInv, Cut
  PROVE  /\ cuts' \in [Event -> Nat]
         /\ \A e \in Event : cuts[e] <= cuts'[e]
         /\ \A i \in 1..Len(queue) : runs[queue[i]] <= cuts'[queue[i]]
<1>1. /\ cuts \in [Event -> Nat] /\ runs \in [Event -> Nat]
      /\ cuts' = [e \in Event |-> IF e \in Handled THEN cuts[e] + 1 ELSE cuts[e]]
  BY DEF IInv, TypeOK, Cut
<1>2. \A e \in Event : cuts'[e] \in Nat /\ cuts[e] <= cuts'[e]
  BY <1>1
<1>3. cuts' \in [Event -> Nat]
  BY <1>1, <1>2
<1>4. ASSUME NEW i \in 1..Len(queue) PROVE runs[queue[i]] <= cuts'[queue[i]]
  <2>1. queue[i] \in Event /\ Len(queue) \in Nat
    BY QueueFacts
  <2>2. runs[queue[i]] <= cuts[queue[i]] + (IF i <= consumed THEN 1 ELSE 0)
    BY DEF IInv, Counted
  <2>3. consumed \in Nat
    BY DEF IInv, TypeOK
  <2>4. CASE i <= consumed
    <3>1. frames = queue
      BY <2>1, <2>3, <2>4 DEF IInv, Locking
    <3>2. queue[i] \in Handled
      BY <2>3, <2>4, <3>1 DEF Handled
    <3> QED
      BY <1>1, <2>1, <2>2, <2>4, <3>2
  <2>5. CASE ~(i <= consumed)
    BY <1>1, <1>2, <2>1, <2>2, <2>5
  <2> QED
    BY <2>4, <2>5
<1> QED
  BY <1>2, <1>3, <1>4

LEMMA StopKeeps == ASSUME IInv, Stop PROVE IInv'
<1>1. /\ daemon' = "down" /\ frames' = <<>> /\ consumed' = 0 /\ live' = {} /\ pending' = {}
      /\ owed' = {} /\ Cut /\ UNCHANGED <<queue, lives, helperVars, log, runs>>
  BY DEF Stop, Forgotten
<1>2. Busy' /\ OnceWritten' /\ Sent' /\ NotYet'
  BY <1>1, HelpersKept
<1>3. /\ cuts' \in [Event -> Nat] /\ \A e \in Event : cuts[e] <= cuts'[e]
      /\ \A i \in 1..Len(queue) : runs[queue[i]] <= cuts'[queue[i]]
  BY <1>1, CutFacts
<1>4. NothingLost' /\ HandledRan' /\ Owed' /\ Locking'
  BY <1>1 DEF IInv, NothingLost, HandledRan, Owed, Locking, helperVars
<1>5. ReplayOnlyAfterCut'
  BY <1>1, <1>3 DEF IInv, TypeOK, ReplayOnlyAfterCut
<1>6. Counted'
  <2>1. \A i \in 1..Len(queue) : cuts'[queue[i]] \in Nat /\ ~(i <= 0)
    BY <1>3, QueueFacts
  <2> QED
    BY <1>1, <1>3, <2>1 DEF Counted
<1>7. consumed' \in 0..Len(frames') /\ frames' \in Seq(Event)
  BY <1>1
<1>8. TypeOK'
  BY <1>1, <1>3, <1>7 DEF IInv, TypeOK, helperVars
<1> QED
  BY <1>2, <1>4, <1>5, <1>6, <1>8 DEF IInv

(* The drain takes what it handled out of the file. *)
LEMMA RewriteKeeps ==
  ASSUME IInv, FinishDrain, Rewrite
  PROVE  NothingLost' /\ Counted' /\ Owed' /\ queue' \in Seq(Event)
<1>1. /\ frames = queue /\ consumed' = 0 /\ UNCHANGED <<log, runs, cuts>>
      /\ owed' = IF consumed < Len(queue) THEN {} ELSE owed
  BY DEF FinishDrain, Forgotten, IInv, Locking, Rewrite
<1>2. /\ queue \in Seq(Event) /\ Len(queue) \in Nat /\ Len(log) \in Nat
      /\ consumed \in 0..Len(queue)
  BY <1>1, QueueFacts DEF IInv, TypeOK
<1>3. queue' = SubSeq(queue, consumed + 1, Len(queue))
  BY <1>1 DEF Rewrite
<1>4. /\ queue' \in Seq(Event) /\ Len(queue') = Len(queue) - consumed
      /\ \A i \in 1..Len(queue') : queue'[i] = queue[consumed + i]
  BY <1>2, <1>3, RestFacts
<1>5. \A i \in 1..Len(queue') : consumed + i \in 1..Len(queue) /\ ~(consumed + i <= consumed)
  BY <1>2, <1>4
<1>6. NothingLost'
  <2> DEFINE gone == Len(log) - Len(queue)
             gone2 == Len(log) - Len(queue')
  <2>1. /\ gone \in Nat /\ gone2 = gone + consumed
        /\ \A i \in 1..Len(queue) : queue[i] = log[gone + i]
        /\ \A i \in 1..gone : runs[log[i]] > 0 \/ Len(log) - i >= MaxEvents
    BY <1>2, <1>4, QueueFacts DEF IInv, NothingLost
  <2>2. \A i \in 1..Len(queue') : queue'[i] = log[gone2 + i]
    <3> TAKE i \in 1..Len(queue')
    <3>1. queue'[i] = log[gone + (consumed + i)]
      BY <1>4, <1>5, <2>1
    <3>2. gone + (consumed + i) = gone2 + i
      BY <1>2, <1>4, <2>1
    <3> QED
      BY <3>1, <3>2
  <2>3. \A i \in 1..gone2 : runs[log[i]] > 0 \/ Len(log) - i >= MaxEvents
    <3> TAKE i \in 1..gone2
    <3>1. CASE i \in 1..gone
      BY <2>1, <3>1
    <3>2. CASE i \notin 1..gone
      <4>1. i - gone \in 1..consumed /\ i - gone \in 1..Len(queue) /\ gone + (i - gone) = i
        BY <1>2, <2>1, <3>2
      <4>2. runs[queue[i - gone]] > 0
        BY <1>1, <4>1 DEF IInv, HandledRan
      <4> QED
        BY <2>1, <4>1, <4>2
    <3> QED
      BY <3>1, <3>2
  <2>4. gone2 >= 0
    BY <1>2, <2>1
  <2> QED
    BY <1>1, <2>2, <2>3, <2>4 DEF NothingLost
<1>7. Counted'
  <2> SUFFICES ASSUME NEW i \in 1..Len(queue')
               PROVE  runs[queue'[i]] <= cuts[queue'[i]] + (IF i <= 0 THEN 1 ELSE 0)
    BY <1>1 DEF Counted
  <2> DEFINE e == queue[consumed + i]
  <2>1. e = queue'[i] /\ consumed + i \in 1..Len(queue)
    BY <1>4, <1>5
  <2>2. runs[e] <= cuts[e] + (IF consumed + i <= consumed THEN 1 ELSE 0)
    BY <2>1 DEF IInv, Counted
  <2>3. e \in Event
    BY <2>1, QueueFacts
  <2> HIDE DEF e
  <2>4. cuts[e] \in Nat
    BY <2>3 DEF IInv, TypeOK
  <2> QED
    BY <1>5, <2>1, <2>2, <2>4
<1>8. Owed'
  <2>1. owed' = {} \/ Len(queue') = 0
    BY <1>1, <1>2, <1>4
  <2>2. \A e \in owed' : \E i \in 1..Len(log) : log[i] = e
    BY <1>1 DEF IInv, Owed
  <2> QED
    BY <1>1, <2>1, <2>2 DEF Owed
<1> QED
  BY <1>4, <1>6, <1>7, <1>8

(* The drain ends before it takes what it handled out of the file. *)
LEMMA CutKeeps ==
  ASSUME IInv, FinishDrain, Cut, UNCHANGED queue
  PROVE  NothingLost' /\ Counted' /\ Owed'
<1>1. /\ frames = queue /\ consumed' = 0 /\ UNCHANGED <<log, runs>>
      /\ owed' = IF consumed < Len(queue) THEN {} ELSE owed
  BY DEF FinishDrain, Forgotten, IInv, Locking
<1>2. NothingLost'
  BY <1>1 DEF IInv, NothingLost
<1>3. /\ cuts' \in [Event -> Nat]
      /\ \A i \in 1..Len(queue) : runs[queue[i]] <= cuts'[queue[i]]
  BY CutFacts
<1>4. Counted'
  <2>1. \A i \in 1..Len(queue) : cuts'[queue[i]] \in Nat /\ ~(i <= 0)
    BY <1>3, QueueFacts
  <2> QED
    BY <1>1, <1>3, <2>1 DEF Counted
<1>5. Owed'
  <2>1. consumed \in 0..Len(queue) /\ Len(queue) \in Nat
    BY <1>1, QueueFacts DEF IInv, TypeOK
  <2>2. \A e \in owed' : \E i \in 1..Len(log) : log[i] = e
    BY <1>1 DEF IInv, Owed
  <2>3. \A i \in 1..Len(queue) : queue[i] \notin owed'
    BY <1>1, <2>1 DEF IInv, Owed
  <2> QED
    BY <1>1, <2>2, <2>3 DEF Owed
<1> QED
  BY <1>2, <1>4, <1>5

LEMMA FinishDrainKeeps == ASSUME IInv, FinishDrain PROVE IInv'
<1>1. /\ daemon = "draining" /\ daemon' = "serving" /\ frames' = <<>> /\ consumed' = 0
      /\ UNCHANGED <<live, lives, pending, helperVars, log, runs>>
      /\ owed' = IF consumed < Len(frames) THEN {} ELSE owed
  BY DEF FinishDrain, Forgotten
<1>2. Busy' /\ OnceWritten' /\ Sent' /\ NotYet'
  BY <1>1, HelpersKept
<1>3. Rewrite \/ (Cut /\ UNCHANGED queue)
  BY DEF FinishDrain
<1>4. NothingLost' /\ Counted' /\ Owed' /\ queue' \in Seq(Event)
  BY <1>3, RewriteKeeps, CutKeeps DEF IInv, TypeOK
<1>5. cuts' \in [Event -> Nat] /\ \A e \in Event : cuts[e] <= cuts'[e]
  <2>1. CASE Rewrite
    <3>1. cuts' = cuts /\ cuts \in [Event -> Nat]
      BY <2>1 DEF Rewrite, IInv, TypeOK
    <3> QED
      BY <3>1
  <2>2. CASE Cut
    BY <2>2, CutFacts
  <2> QED
    BY <1>3, <2>1, <2>2
<1>6. ReplayOnlyAfterCut'
  BY <1>1, <1>5 DEF IInv, TypeOK, ReplayOnlyAfterCut
<1>7. HandledRan' /\ Locking'
  BY <1>1 DEF IInv, HandledRan, Locking, helperVars
<1>8. consumed' \in 0..Len(frames') /\ frames' \in Seq(Event) /\ owed' \subseteq Event
  BY <1>1 DEF IInv, TypeOK
<1>9. TypeOK'
  BY <1>1, <1>4, <1>5, <1>8 DEF IInv, TypeOK, helperVars
<1> QED
  BY <1>2, <1>4, <1>6, <1>7, <1>9 DEF IInv

(* An answered request is one of a command that is over. *)
LEMMA AnswerHelper ==
  ASSUME IInv, NEW e \in Event, Answer(e)
  PROVE  /\ next' \in [Launchers -> 1..(Len(Commands) + 1)]
         /\ helper' \in [Launchers -> {"idle", "waiting", "queueing", "locked"}]
         /\ held' \in [Launchers -> Seq(Event)]
         /\ Busy' /\ Step(e) < next'[e.launcher]
         /\ \A m \in Launchers : \/ next'[m] = next[m] /\ helper'[m] = helper[m]
                                 \/ next[m] < next'[m] /\ helper'[m] = "idle"
         /\ \A m \in Launchers : next[m] \in Nat /\ next'[m] \in Nat
         /\ \A m \in Launchers :
              helper'[m] = "locked" => helper[m] = "locked" /\ held'[m] = held[m]
<1> DEFINE l == e.launcher
<1>1. l \in Launchers /\ Step(e) \in 1..3 /\ e \in pending
  BY StepType DEF Event, Answer
<1>2. \/ Step(e) < next[l]
      \/ Step(e) = next[l] /\ helper[l] = "waiting"
  BY <1>1 DEF IInv, Sent
<1>3. /\ next \in [Launchers -> 1..4] /\ held \in [Launchers -> Seq(Event)]
      /\ helper \in [Launchers -> {"idle", "waiting", "queueing", "locked"}]
      /\ Len(Commands) + 1 = 4 /\ Busy
  BY DEF IInv, TypeOK, Commands
<1>4. CASE helper[l] = "waiting" /\ e = Current(l)
  <2>1. Ends(l)
    BY <1>4 DEF Answer
  <2>2. /\ next' \in [Launchers -> 1..(Len(Commands) + 1)]
        /\ helper' \in [Launchers -> {"idle", "waiting", "queueing", "locked"}]
        /\ held' \in [Launchers -> Seq(Event)]
        /\ next'[l] = next[l] + 1 /\ next[l] \in 1..3 /\ helper'[l] = "idle"
        /\ \A m \in Launchers \ {l} :
             next'[m] = next[m] /\ helper'[m] = helper[m] /\ held'[m] = held[m]
        /\ \A m \in Launchers : next[m] \in Nat /\ next'[m] \in Nat
        /\ Busy'
    BY <1>1, <1>4, <2>1, EndsFacts
  <2> HIDE DEF l
  <2>3. Step(e) < next'[l]
    BY <1>1, <1>2, <2>2
  <2>4. \A m \in Launchers : \/ next'[m] = next[m] /\ helper'[m] = helper[m]
                             \/ next[m] < next'[m] /\ helper'[m] = "idle"
    BY <2>2
  <2>5. \A m \in Launchers :
          helper'[m] = "locked" => helper[m] = "locked" /\ held'[m] = held[m]
    BY <2>2
  <2> QED
    BY <2>2, <2>3, <2>4, <2>5 DEF l
<1>5. CASE ~(helper[l] = "waiting" /\ e = Current(l))
  <2>1. UNCHANGED <<helper, next, held>>
    BY <1>5 DEF Answer, helperVars
  <2>2. Step(e) < next[l]
    <3>1. next[l] \in 1..4
      BY <1>1, <1>3
    <3>2. ASSUME Step(e) = next[l] PROVE e = Current(l)
      <4>1. next[l] \in 1..3
        BY <1>1, <3>2
      <4> QED
        BY <1>1, <3>2, <4>1, StepNames
    <3> QED
      BY <1>2, <1>5, <3>2
  <2>3. \A m \in Launchers : next[m] \in 1..4
    BY <1>3
  <2>4. \A m \in Launchers : next[m] \in Nat
    <3>1. \A x \in 1..4 : x \in Nat
      OBVIOUS
    <3> QED
      BY <2>3, <3>1
  <2> QED
    BY <1>3, <2>1, <2>2, <2>4 DEF Busy
<1> QED
  BY <1>4, <1>5

LEMMA AnswerKeeps == ASSUME IInv, NEW e \in Event, Answer(e) PROVE IInv'
<1>1. /\ daemon = "serving" /\ frames = <<>> /\ consumed = 0
      /\ e \in pending /\ pending' = pending \ {e}
      /\ UNCHANGED <<queue, daemon, frames, consumed, lives, log, cuts, owed>>
  BY DEF Answer, Open, IInv, Locking
<1>2. /\ runs[e] = 0 /\ \A i \in 1..Len(log) : log[i] # e
      /\ runs \in [Event -> Nat] /\ cuts \in [Event -> Nat]
  BY <1>1 DEF IInv, Sent, TypeOK
<1>3. /\ runs' \in [Event -> Nat] /\ runs'[e] <= 1
      /\ \A x \in Event : x # e => runs'[x] = runs[x]
  <2>1. runs' = runs \/ runs' = [runs EXCEPT ![e] = @ + 1]
    BY DEF Answer, TakesEffect
  <2>2. CASE runs' = runs
    BY <1>2, <2>2
  <2>3. CASE runs' = [runs EXCEPT ![e] = @ + 1]
    BY <1>2, <2>3
  <2> QED
    BY <2>1, <2>2, <2>3
<1>4. live' \subseteq Service!LiveSession
  <2>1. Effect(e) \/ live' = live
    BY DEF Answer, TakesEffect
  <2>2. live \subseteq Service!LiveSession
    BY DEF IInv, TypeOK
  <2> QED
    BY <2>1, <2>2, EffectType
<1>5. /\ next' \in [Launchers -> 1..(Len(Commands) + 1)]
      /\ helper' \in [Launchers -> {"idle", "waiting", "queueing", "locked"}]
      /\ held' \in [Launchers -> Seq(Event)]
      /\ Busy' /\ Step(e) < next'[e.launcher]
      /\ \A m \in Launchers : \/ next'[m] = next[m] /\ helper'[m] = helper[m]
                              \/ next[m] < next'[m] /\ helper'[m] = "idle"
      /\ \A m \in Launchers : next[m] \in Nat /\ next'[m] \in Nat
      /\ \A m \in Launchers :
           helper'[m] = "locked" => helper[m] = "locked" /\ held'[m] = held[m]
  BY AnswerHelper
<1>6. /\ \A i \in 1..Len(log) : log[i] \in Event
      /\ \A i \in 1..Len(queue) : queue[i] \in Event /\ queue[i] # e
      /\ \A x \in Event : x.launcher \in Launchers /\ Step(x) \in 1..3
      /\ pending \subseteq Event
  <2>1. \A x \in Event : x.launcher \in Launchers /\ Step(x) \in 1..3
    BY StepType DEF Event
  <2>2. \A i \in 1..Len(queue) : queue[i] \in Event /\ queue[i] # e
    BY <1>2, QueueFacts
  <2> QED
    BY <2>1, <2>2, QueueFacts DEF IInv, TypeOK
<1>7. TypeOK'
  BY <1>1, <1>3, <1>4, <1>5 DEF IInv, TypeOK
<1>8. Locking'
  BY <1>1, <1>5 DEF IInv, Locking
<1>9. NothingLost'
  <2> DEFINE gone == Len(log) - Len(queue)
  <2>1. \A i \in 1..gone : i \in 1..Len(log)
    BY QueueFacts
  <2>2. \A i \in 1..gone : runs'[log[i]] = runs[log[i]]
    BY <1>2, <1>3, <1>6, <2>1
  <2> QED
    BY <1>1, <2>2 DEF IInv, NothingLost
<1>10. OnceWritten'
  <2>1. ASSUME NEW i \in 1..Len(log) PROVE Step(log[i]) < next'[log[i].launcher]
    <3>1. Step(log[i]) < next[log[i].launcher]
      BY DEF IInv, OnceWritten
    <3>2. log[i] \in Event
      BY <1>6
    <3>3. log[i].launcher \in Launchers /\ Step(log[i]) \in 1..3
      BY <1>6, <3>2
    <3> QED
      BY <1>5, <3>1, <3>3
  <2> QED
    BY <1>1, <2>1 DEF IInv, OnceWritten
<1>11. Sent'
  <2> SUFFICES ASSUME NEW p \in pending, p # e
               PROVE  /\ runs'[p] = 0 /\ \A i \in 1..Len(log) : log[i] # p
                      /\ \/ Step(p) < next'[p.launcher]
                         \/ /\ Step(p) = next'[p.launcher]
                            /\ helper'[p.launcher] = "waiting"
    BY <1>1 DEF Sent
  <2>1. /\ runs[p] = 0 /\ \A i \in 1..Len(log) : log[i] # p
        /\ \/ Step(p) < next[p.launcher]
           \/ Step(p) = next[p.launcher] /\ helper[p.launcher] = "waiting"
    BY DEF IInv, Sent
  <2>2. p \in Event /\ p.launcher \in Launchers /\ Step(p) \in 1..3
    BY <1>6
  <2>3. runs'[p] = 0
    BY <1>3, <2>1, <2>2
  <2>4. CASE Step(p) < next[p.launcher]
    <3> DEFINE n == next[p.launcher]
               n2 == next'[p.launcher]
    <3>1. n \in Nat /\ n2 \in Nat /\ (n2 = n \/ n < n2)
      BY <1>5, <2>2
    <3>2. Step(p) < n2
      <4>1. Step(p) \in Nat /\ Step(p) < n
        BY <2>2, <2>4
      <4> HIDE DEF n, n2
      <4> QED
        BY <3>1, <4>1
    <3> QED
      BY <2>1, <2>3, <3>2
  <2>5. CASE Step(p) = next[p.launcher] /\ helper[p.launcher] = "waiting"
    BY <1>5, <2>1, <2>2, <2>3, <2>5
  <2> QED
    BY <2>1, <2>4, <2>5
<1>12. NotYet'
  <2>1. ASSUME NEW x \in Event, Step(x) >= next'[x.launcher]
        PROVE  x # e /\ Step(x) >= next[x.launcher]
    <3>1. x.launcher \in Launchers /\ Step(x) \in 1..3 /\ Step(e) \in 1..3
      BY <1>6
    <3>2. x # e
      BY <1>5, <2>1, <3>1
    <3> QED
      BY <1>5, <2>1, <3>1, <3>2
  <2> QED
    BY <1>3, <2>1 DEF IInv, NotYet
<1>13. HandledRan'
  BY <1>1 DEF HandledRan
<1>14. Counted'
  <2>1. \A i \in 1..Len(queue) : runs'[queue[i]] = runs[queue[i]]
    BY <1>3, <1>6
  <2> QED
    BY <1>1, <2>1 DEF IInv, Counted
<1>15. ReplayOnlyAfterCut'
  <2> SUFFICES ASSUME NEW x \in Event PROVE runs'[x] <= 1 + cuts[x]
    BY <1>1 DEF ReplayOnlyAfterCut
  <2>1. cuts[x] \in Nat /\ runs'[x] \in Nat
    BY <1>2, <1>3
  <2>2. CASE x = e
    BY <1>3, <2>1, <2>2
  <2>3. CASE x # e
    <3>1. runs'[x] = runs[x]
      BY <1>3, <2>3
    <3>2. runs[x] <= 1 + cuts[x]
      BY DEF IInv, ReplayOnlyAfterCut
    <3> QED
      BY <3>1, <3>2
  <2> QED
    BY <2>2, <2>3
<1>16. Owed'
  BY <1>1 DEF IInv, Owed
<1> QED
  BY <1>5, <1>7, <1>8, <1>9, <1>10, <1>11, <1>12, <1>13, <1>14, <1>15, <1>16 DEF IInv

-----------------------------------------------------------------------------
LEMMA Inductive == IInv /\ [Next]_vars => IInv'
<1> SUFFICES ASSUME IInv, [Next]_vars PROVE IInv'
  OBVIOUS
<1>1. CASE DaemonStep
  BY <1>1, StartKeeps, LockForDrainKeeps, SkipDrainKeeps, HandOverKeeps, FinishDrainKeeps,
     StopKeeps, AnswerKeeps DEF DaemonStep
<1>2. ASSUME NEW l \in Launchers, HelperStep(l) PROVE IInv'
  <2>1. CASE TimesOut(l) \/ EnqueueFails(l)
    <3>1. /\ Ends(l) /\ helper[l] # "idle" /\ UNCHANGED pending
          /\ UNCHANGED <<queue, daemonVars, log, runs, cuts, owed>>
      BY <2>1 DEF TimesOut, EnqueueFails
    <3> QED
      BY <3>1, EndsKeeps
  <2>2. CASE TurnedAway(l)
    <3>1. /\ Ends(l) /\ helper[l] = "waiting" /\ pending' \subseteq pending
          /\ UNCHANGED <<queue, daemonVars, log, runs, cuts, owed>>
      BY <2>2 DEF TurnedAway
    <3> QED
      BY <3>1, EndsKeeps
  <2> QED
    BY <1>2, <2>1, <2>2, RunKeeps, LockQueueKeeps, EnqueueKeeps DEF HelperStep
<1>3. CASE UNCHANGED vars
  BY <1>3, StutterKeeps
<1> QED
  BY <1>1, <1>2, <1>3 DEF Next

(* The inductive invariant: the lock, the order of a launcher's commands    *)
(* and the bookkeeping of runs hold together in every reachable state.      *)
THEOREM Invariance == Spec => []IInv
<1> QED
  BY InitInv, Inductive, PTL DEF Spec

(* Every variable keeps its type: the drain never handles more frames than  *)
(* it read, and no launcher runs past its last command.                     *)
THEOREM TypeCorrect == Spec => []TypeOK
<1>1. IInv => TypeOK
  BY DEF IInv
<1> QED
  BY <1>1, Invariance, PTL

(* HookEventQueue.enqueue and drain, by any number of processes that may be *)
(* killed: the file holds the newest events in their order, and an older    *)
(* one left it by taking effect or by being pushed out.                     *)
THEOREM QueuedNotLost == Spec => []NothingLost
<1>1. IInv => NothingLost
  BY DEF IInv
<1> QED
  BY <1>1, Invariance, PTL

(* An event takes effect again only after a drain that handled it and did   *)
(* not rewrite the file.                                                    *)
THEOREM ReplayNeedsCut == Spec => []ReplayOnlyAfterCut
<1>1. IInv => ReplayOnlyAfterCut
  BY DEF IInv
<1> QED
  BY <1>1, Invariance, PTL

(* runServe and IPCStartupGate: no request is answered while the file still *)
(* holds an event of its launcher that this life owes.                      *)
THEOREM StartIsOrdered == Spec => StartupOrder
<1>1. IInv /\ [Next]_vars =>
        [\A e \in Event : Answer(e) =>
           \A i \in 1..Len(queue) : queue[i].launcher = e.launcher => queue[i] \notin owed]_vars
  BY DEF IInv, Owed, Answer, Open
<1> QED
  BY <1>1, Invariance, PTL DEF Spec, StartupOrder

-----------------------------------------------------------------------------
(* Room is made in a full queue only, and never for the event put in. *)
LEMMA BoundedIsCut ==
  ASSUME NEW s \in Seq(Event), NEW e \in Event
  PROVE  \E n \in 0..Len(s) :
           /\ n > 0 => Len(s) + 1 - n = MaxEvents
           /\ Bounded(Append(s, e)) = SubSeq(Append(s, e), n + 1, Len(s) + 1)
<1> DEFINE t == Append(s, e)
<1>1. t \in Seq(Event) /\ Len(t) = Len(s) + 1 /\ Len(s) \in Nat
  OBVIOUS
<1>2. MaxEvents \in Nat \ {0}
  BY QueueAssumption
<1> HIDE DEF t
<1>3. CASE Len(t) > MaxEvents
  <2>1. Bounded(t) = SubSeq(t, (Len(s) + 1 - MaxEvents) + 1, Len(s) + 1)
    BY <1>1, <1>2, <1>3 DEF Bounded
  <2>2. Len(s) + 1 - MaxEvents \in 0..Len(s)
    BY <1>1, <1>2, <1>3
  <2>3. Len(s) + 1 - (Len(s) + 1 - MaxEvents) = MaxEvents
    BY <1>1, <1>2
  <2> QED
    BY <2>1, <2>2, <2>3 DEF t
<1>4. CASE ~(Len(t) > MaxEvents)
  <2>1. Bounded(t) = t
    BY <1>4 DEF Bounded
  <2>2. SubSeq(t, 0 + 1, Len(s) + 1) = t
    BY <1>1
  <2>3. 0 \in 0..Len(s)
    BY <1>1
  <2> QED
    BY <2>1, <2>2, <2>3 DEF t
<1> QED
  BY <1>3, <1>4

(* Every step is one of the file's or leaves the file alone: a helper that  *)
(* writes holds the lock, so that the file is as it read it and nothing of  *)
(* it is taken.                                                             *)
LEMMA StepRefines == IInv /\ [Next]_vars => [File!Next]_(File!vars)
<1> SUFFICES ASSUME IInv, [Next]_vars PROVE [File!Next]_(File!vars)
  OBVIOUS
<1> USE DEF File!vars, File!Next, helperVars, daemonVars
<1>1. ASSUME NEW l \in Launchers, Enqueue(l) PROVE [File!Next]_(File!vars)
  <2> helper[l] = "locked"
    BY <1>1 DEF Enqueue
  <2>0. next[l] \in 1..4 /\ next[l] <= 3
    BY DEF IInv, TypeOK, Busy, Commands
  <2>1. helper[l] = "locked" /\ next[l] \in 1..3 /\ queue \in Seq(Event)
    BY <2>0 DEF IInv, TypeOK
  <2>2. held[l] = queue /\ consumed = 0
    BY <2>1 DEF IInv, Locking
  <2>3. Current(l) \in Event
    BY <2>1, CurrentFacts
  <2>4. queue' = Bounded(Append(queue, Current(l))) /\ UNCHANGED consumed
    BY <1>1, <2>2 DEF Enqueue
  <2>5. PICK n \in 0..Len(queue) :
          /\ n > 0 => Len(queue) + 1 - n = MaxEvents
          /\ Bounded(Append(queue, Current(l)))
               = SubSeq(Append(queue, Current(l)), n + 1, Len(queue) + 1)
    BY <2>1, <2>3, BoundedIsCut
  <2>6. File!Put(Current(l))
    BY <2>2, <2>4, <2>5 DEF File!Put
  <2> QED
    BY <2>3, <2>6
<1>2. CASE HandOver
  <2>1. frames = queue
    BY <1>2 DEF HandOver, IInv, Locking
  <2>2. File!Take
    BY <1>2, <2>1 DEF HandOver, File!Take
  <2> QED
    BY <2>2
<1>3. CASE FinishDrain
  <2>1. frames = queue /\ consumed' = 0
    BY <1>3 DEF FinishDrain, Forgotten, IInv, Locking
  <2>2. CASE consumed > 0 /\ Rewrite
    <3>1. File!Remove
      BY <2>1, <2>2 DEF Rewrite, File!Remove
    <3> QED
      BY <3>1
  <2>3. CASE UNCHANGED queue
    <3>1. File!TakeBack
      BY <2>1, <2>3 DEF File!TakeBack
    <3> QED
      BY <3>1
  <2> QED
    BY <1>3, <2>2, <2>3 DEF FinishDrain
<1>4. CASE Stop
  <2>1. File!TakeBack
    BY <1>4 DEF Stop, Forgotten, File!TakeBack
  <2> QED
    BY <2>1
<1>5. CASE Start \/ LockForDrain \/ SkipDrain \/ UNCHANGED vars
  BY <1>5 DEF Start, LockForDrain, SkipDrain, vars
<1>6. ASSUME NEW e \in Event, Answer(e) PROVE UNCHANGED File!vars
  BY <1>6 DEF Answer
<1>7. ASSUME NEW l \in Launchers,
             Run(l) \/ TimesOut(l) \/ TurnedAway(l) \/ LockQueue(l) \/ EnqueueFails(l)
      PROVE  UNCHANGED File!vars
  BY <1>7 DEF Run, TimesOut, TurnedAway, LockQueue, EnqueueFails
<1> QED
  BY <1>1, <1>2, <1>3, <1>4, <1>5, <1>6, <1>7 DEF Next, DaemonStep, HelperStep

(* HookEventQueue as the lock makes it, for any processes that rewrite the  *)
(* file from what they read and may be killed: it implements DurableQueue.  *)
THEOREM QueueImplementsDurable == Spec => ImplementsDurableQueue
<1>1. Init => File!Init
  BY DEF Init, File!Init
<1> QED
  BY <1>1, StepRefines, Invariance, PTL DEF Spec, ImplementsDurableQueue, File!Spec

================================================================================
