------------------------------- MODULE HookQueue -------------------------------
(***************************************************************************)
(* How the events of a Codex session reach the helper daemon: the commands *)
(* the shim and the Codex hooks run one after the other, each a process of *)
(* its own (HelperCommandRunner, LocalIPCClient), the queue file they fall *)
(* back on when nobody listens (HookEventQueue), and the daemon, which     *)
(* drains that file before it opens the gate to direct requests            *)
(* (runServe).  The daemon keeps its sessions in memory only: each life    *)
(* starts with an empty SessionDirectory, the module SessionRegistry       *)
(* implements.                                                             *)
(*                                                                         *)
(* Any process may be killed between two steps.  The kernel then drops its *)
(* flock and its connections; a file rename has happened or has not.       *)
(***************************************************************************)
EXTENDS Naturals, Sequences

CONSTANTS Launchers,     \* codex-shim launcher instances, each with one Codex session
          Terminals,
          TerminalOf,    \* the terminal in front when a launcher registers
          MaxEvents,     \* HookEventQueue.maximumEvents
          MaxLives,      \* bound: how often the daemon is started
          None

ASSUME QueueAssumption ==
  /\ TerminalOf \in [Launchers -> Terminals]
  /\ MaxEvents \in Nat \ {0} /\ MaxLives \in Nat
  /\ None \notin Launchers

VARIABLES queue,         \* the events in pending-hooks.jsonl, oldest first
          daemon,        \* "down", "starting", "draining" or "serving"
          frames,        \* the frames the drain read
          consumed,      \* how many of them were handled
          live,          \* the sessions the daemon knows
          pending,       \* requests sent to this life of the daemon and not answered
          helper,        \* a launcher's helper command: "idle", "waiting", "queueing", "locked"
          next,          \* the command it runs, or runs next
          held,          \* the frames it read under the lock
          lives,
          log,           \* history: every event ever written to the file
          runs,          \* history: how often an event took effect
          cuts,          \* history: of these, how often the drain did not get to rewrite the file
          owed           \* history: the events the file held when this life began, and which
                         \* the drain has neither handed over nor given up

helperVars == <<helper, next, held>>
daemonVars == <<daemon, frames, consumed, live, lives>>
vars == <<queue, daemon, frames, consumed, live, pending, helper, next, held, lives, log,
          runs, cuts, owed>>

(* A session's commands in the order the shim and Codex run them; "prompt"  *)
(* stands for the hooks that follow SessionStart.                           *)
Commands == <<"launch", "start", "prompt">>

Event == [launcher : Launchers, kind : {"launch", "start", "prompt"}]

Current(l) == [launcher |-> l, kind |-> Commands[next[l]]]

SessionStates == {"live"}  \* what the display shows of a session is left out

Service == INSTANCE SessionDirectory
  WITH Providers <- Launchers, RemoteIDs <- Launchers,
       States <- SessionStates, InitialState <- "live"

File == INSTANCE DurableQueue
  WITH Items <- Event, MaxItems <- MaxEvents, items <- queue, taken <- consumed

Init ==
  /\ queue = <<>> /\ log = <<>>
  /\ daemon = "down" /\ frames = <<>> /\ consumed = 0 /\ live = {} /\ lives = 0
  /\ pending = {}
  /\ helper = [l \in Launchers |-> "idle"]
  /\ next = [l \in Launchers |-> 1]
  /\ held = [l \in Launchers |-> <<>>]
  /\ runs = [e \in Event |-> 0] /\ cuts = [e \in Event |-> 0] /\ owed = {}

-----------------------------------------------------------------------------
(* The service: an event it accepts changes the directory and is answered   *)
(* with .ok, one it throws on changes nothing and is answered with .error.  *)
Effect(e) ==
  \/ e.kind = "launch" /\ Service!Launch(e.launcher, TerminalOf[e.launcher])
  \/ e.kind = "start" /\ Service!Bind(e.launcher, e.launcher)
  \/ e.kind = "prompt" /\ Service!Update(e.launcher)

Throws(e) ==
  \/ e.kind = "launch" /\ \E s \in live : s.launcher = e.launcher
  \/ e.kind = "start" /\ \A s \in live : s.launcher # e.launcher
  \/ e.kind = "start" /\ \E s \in live : s.launcher = e.launcher /\ s.provider # None
  \/ e.kind = "prompt" /\ \A s \in live : s.provider # e.launcher

TakesEffect(e) == Effect(e) /\ runs' = [runs EXCEPT ![e] = @ + 1]

-----------------------------------------------------------------------------
(* A helper command.  It ends with an exit status nothing here depends on.  *)
Ends(l) ==
  /\ helper' = [helper EXCEPT ![l] = "idle"]
  /\ next' = [next EXCEPT ![l] = @ + 1]
  /\ held' = [held EXCEPT ![l] = <<>>]

(* Connecting may fail with a daemon there too, when its backlog is full.   *)
Run(l) ==
  /\ helper[l] = "idle" /\ next[l] <= Len(Commands)
  /\ \/ /\ daemon # "down"
        /\ helper' = [helper EXCEPT ![l] = "waiting"]
        /\ pending' = pending \cup {Current(l)}
     \/ /\ helper' = [helper EXCEPT ![l] = "queueing"]
        /\ UNCHANGED pending
  /\ UNCHANGED <<queue, daemonVars, next, held, log, runs, cuts, owed>>

(* No answer within five seconds, or the connection is cut: what was sent   *)
(* is not queued, and the daemon may handle it all the same.                *)
TimesOutAndQueues(l) ==      \* mutant: any transport error queues the event
  /\ helper[l] = "waiting"
  /\ helper' = [helper EXCEPT ![l] = "queueing"]
  /\ UNCHANGED <<queue, daemonVars, pending, next, held, log, runs, cuts, owed>>

TimesOut(l) ==
  /\ helper[l] = "waiting"
  /\ Ends(l)
  /\ UNCHANGED <<queue, daemonVars, pending, log, runs, cuts, owed>>

(* The server is busy, or the helper dies before its request is through.    *)
TurnedAway(l) ==
  /\ helper[l] = "waiting"
  /\ Ends(l)
  /\ pending' = pending \ {Current(l)}
  /\ UNCHANGED <<queue, daemonVars, log, runs, cuts, owed>>

NobodyWrites ==              \* mutant: shared access while the drain only reads
  \A l \in Launchers : helper[l] # "locked"

LockFree == daemon # "draining" /\ \A l \in Launchers : helper[l] # "locked"

LockQueue(l) ==
  /\ helper[l] = "queueing" /\ LockFree
  /\ helper' = [helper EXCEPT ![l] = "locked"]
  /\ held' = [held EXCEPT ![l] = queue]
  /\ UNCHANGED <<queue, daemonVars, pending, next, log, runs, cuts, owed>>

(* The oldest events make room for the newest. *)
Bounded(events) ==
  IF Len(events) > MaxEvents
  THEN SubSeq(events, Len(events) - MaxEvents + 1, Len(events))
  ELSE events

(* The file is replaced by a rename.  When only the fsync of the directory  *)
(* after it fails, the command reports an error and the event is queued.    *)
Enqueue(l) ==
  /\ helper[l] = "locked"
  /\ queue' = Bounded(Append(held[l], Current(l)))
  /\ log' = Append(log, Current(l))
  /\ Ends(l)
  /\ UNCHANGED <<daemonVars, pending, runs, cuts, owed>>

(* The terminal could not be captured, an error came before the rename, or  *)
(* the helper was killed.                                                   *)
EnqueueFails(l) ==
  /\ helper[l] \in {"queueing", "locked"}
  /\ Ends(l)
  /\ UNCHANGED <<queue, daemonVars, pending, log, runs, cuts, owed>>

-----------------------------------------------------------------------------
(* The daemon listens from its start on.  A second one does not start while *)
(* its socket can be reached.                                               *)
Start ==
  /\ daemon = "down" /\ lives < MaxLives
  /\ daemon' = "starting"
  /\ lives' = lives + 1
  /\ owed' = {queue[i] : i \in 1..Len(queue)}
  /\ UNCHANGED <<queue, frames, consumed, live, pending, helperVars, log, runs, cuts>>

LockForDrain ==
  /\ daemon = "starting" /\ LockFree
  /\ daemon' = "draining"
  /\ frames' = queue
  /\ UNCHANGED <<queue, consumed, live, lives, pending, helperVars, log, runs, cuts, owed>>

(* The lock or the file cannot be had: the gate opens all the same. *)
SkipDrain ==
  /\ daemon = "starting"
  /\ daemon' = "serving" /\ owed' = {}
  /\ UNCHANGED <<queue, frames, consumed, live, lives, pending, helperVars, log, runs, cuts>>

HandOver ==
  /\ daemon = "draining" /\ consumed < Len(frames)
  /\ TakesEffect(frames[consumed + 1])
  /\ consumed' = consumed + 1
  /\ owed' = owed \ {frames[consumed + 1]}
  /\ UNCHANGED <<queue, daemon, frames, lives, pending, helperVars, log, cuts>>

FramesForgotten ==           \* mutant: the count of handled frames outlives the drain
  frames' = <<>> /\ UNCHANGED consumed

Forgotten == frames' = <<>> /\ consumed' = 0

Handled == {frames[i] : i \in 1..consumed}

(* The events handled come once more: the file still holds them. *)
Cut == cuts' = [e \in Event |-> IF e \in Handled THEN cuts[e] + 1 ELSE cuts[e]]

DrainIsOverAtTheEnd == consumed = Len(frames)   \* mutant: a refused event is tried again

(* The first event that is refused stays, with all after it. *)
DrainIsOver == consumed < Len(frames) => Throws(frames[consumed + 1])

Rewrite == queue' = SubSeq(frames, consumed + 1, Len(frames)) /\ UNCHANGED cuts

(* With nothing consumed there is nothing to rewrite.  The gate opens even  *)
(* when the rewrite fails.                                                  *)
FinishDrain ==
  /\ daemon = "draining" /\ DrainIsOver
  /\ \/ consumed > 0 /\ Rewrite
     \/ Cut /\ UNCHANGED queue
  /\ daemon' = "serving" /\ Forgotten
  /\ owed' = IF consumed < Len(frames) THEN {} ELSE owed
  /\ UNCHANGED <<live, lives, pending, helperVars, log, runs>>

Ungated == daemon # "down"   \* mutant: the handler does not wait for the gate

Open == daemon = "serving"   \* IPCStartupGate

(* A direct launch also fails when the terminal in front cannot be read. *)
Answer(e) ==
  /\ Open /\ e \in pending
  /\ \/ TakesEffect(e)
     \/ (Throws(e) \/ e.kind = "launch") /\ UNCHANGED <<live, runs>>
  /\ pending' = pending \ {e}
  /\ IF /\ helper[e.launcher] = "waiting"
        /\ e = Current(e.launcher)
     THEN Ends(e.launcher)
     ELSE UNCHANGED helperVars
  /\ UNCHANGED <<queue, daemon, frames, consumed, lives, log, cuts, owed>>

(* A signal while it serves, or the death of the process at any time. *)
Stop ==
  /\ daemon # "down"
  /\ daemon' = "down" /\ Forgotten /\ live' = {} /\ pending' = {} /\ owed' = {}
  /\ Cut
  /\ UNCHANGED <<queue, lives, helperVars, log, runs>>

HelperStep(l) ==
  Run(l) \/ TimesOut(l) \/ TurnedAway(l) \/ LockQueue(l) \/ Enqueue(l) \/ EnqueueFails(l)

DaemonStep ==
  \/ Start \/ LockForDrain \/ SkipDrain \/ HandOver \/ FinishDrain \/ Stop
  \/ \E e \in Event : Answer(e)

Next == DaemonStep \/ \E l \in Launchers : HelperStep(l)

(* A started process is scheduled: a daemon goes on with its drain, and a   *)
(* command with its own steps; IPCDeadline bounds its wait for an answer.   *)
(* Nothing makes the daemon answer, fail or start, or Codex run a command.  *)
Fairness ==
  /\ WF_vars(LockForDrain \/ HandOver \/ FinishDrain)
  /\ \A l \in Launchers :
       WF_vars(TimesOut(l)) /\ WF_vars(LockQueue(l)) /\ WF_vars(Enqueue(l))

Spec == Init /\ [][Next]_vars /\ Fairness

-----------------------------------------------------------------------------
TypeOK ==
  /\ queue \in Seq(Event) /\ frames \in Seq(Event) /\ log \in Seq(Event)
  /\ daemon \in {"down", "starting", "draining", "serving"}
  /\ consumed \in 0..Len(frames) /\ lives \in 0..MaxLives
  /\ live \subseteq Service!LiveSession
  /\ pending \subseteq Event
  /\ helper \in [Launchers -> {"idle", "waiting", "queueing", "locked"}]
  /\ next \in [Launchers -> 1..(Len(Commands) + 1)]
  /\ held \in [Launchers -> Seq(Event)]
  /\ runs \in [Event -> Nat] /\ cuts \in [Event -> Nat] /\ owed \subseteq Event

(* What a command reports as queued is not lost and keeps its place: the    *)
(* file always holds the newest events written to it, in the order they     *)
(* were written, and an older one is gone only after it took effect or      *)
(* after MaxEvents younger ones were written.  Two helpers and the drain    *)
(* rewrite the file from what each read of it before, and any of them may   *)
(* die on the way.                                                          *)
NothingLost ==
  LET gone == Len(log) - Len(queue) IN
  /\ gone >= 0
  /\ \A i \in 1..Len(queue) : queue[i] = log[gone + i]
  /\ \A i \in 1..gone : runs[log[i]] > 0 \/ Len(log) - i >= MaxEvents

(* An event takes effect once, and once more only for each drain that       *)
(* handled it and did not come to rewrite the file: a request that was sent *)
(* is never queued as well, whatever became of its answer.                  *)
ReplayOnlyAfterCut == \A e \in Event : runs[e] <= 1 + cuts[e]

(* Whatever a helper or the drain read of the file before it writes it, and *)
(* wherever one of them dies: the file is the queue of DurableQueue, where  *)
(* the drain takes its events in order and removes those it handled, and no *)
(* helper adds one in between.                                              *)
ImplementsDurableQueue == File!Spec

(* A request that reaches a starting daemon does not overtake what its      *)
(* launcher had queued before: a hook would be refused, because the launch  *)
(* it belongs to is still in the file.  Left out is what the drain gave up, *)
(* behind a refused event or without the lock, and what younger events      *)
(* pushed out of the file.                                                  *)
StartupOrder ==
  [][\A e \in Event : Answer(e) =>
       \A i \in 1..Len(queue) : queue[i].launcher = e.launcher => queue[i] \notin owed]_vars

(* Every helper command ends, also one that waits for the lock while the    *)
(* drain has the service handle event after event: Codex waits for it.      *)
CommandsEnd == \A l \in Launchers : helper[l] # "idle" ~> helper[l] = "idle"
================================================================================
