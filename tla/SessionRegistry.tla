---------------------------- MODULE SessionRegistry ----------------------------
(***************************************************************************)
(* The helper's session registry (SessionRegistry.swift): an actor that    *)
(* keeps the live Codex sessions and three indexes over them, by launcher, *)
(* by terminal and by provider session.  Every method runs to completion   *)
(* on the actor, so each is one action; a call that throws changes nothing *)
(* and is not a step.  A Swift dictionary is a total function whose absent *)
(* keys map to None.                                                       *)
(***************************************************************************)
CONSTANTS Launchers, Terminals, Providers, RemoteIDs, None

VARIABLES sessionsByRemoteID, remoteIDByLauncher, remoteIDByTerminal, remoteIDByProvider

vars == <<sessionsByRemoteID, remoteIDByLauncher, remoteIDByTerminal, remoteIDByProvider>>

States == {"requiresInput", "error", "working", "completeUnread", "idle", "offline"}

Session ==
  [launcher : Launchers, terminal : Terminals, provider : Providers \cup {None},
   state : States, unread : BOOLEAN]

(* The absent value is no identifier and no session. *)
ASSUME NoneAssumption ==
  None \notin Launchers \cup Terminals \cup Providers \cup RemoteIDs \cup Session

(* Without(d, ks): the dictionary d after removeValue(forKey:) of each key  *)
(* in ks; one that is not a key of d changes nothing.                       *)
Without(d, ks) == [x \in DOMAIN d |-> IF x \in ks THEN None ELSE d[x]]

-----------------------------------------------------------------------------
(* SessionStateReducer: the state and the unread mark an event leads to.    *)
Events == {"sessionStarted", "userPromptSubmitted", "permissionRequested",
           "stoppedBlocking", "stoppedNormal", "detailViewed", "failed", "disconnected"}

ReducedState(event, current) ==
  CASE event = "sessionStarted"      -> "idle"
    [] event = "userPromptSubmitted" -> "working"
    [] event \in {"permissionRequested", "stoppedBlocking"} -> "requiresInput"
    [] event = "stoppedNormal"       -> "completeUnread"
    [] event = "detailViewed"        -> IF current = "completeUnread" THEN "idle" ELSE current
    [] event = "failed"              -> "error"
    [] event = "disconnected"        -> "offline"

ReducedUnread(event) == event = "stoppedNormal"

-----------------------------------------------------------------------------
Init ==
  /\ sessionsByRemoteID = [id \in RemoteIDs |-> None]
  /\ remoteIDByLauncher = [l \in Launchers |-> None]
  /\ remoteIDByTerminal = [t \in Terminals |-> None]
  /\ remoteIDByProvider = [p \in Providers |-> None]

(* The session that runs in terminal t, as a set of at most one identifier. *)
DisplacedNone(t) == {}     \* mutant: a launch leaves the old session in place

Displaced(t) ==
  {id \in RemoteIDs : id = remoteIDByTerminal[t] /\ sessionsByRemoteID[id] # None}

NewSession(l, t) ==
  [launcher |-> l, terminal |-> t, provider |-> None, state |-> "idle", unread |-> FALSE]

(* A launch first drops the session its terminal displaces from all four    *)
(* dictionaries.  idGenerator returns a UUID: an identifier that no session *)
(* has, the displaced one included.                                         *)
RegisterLaunch(l, t) ==
  LET KeysDropped(field) == {sessionsByRemoteID[id][field] : id \in Displaced(t)} IN
  /\ remoteIDByLauncher[l] = None
  /\ \E id \in RemoteIDs :
       /\ sessionsByRemoteID[id] = None
       /\ sessionsByRemoteID' =
            [Without(sessionsByRemoteID, Displaced(t)) EXCEPT ![id] = NewSession(l, t)]
       /\ remoteIDByLauncher' =
            [Without(remoteIDByLauncher, KeysDropped("launcher")) EXCEPT ![l] = id]
       /\ remoteIDByTerminal' =
            [Without(remoteIDByTerminal, KeysDropped("terminal")) EXCEPT ![t] = id]
       /\ remoteIDByProvider' = Without(remoteIDByProvider, KeysDropped("provider"))

MayShare(id, p) == sessionsByRemoteID[id].provider = None \* mutant: first check dropped

(* Neither the session nor the provider session is bound yet. *)
MayBind(id, p) ==
  /\ remoteIDByProvider[p] = None
  /\ sessionsByRemoteID[id].provider = None

BindProviderSession(l, p) ==
  LET id == remoteIDByLauncher[l] IN
  /\ id # None
  /\ sessionsByRemoteID[id] # None
  /\ MayBind(id, p)
  /\ sessionsByRemoteID' = [sessionsByRemoteID EXCEPT ![id].provider = p]
  /\ remoteIDByProvider' = [remoteIDByProvider EXCEPT ![p] = id]
  /\ UNCHANGED <<remoteIDByLauncher, remoteIDByTerminal>>

(* The launcher index loses its entry even when the session is missing. *)
UnregisterLaunch(l) ==
  LET id == remoteIDByLauncher[l] IN
  /\ id # None
  /\ remoteIDByLauncher' = Without(remoteIDByLauncher, {l})
  /\ IF sessionsByRemoteID[id] = None
     THEN UNCHANGED <<sessionsByRemoteID, remoteIDByTerminal, remoteIDByProvider>>
     ELSE /\ sessionsByRemoteID' = Without(sessionsByRemoteID, {id})
          /\ remoteIDByTerminal' =
               Without(remoteIDByTerminal, {sessionsByRemoteID[id].terminal})
          /\ remoteIDByProvider' =
               Without(remoteIDByProvider, {sessionsByRemoteID[id].provider})

(* What both apply methods store.  The caller reduced the event from the    *)
(* state it had read before it suspended; of the events that reach Apply    *)
(* none depends on that state, and ApplyIfCurrent checks it again.          *)
SetResult(id, event) ==
  sessionsByRemoteID' =
    [sessionsByRemoteID EXCEPT
       ![id].state  = ReducedState(event, sessionsByRemoteID[id].state),
       ![id].unread = ReducedUnread(event)]

Apply(p, event) ==
  LET id == remoteIDByProvider[p] IN
  /\ id # None
  /\ sessionsByRemoteID[id] # None
  /\ SetResult(id, event)
  /\ UNCHANGED <<remoteIDByLauncher, remoteIDByTerminal, remoteIDByProvider>>

(* apply(_:providerSessionID:ifCurrentState:), called with .completeUnread  *)
(* for a detailViewed event.                                                *)
ApplyIfCurrent(p) ==
  LET id == remoteIDByProvider[p] IN
  /\ id # None
  /\ sessionsByRemoteID[id] # None
  /\ sessionsByRemoteID[id].state = "completeUnread"
  /\ SetResult(id, "detailViewed")
  /\ UNCHANGED <<remoteIDByLauncher, remoteIDByTerminal, remoteIDByProvider>>

(* The events the hooks send; a detailViewed event goes through ApplyIfCurrent. *)
HookEvents == {"sessionStarted", "userPromptSubmitted", "permissionRequested",
               "stoppedBlocking", "stoppedNormal"}

Next ==
  \/ \E l \in Launchers, t \in Terminals : RegisterLaunch(l, t)
  \/ \E l \in Launchers, p \in Providers : BindProviderSession(l, p)
  \/ \E l \in Launchers : UnregisterLaunch(l)
  \/ \E p \in Providers, e \in HookEvents : Apply(p, e)
  \/ \E p \in Providers : ApplyIfCurrent(p)

Spec == Init /\ [][Next]_vars

-----------------------------------------------------------------------------
(* Every dictionary maps its keys to values of the declared Swift type. *)
TypeOK ==
  /\ sessionsByRemoteID \in [RemoteIDs -> Session \cup {None}]
  /\ remoteIDByLauncher \in [Launchers -> RemoteIDs \cup {None}]
  /\ remoteIDByTerminal \in [Terminals -> RemoteIDs \cup {None}]
  /\ remoteIDByProvider \in [Providers -> RemoteIDs \cup {None}]

LiveIDs == {id \in RemoteIDs : sessionsByRemoteID[id] # None}

(* The indexes and the sessions agree in both directions: an index entry    *)
(* leads to a live session that carries that key, and each key of a live    *)
(* session is indexed to it.  A registration that evicted the previous      *)
(* session of its terminal from three of the four dictionaries only, or an  *)
(* unregister that forgot the provider index, would leave a hook, a key or  *)
(* a selection going to a session that is gone.                             *)
IndexesSound ==
  /\ \A l \in Launchers : remoteIDByLauncher[l] # None =>
       /\ remoteIDByLauncher[l] \in LiveIDs
       /\ sessionsByRemoteID[remoteIDByLauncher[l]].launcher = l
  /\ \A t \in Terminals : remoteIDByTerminal[t] # None =>
       /\ remoteIDByTerminal[t] \in LiveIDs
       /\ sessionsByRemoteID[remoteIDByTerminal[t]].terminal = t
  /\ \A p \in Providers : remoteIDByProvider[p] # None =>
       /\ remoteIDByProvider[p] \in LiveIDs
       /\ sessionsByRemoteID[remoteIDByProvider[p]].provider = p

IndexesComplete ==
  \A id \in LiveIDs :
    LET s == sessionsByRemoteID[id] IN
    /\ remoteIDByLauncher[s.launcher] = id
    /\ remoteIDByTerminal[s.terminal] = id
    /\ s.provider # None => remoteIDByProvider[s.provider] = id

RegistryConsistent == IndexesSound /\ IndexesComplete

(* The routing keys of a session never move while it lives: the terminal    *)
(* that keys are typed into and the launcher stay what they were, and a     *)
(* provider, once bound, stays bound.  A session list held across an await  *)
(* may therefore be used for routing as long as the session is still live.  *)
RoutingStable ==
  [][\A id \in LiveIDs \cap LiveIDs' :
       LET before == sessionsByRemoteID[id]
           after  == sessionsByRemoteID'[id]
       IN /\ after.launcher = before.launcher
          /\ after.terminal = before.terminal
          /\ before.provider # None => after.provider = before.provider]_vars

-----------------------------------------------------------------------------
(* The registry implements the directory of live sessions: the set is read  *)
(* off the main dictionary, and every lookup the methods do through an      *)
(* index gives what a search of the set would give.                         *)
DirectoryEntry(id) ==
  [id |-> id,
   launcher |-> sessionsByRemoteID[id].launcher,
   terminal |-> sessionsByRemoteID[id].terminal,
   provider |-> sessionsByRemoteID[id].provider,
   state    |-> sessionsByRemoteID[id].state,
   unread   |-> sessionsByRemoteID[id].unread]

LiveSessions == {DirectoryEntry(id) : id \in LiveIDs}

Directory == INSTANCE SessionDirectory WITH live <- LiveSessions, InitialState <- "idle"

ImplementsDirectory == Directory!Spec
================================================================================
