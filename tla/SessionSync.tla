------------------------------ MODULE SessionSync ------------------------------
(***************************************************************************)
(* The device's copy of the session list: DeviceSyncReducer as             *)
(* MacClientCoordinator drives it, the link with its packets, and          *)
(* device_state.c behind the fragment reassembler.                         *)
(*                                                                         *)
(* A list of sessions is a function from remote session ids to what the    *)
(* device shows of them.  Content in Oversize is longer than the codec     *)
(* allows: the encoder throws and what was to be sent is not.              *)
(***************************************************************************)
EXTENDS Naturals, Sequences, FiniteSets

CONSTANTS Ids,            \* remote session ids
          Contents,       \* what the device shows of a session
          Oversize,       \* the contents the codec refuses
          NoCall,         \* no call in flight
          Capacity,       \* CR_MAX_SESSIONS, and the limit of activeSessions
          MaxKey,         \* UInt16.max: the addition after it traps
          MaxGeneration,  \* bounds of the exploration
          MaxSequence, MaxWire, MaxInfos, MaxChanges, MaxDrops

ASSUME SyncAssumption ==
  /\ Oversize \subseteq Contents
  /\ Capacity \in Nat \ {0} /\ MaxKey \in Nat \ {0}
  /\ MaxGeneration \in Nat \ {0} /\ MaxSequence \in Nat /\ MaxWire \in Nat \ {0}
  /\ MaxInfos \in Nat \ {0} /\ MaxChanges \in Nat /\ MaxDrops \in Nat
  /\ IsFiniteSet(Ids) /\ NoCall \notin UNION {[ids -> Contents] : ids \in SUBSET Ids}

VARIABLES
  live,                   \* the registry's active sessions
  projectedByRemoteID, sessionKeyByRemoteID, nextSessionKey,
  ready, generation, lastDeltaSequence,           \* connectionState
  info_call, refresh_call, \* awaits of activeSessions, with what they were given
  link, infos, wire,       \* device infos and packets under way
  reassembly,              \* the device's reassembler of the state channel
  has_snapshot, dev_generation, next_delta_sequence, sessions,
  unsent,                  \* history: kinds not sent since the channels or a snapshot were
  refused,                 \* history: a packet was refused on this connection
  changes, drops           \* how often the registry changed, the link or the app went down

reducer == <<projectedByRemoteID, sessionKeyByRemoteID, nextSessionKey, ready, generation,
             lastDeltaSequence>>
calls   == <<info_call, refresh_call>>
device  == <<has_snapshot, dev_generation, next_delta_sequence, sessions>>
vars    == <<live, reducer, calls, link, infos, wire, reassembly, device, unsent, refused,
             changes, drops>>

Lists == {l \in UNION {[ids -> Contents] : ids \in SUBSET Ids} : Cardinality(DOMAIN l) <= Capacity}

Empty == <<>>                   \* the function with no argument: no session

(* What the device is told of the sessions of a list, with keys for them. *)
Told(list, keys) ==
  {[key |-> keys[id], id |-> id, content |-> list[id]] : id \in DOMAIN list}

Init ==
  /\ live = Empty
  /\ projectedByRemoteID = Empty
  /\ sessionKeyByRemoteID = Empty /\ nextSessionKey = 1
  /\ ready = FALSE /\ generation = 0 /\ lastDeltaSequence = 0
  /\ info_call = NoCall /\ refresh_call = NoCall
  /\ link = "down" /\ infos = 0 /\ wire = <<>> /\ reassembly = "idle"
  /\ has_snapshot = FALSE /\ dev_generation = 0 /\ next_delta_sequence = 0 /\ sessions = {}
  /\ unsent = {} /\ refused = FALSE /\ changes = 0 /\ drops = 0

-----------------------------------------------------------------------------
(* Messages.  A snapshot with sessions takes several packets, two stand for *)
(* them; what is shorter takes one.                                         *)
Snapshot(g, list, keys) == [type |-> "SNAPSHOT", generation |-> g, sequence |-> 0,
                            sessions |-> Told(list, keys)]

Delta(g, s, session) == [type |-> "DELTA", generation |-> g, sequence |-> s,
                         sessions |-> {session}]

Encodable(message) == \A s \in message.sessions : s.content \notin Oversize

Packet(message, index, count) == [message |-> message, index |-> index, count |-> count]

Packets(message) ==
  IF message.type = "SNAPSHOT" /\ message.sessions # {}
  THEN <<Packet(message, 1, 2), Packet(message, 2, 2)>>
  ELSE <<Packet(message, 1, 1)>>

(* MacClientCoordinator.send of one message: the encoder or the transport may *)
(* throw, and the rest of what was to be sent is given up.                    *)
SendSnapshot(message, kind) ==
  IF link = "ready" /\ Encodable(message)
  THEN /\ Len(wire) < MaxWire
       /\ wire' = wire \o Packets(message)
       /\ unsent' = {}
  ELSE /\ unsent' = unsent \union {kind}
       /\ UNCHANGED wire

(* The deltas of one update, in the order of the list. *)
SendDeltas(deltas) ==
  LET sent == IF link = "ready"
              THEN {i \in DOMAIN deltas : \A j \in 1..i : Encodable(deltas[j])}
              ELSE {}
  IN /\ Len(wire) + Cardinality(sent) <= MaxWire
     /\ wire' = wire \o [i \in 1..Cardinality(sent) |-> Packet(deltas[i], 1, 1)]
     /\ unsent' = IF sent = DOMAIN deltas THEN unsent ELSE unsent \union {"update"}

-----------------------------------------------------------------------------
(* DeviceSyncReducer *)
ProjectReusing(list) ==     \* mutant: the key of a session that is gone is given again
  LET kept == DOMAIN sessionKeyByRemoteID \intersect DOMAIN list
      new  == DOMAIN list \ kept
      free == (1..MaxKey) \ {sessionKeyByRemoteID[id] : id \in kept}
  IN \E given \in [new -> free] :
       /\ \A i, j \in new : given[i] = given[j] => i = j
       /\ sessionKeyByRemoteID' =
            [id \in DOMAIN list |-> IF id \in kept THEN sessionKeyByRemoteID[id] ELSE given[id]]
       /\ nextSessionKey' = nextSessionKey

(* project: sessions that stay keep their key, new ones get the next, in the *)
(* order of the list.                                                        *)
Project(list) ==
  LET kept == DOMAIN sessionKeyByRemoteID \intersect DOMAIN list
      new  == DOMAIN list \ kept
      next == nextSessionKey + Cardinality(new)
  IN /\ next <= MaxKey
     /\ \E given \in [new -> nextSessionKey..(next - 1)] :
          /\ \A i, j \in new : given[i] = given[j] => i = j
          /\ sessionKeyByRemoteID' =
               [id \in DOMAIN list |->
                  IF id \in kept THEN sessionKeyByRemoteID[id] ELSE given[id]]
     /\ nextSessionKey' = next

ConnectUnlessReady(list) ==  \* mutant: a connection that looks ready gets no snapshot
  /\ Project(list)
  /\ projectedByRemoteID' = list
  /\ IF ready
     THEN UNCHANGED <<ready, generation, lastDeltaSequence, wire, unsent>>
     ELSE /\ ready' = TRUE /\ generation' = 1 /\ lastDeltaSequence' = 0
          /\ SendSnapshot(Snapshot(1, list, sessionKeyByRemoteID'), "connect")

(* updateSessions, its messages discarded, and connect. *)
Connect(list) ==
  /\ Project(list)
  /\ projectedByRemoteID' = list
  /\ ready' = TRUE /\ generation' = 1 /\ lastDeltaSequence' = 0
  /\ SendSnapshot(Snapshot(1, list, sessionKeyByRemoteID'), "connect")

(* updateSessions with other members: a snapshot of the next generation. *)
UpdateMembers(list) ==
  /\ ready /\ DOMAIN list # DOMAIN projectedByRemoteID
  /\ generation < MaxGeneration
  /\ Project(list)
  /\ projectedByRemoteID' = list
  /\ generation' = generation + 1 /\ lastDeltaSequence' = 0
  /\ SendSnapshot(Snapshot(generation + 1, list, sessionKeyByRemoteID'), "update")
  /\ UNCHANGED ready

UpdateFieldsAsSent(list) ==   \* mutant: only a delta that was sent is counted
  /\ ready /\ DOMAIN list = DOMAIN projectedByRemoteID
  /\ LET changed == {id \in DOMAIN list : list[id] # projectedByRemoteID[id]}
     IN /\ lastDeltaSequence + Cardinality(changed) <= MaxSequence
        /\ \E order \in [1..Cardinality(changed) -> changed] :
             /\ {order[i] : i \in DOMAIN order} = changed
             /\ SendDeltas([i \in DOMAIN order |->
                  Delta(generation, lastDeltaSequence + i,
                        [key |-> sessionKeyByRemoteID[order[i]], id |-> order[i],
                         content |-> list[order[i]]])])
        /\ lastDeltaSequence' = lastDeltaSequence + (Len(wire') - Len(wire))
  /\ projectedByRemoteID' = list
  /\ UNCHANGED <<sessionKeyByRemoteID, nextSessionKey, ready, generation>>

(* updateSessions with the same members: a delta for each that changed.  What *)
(* is sent counts as sent even if send then throws.                           *)
UpdateFields(list) ==
  /\ ready /\ DOMAIN list = DOMAIN projectedByRemoteID
  /\ LET changed == {id \in DOMAIN list : list[id] # projectedByRemoteID[id]}
     IN /\ lastDeltaSequence + Cardinality(changed) <= MaxSequence
        /\ \E order \in [1..Cardinality(changed) -> changed] :
             /\ {order[i] : i \in DOMAIN order} = changed
             /\ SendDeltas([i \in DOMAIN order |->
                  Delta(generation, lastDeltaSequence + i,
                        [key |-> sessionKeyByRemoteID[order[i]], id |-> order[i],
                         content |-> list[order[i]]])])
        /\ lastDeltaSequence' = lastDeltaSequence + Cardinality(changed)
  /\ projectedByRemoteID' = list
  /\ UNCHANGED <<sessionKeyByRemoteID, nextSessionKey, ready, generation>>

(* Without a connection the reducer only notes the list: connect comes with a *)
(* list of its own, and while connected the list is the projected one.        *)
UpdateUnconnected ==
  /\ ~ready
  /\ UNCHANGED <<reducer, wire, unsent>>

(* disconnect, as resetConnection calls it. *)
DisconnectReducer ==
  /\ ready' = FALSE /\ generation' = 0 /\ lastDeltaSequence' = 0
  /\ projectedByRemoteID' = Empty
  /\ UNCHANGED <<sessionKeyByRemoteID, nextSessionKey>>

-----------------------------------------------------------------------------
(* MacClientCoordinator.  Its two handlers suspend while the registry is asked *)
(* and go on with the answer whatever happened meanwhile; one of each is in    *)
(* flight.  A third, for RESYNC_REQUIRED, has nothing to answer: the firmware  *)
(* never sends it.                                                             *)
InfoArrives ==
  /\ infos > 0 /\ info_call = NoCall
  /\ infos' = infos - 1
  /\ info_call' = live
  /\ UNCHANGED <<live, reducer, refresh_call, link, wire, reassembly, device, unsent, refused,
                 changes, drops>>

FinishInfo ==
  /\ info_call # NoCall
  /\ Connect(info_call)
  /\ info_call' = NoCall
  /\ UNCHANGED <<live, refresh_call, link, infos, reassembly, device, refused, changes, drops>>

RefreshSessions ==
  /\ refresh_call = NoCall
  /\ refresh_call' = live
  /\ UNCHANGED <<live, reducer, info_call, link, infos, wire, reassembly, device, unsent,
                 refused, changes, drops>>

FinishRefresh ==
  /\ refresh_call # NoCall
  /\ \/ UpdateMembers(refresh_call)
     \/ UpdateFields(refresh_call)
     \/ UpdateUnconnected
  /\ refresh_call' = NoCall
  /\ UNCHANGED <<live, info_call, link, infos, reassembly, device, refused, changes, drops>>

-----------------------------------------------------------------------------
(* The link.  CoreBluetoothTransport is ready once the three channels have *)
(* confirmed; the device announces itself earlier, at the subscription to  *)
(* its info, and again when its battery changes.                           *)
LinkUp ==
  /\ link = "down"
  /\ link' = "open"
  /\ UNCHANGED <<live, reducer, calls, infos, wire, reassembly, device, unsent, refused,
                 changes, drops>>

Announce ==
  /\ link # "down" /\ infos < MaxInfos
  /\ infos' = infos + 1
  /\ UNCHANGED <<live, reducer, calls, link, wire, reassembly, device, unsent, refused,
                 changes, drops>>

(* The Mac reads the device's info as soon as the channels are ready. *)
ChannelsReady ==
  /\ link = "open" /\ infos < MaxInfos
  /\ link' = "ready"
  /\ infos' = infos + 1
  /\ unsent' = {}
  /\ UNCHANGED <<live, reducer, calls, wire, reassembly, device, refused, changes, drops>>

(* cr_device_state_disconnect, in BLE_GAP_EVENT_DISCONNECT.  The reassembler *)
(* keeps what it has.                                                        *)
DeviceForgets ==
  /\ has_snapshot' = FALSE /\ dev_generation' = 0 /\ next_delta_sequence' = 0
  /\ sessions' = {}
  /\ reassembly' = IF reassembly = "idle" THEN "idle" ELSE "stale"

LinkDown ==
  /\ link # "down" /\ drops < MaxDrops
  /\ link' = "down"
  /\ infos' = 0 /\ wire' = <<>> /\ unsent' = {} /\ refused' = FALSE
  /\ DisconnectReducer
  /\ DeviceForgets
  /\ drops' = drops + 1
  /\ UNCHANGED <<live, calls, changes>>

(* The app quits and starts again: every key starts from one. *)
RestartApp ==
  /\ drops < MaxDrops
  /\ projectedByRemoteID' = Empty
  /\ sessionKeyByRemoteID' = Empty /\ nextSessionKey' = 1
  /\ ready' = FALSE /\ generation' = 0 /\ lastDeltaSequence' = 0
  /\ info_call' = NoCall /\ refresh_call' = NoCall
  /\ link' = "down" /\ infos' = 0 /\ wire' = <<>> /\ unsent' = {} /\ refused' = FALSE
  /\ live' = Empty
  /\ DeviceForgets
  /\ drops' = drops + 1
  /\ UNCHANGED changes

(* The registry: sessions come, go and change, any number before they are read. *)
RegistryChanges ==
  /\ changes < MaxChanges
  /\ live' \in Lists \ {live}
  /\ changes' = changes + 1
  /\ UNCHANGED <<reducer, calls, link, infos, wire, reassembly, device, unsent, refused, drops>>

-----------------------------------------------------------------------------
(* device_state.c *)
ApplySnapshotOver(message) ==  \* mutant: what was in the array before stays
  /\ message.type = "SNAPSHOT"
  /\ has_snapshot' = TRUE /\ dev_generation' = message.generation
  /\ next_delta_sequence' = 1 /\ sessions' = sessions \union message.sessions

ApplySnapshot(message) ==
  /\ message.type = "SNAPSHOT"
  /\ has_snapshot' = TRUE /\ dev_generation' = message.generation
  /\ next_delta_sequence' = 1 /\ sessions' = message.sessions

InvalidateSnapshot ==
  /\ has_snapshot' = FALSE /\ dev_generation' = 0 /\ next_delta_sequence' = 0
  /\ sessions' = {}

InSequence(message) ==
  /\ message.generation = dev_generation
  /\ message.sequence = next_delta_sequence

WithSession(message) ==
  LET session == CHOOSE s \in message.sessions : TRUE
  IN {s \in sessions : s.key # session.key} \union {session}

(* A delta out of order empties the list, and nobody is told; one that would *)
(* not fit is dropped.                                                       *)
ApplyDelta(message) ==
  /\ message.type = "DELTA"
  /\ IF ~has_snapshot THEN UNCHANGED device
     ELSE IF ~InSequence(message) THEN InvalidateSnapshot
     ELSE IF Cardinality(WithSession(message)) > Capacity THEN UNCHANGED device
     ELSE /\ sessions' = WithSession(message)
          /\ next_delta_sequence' = next_delta_sequence + 1
          /\ UNCHANGED <<has_snapshot, dev_generation>>

-----------------------------------------------------------------------------
(* cr_fragment_reassembler_accept.  A message begun on an earlier connection *)
(* is "stale": its number is none that is sent now.                          *)
Expected(packet) == packet.index = (IF reassembly = "partial" THEN 2 ELSE 1)

Receive ==
  /\ wire # <<>>
  /\ wire' = Tail(wire)
  /\ UNCHANGED <<live, reducer, calls, link, infos, unsent, changes, drops>>

RefusePacket ==
  /\ Receive
  /\ reassembly = "stale" \/ ~Expected(Head(wire))
  /\ reassembly' = "idle"
  /\ refused' = TRUE
  /\ UNCHANGED device

StorePacket ==
  /\ Receive
  /\ reassembly # "stale" /\ Expected(Head(wire))
  /\ Head(wire).index < Head(wire).count
  /\ reassembly' = "partial"
  /\ UNCHANGED <<device, refused>>

CompleteMessage ==
  /\ Receive
  /\ reassembly # "stale" /\ Expected(Head(wire))
  /\ Head(wire).index = Head(wire).count
  /\ reassembly' = "idle"
  /\ ApplySnapshot(Head(wire).message) \/ ApplyDelta(Head(wire).message)
  /\ UNCHANGED refused

-----------------------------------------------------------------------------
HostStep == InfoArrives \/ FinishInfo \/ RefreshSessions \/ FinishRefresh
LinkStep == LinkUp \/ Announce \/ ChannelsReady \/ LinkDown
DeviceStep == RefusePacket \/ StorePacket \/ CompleteMessage

Next == HostStep \/ LinkStep \/ DeviceStep \/ RegistryChanges \/ RestartApp

Spec == Init /\ [][Next]_vars

-----------------------------------------------------------------------------
KeyedSessions == [key : 1..MaxKey, id : Ids, content : Contents]

(* Types; the device's array has room for Capacity sessions. *)
TypeOK ==
  /\ live \in Lists /\ projectedByRemoteID \in Lists
  /\ sessionKeyByRemoteID \in UNION {[ids -> 1..MaxKey] : ids \in SUBSET Ids}
  /\ nextSessionKey \in 1..MaxKey
  /\ ready \in BOOLEAN
  /\ generation \in 0..MaxGeneration /\ lastDeltaSequence \in 0..MaxSequence
  /\ info_call \in Lists \union {NoCall} /\ refresh_call \in Lists \union {NoCall}
  /\ link \in {"down", "open", "ready"} /\ infos \in 0..MaxInfos
  /\ \A i \in DOMAIN wire : wire[i].message.sessions \subseteq KeyedSessions
  /\ reassembly \in {"idle", "partial", "stale"}
  /\ has_snapshot \in BOOLEAN /\ dev_generation \in 0..MaxGeneration
  /\ next_delta_sequence \in 0..(MaxSequence + 1)
  /\ sessions \subseteq KeyedSessions /\ Cardinality(sessions) <= Capacity
  /\ unsent \subseteq {"connect", "update"} /\ refused \in BOOLEAN
  /\ changes \in 0..MaxChanges /\ drops \in 0..MaxDrops

(* A key on the device or on its way never names another session on the Mac, *)
(* whatever sessions went and came and whichever side restarted: a tap on a  *)
(* card selects that session or none.                                        *)
Keyed == sessions \union UNION {wire[i].message.sessions : i \in DOMAIN wire}

KeysIdentify ==
  \A s \in Keyed : \A id \in DOMAIN sessionKeyByRemoteID :
    sessionKeyByRemoteID[id] = s.key => id = s.id

(* A device whose generation and delta count are the Mac's shows the Mac's    *)
(* list, whatever updates could not be sent; but for a snapshot of connect    *)
(* that could not, whose generation is one again.                             *)
CountedListIsCurrent ==
  /\ ready /\ has_snapshot /\ wire = <<>>
  /\ dev_generation = generation /\ next_delta_sequence = lastDeltaSequence + 1
  /\ "connect" \notin unsent
  => sessions = Told(projectedByRemoteID, sessionKeyByRemoteID)

(* Design 2026-08-05, data flow 4 and 5: the Mac sends a complete snapshot in *)
(* answer to the device's info, and the device applies it and sets            *)
(* has_snapshot: once nothing is under way, it has it.                        *)
SnapshotTakesEffect ==
  ready /\ link = "ready" /\ infos = 0 /\ info_call = NoCall /\ wire = <<>> /\ unsent = {}
  => has_snapshot

(* It is so unless a packet of this connection was refused.                    *)
UnrefusedTakesEffect == SnapshotTakesEffect \/ refused

(* All that was to be sent was sent, and has come through. *)
Settled ==
  /\ ready /\ link = "ready" /\ infos = 0 /\ info_call = NoCall /\ wire = <<>>
  /\ unsent = {} /\ ~refused

(* Then the device shows what the Mac last projected, whatever deltas came   *)
(* after the snapshot and whatever snapshots in between: no delta is taken   *)
(* for one out of order, and none is dropped.                                *)
SettledListIsCurrent ==
  Settled => has_snapshot /\ sessions = Told(projectedByRemoteID, sessionKeyByRemoteID)
=============================================================================
