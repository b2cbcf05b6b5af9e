--------------------------- MODULE SessionSync_proofs ---------------------------
(***************************************************************************)
(* Proved of SessionSync for any sessions and contents, any capacity and   *)
(* any bounds: a session key names one session, the types, and what the    *)
(* device shows in the end: the list the Mac counts.                       *)
(***************************************************************************)
EXTENDS SessionSync, FunctionTheorems, FiniteSetTheorems, TLAPS

(* What is on the device or on its way, and its packets. *)
Shown == [key : Nat \ {0}, id : Ids, content : Contents]

Message == {m \in [type : {"SNAPSHOT", "DELTA"}, generation : Nat, sequence : Nat,
                   sessions : SUBSET Shown] : m.type = "DELTA" => m.sessions # {}}

PacketType == [message : Message, index : Nat, count : Nat]

KeyMaps == UNION {[ids -> Nat \ {0}] : ids \in SUBSET Ids}

Types ==
  /\ live \in Lists /\ projectedByRemoteID \in Lists
  /\ info_call \in Lists \union {NoCall} /\ refresh_call \in Lists \union {NoCall}
  /\ sessionKeyByRemoteID \in KeyMaps
  /\ nextSessionKey \in Nat \ {0} /\ generation \in Nat /\ lastDeltaSequence \in Nat
  /\ wire \in Seq(PacketType)
  /\ sessions \in SUBSET Shown

(* While ready, the sessions that have a key are those the Mac projected. *)
ReadyKeys == ready => DOMAIN sessionKeyByRemoteID = DOMAIN projectedByRemoteID

(* The keys given are below the next one, and no two sessions share one. *)
KeysGiven(keys, next) ==
  /\ \A id \in DOMAIN keys : keys[id] < next
  /\ \A i, j \in DOMAIN keys : keys[i] = keys[j] => i = j

(* A key that was told is below the next one, so none that is yet to be given, *)
(* and names no other session.                                                 *)
Fine(s, keys, next) ==
  /\ s.key < next
  /\ \A id \in DOMAIN keys : keys[id] = s.key => id = s.id

AllFine(list, keys, next) == \A s \in list : Fine(s, keys, next)

WireFine(packets, keys, next) ==
  \A i \in DOMAIN packets : AllFine(packets[i].message.sessions, keys, next)

KInv ==
  /\ Types
  /\ ReadyKeys
  /\ KeysGiven(sessionKeyByRemoteID, nextSessionKey)
  /\ AllFine(sessions, sessionKeyByRemoteID, nextSessionKey)
  /\ WireFine(wire, sessionKeyByRemoteID, nextSessionKey)

-----------------------------------------------------------------------------
(* Lists and what they are told as. *)
LEMMA ListFacts ==
  ASSUME NEW list \in Lists
  PROVE  /\ DOMAIN list \in SUBSET Ids
         /\ \A id \in DOMAIN list : list[id] \in Contents
         /\ IsFiniteSet(DOMAIN list)
<1>1. PICK ids \in SUBSET Ids : list \in [ids -> Contents]
  BY DEF Lists
<1>2. IsFiniteSet(ids)
  BY <1>1, SyncAssumption, FS_Subset DEF SyncAssumption
<1> QED  BY <1>1, <1>2

LEMMA EmptyList == Empty \in Lists /\ Empty \in KeyMaps /\ DOMAIN Empty = {}
<1>1. DOMAIN Empty = {}
  BY DEF Empty
<1>2. Empty \in [{} -> Contents] /\ Empty \in [{} -> Nat \ {0}]
  BY <1>1 DEF Empty
<1>3. Cardinality(DOMAIN Empty) <= Capacity
  BY <1>1, FS_EmptySet, SyncAssumption DEF SyncAssumption
<1> QED  BY <1>1, <1>2, <1>3 DEF Lists, KeyMaps

LEMMA KeyMapFacts ==
  ASSUME NEW keys \in KeyMaps
  PROVE  /\ DOMAIN keys \in SUBSET Ids
         /\ \A id \in DOMAIN keys : keys[id] \in Nat \ {0}
BY DEF KeyMaps

(* What is told of a list under a key map is fine under it. *)
LEMMA ToldFine ==
  ASSUME NEW list \in Lists, NEW keys \in KeyMaps, NEW next \in Nat,
         DOMAIN list = DOMAIN keys, KeysGiven(keys, next)
  PROVE  Told(list, keys) \in SUBSET Shown /\ AllFine(Told(list, keys), keys, next)
<1> SUFFICES ASSUME NEW s \in Told(list, keys)
             PROVE  s \in Shown /\ Fine(s, keys, next)
  BY DEF AllFine
<1>1. PICK id \in DOMAIN list : s = [key |-> keys[id], id |-> id, content |-> list[id]]
  BY DEF Told
<1>2. s.key = keys[id] /\ s.id = id
  BY <1>1
<1>3. s \in Shown
  BY <1>1, ListFacts, KeyMapFacts DEF Shown
<1> QED  BY <1>2, <1>3 DEF Fine, KeysGiven

LEMMA PacketSessions ==
  ASSUME NEW p \in PacketType
  PROVE  p.message.sessions \in SUBSET Shown
BY DEF PacketType, Message

LEMMA WireSessions ==
  ASSUME wire \in Seq(PacketType)
  PROVE  \A i \in DOMAIN wire : wire[i].message.sessions \in SUBSET Shown
<1> SUFFICES ASSUME NEW i \in DOMAIN wire
             PROVE  wire[i].message.sessions \in SUBSET Shown
  OBVIOUS
<1>1. wire[i] \in PacketType
  OBVIOUS
<1> QED  BY <1>1, PacketSessions

-----------------------------------------------------------------------------
(* project gives new sessions keys that were never given, and keeps the rest. *)
LEMMA ProjectStep ==
  ASSUME KInv, NEW list \in Lists, Project(list)
  PROVE  /\ sessionKeyByRemoteID' \in KeyMaps
         /\ nextSessionKey' \in Nat \ {0}
         /\ DOMAIN sessionKeyByRemoteID' = DOMAIN list
         /\ KeysGiven(sessionKeyByRemoteID', nextSessionKey')
         /\ AllFine(sessions, sessionKeyByRemoteID', nextSessionKey')
         /\ WireFine(wire, sessionKeyByRemoteID', nextSessionKey')
<1> DEFINE kept == DOMAIN sessionKeyByRemoteID \intersect DOMAIN list
           new  == DOMAIN list \ kept
           next == nextSessionKey + Cardinality(new)
<1>1. nextSessionKey \in Nat \ {0} /\ Cardinality(new) \in Nat
  BY ListFacts, FS_Subset, FS_CardinalityType DEF KInv, Types
<1>2. next \in Nat \ {0} /\ nextSessionKey <= next
  BY <1>1
<1>3. nextSessionKey' = next
  BY DEF Project
<1>4. PICK given \in [new -> nextSessionKey..(next - 1)] :
        /\ \A i, j \in new : given[i] = given[j] => i = j
        /\ sessionKeyByRemoteID' = [id \in DOMAIN list |->
             IF id \in kept THEN sessionKeyByRemoteID[id] ELSE given[id]]
  BY DEF Project
<1> DEFINE keys == sessionKeyByRemoteID'
<1>5. DOMAIN keys = DOMAIN list
  BY <1>4
<1>0. KeysGiven(sessionKeyByRemoteID, nextSessionKey)
  BY DEF KInv
<1>6. ASSUME NEW id \in DOMAIN keys
      PROVE  \/ id \in DOMAIN sessionKeyByRemoteID /\ keys[id] = sessionKeyByRemoteID[id]
                /\ keys[id] \in Nat /\ keys[id] < nextSessionKey
             \/ id \in new /\ keys[id] = given[id]
                /\ keys[id] \in Nat /\ keys[id] >= nextSessionKey /\ keys[id] < next
  <2>1. CASE id \in kept
    BY <1>4, <1>6, <2>1, KeyMapFacts DEF KInv, Types, KeysGiven
  <2>2. CASE id \notin kept
    <3>1. id \in new /\ keys[id] = given[id]
      BY <1>4, <1>5, <1>6, <2>2
    <3>2. given[id] \in nextSessionKey..(next - 1)
      BY <1>4, <3>1
    <3> QED  BY <1>1, <1>2, <3>1, <3>2
  <2> QED  BY <2>1, <2>2
<1>7. keys \in KeyMaps
  <2>1. keys \in [DOMAIN list -> Nat \ {0}]
    <3>1. ASSUME NEW id \in DOMAIN keys PROVE keys[id] \in Nat \ {0}
      <4>1. keys[id] \in Nat
            /\ \/ id \in DOMAIN sessionKeyByRemoteID /\ keys[id] = sessionKeyByRemoteID[id]
               \/ keys[id] >= nextSessionKey
        BY <1>6, <3>1
      <4>2. id \in DOMAIN sessionKeyByRemoteID => sessionKeyByRemoteID[id] \in Nat \ {0}
        BY KeyMapFacts DEF KInv, Types
      <4> QED  BY <1>1, <4>1, <4>2
    <3> QED  BY <1>4, <1>5, <3>1
  <2> QED  BY <2>1, ListFacts DEF KeyMaps
<1>8. KeysGiven(keys, next)
  <2> HIDE DEF keys, next, new
  <2>1. \A id \in DOMAIN keys : keys[id] < next
    BY <1>1, <1>2, <1>6
  <2>2. ASSUME NEW i \in DOMAIN keys, NEW j \in DOMAIN keys, keys[i] = keys[j]
        PROVE  i = j
    <3>1. CASE i \in DOMAIN sessionKeyByRemoteID /\ keys[i] = sessionKeyByRemoteID[i]
               /\ keys[i] \in Nat /\ keys[i] < nextSessionKey
      <4>1. keys[j] < nextSessionKey
        BY <2>2, <3>1
      <4>2. j \in DOMAIN sessionKeyByRemoteID /\ keys[j] = sessionKeyByRemoteID[j]
        BY <1>1, <1>6, <4>1
      <4>3. sessionKeyByRemoteID[i] = sessionKeyByRemoteID[j]
        BY <2>2, <3>1, <4>2
      <4> QED  BY <1>0, <3>1, <4>2, <4>3 DEF KeysGiven
    <3>2. CASE i \in new /\ keys[i] = given[i]
               /\ keys[i] \in Nat /\ keys[i] >= nextSessionKey /\ keys[i] < next
      <4>1. keys[j] >= nextSessionKey
        BY <2>2, <3>2
      <4>2. j \in new /\ keys[j] = given[j]
        BY <1>1, <1>6, <4>1
      <4>3. given[i] = given[j]
        BY <2>2, <3>2, <4>2
      <4> QED  BY <1>4, <3>2, <4>2, <4>3
    <3> QED  BY <1>6, <2>2, <3>1, <3>2
  <2> QED  BY <2>1, <2>2 DEF KeysGiven
<1>9. ASSUME NEW s \in Shown, Fine(s, sessionKeyByRemoteID, nextSessionKey)
      PROVE  Fine(s, keys, next)
  <2>1. s.key \in Nat /\ s.key < nextSessionKey
    BY <1>9 DEF Shown, Fine
  <2>2. s.key < next
    BY <1>1, <1>2, <2>1
  <2> HIDE DEF keys, next, new
  <2>3. ASSUME NEW id \in DOMAIN keys, keys[id] = s.key
        PROVE  id = s.id
    BY <1>1, <1>6, <1>9, <2>1, <2>3 DEF Fine
  <2> QED  BY <2>2, <2>3 DEF Fine
<1>10. AllFine(sessions, keys, next)
  BY <1>9 DEF KInv, Types, AllFine
<1>11. WireFine(wire, keys, next)
  <2>1. \A i \in DOMAIN wire : wire[i].message.sessions \in SUBSET Shown
    BY WireSessions DEF KInv, Types
  <2> QED  BY <1>9, <2>1 DEF KInv, WireFine, AllFine
<1> QED  BY <1>2, <1>3, <1>5, <1>7, <1>8, <1>10, <1>11

-----------------------------------------------------------------------------
(* What is sent of fine messages is fine. *)
LEMMA AppendFine ==
  ASSUME NEW v \in Seq(PacketType), NEW w \in Seq(PacketType), NEW keys, NEW next,
         WireFine(v, keys, next), WireFine(w, keys, next)
  PROVE  v \o w \in Seq(PacketType) /\ WireFine(v \o w, keys, next)
<1>1. v \o w \in Seq(PacketType)
  OBVIOUS
<1>2. ASSUME NEW i \in DOMAIN (v \o w)
      PROVE  AllFine((v \o w)[i].message.sessions, keys, next)
  <2>1. i \in 1..(Len(v) + Len(w)) /\ Len(v) \in Nat /\ Len(w) \in Nat
    BY <1>2
  <2>2. CASE i <= Len(v)
    <3>1. i \in DOMAIN v /\ (v \o w)[i] = v[i]
      BY <2>1, <2>2
    <3> QED  BY <3>1 DEF WireFine
  <2>3. CASE i > Len(v)
    <3>1. i - Len(v) \in DOMAIN w /\ (v \o w)[i] = w[i - Len(v)]
      BY <2>1, <2>3
    <3> QED  BY <3>1 DEF WireFine
  <2> QED  BY <2>1, <2>2, <2>3
<1> QED  BY <1>1, <1>2 DEF WireFine

LEMMA PacketsFine ==
  ASSUME NEW m \in Message, NEW keys, NEW next, AllFine(m.sessions, keys, next)
  PROVE  Packets(m) \in Seq(PacketType) /\ WireFine(Packets(m), keys, next)
<1>1. \A index, count \in Nat : /\ Packet(m, index, count) \in PacketType
                                /\ Packet(m, index, count).message = m
  BY DEF Packet, PacketType
<1>2. CASE m.type = "SNAPSHOT" /\ m.sessions # {}
  <2>1. Packets(m) = <<Packet(m, 1, 2), Packet(m, 2, 2)>>
    BY <1>2 DEF Packets
  <2> QED  BY <1>1, <2>1 DEF WireFine
<1>3. CASE ~(m.type = "SNAPSHOT" /\ m.sessions # {})
  <2>1. Packets(m) = <<Packet(m, 1, 1)>>
    BY <1>3 DEF Packets
  <2> QED  BY <1>1, <2>1 DEF WireFine
<1> QED  BY <1>2, <1>3

LEMMA SnapshotSent ==
  ASSUME wire \in Seq(PacketType), NEW m \in Message, NEW kind, NEW keys, NEW next,
         WireFine(wire, keys, next), AllFine(m.sessions, keys, next), SendSnapshot(m, kind)
  PROVE  wire' \in Seq(PacketType) /\ WireFine(wire', keys, next)
<1>1. CASE wire' = wire \o Packets(m)
  BY <1>1, PacketsFine, AppendFine
<1>2. CASE wire' = wire
  BY <1>2
<1> QED  BY <1>1, <1>2 DEF SendSnapshot

LEMMA DeltasSent ==
  ASSUME wire \in Seq(PacketType), NEW n \in Nat, NEW deltas, NEW keys, NEW next,
         DOMAIN deltas = 1..n,
         \A i \in 1..n : deltas[i] \in Message /\ AllFine(deltas[i].sessions, keys, next),
         WireFine(wire, keys, next), SendDeltas(deltas)
  PROVE  wire' \in Seq(PacketType) /\ WireFine(wire', keys, next)
<1>1. PICK sent \in SUBSET (1..n) :
        wire' = wire \o [i \in 1..Cardinality(sent) |-> Packet(deltas[i], 1, 1)]
  BY DEF SendDeltas
<1>2. Cardinality(sent) \in Nat /\ Cardinality(sent) <= n
  <2>1. IsFiniteSet(1..n) /\ Cardinality(1..n) = n
    <3>1. 1 \in Int /\ n \in Int
      OBVIOUS
    <3>2. /\ IsFiniteSet(1..n)
          /\ Cardinality(1..n) = IF 1 > n THEN 0 ELSE n - 1 + 1
      BY <3>1, FS_Interval
    <3> QED  BY <3>2
  <2>2. IsFiniteSet(sent) /\ Cardinality(sent) <= Cardinality(1..n)
    BY <2>1, FS_Subset
  <2>3. Cardinality(sent) \in Nat
    BY <2>2, FS_CardinalityType
  <2> QED  BY <2>1, <2>2, <2>3
<1> DEFINE packets == [i \in 1..Cardinality(sent) |-> Packet(deltas[i], 1, 1)]
<1>3. \A i \in 1..Cardinality(sent) : /\ packets[i] \in PacketType
                                      /\ AllFine(packets[i].message.sessions, keys, next)
  BY <1>2 DEF Packet, PacketType
<1>4. packets \in Seq(PacketType) /\ DOMAIN packets = 1..Cardinality(sent)
  BY <1>2, <1>3
<1>5. WireFine(packets, keys, next)
  BY <1>3, <1>4 DEF WireFine
<1> QED  BY <1>1, <1>4, <1>5, AppendFine

-----------------------------------------------------------------------------
(* What a step of the reducer has to leave behind. *)
Sent ==
  /\ projectedByRemoteID' \in Lists
  /\ sessionKeyByRemoteID' \in KeyMaps
  /\ nextSessionKey' \in Nat \ {0} /\ generation' \in Nat /\ lastDeltaSequence' \in Nat
  /\ wire' \in Seq(PacketType)
  /\ ReadyKeys'
  /\ KeysGiven(sessionKeyByRemoteID', nextSessionKey')
  /\ AllFine(sessions, sessionKeyByRemoteID', nextSessionKey')
  /\ WireFine(wire', sessionKeyByRemoteID', nextSessionKey')

LEMMA SnapshotIsMessage ==
  ASSUME NEW g \in Nat, NEW list, NEW keys, Told(list, keys) \in SUBSET Shown
  PROVE  /\ Snapshot(g, list, keys) \in Message
         /\ Snapshot(g, list, keys).sessions = Told(list, keys)
BY DEF Snapshot, Message

(* connect and the snapshot of updateSessions. *)
LEMMA SnapshotStep ==
  ASSUME KInv, NEW list \in Lists, NEW g \in Nat, NEW kind,
         Project(list), projectedByRemoteID' = list,
         generation' = g, lastDeltaSequence' = 0,
         SendSnapshot(Snapshot(g, list, sessionKeyByRemoteID'), kind)
  PROVE  Sent
<1> DEFINE keys == sessionKeyByRemoteID'
           next == nextSessionKey'
           m == Snapshot(g, list, keys)
<1>1. /\ keys \in KeyMaps /\ next \in Nat \ {0} /\ DOMAIN keys = DOMAIN list
      /\ KeysGiven(keys, next) /\ AllFine(sessions, keys, next)
      /\ WireFine(wire, keys, next)
  BY ProjectStep
<1>2. Told(list, keys) \in SUBSET Shown /\ AllFine(Told(list, keys), keys, next)
  BY <1>1, ToldFine
<1>3. m \in Message /\ AllFine(m.sessions, keys, next)
  BY <1>2, SnapshotIsMessage
<1>4. wire \in Seq(PacketType) /\ SendSnapshot(m, kind)
  BY DEF KInv, Types
<1> HIDE DEF keys, next, m
<1>5. wire' \in Seq(PacketType) /\ WireFine(wire', keys, next)
  BY <1>1, <1>3, <1>4, SnapshotSent
<1>6. ReadyKeys'
  BY <1>1 DEF ReadyKeys, keys
<1> QED  BY <1>1, <1>5, <1>6 DEF Sent, keys, next

LEMMA ConnectStep ==
  ASSUME KInv, NEW list \in Lists, Connect(list)
  PROVE  Sent
BY SnapshotStep DEF Connect

LEMMA UpdateMembersStep ==
  ASSUME KInv, NEW list \in Lists, UpdateMembers(list)
  PROVE  Sent
<1>1. generation + 1 \in Nat
  BY DEF KInv, Types
<1> QED  BY <1>1, SnapshotStep DEF UpdateMembers

LEMMA UpdateFieldsStep ==
  ASSUME KInv, NEW list \in Lists, UpdateFields(list)
  PROVE  Sent
<1> DEFINE changed == {id \in DOMAIN list : list[id] # projectedByRemoteID[id]}
           n == Cardinality(changed)
           keys == sessionKeyByRemoteID
           next == nextSessionKey
<1>1. n \in Nat
  BY ListFacts, FS_Subset, FS_CardinalityType
<1>2. PICK order \in [1..n -> changed] :
        SendDeltas([i \in DOMAIN order |->
          Delta(generation, lastDeltaSequence + i,
                [key |-> keys[order[i]], id |-> order[i], content |-> list[order[i]]])])
  BY DEF UpdateFields
<1> DEFINE session(i) == [key |-> keys[order[i]], id |-> order[i],
                          content |-> list[order[i]]]
           deltas == [i \in DOMAIN order |-> Delta(generation, lastDeltaSequence + i, session(i))]
<1>3. DOMAIN list = DOMAIN keys
  BY DEF UpdateFields, KInv, ReadyKeys
<1>4. keys \in KeyMaps /\ next \in Nat \ {0} /\ KeysGiven(keys, next)
  BY DEF KInv, Types
<1>5. generation \in Nat /\ lastDeltaSequence \in Nat
  BY DEF KInv, Types
<1>6. Told(list, keys) \in SUBSET Shown /\ AllFine(Told(list, keys), keys, next)
  BY <1>3, <1>4, ToldFine
<1>7. ASSUME NEW i \in 1..n
      PROVE  deltas[i] \in Message /\ AllFine(deltas[i].sessions, keys, next)
  <2>1. order[i] \in DOMAIN list
    BY <1>2
  <2>2. session(i) \in Told(list, keys)
    BY <2>1 DEF Told
  <2>3. session(i) \in Shown /\ Fine(session(i), keys, next)
    BY <1>6, <2>2 DEF AllFine
  <2>4. deltas[i] = Delta(generation, lastDeltaSequence + i, session(i))
    BY <1>2
  <2> HIDE DEF session
  <2>5. /\ Delta(generation, lastDeltaSequence + i, session(i)) \in Message
        /\ Delta(generation, lastDeltaSequence + i, session(i)).sessions = {session(i)}
    BY <1>1, <1>5, <2>3 DEF Delta, Message
  <2> QED  BY <2>3, <2>4, <2>5 DEF AllFine
<1>8. DOMAIN deltas = 1..n /\ SendDeltas(deltas)
  BY <1>2
<1>9. wire \in Seq(PacketType) /\ WireFine(wire, keys, next)
  BY DEF KInv, Types
<1>10. AllFine(sessions, keys, next)
  BY DEF KInv
<1>11. lastDeltaSequence' \in Nat /\ generation' \in Nat
  BY <1>1, <1>5 DEF UpdateFields
<1>12. /\ projectedByRemoteID' = list /\ sessionKeyByRemoteID' = keys
       /\ nextSessionKey' = next
  BY DEF UpdateFields
<1> HIDE DEF changed, n, keys, next, session, deltas
<1>13. wire' \in Seq(PacketType) /\ WireFine(wire', keys, next)
  BY <1>1, <1>7, <1>8, <1>9, DeltasSent
<1>14. ReadyKeys'
  BY <1>3, <1>12 DEF ReadyKeys
<1> QED  BY <1>4, <1>10, <1>11, <1>12, <1>13, <1>14 DEF Sent

-----------------------------------------------------------------------------
(* What the packet at the head of the wire leaves behind. *)
LEMMA ReceiveFacts ==
  ASSUME KInv, Receive
  PROVE  /\ Head(wire).message \in Message
         /\ AllFine(Head(wire).message.sessions, sessionKeyByRemoteID, nextSessionKey)
         /\ wire' \in Seq(PacketType)
         /\ WireFine(wire', sessionKeyByRemoteID, nextSessionKey)
<1>1. wire \in Seq(PacketType) /\ wire # <<>> /\ wire' = Tail(wire)
  BY DEF KInv, Types, Receive
<1>2. WireFine(wire, sessionKeyByRemoteID, nextSessionKey)
  BY DEF KInv
<1>3. Head(wire) \in PacketType /\ Head(wire) = wire[1] /\ 1 \in DOMAIN wire
  BY <1>1
<1>4. Head(wire).message \in Message
  BY <1>3 DEF PacketType
<1>5. wire' \in Seq(PacketType)
  BY <1>1
<1>6. \A i \in DOMAIN wire' : i + 1 \in DOMAIN wire /\ wire'[i] = wire[i + 1]
  BY <1>1
<1> QED  BY <1>2, <1>3, <1>4, <1>5, <1>6 DEF WireFine

(* A message applied, or not, leaves fine sessions on the device. *)
LEMMA ApplyFine ==
  ASSUME NEW m \in Message, NEW keys, NEW next, AllFine(m.sessions, keys, next),
         sessions \in SUBSET Shown, AllFine(sessions, keys, next),
         ApplySnapshot(m) \/ ApplyDelta(m)
  PROVE  sessions' \in SUBSET Shown /\ AllFine(sessions', keys, next)
<1>1. m.sessions \in SUBSET Shown
  BY DEF Message
<1>2. CASE ApplySnapshot(m)
  BY <1>1, <1>2 DEF ApplySnapshot
<1>3. CASE ApplyDelta(m)
  <2>1. m.sessions # {}
    BY <1>3 DEF ApplyDelta, Message
  <2>2. WithSession(m) \subseteq sessions \union m.sessions
    BY <2>1 DEF WithSession
  <2>3. sessions' \subseteq sessions \union m.sessions
    BY <1>3, <2>2 DEF ApplyDelta, InvalidateSnapshot, device
  <2> QED  BY <1>1, <2>3 DEF AllFine
<1> QED  BY <1>2, <1>3

(* KInv is inductive.  Its reducer's part is moved by the host's actions and  *)
(* the two losses, its device's part by the packets.                          *)
LEMMA KeysInit == Init => KInv
<1> SUFFICES ASSUME Init PROVE KInv
  OBVIOUS
<1>1. Types
  BY EmptyList DEF Init, Types
<1>2. ReadyKeys /\ KeysGiven(sessionKeyByRemoteID, nextSessionKey)
  BY EmptyList DEF Init, ReadyKeys, KeysGiven
<1>3. /\ AllFine(sessions, sessionKeyByRemoteID, nextSessionKey)
      /\ WireFine(wire, sessionKeyByRemoteID, nextSessionKey)
  BY DEF Init, AllFine, WireFine
<1> QED  BY <1>1, <1>2, <1>3 DEF KInv

LEMMA SentStep ==
  ASSUME KInv, Sent, live' = live, sessions' = sessions,
         info_call' \in Lists \union {NoCall}, refresh_call' \in Lists \union {NoCall}
  PROVE  KInv'
<1>1. live' \in Lists /\ sessions' \in SUBSET Shown
  BY DEF KInv, Types
<1>2. Types'
  BY <1>1 DEF Sent, Types
<1>3. AllFine(sessions, sessionKeyByRemoteID, nextSessionKey)'
  BY DEF Sent
<1> QED  BY <1>2, <1>3 DEF Sent, KInv

LEMMA KeysStep == KInv /\ [Next]_vars => KInv'
<1> SUFFICES ASSUME KInv, [Next]_vars PROVE KInv'
  OBVIOUS
<1>1. CASE InfoArrives
  BY <1>1 DEF InfoArrives, KInv, Types, ReadyKeys, KeysGiven, AllFine, WireFine, Fine,
              reducer, device
<1>2. CASE FinishInfo
  <2>1. info_call \in Lists /\ Connect(info_call)
    BY <1>2 DEF FinishInfo, KInv, Types
  <2>2. /\ live' = live /\ sessions' = sessions
        /\ info_call' = NoCall /\ refresh_call' = refresh_call
    BY <1>2 DEF FinishInfo, device
  <2>3. refresh_call \in Lists \union {NoCall}
    BY DEF KInv, Types
  <2> QED  BY <2>1, <2>2, <2>3, ConnectStep, SentStep
<1>3. CASE RefreshSessions
  BY <1>3 DEF RefreshSessions, KInv, Types, ReadyKeys, KeysGiven, AllFine, WireFine, Fine,
              reducer, device
<1>4. CASE FinishRefresh
  <2>1. refresh_call \in Lists /\ info_call \in Lists \union {NoCall}
    BY <1>4 DEF FinishRefresh, KInv, Types
  <2>2. /\ live' = live /\ sessions' = sessions
        /\ info_call' = info_call /\ refresh_call' = NoCall
    BY <1>4 DEF FinishRefresh, device
  <2>3. CASE UpdateMembers(refresh_call)
    BY <2>1, <2>2, <2>3, UpdateMembersStep, SentStep
  <2>4. CASE UpdateFields(refresh_call)
    BY <2>1, <2>2, <2>4, UpdateFieldsStep, SentStep
  <2>5. CASE UpdateUnconnected
    BY <2>1, <2>2, <2>5 DEF UpdateUnconnected, KInv, Types, ReadyKeys, KeysGiven, AllFine,
                            WireFine, Fine, reducer
  <2> QED  BY <1>4, <2>3, <2>4, <2>5 DEF FinishRefresh
<1>5. CASE LinkUp \/ Announce \/ ChannelsReady
  BY <1>5 DEF LinkUp, Announce, ChannelsReady, KInv, Types, ReadyKeys, KeysGiven, AllFine,
              WireFine, Fine, reducer, calls, device
<1>6. CASE LinkDown
  <2>1. /\ ready' = FALSE /\ generation' = 0 /\ lastDeltaSequence' = 0
        /\ projectedByRemoteID' = Empty /\ wire' = <<>> /\ sessions' = {}
        /\ UNCHANGED <<live, info_call, refresh_call, sessionKeyByRemoteID, nextSessionKey>>
    BY <1>6 DEF LinkDown, DisconnectReducer, DeviceForgets, calls
  <2> QED  BY <2>1, EmptyList DEF KInv, Types, ReadyKeys, KeysGiven, AllFine, WireFine
<1>7. CASE RestartApp
  <2>1. /\ ready' = FALSE /\ generation' = 0 /\ lastDeltaSequence' = 0
        /\ projectedByRemoteID' = Empty /\ sessionKeyByRemoteID' = Empty
        /\ nextSessionKey' = 1 /\ live' = Empty /\ wire' = <<>> /\ sessions' = {}
        /\ info_call' = NoCall /\ refresh_call' = NoCall
    BY <1>7 DEF RestartApp, DeviceForgets
  <2> QED  BY <2>1, EmptyList DEF KInv, Types, ReadyKeys, KeysGiven, AllFine, WireFine
<1>8. CASE RegistryChanges
  BY <1>8 DEF RegistryChanges, KInv, Types, ReadyKeys, KeysGiven, AllFine, WireFine, Fine,
              reducer, calls, device
<1>9. CASE DeviceStep
  <2>1. Receive
    BY <1>9 DEF DeviceStep, RefusePacket, StorePacket, CompleteMessage
  <2>2. UNCHANGED <<live, reducer, calls>>
    BY <2>1 DEF Receive
  <2>3. sessions' \in SUBSET Shown
        /\ AllFine(sessions', sessionKeyByRemoteID, nextSessionKey)
    <3>1. CASE RefusePacket \/ StorePacket
      BY <3>1 DEF RefusePacket, StorePacket, device, KInv, Types
    <3>2. CASE CompleteMessage
      BY <2>1, <3>2, ReceiveFacts, ApplyFine DEF CompleteMessage, KInv, Types
    <3> QED  BY <1>9, <3>1, <3>2 DEF DeviceStep
  <2>4. Types'
    BY <2>1, <2>2, <2>3, ReceiveFacts DEF KInv, Types, reducer, calls
  <2>5. ReadyKeys' /\ KeysGiven(sessionKeyByRemoteID, nextSessionKey)'
    BY <2>2 DEF KInv, ReadyKeys, KeysGiven, reducer
  <2>6. /\ AllFine(sessions, sessionKeyByRemoteID, nextSessionKey)'
        /\ WireFine(wire, sessionKeyByRemoteID, nextSessionKey)'
    BY <2>1, <2>2, <2>3, ReceiveFacts DEF reducer
  <2> QED  BY <2>4, <2>5, <2>6 DEF KInv
<1>10. CASE UNCHANGED vars
  BY <1>10 DEF vars, KInv, Types, ReadyKeys, KeysGiven, AllFine, WireFine, Fine,
               reducer, calls, device
<1> QED
  BY <1>1, <1>2, <1>3, <1>4, <1>5, <1>6, <1>7, <1>8, <1>9, <1>10
  DEF Next, HostStep, LinkStep

(* The inductive invariant of the keys. *)
THEOREM Invariance == Spec => []KInv
BY KeysInit, KeysStep, PTL DEF Spec

(* A key on the device or on its way names no other session of the Mac: project *)
(* forgets the keys of sessions that went, and still no key is given twice      *)
(* while the device may know it.                                                *)
THEOREM KeysNameOneSession == Spec => []KeysIdentify
<1>1. KInv => KeysIdentify
  <2> SUFFICES ASSUME KInv, NEW s \in Keyed PROVE
               \A id \in DOMAIN sessionKeyByRemoteID :
                 sessionKeyByRemoteID[id] = s.key => id = s.id
    BY DEF KeysIdentify
  <2>1. Fine(s, sessionKeyByRemoteID, nextSessionKey)
    BY DEF KInv, Keyed, AllFine, WireFine
  <2> QED  BY <2>1 DEF Fine
<1> QED  BY <1>1, Invariance, PTL

-----------------------------------------------------------------------------
(* The bounds that are not part of KInv: of counts, and of what a message   *)
(* may bring to the device.                                                 *)
InBounds(m) ==
  /\ m.generation \in 0..MaxGeneration /\ m.sequence \in 0..MaxSequence
  /\ IsFiniteSet(m.sessions)
  /\ m.type = "SNAPSHOT" => Cardinality(m.sessions) <= Capacity

BoundedPacket == {p \in PacketType : InBounds(p.message)}

HostBounds ==
  /\ nextSessionKey <= MaxKey
  /\ generation \in 0..MaxGeneration /\ lastDeltaSequence \in 0..MaxSequence
  /\ wire \in Seq(BoundedPacket)

DeviceBounds ==
  /\ dev_generation \in 0..MaxGeneration /\ next_delta_sequence \in 0..(MaxSequence + 1)
  /\ IsFiniteSet(sessions) /\ Cardinality(sessions) <= Capacity

LinkBounds ==
  /\ link \in {"down", "open", "ready"} /\ infos \in 0..MaxInfos
  /\ reassembly \in {"idle", "partial", "stale"}
  /\ unsent \subseteq {"connect", "update"}
  /\ changes \in 0..MaxChanges /\ drops \in 0..MaxDrops

Flags == ready \in BOOLEAN /\ has_snapshot \in BOOLEAN /\ refused \in BOOLEAN

(* No more is told of a list than it has sessions. *)
LEMMA ToldCount ==
  ASSUME NEW list \in Lists, NEW keys
  PROVE  IsFiniteSet(Told(list, keys)) /\ Cardinality(Told(list, keys)) <= Capacity
<1> DEFINE f == [id \in DOMAIN list |-> [key |-> keys[id], id |-> id, content |-> list[id]]]
<1>1. IsFiniteSet(DOMAIN list) /\ Cardinality(DOMAIN list) <= Capacity
  BY ListFacts DEF Lists
<1>2. f \in Surjection(DOMAIN list, Told(list, keys))
  <2>1. f \in [DOMAIN list -> Told(list, keys)]
    BY DEF Told
  <2>2. \A t \in Told(list, keys) : \E id \in DOMAIN list : f[id] = t
    BY DEF Told
  <2> HIDE DEF f
  <2> QED  BY <2>1, <2>2 DEF Surjection
<1> HIDE DEF f
<1>3. IsFiniteSet(Told(list, keys)) /\ Cardinality(Told(list, keys)) <= Cardinality(DOMAIN list)
  BY <1>1, <1>2, FS_Surjection
<1>4. /\ Cardinality(Told(list, keys)) \in Nat /\ Cardinality(DOMAIN list) \in Nat
      /\ Capacity \in Nat
  BY <1>1, <1>3, FS_CardinalityType, SyncAssumption
<1> QED  BY <1>1, <1>3, <1>4

LEMMA SnapshotBounds ==
  ASSUME wire \in Seq(BoundedPacket), NEW m \in Message, InBounds(m), NEW kind \in {"connect", "update"},
         SendSnapshot(m, kind), LinkBounds
  PROVE  wire' \in Seq(BoundedPacket) /\ unsent' \subseteq {"connect", "update"}
<1>1. \A index, count \in Nat : Packet(m, index, count) \in BoundedPacket
  BY DEF Packet, PacketType, BoundedPacket
<1>2. Packets(m) \in Seq(BoundedPacket)
  BY <1>1 DEF Packets
<1>3. wire' = wire \/ wire' = wire \o Packets(m)
  BY DEF SendSnapshot
<1>4. wire' \in Seq(BoundedPacket)
  <2>1. ASSUME NEW v \in Seq(BoundedPacket), NEW w \in Seq(BoundedPacket)
        PROVE  v \o w \in Seq(BoundedPacket)
    OBVIOUS
  <2> QED  BY <1>2, <1>3, <2>1
<1>5. unsent' \in {{}, unsent \union {kind}} /\ unsent \subseteq {"connect", "update"}
  BY DEF SendSnapshot, LinkBounds
<1> QED  BY <1>4, <1>5

(* connect and the snapshot of updateSessions. *)
LEMMA SnapshotStepBounds ==
  ASSUME KInv, HostBounds, LinkBounds, NEW list \in Lists, NEW g \in 0..MaxGeneration,
         NEW kind \in {"connect", "update"},
         Project(list), generation' = g, lastDeltaSequence' = 0,
         SendSnapshot(Snapshot(g, list, sessionKeyByRemoteID'), kind)
  PROVE  HostBounds' /\ unsent' \subseteq {"connect", "update"}
<1> DEFINE keys == sessionKeyByRemoteID'
           m == Snapshot(g, list, keys)
<1>1. Told(list, keys) \in SUBSET Shown
  BY ProjectStep, ToldFine
<1>2. g \in Nat
  BY SyncAssumption
<1>3. m \in Message /\ m.sessions = Told(list, keys)
  BY <1>1, <1>2, SnapshotIsMessage
<1>4. InBounds(m)
  <2>1. m.generation = g /\ m.sequence = 0
    BY DEF Snapshot
  <2>2. 0 \in 0..MaxSequence
    BY SyncAssumption
  <2> QED  BY <1>3, <2>1, <2>2, ToldCount DEF InBounds
<1>5. wire \in Seq(BoundedPacket) /\ SendSnapshot(m, kind)
  BY DEF HostBounds
<1> HIDE DEF m
<1>6. wire' \in Seq(BoundedPacket) /\ unsent' \subseteq {"connect", "update"}
  BY <1>3, <1>4, <1>5, SnapshotBounds
<1>7. nextSessionKey' <= MaxKey
  BY DEF Project
<1>8. lastDeltaSequence' \in 0..MaxSequence
  BY SyncAssumption
<1> QED  BY <1>6, <1>7, <1>8 DEF HostBounds

LEMMA UpdateFieldsBounds ==
  ASSUME KInv, HostBounds, LinkBounds, NEW list \in Lists, UpdateFields(list)
  PROVE  HostBounds' /\ unsent' \subseteq {"connect", "update"}
<1> DEFINE changed == {id \in DOMAIN list : list[id] # projectedByRemoteID[id]}
           n == Cardinality(changed)
           keys == sessionKeyByRemoteID
<1>1. n \in Nat
  BY ListFacts, FS_Subset, FS_CardinalityType
<1>2. PICK order \in [1..n -> changed] :
        SendDeltas([i \in DOMAIN order |->
          Delta(generation, lastDeltaSequence + i,
                [key |-> keys[order[i]], id |-> order[i], content |-> list[order[i]]])])
  BY DEF UpdateFields
<1> DEFINE session(i) == [key |-> keys[order[i]], id |-> order[i], content |-> list[order[i]]]
           deltas == [i \in DOMAIN order |-> Delta(generation, lastDeltaSequence + i, session(i))]
<1>3. /\ generation \in 0..MaxGeneration /\ lastDeltaSequence \in Nat
      /\ lastDeltaSequence + n <= MaxSequence
      /\ lastDeltaSequence' = lastDeltaSequence + n
      /\ MaxSequence \in Nat /\ MaxGeneration \in Nat
  BY SyncAssumption DEF UpdateFields, HostBounds, KInv, Types
<1>4. Told(list, keys) \in SUBSET Shown
  BY ToldFine DEF UpdateFields, KInv, Types, ReadyKeys
<1>5. ASSUME NEW i \in 1..n
      PROVE  deltas[i] \in Message /\ InBounds(deltas[i])
  <2>1. session(i) \in Shown
    BY <1>2, <1>4 DEF Told
  <2>2. deltas[i] = Delta(generation, lastDeltaSequence + i, session(i))
    BY <1>2
  <2>3. lastDeltaSequence + i \in 0..MaxSequence
    BY <1>1, <1>3
  <2> HIDE DEF session
  <2>4. IsFiniteSet({session(i)})
    BY FS_Singleton
  <2>5. /\ Delta(generation, lastDeltaSequence + i, session(i)) \in Message
        /\ InBounds(Delta(generation, lastDeltaSequence + i, session(i)))
    <3>1. generation \in Nat /\ lastDeltaSequence + i \in Nat
      BY <1>3, <2>3
    <3>2. Delta(generation, lastDeltaSequence + i, session(i)) \in Message
      BY <2>1, <3>1 DEF Delta, Message
    <3>3. InBounds(Delta(generation, lastDeltaSequence + i, session(i)))
      BY <1>3, <2>3, <2>4 DEF Delta, InBounds
    <3> QED  BY <3>2, <3>3
  <2> QED  BY <2>2, <2>5
<1>6. DOMAIN deltas = 1..n /\ SendDeltas(deltas)
  BY <1>2
<1> HIDE DEF changed, session, deltas
<1>7. PICK sent \in SUBSET (1..n) :
        wire' = wire \o [i \in 1..Cardinality(sent) |-> Packet(deltas[i], 1, 1)]
  BY <1>6 DEF SendDeltas
<1>8. Cardinality(sent) \in Nat /\ Cardinality(sent) <= n
  <2>1. IsFiniteSet(1..n) /\ Cardinality(1..n) = n
    <3>1. 1 \in Int /\ n \in Int
      BY <1>1
    <3>2. /\ IsFiniteSet(1..n)
          /\ Cardinality(1..n) = IF 1 > n THEN 0 ELSE n - 1 + 1
      BY <3>1, FS_Interval
    <3> QED  BY <1>1, <3>2
  <2> QED  BY <2>1, FS_Subset, FS_CardinalityType
<1>9. [i \in 1..Cardinality(sent) |-> Packet(deltas[i], 1, 1)] \in Seq(BoundedPacket)
  BY <1>1, <1>5, <1>8 DEF Packet, PacketType, BoundedPacket
<1>10. wire' \in Seq(BoundedPacket)
  BY <1>7, <1>9 DEF HostBounds
<1>11. unsent' \subseteq {"connect", "update"}
  BY <1>6 DEF SendDeltas, LinkBounds
<1>12. lastDeltaSequence' \in 0..MaxSequence
  BY <1>1, <1>3
<1>13. nextSessionKey' = nextSessionKey /\ generation' = generation
  BY DEF UpdateFields
<1> QED  BY <1>10, <1>11, <1>12, <1>13 DEF HostBounds

(* What the device makes of a message that is within the bounds. *)
LEMMA ApplyBounds ==
  ASSUME DeviceBounds, has_snapshot \in BOOLEAN, NEW m \in Message, InBounds(m),
         ApplySnapshot(m) \/ ApplyDelta(m)
  PROVE  DeviceBounds' /\ has_snapshot' \in BOOLEAN
<1>1. /\ MaxSequence \in Nat /\ MaxGeneration \in Nat /\ Capacity \in Nat
      /\ m.generation \in 0..MaxGeneration /\ m.sequence \in 0..MaxSequence
  BY SyncAssumption DEF SyncAssumption, InBounds
<1>2. CASE ApplySnapshot(m)
  <2>1. IsFiniteSet(sessions') /\ Cardinality(sessions') <= Capacity
    BY <1>2 DEF ApplySnapshot, InBounds
  <2>2. has_snapshot' = TRUE /\ dev_generation' = m.generation /\ next_delta_sequence' = 1
    BY <1>2 DEF ApplySnapshot
  <2>3. DeviceBounds'
    BY <1>1, <2>1, <2>2 DEF DeviceBounds
  <2> QED  BY <2>2, <2>3
<1>3. CASE InvalidateSnapshot
  <2>1. IsFiniteSet(sessions') /\ Cardinality(sessions') <= Capacity
    BY <1>1, <1>3, FS_EmptySet DEF InvalidateSnapshot
  <2>2. has_snapshot' = FALSE /\ dev_generation' = 0 /\ next_delta_sequence' = 0
    BY <1>3 DEF InvalidateSnapshot
  <2>3. DeviceBounds'
    BY <1>1, <2>1, <2>2 DEF DeviceBounds
  <2> QED  BY <2>2, <2>3
<1>4. CASE UNCHANGED device
  BY <1>4 DEF device, DeviceBounds
<1>5. CASE /\ m.type = "DELTA" /\ InSequence(m) /\ ~(Cardinality(WithSession(m)) > Capacity)
           /\ sessions' = WithSession(m) /\ next_delta_sequence' = next_delta_sequence + 1
           /\ has_snapshot' = has_snapshot /\ dev_generation' = dev_generation
  <2>1. next_delta_sequence' \in 0..(MaxSequence + 1)
    BY <1>1, <1>5 DEF InSequence
  <2>2. IsFiniteSet(WithSession(m))
    <3>1. m.sessions # {} /\ IsFiniteSet(m.sessions) /\ IsFiniteSet(sessions)
      BY <1>5 DEF Message, InBounds, DeviceBounds
    <3>2. WithSession(m) \subseteq sessions \union m.sessions
      BY <3>1 DEF WithSession
    <3> QED  BY <3>1, <3>2, FS_Union, FS_Subset
  <2>3. Cardinality(WithSession(m)) \in Nat
    BY <2>2, FS_CardinalityType
  <2>4. IsFiniteSet(sessions') /\ Cardinality(sessions') <= Capacity
    BY <1>1, <1>5, <2>2, <2>3
  <2>5. DeviceBounds'
    BY <1>5, <2>1, <2>4 DEF DeviceBounds
  <2> QED  BY <1>5, <2>5
<1> QED  BY <1>2, <1>3, <1>4, <1>5 DEF ApplyDelta

-----------------------------------------------------------------------------
Bounds == HostBounds /\ DeviceBounds /\ LinkBounds /\ Flags

LEMMA BoundsInit == Init => Bounds
<1> SUFFICES ASSUME Init PROVE Bounds
  OBVIOUS
<1>1. HostBounds
  BY SyncAssumption DEF Init, HostBounds
<1>2. DeviceBounds
  BY SyncAssumption, FS_EmptySet DEF Init, DeviceBounds
<1>3. LinkBounds
  BY SyncAssumption DEF Init, LinkBounds
<1>4. Flags
  BY DEF Init, Flags
<1> QED  BY <1>1, <1>2, <1>3, <1>4 DEF Bounds

(* A step of the device. *)
LEMMA DeviceStepBounds ==
  ASSUME KInv, Bounds, DeviceStep
  PROVE  Bounds'
<1>1. Receive
  BY DEF DeviceStep, RefusePacket, StorePacket, CompleteMessage
<1>2. UNCHANGED <<live, reducer, calls, link, infos, unsent, changes, drops>>
  BY <1>1 DEF Receive
<1>3. wire \in Seq(BoundedPacket) /\ wire # <<>> /\ wire' = Tail(wire)
  BY <1>1 DEF Bounds, HostBounds, Receive
<1>4. Head(wire) \in BoundedPacket /\ wire' \in Seq(BoundedPacket)
  BY <1>3
<1>5. Head(wire).message \in Message /\ InBounds(Head(wire).message)
  BY <1>4 DEF BoundedPacket, PacketType
<1>6. HostBounds'
  BY <1>2, <1>4 DEF Bounds, HostBounds, reducer
<1>7. /\ reassembly' \in {"idle", "partial", "stale"}
      /\ refused' = refused \/ refused' = TRUE
  BY DEF DeviceStep, RefusePacket, StorePacket, CompleteMessage
<1>8. LinkBounds'
  BY <1>2, <1>7 DEF Bounds, LinkBounds
<1>9. DeviceBounds' /\ has_snapshot' \in BOOLEAN
  <2>1. CASE UNCHANGED device
    BY <2>1 DEF device, Bounds, DeviceBounds, Flags
  <2>2. CASE ApplySnapshot(Head(wire).message) \/ ApplyDelta(Head(wire).message)
    BY <1>5, <2>2, ApplyBounds DEF Bounds, Flags
  <2> QED  BY <2>1, <2>2 DEF DeviceStep, RefusePacket, StorePacket, CompleteMessage
<1>10. Flags'
  BY <1>2, <1>7, <1>9 DEF Bounds, Flags, reducer
<1> QED  BY <1>6, <1>8, <1>9, <1>10 DEF Bounds

(* What was sent by a step of the reducer. *)
LEMMA ReducerStepBounds ==
  ASSUME Bounds, HostBounds', unsent' \subseteq {"connect", "update"}, ready' \in BOOLEAN,
         UNCHANGED <<link, infos, reassembly, device, refused, changes, drops>>
  PROVE  Bounds'
<1>1. DeviceBounds' /\ has_snapshot' = has_snapshot
  BY DEF Bounds, DeviceBounds, device
<1>2. LinkBounds'
  BY DEF Bounds, LinkBounds
<1>3. Flags'
  BY <1>1 DEF Bounds, Flags
<1> QED  BY <1>1, <1>2, <1>3 DEF Bounds

LEMMA BoundsStep == KInv /\ Bounds /\ [Next]_vars => Bounds'
<1> SUFFICES ASSUME KInv, Bounds, [Next]_vars PROVE Bounds'
  OBVIOUS
<1>1. CASE FinishInfo
  <2>1. info_call \in Lists /\ Connect(info_call)
    BY <1>1 DEF FinishInfo, KInv, Types
  <2>2. 1 \in 0..MaxGeneration
    BY SyncAssumption
  <2>3. HostBounds' /\ unsent' \subseteq {"connect", "update"} /\ ready' = TRUE
    BY <2>1, <2>2, SnapshotStepBounds DEF Connect, Bounds
  <2> QED  BY <1>1, <2>3, ReducerStepBounds DEF FinishInfo
<1>2. CASE FinishRefresh
  <2>1. refresh_call \in Lists
    BY <1>2 DEF FinishRefresh, KInv, Types
  <2>2. CASE UpdateMembers(refresh_call)
    <3>1. generation + 1 \in 0..MaxGeneration
      BY <2>2, SyncAssumption DEF UpdateMembers, Bounds, HostBounds
    <3>2. HostBounds' /\ unsent' \subseteq {"connect", "update"} /\ ready' = ready
      BY <2>1, <2>2, <3>1, SnapshotStepBounds DEF UpdateMembers, Bounds
    <3> QED  BY <1>2, <3>2, ReducerStepBounds DEF FinishRefresh, Bounds, Flags
  <2>3. CASE UpdateFields(refresh_call)
    <3>1. HostBounds' /\ unsent' \subseteq {"connect", "update"} /\ ready' = ready
      BY <2>1, <2>3, UpdateFieldsBounds DEF UpdateFields, Bounds
    <3> QED  BY <1>2, <3>1, ReducerStepBounds DEF FinishRefresh, Bounds, Flags
  <2>4. CASE UpdateUnconnected
    <3>1. HostBounds' /\ unsent' = unsent /\ ready' = ready
      BY <2>4 DEF UpdateUnconnected, Bounds, HostBounds, reducer
    <3> QED  BY <1>2, <3>1, ReducerStepBounds DEF FinishRefresh, Bounds, LinkBounds, Flags
  <2> QED  BY <1>2, <2>2, <2>3, <2>4 DEF FinishRefresh
<1>3. CASE InfoArrives \/ LinkUp \/ Announce \/ ChannelsReady
  <2>1. UNCHANGED <<reducer, wire, reassembly, device, refused, changes, drops>>
    BY <1>3 DEF InfoArrives, LinkUp, Announce, ChannelsReady
  <2>2. HostBounds' /\ DeviceBounds' /\ Flags'
    BY <2>1 DEF Bounds, HostBounds, DeviceBounds, Flags, reducer, device
  <2>3. infos' \in 0..MaxInfos
    <3>1. infos \in 0..MaxInfos /\ MaxInfos \in Nat
      BY SyncAssumption DEF Bounds, LinkBounds
    <3>2. \/ infos > 0 /\ infos' = infos - 1
          \/ infos' = infos
          \/ infos < MaxInfos /\ infos' = infos + 1
      BY <1>3 DEF InfoArrives, LinkUp, Announce, ChannelsReady
    <3> QED  BY <3>1, <3>2
  <2>4. link' \in {"down", "open", "ready"} /\ unsent' \subseteq {"connect", "update"}
    BY <1>3 DEF InfoArrives, LinkUp, Announce, ChannelsReady, Bounds, LinkBounds
  <2>5. LinkBounds'
    BY <2>1, <2>3, <2>4 DEF Bounds, LinkBounds
  <2> QED  BY <2>2, <2>5 DEF Bounds
<1>4. CASE RefreshSessions \/ RegistryChanges
  <2>1. UNCHANGED <<reducer, link, infos, wire, reassembly, device, unsent, refused, drops>>
    BY <1>4 DEF RefreshSessions, RegistryChanges
  <2>2. HostBounds' /\ DeviceBounds' /\ Flags'
    BY <2>1 DEF Bounds, HostBounds, DeviceBounds, Flags, reducer, device
  <2>3. changes' \in 0..MaxChanges
    BY <1>4, SyncAssumption DEF RefreshSessions, RegistryChanges, Bounds, LinkBounds
  <2>4. LinkBounds'
    BY <2>1, <2>3 DEF Bounds, LinkBounds
  <2> QED  BY <2>2, <2>4 DEF Bounds
<1>5. CASE LinkDown \/ RestartApp
  <2>1. /\ ready' = FALSE /\ generation' = 0 /\ lastDeltaSequence' = 0 /\ wire' = <<>>
        /\ nextSessionKey' = nextSessionKey \/ nextSessionKey' = 1
        /\ has_snapshot' = FALSE /\ dev_generation' = 0 /\ next_delta_sequence' = 0
        /\ sessions' = {} /\ link' = "down" /\ infos' = 0 /\ unsent' = {}
        /\ refused' = FALSE /\ reassembly' \in {"idle", "stale"}
        /\ drops < MaxDrops /\ drops' = drops + 1 /\ changes' = changes
    BY <1>5 DEF LinkDown, RestartApp, DisconnectReducer, DeviceForgets
  <2>2. HostBounds'
    BY <2>1, SyncAssumption DEF Bounds, HostBounds
  <2>3. DeviceBounds'
    BY <2>1, SyncAssumption, FS_EmptySet DEF DeviceBounds
  <2>4. LinkBounds'
    BY <2>1, SyncAssumption DEF Bounds, LinkBounds
  <2>5. Flags'
    BY <2>1 DEF Flags
  <2> QED  BY <2>2, <2>3, <2>4, <2>5 DEF Bounds
<1>6. CASE DeviceStep
  BY <1>6, DeviceStepBounds
<1>7. CASE UNCHANGED vars
  BY <1>7 DEF vars, Bounds, HostBounds, DeviceBounds, LinkBounds, Flags, reducer, device
<1> QED
  BY <1>1, <1>2, <1>3, <1>4, <1>5, <1>6, <1>7 DEF Next, HostStep, LinkStep

(* A key of the Mac or of a session shown is one that was given, so in range. *)
LEMMA TypesFromInvariant == KInv /\ Bounds => TypeOK
<1> SUFFICES ASSUME KInv, Bounds PROVE TypeOK
  OBVIOUS
<1>1. nextSessionKey \in 1..MaxKey
  BY SyncAssumption DEF KInv, Types, Bounds, HostBounds
<1>2. \A k \in Nat \ {0} : k < nextSessionKey => k \in 1..MaxKey
  BY <1>1, SyncAssumption
<1>3. sessionKeyByRemoteID \in UNION {[ids -> 1..MaxKey] : ids \in SUBSET Ids}
  <2>1. \A id \in DOMAIN sessionKeyByRemoteID : sessionKeyByRemoteID[id] \in 1..MaxKey
    BY <1>2, KeyMapFacts DEF KInv, Types, KeysGiven
  <2>2. sessionKeyByRemoteID \in [DOMAIN sessionKeyByRemoteID -> 1..MaxKey]
    BY <2>1 DEF KInv, Types, KeyMaps
  <2> QED  BY <2>2, KeyMapFacts DEF KInv, Types
<1>4. ASSUME NEW list \in SUBSET Shown,
             AllFine(list, sessionKeyByRemoteID, nextSessionKey)
      PROVE  list \subseteq KeyedSessions
  <2> SUFFICES ASSUME NEW s \in list PROVE s \in KeyedSessions
    OBVIOUS
  <2>1. s.key \in Nat \ {0} /\ s.key < nextSessionKey
    BY <1>4 DEF Shown, AllFine, Fine
  <2>2. s.key \in 1..MaxKey
    BY <1>2, <2>1
  <2> QED  BY <2>2 DEF Shown, KeyedSessions
<1>5. sessions \subseteq KeyedSessions
  BY <1>4 DEF KInv, Types
<1>6. \A i \in DOMAIN wire : wire[i].message.sessions \subseteq KeyedSessions
  BY <1>4, WireSessions DEF KInv, Types, WireFine
<1> QED
  BY <1>1, <1>3, <1>5, <1>6
  DEF TypeOK, KInv, Types, Bounds, HostBounds, DeviceBounds, LinkBounds, Flags

(* The device's array never holds more than its capacity and no key that was *)
(* not given, and every variable keeps its type, whatever is lost between.    *)
THEOREM TypeCorrect == Spec => []TypeOK
<1>1. Spec => [](KInv /\ Bounds)
  <2>1. Init => KInv /\ Bounds
    BY KeysInit, BoundsInit
  <2>2. KInv /\ Bounds /\ [Next]_vars => (KInv /\ Bounds)'
    BY KeysStep, BoundsStep
  <2> QED  BY <2>1, <2>2, PTL DEF Spec
<1> QED  BY <1>1, TypesFromInvariant, PTL

-----------------------------------------------------------------------------
(* The list.  What the device will show is what it has, or the last snapshot *)
(* under way, with the deltas that follow.                                   *)
Snap(w, i) == w[i].message.type = "SNAPSHOT" /\ w[i].index = w[i].count

LastSnapshot(w, k) ==
  /\ k \in 0..Len(w)
  /\ k > 0 => Snap(w, k)
  /\ \A i \in (k + 1)..Len(w) : ~Snap(w, i)

After(w, k) == [i \in 1..(Len(w) - k) |-> w[k + i].message]

Change(m) == CHOOSE s \in m.sessions : TRUE

(* Packets of one message follow each other. *)
Shaped(w) ==
  \A i \in DOMAIN w :
    \/ w[i].index = 1 /\ w[i].count = 1
    \/ /\ w[i].index = 1 /\ w[i].count = 2
       /\ i + 1 \in DOMAIN w /\ w[i + 1].index = 2
    \/ /\ w[i].index = 2 /\ w[i].count = 2
       /\ w[i].message.type = "SNAPSHOT"
       /\ i > 1 => w[i - 1].index = 1 /\ w[i - 1].count = 2

(* A packet is refused only before the first snapshot. *)
Assembling ==
  /\ reassembly = "stale" => ~has_snapshot
  /\ reassembly = "partial" => wire # <<>> /\ wire[1].index = 2
  /\ wire # <<>> /\ wire[1].index = 2 /\ reassembly # "partial" => ~has_snapshot

Quiet == link # "ready" => wire = <<>> /\ ~has_snapshot

Ordered(d, n) ==
  /\ n <= lastDeltaSequence + 1
  /\ \A i \in DOMAIN d : /\ d[i].generation = generation
                         /\ n <= d[i].sequence /\ d[i].sequence <= lastDeltaSequence
  /\ \A i, j \in DOMAIN d : i < j => d[i].sequence < d[j].sequence

NoGap(d, n) == \A q \in n..lastDeltaSequence : \E i \in DOMAIN d : d[i].sequence = q

Overrides(m, s) == Change(m).key = s.key /\ Change(m) # s

(* Deltas d turn the list b into the list told. *)
Leads(d, b, told) ==
  /\ \A s \in told :
       \/ s \in b /\ \A j \in DOMAIN d : ~Overrides(d[j], s)
       \/ \E i \in DOMAIN d : /\ Change(d[i]) = s
                              /\ \A j \in DOMAIN d : i < j => ~Overrides(d[j], s)
  /\ \A s \in b : \E t \in told : t.key = s.key
  /\ \A t \in told : \E s \in b : s.key = t.key
  /\ \A i \in DOMAIN d : \E t \in told : t.key = Change(d[i]).key
  /\ \A s, t \in b : s.key = t.key => s = t

MacList == Told(projectedByRemoteID, sessionKeyByRemoteID)

(* With nothing left out, the deltas lead to the Mac's list. *)
Agrees(d, b, g, n) ==
  /\ g <= generation
  /\ g = generation => Ordered(d, n) /\ (NoGap(d, n) => Leads(d, b, MacList))

(* Nothing is left out. *)
Exactly(d, g, n) ==
  /\ g = generation
  /\ n + Len(d) = lastDeltaSequence + 1
  /\ \A i \in DOMAIN d : d[i].generation = generation /\ d[i].sequence = n + i - 1

Answered == ready /\ link = "ready" /\ infos = 0 /\ info_call = NoCall /\ unsent = {} /\ ~refused

Follows(d, b, g, n) ==
  /\ ready /\ "connect" \notin unsent => Agrees(d, b, g, n)
  /\ Answered => Exactly(d, g, n)

Current ==
  \A k : LastSnapshot(wire, k) =>
    /\ k > 0 => Follows(After(wire, k), wire[k].message.sessions, wire[k].message.generation, 1)
    /\ k = 0 /\ has_snapshot =>
         Follows(After(wire, 0), sessions, dev_generation, next_delta_sequence)
    /\ k = 0 /\ ~has_snapshot => ~Answered

ListInv == Shaped(wire) /\ Assembling /\ Quiet /\ Current

(* CountedListIsCurrent and UnrefusedTakesEffect of it: the wire is empty. *)
LEMMA ListProperties == KInv /\ Bounds /\ ListInv => CountedListIsCurrent /\ UnrefusedTakesEffect
<1> SUFFICES ASSUME KInv, Bounds, ListInv, wire = <<>>
             PROVE  CountedListIsCurrent /\ UnrefusedTakesEffect
  BY DEF CountedListIsCurrent, UnrefusedTakesEffect, SnapshotTakesEffect
<1>1. LastSnapshot(wire, 0) /\ After(wire, 0) = <<>>
  BY DEF LastSnapshot, After
<1>2. has_snapshot => Follows(<<>>, sessions, dev_generation, next_delta_sequence)
  BY <1>1 DEF ListInv, Current
<1>3. UnrefusedTakesEffect
  BY <1>1 DEF ListInv, Current, UnrefusedTakesEffect, SnapshotTakesEffect, Answered
<1>4. CountedListIsCurrent
  <2> SUFFICES ASSUME ready, has_snapshot, dev_generation = generation, "connect" \notin unsent,
                      next_delta_sequence = lastDeltaSequence + 1
               PROVE  sessions = MacList
    BY DEF CountedListIsCurrent, MacList
  <2>1. lastDeltaSequence \in Nat
    BY DEF KInv, Types
  <2>2. NoGap(<<>>, next_delta_sequence)
    BY <2>1 DEF NoGap
  <2>3. Leads(<<>>, sessions, MacList)
    BY <1>2, <2>2 DEF Follows, Agrees
  <2>4. MacList \subseteq sessions
    BY <2>3 DEF Leads
  <2>5. ASSUME NEW s \in sessions PROVE s \in MacList
    <3>1. PICK t \in MacList : t.key = s.key
      BY <2>3 DEF Leads
    <3>2. t = s
      BY <2>3, <2>4, <3>1 DEF Leads
    <3> QED  BY <3>1, <3>2
  <2> QED  BY <2>4, <2>5
<1> QED  BY <1>3, <1>4

-----------------------------------------------------------------------------
(* The wire. *)
LEMMA ChangeFacts ==
  ASSUME NEW m \in Message, m.type = "DELTA"
  PROVE  Change(m) \in m.sessions
BY DEF Change, Message

LEMMA TailFacts ==
  ASSUME NEW S, NEW w \in Seq(S), w # <<>>
  PROVE  /\ Len(w) \in Nat \ {0} /\ w[1] \in S /\ Head(w) = w[1]
         /\ Tail(w) \in Seq(S) /\ Len(Tail(w)) = Len(w) - 1
         /\ \A i \in 1..(Len(w) - 1) : Tail(w)[i] = w[i + 1]
OBVIOUS

LEMMA JoinFacts ==
  ASSUME NEW S, NEW v \in Seq(S), NEW w \in Seq(S)
  PROVE  /\ v \o w \in Seq(S) /\ Len(v) \in Nat /\ Len(w) \in Nat
         /\ Len(v \o w) = Len(v) + Len(w)
         /\ \A i \in 1..Len(v) : (v \o w)[i] = v[i]
         /\ \A i \in 1..Len(w) : (v \o w)[Len(v) + i] = w[i]
OBVIOUS

LEMMA FunSeq ==
  ASSUME NEW S, NEW n \in Nat, NEW f \in [1..n -> S]
  PROVE  f \in Seq(S) /\ Len(f) = n
OBVIOUS

LEMMA SameSeq ==
  ASSUME NEW S, NEW v \in Seq(S), NEW w \in Seq(S), Len(v) = Len(w),
         \A i \in 1..Len(v) : v[i] = w[i]
  PROVE  v = w
OBVIOUS

LEMMA TailLast ==
  ASSUME NEW w \in Seq(PacketType), w # <<>>, NEW k, LastSnapshot(Tail(w), k)
  PROVE  /\ k \in Nat
         /\ k > 0 => LastSnapshot(w, k + 1) /\ Tail(w)[k] = w[k + 1]
         /\ k = 0 => IF Snap(w, 1) THEN LastSnapshot(w, 1) ELSE LastSnapshot(w, 0)
<1>1. /\ Len(w) \in Nat \ {0} /\ Len(Tail(w)) = Len(w) - 1
      /\ \A i \in 1..(Len(w) - 1) : Tail(w)[i] = w[i + 1]
  BY TailFacts
<1>2. k \in 0..(Len(w) - 1)
  BY <1>1 DEF LastSnapshot
<1>3. \A i \in (k + 2)..Len(w) : ~Snap(w, i)
  <2> SUFFICES ASSUME NEW i \in (k + 2)..Len(w) PROVE ~Snap(w, i)
    OBVIOUS
  <2>1. i - 1 \in (k + 1)..Len(Tail(w)) /\ i - 1 \in 1..(Len(w) - 1) /\ (i - 1) + 1 = i
    BY <1>1, <1>2
  <2>2. ~Snap(Tail(w), i - 1) /\ Tail(w)[i - 1] = w[i]
    BY <1>1, <2>1 DEF LastSnapshot
  <2> QED  BY <2>2 DEF Snap
<1>4. CASE k > 0
  <2>1. Tail(w)[k] = w[k + 1] /\ Snap(Tail(w), k)
    BY <1>1, <1>2, <1>4 DEF LastSnapshot
  <2>2. Snap(w, k + 1)
    BY <2>1 DEF Snap
  <2>3. (k + 1) + 1 = k + 2 /\ k + 1 \in 0..Len(w) /\ k # 0
    BY <1>1, <1>2, <1>4
  <2> QED  BY <1>2, <1>3, <2>1, <2>2, <2>3 DEF LastSnapshot
<1>5. CASE k = 0
  <2>1. CASE Snap(w, 1)
    <3>1. LastSnapshot(w, 1)
      BY <1>1, <1>3, <1>5, <2>1 DEF LastSnapshot
    <3> QED  BY <1>5, <2>1, <3>1
  <2>2. CASE ~Snap(w, 1)
    <3>1. \A i \in 1..Len(w) : i = 1 \/ i \in 2..Len(w)
      BY <1>1
    <3>2. LastSnapshot(w, 0)
      BY <1>1, <1>3, <1>5, <2>2, <3>1 DEF LastSnapshot
    <3> QED  BY <1>5, <2>2, <3>2
  <2> QED  BY <2>1, <2>2
<1> QED  BY <1>2, <1>4, <1>5

(* What comes after the last snapshot, as the wire gets shorter. *)
LEMMA TailAfter ==
  ASSUME NEW w \in Seq(PacketType), w # <<>>
  PROVE  /\ \A k \in 1..Len(w) : After(Tail(w), k - 1) = After(w, k)
         /\ After(Tail(w), 0) = Tail(After(w, 0))
         /\ After(w, 0) # <<>> /\ After(w, 0) \in Seq(Message)
         /\ After(w, 0)[1] = Head(w).message
<1>1. /\ Len(w) \in Nat \ {0} /\ Len(Tail(w)) = Len(w) - 1 /\ Head(w) = w[1]
      /\ \A i \in 1..(Len(w) - 1) : Tail(w)[i] = w[i + 1]
  BY TailFacts
<1>2. ASSUME NEW k \in 1..Len(w) PROVE After(Tail(w), k - 1) = After(w, k)
  <2>1. Len(Tail(w)) - (k - 1) = Len(w) - k
    BY <1>1
  <2>2. \A i \in 1..(Len(w) - k) :
          (k - 1) + i \in 1..(Len(w) - 1) /\ ((k - 1) + i) + 1 = k + i
    BY <1>1
  <2>3. \A i \in 1..(Len(w) - k) : Tail(w)[(k - 1) + i].message = w[k + i].message
    BY <1>1, <2>2
  <2> QED  BY <2>1, <2>3 DEF After
<1>3. After(w, 0) = [i \in 1..Len(w) |-> w[i].message]
  BY <1>1 DEF After
<1>4. \A i \in 1..Len(w) : w[i].message \in Message
  <2>1. \A i \in 1..Len(w) : w[i] \in PacketType
    OBVIOUS
  <2> QED  BY <2>1 DEF PacketType
<1>5. /\ After(w, 0) \in Seq(Message) /\ Len(After(w, 0)) = Len(w)
      /\ After(w, 0)[1] = Head(w).message /\ After(w, 0) # <<>>
  BY <1>1, <1>3, <1>4
<1>6. After(Tail(w), 0) = Tail(After(w, 0))
  <2>1. After(Tail(w), 0) = [i \in 1..(Len(w) - 1) |-> w[i + 1].message]
    BY <1>1 DEF After
  <2>2. /\ Tail(After(w, 0)) \in Seq(Message) /\ Len(Tail(After(w, 0))) = Len(w) - 1
        /\ \A i \in 1..(Len(w) - 1) : Tail(After(w, 0))[i] = After(w, 0)[i + 1]
    BY <1>5, TailFacts
  <2>3. \A i \in 1..(Len(w) - 1) : Tail(After(w, 0))[i] = w[i + 1].message
    BY <1>1, <1>3, <2>2
  <2> QED  BY <1>1, <2>1, <2>2, <2>3
<1> QED  BY <1>2, <1>5, <1>6

LEMMA AfterDeltas ==
  ASSUME NEW w \in Seq(PacketType), Shaped(w), NEW k, LastSnapshot(w, k)
  PROVE  /\ After(w, k) \in Seq(Message)
         /\ \A i \in DOMAIN After(w, k) : After(w, k)[i].type = "DELTA"
<1>1. Len(w) \in Nat /\ k \in 0..Len(w)
  BY DEF LastSnapshot
<1>2. \A i \in 1..(Len(w) - k) : k + i \in (k + 1)..Len(w) /\ k + i \in DOMAIN w
  BY <1>1
<1>3. ASSUME NEW i \in (k + 1)..Len(w), i \in DOMAIN w
      PROVE  w[i].message \in Message /\ w[i].message.type = "DELTA"
  <2>1. w[i] \in PacketType
    BY <1>3
  <2>2. w[i].message \in Message /\ w[i].message.type \in {"SNAPSHOT", "DELTA"}
    BY <2>1 DEF PacketType, Message
  <2>3. ASSUME w[i].message.type = "SNAPSHOT" PROVE FALSE
    <3>1. w[i].index # w[i].count
      BY <1>3, <2>3 DEF LastSnapshot, Snap
    <3>2. i + 1 \in DOMAIN w /\ w[i + 1].index = 2
      BY <1>3, <3>1 DEF Shaped
    <3>3. Snap(w, i + 1)
      BY <3>2 DEF Shaped, Snap
    <3>4. i + 1 \in (k + 1)..Len(w)
      BY <1>1, <1>3, <3>2
    <3> QED  BY <3>3, <3>4 DEF LastSnapshot
  <2> QED  BY <2>2, <2>3
<1>4. \A i \in 1..(Len(w) - k) : /\ w[k + i].message \in Message
                                 /\ w[k + i].message.type = "DELTA"
  BY <1>2, <1>3
<1>5. Len(w) - k \in Nat
  BY <1>1
<1> QED  BY <1>4, <1>5 DEF After

LEMMA AppendShape ==
  ASSUME NEW v \in Seq(PacketType), NEW w \in Seq(PacketType), Shaped(v), Shaped(w),
         w # <<>> => w[1].index = 1
  PROVE  Shaped(v \o w)
<1>1. /\ Len(v) \in Nat /\ Len(w) \in Nat /\ Len(v \o w) = Len(v) + Len(w)
      /\ v \o w \in Seq(PacketType)
      /\ \A i \in 1..Len(v) : (v \o w)[i] = v[i]
      /\ \A i \in 1..Len(w) : (v \o w)[Len(v) + i] = w[i]
  BY JoinFacts
<1>2. DOMAIN (v \o w) = 1..(Len(v) + Len(w)) /\ DOMAIN v = 1..Len(v) /\ DOMAIN w = 1..Len(w)
  BY <1>1
<1> DEFINE u == v \o w
<1> HIDE DEF u
<1> SUFFICES ASSUME NEW i \in DOMAIN u
             PROVE  \/ u[i].index = 1 /\ u[i].count = 1
                    \/ /\ u[i].index = 1 /\ u[i].count = 2
                       /\ i + 1 \in DOMAIN u /\ u[i + 1].index = 2
                    \/ /\ u[i].index = 2 /\ u[i].count = 2
                       /\ u[i].message.type = "SNAPSHOT"
                       /\ i > 1 => u[i - 1].index = 1 /\ u[i - 1].count = 2
  BY DEF Shaped, u
<1>3. CASE i \in 1..Len(v)
  <2>1. u[i] = v[i] /\ i \in DOMAIN v
    BY <1>1, <1>2, <1>3 DEF u
  <2>2. i + 1 \in DOMAIN v => u[i + 1] = v[i + 1] /\ i + 1 \in DOMAIN u
    BY <1>1, <1>2 DEF u
  <2>3. i > 1 => u[i - 1] = v[i - 1]
    BY <1>1, <1>2, <1>3 DEF u
  <2> QED  BY <2>1, <2>2, <2>3 DEF Shaped
<1>4. CASE i \notin 1..Len(v)
  <2> DEFINE j == i - Len(v)
  <2>1. j \in DOMAIN w /\ i = Len(v) + j /\ j \in 1..Len(w)
    <3>1. i \in 1..(Len(v) + Len(w))
      BY <1>2 DEF u
    <3>2. j \in 1..Len(w) /\ i = Len(v) + j
      BY <1>1, <1>4, <3>1
    <3> QED  BY <1>2, <3>2
  <2>2. u[i] = w[j]
    BY <1>1, <2>1 DEF u
  <2>3. j + 1 \in DOMAIN w => u[i + 1] = w[j + 1] /\ i + 1 \in DOMAIN u
    <3>1. ASSUME j + 1 \in 1..Len(w)
          PROVE  u[Len(v) + (j + 1)] = w[j + 1] /\ Len(v) + (j + 1) = i + 1
      <4>1. u[Len(v) + (j + 1)] = w[j + 1]
        BY <1>1, <3>1 DEF u
      <4>2. Len(v) + (j + 1) = i + 1
        BY <1>1, <2>1
      <4> QED  BY <4>1, <4>2
    <3>2. j + 1 \in 1..Len(w) => i + 1 \in 1..(Len(v) + Len(w))
      BY <1>1, <2>1
    <3> QED  BY <1>2, <3>1, <3>2 DEF u
  <2>4. j > 1 => u[i - 1] = w[j - 1]
    <3>1. ASSUME j > 1
          PROVE  j - 1 \in 1..Len(w) /\ Len(v) + (j - 1) = i - 1
      BY <1>1, <2>1, <3>1
    <3> QED  BY <1>1, <3>1 DEF u
  <2>5. j = 1 => w[j].index = 1
    BY <2>1
  <2>6. j = 1 \/ j > 1
    BY <1>1, <2>1
  <2> HIDE DEF j
  <2> QED  BY <2>1, <2>2, <2>3, <2>4, <2>5, <2>6 DEF Shaped
<1> QED  BY <1>3, <1>4

-----------------------------------------------------------------------------
(* Deltas and the list they lead to. *)
Replaced(b, m) == {s \in b : s.key # Change(m).key} \union {Change(m)}

(* The first delta is applied. *)
LEMMA LeadsOn ==
  ASSUME NEW d \in Seq(Message), d # <<>>, NEW b, NEW told, Leads(d, b, told)
  PROVE  Leads(Tail(d), Replaced(b, d[1]), told)
<1> DEFINE c == Change(d[1])
           b2 == Replaced(b, d[1])
<1>1. /\ Len(d) \in Nat \ {0} /\ Len(Tail(d)) = Len(d) - 1 /\ Tail(d) \in Seq(Message)
      /\ \A i \in 1..(Len(d) - 1) : Tail(d)[i] = d[i + 1]
  BY TailFacts
<1>2. \A i \in DOMAIN Tail(d) : Tail(d)[i] = d[i + 1] /\ i + 1 \in DOMAIN d /\ 1 < i + 1
  BY <1>1
<1>3. 1 \in DOMAIN d
  BY <1>1
<1>4. /\ c \in b2
      /\ \A s \in b : s.key # c.key => s \in b2
      /\ \A s \in b2 : s = c \/ (s \in b /\ s.key # c.key)
  BY DEF Replaced
<1> HIDE DEF c, b2
<1>5. ASSUME NEW s \in told
      PROVE  \/ s \in b2 /\ \A j \in DOMAIN Tail(d) : ~Overrides(Tail(d)[j], s)
             \/ \E i \in DOMAIN Tail(d) : /\ Change(Tail(d)[i]) = s
                                          /\ \A j \in DOMAIN Tail(d) :
                                               i < j => ~Overrides(Tail(d)[j], s)
  <2>1. CASE s \in b /\ \A j \in DOMAIN d : ~Overrides(d[j], s)
    <3>1. s \in b2
      BY <1>3, <1>4, <2>1 DEF Overrides, c
    <3> QED  BY <1>2, <2>1, <3>1
  <2>2. ASSUME NEW i \in DOMAIN d, Change(d[i]) = s,
               \A j \in DOMAIN d : i < j => ~Overrides(d[j], s)
        PROVE  \/ s \in b2 /\ \A j \in DOMAIN Tail(d) : ~Overrides(Tail(d)[j], s)
               \/ \E k \in DOMAIN Tail(d) : /\ Change(Tail(d)[k]) = s
                                            /\ \A j \in DOMAIN Tail(d) :
                                                 k < j => ~Overrides(Tail(d)[j], s)
    <3>1. CASE i = 1
      <4>1. s \in b2
        BY <1>4, <2>2, <3>1 DEF c
      <4> QED  BY <1>2, <2>2, <3>1, <4>1
    <3>2. CASE i # 1
      <4>1. i - 1 \in DOMAIN Tail(d) /\ Tail(d)[i - 1] = d[i]
        BY <1>1, <3>2
      <4>2. \A j \in DOMAIN Tail(d) : i - 1 < j => i < j + 1
        BY <1>1, <2>2
      <4> QED  BY <1>2, <2>2, <4>1, <4>2
    <3> QED  BY <3>1, <3>2
  <2> QED  BY <2>1, <2>2 DEF Leads
<1>6. \A s \in b2 : \E t \in told : t.key = s.key
  BY <1>3, <1>4 DEF Leads, c
<1>7. \A t \in told : \E s \in b2 : s.key = t.key
  BY <1>4 DEF Leads
<1>8. \A i \in DOMAIN Tail(d) : \E t \in told : t.key = Change(Tail(d)[i]).key
  BY <1>2 DEF Leads
<1>9. \A s, t \in b2 : s.key = t.key => s = t
  BY <1>4 DEF Leads
<1> QED  BY <1>5, <1>6, <1>7, <1>8, <1>9 DEF Leads, b2

(* It takes the place of a session that is there. *)
LEMMA LeadsFits ==
  ASSUME NEW d \in Seq(Message), d # <<>>, NEW b, NEW told, Leads(d, b, told),
         IsFiniteSet(b), Cardinality(b) <= Capacity
  PROVE  Cardinality(Replaced(b, d[1])) <= Capacity
<1> DEFINE c == Change(d[1])
           b2 == Replaced(b, d[1])
<1>1. 1 \in DOMAIN d
  OBVIOUS
<1>2. PICK s \in b : s.key = c.key
  BY <1>1 DEF Leads
<1>3. b2 \subseteq (b \ {s}) \union {c}
  BY <1>2 DEF Replaced
<1>4. /\ IsFiniteSet(b \ {s}) /\ Cardinality(b \ {s}) = Cardinality(b) - 1
      /\ Cardinality(b) \in Nat
  BY <1>2, FS_RemoveElement, FS_CardinalityType
<1>5. /\ IsFiniteSet((b \ {s}) \union {c})
      /\ \/ Cardinality((b \ {s}) \union {c}) = Cardinality(b \ {s})
         \/ Cardinality((b \ {s}) \union {c}) = Cardinality(b \ {s}) + 1
  BY <1>4, FS_AddElement
<1>6. /\ IsFiniteSet(b2) /\ Cardinality(b2) <= Cardinality((b \ {s}) \union {c})
  BY <1>3, <1>5, FS_Subset
<1>7. Cardinality(b2) \in Nat /\ Capacity \in Nat
  BY <1>6, FS_CardinalityType, SyncAssumption
<1> HIDE DEF b2, c
<1>8. Cardinality(b2) <= Capacity
  BY <1>4, <1>5, <1>6, <1>7
<1> QED  BY <1>8 DEF b2

(* What a list is told as has one session of each key. *)
LEMMA ToldKeys ==
  ASSUME NEW list, NEW keys, NEW next, DOMAIN list = DOMAIN keys, KeysGiven(keys, next)
  PROVE  \A s, t \in Told(list, keys) : s.key = t.key => s = t
BY DEF Told, KeysGiven

LEMMA LeadsNowhere ==
  ASSUME NEW list, NEW keys, NEW next, DOMAIN list = DOMAIN keys, KeysGiven(keys, next)
  PROVE  Leads(<<>>, Told(list, keys), Told(list, keys))
BY ToldKeys DEF Leads

(* A delta for each session that changed. *)
LEMMA LeadsFurther ==
  ASSUME NEW list, NEW old, NEW keys, NEW next, NEW changed, NEW b,
         DOMAIN list = DOMAIN keys, DOMAIN old = DOMAIN list, KeysGiven(keys, next),
         changed = {id \in DOMAIN list : list[id] # old[id]},
         NEW d \in Seq(Message), NEW e \in Seq(Message),
         Leads(d, b, Told(old, keys)),
         \A i \in DOMAIN e : \E id \in changed :
           Change(e[i]) = [key |-> keys[id], id |-> id, content |-> list[id]],
         \A id \in changed : \E i \in DOMAIN e :
           Change(e[i]) = [key |-> keys[id], id |-> id, content |-> list[id]]
  PROVE  Leads(d \o e, b, Told(list, keys))
<1> DEFINE told == Told(list, keys)
           was == Told(old, keys)
           f == d \o e
<1>1. /\ f \in Seq(Message) /\ Len(d) \in Nat /\ Len(e) \in Nat
      /\ Len(f) = Len(d) + Len(e)
      /\ \A i \in 1..Len(d) : f[i] = d[i]
      /\ \A i \in 1..Len(e) : f[Len(d) + i] = e[i]
  BY JoinFacts
<1>2. /\ DOMAIN f = 1..(Len(d) + Len(e))
      /\ DOMAIN d = 1..Len(d) /\ DOMAIN e = 1..Len(e)
  BY <1>1
<1>3. \A i \in DOMAIN f : \/ i \in DOMAIN d /\ f[i] = d[i]
                          \/ /\ i > Len(d) /\ i - Len(d) \in DOMAIN e
                             /\ f[i] = e[i - Len(d)]
  <2> SUFFICES ASSUME NEW i \in DOMAIN f, i \notin DOMAIN d
               PROVE  i > Len(d) /\ i - Len(d) \in DOMAIN e /\ f[i] = e[i - Len(d)]
    BY <1>1, <1>2
  <2>1. i > Len(d) /\ i - Len(d) \in 1..Len(e) /\ Len(d) + (i - Len(d)) = i
    BY <1>1, <1>2
  <2> QED  BY <1>1, <1>2, <2>1
<1>4. \A i \in DOMAIN d : i \in DOMAIN f /\ f[i] = d[i]
  BY <1>1, <1>2
<1>5. \A i \in DOMAIN e : Len(d) + i \in DOMAIN f /\ f[Len(d) + i] = e[i]
  BY <1>1, <1>2
<1>6. \A i \in DOMAIN e : Change(e[i]) \in told
  BY DEF Told
<1>7. \A s, t \in told : s.key = t.key => s = t
  BY ToldKeys
<1>8. \A i \in DOMAIN e : \A s \in told : ~Overrides(e[i], s)
  BY <1>6, <1>7 DEF Overrides
<1>9. /\ \A s \in was : \E t \in told : t.key = s.key
      /\ \A t \in told : \E s \in was : s.key = t.key
  <2>1. ASSUME NEW x, NEW y, DOMAIN x = DOMAIN y, NEW s \in Told(x, keys)
        PROVE  \E t \in Told(y, keys) : t.key = s.key
    <3>1. PICK id \in DOMAIN x : s = [key |-> keys[id], id |-> id, content |-> x[id]]
      BY <2>1 DEF Told
    <3> DEFINE t == [key |-> keys[id], id |-> id, content |-> y[id]]
    <3>2. t \in Told(y, keys) /\ t.key = s.key
      BY <2>1, <3>1 DEF Told
    <3> QED  BY <3>2
  <2> QED  BY <2>1
<1>10. ASSUME NEW s \in told
       PROVE  \/ s \in b /\ \A j \in DOMAIN f : ~Overrides(f[j], s)
              \/ \E i \in DOMAIN f : /\ Change(f[i]) = s
                                     /\ \A j \in DOMAIN f : i < j => ~Overrides(f[j], s)
  <2>1. PICK id \in DOMAIN list : s = [key |-> keys[id], id |-> id, content |-> list[id]]
    BY <1>10 DEF Told
  <2>2. CASE id \in changed
    <3>1. PICK i \in DOMAIN e : Change(e[i]) = s
      BY <2>1, <2>2
    <3>2. Len(d) + i \in DOMAIN f /\ Change(f[Len(d) + i]) = s
      BY <1>5, <3>1
    <3>3. \A j \in DOMAIN f : Len(d) + i < j => j \notin DOMAIN d
      BY <1>1, <1>2
    <3>4. \A j \in DOMAIN f : Len(d) + i < j => ~Overrides(f[j], s)
      BY <1>3, <1>8, <3>3
    <3> QED  BY <3>2, <3>4
  <2>3. CASE id \notin changed
    <3>1. s \in was
      BY <2>1, <2>3 DEF Told
    <3>2. CASE s \in b /\ \A j \in DOMAIN d : ~Overrides(d[j], s)
      BY <1>3, <1>8, <3>2
    <3>3. CASE \E i \in DOMAIN d : /\ Change(d[i]) = s
                                   /\ \A j \in DOMAIN d : i < j => ~Overrides(d[j], s)
      BY <1>3, <1>4, <1>8, <3>3
    <3> QED  BY <3>1, <3>2, <3>3 DEF Leads
  <2> QED  BY <2>2, <2>3
<1>11. \A s \in b : \E t \in told : t.key = s.key
  BY <1>9 DEF Leads
<1>12. \A t \in told : \E s \in b : s.key = t.key
  BY <1>9 DEF Leads
<1>13. \A i \in DOMAIN f : \E t \in told : t.key = Change(f[i]).key
  BY <1>3, <1>6, <1>9 DEF Leads
<1>14. \A s, t \in b : s.key = t.key => s = t
  BY DEF Leads
<1> QED  BY <1>10, <1>11, <1>12, <1>13, <1>14 DEF Leads

-----------------------------------------------------------------------------
(* Nothing left out is in order and without a gap. *)
LEMMA ExactIsOrdered ==
  ASSUME NEW d \in Seq(Message), NEW g, NEW n \in Nat, lastDeltaSequence \in Nat,
         Exactly(d, g, n)
  PROVE  Ordered(d, n) /\ NoGap(d, n)
<1>1. Len(d) \in Nat /\ DOMAIN d = 1..Len(d) /\ n + Len(d) = lastDeltaSequence + 1
  BY DEF Exactly
<1>2. \A i \in DOMAIN d : d[i].generation = generation /\ d[i].sequence = n + i - 1
  BY DEF Exactly
<1>3. Ordered(d, n)
  BY <1>1, <1>2 DEF Ordered
<1>4. ASSUME NEW q \in n..lastDeltaSequence PROVE \E i \in DOMAIN d : d[i].sequence = q
  <2>1. q - n + 1 \in DOMAIN d /\ n + (q - n + 1) - 1 = q
    BY <1>1
  <2> QED  BY <1>2, <2>1
<1> QED  BY <1>3, <1>4 DEF NoGap

(* A delta is applied, or is found to be out of order. *)
LEMMA ApplyFollows ==
  ASSUME KInv, Bounds, has_snapshot, NEW d \in Seq(Message), d # <<>>,
         Follows(d, sessions, dev_generation, next_delta_sequence), ApplyDelta(d[1])
  PROVE  /\ has_snapshot' => Follows(Tail(d), sessions', dev_generation', next_delta_sequence')
         /\ ~has_snapshot' => ~Answered
<1> DEFINE n == next_delta_sequence
<1>1. /\ Len(d) \in Nat \ {0} /\ Len(Tail(d)) = Len(d) - 1 /\ d[1] \in Message
      /\ \A i \in 1..(Len(d) - 1) : Tail(d)[i] = d[i + 1]
      /\ Tail(d) \in Seq(Message)
  BY TailFacts
<1>2. /\ DOMAIN d = 1..Len(d) /\ DOMAIN Tail(d) = 1..(Len(d) - 1)
      /\ \A i \in DOMAIN d : d[i].sequence \in Nat
  BY <1>1 DEF Message
<1>3. /\ n \in Nat /\ lastDeltaSequence \in Nat /\ generation \in Nat /\ dev_generation \in Nat
      /\ IsFiniteSet(sessions) /\ Cardinality(sessions) <= Capacity
  BY SyncAssumption DEF KInv, Types, Bounds, DeviceBounds
<1>4. Answered => /\ ready /\ "connect" \notin unsent /\ dev_generation = generation
                  /\ Exactly(d, dev_generation, n) /\ Ordered(d, n) /\ Leads(d, sessions, MacList)
  <2> SUFFICES ASSUME Answered
               PROVE  /\ ready /\ "connect" \notin unsent /\ dev_generation = generation
                      /\ Exactly(d, dev_generation, n) /\ Ordered(d, n)
                      /\ Leads(d, sessions, MacList)
    OBVIOUS
  <2>1. Exactly(d, dev_generation, n) /\ ready /\ "connect" \notin unsent
    BY DEF Follows, Answered
  <2>2. Ordered(d, n) /\ NoGap(d, n) /\ dev_generation = generation
    BY <1>3, <2>1, ExactIsOrdered DEF Exactly
  <2> QED  BY <2>1, <2>2 DEF Follows, Agrees
<1>5. WithSession(d[1]) = Replaced(sessions, d[1])
  BY DEF WithSession, Replaced, Change
<1>6. CASE ~InSequence(d[1]) /\ InvalidateSnapshot
  <2>1. ~has_snapshot'
    BY <1>6 DEF InvalidateSnapshot
  <2>2. ASSUME Answered PROVE FALSE
    <3>1. d[1].generation = generation /\ d[1].sequence = n + 1 - 1
      BY <1>1, <1>2, <1>4, <2>2 DEF Exactly
    <3> QED  BY <1>3, <1>4, <1>6, <2>2, <3>1 DEF InSequence
  <2> QED  BY <2>1, <2>2
<1>7. CASE InSequence(d[1]) /\ Cardinality(WithSession(d[1])) > Capacity /\ UNCHANGED device
  <2>1. ASSUME Answered PROVE FALSE
    <3>1. Cardinality(Replaced(sessions, d[1])) <= Capacity
      BY <1>3, <1>4, <2>1, LeadsFits
    <3>2. /\ IsFiniteSet(Replaced(sessions, d[1])) /\ Capacity \in Nat
      BY <1>3, SyncAssumption, FS_Union, FS_Subset, FS_Singleton DEF Replaced
    <3>3. Cardinality(Replaced(sessions, d[1])) \in Nat
      BY <3>2, FS_CardinalityType
    <3> QED  BY <1>5, <1>7, <3>1, <3>2, <3>3
  <2>2. ASSUME ready, "connect" \notin unsent
        PROVE  Agrees(Tail(d), sessions, dev_generation, n)
    <3>1. Agrees(d, sessions, dev_generation, n)
      BY <2>2 DEF Follows
    <3>2. ASSUME dev_generation = generation
          PROVE  Ordered(Tail(d), n) /\ ~NoGap(Tail(d), n)
      <4>1. Ordered(d, n)
        BY <3>1, <3>2 DEF Agrees
      <4>2. d[1].sequence = n /\ n <= lastDeltaSequence
        BY <1>1, <1>2, <1>7, <4>1 DEF InSequence, Ordered
      <4>3. \A i \in DOMAIN Tail(d) : /\ i + 1 \in DOMAIN d /\ Tail(d)[i] = d[i + 1]
                                      /\ d[1].sequence < d[i + 1].sequence
        BY <1>1, <1>2, <4>1 DEF Ordered
      <4>4. Ordered(Tail(d), n)
        BY <1>1, <1>2, <4>1, <4>3 DEF Ordered
      <4>5. n \in n..lastDeltaSequence
        BY <1>3, <4>2
      <4>6. \A i \in DOMAIN Tail(d) : Tail(d)[i].sequence # n
        BY <1>2, <4>2, <4>3
      <4> QED  BY <4>4, <4>5, <4>6 DEF NoGap
    <3> QED  BY <3>1, <3>2 DEF Agrees
  <2>3. Follows(Tail(d), sessions, dev_generation, n)
    BY <2>1, <2>2 DEF Follows
  <2> QED  BY <1>7, <2>3 DEF device
<1>8. CASE /\ InSequence(d[1]) /\ sessions' = WithSession(d[1])
           /\ next_delta_sequence' = n + 1
           /\ has_snapshot' = has_snapshot /\ dev_generation' = dev_generation
  <2>1. d[1].sequence = n
    BY <1>8 DEF InSequence
  <2>2. \A i \in DOMAIN Tail(d) : i + 1 \in DOMAIN d /\ Tail(d)[i] = d[i + 1] /\ 1 < i + 1
    BY <1>1, <1>2
  <2>3. ASSUME ready, "connect" \notin unsent
        PROVE  Agrees(Tail(d), Replaced(sessions, d[1]), dev_generation, n + 1)
    <3>1. Agrees(d, sessions, dev_generation, n)
      BY <2>3 DEF Follows
    <3>2. ASSUME dev_generation = generation
          PROVE  /\ Ordered(Tail(d), n + 1)
                 /\ NoGap(Tail(d), n + 1) => Leads(Tail(d), Replaced(sessions, d[1]), MacList)
      <4>1. Ordered(d, n) /\ (NoGap(d, n) => Leads(d, sessions, MacList))
        BY <3>1, <3>2 DEF Agrees
      <4>2. n <= lastDeltaSequence
        BY <1>1, <1>2, <2>1, <4>1 DEF Ordered
      <4>3. \A i \in DOMAIN Tail(d) : n < d[i + 1].sequence
        BY <1>1, <1>2, <2>1, <2>2, <4>1 DEF Ordered
      <4>4. Ordered(Tail(d), n + 1)
        <5>1. n + 1 <= lastDeltaSequence + 1
          BY <1>3, <4>2
        <5>2. ASSUME NEW i \in DOMAIN Tail(d)
              PROVE  /\ Tail(d)[i].generation = generation
                     /\ n + 1 <= Tail(d)[i].sequence
                     /\ Tail(d)[i].sequence <= lastDeltaSequence
          BY <1>2, <1>3, <2>2, <4>1, <4>3 DEF Ordered
        <5>3. ASSUME NEW i \in DOMAIN Tail(d), NEW j \in DOMAIN Tail(d), i < j
              PROVE  Tail(d)[i].sequence < Tail(d)[j].sequence
          <6>1. i + 1 < j + 1
            BY <1>1, <1>2, <5>3
          <6> QED  BY <2>2, <4>1, <6>1 DEF Ordered
        <5> QED  BY <5>1, <5>2, <5>3 DEF Ordered
      <4>5. ASSUME NoGap(Tail(d), n + 1) PROVE NoGap(d, n)
        <5> SUFFICES ASSUME NEW q \in n..lastDeltaSequence
                     PROVE  \E i \in DOMAIN d : d[i].sequence = q
          BY DEF NoGap
        <5>1. CASE q = n
          BY <1>1, <1>2, <2>1, <5>1
        <5>2. CASE q # n
          <6>1. q \in (n + 1)..lastDeltaSequence
            BY <1>3, <5>2
          <6> QED  BY <2>2, <4>5, <6>1 DEF NoGap
        <5> QED  BY <5>1, <5>2
      <4> QED  BY <4>1, <4>4, <4>5, LeadsOn
    <3> QED  BY <3>1, <3>2 DEF Agrees
  <2>4. ASSUME Answered PROVE Exactly(Tail(d), dev_generation, n + 1)
    <3>1. /\ dev_generation = generation /\ n + Len(d) = lastDeltaSequence + 1
          /\ \A i \in DOMAIN d : d[i].generation = generation /\ d[i].sequence = n + i - 1
      BY <1>4, <2>4 DEF Exactly
    <3>2. (n + 1) + Len(Tail(d)) = lastDeltaSequence + 1
      BY <1>1, <1>3, <3>1
    <3>3. \A i \in DOMAIN Tail(d) : n + (i + 1) - 1 = (n + 1) + i - 1
      BY <1>2, <1>3
    <3> QED  BY <2>2, <3>1, <3>2, <3>3 DEF Exactly
  <2>5. Follows(Tail(d), Replaced(sessions, d[1]), dev_generation, n + 1)
    BY <2>3, <2>4 DEF Follows
  <2> QED  BY <1>5, <1>8, <2>5
<1> QED  BY <1>6, <1>7, <1>8 DEF ApplyDelta

(* The Mac sends a delta for each session that changed, as far as it can. *)
LEMMA UpdateFollows ==
  ASSUME KInv, NEW list \in Lists, UpdateFields(list), projectedByRemoteID' = list,
         UNCHANGED <<link, infos, info_call, refused>>
  PROVE  \E e \in Seq(PacketType) :
           /\ wire' = wire \o e
           /\ \A i \in DOMAIN e : /\ e[i].index = 1 /\ e[i].count = 1
                                  /\ e[i].message.type = "DELTA"
           /\ e # <<>> => link = "ready"
           /\ \A d \in Seq(Message), g \in Nat, n \in Nat : \A b :
                Follows(d, b, g, n)
                => Follows(d \o [i \in 1..Len(e) |-> e[i].message], b, g, n)'
<1> DEFINE changed == {id \in DOMAIN list : list[id] # projectedByRemoteID[id]}
           m == Cardinality(changed)
           keys == sessionKeyByRemoteID
           last == lastDeltaSequence
<1>1. m \in Nat
  BY ListFacts, FS_Subset, FS_CardinalityType
<1>2. PICK order \in [1..m -> changed] :
        /\ {order[i] : i \in DOMAIN order} = changed
        /\ SendDeltas([i \in DOMAIN order |->
             Delta(generation, lastDeltaSequence + i,
                   [key |-> keys[order[i]], id |-> order[i], content |-> list[order[i]]])])
  BY DEF UpdateFields
<1> DEFINE session(i) == [key |-> keys[order[i]], id |-> order[i],
                          content |-> list[order[i]]]
           deltas == [i \in 1..m |-> Delta(generation, last + i, session(i))]
<1>3. /\ ready /\ ready' = ready /\ DOMAIN list = DOMAIN projectedByRemoteID
      /\ generation' = generation /\ last' = last + m
      /\ keys' = keys /\ nextSessionKey' = nextSessionKey
  BY DEF UpdateFields
<1>4. /\ generation \in Nat /\ last \in Nat /\ keys \in KeyMaps /\ nextSessionKey \in Nat
      /\ KeysGiven(keys, nextSessionKey) /\ DOMAIN list = DOMAIN keys
  BY <1>3 DEF KInv, Types, ReadyKeys
<1>5. Told(list, keys) \in SUBSET Shown
  BY <1>4, ToldFine
<1>6. ASSUME NEW i \in 1..m
      PROVE  /\ deltas[i] \in Message /\ deltas[i].type = "DELTA"
             /\ deltas[i].generation = generation /\ deltas[i].sequence = last + i
             /\ Change(deltas[i]) = session(i)
  <2>1. session(i) \in Shown
    <3>1. order[i] \in DOMAIN list
      BY <1>2
    <3>2. session(i) \in Told(list, keys)
      BY <3>1 DEF Told
    <3> QED  BY <1>5, <3>2
  <2>2. last + i \in Nat
    BY <1>1, <1>4
  <2>3. deltas[i] = Delta(generation, last + i, session(i))
    OBVIOUS
  <2> HIDE DEF session, deltas
  <2>4. /\ deltas[i] \in Message /\ deltas[i].type = "DELTA"
        /\ deltas[i].generation = generation /\ deltas[i].sequence = last + i
        /\ deltas[i].sessions = {session(i)}
    BY <1>4, <2>1, <2>2, <2>3 DEF Delta, Message
  <2> QED  BY <2>4 DEF Change
<1>7. DOMAIN deltas = 1..m /\ SendDeltas(deltas)
  BY <1>2
<1>8. \A id \in changed : \E i \in 1..m : order[i] = id
  BY <1>2
<1> HIDE DEF changed, deltas, session
<1>9. PICK sent \in SUBSET (1..m) :
        /\ wire' = wire \o [i \in 1..Cardinality(sent) |-> Packet(deltas[i], 1, 1)]
        /\ unsent' = IF sent = 1..m THEN unsent ELSE unsent \union {"update"}
        /\ link # "ready" => sent = {}
  BY <1>7 DEF SendDeltas
<1> DEFINE p == Cardinality(sent)
<1>10. /\ p \in Nat /\ p <= m
       /\ sent = 1..m => p = m
       /\ sent = {} => p = 0
  <2>1. IsFiniteSet(1..m) /\ Cardinality(1..m) = m
    <3>1. 1 \in Int /\ m \in Int
      BY <1>1
    <3>2. /\ IsFiniteSet(1..m)
          /\ Cardinality(1..m) = IF 1 > m THEN 0 ELSE m - 1 + 1
      BY <3>1, FS_Interval
    <3> QED  BY <1>1, <3>2
  <2>2. IsFiniteSet(sent) /\ p <= m
    BY <2>1, FS_Subset
  <2> QED  BY <2>1, <2>2, FS_CardinalityType, FS_EmptySet
<1> HIDE DEF p, m, keys, last
<1>11. \A i \in 1..p : i \in 1..m
  BY <1>1, <1>10
<1>12. PICK e \in Seq(PacketType) :
         /\ wire' = wire \o e /\ Len(e) = p /\ DOMAIN e = 1..p
         /\ \A i \in 1..p : /\ e[i].index = 1 /\ e[i].count = 1 /\ e[i].message = deltas[i]
  <2> DEFINE x == [i \in 1..p |-> Packet(deltas[i], 1, 1)]
  <2>1. /\ x \in Seq(PacketType) /\ Len(x) = p /\ DOMAIN x = 1..p
        /\ \A i \in 1..p : /\ x[i].index = 1 /\ x[i].count = 1 /\ x[i].message = deltas[i]
    BY <1>6, <1>10, <1>11 DEF Packet, PacketType
  <2>2. wire' = wire \o x
    BY <1>9 DEF p
  <2> HIDE DEF x
  <2> QED  BY <2>1, <2>2
<1>13. PICK new \in Seq(Message) :
         /\ new = [i \in 1..Len(e) |-> e[i].message] /\ Len(new) = p /\ DOMAIN new = 1..p
         /\ \A i \in 1..p : new[i] = deltas[i]
  <2> DEFINE x == [i \in 1..Len(e) |-> e[i].message]
  <2>1. /\ x \in Seq(Message) /\ Len(x) = p /\ DOMAIN x = 1..p
        /\ \A i \in 1..p : x[i] = deltas[i]
    <3>1. \A i \in 1..p : e[i].message = deltas[i] /\ deltas[i] \in Message
      BY <1>6, <1>11, <1>12
    <3>2. Len(e) = p
      BY <1>12
    <3> QED  BY <1>10, <3>1, <3>2
  <2> HIDE DEF x
  <2> QED  BY <2>1 DEF x
<1>14. new \in Seq(Message) /\ Len(new) = p /\ DOMAIN new = 1..p
  BY <1>13
<1>15. \A i \in 1..p : /\ new[i].generation = generation /\ new[i].sequence = last + i
                       /\ Change(new[i]) = session(i)
  BY <1>6, <1>11, <1>13
<1>16. e # <<>> => link = "ready"
  <2>1. link # "ready" => p = 0
    BY <1>9, <1>10 DEF p
  <2> QED  BY <1>12, <2>1
<1>17. ASSUME NEW d \in Seq(Message), NEW b, NEW g \in Nat, NEW n \in Nat, Follows(d, b, g, n)
       PROVE  Follows(d \o new, b, g, n)'
  <2>0. PICK f \in Seq(Message) : f = d \o new
    BY <1>14, JoinFacts
  <2>1. /\ f \in Seq(Message) /\ Len(d) \in Nat /\ Len(f) = Len(d) + p
        /\ \A i \in 1..Len(d) : f[i] = d[i]
        /\ \A i \in 1..p : f[Len(d) + i] = new[i]
        /\ DOMAIN d = 1..Len(d) /\ DOMAIN f = 1..(Len(d) + p)
    <3>1. /\ Len(d) \in Nat /\ Len(f) = Len(d) + Len(new)
          /\ \A i \in 1..Len(d) : f[i] = d[i]
          /\ \A i \in 1..Len(new) : f[Len(d) + i] = new[i]
      BY <2>0, JoinFacts
    <3> QED  BY <1>14, <3>1
  <2>2. \A i \in DOMAIN d : d[i].sequence \in Nat
    BY DEF Message
  <2>3. \A i \in DOMAIN f : \/ i \in DOMAIN d /\ f[i] = d[i]
                            \/ /\ i \notin DOMAIN d /\ i - Len(d) \in 1..p
                               /\ f[i].generation = generation
                               /\ f[i].sequence = last + (i - Len(d))
    <3> SUFFICES ASSUME NEW i \in DOMAIN f, i \notin DOMAIN d
                 PROVE  /\ i - Len(d) \in 1..p /\ f[i].generation = generation
                        /\ f[i].sequence = last + (i - Len(d))
      BY <2>1
    <3>1. i - Len(d) \in 1..p /\ Len(d) + (i - Len(d)) = i
      BY <1>10, <2>1
    <3>2. f[i] = new[i - Len(d)]
      BY <2>1, <3>1
    <3> QED  BY <1>15, <3>1, <3>2
  <2>4. ASSUME ready', "connect" \notin unsent'
        PROVE  Agrees(f, b, g, n)'
    <3>1. Agrees(d, b, g, n)
      BY <1>3, <1>9, <2>4, <1>17 DEF Follows
    <3>2. ASSUME g = generation
          PROVE  Ordered(f, n)'
      <4>1. Ordered(d, n)
        BY <3>1, <3>2 DEF Agrees
      <4>2. n <= last + 1 /\ n <= last' + 1
        BY <1>1, <1>3, <1>4, <4>1 DEF Ordered, last
      <4>3. ASSUME NEW i \in DOMAIN f
            PROVE  f[i].generation = generation /\ n <= f[i].sequence /\ f[i].sequence <= last'
        <5>1. CASE i \in DOMAIN d /\ f[i] = d[i]
          BY <1>1, <1>3, <1>4, <2>2, <4>1, <5>1 DEF Ordered, last
        <5>2. CASE /\ i - Len(d) \in 1..p /\ f[i].generation = generation
                   /\ f[i].sequence = last + (i - Len(d))
          BY <1>1, <1>3, <1>4, <1>10, <4>2, <5>2
        <5> QED  BY <2>3, <5>1, <5>2
      <4>4. ASSUME NEW i \in DOMAIN f, NEW j \in DOMAIN f, i < j
            PROVE  f[i].sequence < f[j].sequence
        <5>1. CASE j \in DOMAIN d /\ f[j] = d[j]
          <6>1. i \in DOMAIN d /\ f[i] = d[i]
            BY <2>1, <4>4, <5>1
          <6> QED  BY <4>1, <4>4, <5>1, <6>1 DEF Ordered
        <5>2. CASE j - Len(d) \in 1..p /\ f[j].sequence = last + (j - Len(d))
          <6>1. CASE i \in DOMAIN d /\ f[i] = d[i]
            BY <1>4, <2>1, <2>2, <4>1, <5>2, <6>1 DEF Ordered, last
          <6>2. CASE i - Len(d) \in 1..p /\ f[i].sequence = last + (i - Len(d))
            BY <1>4, <2>1, <4>4, <5>2, <6>2
          <6> QED  BY <2>3, <6>1, <6>2
        <5> QED  BY <2>3, <5>1, <5>2
      <4> QED  BY <1>3, <4>2, <4>3, <4>4 DEF Ordered, last
    <3>3. ASSUME g = generation, NoGap(f, n)'
          PROVE  Leads(f, b, Told(list, keys))
      <4>1. Ordered(d, n) /\ (NoGap(d, n) => Leads(d, b, MacList))
        BY <3>1, <3>3 DEF Agrees
      <4>2. n <= last + 1 /\ \A i \in DOMAIN d : d[i].sequence <= last
        BY <4>1 DEF Ordered, last
      <4>3. \A q \in n..last' : \E i \in DOMAIN f : f[i].sequence = q
        BY <3>3 DEF NoGap, last
      <4>4. NoGap(d, n)
        <5> SUFFICES ASSUME NEW q \in n..last PROVE \E i \in DOMAIN d : d[i].sequence = q
          BY DEF NoGap, last
        <5>1. q \in n..last'
          BY <1>1, <1>3, <1>4
        <5>2. PICK i \in DOMAIN f : f[i].sequence = q
          BY <4>3, <5>1
        <5>3. ~(i - Len(d) \in 1..p /\ f[i].sequence = last + (i - Len(d)))
          BY <1>4, <1>10, <5>2
        <5> QED  BY <2>3, <5>2, <5>3
      <4>5. p = m
        <5> SUFFICES ASSUME p < m PROVE FALSE
          BY <1>1, <1>10
        <5>1. last + p + 1 \in n..last'
          BY <1>1, <1>3, <1>4, <1>10, <4>2
        <5>2. PICK i \in DOMAIN f : f[i].sequence = last + p + 1
          BY <4>3, <5>1
        <5>3. CASE i \in DOMAIN d /\ f[i] = d[i]
          BY <1>4, <1>10, <2>2, <4>2, <5>2, <5>3
        <5>4. CASE i - Len(d) \in 1..p /\ f[i].sequence = last + (i - Len(d))
          BY <1>4, <1>10, <5>2, <5>4
        <5> QED  BY <2>3, <5>3, <5>4
      <4>6. Leads(d, b, Told(projectedByRemoteID, keys))
        BY <4>1, <4>4 DEF MacList, keys
      <4>7. \A i \in DOMAIN new : \E id \in changed :
              Change(new[i]) = [key |-> keys[id], id |-> id, content |-> list[id]]
        <5> SUFFICES ASSUME NEW i \in 1..p
                     PROVE  \E id \in changed :
                       Change(new[i]) = [key |-> keys[id], id |-> id, content |-> list[id]]
          BY <1>14
        <5>1. order[i] \in changed
          BY <1>2, <1>11
        <5> QED  BY <1>15, <5>1 DEF session
      <4>8. \A id \in changed : \E i \in DOMAIN new :
              Change(new[i]) = [key |-> keys[id], id |-> id, content |-> list[id]]
        BY <1>8, <1>14, <1>15, <4>5 DEF session
      <4> QED  BY <1>3, <1>4, <1>14, <4>6, <4>7, <4>8, <2>0, LeadsFurther DEF changed
    <3>4. MacList' = Told(list, keys)
      BY <1>3 DEF MacList, Told, keys
    <3>5. g <= generation
      BY <3>1 DEF Agrees
    <3> QED  BY <1>3, <3>2, <3>3, <3>4, <3>5 DEF Agrees
  <2>5. ASSUME Answered' PROVE Exactly(f, g, n)'
    <3>1. Answered /\ p = m
      <4>1. unsent' = {}
        BY <2>5 DEF Answered
      <4>2. sent = 1..m /\ unsent = {}
        BY <1>9, <4>1
      <4> QED  BY <1>3, <1>10, <2>5, <4>2 DEF Answered
    <3>2. /\ g = generation /\ n + Len(d) = last + 1
          /\ \A i \in DOMAIN d : d[i].generation = generation /\ d[i].sequence = n + i - 1
      BY <1>17, <3>1 DEF Follows, Exactly, last
    <3>3. n + Len(f) = last' + 1
      <4>1. Len(f) = Len(d) + m /\ last' = last + m
        BY <1>3, <2>1, <3>1
      <4>2. Len(d) \in Nat /\ m \in Nat /\ last \in Nat /\ n + Len(d) = last + 1
        BY <1>1, <1>4, <2>1, <3>2
      <4>3. ASSUME NEW x \in Nat, NEW y \in Nat, NEW z \in Nat, n + x = z + 1
            PROVE  n + (x + y) = (z + y) + 1
        BY <4>3
      <4>4. n + (Len(d) + m) = (last + m) + 1
        BY <4>2, <4>3
      <4> QED  BY <4>1, <4>4
    <3>4. ASSUME NEW i \in DOMAIN f
          PROVE  f[i].generation = generation /\ f[i].sequence = n + i - 1
      <4>1. CASE i \in DOMAIN d /\ f[i] = d[i]
        BY <3>2, <4>1
      <4>2. CASE /\ f[i].generation = generation
                 /\ f[i].sequence = last + (i - Len(d))
        <5>1. last \in Nat /\ Len(d) \in Nat /\ i \in Nat /\ n + Len(d) = last + 1
          BY <1>4, <2>1, <3>2, <1>10
        <5>2. last + (i - Len(d)) = n + i - 1
          BY <5>1
        <5> QED  BY <4>2, <5>2
      <4> QED  BY <2>3, <4>1, <4>2
    <3> QED  BY <1>3, <3>2, <3>3, <3>4 DEF Exactly, last
  <2>6. Follows(f, b, g, n)'
    BY <2>4, <2>5 DEF Follows
  <2> QED  BY <2>0, <2>6
<1>18. \A d \in Seq(Message), g \in Nat, n \in Nat : \A b :
         Follows(d, b, g, n) => Follows(d \o [i \in 1..Len(e) |-> e[i].message], b, g, n)'
  BY <1>13, <1>17
<1>19. \A i \in DOMAIN e : /\ e[i].index = 1 /\ e[i].count = 1
                           /\ e[i].message.type = "DELTA"
  BY <1>6, <1>11, <1>12
<1>20. wire' = wire \o e
  BY <1>12
<1> QED  BY <1>16, <1>18, <1>19, <1>20

-----------------------------------------------------------------------------
(* ListInv is inductive. *)
LEMMA BaseTypes ==
  ASSUME KInv, Bounds
  PROVE  /\ \A k \in 1..Len(wire) : wire[k].message \in Message /\ wire[k].message.generation \in Nat
         /\ dev_generation \in Nat /\ next_delta_sequence \in Nat
         /\ generation \in Nat /\ lastDeltaSequence \in Nat
<1>1. \A k \in 1..Len(wire) : wire[k] \in PacketType
  BY DEF KInv, Types
<1>2. \A k \in 1..Len(wire) : wire[k].message \in Message
  BY <1>1 DEF PacketType
<1>3. \A k \in 1..Len(wire) : wire[k].message.generation \in Nat
  BY <1>2 DEF Message
<1>4. dev_generation \in Nat /\ next_delta_sequence \in Nat
  BY SyncAssumption DEF Bounds, DeviceBounds
<1> QED  BY <1>2, <1>3, <1>4 DEF KInv, Types

LEMMA AppendLast ==
  ASSUME NEW v \in Seq(PacketType), NEW e \in Seq(PacketType),
         \A i \in DOMAIN e : e[i].message.type = "DELTA", NEW k, LastSnapshot(v \o e, k)
  PROVE  /\ LastSnapshot(v, k)
         /\ After(v \o e, k) = After(v, k) \o [i \in 1..Len(e) |-> e[i].message]
         /\ k > 0 => (v \o e)[k] = v[k]
<1> DEFINE w == v \o e
<1>1. /\ w \in Seq(PacketType) /\ Len(v) \in Nat /\ Len(e) \in Nat
      /\ Len(w) = Len(v) + Len(e)
      /\ \A i \in 1..Len(v) : w[i] = v[i]
      /\ \A i \in 1..Len(e) : w[Len(v) + i] = e[i]
  BY JoinFacts
<1> HIDE DEF w
<1>2. k \in 0..Len(w) /\ (k > 0 => Snap(w, k)) /\ \A i \in (k + 1)..Len(w) : ~Snap(w, i)
  BY DEF LastSnapshot, w
<1>3. k <= Len(v)
  <2> SUFFICES ASSUME k > Len(v) PROVE FALSE
    BY <1>1, <1>2
  <2>1. k - Len(v) \in 1..Len(e) /\ Len(v) + (k - Len(v)) = k /\ k > 0
    BY <1>1, <1>2
  <2>2. w[k] = e[k - Len(v)]
    BY <1>1, <2>1
  <2>3. w[k].message.type = "DELTA"
    BY <2>1, <2>2
  <2> QED  BY <1>2, <2>1, <2>3 DEF Snap
<1>4. k \in 0..Len(v)
  BY <1>1, <1>2, <1>3
<1>5. k > 0 => w[k] = v[k]
  BY <1>1, <1>4
<1>6. LastSnapshot(v, k)
  <2>1. k > 0 => Snap(v, k)
    BY <1>2, <1>5 DEF Snap
  <2>2. ASSUME NEW i \in (k + 1)..Len(v) PROVE ~Snap(v, i)
    <3>1. i \in (k + 1)..Len(w) /\ i \in 1..Len(v)
      BY <1>1, <1>4
    <3> QED  BY <1>1, <1>2, <3>1 DEF Snap
  <2> QED  BY <1>4, <2>1, <2>2 DEF LastSnapshot
<1>7. After(w, k) = After(v, k) \o [i \in 1..Len(e) |-> e[i].message]
  <2> DEFINE x == After(v, k)
             y == [i \in 1..Len(e) |-> e[i].message]
             T == {w[i].message : i \in 1..Len(w)}
             z == After(w, k)
  <2>1. \A i \in 1..Len(v) : i \in 1..Len(w)
    BY <1>1
  <2>2. \A i \in 1..Len(e) : Len(v) + i \in 1..Len(w)
    BY <1>1
  <2>3. \A i \in 1..(Len(v) - k) : k + i \in 1..Len(v)
    BY <1>1, <1>4
  <2>4. /\ DOMAIN x = 1..(Len(v) - k)
        /\ \A i \in 1..(Len(v) - k) : x[i] = w[k + i].message /\ x[i] \in T
    BY <1>1, <2>1, <2>3 DEF After
  <2>5. x \in Seq(T) /\ Len(x) = Len(v) - k
    <3>1. Len(v) - k \in Nat
      BY <1>1, <1>4
    <3>2. x \in [1..(Len(v) - k) -> T]
      BY <2>4 DEF After
    <3> HIDE DEF x, T
    <3> QED  BY <3>1, <3>2, FunSeq
  <2>6. \A i \in 1..Len(e) : y[i] = w[Len(v) + i].message /\ y[i] \in T
    BY <1>1, <2>2
  <2>7. y \in Seq(T) /\ Len(y) = Len(e)
    BY <1>1, <2>6
  <2>8. DOMAIN z = 1..(Len(w) - k) /\ \A i \in 1..(Len(w) - k) : z[i] = w[k + i].message
    BY DEF After
  <2>9. z = [i \in 1..(Len(w) - k) |-> w[k + i].message]
    BY DEF After
  <2> HIDE DEF x, y, z, T
  <2>10. /\ x \o y \in Seq(T) /\ Len(x \o y) = Len(x) + Len(y)
         /\ \A i \in 1..Len(x) : (x \o y)[i] = x[i]
         /\ \A i \in 1..Len(y) : (x \o y)[Len(x) + i] = y[i]
    <3>1. x \in Seq(T) /\ y \in Seq(T)
      BY <2>5, <2>7
    <3> QED  BY ONLY <3>1, JoinFacts
  <2>11. Len(x \o y) = Len(w) - k /\ Len(w) - k \in Nat
    <3>1. Len(w) - k = (Len(v) - k) + Len(e) /\ Len(w) - k \in Nat
      BY <1>1, <1>4
    <3> QED  BY <2>5, <2>7, <2>10, <3>1
  <2>12. ASSUME NEW i \in 1..(Len(w) - k) PROVE (x \o y)[i] = w[k + i].message
    <3>1. CASE i \in 1..(Len(v) - k)
      BY <2>4, <2>5, <2>10, <3>1
    <3>2. CASE i \notin 1..(Len(v) - k)
      <4>1. i - Len(x) \in 1..Len(y) /\ Len(x) + (i - Len(x)) = i
            /\ Len(v) + (i - Len(x)) = k + i
        BY <1>1, <1>4, <2>5, <2>7, <3>2
      <4>2. (x \o y)[i] = y[i - Len(x)]
        BY <2>10, <4>1
      <4>3. y[i - Len(x)] = w[Len(v) + (i - Len(x))].message
        BY <2>6, <2>7, <4>1
      <4> QED  BY <4>1, <4>2, <4>3
    <3> QED  BY <3>1, <3>2
  <2>13. z \in Seq(T) /\ Len(z) = Len(w) - k
    <3>1. z \in [1..(Len(w) - k) -> T]
      <4>1. \A i \in 1..(Len(w) - k) : (x \o y)[i] \in T
        BY <2>10, <2>11
      <4> QED  BY <2>9, <2>12, <4>1
    <3> QED  BY <2>11, <3>1, FunSeq
  <2>14. x \o y = z
    BY <2>8, <2>10, <2>11, <2>12, <2>13, SameSeq
  <2> QED  BY <2>14 DEF x, y, z
<1> QED  BY <1>5, <1>6, <1>7 DEF w

(* The device and what it gets from the packets under way stay. *)
LEMMA Carry ==
  ASSUME KInv, Bounds, ListInv, UNCHANGED device, NEW e \in Seq(PacketType),
         wire' = wire \o e, \A i \in DOMAIN e : e[i].message.type = "DELTA",
         \A d \in Seq(Message), g \in Nat, n \in Nat : \A b :
           Follows(d, b, g, n) => Follows(d \o [i \in 1..Len(e) |-> e[i].message], b, g, n)',
         ~Answered /\ ~has_snapshot => ~Answered'
  PROVE  Current'
<1> SUFFICES ASSUME NEW k, LastSnapshot(wire, k)'
             PROVE  /\ k > 0 => Follows(After(wire, k), wire[k].message.sessions,
                                        wire[k].message.generation, 1)'
                    /\ k = 0 /\ has_snapshot' =>
                         Follows(After(wire, 0), sessions, dev_generation, next_delta_sequence)'
                    /\ k = 0 /\ ~has_snapshot' => ~Answered'
  BY DEF Current
<1>1. wire \in Seq(PacketType) /\ Shaped(wire)
  BY DEF KInv, Types, ListInv
<1>2. LastSnapshot(wire \o e, k)
  OBVIOUS
<1>3. /\ LastSnapshot(wire, k)
      /\ After(wire \o e, k) = After(wire, k) \o [i \in 1..Len(e) |-> e[i].message]
      /\ k > 0 => (wire \o e)[k] = wire[k]
  BY <1>1, <1>2, AppendLast
<1>4. PICK d \in Seq(Message) : d = After(wire, k)
  BY <1>1, <1>3, AfterDeltas
<1>5. PICK f : f = d \o [i \in 1..Len(e) |-> e[i].message]
  OBVIOUS
<1>6. After(wire', k) = f
  BY <1>3, <1>4, <1>5
<1>7. \A g \in Nat, n \in Nat : \A b : Follows(d, b, g, n) => Follows(f, b, g, n)'
  BY <1>4, <1>5
<1>8. ASSUME k > 0
      PROVE  Follows(After(wire, k), wire[k].message.sessions, wire[k].message.generation, 1)'
  <2>1. k \in 1..Len(wire) /\ wire'[k] = wire[k]
    BY <1>3, <1>8 DEF LastSnapshot
  <2>2. PICK b : \E g \in Nat : b = wire[k].message.sessions /\ g = wire[k].message.generation
    BY <2>1, BaseTypes
  <2>5. PICK g \in Nat : b = wire[k].message.sessions /\ g = wire[k].message.generation
    BY <2>2
  <2>3. Follows(d, b, g, 1)
    BY <1>3, <1>4, <1>8, <2>5 DEF ListInv, Current
  <2>4. Follows(f, b, g, 1)'
    BY <1>7, <2>3
  <2> QED  BY <1>6, <2>1, <2>4, <2>5
<1>9. ASSUME k = 0, has_snapshot'
      PROVE  Follows(After(wire, 0), sessions, dev_generation, next_delta_sequence)'
  <2>1. PICK g \in Nat, n \in Nat : g = dev_generation /\ n = next_delta_sequence
    BY BaseTypes
  <2>4. PICK b : b = sessions
    OBVIOUS
  <2>2. Follows(d, b, g, n)
    BY <1>3, <1>4, <1>9, <2>1, <2>4 DEF ListInv, Current, device
  <2>3. Follows(f, b, g, n)'
    BY <1>7, <2>2
  <2> QED  BY <1>6, <1>9, <2>1, <2>3, <2>4 DEF device
<1>10. k = 0 /\ ~has_snapshot' => ~Answered'
  BY <1>3 DEF ListInv, Current, device
<1> QED  BY <1>8, <1>9, <1>10

LEMMA FollowsSame ==
  ASSUME UNCHANGED reducer, unsent' = unsent, Answered' => Answered
  PROVE  \A d, b, g, n : Follows(d, b, g, n) => Follows(d, b, g, n)'
<1> SUFFICES ASSUME NEW d, NEW b, NEW g, NEW n, Follows(d, b, g, n)
             PROVE  Follows(d, b, g, n)'
  OBVIOUS
<1>1. MacList' = MacList
  BY DEF MacList, Told, reducer
<1>2. Agrees(d, b, g, n) => Agrees(d, b, g, n)'
  BY <1>1 DEF Agrees, Ordered, NoGap, reducer
<1>3. Exactly(d, g, n) => Exactly(d, g, n)'
  BY DEF Exactly, reducer
<1> QED  BY <1>2, <1>3 DEF Follows, reducer

(* Carry with nothing sent. *)
LEMMA CarryNothing ==
  ASSUME KInv, Bounds, ListInv, UNCHANGED device, wire' = wire,
         \A d \in Seq(Message), g \in Nat, n \in Nat : \A b :
           Follows(d, b, g, n) => Follows(d, b, g, n)',
         ~Answered /\ ~has_snapshot => ~Answered'
  PROVE  Current'
<1>1. PICK e \in Seq(PacketType) : e = <<>>
  <2>1. <<>> \in Seq(PacketType)
    OBVIOUS
  <2> QED  BY <2>1
<1>2. wire' = wire \o e
  BY <1>1 DEF KInv, Types
<1>3. \A i \in DOMAIN e : e[i].message.type = "DELTA"
  BY <1>1
<1>4. \A d \in Seq(Message) : d \o [i \in 1..Len(e) |-> e[i].message] = d
  BY <1>1
<1>5. \A d \in Seq(Message), g \in Nat, n \in Nat : \A b :
        Follows(d, b, g, n) => Follows(d \o [i \in 1..Len(e) |-> e[i].message], b, g, n)'
  BY <1>4
<1> QED  BY <1>2, <1>3, <1>5, Carry

(* Steps that touch neither the Mac's list nor the device's. *)
LEMMA SameKeeps ==
  ASSUME KInv, Bounds, ListInv, UNCHANGED <<reducer, wire, reassembly, device>>,
         unsent' = unsent, Answered' => Answered, Quiet'
  PROVE  ListInv'
<1>1. Current'
  BY FollowsSame, CarryNothing
<1>2. Shaped(wire)' /\ Assembling'
  BY DEF ListInv, Shaped, Assembling, device
<1> QED  BY <1>1, <1>2 DEF ListInv

LEMMA PacketsEnd ==
  ASSUME NEW m \in Message, m.type = "SNAPSHOT"
  PROVE  \E p \in Seq(PacketType) :
           /\ p = Packets(m) /\ Shaped(p) /\ Len(p) \in Nat \ {0} /\ p[1].index = 1
           /\ Snap(p, Len(p)) /\ p[Len(p)].message = m
<1>1. \A index, count \in Nat : /\ Packet(m, index, count) \in PacketType
                                /\ Packet(m, index, count).message = m
                                /\ Packet(m, index, count).index = index
                                /\ Packet(m, index, count).count = count
  BY DEF Packet, PacketType
<1>2. CASE m.sessions # {}
  <2>1. PICK p \in Seq(PacketType) : p = <<Packet(m, 1, 2), Packet(m, 2, 2)>>
    <3>1. <<Packet(m, 1, 2), Packet(m, 2, 2)>> \in Seq(PacketType)
      BY <1>1
    <3> QED  BY <3>1
  <2>2. p = Packets(m)
    BY <1>2, <2>1 DEF Packets
  <2>3. Len(p) = 2 /\ p[1] = Packet(m, 1, 2) /\ p[2] = Packet(m, 2, 2) /\ DOMAIN p = {1, 2}
    BY <2>1
  <2>4. Shaped(p) /\ Snap(p, 2)
    BY <1>1, <2>3 DEF Shaped, Snap
  <2>5. p[1].index = 1 /\ p[2].message = m
    BY <1>1, <2>3
  <2>6. Len(p) \in Nat \ {0} /\ Snap(p, Len(p)) /\ p[Len(p)].message = m
    BY <2>3, <2>4, <2>5
  <2> QED  BY <2>2, <2>4, <2>5, <2>6
<1>3. CASE m.sessions = {}
  <2>1. PICK p \in Seq(PacketType) : p = <<Packet(m, 1, 1)>>
    <3>1. <<Packet(m, 1, 1)>> \in Seq(PacketType)
      BY <1>1
    <3> QED  BY <3>1
  <2>2. p = Packets(m)
    BY <1>3, <2>1 DEF Packets
  <2>3. Len(p) = 1 /\ p[1] = Packet(m, 1, 1) /\ DOMAIN p = {1}
    BY <2>1
  <2>4. Shaped(p) /\ Snap(p, 1)
    BY <1>1, <2>3 DEF Shaped, Snap
  <2>5. p[1].index = 1 /\ p[1].message = m
    BY <1>1, <2>3
  <2>6. Len(p) \in Nat \ {0} /\ Snap(p, Len(p)) /\ p[Len(p)].message = m
    BY <2>3, <2>4, <2>5
  <2> QED  BY <2>2, <2>4, <2>5, <2>6
<1> QED  BY <1>2, <1>3

(* connect and the snapshot of updateSessions. *)
LEMMA SnapshotKeeps ==
  ASSUME KInv, Bounds, ListInv, NEW list \in Lists, NEW g \in Nat, NEW kind,
         Project(list), projectedByRemoteID' = list, ready' = TRUE,
         generation' = g, lastDeltaSequence' = 0,
         SendSnapshot(Snapshot(g, list, sessionKeyByRemoteID'), kind),
         kind = "connect" \/ (kind = "update" /\ ready /\ g = generation + 1),
         UNCHANGED <<link, reassembly, device>>
  PROVE  ListInv'
<1> DEFINE keys == sessionKeyByRemoteID'
<1>1. keys \in KeyMaps /\ DOMAIN list = DOMAIN keys /\ nextSessionKey' \in Nat
      /\ KeysGiven(keys, nextSessionKey')
  BY ProjectStep
<1>2. PICK m \in Message : m = Snapshot(g, list, keys)
  BY <1>1, ToldFine, SnapshotIsMessage
<1>3. m.type = "SNAPSHOT" /\ m.generation = g /\ m.sessions = Told(list, keys)
  BY <1>2 DEF Snapshot
<1>4. MacList' = m.sessions
  BY <1>3 DEF MacList
<1>5. Leads(<<>>, m.sessions, m.sessions)
  BY <1>1, <1>3, LeadsNowhere
<1>6. wire \in Seq(PacketType) /\ Shaped(wire)
  BY DEF KInv, Types, ListInv
<1>7. CASE link = "ready" /\ wire' = wire \o Packets(m) /\ unsent' = {}
  <2>1. PICK p \in Seq(PacketType) :
          /\ p = Packets(m) /\ Shaped(p) /\ Len(p) \in Nat \ {0} /\ p[1].index = 1
          /\ Snap(p, Len(p)) /\ p[Len(p)].message = m
    BY <1>3, PacketsEnd
  <2>2. PICK w \in Seq(PacketType) : w = wire \o p
    <3>1. wire \o p \in Seq(PacketType)
      BY <1>6, <2>1, JoinFacts
    <3> QED  BY <3>1
  <2>3. /\ Len(wire) \in Nat /\ Len(w) = Len(wire) + Len(p)
        /\ \A i \in 1..Len(wire) : w[i] = wire[i]
        /\ \A i \in 1..Len(p) : w[Len(wire) + i] = p[i]
    BY <1>6, <2>2, JoinFacts
  <2>4. wire' = w /\ Shaped(w)
    BY <1>6, <1>7, <2>1, <2>2, AppendShape
  <2>5. Len(w) > 0 /\ w[Len(w)] = p[Len(p)]
    BY <2>1, <2>3
  <2>6. Snap(w, Len(w)) /\ w[Len(w)].message = m
    BY <2>1, <2>5 DEF Snap
  <2>7. Assembling'
    <3>1. CASE wire = <<>>
      <4>1. w[1] = p[1]
        BY <2>1, <2>3, <3>1
      <4>2. reassembly # "partial"
        BY <3>1 DEF ListInv, Assembling
      <4> QED  BY <2>1, <2>4, <4>1, <4>2 DEF ListInv, Assembling, device
    <3>2. CASE wire # <<>>
      <4>1. w[1] = wire[1] /\ w # <<>>
        BY <1>6, <2>3, <2>5, <3>2
      <4> QED  BY <2>4, <3>2, <4>1 DEF ListInv, Assembling, device
    <3> QED  BY <3>1, <3>2
  <2>8. Quiet'
    BY <1>7 DEF Quiet
  <2>9. Follows(<<>>, m.sessions, g, 1)'
    <3>1. Agrees(<<>>, m.sessions, g, 1)'
      BY <1>4, <1>5 DEF Agrees, Ordered
    <3>2. Exactly(<<>>, g, 1)'
      BY DEF Exactly
    <3> QED  BY <3>1, <3>2 DEF Follows
  <2>10. ASSUME NEW k, LastSnapshot(w, k)
         PROVE  k = Len(w) /\ k > 0 /\ After(w, k) = <<>>
    <3>1. k \in 0..Len(w) /\ \A i \in (k + 1)..Len(w) : ~Snap(w, i)
      BY <2>10 DEF LastSnapshot
    <3>2. k = Len(w)
      <4>1. Len(w) \in Nat
        OBVIOUS
      <4>2. k < Len(w) => Len(w) \in (k + 1)..Len(w)
        BY <3>1, <4>1
      <4> QED  BY <2>6, <3>1, <4>1, <4>2
    <3> QED  BY <2>3, <2>5, <3>2 DEF After
  <2>11. Current'
    <3> SUFFICES ASSUME NEW k, LastSnapshot(wire, k)'
                 PROVE  /\ k > 0 => Follows(After(wire, k), wire[k].message.sessions,
                                            wire[k].message.generation, 1)'
                        /\ k = 0 /\ has_snapshot' =>
                             Follows(After(wire, 0), sessions, dev_generation,
                                     next_delta_sequence)'
                        /\ k = 0 /\ ~has_snapshot' => ~Answered'
      BY DEF Current
    <3>1. k = Len(w) /\ k > 0 /\ After(w, k) = <<>>
      BY <2>4, <2>10
    <3>2. k # 0
      BY <2>3, <3>1
    <3>3. w[k].message.sessions = m.sessions /\ w[k].message.generation = g
      BY <1>3, <2>6, <3>1
    <3> QED  BY <2>4, <2>9, <3>1, <3>2, <3>3
  <2> QED  BY <2>4, <2>7, <2>8, <2>11 DEF ListInv
<1>8. CASE wire' = wire /\ unsent' = unsent \union {kind}
  <2>1. ~Answered'
    BY <1>8 DEF Answered
  <2>2. ASSUME NEW d \in Seq(Message), NEW g0 \in Nat, NEW n \in Nat, NEW b,
               Follows(d, b, g0, n)
        PROVE  Follows(d, b, g0, n)'
    <3>1. ASSUME "connect" \notin unsent'
          PROVE  Agrees(d, b, g0, n)'
      <4>1. kind = "update" /\ ready /\ g = generation + 1 /\ "connect" \notin unsent
        BY <1>8, <3>1
      <4>2. g0 <= generation /\ generation \in Nat
        BY <2>2, <4>1, BaseTypes DEF Follows, Agrees
      <4>3. g0 <= g /\ g0 # g
        BY <4>1, <4>2
      <4> QED  BY <4>3 DEF Agrees
    <3> QED  BY <2>1, <3>1 DEF Follows
  <2>3. Current'
    BY <1>8, <2>1, <2>2, CarryNothing
  <2>4. Shaped(wire)' /\ Assembling' /\ Quiet'
    BY <1>8 DEF ListInv, Shaped, Assembling, Quiet, device
  <2> QED  BY <2>3, <2>4 DEF ListInv
<1> QED  BY <1>2, <1>7, <1>8 DEF SendSnapshot

LEMMA UpdateFieldsKeeps ==
  ASSUME KInv, Bounds, ListInv, NEW list \in Lists, UpdateFields(list),
         UNCHANGED <<link, infos, info_call, refused, reassembly, device>>
  PROVE  ListInv'
<1>1. projectedByRemoteID' = list
  BY DEF UpdateFields
<1>2. PICK e \in Seq(PacketType) :
        /\ wire' = wire \o e
        /\ \A i \in DOMAIN e : /\ e[i].index = 1 /\ e[i].count = 1
                               /\ e[i].message.type = "DELTA"
        /\ e # <<>> => link = "ready"
        /\ \A d \in Seq(Message), g \in Nat, n \in Nat : \A b :
             Follows(d, b, g, n) => Follows(d \o [i \in 1..Len(e) |-> e[i].message], b, g, n)'
  BY <1>1, UpdateFollows
<1>3. ~Answered => ~Answered'
  <2> SUFFICES ASSUME Answered' PROVE Answered
    OBVIOUS
  <2>1. unsent' = {} /\ ready' = ready
    BY DEF Answered, UpdateFields
  <2>2. unsent = {}
    BY <2>1 DEF UpdateFields, SendDeltas
  <2> QED  BY <2>1, <2>2 DEF Answered
<1>4. Current'
  BY <1>2, <1>3, Carry
<1>5. wire \in Seq(PacketType) /\ Shaped(wire)
  BY DEF KInv, Types, ListInv
<1>6. Shaped(e) /\ (e # <<>> => e[1].index = 1)
  BY <1>2 DEF Shaped
<1>7. Shaped(wire)'
  BY <1>2, <1>5, <1>6, AppendShape
<1>8. Assembling'
  <2>1. CASE wire = <<>>
    <3>1. wire' = e
      BY <1>2, <2>1
    <3>2. reassembly # "partial"
      BY <2>1 DEF ListInv, Assembling
    <3> QED  BY <1>6, <3>1, <3>2 DEF ListInv, Assembling, device
  <2>2. CASE wire # <<>>
    <3>1. wire'[1] = wire[1] /\ wire' # <<>>
      BY <1>2, <1>5, <2>2
    <3> QED  BY <2>2, <3>1 DEF ListInv, Assembling, device
  <2> QED  BY <2>1, <2>2
<1>9. Quiet'
  BY <1>2 DEF ListInv, Quiet, device
<1> QED  BY <1>4, <1>7, <1>8, <1>9 DEF ListInv

LEMMA TailShape ==
  ASSUME NEW w \in Seq(PacketType), w # <<>>, Shaped(w)
  PROVE  Shaped(Tail(w))
<1>1. PICK v \in Seq(PacketType) : v = Tail(w)
  BY TailFacts
<1>2. /\ Len(w) \in Nat \ {0} /\ Len(v) = Len(w) - 1
      /\ \A i \in 1..(Len(w) - 1) : v[i] = w[i + 1]
      /\ DOMAIN v = 1..(Len(w) - 1) /\ DOMAIN w = 1..Len(w)
  BY <1>1, TailFacts
<1> SUFFICES ASSUME NEW i \in DOMAIN v
             PROVE  \/ v[i].index = 1 /\ v[i].count = 1
                    \/ /\ v[i].index = 1 /\ v[i].count = 2
                       /\ i + 1 \in DOMAIN v /\ v[i + 1].index = 2
                    \/ /\ v[i].index = 2 /\ v[i].count = 2
                       /\ v[i].message.type = "SNAPSHOT"
                       /\ i > 1 => v[i - 1].index = 1 /\ v[i - 1].count = 2
  BY <1>1 DEF Shaped
<1>3. i + 1 \in DOMAIN w /\ v[i] = w[i + 1] /\ i + 1 > 1 /\ (i + 1) - 1 = i
  BY <1>2
<1>4. (i + 1) + 1 \in DOMAIN w => i + 1 \in DOMAIN v /\ v[i + 1] = w[(i + 1) + 1]
  BY <1>2
<1>5. i > 1 => v[i - 1] = w[i]
  <2> SUFFICES ASSUME i > 1 PROVE v[i - 1] = w[i]
    OBVIOUS
  <2>1. i - 1 \in 1..(Len(w) - 1) /\ (i - 1) + 1 = i
    BY <1>2
  <2> QED  BY <1>2, <2>1
<1> QED  BY <1>3, <1>4, <1>5 DEF Shaped

(* What is left when the head of the wire is taken. *)
LEMMA NextHead ==
  ASSUME NEW w \in Seq(PacketType), w # <<>>, Shaped(w)
  PROVE  /\ w[1].index \in {1, 2} /\ (w[1].index < w[1].count => w[1].index = 1 /\ w[1].count = 2)
         /\ w[1].index = 2 => w[1].count = 2
         /\ w[1].index = 1 /\ w[1].count = 2
              => Tail(w) # <<>> /\ Tail(w)[1].index = 2 /\ Snap(Tail(w), 1)
         /\ Tail(w) # <<>> /\ Tail(w)[1].index = 2 => w[1].index = 1 /\ w[1].count = 2
<1>1. PICK v \in Seq(PacketType) : v = Tail(w)
  BY TailFacts
<1>2. /\ Len(w) \in Nat \ {0} /\ Len(v) = Len(w) - 1
      /\ \A i \in 1..(Len(w) - 1) : v[i] = w[i + 1]
      /\ DOMAIN w = 1..Len(w)
  BY <1>1, TailFacts
<1>3. 1 \in DOMAIN w /\ (v # <<>> <=> 2 \in DOMAIN w) /\ (2 \in DOMAIN w => v[1] = w[2])
  <2>1. 1 \in DOMAIN w
    BY <1>2
  <2>2. v # <<>> <=> Len(w) > 1
    BY <1>2
  <2>3. Len(w) > 1 <=> 2 \in DOMAIN w
    BY <1>2
  <2>4. Len(w) > 1 => v[1] = w[2]
    <3>1. Len(w) > 1 => 1 \in 1..(Len(w) - 1)
      BY <1>2
    <3> QED  BY <1>2, <3>1
  <2> QED  BY <2>1, <2>2, <2>3, <2>4
<1>4. \/ w[1].index = 1 /\ w[1].count = 1
      \/ w[1].index = 1 /\ w[1].count = 2 /\ 2 \in DOMAIN w /\ w[2].index = 2
      \/ w[1].index = 2 /\ w[1].count = 2
  BY <1>3 DEF Shaped
<1>5. 2 \in DOMAIN w /\ w[2].index = 2
      => w[2].count = 2 /\ w[2].message.type = "SNAPSHOT" /\ w[1].index = 1 /\ w[1].count = 2
  BY DEF Shaped
<1> QED  BY <1>1, <1>3, <1>4, <1>5 DEF Snap

LEMMA DeviceKeeps ==
  ASSUME KInv, Bounds, ListInv, DeviceStep
  PROVE  ListInv'
<1>1. Receive
  BY DEF DeviceStep, RefusePacket, StorePacket, CompleteMessage
<1>2. /\ wire # <<>> /\ wire' = Tail(wire)
      /\ UNCHANGED <<reducer, link, infos, info_call, unsent>>
  BY <1>1 DEF Receive, calls
<1>3. wire \in Seq(PacketType) /\ Shaped(wire) /\ Head(wire) = wire[1]
  BY <1>2 DEF KInv, Types, ListInv
<1>4. PICK w \in Seq(PacketType) : w = Tail(wire)
  BY <1>2, <1>3, TailFacts
<1>5. Shaped(wire)'
  BY <1>2, <1>3, TailShape
<1>6. /\ wire[1].index \in {1, 2}
      /\ wire[1].index < wire[1].count => wire[1].index = 1 /\ wire[1].count = 2
      /\ wire[1].index = 2 => wire[1].count = 2
      /\ wire[1].index = 1 /\ wire[1].count = 2
           => w # <<>> /\ w[1].index = 2 /\ Snap(w, 1)
      /\ w # <<>> /\ w[1].index = 2 => wire[1].index = 1 /\ wire[1].count = 2
  BY <1>2, <1>3, <1>4, NextHead
<1>7. Quiet'
  BY <1>2 DEF ListInv, Quiet
<1>8. RefusePacket => ~has_snapshot
  BY <1>2, <1>3, <1>6 DEF RefusePacket, Expected, ListInv, Assembling
<1>9. Assembling'
  <2>1. CASE RefusePacket
    BY <1>8, <2>1 DEF RefusePacket, Assembling, device
  <2>2. CASE StorePacket
    BY <1>2, <1>3, <1>4, <1>6, <2>2 DEF StorePacket, Assembling, device
  <2>3. CASE CompleteMessage
    BY <1>2, <1>3, <1>4, <1>6, <2>3 DEF CompleteMessage, Assembling
  <2> QED  BY <2>1, <2>2, <2>3 DEF DeviceStep
<1>10. (Answered' => Answered) /\ (RefusePacket => ~Answered')
  <2>1. refused' = refused \/ refused' = TRUE
    BY DEF DeviceStep, RefusePacket, StorePacket, CompleteMessage
  <2>2. RefusePacket => refused' = TRUE
    BY DEF RefusePacket
  <2> QED  BY <1>2, <2>1, <2>2 DEF Answered, reducer
<1>11. \A d, b, g, n : Follows(d, b, g, n) => Follows(d, b, g, n)'
  BY <1>2, <1>10, FollowsSame
<1>12. Current'
  <2> SUFFICES ASSUME NEW k, LastSnapshot(wire, k)'
               PROVE  /\ k > 0 => Follows(After(wire, k), wire[k].message.sessions,
                                          wire[k].message.generation, 1)'
                      /\ k = 0 /\ has_snapshot' =>
                           Follows(After(wire, 0), sessions, dev_generation,
                                   next_delta_sequence)'
                      /\ k = 0 /\ ~has_snapshot' => ~Answered'
    BY DEF Current
  <2>1. LastSnapshot(Tail(wire), k)
    BY <1>2
  <2>2. /\ k \in Nat
        /\ k > 0 => LastSnapshot(wire, k + 1) /\ Tail(wire)[k] = wire[k + 1]
        /\ k = 0 => IF Snap(wire, 1) THEN LastSnapshot(wire, 1) ELSE LastSnapshot(wire, 0)
    BY <1>2, <1>3, <2>1, TailLast
  <2>3. CASE k > 0
    <3>1. k + 1 \in 1..Len(wire) /\ (k + 1) - 1 = k /\ k + 1 > 0 /\ k # 0
      BY <2>2, <2>3 DEF LastSnapshot
    <3>2. PICK d, b, g : /\ d = After(wire, k + 1) /\ b = wire[k + 1].message.sessions
                         /\ g = wire[k + 1].message.generation
      OBVIOUS
    <3>3. Follows(d, b, g, 1)
      BY <2>2, <2>3, <3>1, <3>2 DEF ListInv, Current
    <3>4. Follows(d, b, g, 1)'
      BY <1>11, <3>3
    <3>5. After(wire, k)' = d
      BY <1>2, <1>3, <3>1, <3>2, TailAfter
    <3>6. wire'[k] = wire[k + 1]
      BY <1>2, <2>2, <2>3
    <3> QED  BY <3>1, <3>2, <3>4, <3>5, <3>6
  <2>4. CASE k = 0 /\ RefusePacket
    BY <1>8, <1>10, <2>4 DEF RefusePacket, device
  <2>5. CASE k = 0 /\ StorePacket
    <3>1. w # <<>> /\ Snap(w, 1)
      BY <1>3, <1>6, <2>5 DEF StorePacket
    <3>2. 1 \in 1..Len(w) /\ \A i \in (0 + 1)..Len(w) : ~Snap(w, i)
      BY <1>4, <2>1, <2>5, <3>1 DEF LastSnapshot
    <3> QED  BY <3>1, <3>2
  <2>6. CASE k = 0 /\ CompleteMessage /\ Snap(wire, 1)
    <3>1. PICK m : m = wire[1].message
      OBVIOUS
    <3>2. m.type = "SNAPSHOT"
      BY <2>6, <3>1 DEF Snap
    <3>3. /\ has_snapshot' = TRUE /\ dev_generation' = m.generation
          /\ next_delta_sequence' = 1 /\ sessions' = m.sessions
      BY <1>3, <2>6, <3>1, <3>2 DEF CompleteMessage, ApplySnapshot, ApplyDelta
    <3>4. PICK d : d = After(wire, 1)
      OBVIOUS
    <3>5. Follows(d, m.sessions, m.generation, 1)
      <4>1. LastSnapshot(wire, 1)
        BY <2>2, <2>6
      <4> QED  BY <3>1, <3>4, <4>1 DEF ListInv, Current
    <3>6. Follows(d, m.sessions, m.generation, 1)'
      BY <1>11, <3>5
    <3>7. After(wire, 0)' = d
      <4>1. 1 \in 1..Len(wire) /\ 1 - 1 = 0
        BY <1>2, <1>3
      <4> QED  BY <1>2, <1>3, <3>4, <4>1, TailAfter
    <3> QED  BY <2>6, <3>3, <3>6, <3>7
  <2>7. CASE k = 0 /\ CompleteMessage /\ ~Snap(wire, 1)
    <3>1. LastSnapshot(wire, 0)
      BY <2>2, <2>7
    <3>2. PICK d \in Seq(Message) :
            /\ d = After(wire, 0) /\ d # <<>> /\ d[1] = wire[1].message
            /\ Tail(d) = After(Tail(wire), 0)
      BY <1>2, <1>3, TailAfter
    <3>3. d[1].type # "SNAPSHOT"
      BY <1>3, <2>7, <3>2 DEF CompleteMessage, Snap
    <3>4. ApplyDelta(d[1])
      BY <1>3, <2>7, <3>2, <3>3 DEF CompleteMessage, ApplySnapshot
    <3>5. CASE has_snapshot
      <4>1. Follows(d, sessions, dev_generation, next_delta_sequence)
        BY <3>1, <3>2, <3>5 DEF ListInv, Current
      <4>2. /\ has_snapshot' => Follows(Tail(d), sessions', dev_generation', next_delta_sequence')
            /\ ~has_snapshot' => ~Answered
        BY <3>2, <3>4, <3>5, <4>1, ApplyFollows
      <4>3. PICK f, b, g, n : /\ f = Tail(d) /\ b = sessions' /\ g = dev_generation'
                              /\ n = next_delta_sequence'
        OBVIOUS
      <4>4. has_snapshot' => Follows(f, b, g, n)
        BY <4>2, <4>3
      <4>5. has_snapshot' => Follows(f, b, g, n)'
        BY <1>11, <4>4
      <4>6. After(wire, 0)' = f
        BY <1>2, <3>2, <4>3
      <4>7. ASSUME has_snapshot'
            PROVE  Follows(After(wire, 0), sessions, dev_generation, next_delta_sequence)'
        BY <4>3, <4>5, <4>6, <4>7
      <4>8. ~has_snapshot' => ~Answered'
        BY <1>10, <4>2
      <4>9. ~(k > 0)
        BY <2>7
      <4> QED  BY <4>7, <4>8, <4>9
    <3>6. CASE ~has_snapshot
      <4>1. has_snapshot' = has_snapshot
        BY <3>4, <3>6 DEF ApplyDelta, device
      <4>2. ~Answered
        BY <3>1, <3>6 DEF ListInv, Current
      <4> QED  BY <1>10, <2>7, <3>6, <4>1, <4>2
    <3> QED  BY <3>5, <3>6
  <2> QED  BY <2>2, <2>3, <2>4, <2>5, <2>6, <2>7 DEF DeviceStep
<1> QED  BY <1>5, <1>7, <1>9, <1>12 DEF ListInv

LEMMA ListInit == Init => ListInv
<1> SUFFICES ASSUME Init PROVE ListInv
  OBVIOUS
<1>1. wire = <<>> /\ ~has_snapshot /\ reassembly = "idle" /\ ~ready
  BY DEF Init
<1>2. Shaped(wire) /\ Assembling /\ Quiet
  BY <1>1 DEF Shaped, Assembling, Quiet
<1>3. Current
  BY <1>1 DEF Current, Answered, LastSnapshot
<1> QED  BY <1>2, <1>3 DEF ListInv

LEMMA ListStep == KInv /\ Bounds /\ ListInv /\ [Next]_vars => ListInv'
<1> SUFFICES ASSUME KInv, Bounds, ListInv, [Next]_vars PROVE ListInv'
  OBVIOUS
<1>1. CASE FinishInfo
  <2>1. info_call \in Lists /\ Connect(info_call)
    BY <1>1 DEF FinishInfo, KInv, Types
  <2>2. UNCHANGED <<link, reassembly, device>>
    BY <1>1 DEF FinishInfo
  <2> QED  BY <2>1, <2>2, SnapshotKeeps DEF Connect
<1>2. CASE FinishRefresh
  <2>1. refresh_call \in Lists
    BY <1>2 DEF FinishRefresh, KInv, Types
  <2>2. UNCHANGED <<link, infos, info_call, refused, reassembly, device>>
    BY <1>2 DEF FinishRefresh
  <2>3. CASE UpdateMembers(refresh_call)
    <3>1. generation + 1 \in Nat /\ ready' = TRUE
      BY <2>3, BaseTypes DEF UpdateMembers
    <3> QED  BY <2>1, <2>2, <2>3, <3>1, SnapshotKeeps DEF UpdateMembers
  <2>4. CASE UpdateFields(refresh_call)
    BY <2>1, <2>2, <2>4, UpdateFieldsKeeps
  <2>5. CASE UpdateUnconnected
    <3>1. UNCHANGED <<reducer, wire, unsent>>
      BY <2>5 DEF UpdateUnconnected
    <3>2. Answered' => Answered
      BY <2>2, <3>1 DEF Answered, reducer
    <3>3. Quiet'
      BY <2>2, <3>1 DEF ListInv, Quiet, device
    <3> QED  BY <2>2, <3>1, <3>2, <3>3, SameKeeps
  <2> QED  BY <1>2, <2>3, <2>4, <2>5 DEF FinishRefresh
<1>3. CASE InfoArrives \/ RefreshSessions \/ LinkUp \/ Announce \/ RegistryChanges
  <2>1. UNCHANGED <<reducer, wire, reassembly, device, unsent>>
    BY <1>3 DEF InfoArrives, RefreshSessions, LinkUp, Announce, RegistryChanges
  <2>2. Answered' => Answered
    <3>1. CASE InfoArrives
      <4>1. info_call' # NoCall
        BY <3>1, SyncAssumption DEF InfoArrives, KInv, Types, Lists
      <4> QED  BY <4>1 DEF Answered
    <3>2. CASE LinkUp
      BY <3>2 DEF LinkUp, Answered
    <3>3. CASE Announce
      <4>1. infos' # 0
        BY <3>3 DEF Announce, Bounds, LinkBounds
      <4> QED  BY <4>1 DEF Answered
    <3>4. CASE RefreshSessions \/ RegistryChanges
      BY <3>4 DEF RefreshSessions, RegistryChanges, Answered, reducer, calls
    <3> QED  BY <1>3, <3>1, <3>2, <3>3, <3>4
  <2>3. Quiet'
    BY <1>3, <2>1 DEF InfoArrives, RefreshSessions, LinkUp, Announce, RegistryChanges,
                      ListInv, Quiet, device
  <2> QED  BY <2>1, <2>2, <2>3, SameKeeps
<1>4. CASE ChannelsReady
  <2>1. wire = <<>> /\ ~has_snapshot
    BY <1>4 DEF ChannelsReady, ListInv, Quiet
  <2>2. UNCHANGED <<wire, reassembly, device>>
    BY <1>4 DEF ChannelsReady
  <2>3. infos' # 0
    BY <1>4 DEF ChannelsReady, Bounds, LinkBounds
  <2>4. Current'
    BY <2>1, <2>2, <2>3 DEF Current, LastSnapshot, Answered, device
  <2>5. Shaped(wire)' /\ Assembling' /\ Quiet'
    BY <2>1, <2>2 DEF ListInv, Shaped, Assembling, Quiet, device
  <2> QED  BY <2>4, <2>5 DEF ListInv
<1>5. CASE LinkDown \/ RestartApp
  <2>1. /\ wire' = <<>> /\ ~has_snapshot' /\ reassembly' \in {"idle", "stale"} /\ ~ready'
    BY <1>5 DEF LinkDown, RestartApp, DisconnectReducer, DeviceForgets
  <2>2. Current'
    BY <2>1 DEF Current, LastSnapshot, Answered
  <2>3. Shaped(wire)' /\ Assembling' /\ Quiet'
    BY <2>1 DEF Shaped, Assembling, Quiet
  <2> QED  BY <2>2, <2>3 DEF ListInv
<1>6. CASE DeviceStep
  BY <1>6, DeviceKeeps
<1>7. CASE UNCHANGED vars
  <2>1. UNCHANGED <<reducer, wire, reassembly, device, unsent, link, infos, info_call, refused>>
    BY <1>7 DEF vars, calls
  <2>2. Answered' => Answered
    BY <2>1 DEF Answered, reducer
  <2>3. Quiet'
    BY <2>1 DEF ListInv, Quiet, device
  <2> QED  BY <2>1, <2>2, <2>3, SameKeeps
<1> QED
  BY <1>1, <1>2, <1>3, <1>4, <1>5, <1>6, <1>7 DEF Next, HostStep, LinkStep

(* The inductive invariant of the list. *)
THEOREM ListInvariance == Spec => [](KInv /\ Bounds /\ ListInv)
<1>1. Init => KInv /\ Bounds /\ ListInv
  BY KeysInit, BoundsInit, ListInit
<1>2. KInv /\ Bounds /\ ListInv /\ [Next]_vars => (KInv /\ Bounds /\ ListInv)'
  BY KeysStep, BoundsStep, ListStep
<1> QED  BY <1>1, <1>2, PTL DEF Spec

(* A device whose counts are the Mac's shows the Mac's list: updateSessions   *)
(* counts what it could not send, so that a lost update is never passed over. *)
THEOREM CountsTellTheList == Spec => []CountedListIsCurrent
BY ListInvariance, ListProperties, PTL

(* A snapshot that was sent in answer to the device's info is applied, and no *)
(* delta after it is out of order, unless the reassembler refused a packet.    *)
THEOREM SnapshotArrives == Spec => []UnrefusedTakesEffect
BY ListInvariance, ListProperties, PTL

(* Once all is through, the device shows the Mac's list: the deltas that came *)
(* after the last snapshot are all there were, each applied in its turn.      *)
THEOREM SettledTellsTheList == Spec => []SettledListIsCurrent
<1>1. KInv /\ Bounds /\ ListInv => SettledListIsCurrent
  <2> SUFFICES ASSUME KInv, Bounds, ListInv, Settled
               PROVE  has_snapshot /\ sessions = MacList
    BY DEF SettledListIsCurrent, MacList
  <2>1. has_snapshot
    BY ListProperties DEF UnrefusedTakesEffect, SnapshotTakesEffect, Settled
  <2>2. LastSnapshot(wire, 0) /\ After(wire, 0) = <<>>
    BY DEF Settled, LastSnapshot, After
  <2>3. Follows(<<>>, sessions, dev_generation, next_delta_sequence)
    BY <2>1, <2>2 DEF ListInv, Current
  <2>4. Exactly(<<>>, dev_generation, next_delta_sequence)
    BY <2>3 DEF Settled, Answered, Follows
  <2>5. next_delta_sequence = lastDeltaSequence + 1
    <3>1. next_delta_sequence \in Nat /\ lastDeltaSequence \in Nat
      BY DEF KInv, Types, Bounds, DeviceBounds
    <3> QED  BY <2>4, <3>1 DEF Exactly
  <2>6. "connect" \notin unsent /\ ready /\ wire = <<>> /\ dev_generation = generation
    BY <2>4 DEF Settled, Exactly
  <2> QED  BY <2>1, <2>5, <2>6, ListProperties DEF CountedListIsCurrent, MacList
<1> QED  BY <1>1, ListInvariance, PTL
================================================================================
