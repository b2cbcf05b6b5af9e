------------------------- MODULE SessionRegistry_proofs -------------------------
(***************************************************************************)
(* The registry's dictionaries stay well typed and agree with each other,  *)
(* for any number of launchers, terminals, provider sessions and           *)
(* identifiers.                                                            *)
(***************************************************************************)
EXTENDS SessionRegistry, TLAPS

Inv == TypeOK /\ RegistryConsistent

(* Any event leads to one of the declared states: the reducer's switch is  *)
(* exhaustive.                                                              *)
LEMMA ReducedStateType ==
  ASSUME NEW e \in Events, NEW st \in States
  PROVE  ReducedState(e, st) \in States
BY DEF ReducedState, Events, States

(* No identifier, and so no session, is the absent value. *)
LEMMA SessionIsNotNone ==
  ASSUME TypeOK, NEW id \in RemoteIDs, sessionsByRemoteID[id] # None
  PROVE  /\ sessionsByRemoteID[id] \in Session
         /\ sessionsByRemoteID[id].launcher \in Launchers
         /\ sessionsByRemoteID[id].terminal \in Terminals
         /\ sessionsByRemoteID[id].provider \in Providers \cup {None}
         /\ sessionsByRemoteID[id].state \in States
         /\ sessionsByRemoteID[id].unread \in BOOLEAN
BY DEF TypeOK, Session

LEMMA NoneIsDistinct ==
  /\ None \notin RemoteIDs
  /\ None \notin Session
  /\ None \notin Providers
BY NoneAssumption

LEMMA InitInv == Init => Inv
<1> SUFFICES ASSUME Init PROVE Inv
  OBVIOUS
<1>1. TypeOK
  BY DEF Init, TypeOK
<1>2. IndexesSound
  BY DEF Init, IndexesSound
<1>3. IndexesComplete
  BY DEF Init, IndexesComplete, LiveIDs
<1> QED
  BY <1>1, <1>2, <1>3 DEF Inv, RegistryConsistent

(* A launch: the displaced session leaves all four dictionaries and the new *)
(* one enters three of them.                                                *)
LEMMA RegisterLaunchInv ==
  ASSUME Inv, NEW l \in Launchers, NEW t \in Terminals, RegisterLaunch(l, t)
  PROVE  Inv'
<1> DEFINE KeysDropped(field) == {sessionsByRemoteID[id][field] : id \in Displaced(t)}
<1>1. PICK new \in RemoteIDs :
        /\ remoteIDByLauncher[l] = None
        /\ sessionsByRemoteID[new] = None
        /\ sessionsByRemoteID' =
             [Without(sessionsByRemoteID, Displaced(t)) EXCEPT ![new] = NewSession(l, t)]
        /\ remoteIDByLauncher' =
             [Without(remoteIDByLauncher, KeysDropped("launcher")) EXCEPT ![l] = new]
        /\ remoteIDByTerminal' =
             [Without(remoteIDByTerminal, KeysDropped("terminal")) EXCEPT ![t] = new]
        /\ remoteIDByProvider' = Without(remoteIDByProvider, KeysDropped("provider"))
  BY DEF RegisterLaunch
<1>2. TypeOK /\ IndexesSound /\ IndexesComplete
  BY DEF Inv, RegistryConsistent
<1>3. NewSession(l, t) \in Session /\ NewSession(l, t) # None
  <2>1. NewSession(l, t) \in Session
    BY DEF NewSession, Session, States
  <2> QED
    BY <2>1, NoneIsDistinct
<1>4. TypeOK'
  BY <1>1, <1>2, <1>3 DEF TypeOK, Without
<1>5. \A id \in RemoteIDs :
        sessionsByRemoteID'[id] = IF id = new THEN NewSession(l, t)
                                  ELSE IF id \in Displaced(t) THEN None
                                  ELSE sessionsByRemoteID[id]
  BY <1>1, <1>2 DEF TypeOK, Without
<1>6. /\ \A id \in Displaced(t) : sessionsByRemoteID[id].terminal = t
      /\ \A id \in LiveIDs : sessionsByRemoteID[id].terminal = t => id \in Displaced(t)
      /\ Displaced(t) \subseteq LiveIDs
  BY <1>2, NoneIsDistinct DEF Displaced, IndexesSound, IndexesComplete, LiveIDs
<1>7. LiveIDs' = (LiveIDs \ Displaced(t)) \cup {new}
  BY <1>1, <1>3, <1>5 DEF LiveIDs
<1>8. new \notin LiveIDs
  BY <1>1 DEF LiveIDs
<1>9. \A k \in Launchers :
        remoteIDByLauncher'[k] = IF k = l THEN new
                                 ELSE IF k \in KeysDropped("launcher") THEN None
                                 ELSE remoteIDByLauncher[k]
  BY <1>1, <1>2 DEF TypeOK, Without
<1>10. \A k \in Terminals :
        remoteIDByTerminal'[k] = IF k = t THEN new
                                 ELSE IF k \in KeysDropped("terminal") THEN None
                                 ELSE remoteIDByTerminal[k]
  BY <1>1, <1>2 DEF TypeOK, Without
<1>11. \A k \in Providers :
        remoteIDByProvider'[k] = IF k \in KeysDropped("provider") THEN None
                                 ELSE remoteIDByProvider[k]
  BY <1>1, <1>2 DEF TypeOK, Without
<1>12. ASSUME NEW k \in Launchers, remoteIDByLauncher'[k] # None
       PROVE  /\ remoteIDByLauncher'[k] \in LiveIDs'
              /\ sessionsByRemoteID'[remoteIDByLauncher'[k]].launcher = k
  <2>1. CASE k = l
    BY <2>1, <1>5, <1>7, <1>9 DEF NewSession
  <2>2. CASE k # l
    <3>1. /\ k \notin KeysDropped("launcher")
          /\ remoteIDByLauncher'[k] = remoteIDByLauncher[k]
          /\ remoteIDByLauncher[k] # None
      BY <2>2, <1>9, <1>12
    <3>2. /\ remoteIDByLauncher[k] \in LiveIDs
          /\ sessionsByRemoteID[remoteIDByLauncher[k]].launcher = k
      BY <3>1, <1>2 DEF IndexesSound
    <3>3. remoteIDByLauncher[k] \notin Displaced(t)
      BY <3>1, <3>2
    <3> QED
      BY <3>1, <3>2, <3>3, <1>5, <1>7, <1>8 DEF LiveIDs
  <2> QED
    BY <2>1, <2>2
<1>13. ASSUME NEW k \in Terminals, remoteIDByTerminal'[k] # None
       PROVE  /\ remoteIDByTerminal'[k] \in LiveIDs'
              /\ sessionsByRemoteID'[remoteIDByTerminal'[k]].terminal = k
  <2>1. CASE k = t
    BY <2>1, <1>5, <1>7, <1>10 DEF NewSession
  <2>2. CASE k # t
    <3>1. /\ k \notin KeysDropped("terminal")
          /\ remoteIDByTerminal'[k] = remoteIDByTerminal[k]
          /\ remoteIDByTerminal[k] # None
      BY <2>2, <1>10, <1>13
    <3>2. /\ remoteIDByTerminal[k] \in LiveIDs
          /\ sessionsByRemoteID[remoteIDByTerminal[k]].terminal = k
      BY <3>1, <1>2 DEF IndexesSound
    <3>3. remoteIDByTerminal[k] \notin Displaced(t)
      BY <3>1, <3>2
    <3> QED
      BY <3>1, <3>2, <3>3, <1>5, <1>7, <1>8 DEF LiveIDs
  <2> QED
    BY <2>1, <2>2
<1>14. ASSUME NEW k \in Providers, remoteIDByProvider'[k] # None
       PROVE  /\ remoteIDByProvider'[k] \in LiveIDs'
              /\ sessionsByRemoteID'[remoteIDByProvider'[k]].provider = k
  <2>1. /\ k \notin KeysDropped("provider")
        /\ remoteIDByProvider'[k] = remoteIDByProvider[k]
        /\ remoteIDByProvider[k] # None
    BY <1>11, <1>14
  <2>2. /\ remoteIDByProvider[k] \in LiveIDs
        /\ sessionsByRemoteID[remoteIDByProvider[k]].provider = k
    BY <2>1, <1>2 DEF IndexesSound
  <2>3. remoteIDByProvider[k] \notin Displaced(t)
    BY <2>1, <2>2
  <2> QED
    BY <2>1, <2>2, <2>3, <1>5, <1>7, <1>8 DEF LiveIDs
<1>15. IndexesSound'
  BY <1>12, <1>13, <1>14 DEF IndexesSound
<1>16. ASSUME NEW id \in LiveIDs'
       PROVE  LET s == sessionsByRemoteID'[id] IN
              /\ remoteIDByLauncher'[s.launcher] = id
              /\ remoteIDByTerminal'[s.terminal] = id
              /\ s.provider # None => remoteIDByProvider'[s.provider] = id
  <2>1. CASE id = new
    BY <2>1, <1>5, <1>9, <1>10 DEF NewSession
  <2>2. CASE id # new
    <3> DEFINE s == sessionsByRemoteID[id]
    <3>1. id \in LiveIDs /\ id \notin Displaced(t) /\ sessionsByRemoteID'[id] = s
      BY <2>2, <1>5, <1>7 DEF LiveIDs
    <3>2. /\ s.launcher \in Launchers
          /\ s.terminal \in Terminals
          /\ s.provider \in Providers \cup {None}
      BY <3>1, <1>2, SessionIsNotNone DEF LiveIDs
    <3>3. /\ remoteIDByLauncher[s.launcher] = id
          /\ remoteIDByTerminal[s.terminal] = id
          /\ s.provider # None => remoteIDByProvider[s.provider] = id
      BY <3>1, <1>2 DEF IndexesComplete
    <3>4. \A old \in Displaced(t) :
            /\ remoteIDByLauncher[sessionsByRemoteID[old].launcher] = old
            /\ remoteIDByTerminal[sessionsByRemoteID[old].terminal] = old
            /\ sessionsByRemoteID[old].provider # None
                 => remoteIDByProvider[sessionsByRemoteID[old].provider] = old
      BY <1>2, <1>6 DEF IndexesComplete
    <3>5. /\ s.launcher \notin KeysDropped("launcher")
          /\ s.terminal \notin KeysDropped("terminal")
          /\ s.provider # None => s.provider \notin KeysDropped("provider")
      BY <3>1, <3>3, <3>4
    <3>6. s.launcher # l /\ s.terminal # t
      BY <3>1, <3>3, <1>1, <1>6, NoneIsDistinct DEF LiveIDs
    <3> QED
      BY <3>1, <3>2, <3>3, <3>5, <3>6, <1>9, <1>10, <1>11
  <2> QED
    BY <2>1, <2>2
<1>17. IndexesComplete'
  BY <1>16 DEF IndexesComplete
<1> QED
  BY <1>4, <1>15, <1>17 DEF Inv, RegistryConsistent

(* Binding touches one session and adds one entry to the provider index. *)
LEMMA BindProviderSessionInv ==
  ASSUME Inv, NEW l \in Launchers, NEW p \in Providers, BindProviderSession(l, p)
  PROVE  Inv'
<1> DEFINE id == remoteIDByLauncher[l]
           s  == sessionsByRemoteID[id]
<1>1. TypeOK /\ IndexesSound /\ IndexesComplete
  BY DEF Inv, RegistryConsistent
<1>2. /\ id \in RemoteIDs
      /\ s # None
      /\ s.provider = None
      /\ remoteIDByProvider[p] = None
      /\ sessionsByRemoteID' = [sessionsByRemoteID EXCEPT ![id].provider = p]
      /\ remoteIDByProvider' = [remoteIDByProvider EXCEPT ![p] = id]
      /\ UNCHANGED <<remoteIDByLauncher, remoteIDByTerminal>>
  BY <1>1 DEF BindProviderSession, MayBind, TypeOK
<1>3. s \in Session
  BY <1>1, <1>2, SessionIsNotNone
<1>4. [s EXCEPT !.provider = p] \in Session
  BY <1>3 DEF Session
<1>5. TypeOK'
  BY <1>1, <1>2, <1>4 DEF TypeOK
<1>6. \A i \in RemoteIDs :
        /\ sessionsByRemoteID'[i] = IF i = id THEN [s EXCEPT !.provider = p]
                                    ELSE sessionsByRemoteID[i]
  BY <1>1, <1>2 DEF TypeOK
<1>7. LiveIDs' = LiveIDs /\ id \in LiveIDs
  BY <1>2, <1>4, <1>6, NoneIsDistinct DEF LiveIDs
<1>8. \A i \in LiveIDs :
        /\ sessionsByRemoteID'[i].launcher = sessionsByRemoteID[i].launcher
        /\ sessionsByRemoteID'[i].terminal = sessionsByRemoteID[i].terminal
        /\ sessionsByRemoteID'[i].provider
             = IF i = id THEN p ELSE sessionsByRemoteID[i].provider
  BY <1>3, <1>6 DEF LiveIDs, Session
<1>9. \A k \in Providers :
        remoteIDByProvider'[k] = IF k = p THEN id ELSE remoteIDByProvider[k]
  BY <1>1, <1>2 DEF TypeOK
<1>10. IndexesSound'
  <2>1. ASSUME NEW k \in Providers, remoteIDByProvider'[k] # None
        PROVE  /\ remoteIDByProvider'[k] \in LiveIDs'
               /\ sessionsByRemoteID'[remoteIDByProvider'[k]].provider = k
    BY <2>1, <1>1, <1>2, <1>7, <1>8, <1>9, NoneIsDistinct DEF IndexesSound
  <2>2. ASSUME NEW k \in Launchers, remoteIDByLauncher'[k] # None
        PROVE  /\ remoteIDByLauncher'[k] \in LiveIDs'
               /\ sessionsByRemoteID'[remoteIDByLauncher'[k]].launcher = k
    BY <2>2, <1>1, <1>2, <1>7, <1>8 DEF IndexesSound
  <2>3. ASSUME NEW k \in Terminals, remoteIDByTerminal'[k] # None
        PROVE  /\ remoteIDByTerminal'[k] \in LiveIDs'
               /\ sessionsByRemoteID'[remoteIDByTerminal'[k]].terminal = k
    BY <2>3, <1>1, <1>2, <1>7, <1>8 DEF IndexesSound
  <2> QED
    BY <2>1, <2>2, <2>3 DEF IndexesSound
<1>11. IndexesComplete'
  <2>1. ASSUME NEW i \in LiveIDs'
        PROVE  /\ remoteIDByLauncher'[sessionsByRemoteID'[i].launcher] = i
               /\ remoteIDByTerminal'[sessionsByRemoteID'[i].terminal] = i
               /\ sessionsByRemoteID'[i].provider # None
                    => remoteIDByProvider'[sessionsByRemoteID'[i].provider] = i
    <3>1. /\ i \in LiveIDs
          /\ remoteIDByLauncher[sessionsByRemoteID[i].launcher] = i
          /\ remoteIDByTerminal[sessionsByRemoteID[i].terminal] = i
          /\ sessionsByRemoteID[i].provider # None
               => remoteIDByProvider[sessionsByRemoteID[i].provider] = i
      BY <1>1, <1>7 DEF IndexesComplete
    <3>2. i \in RemoteIDs /\ sessionsByRemoteID[i].provider \in Providers \cup {None}
      BY <3>1, <1>1, SessionIsNotNone DEF LiveIDs
    <3> QED
      BY <3>1, <3>2, <1>2, <1>8, <1>9, NoneIsDistinct
  <2> QED
    BY <2>1 DEF IndexesComplete
<1> QED
  BY <1>5, <1>10, <1>11 DEF Inv, RegistryConsistent

(* Closing drops one session and the entries for its keys: because every    *)
(* other session's keys lead to that session, no entry is lost with them.   *)
LEMMA UnregisterLaunchInv ==
  ASSUME Inv, NEW l \in Launchers, UnregisterLaunch(l)
  PROVE  Inv'
<1> DEFINE id == remoteIDByLauncher[l]
           s  == sessionsByRemoteID[id]
<1>1. TypeOK /\ IndexesSound /\ IndexesComplete
  BY DEF Inv, RegistryConsistent
<1>2. id # None /\ id \in LiveIDs /\ id \in RemoteIDs /\ s # None /\ s.launcher = l
  BY <1>1 DEF UnregisterLaunch, IndexesSound, LiveIDs
<1>3. /\ sessionsByRemoteID' = Without(sessionsByRemoteID, {id})
      /\ remoteIDByLauncher' = Without(remoteIDByLauncher, {l})
      /\ remoteIDByTerminal' = Without(remoteIDByTerminal, {s.terminal})
      /\ remoteIDByProvider' = Without(remoteIDByProvider, {s.provider})
  BY <1>2 DEF UnregisterLaunch
<1>4. TypeOK'
  BY <1>1, <1>3 DEF TypeOK, Without
<1>5. /\ \A i \in RemoteIDs :
           sessionsByRemoteID'[i] = IF i = id THEN None ELSE sessionsByRemoteID[i]
      /\ \A k \in Launchers :
           remoteIDByLauncher'[k] = IF k = l THEN None ELSE remoteIDByLauncher[k]
      /\ \A k \in Terminals :
           remoteIDByTerminal'[k] = IF k = s.terminal THEN None ELSE remoteIDByTerminal[k]
      /\ \A k \in Providers :
           remoteIDByProvider'[k] = IF k = s.provider THEN None ELSE remoteIDByProvider[k]
  BY <1>1, <1>3 DEF TypeOK, Without
<1>6. LiveIDs' = LiveIDs \ {id}
  BY <1>5 DEF LiveIDs
<1>7. /\ remoteIDByTerminal[s.terminal] = id
      /\ s.provider # None => remoteIDByProvider[s.provider] = id
  BY <1>1, <1>2 DEF IndexesComplete
<1>8. IndexesSound'
  <2>1. ASSUME NEW k \in Launchers, remoteIDByLauncher'[k] # None
        PROVE  /\ remoteIDByLauncher'[k] \in LiveIDs'
               /\ sessionsByRemoteID'[remoteIDByLauncher'[k]].launcher = k
    <3>1. /\ k # l
          /\ remoteIDByLauncher'[k] = remoteIDByLauncher[k]
          /\ remoteIDByLauncher[k] \in LiveIDs
          /\ sessionsByRemoteID[remoteIDByLauncher[k]].launcher = k
      BY <2>1, <1>1, <1>5 DEF IndexesSound
    <3> QED
      BY <3>1, <1>2, <1>5, <1>6 DEF LiveIDs
  <2>2. ASSUME NEW k \in Terminals, remoteIDByTerminal'[k] # None
        PROVE  /\ remoteIDByTerminal'[k] \in LiveIDs'
               /\ sessionsByRemoteID'[remoteIDByTerminal'[k]].terminal = k
    <3>1. /\ k # s.terminal
          /\ remoteIDByTerminal'[k] = remoteIDByTerminal[k]
          /\ remoteIDByTerminal[k] \in LiveIDs
          /\ sessionsByRemoteID[remoteIDByTerminal[k]].terminal = k
      BY <2>2, <1>1, <1>5 DEF IndexesSound
    <3> QED
      BY <3>1, <1>5, <1>6 DEF LiveIDs
  <2>3. ASSUME NEW k \in Providers, remoteIDByProvider'[k] # None
        PROVE  /\ remoteIDByProvider'[k] \in LiveIDs'
               /\ sessionsByRemoteID'[remoteIDByProvider'[k]].provider = k
    <3>1. /\ k # s.provider
          /\ remoteIDByProvider'[k] = remoteIDByProvider[k]
          /\ remoteIDByProvider[k] \in LiveIDs
          /\ sessionsByRemoteID[remoteIDByProvider[k]].provider = k
      BY <2>3, <1>1, <1>5 DEF IndexesSound
    <3> QED
      BY <3>1, <1>5, <1>6 DEF LiveIDs
  <2> QED
    BY <2>1, <2>2, <2>3 DEF IndexesSound
<1>9. IndexesComplete'
  <2>1. ASSUME NEW i \in LiveIDs'
        PROVE  /\ remoteIDByLauncher'[sessionsByRemoteID'[i].launcher] = i
               /\ remoteIDByTerminal'[sessionsByRemoteID'[i].terminal] = i
               /\ sessionsByRemoteID'[i].provider # None
                    => remoteIDByProvider'[sessionsByRemoteID'[i].provider] = i
    <3> DEFINE other == sessionsByRemoteID[i]
    <3>1. i # id /\ i \in LiveIDs /\ i \in RemoteIDs /\ sessionsByRemoteID'[i] = other
      BY <1>5, <1>6 DEF LiveIDs
    <3>2. /\ remoteIDByLauncher[other.launcher] = i
          /\ remoteIDByTerminal[other.terminal] = i
          /\ other.provider # None => remoteIDByProvider[other.provider] = i
      BY <3>1, <1>1 DEF IndexesComplete
    <3>3. /\ other.launcher \in Launchers
          /\ other.terminal \in Terminals
          /\ other.provider \in Providers \cup {None}
      BY <3>1, <1>1, SessionIsNotNone DEF LiveIDs
    <3>4. other.launcher # l /\ other.terminal # s.terminal
      BY <3>1, <3>2, <1>7
    <3>5. other.provider # None => other.provider # s.provider
      BY <3>1, <3>2, <1>7
    <3> QED
      BY <3>1, <3>2, <3>3, <3>4, <3>5, <1>5
  <2> QED
    BY <2>1 DEF IndexesComplete
<1> QED
  BY <1>4, <1>8, <1>9 DEF Inv, RegistryConsistent

(* Storing a state touches neither the keys of a session nor the indexes. *)
LEMMA SetResultInv ==
  ASSUME Inv, NEW id \in LiveIDs, NEW e \in Events, SetResult(id, e),
         UNCHANGED <<remoteIDByLauncher, remoteIDByTerminal, remoteIDByProvider>>
  PROVE  Inv'
<1> DEFINE s == sessionsByRemoteID[id]
           t == [s EXCEPT !.state = ReducedState(e, s.state), !.unread = ReducedUnread(e)]
<1>1. TypeOK /\ IndexesSound /\ IndexesComplete
  BY DEF Inv, RegistryConsistent
<1>2. id \in RemoteIDs /\ s \in Session
  BY <1>1, SessionIsNotNone DEF LiveIDs
<1>3. ReducedState(e, s.state) \in States /\ ReducedUnread(e) \in BOOLEAN
  BY <1>2, ReducedStateType DEF Session, ReducedUnread
<1>4. /\ t \in Session
      /\ t.launcher = s.launcher
      /\ t.terminal = s.terminal
      /\ t.provider = s.provider
  BY <1>2, <1>3 DEF Session
<1>5. \A i \in RemoteIDs :
        sessionsByRemoteID'[i] = IF i = id THEN t ELSE sessionsByRemoteID[i]
  BY <1>1, <1>2 DEF SetResult, TypeOK
<1>6. TypeOK'
  BY <1>1, <1>2, <1>4 DEF SetResult, TypeOK
<1>7. LiveIDs' = LiveIDs
  BY <1>4, <1>5, NoneIsDistinct DEF LiveIDs
<1>8. \A i \in LiveIDs :
        /\ sessionsByRemoteID'[i].launcher = sessionsByRemoteID[i].launcher
        /\ sessionsByRemoteID'[i].terminal = sessionsByRemoteID[i].terminal
        /\ sessionsByRemoteID'[i].provider = sessionsByRemoteID[i].provider
  BY <1>4, <1>5 DEF LiveIDs
<1>9. IndexesSound' /\ IndexesComplete'
  BY <1>1, <1>7, <1>8 DEF IndexesSound, IndexesComplete
<1> QED
  BY <1>6, <1>9 DEF Inv, RegistryConsistent

LEMMA ApplyInv ==
  ASSUME Inv, NEW p \in Providers, NEW e \in HookEvents, Apply(p, e)
  PROVE  Inv'
<1>1. remoteIDByProvider[p] \in LiveIDs
  BY DEF Inv, TypeOK, Apply, LiveIDs
<1>2. e \in Events
  BY DEF HookEvents, Events
<1> QED
  BY <1>1, <1>2, SetResultInv DEF Apply

LEMMA ApplyIfCurrentInv ==
  ASSUME Inv, NEW p \in Providers, ApplyIfCurrent(p)
  PROVE  Inv'
<1>1. remoteIDByProvider[p] \in LiveIDs
  BY DEF Inv, TypeOK, ApplyIfCurrent, LiveIDs
<1>2. "detailViewed" \in Events
  BY DEF Events
<1> QED
  BY <1>1, <1>2, SetResultInv DEF ApplyIfCurrent

LEMMA NextInv == Inv /\ [Next]_vars => Inv'
<1> SUFFICES ASSUME Inv, [Next]_vars PROVE Inv'
  OBVIOUS
<1>1. CASE \E l \in Launchers, t \in Terminals : RegisterLaunch(l, t)
  BY <1>1, RegisterLaunchInv
<1>2. CASE \E l \in Launchers, p \in Providers : BindProviderSession(l, p)
  BY <1>2, BindProviderSessionInv
<1>3. CASE \E l \in Launchers : UnregisterLaunch(l)
  BY <1>3, UnregisterLaunchInv
<1>4. CASE \E p \in Providers, e \in HookEvents : Apply(p, e)
  BY <1>4, ApplyInv
<1>5. CASE \E p \in Providers : ApplyIfCurrent(p)
  BY <1>5, ApplyIfCurrentInv
<1>6. CASE UNCHANGED vars
  BY <1>6 DEF vars, Inv, TypeOK, RegistryConsistent, IndexesSound, IndexesComplete, LiveIDs
<1> QED
  BY <1>1, <1>2, <1>3, <1>4, <1>5, <1>6 DEF Next

LEMMA SpecInv == Spec => []Inv
<1> QED
  BY InitInv, NextInv, PTL DEF Spec

(* Every dictionary of the registry keeps to its declared type. *)
THEOREM TypeCorrect == Spec => []TypeOK
<1>1. Inv => TypeOK
  BY DEF Inv
<1> QED
  BY <1>1, SpecInv, PTL

(* No launch, bind or close leaves an index entry for a session that is     *)
(* gone, or a live session that its keys do not lead to.                    *)
THEOREM Consistent == Spec => []RegistryConsistent
<1>1. Inv => RegistryConsistent
  BY DEF Inv
<1> QED
  BY <1>1, SpecInv, PTL

-----------------------------------------------------------------------------
(* What each operation does to the sessions, read off the main dictionary:  *)
(* the form in which the action property and the refinement need it.        *)
LEMMA RegisterLaunchEffect ==
  ASSUME Inv, NEW l \in Launchers, NEW t \in Terminals, RegisterLaunch(l, t)
  PROVE  /\ \A i \in LiveIDs : sessionsByRemoteID[i].launcher # l
         /\ \E new \in RemoteIDs \ LiveIDs :
              /\ LiveIDs' = {i \in LiveIDs : sessionsByRemoteID[i].terminal # t} \cup {new}
              /\ sessionsByRemoteID'[new] = NewSession(l, t)
              /\ \A i \in LiveIDs' \ {new} : sessionsByRemoteID'[i] = sessionsByRemoteID[i]
<1>1. PICK new \in RemoteIDs :
        /\ remoteIDByLauncher[l] = None
        /\ sessionsByRemoteID[new] = None
        /\ sessionsByRemoteID' =
             [Without(sessionsByRemoteID, Displaced(t)) EXCEPT ![new] = NewSession(l, t)]
  BY DEF RegisterLaunch
<1>2. TypeOK /\ IndexesSound /\ IndexesComplete
  BY DEF Inv, RegistryConsistent
<1>3. \A i \in LiveIDs : sessionsByRemoteID[i].launcher # l
  BY <1>1, <1>2, NoneIsDistinct DEF IndexesComplete, LiveIDs
<1>4. NewSession(l, t) # None
  <2>1. NewSession(l, t) \in Session
    BY DEF NewSession, Session, States
  <2> QED
    BY <2>1, NoneIsDistinct
<1>5. \A i \in RemoteIDs :
        sessionsByRemoteID'[i] = IF i = new THEN NewSession(l, t)
                                 ELSE IF i \in Displaced(t) THEN None
                                 ELSE sessionsByRemoteID[i]
  BY <1>1, <1>2 DEF TypeOK, Without
<1>6. \A i \in LiveIDs : i \in Displaced(t) <=> sessionsByRemoteID[i].terminal = t
  BY <1>2, NoneIsDistinct DEF Displaced, IndexesSound, IndexesComplete, LiveIDs
<1>7. LiveIDs' = {i \in LiveIDs : sessionsByRemoteID[i].terminal # t} \cup {new}
  BY <1>4, <1>5, <1>6 DEF LiveIDs
<1>8. new \in RemoteIDs \ LiveIDs
  BY <1>1 DEF LiveIDs
<1>9. \A i \in LiveIDs' \ {new} : sessionsByRemoteID'[i] = sessionsByRemoteID[i]
  BY <1>5, <1>6, <1>7 DEF LiveIDs
<1> QED
  BY <1>3, <1>5, <1>7, <1>8, <1>9

LEMMA BindEffect ==
  ASSUME Inv, NEW l \in Launchers, NEW p \in Providers, BindProviderSession(l, p)
  PROVE  /\ \A i \in LiveIDs : sessionsByRemoteID[i].provider # p
         /\ LiveIDs' = LiveIDs
         /\ \E id \in LiveIDs :
              /\ sessionsByRemoteID[id].launcher = l
              /\ sessionsByRemoteID[id].provider = None
              /\ sessionsByRemoteID'[id] = [sessionsByRemoteID[id] EXCEPT !.provider = p]
              /\ \A i \in LiveIDs \ {id} : sessionsByRemoteID'[i] = sessionsByRemoteID[i]
<1> DEFINE id == remoteIDByLauncher[l]
           s  == sessionsByRemoteID[id]
<1>1. TypeOK /\ IndexesSound /\ IndexesComplete
  BY DEF Inv, RegistryConsistent
<1>2. /\ id \in RemoteIDs
      /\ id # None
      /\ s # None
      /\ s.provider = None
      /\ remoteIDByProvider[p] = None
      /\ sessionsByRemoteID' = [sessionsByRemoteID EXCEPT ![id].provider = p]
  BY <1>1 DEF BindProviderSession, MayBind, TypeOK
<1>3. [s EXCEPT !.provider = p] \in Session
  BY <1>1, <1>2, SessionIsNotNone DEF Session
<1>4. \A i \in RemoteIDs :
        sessionsByRemoteID'[i] = IF i = id THEN [s EXCEPT !.provider = p]
                                 ELSE sessionsByRemoteID[i]
  BY <1>1, <1>2 DEF TypeOK
<1>5. LiveIDs' = LiveIDs /\ id \in LiveIDs
  BY <1>2, <1>3, <1>4, NoneIsDistinct DEF LiveIDs
<1>6. \A i \in LiveIDs : sessionsByRemoteID[i].provider # p
  BY <1>1, <1>2, NoneIsDistinct DEF IndexesComplete, LiveIDs
<1>7. s.launcher = l
  BY <1>1, <1>2 DEF IndexesSound
<1>8. \A i \in LiveIDs \ {id} : sessionsByRemoteID'[i] = sessionsByRemoteID[i]
  BY <1>4 DEF LiveIDs
<1>9. sessionsByRemoteID'[id] = [s EXCEPT !.provider = p]
  BY <1>2, <1>4
<1> QED
  BY <1>2, <1>5, <1>6, <1>7, <1>8, <1>9

LEMMA UnregisterEffect ==
  ASSUME Inv, NEW l \in Launchers, UnregisterLaunch(l)
  PROVE  \E id \in LiveIDs :
           /\ sessionsByRemoteID[id].launcher = l
           /\ LiveIDs' = LiveIDs \ {id}
           /\ \A i \in LiveIDs' : sessionsByRemoteID'[i] = sessionsByRemoteID[i]
<1> DEFINE id == remoteIDByLauncher[l]
<1>1. TypeOK /\ IndexesSound
  BY DEF Inv, RegistryConsistent
<1>2. id # None /\ id \in LiveIDs /\ sessionsByRemoteID[id].launcher = l
  BY <1>1 DEF UnregisterLaunch, IndexesSound
<1>3. sessionsByRemoteID' = Without(sessionsByRemoteID, {id})
  BY <1>2 DEF UnregisterLaunch, LiveIDs
<1>4. \A i \in RemoteIDs :
        sessionsByRemoteID'[i] = IF i = id THEN None ELSE sessionsByRemoteID[i]
  BY <1>1, <1>3 DEF TypeOK, Without
<1>5. LiveIDs' = LiveIDs \ {id}
  BY <1>4 DEF LiveIDs
<1>6. \A i \in LiveIDs' : sessionsByRemoteID'[i] = sessionsByRemoteID[i]
  BY <1>4, <1>5 DEF LiveIDs
<1> QED
  BY <1>2, <1>5, <1>6

LEMMA SetResultEffect ==
  ASSUME Inv, NEW id \in LiveIDs, NEW e \in Events, SetResult(id, e)
  PROVE  /\ LiveIDs' = LiveIDs
         /\ \E st \in States, u \in BOOLEAN :
              sessionsByRemoteID'[id] =
                [sessionsByRemoteID[id] EXCEPT !.state = st, !.unread = u]
         /\ \A i \in LiveIDs \ {id} : sessionsByRemoteID'[i] = sessionsByRemoteID[i]
<1> DEFINE s == sessionsByRemoteID[id]
           t == [s EXCEPT !.state = ReducedState(e, s.state), !.unread = ReducedUnread(e)]
<1>1. TypeOK /\ id \in RemoteIDs /\ s \in Session
  BY SessionIsNotNone DEF Inv, LiveIDs
<1>2. ReducedState(e, s.state) \in States /\ ReducedUnread(e) \in BOOLEAN
  BY <1>1, ReducedStateType DEF Session, ReducedUnread
<1>3. t \in Session
  BY <1>1, <1>2 DEF Session
<1>4. \A i \in RemoteIDs :
        sessionsByRemoteID'[i] = IF i = id THEN t ELSE sessionsByRemoteID[i]
  BY <1>1 DEF SetResult, TypeOK
<1>5. LiveIDs' = LiveIDs
  BY <1>3, <1>4, NoneIsDistinct DEF LiveIDs
<1>6. sessionsByRemoteID'[id] = t
  BY <1>1, <1>4
<1>7. \A i \in LiveIDs \ {id} : sessionsByRemoteID'[i] = sessionsByRemoteID[i]
  BY <1>4 DEF LiveIDs
<1> QED
  BY <1>2, <1>5, <1>6, <1>7

(* Apply and ApplyIfCurrent store the result of one event in one session. *)
LEMMA UpdateIsSetResult ==
  ASSUME Inv, NEW p \in Providers,
         \/ \E e \in HookEvents : Apply(p, e)
         \/ ApplyIfCurrent(p)
  PROVE  \E id \in LiveIDs, e \in Events :
           SetResult(id, e) /\ sessionsByRemoteID[id].provider = p
<1>1. remoteIDByProvider[p] # None
  BY DEF Apply, ApplyIfCurrent
<1>2. /\ remoteIDByProvider[p] \in LiveIDs
      /\ sessionsByRemoteID[remoteIDByProvider[p]].provider = p
  BY <1>1 DEF Inv, RegistryConsistent, IndexesSound
<1>3. \E e \in Events : SetResult(remoteIDByProvider[p], e)
  BY DEF Apply, ApplyIfCurrent, HookEvents, Events
<1> QED
  BY <1>2, <1>3

(* The keys of a session that lives through a step. *)
KeysKept(i) ==
  /\ sessionsByRemoteID'[i].launcher = sessionsByRemoteID[i].launcher
  /\ sessionsByRemoteID'[i].terminal = sessionsByRemoteID[i].terminal
  /\ sessionsByRemoteID[i].provider # None
       => sessionsByRemoteID'[i].provider = sessionsByRemoteID[i].provider

LEMMA StepKeepsKeys ==
  ASSUME Inv, [Next]_vars, NEW i \in LiveIDs, i \in LiveIDs'
  PROVE  KeysKept(i)
<1>0. sessionsByRemoteID[i] \in Session
  BY SessionIsNotNone DEF Inv, LiveIDs
<1>1. CASE \E l \in Launchers, t \in Terminals : RegisterLaunch(l, t)
  BY <1>1, RegisterLaunchEffect DEF KeysKept
<1>2. CASE \E l \in Launchers, p \in Providers : BindProviderSession(l, p)
  <2>1. PICK l \in Launchers, p \in Providers : BindProviderSession(l, p)
    BY <1>2
  <2>2. PICK id \in LiveIDs :
          /\ sessionsByRemoteID[id].provider = None
          /\ sessionsByRemoteID'[id] = [sessionsByRemoteID[id] EXCEPT !.provider = p]
          /\ \A j \in LiveIDs \ {id} : sessionsByRemoteID'[j] = sessionsByRemoteID[j]
    BY <2>1, BindEffect
  <2>3. CASE i = id
    BY <2>2, <2>3, <1>0 DEF KeysKept, Session
  <2>4. CASE i # id
    BY <2>2, <2>4 DEF KeysKept
  <2> QED
    BY <2>3, <2>4
<1>3. CASE \E l \in Launchers : UnregisterLaunch(l)
  BY <1>3, UnregisterEffect DEF KeysKept
<1>4. CASE \E p \in Providers : (\E e \in HookEvents : Apply(p, e)) \/ ApplyIfCurrent(p)
  <2>1. PICK id \in LiveIDs, e \in Events : SetResult(id, e)
    BY <1>4, UpdateIsSetResult
  <2>2. PICK st \in States, u \in BOOLEAN :
          sessionsByRemoteID'[id] = [sessionsByRemoteID[id] EXCEPT !.state = st, !.unread = u]
    BY <2>1, SetResultEffect
  <2>3. CASE i = id
    BY <2>2, <2>3, <1>0 DEF KeysKept, Session
  <2>4. CASE i # id
    BY <2>1, <2>4, SetResultEffect DEF KeysKept
  <2> QED
    BY <2>3, <2>4
<1>5. CASE UNCHANGED vars
  BY <1>5 DEF vars, KeysKept
<1> QED
  BY <1>1, <1>2, <1>3, <1>4, <1>5 DEF Next

(* A session that lives through a step keeps its launcher, its terminal and *)
(* a provider once bound.                                                   *)
THEOREM RoutingIsStable == Spec => RoutingStable
<1>1. Inv /\ [Next]_vars =>
        [\A id \in LiveIDs \cap LiveIDs' :
           LET before == sessionsByRemoteID[id]
               after  == sessionsByRemoteID'[id]
           IN /\ after.launcher = before.launcher
              /\ after.terminal = before.terminal
              /\ before.provider # None => after.provider = before.provider]_vars
  BY StepKeepsKeys DEF KeysKept
<1> QED
  BY <1>1, SpecInv, PTL DEF Spec, RoutingStable

-----------------------------------------------------------------------------
(* The refinement: a step of the registry is a step of the directory on the *)
(* set of live sessions.                                                    *)
LEMMA EntryOfUnchanged ==
  ASSUME NEW i, sessionsByRemoteID'[i] = sessionsByRemoteID[i]
  PROVE  DirectoryEntry(i)' = DirectoryEntry(i)
BY DEF DirectoryEntry

LEMMA EntriesDiffer ==
  ASSUME NEW i, NEW j, DirectoryEntry(i) = DirectoryEntry(j)
  PROVE  i = j
BY DEF DirectoryEntry

LEMMA LaunchRefines ==
  ASSUME Inv, NEW l \in Launchers, NEW t \in Terminals, RegisterLaunch(l, t)
  PROVE  Directory!Launch(l, t)
<1>1. \A i \in LiveIDs : sessionsByRemoteID[i].launcher # l
  BY RegisterLaunchEffect
<1>2. PICK new \in RemoteIDs \ LiveIDs :
        /\ LiveIDs' = {i \in LiveIDs : sessionsByRemoteID[i].terminal # t} \cup {new}
        /\ sessionsByRemoteID'[new] = NewSession(l, t)
        /\ \A i \in LiveIDs' \ {new} : sessionsByRemoteID'[i] = sessionsByRemoteID[i]
  BY RegisterLaunchEffect
<1>3. DirectoryEntry(new)' =
        [id |-> new, launcher |-> l, terminal |-> t, provider |-> None,
         state |-> "idle", unread |-> FALSE]
  BY <1>2 DEF DirectoryEntry, NewSession
<1>4. {s \in LiveSessions : s.terminal # t}
        = {DirectoryEntry(i) : i \in {j \in LiveIDs : sessionsByRemoteID[j].terminal # t}}
  BY DEF LiveSessions, DirectoryEntry
<1>5. \A i \in {j \in LiveIDs : sessionsByRemoteID[j].terminal # t} :
        DirectoryEntry(i)' = DirectoryEntry(i)
  BY <1>2, EntryOfUnchanged
<1>6. LiveSessions' = {s \in LiveSessions : s.terminal # t} \cup {DirectoryEntry(new)'}
  BY <1>2, <1>4, <1>5 DEF LiveSessions
<1>7. \A s \in LiveSessions : s.launcher # l /\ s.id # new
  BY <1>1, <1>2 DEF LiveSessions, DirectoryEntry
<1> QED
  BY <1>3, <1>6, <1>7 DEF Directory!Launch

LEMMA BindRefines ==
  ASSUME Inv, NEW l \in Launchers, NEW p \in Providers, BindProviderSession(l, p)
  PROVE  Directory!Bind(l, p)
<1>1. PICK id \in LiveIDs :
        /\ sessionsByRemoteID[id].launcher = l
        /\ sessionsByRemoteID[id].provider = None
        /\ sessionsByRemoteID'[id] = [sessionsByRemoteID[id] EXCEPT !.provider = p]
        /\ \A i \in LiveIDs \ {id} : sessionsByRemoteID'[i] = sessionsByRemoteID[i]
  BY BindEffect
<1>2. LiveIDs' = LiveIDs /\ \A i \in LiveIDs : sessionsByRemoteID[i].provider # p
  BY BindEffect
<1>3. sessionsByRemoteID[id] \in Session
  BY SessionIsNotNone DEF Inv, LiveIDs
<1>4. DirectoryEntry(id)' = [DirectoryEntry(id) EXCEPT !.provider = p]
  BY <1>1, <1>3 DEF DirectoryEntry, Session
<1>5. \A i \in LiveIDs \ {id} : DirectoryEntry(i)' = DirectoryEntry(i)
  BY <1>1, EntryOfUnchanged
<1>6. LiveSessions' = (LiveSessions \ {DirectoryEntry(id)}) \cup {DirectoryEntry(id)'}
  BY <1>2, <1>5, EntriesDiffer DEF LiveSessions
<1>7. /\ DirectoryEntry(id) \in LiveSessions
      /\ DirectoryEntry(id).launcher = l
      /\ DirectoryEntry(id).provider = None
  BY <1>1 DEF LiveSessions, DirectoryEntry
<1>8. \A s \in LiveSessions : s.provider # p
  BY <1>2 DEF LiveSessions, DirectoryEntry
<1> QED
  BY <1>4, <1>6, <1>7, <1>8 DEF Directory!Bind

LEMMA CloseRefines ==
  ASSUME Inv, NEW l \in Launchers, UnregisterLaunch(l)
  PROVE  Directory!Close(l)
<1>1. PICK id \in LiveIDs :
        /\ sessionsByRemoteID[id].launcher = l
        /\ LiveIDs' = LiveIDs \ {id}
        /\ \A i \in LiveIDs' : sessionsByRemoteID'[i] = sessionsByRemoteID[i]
  BY UnregisterEffect
<1>2. \A i \in LiveIDs' : DirectoryEntry(i)' = DirectoryEntry(i)
  BY <1>1, EntryOfUnchanged
<1>3. LiveSessions' = LiveSessions \ {DirectoryEntry(id)}
  BY <1>1, <1>2, EntriesDiffer DEF LiveSessions
<1>4. DirectoryEntry(id) \in LiveSessions /\ DirectoryEntry(id).launcher = l
  BY <1>1 DEF LiveSessions, DirectoryEntry
<1> QED
  BY <1>3, <1>4 DEF Directory!Close

(* An entry that differs from another in two fields is its update. *)
LEMMA EntryUpdate ==
  ASSUME NEW d \in Directory!LiveSession, NEW e \in Directory!LiveSession,
         e.id = d.id, e.launcher = d.launcher, e.terminal = d.terminal,
         e.provider = d.provider
  PROVE  e = [d EXCEPT !.state = e.state, !.unread = e.unread]
BY DEF Directory!LiveSession

LEMMA UpdateRefines ==
  ASSUME Inv, NEW p \in Providers,
         \/ \E e \in HookEvents : Apply(p, e)
         \/ ApplyIfCurrent(p)
  PROVE  Directory!Update(p)
<1>1. PICK id \in LiveIDs, e \in Events :
        SetResult(id, e) /\ sessionsByRemoteID[id].provider = p
  BY UpdateIsSetResult
<1>2. PICK st \in States, u \in BOOLEAN :
        sessionsByRemoteID'[id] = [sessionsByRemoteID[id] EXCEPT !.state = st, !.unread = u]
  BY <1>1, SetResultEffect
<1>3. LiveIDs' = LiveIDs
  BY <1>1, SetResultEffect
<1>4. \A i \in LiveIDs \ {id} : DirectoryEntry(i)' = DirectoryEntry(i)
  BY <1>1, SetResultEffect, EntryOfUnchanged
<1>5. sessionsByRemoteID[id] \in Session
  BY SessionIsNotNone DEF Inv, LiveIDs
<1>6. DirectoryEntry(id)' = [DirectoryEntry(id) EXCEPT !.state = st, !.unread = u]
  <2> DEFINE d == DirectoryEntry(id)
  <2>1. d' = [id |-> id,
              launcher |-> sessionsByRemoteID[id].launcher,
              terminal |-> sessionsByRemoteID[id].terminal,
              provider |-> sessionsByRemoteID[id].provider,
              state |-> st, unread |-> u]
    BY <1>2, <1>5 DEF DirectoryEntry, Session
  <2>2. d \in Directory!LiveSession /\ d' \in Directory!LiveSession
    BY <2>1, <1>5 DEF DirectoryEntry, Session, Directory!LiveSession, LiveIDs
  <2>3. /\ d'.id = d.id /\ d'.launcher = d.launcher /\ d'.terminal = d.terminal
        /\ d'.provider = d.provider /\ d'.state = st /\ d'.unread = u
    BY <2>1 DEF DirectoryEntry
  <2> HIDE DEF d
  <2>4. d' = [d EXCEPT !.state = d'.state, !.unread = d'.unread]
    BY <2>2, <2>3, EntryUpdate
  <2> QED
    BY <2>3, <2>4 DEF d
<1>7. LiveSessions' = (LiveSessions \ {DirectoryEntry(id)}) \cup {DirectoryEntry(id)'}
  BY <1>3, <1>4, EntriesDiffer DEF LiveSessions
<1>8. DirectoryEntry(id) \in LiveSessions /\ DirectoryEntry(id).provider = p
  BY <1>1 DEF LiveSessions, DirectoryEntry
<1> QED
  BY <1>6, <1>7, <1>8 DEF Directory!Update

(* The registry with its indexes implements the directory of live sessions. *)
THEOREM RegistryImplementsDirectory == Spec => ImplementsDirectory
<1>1. Init => Directory!Init
  BY DEF Init, Directory!Init, LiveSessions, LiveIDs
<1>2. Inv /\ [Next]_vars => [Directory!Next]_LiveSessions
  <2> SUFFICES ASSUME Inv, [Next]_vars PROVE [Directory!Next]_LiveSessions
    OBVIOUS
  <2>1. CASE \E l \in Launchers, t \in Terminals : RegisterLaunch(l, t)
    BY <2>1, LaunchRefines DEF Directory!Next
  <2>2. CASE \E l \in Launchers, p \in Providers : BindProviderSession(l, p)
    BY <2>2, BindRefines DEF Directory!Next
  <2>3. CASE \E l \in Launchers : UnregisterLaunch(l)
    BY <2>3, CloseRefines DEF Directory!Next
  <2>4. CASE \E p \in Providers : (\E e \in HookEvents : Apply(p, e)) \/ ApplyIfCurrent(p)
    BY <2>4, UpdateRefines DEF Directory!Next
  <2>5. CASE UNCHANGED vars
    BY <2>5 DEF vars, LiveSessions, LiveIDs, DirectoryEntry
  <2> QED
    BY <2>1, <2>2, <2>3, <2>4, <2>5 DEF Next
<1> QED
  BY <1>1, <1>2, SpecInv, PTL DEF Spec, ImplementsDirectory, Directory!Spec
================================================================================
