--------------------------- MODULE SessionDirectory ---------------------------
(***************************************************************************)
(* What the session registry promises, without its indexes: a set of live  *)
(* sessions in which a launcher, a terminal and a provider session each    *)
(* name at most one session.  SessionRegistry keeps four dictionaries and  *)
(* is shown to implement this module.                                      *)
(***************************************************************************)
CONSTANTS Launchers,   (* codex-shim launcher instances                    *)
          Terminals,   (* terminal targets a launcher runs in              *)
          Providers,   (* Codex session identifiers                        *)
          RemoteIDs,   (* identifiers the registry hands out               *)
          States,      (* the session states the display shows             *)
          InitialState,
          None         (* the absent value                                 *)

VARIABLE live          \* the set of live sessions

LiveSession ==
  [id : RemoteIDs, launcher : Launchers, terminal : Terminals,
   provider : Providers \cup {None}, state : States, unread : BOOLEAN]

Init == live = {}

(* A launch replaces whatever session ran in the same terminal. *)
Launch(l, t) ==
  /\ \A s \in live : s.launcher # l
  /\ \E id \in RemoteIDs :
       /\ \A s \in live : s.id # id
       /\ live' = {s \in live : s.terminal # t}
                    \cup {[id |-> id, launcher |-> l, terminal |-> t, provider |-> None,
                           state |-> InitialState, unread |-> FALSE]}

Bind(l, p) ==
  /\ \A s \in live : s.provider # p
  /\ \E s \in live :
       /\ s.launcher = l
       /\ s.provider = None
       /\ live' = (live \ {s}) \cup {[s EXCEPT !.provider = p]}

Close(l) == \E s \in live : s.launcher = l /\ live' = live \ {s}

Update(p) ==
  \E s \in live, st \in States, u \in BOOLEAN :
    /\ s.provider = p
    /\ live' = (live \ {s}) \cup {[s EXCEPT !.state = st, !.unread = u]}

Next ==
  \/ \E l \in Launchers, t \in Terminals : Launch(l, t)
  \/ \E l \in Launchers, p \in Providers : Bind(l, p)
  \/ \E l \in Launchers : Close(l)
  \/ \E p \in Providers : Update(p)

Spec == Init /\ [][Next]_live
================================================================================
