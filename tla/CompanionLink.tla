----------------------------- MODULE CompanionLink -----------------------------
(***************************************************************************)
(* The Mac's link to the device: BluetoothTransportStateMachine as         *)
(* CoreBluetoothTransport drives it.  The state machine asks Core Bluetooth *)
(* for one thing after the other; each action is a callback with the       *)
(* answer, or an interruption.  One device; start() has run with the radio *)
(* not known to be on.                                                     *)
(***************************************************************************)
EXTENDS Naturals

CONSTANTS Roles,         \* the characteristics with required notifications
          Info,          \* .deviceInfo, whose subscription is renewed
          MaxFaults      \* bound: interruptions and failures

ASSUME LinkAssumption == Info \in Roles /\ MaxFaults \in Nat

VARIABLES state,         \* of the state machine
          enabledNotifications,
          resets,        \* pendingSubscriptionResets
          asked,         \* per role: "no", "off" or "on", the notification state asked for
          discovery,     \* a discovery was asked for and is not answered
          cancelled,     \* cancelConnection was called for this connection
          faults

link == <<state, enabledNotifications, resets, asked, discovery, cancelled, faults>>

Connections == {"connecting", "discoveringService", "discoveringCharacteristics",
                "subscribingNotifications", "ready"}

Fault == faults < MaxFaults /\ faults' = faults + 1

NothingAsked == [r \in Roles |-> "no"]

LinkInit ==
  /\ state = "unavailable" /\ enabledNotifications = {} /\ resets = {}
  /\ asked = NothingAsked /\ discovery = FALSE /\ cancelled = FALSE /\ faults = 0

(* startScanning connects at once to a device the system is connected to.   *)
StartScan ==
  /\ state' \in {"scanning", "connecting"}
  /\ enabledNotifications' = {}
  /\ asked' = NothingAsked /\ discovery' = FALSE /\ cancelled' = FALSE

PoweredOn ==
  /\ state = "unavailable"
  /\ StartScan
  /\ UNCHANGED <<resets, faults>>

(* Core Bluetooth drops its connections without a callback, or with one,    *)
(* which clears the pending resets.                                         *)
PoweredOff ==
  /\ state # "unavailable"
  /\ Fault
  /\ state' = "unavailable" /\ enabledNotifications' = {}
  /\ asked' = NothingAsked /\ discovery' = FALSE /\ cancelled' = FALSE
  /\ resets' \in {resets, {}}

DiscoveredDevice ==
  /\ state = "scanning"
  /\ state' = "connecting"
  /\ UNCHANGED <<enabledNotifications, resets, asked, discovery, cancelled, faults>>

Connected ==
  /\ state = "connecting"
  /\ state' = "discoveringService" /\ discovery' = TRUE
  /\ UNCHANGED <<enabledNotifications, resets, asked, cancelled, faults>>

ServiceDiscovered ==
  /\ state = "discoveringService" /\ discovery
  /\ state' = "discoveringCharacteristics"
  /\ UNCHANGED <<enabledNotifications, resets, asked, discovery, cancelled, faults>>

(* With an error, or without the service or a characteristic, nothing more  *)
(* is asked for: the connection stays as it is until it is lost.            *)
DiscoveryFails ==
  /\ discovery
  /\ Fault
  /\ discovery' = FALSE
  /\ UNCHANGED <<state, enabledNotifications, resets, asked, cancelled>>

(* The device info is asked for again by a subscription that is off before. *)
CharacteristicsDiscovered ==
  /\ state = "discoveringCharacteristics" /\ discovery
  /\ state' = "subscribingNotifications" /\ discovery' = FALSE
  /\ enabledNotifications' = {}
  /\ \/ /\ resets' = resets \cup {Info}
        /\ asked' = [r \in Roles |-> IF r = Info THEN "off" ELSE "on"]
     \/ /\ asked' = [r \in Roles |-> "on"]
        /\ UNCHANGED resets
  /\ UNCHANGED <<cancelled, faults>>

(* didUpdateNotificationState while a reset is pending: only a notification *)
(* that is off now is the end of it.                                        *)
ResetDone ==
  /\ Info \in resets /\ asked[Info] = "off"
  /\ resets' = resets \ {Info}
  /\ asked' = [asked EXCEPT ![Info] = "on"]
  /\ UNCHANGED <<state, enabledNotifications, discovery, cancelled, faults>>

PassedOver ==                \* mutant: a subscription that failed is passed over
  UNCHANGED cancelled

CancelConnection == cancelled' = TRUE

(* A failure, or an answer to a subscription while the reset of an earlier  *)
(* connection is still noted, cancels the connection.                       *)
NotificationFails(r) ==
  /\ asked[r] # "no"
  /\ IF r \in resets /\ asked[r] = "on" THEN UNCHANGED faults ELSE Fault
  /\ resets' = resets \ {r}
  /\ asked' = [asked EXCEPT ![r] = "no"]
  /\ CancelConnection
  /\ UNCHANGED <<state, enabledNotifications, discovery>>

ReadyWhenAnswered(r) ==      \* mutant: ready when no answer is missing any more
  /\ asked[r] = "on" /\ r \notin resets
  /\ asked' = [asked EXCEPT ![r] = "no"]
  /\ enabledNotifications' = enabledNotifications \cup {r}
  /\ state' = IF asked' = NothingAsked THEN "ready" ELSE state
  /\ UNCHANGED <<resets, discovery, cancelled, faults>>

NotificationOn(r) ==
  /\ asked[r] = "on" /\ r \notin resets
  /\ asked' = [asked EXCEPT ![r] = "no"]
  /\ enabledNotifications' = enabledNotifications \cup {r}
  /\ state' = IF enabledNotifications' = Roles THEN "ready" ELSE state
  /\ UNCHANGED <<resets, discovery, cancelled, faults>>

(* The connection is lost, was cancelled or did not come about: a failed    *)
(* connect does not clear the pending resets.                               *)
Disconnected ==
  /\ state \in Connections
  /\ IF cancelled THEN UNCHANGED faults ELSE Fault
  /\ resets' = {} \/ (state = "connecting" /\ UNCHANGED resets)
  /\ StartScan

(* Answers of the radio: they come after whatever the callbacks before them *)
(* have put on the main queue.                                              *)
Answered ==
  \/ DiscoveredDevice \/ Connected \/ ServiceDiscovered \/ CharacteristicsDiscovered
  \/ \E r \in Roles : NotificationOn(r) \/ NotificationFails(r)

LinkTypeOK ==
  /\ state \in Connections \cup {"unavailable", "scanning"}
  /\ enabledNotifications \subseteq Roles /\ resets \subseteq {Info}
  /\ state = "ready" => enabledNotifications = Roles
  /\ asked \in [Roles -> {"no", "off", "on"}]
  /\ discovery \in BOOLEAN /\ cancelled \in BOOLEAN /\ faults \in 0..MaxFaults
================================================================================
