# Codex Remote in TLA+

Codex Remote is a small ESP32 device with a screen, a touch panel, one button
(GPIO18), a microphone and a loudspeaker. It shows the Codex sessions that run
in terminals on a Mac, selects one, sends keys to it, and sends the user's voice
to it while the button is held. In its second mode, Codex Micro, it is a HID
keyboard of the desktop, with a companion app on the Mac (or on Windows) for the
voice. This directory models the parts of that system in which the order of
events matters, checks them with TLC and proves their central invariants with
TLAPS.

    tlc -workers 2 -config MCAudioCapture.cfg MCAudioCapture
    tlapm AudioCapture_proofs.tla

`PROJECT.json` maps every definition to the lines it models and lists the runs,
the mutants (one plausible bug for every property checked, defined beside the
definition it replaces), the findings, the hazards and the theorems.

## 1. The system

### Device (`src/firmware`)

| Part | State | Operations | Who calls it |
|---|---|---|---|
| `input_state.c` | five flags and three times of one press | `cr_input_reduce` on an edge and on a tick | `button_task`, which then works and sleeps 10 ms |
| `audio_capture.c` | capture mode, pre-roll ring, sequence numbers, codecs, one mutex | prepare, commit, discard, stop, power_down, alert_play | `button_task`, `power_task`, `micro_state_task`; its own `capture_task` and `alert_task` |
| `app_main.c` | `ptt_active`, `audio_prepared`, `enhanced_ptt_active`, `micro_button_ptt_active`, power mode | `execute_input_action`, UI callbacks, five tasks | FreeRTOS |
| `device_state.c` | sessions, generation, delta sequence, selection, `ptt_active` | apply a message, select, disconnect | NimBLE host task (written), button and UI tasks (read, no lock) |
| `ble_transport.c` | connection handle, subscriptions, pending select, reassembler, transmit lock | GAP events, writes of the host, `cr_ble_send_*` | NimBLE host task; button and UI tasks |
| `ui.c`, `interaction_policy.c`, `display_runtime.c` | screen, press state of keys | touch handlers, `ui_state_task` | LVGL under the display lock |
| `power_state.c`, `power_telemetry.c`, `power_log.c` | deadlines, samples, a two-file log | note, update, record, export | `power_task`, tools |
| `connection_mode.c`, `connection_mode_store.c` | active and chosen mode, NVS | select, confirm, restart | boot, UI |
| `codex_micro_hid` | HID reports, RPC frames, agent status | reports, vendor frames | NimBLE host task, UI |
| `asset_state.c` | chunked transfer | begin, receive, cancel | NimBLE host task |

### Mac (`src/macos`)

| Part | State | Operations | How it runs |
|---|---|---|---|
| `SessionRegistry` | sessions and three indexes | register, bind, unregister, apply | actor, called across awaits by `SessionService` |
| `SessionService` | none of its own | hooks, select, keys, scroll | actor, suspends at Ghostty |
| `DeviceSyncReducer` | generation, sequence, session keys | connect, update, resync, disconnect | main actor |
| `MacClientCoordinator` | selection, talk, request cache, reassemblers | one handler per message | main actor, suspends at the session client and the recogniser |
| `CompanionAudioCoordinator` | talk, request cache | the same for Codex Micro | main actor |
| `BluetoothTransportStateMachine`, `CoreBluetoothTransport` | link state | CoreBluetooth callbacks | main queue |
| Speech input (`Audio/`, `Input/`) | recognition session, continuation, input device, hotkey | begin, receive, end, abort | main actor and network callbacks |
| Helper and IPC (`Helper/`, `Socket/`) | hook queue file under a lock, sockets | enqueue, drain, request | processes that may die |
| Setup (`Setup/`) | checklist items, managed files | inspect, install, automate | main actor |

### How they interact

A hook of Codex reaches the helper, which queues it or hands it to the Mac
application; `SessionService` puts it into the registry; the coordinator turns
the registry's list into snapshots and deltas for the device. A tap on a card
sends a select, which focuses a terminal and comes back as a result; only then
does the device have a selection. A held button starts the pre-roll at once; at
350 ms the device sends `PTT_BEGIN` with the first sequence number, flushes the
ring and streams; the release sends `PTT_END` with the last one, and the Mac
waits for the recogniser to finish.

What makes this hard: `button_task`, the NimBLE host task, `capture_task`,
`alert_task` and `power_task` share flags of which only some are under a lock;
a talk is one logical thing recorded in five places (the reducer's flag,
`ptt_active`, the capture mode, the wire, the Mac's session key) that change one
after the other; the link may go at any of these steps; and every handler of the
Mac suspends in the middle.

### What makes each part correct

- Registry: the four dictionaries describe one set of sessions; a live session
  keeps its route.
- Reducer: what comes out are whole gestures, whatever the edges, the lateness of
  the poll and the context.
- Capture: the pre-roll is the newest speech in order; the frames of a talk leave
  in order, none twice, none unannounced; codecs are open in use and free after.
- Talk: the device, the capture and the Mac agree on whether there is one and for
  which session, and all of them end it with the release.
- Session sync: a key on the device names one session of the Mac; a device whose
  counts agree with the Mac's has its list; a snapshot that was sent takes effect.
- Companion talk: the coordinator and the recogniser agree on whether there is one;
  an awaited end is resumed once and is over in the end; a link that comes up starts
  with nothing of the one before.
- Hook queue: whoever dies in between, a queued event is handed over or still in the
  file, it is handed over again only when a drain was cut, and a session's launch goes
  before its start.
- Request handling of `MacClientCoordinator` (not modelled): a request takes effect
  once and is answered once.

## 2. The modules

Parts that interact are joined through a short abstract module: the detailed
module is shown to implement it, and the modules above use it instead.

    SessionDirectory <- SessionRegistry    used by HookQueue
    ButtonGestures   <- ButtonInput        used by PushToTalk, MicroPushToTalk
    CaptureControl   <- AudioCapture       used by PushToTalk, MicroPushToTalk
    CompanionTalk    <- CompanionSpeech    used by MicroPushToTalk; PushToTalk's Mac
                                           is another coordinator and keeps it too
    DurableQueue     <- HookQueue
    CompanionLink    is part of CompanionSpeech, which resets its talk with the link

The chain is closed at both ends: each detailed module implements its abstract one
(the left column, a property of a run and a theorem), and what the talk modules do of a
part is what its abstract module allows (`PartsKeepPromises`, a theorem of both).

**`SessionRegistry`** is `SessionRegistry.swift` with `SessionStateReducer.swift`.
The variables are its dictionaries; `RegisterLaunch`, `BindProviderSession`,
`UnregisterLaunch`, `Apply` and `ApplyIfCurrent` are its methods, each atomic
because the type is an actor. Calls that throw change nothing and are not
actions. An id once handed out may be handed out again after its session is gone;
the UUIDs of the code are distinct, so this only adds behaviours. Titles, labels
and time stamps are left out. **`SessionDirectory`** says the same with a set.

**`ButtonInput`** is `cr_input_reduce` as `button_task` calls it: `Sample` reads
the level and the context after one of the times in `Periods` (`button_task` does what
the last round asked for, which may open codecs, flush the ring and send, and then
sleeps 10 ms: there is no shortest common step and no longest one),
`HandleDown` and `HandleUp` are the edge, `TickHold`, `TickWindowOver` and
`TickIdle` the tick. Times are ages in a unit the instance chooses, capped just above
the threshold that reads them. `jumped` is history: the poll that found the button
pressed had come from before the end of the double-click window to after it. The context may differ at every poll. **`ButtonGestures`** has
no time: a press is consumed, held or talking, and a short release may leave a
click that waits.

**`AudioCapture`** is `audio_capture.c`. `capture_task` takes five steps for a
frame (look at the mode, read, store, send, record), `alert_task` six for a melody,
and `commit` one for each frame of the ring, for it holds the mutex while it
sends; `Prepare`, `Halt` (discard and stop) and `PowerDown` are atomic under the
mutex. A frame is its sequence number. `stored`, `newest_sent` and `alert_leaked`
are history. A step that needs the mutex waits while a commit holds it.
**`CaptureControl`** keeps the mode and what may be sent in it.

**`PushToTalk`** is Mac-app mode. `button_task` advances statement by statement
through `execute_input_action` (`pc`), for between two statements the NimBLE host
task may take a snapshot, a delta, a select result, a disconnect or a change of
subscription, and the Mac may handle a message. `wire` is what the device has
sent and the Mac not handled, in order, as BLE delivers it on one link. When the
link is lost any prefix of it stays (`HostReset`): the packets that had come are jobs
already queued, and the coordinator handles them after `resetConnection`; the next
connection resets it again before it is ready (`HostReady`). A message can fail to be sent (no buffer, no link). On the Mac
the select and the end suspend: `HostSelect`/`HostFocused` and
`HostEnd`/`HostEnded` are the two halves, with anything in between. `upset`
records what came between a press and its release; `told` the key of the last
`PTT_BEGIN`.

**`MicroPushToTalk`** is Codex Micro mode: the audio path to the companion and the
key `ACT10`, chosen again for each action, while the companion subscribes and
unsubscribes on a link the desktop holds anyway. Talks are not per session there. The
companion is taken by its promise, `CompanionTalk`: a begin may be refused, an end is
awaited or fails, and a talk may be over at any time (`HostOver`).

**`SessionSync`** is the device's copy of the session list: `DeviceSyncReducer.swift`
as `MacClientCoordinator` drives it, a link that drops, and `device_state.c` behind
`fragment.c`. A list is a function from session ids to content. `Connect`,
`UpdateMembers`, `UpdateFields`, `UpdateUnconnected` and `DisconnectReducer` are the
reducer's methods with the sends that follow; the two handlers that await the
registry are halves (`InfoArrives`/`FinishInfo`, `RefreshSessions`/`FinishRefresh`)
with anything in between, a lost link included. Content in `Oversize` makes the
encoder throw after the reducer has counted the message: a session's detail is cut
to 120 characters (`SessionStateReducer.swift:39`) and its title not at all, where
the encoder allows 192 and 64 bytes of UTF-8 (`BLEMessageCodec.swift:295`). A
snapshot with sessions is two packets, and a disconnect leaves the device's
reassembler with the first (`stale`). `latestSessions` is not a variable: while
ready it is the projected list, and otherwise it is replaced before it is read.
`resync` is left out, for the firmware never sends what it answers. In the
application of this commit only `CompanionAudioCoordinator` is wired
(`AppModel.swift:180`); `MacClientCoordinator` is the library's client, with tests
of its own. `unsent` and `refused` are history.

**`HookQueue`** is how the events of a session reach the helper daemon. A session's
commands run one after the other, each a process (`helper`): `Run` connects or fails to
(`HelperCommandRunner.swift`), an answer or a time-out ends the command, and one that
could not connect takes the `flock`, reads `pending-hooks.jsonl`, appends, drops the
oldest above `MaxEvents` and renames (`HookEventQueue.swift`). The daemon starts,
drains the file under the same lock, one frame after the other, rewrites it with what
was refused, and only then opens the gate to direct requests (`runServe` in
`main.swift`). Any process may be killed between two steps; the kernel then drops its
lock and its connections, and a rename has happened or has not. What a life of the
daemon knows is a `SessionDirectory`, empty at each start. `prompt` stands for every
hook after `SessionStart`: they act on a session they find or are refused. Left out:
the byte bound of the file (the bound on events stands for both), frames that do not
decode, the requests that are never queued (list, focus, scroll, key, unregister) and
exit codes. `log`, `runs`, `cuts` and `owed` are history: what was ever written, how
often an event took effect, how often of these the drain was cut before it rewrote the
file, and which events of the file this life has still to take. **`DurableQueue`** is
what is left without processes and locks: items that are put in when nobody takes any,
taken from the oldest on, and removed together or not at all.

**`CompanionLink`** is `BluetoothTransportStateMachine.swift` as
`CoreBluetoothTransport.swift` drives it: one action per callback, with the reset of
the device-info subscription (off, then on) and the failures that stop at nothing.
**`CompanionSpeech`** extends it with a talk at the Mac: `CompanionAudioCoordinator`,
the bridge that settings replace, and the recogniser's session with its server, its
settling timer and its finish timer. All of it runs on the main queue: `tasks` are the
jobs queued there, a packet's handler is one job (`RunPacket`, `RunEnd`), and an end
that awaits the recogniser goes on in a job of its own (`RunResume`), queued when the
result came, behind whatever was queued before. What `resume` does to the session it
finds then is the code's, whichever session that is: a session whose own end is awaited
is let go of without being cancelled (`SpeechAudioInputBridge.swift:134`), the awaiting
end keeps it alive (`dropped`), and its server or its finish timer still resumes that
end (`DroppedAnswers`), outside any talk or in a later one. Assumed: packets come only while
the link is ready; the radio answers behind the jobs its earlier callbacks queued, for
both are on the main queue; one device; `start()` runs before the radio is known to be
on. Left out: the eviction of the 128-entry result cache (a cached id is never
forgotten here while the link lasts), the layout message and the other notifications
that keep no state, fragments, the native speech session and `stop()`. `replaced` and
`overlapped` are history. **`CompanionTalk`** is all of that to the device: a talk begins
only when none is on, an end is begun only in a talk and is not over while that
talk goes on, and what was left to return later may end a later talk.

External to `src/`: the kernel (a lock dies with its owner, a rename is atomic),
FreeRTOS (any task runs at any step, a mutex has one owner),
NimBLE (a notification is queued in order or fails), ESP codec drivers (opening a
closed codec may fail, a read may fail), CoreBluetooth and the recogniser (starts
or not, finishes, fails or is cancelled).

## 3. What TLC checks

| Run | Bounds | States | Shows |
|---|---|---|---|
| `session_registry` | 2 launchers, terminals, providers; 3 ids | 697 | indexes and sessions agree; implements `SessionDirectory` |
| `button_input` | the real 20/350/250 ms in units of 5 ms, polls 10, 15, 25 or 300 ms apart | 546,924 | a waiting click is overwritten by a poll that jumped only, and not kept for good; implements `ButtonGestures` |
| `audio_capture` | ring of 2, melody of 2 chunks, 5 sequence numbers | 884,234 | ring, order, announcement, codecs, alerts; implements `CaptureControl` |
| `push_to_talk` | 2 sessions, 2 messages on the way, symmetry | 5,246,059 | what a press turned on its release turns off, and what can prevent it |
| `micro_push_to_talk` | 2 messages on the way | 56,589 | the same over two paths; the lock ends |
| `session_sync` | 2 sessions, 3 contents, 2 changes, 2 losses, symmetry | 1,862,616 | keys name one session; equal counts mean equal lists, and so does a settled link |
| `hook_queue` | 2 launchers in one terminal, 3 commands each, a file of 2 events, 2 lives | 781,646 | queued events survive crashes, are replayed after a cut drain only, start in order; commands end; implements `DurableQueue` |
| `companion_speech` | 3 roles, 2 faults, 4 requests, 3 queued jobs, 2 session objects, 1 replacement | 709,821 | coordinator, bridge and continuation agree; a new link is clean, a new request new; ends and links make progress; implements `CompanionTalk` |
| `double_click` | as `push_to_talk` | | violation |
| `release_ends_capture` | as `push_to_talk` | | violation |
| `micro_key_up` | as `micro_push_to_talk` | | violation |
| `snapshot_takes_effect` | as `session_sync` | | violation |

Why the bounds are enough. The registry's methods touch one or two sessions;
two of each key give every collision, and a third id lets one be evicted while
another lives. The button runs with the real thresholds; polls of 10, 15 and 25 ms
reach each boundary from both sides, meet it and jump over it by the smallest step, and
one of 300 ms jumps over a whole double-click window, from its start or from anywhere
in it; longer ones meet the same caps. A ring of two wraps, is partly and wholly full, and starts at each slot;
five sequence numbers (`MaxSequence`, in the guards of the actions that number
frames) allow two talks. Two sessions are what a change of selection needs, and
two messages (`MaxWire`, in `Sent`) let a `BEGIN` and its `END` be on the way
together; there is at most one select on the way (`TapCard`). A full `wire` makes
the send wait or fail, which the code's buffers do as well. Sessions are symmetric
because no liveness property is checked in that run.

The exceptions in the talk properties. `CaptureEndsWithPress`,
`HostTalkEndsWithPress` and `KeyUpWithPress` name the events that let a press end
badly, as a subset of `upset`. They say two things: no other order of the tasks,
the link and the Mac does it, and (by the violation runs and the observations
below) those do. An exception is recorded only when it happens between the press
and its release, or is found by the press. `HostTalkEndsWithPress` has one more, for as
long as the lost link is not announced anew: a `PTT_BEGIN` that came before the loss and
is handled after `resetConnection` starts a talk nobody ends.

In `session_sync` two sessions come, go and change in any way twice
(`MaxChanges`), the link or the app is lost twice (`MaxDrops`), and generations,
deltas of a generation and packets on the way stop at 2, 2 and 3 (`MaxGeneration`,
`MaxSequence`, `MaxWire`): enough for a list that was replaced while both handlers
waited, for two deltas in one update of which one cannot be encoded, and for a
snapshot with the delta that follows it. `MaxKey` is the width of a key and is not
reached. Two contents fit the codec, so that one delta can follow another; the third
does not. `CountedListIsCurrent` leaves out the case of a snapshot of `connect` that
could not be encoded: `connect` starts at generation 1 again, so a delta may then be
applied to an older list.

In `hook_queue` the second launch takes the terminal from the first session, so that
a queued event of the first is refused and kept; a file of two events (`MaxEvents`, the
code's 64) overflows with two launchers of three commands; a second life (`MaxLives`)
meets what the first left. In `companion_speech` four requests (`MaxRequest`) are two
talks, or one and a repetition after the device starts again; three jobs (`MaxTasks`)
hold the job of an old end, and the begin and a frame behind it; two faults
(`MaxFaults`) let a link be lost while it recovers from the first; one replacement
(`MaxBridges`) gives a job whose bridge is not the current one. An object is free again
when nobody refers to it; with two (`Objects`) a session that was dropped returns while
the next talk is on or its end is awaited, or is the object of a queued result.

Deadlock is checked in every run but `session_sync`, `hook_queue` and
`companion_speech`, which really stop: generations or deltas are spent and an update
has nowhere to go; every command has run and no life is left; requests and faults are
spent.

Fairness. `ButtonInput`: `button_task` keeps polling. `AudioCapture`: a commit in
progress returns and `alert_task` runs; it is strongly fair because the mutex may be
taken each time it looks, and a FreeRTOS mutex with a waiting task is handed to
it. `MicroPushToTalk`: `button_task` keeps polling, and a button that is held is
released in the end with an edge that is not debounced away. No call of a user or
of the Mac is fair. `HookQueue`: a process that was started goes on unless it is killed,
and a wait for an answer ends (`IPCDeadline`, five seconds); no daemon need be started
or answer. `CompanionSpeech`: the main queue runs its jobs, the eight-second finish
timer fires, that of a session the bridge let go of as well (for each object of its
own, for each has its own timer), Core Bluetooth answers what it was asked while the device is near, and
reports the end of a connection it was told to cancel; the server need not answer, and
no failure is fair.

### Findings

1. `double_click`: the release that completes a double click sends Escape and
   leaves the pre-roll on, which the design says is discarded. The next press
   finds the capture busy, and until then alerts are silent and the codecs stay
   powered.
2. `release_ends_capture`: a selection that goes while the button is held (a
   snapshot or a disconnect) leaves the microphone streaming after the release.
3. `micro_key_up`: a companion that becomes ready while `ACT10` is held takes the
   `PTT_END`; the key stays down and the button locked.

4. `snapshot_takes_effect`: a link lost in the middle of a message leaves half of it
   in the device's reassembler, which then refuses the first message of the next
   connection: the snapshot. The device has no list until the sessions change.

Also met, and visible as the exceptions of the properties: a press found by a poll that
jumped over the end of the double-click window is no second click, and its release
replaces the click that waits, whose Enter is lost (`input_state.c:46` and `:83`; the work
before the sleep at `app_main.c:595` is what delays a poll; the case `jumped`), where the
design (`2026-08-02-codex-remote-control-design.md:382`) has Enter sent after the window; a
select result during
a talk makes `PTT_END` name another session, which the Mac refuses
(`app_main.c:553`); `PTT_BEGIN` can be sent on a stale `audio_prepared` when the
selection was lost in between (`app_main.c:528`); `ptt_active` can be set after a
snapshot cleared it (`app_main.c:541`); a talk whose `PTT_END` could not be sent
goes on at the Mac (`app_main.c:553`); a begin that arrived before the link was lost is
carried out after the reset, for each packet is a job of its own behind it
(`CompanionAudioCoordinator.swift:80`, and `MacClientCoordinator` alike), and the talk
stays on until the link changes its state again. In session sync, a delta whose encoding throws
has been counted (`MacClientCoordinator.swift:103`), so the next delta empties the
device's list, and only a change of the members or another device info brings it back.

In the hook queue: an event queued while the daemon drains stays in the file until the
next life, overtaken by the direct requests of this one (`HookEventQueue.swift:213`,
`main.swift:62`); a refused event and those behind it stay as well; a launch that was
queued becomes a session after the command that launched it has ended, with nobody to
unregister it; a drain that is cut before it rewrites the file hands the same events to
the next life.

In the companion talk: a frame behind `END` fails, and with it the awaited result
(`FrameFails`); the queued job of an old end drops the session of a talk begun meanwhile
without cancelling it, and may leave its result or its failure for the next link
(`SpeechAudioInputBridge.swift:134`, the case `overlapped`); if the end of that talk is
awaited already, its timer or its server resumes it all the same, and it then ends a talk
that is not its own and drops that one's session in turn; a change of the settings or
of the login while an end is awaited leaves the coordinator in `processing`, where a
begin is refused until its `END` fails or the link is reset (`AppModel.swift:216`, the
case `replaced`), and the awaited end never returns, for `cancel` drops its
continuation; a reset that was pending when the radio went off makes the next
connection be cancelled once; a discovery that fails, or finds no service, leaves the
link where it is until the device goes away (the exception of `LinkComesUp`).

## 4. What is proved

For every value of the constants, under the assumptions named in the modules
(thresholds and bounds are positive numbers, `None` is no id, the ring has at least
one slot).

- **`SessionRegistry_proofs`**: `TypeCorrect`, `Consistent`, `RoutingIsStable`,
  `RegistryImplementsDirectory`. `RegistryConsistent` is inductive together with
  `TypeOK`: the eviction of `RegisterLaunch` needs both directions of the
  correspondence, soundness to know which session the terminal's index names,
  completeness to know that the other two indexes name it too. Refinement: each
  method changes the set as the directory's action does, because by consistency an
  index finds what a search of the set finds.
- **`ButtonInput_proofs`**: `TypeCorrect`, `PressRecord`,
  `InputImplementsGestures`. `PressRecordConsistent` with `TypeOK` is inductive;
  every transition of the flags then is a gesture or a stutter. `ClickIsKept`, for any
  times between polls, adds what the window says: while a click waits and no poll has
  jumped, a press is its second click or consumed (`Window`).
- **`AudioCapture_proofs`**: `Invariance` proves an inductive invariant of parts
  about the ring, the codecs, the alert, the commit in progress and the frame
  `capture_task` holds. It is needed because none of the properties is inductive:
  `RingIsNewest` needs where the ring starts while it fills; `CodecsOpenInUse`
  needs that an alert about to write has its flag set; `LastSequenceTracksWire`
  needs how the held frame relates to the last one sent and to a commit that has
  sent part of the ring. From it: `TypeCorrect`, `PreRollIsNewest`,
  `LastSequenceIsRecent`, `CodecsStayOpen`, `AlertGivesWay`, `FramesAreOrdered`,
  `FramesAreAnnounced` and `CaptureImplementsControl`. Index arithmetic modulo the
  ring size is in lemmas about any positive size.

- **`PushToTalk_proofs`**: `Invariance` with `TypeCorrect`, `CommitHasPreRoll`,
  `CaptureEnds`, `TalkIsConsistent`, `HostTalkEnds`. No property says where `button_task` stands in
  `execute_input_action`, so none is inductive. `Place` ties the place to the gesture;
  `Selection` says that an allowed press keeps a selection unless a snapshot, a delta
  or a lost link took it; `Prepared` that the note `audio_prepared` agrees with the
  capture's own mode from the press to the begin; `Microphone` that the capture is on
  for a press only; `Talk` follows the lock, the mode and the announced key through
  each statement of the begin and the end. `HostTalkEnds` has a second invariant, `Mac`,
  on top: before the press announces itself there is no talk and no begin on the way,
  while it is announced every begin is for the session selected, and afterwards every
  begin has its end behind it and a talk is ending or has its end on the way. The
  select the Mac carries out beside need not be followed: it may only refuse a begin.
  What a lost link leaves on the way is a prefix, which may end in a begin: the invariant
  then asks for no end behind it until the link is announced (`HostReady`).
  `PartsArePromised` is the other half of the refinements: the button, the capture and the
  Mac's coordinator of this module step as `ButtonGestures`, `CaptureControl` and
  `CompanionTalk` allow or not at all.
- **`MicroPushToTalk_proofs`**: `Invariance` with `TypeCorrect`, `VoiceHasOnePath`,
  `CaptureEnds`, `HostTalkEnds`, `KeyComesUp`. `Paths` says which flags exclude which
  at every place (the release takes its path by the flags, not by the link);
  `Microphone` and `KeyHeld` that whatever is on will be ended by the path the release
  will take; `Heard` that what the companion has not handled of a press is nothing, its
  begin, its end or both in order, from which it follows that it stops listening, unless
  the companion went (`Away`). `PartsArePromised` as above; here the companion is taken by
  `CompanionTalk` itself, so its part is immediate.

- **`SessionSync_proofs`**: `Invariance` with `KeysNameOneSession`, `TypeCorrect`,
  `ListInvariance` with `CountsTellTheList`, `SettledTellsTheList` and `SnapshotArrives`. `KeysIdentify` is
  not inductive: `project` forgets the key of a session that went while the device or
  a packet still holds it. The invariant adds that each key given or told is below
  `nextSessionKey`, so none of them is given again, and that while ready the sessions
  with a key are those projected, which is what a delta's key is looked up in. That
  the device's array keeps to its capacity rests on what a packet may carry (`Bounds`):
  a list told is no longer than the list, and a delta is checked before it is stored.
  What the device shows in the end is not read off any one state, so `ListInv` follows
  what is under way: the list to begin from is the last snapshot on the wire, or with
  none the device's own, and `Agrees` says that the deltas after it, if none is missing
  up to the Mac's count, turn it into the Mac's list (`Leads`); a delta that was lost
  leaves a gap that no later one closes. `Exactly` says that nothing is missing once the
  Mac has answered on this connection and sent all it had, `Assembling` that a packet is
  refused only before the first snapshot, and `Quiet` that nothing is sent before the
  channels are ready, which is where `unsent` is cleared. `SettledTellsTheList` is
  stronger than what counts alone tell: with nothing under way `Exactly` gives that the
  device's counts are the Mac's, and `Follows` that its list is.

- **`HookQueue_proofs`**: `Invariance` with `TypeCorrect`, `QueuedNotLost`,
  `ReplayNeedsCut`, `StartIsOrdered`, `QueueImplementsDurable`. The properties relate the file to history while
  four kinds of process rewrite it, so the invariant first says what the lock gives:
  whoever is about to rewrite the file holds it as it is (`Locking`, `Busy`). Then an
  event is written once, and only when it was never sent (`OnceWritten`, `Sent`,
  `NotYet`), so that a kept event is the one that was queued; what a drain has handled
  is at the front of what it read (`HandledRan`); an event took effect at most once
  more than its drains were cut (`Counted`, from which `ReplayOnlyAfterCut`); and a
  daemon that serves owes nothing (`Owed`), which gives the order of the starts. For the
  refinement (`StepRefines`) the same facts say that what a process writes, computed from
  what it read long before, is the file of that moment with an event behind it and its
  oldest gone, or with the events handed over gone (`BoundedIsCut`).

- **`CompanionSpeech_proofs`**: `Invariance` with `TypeCorrect`, `TalkIsOneThing`,
  `LinkStartsFresh`, `RequestsAreNeverRepeats`, `SpeechImplementsTalk`. That coordinator
  and session agree is nearly inductive by itself (`Agreement`, with the bridge of the
  queued jobs in `OwnBridge`, and `DropsOverlap`: only the job of an end that another talk
  has overlapped finds a session that is awaited). That an end is resumed once rests on
  who holds a session object: the bridge, the list of those it let go of, or one queued
  result, and never two of them (`Apart`, a second invariant on top). Ids start again at 1
  with the device, so the first invariant orders them: queued requests come in the order
  of their ids (`InOrder`) and an awaited end is older than all of them, unless talks have
  overlapped (`EndOlder`). That a link
  is fresh needs that none is ready before it was subscribed to (`AskedLater`), and that
  on the way there are no talk and no request to begin one (`RisesFresh`). That a request is
  new rests on every result that is kept, or that a queued job will still keep, being
  older than all requests to come (`ResultsOld`). For the refinement an end that is
  awaited while a talk is on must show as `processing` (`ProcessedInTalk`); a dropped
  session keeps the abstract end under way until its result was handled.

Proved and without a run of their own: `RoutingStable` and `PressRecordConsistent`, which
`SessionDirectory` and `ButtonGestures` imply; `UnrefusedTakesEffect`, which
`SettledListIsCurrent` contains; `PartsKeepPromises` of both talks; and the `TypeOK` of
`SessionRegistry`, `ButtonInput` and `HookQueue`.

Only model-checked: the liveness properties `PendingClickResolves`, `AlertEnds`,
`TalkLockEnds`, `CommandsEnd`, `EndIsOver`, `LinkComesUp`, which need fairness. Every
invariant and every action property of a passing run is proved.
Out of the prover's reach: liveness and ENABLED, induction over data,
RECURSIVE operators; no module uses RECURSIVE.

## 5. The plan

Done, in this order: registry, button, capture, talk in both modes, session sync, the
hook queue, the companion's link and talk; then the refinements `CompanionTalk` and
`DurableQueue` and the theorems that close the chain of promises.

To come, most important first:

1. `RequestHandling`: the request cache of `MacClientCoordinator`, whose requests may
   run twice when one is repeated in flight, with the device's pending select against
   late and repeated results, and `SessionService` across its awaits.
2. `PowerLog` with resets; `PowerState` with the wake press and the UI's pending update.
3. Connection mode and its store; asset transfer; the setup loop.
4. The Windows companion against the same abstract talk.

Runs stay few: parts that can share a run because they interact are composed.

## 6. What is not modelled

Byte layouts, UTF-8, ADPCM and CRC arithmetic (data with test vectors at both ends);
LVGL layout, fonts and colours; AppleScript, accessibility and SwiftUI calls, which
keep no state here; installers and managed files; the simulated device. The
remaining components are in the plan above; `PROJECT.json` gives the status of
each and, for each hazard no property covers yet, the module that will.
