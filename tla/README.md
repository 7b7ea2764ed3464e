# A verification of the Dahua ARC integration

`src/custom_components/dahua_arc` connects Home Assistant to a Dahua ARC alarm
hub.  Several threads of it share the picture of one hub: a realtime stream of
events, snapshots and tables that are read from time to time, timers, a radio
poller, and arm commands that run in an executor.  The TLA+ modules in this
directory model those threads and the state they share; TLC checks the modules
on small instances, and TLAPS proves the safety properties the runs check for
instances of any size.

The source is the reference.  Every definition that stands for code is listed
in `PROJECT.json` under `map` with the lines it stands for.  Paths below are
relative to `src/custom_components/dahua_arc/`.

## The system: components

| Component | Keeps | Operations | What is hard, and what makes it correct |
|---|---|---|---|
| **ArmingTracker** `protocol/arming.py` | per area: mode, its source, alarm on/off/unknown, alarm in doubt, zones, sequence numbers; three counters; a debounce timer | apply an event (mode change, failure, alarm, clear), watermark and apply a table read, invalidate on reconnect, evaluate a command, debounce | three kinds of writers under one lock, table reads that span other writers. Newer events win, alarms are not lost, an alarm is unknown only while the mode is, nothing changes without a redraw |
| **ArmController** `protocol/control.py` | the command lock, the last results | execute: checks, own session, one write, wait, one table read | lost replies, timeouts, unload and rejected credentials between any two steps. One command at a time, one write, no outcome from old news, every command ends |
| **StateEngine, Reconciler** `protocol/engine.py` | per zone: active, fault, sequence number; the event queue, generation, hold timers | queue and apply events, new generation, hold a motion pulse, radio motion, resync, stop | check and application are separate locked sections; timers that can no longer be cancelled. Newer events win over snapshots and late timers |
| **RealtimeClient** `protocol/realtime.py` | the transport, connected, ready, auth_failed, generation | attach, resync, read events, keepalive and watchdog, back off, stop | a keepalive thread that may outlive its connection, a silent peer, stop at any moment. `connected` only with a fresh picture, a dead stream is noticed, a stopped client ends |
| **SnapshotClient** `protocol/snapshot.py` | one transport, connected, auth_failed | snapshot, read a table, download a file, keepalive, close | reconnects on demand, also after close; no login after credentials were rejected |
| **DHIP transport** `vendor/dahua/transport.py` | socket, session, request counter, two locks | connect, login, call, request, fragments | replies matched by id in `call` and `recv_fragmented_json`, not in `request` |
| **Hub** `hub.py` | the components, auth_failed, periodic thread | start, stop, periodic resync, one handling of rejected credentials, refresh of diagnostics | partial start, unload while threads work, one reauthentication |
| **Alarm panel** `alarm_control_panel.py` | pending target, last result, changed_by | state, availability, code gate, command | asynchronous steps between belief, code check, command and answer. Pending ends with the command; wrong codes are counted however checks overlap |
| **Code check** `arm_code.py` | recent failures, lockout | verify, limit attempts | a verification is awaited between reading the lockout and counting the failure |
| **Detector test** `research/detector_test.py` | per zone: running test, stop timer, the spelling that works | start, automatic stop, stop, unload | a timer against a manual stop, a new start or the unload. A running test has somebody who will end it |
| **Radio poller** `research/wpan.py` | accessory states, the methods that work, one line per thread | poll thread, subscription threads, stop | feeds motion into StateEngine beside the event stream. Threads end when told to; motion settles on what the camera has |
| **PIR camera media** `research/pircam.py`, `camera.py` | image cache | fetch, event, placeholder | mostly I/O |
| **Topology** `protocol/inventory.py`, `cgi.py`, `models.py`, `util.py`, `files.py` | none (pure) and an event catalogue | classify inputs, areas, radio devices, pagination | off-by-one between AreaId, row and zone index |
| **Area matching** `area_matcher.py`, `area_assignment.py` | decisions and ownership, in the options | score names, keep or make a decision, place a device | decisions are stored once, what the user placed stays |
| **Setup** `__init__.py`, `repairs.py` | the entry's data and options, issues | setup, unload, area decisions, issues and their repairs | order of steps, partial failure, credentials rejected meanwhile. One entry is one ARC; every hub is stopped; risks are flagged |
| **Flows** `config_flow.py` | the form's state and a copy of the options | user, reauthentication, reconfigure, options | each checks or copies at its start and saves at its end |
| **Entities** `entity.py`, `binary_sensor.py`, `sensor.py`, `button.py`, `diagnostics.py` | none | views of the above | availability |
| **Probe scripts** `src/scripts/arm_probe.py` | a session, an instance on the ARC, what was read | eight modes, each a sequence of reads, guards and requests | every step may be refused, rejected or cut off: one request per trial, none once an area was seen armed, one risky login |

How they interact.  The realtime thread reads frames and queues each event for
the engine's processor thread, which applies it first to the tracker and then
to the zones.  Each new connection begins a *generation*: the engine forgets
faults, the tracker forgets modes (`invalidate`), and a resync reads the zone
snapshot and the arm table over the snapshot session before `connected` is
set.  The hub's periodic thread resyncs the same way.  A command of the panel
takes a *mark* of the tracker's counters, writes its request on a session of
its own, and waits on the tracker's condition for what arrives after the mark.
Any session whose login is rejected tells the hub, which stops the others
and calls back to setup, which asks for new credentials.  Setup, the flows and
the repair flows share the config entry: its data (address, credentials, serial
number) and its options.  Entities are told through callbacks and read the
shared state.

## Modules

| Module | What it is |
|---|---|
| `ArmingTracker` | the tracker: one action per event kind, `Invalidate`, table reads in two steps, the debounce timer |
| `ArmingTrackerProofs` | its theorems |
| `CommandContract` | what the controller promises of its commands, abstractly |
| `ArmControl` | the controller's threads on top of the tracker; implements `CommandContract` |
| `StateEngine` | zones, queue, generations, timers, radio motion, zone resyncs |
| `Picture` | `StateEngine` and `ArmingTracker` composed with a hub whose state is known, the realtime connection and the resyncs of two threads |
| `Sessions` | the realtime thread, its keepalive threads, the shared snapshot session, the hub's periodic thread, rejected credentials, stop |
| `Panel` | the alarm panels and the attempt limiter on top of `CommandContract` |
| `DetectorTest` | the detector test of one camera, with the ARC's side of it |
| `Wpan` | the radio poller's threads for one camera |
| `ArmProbe` | a run of the supervised probe, in each of its modes |
| `ConfigEntry` | setup, unload and the flows of one entry, with two ARCs at two addresses |
| `Options` | everybody who writes the options: options flows, repair flows, setup |
| `ArmControlProofs`, `StateEngineProofs`, `PictureProofs`, `SessionsProofs`, `PanelProofs` | the theorems of each of these |
| `ConfigEntryProofs` | the theorems of `ConfigEntry` and `Options` |
| `ResearchProofs` | the theorems of `Wpan`, `DetectorTest` and `ArmProbe`, which `MCResearch` puts side by side |
| `MC*` | instances for TLC |

### ArmingTracker

One variable per attribute of `ArmArea` and `ArmingTracker` that some decision
reads, under the source's names.  Every method holds the tracker's lock from its
first read to its last write, so a method is one action.  `apply_event` takes
one action per event code; `apply_table` is `ApplyTable`, with
`_settle_alarm` in `Settled` and `Unsettled`; `watermark()` is `BeginRead`,
and the time between it and `apply_table` is open to every other action.  Two
or more readers stand for the realtime thread, the periodic thread and a
command, which read the table independently of each other: the reconciler's
lock covers the zone half of a resync only.  `heard` is a history variable: the
areas with a mode event since a read began, which says what a stale row is
without using the sequence numbers the code uses.  The type invariant includes that
a known mode has a source: an event, a table or a correction.

The hub is open: any event may arrive and any table may be returned at any
time.  A mode is a value of `Modes`, and `NoMode` stands for an event or row
without one.  Left out: what events carry for display only (profile, trigger,
bypassed zones, open zones, times), `GlobalArmModeChange`, which only fills
display fields, and the strings of `diagnostics`.

### ArmControl and CommandContract

`holder` is `_command_lock`, `pc` the place of the command that holds it.  The
checks of `_execute_locked` are one action that ends the command (`Refuse`)
and one that takes the mark (`TakeMark`); the flag `auth_failed` and the stop
event may change right after, as they may in the code.  `_send` is `LogIn` or
`LoginRejected`, `Write`, and a reply, an error or none.  The reads some
command variants make before their write fall into the step `Write` or
`Unreachable`.  `_confirm` waits (`Confirm`, `HearRefusal`, `StopWaiting`,
`TimeOut`), reads the table once with the reader `CommandReader`, and evaluates
again.  Whether the hub is available is open: `Refuse` may always turn a
command away for it.  The tracker's alarm events and its timer are left out of
`World`, because no command reads what they write; `ArmingTracker` has them.

`CommandContract` knows a command's status and the number of requests written
for it.  `KeepsContract` is the refinement: `StatusOf` maps a command's outcome
and place to a status, and TLC checks that every step of the controller is a
step of the contract or none, and that the contract's fairness follows.
`SafetySpec` is the contract without its fairness, which is proved.

### StateEngine

The processor's generation check (`TakeEvent`) and the application of the event
(`ApplyEvent`) are separate, as the lock is released in between.  A hold timer
sleeps, can be cancelled while it sleeps, and fires (`TimerFires`) before it
gets the lock (`FinishMotion`).  `off_timer` is the table of registered timers.
A resync is `BeginResync` (the watermark) and one of `ApplySnapshot` and
`ResyncFails`; the reconciler's lock keeps it to one at a time.  `heard`,
`superseded` (the timers whose zone had another event since they were started) and
`held` are history.  The snapshot is open: any state for any zone.
Left out: health attributes of a zone (online, tamper, battery), counters and
the change callbacks.  Arm events pass through the queue and are left to the
tracker; which ones there are is a constant (`ArmEvents`), empty when the engine
is checked alone.

### Picture

The two modules above are open: any event and any reply may come at any time.
`Picture` closes them.  `input` and `mode` are the hub's own state; a change of
it is sent to the connection that is attached and lives (`stream`), and a read is
answered with the state of one instant between the request and the reply
(`Ask`).  `Engine` and `Tracker` are instances of the two modules, and the actions
of `Picture` are theirs, joined by what the realtime thread and
`Reconciler.run` do: `Attach` is a new generation of both, `ReadFrame` queues an
event, `ApplyZoneEvent` and `ApplyArmEvent` are the processor.  After
`LockReconciler`, each half of a resync is a request with its answer (`Ask`), the
reply as it is received (`Receive`, which gives the session back) and its
application (`ApplySnapshot`, `ApplyTable`).  The reconciler's lock covers the first half only, the snapshot
session's lock each request up to its reply.  A table is applied under no lock but the
tracker's, so events, a reconnect and the other thread's table may come between its
reply and its application.  `older` (the threads whose table read began before this
connection) and `table_read` (the last table applied was read on this connection)
are history.

One step rests on the time things take: a new connection takes five seconds or
more, its delay included, so `Attach` waits for an event the processor has past
its generation check.  Left out
here: PIR cameras, faults, alarms, failures and commands, which the instances
switch off by their constants, and everything `Sessions` has.

### Sessions

`rt` is the place of the realtime thread in one pass of `_run`, `line` the state
of each attempt's connection, and `transport` the attempt whose connection is
`self.transport`: the keepalive thread of an attempt (`keeper`) and
`stop()` close whichever connection is current, not their own.  `overdue` says
that no frame has come for longer than the liveness limit.  `resync` is the place
of each thread in `Reconciler.run`; both use the snapshot session, and `in_login`
is the thread in `_connect_locked`, which holds the session's lock over the login
and the request.  The hub's `stop()` is the steps `BeginStop`, `StopRealtime`,
`CloseRealtime` and `CloseSnapshot`; a join with a timeout waits for nothing in
the model, since the thread may outlive it.  `rejections` counts the logins the
hub turned down, per session.

A keepalive thread may end at any time, told or not.  It looks whether it was told
before it sends and not after (`KeeperWakes`), so one that outlives its join and fails
then closes whichever connection is current.  `_handle_auth_failure` is
one step, as nothing it sets is read together with something else it sets.  Left
out: a command's own session (in `ArmControl`) and its table reads, the radio
poller's session, discovery at start, the contents of frames.

### Panel

A call of a panel's service (`Press`) runs on the event loop to its first await:
it is turned away, starts a verification, finds its areas in the mode already,
or hands the command to an executor.  `Verified` is the code after the
verification, `Execute` and `Work` are the executor thread as `CommandContract`
has it, `Returns` is the `finally` block with what follows.  A panel is the set
of areas it commands; the panel of the whole system and the panel of an area
share the controller and have their own limiter and pending flag, as in the
code.  `now` is the monotonic clock, `wrongs` a history of the wrong codes
that the limiter may have forgotten.  `ArmControl` shows that the controller
keeps the contract this module rests on.  `First` is the limiter's loop, which drops
failures from the front until one lies within the window; the clock does not go
back, so the rest do too.  A command is confirmed only with its
areas in the mode, which is what `_evaluate` looks at.  The errors a call may come
back with are sets (`Errors`), as one outcome has several: a command ended by the
unload of the hub is `arm_unavailable` whether or not it was written.  Left out: the alarm
states of the panel, `changed_by` and the texts of errors.

### DetectorTest

Every start and stop is one `_rpc` of a worker (the pressed button, or the thread
of a timer): `Factory`, one `SetParam` for each spelling of the payload,
`Destroy` in `finally`, and the state update with what `start`, `stop` and the
automatic stop do after it.  `SetBreaks` is the lost reply: the camera may have
acted.  `on`, `objects` and `accepted` are the ARC's and are read by no
decision of the code.  Buttons are pressed one at a time, as `PARALLEL_UPDATES`
of `button.py` says; timers run beside them, each with the number of the press whose
start set it.

### Wpan

`pc` and `line` are a thread's place and its connection.  Poller and
subscriptions share `Enter`, `LogIn`, `LoginRejected` and `Wait`; the poller has
`Discover`, which keeps the first answer with a status, `Ask` and `ApplyStatus`, a subscription `Notified` and `SubEnds`.
`safe_request` makes a failed request an answer, so a broken line does not end
the poller: its undecided methods look unsupported from then on, and the thread
keeps the line until it is stopped.  The reply of a poll is held in `reply`
until it is applied, and any notification may be applied in between.  The one
camera's alarm state (`alarm`) and the notifications on their way (`notes`) are
external.  What the module does not follow: captured responses, other
accessories, diagnostics.

### ArmProbe

`Plan` gives the steps of each mode in the order of its function in
`scripts/arm_probe.py`, as the command line accepts it; a step is an action,
and an exception replaces the steps left by those of the `finally` block
(`Cleanup`).  What is tried in which shape is left out: `Candidates` requests
stand for a sweep.  A request is counted in `sent` if it could change the panel,
and `extra` if another one worked before.  A reply to a look at the modes may be
blank about the areas that are armed, which the guard takes as disarmed, and the hub
may refuse to destroy an instance, which stays (`broke`).  The panel may be armed at its keypad
at any time and a line may break at any call.

### ConfigEntry

`step` is the place of `async_setup_entry` and, within it, of `hub.start`; an
exception is `Raise`, with the state Home Assistant gives the entry for it.
Between `callback` and the end of setup the code does not give up the event loop
(`LoopFree`), but the hub's threads go on: `HubRejected` and `HandlerCalls` are
the two halves of `_handle_auth_failure`, which marks and then calls back.  A
flow is opened, submitted, checked in an executor (`Probe`) and finished, and
all three kinds run beside each other and beside setup.  Which ARC answers at an
address (`at`) and the password it accepts are external and change at any time,
except that an address does not change hands within one setup.  Home Assistant's
part is external as well: retries, reloads, and one setup or unload of an entry
at a time.  Left out: devices and entities, and the order of the registrations in
`Register`, which is one step that may fail.

### Options

Setup copies control and research into the hub as it starts (`BeginSetup`) and does
the rest in one step at its end (`Loaded`): decisions, the area of the device,
ownership, issues.  The repair of the research issue waits for the reload it asks
for and only then takes the issue away (`clearing`); one such repair at a time is
modelled.  An options flow copies what is stored on its first submit
(`SubmitInit`) and saves the copy at its end (`Save`); the matching step alone
reads the stored decisions again.  A repair flow stays open when its issue is
gone.  One zone stands for all, since each has its own decision, device and
ownership; a match is an open choice, as names and the scores of two names
are data.  `kept` is a history: the user has the last word on the area.

## Runs

Every bound is a constant of the configuration and appears as a guard of the
action it bounds.

| Run | Shows | Bounds and why they suffice |
|---|---|---|
| `arming` | the tracker's invariants and action properties | two areas (a row of one area against an event of the other), two readers with reads that overlap, two mode events (one on each side of a watermark), two applied tables, one failure; the debounce timer and reconnects are unbounded |
| `arm_evidence` | `NoStaleSuccess` | one command for up to two areas, two mode events so that one may fall on each side of the mark, another reader's table in flight |
| `arm_contract` | the contract with liveness, `NoStaleRefusal`, `AtMostOneLateLogin` | two calls that race, one failure and one event on either side of the mark |
| `zones` | newer events win over snapshots and late timers | one camera and one plain input, two numbered events, two generations |
| `zones_hold` | violation: a pulse loses its timer | one camera, three events: Stop, a second Start, its Stop |
| `picture` | what is shown as live is what the hub has, for inputs and for arm modes | one input and one area (they share no state but the queue, the connection and the session), two changes of the hub (one missed, one seen), two connections, four applied tables: one of each reader on each side of the reconnect, in any order |
| `sessions` | threads end and leave nothing open, silence is noticed, rejections are few and reported | two attempts: one whose keepalive thread outlives it and one for it to disturb |
| `panel` | wrong codes are counted, no transition stays on display | one panel, as each has a limiter and a flag of its own; three calls (two wrong codes that fill a limiter of two attempts and one during or after the lockout); window and lockout of two, a clock to three, so that a code can be as old as the window; one mode event |
| `panel_busy` | violation: a second call comes back as done | as `panel` |
| `research` | radio threads end, motion settles, nothing is left on the ARC, the probe keeps its promises | a poller and two subscriptions (the same change reported twice beside a poll), two changes of the camera (there and back), one broken line, four logins; three presses and three timers (start, start again, stop) with two spellings, one broken session; three candidates and client types (a first, a later and a last one), two arms at the keypad |
| `entry` | one entry is one ARC, rejections are few and heard, hubs are stopped | two ARCs and two addresses, two changes of passwords or ARCs, one reload or restart, one setup that fails late, two flows beside each other |
| `options` | risks are flagged, an area picked by hand stays | two tabs and two flows (a copy taken before and saved after the other), one pick (of the other area, or of none), two areas; the theorem covers any number of picks |

In `research` the three modules share no state; `part` says which of them runs in a
behaviour, and the others stay where they begin.

The runs that pass are exhaustive for their bounds.  The properties are those
an interleaving could break: what a reader, a timer or a command knew before
against what arrived meanwhile.  Each has a mutant of the code (a wrong
comparison, a missing reset, a kept lock) that TLC finds with it.

Deadlock is not checked: the bounds on events and tables stop the models, and a
hub without a caller is idle.

### Fairness

`FairControlSpec` assumes it of a command's own thread only:
`WF(CommandStep(c))`.  It is an executor thread that blocks on a socket with a
timeout, on the tracker's condition with a deadline, or on the snapshot client,
whose socket has a timeout too; each of these ends by itself, in the model as
`Unreachable`, `TimeOut` and `TableUnreadable`.  Nothing is assumed of the hub,
the other threads or the caller.

`FairSpec` of `Sessions` assumes it of the realtime thread, the periodic thread,
the steps of `stop()` once it was called, and of time (`TimePasses`).  The threads
block on sockets with timeouts (`ATTACH_TIMEOUT_SECONDS`, fifteen seconds for the
snapshot session, the liveness limit plus ten seconds for `recv`) and on events
with delays.  Nothing is assumed of the keepalive threads: silence must be
noticed "even if the keepalive thread dies", as the comment in `_attach` says.  Nor
is the hub ever assumed to answer, or anybody to call `stop()`.

`Spec` of `Wpan` assumes it of the poller and of each subscription thread: they
block on sockets with timeouts and on `stop_event.wait` with an interval.  A
rejected login need not be met by another session, so `RadioStops` starts from the
event that is set.  `MotionSettles` is about a time without broken lines, and
leaves out the first poll that differs from what is shown, which the code
remembers without passing it on.

The other modules are checked for safety only: what a user or the ARC does next
is nobody's duty, and a flow or a panel waits for them.

### What the violations say

`PROJECT.json` quotes the sentence each one contradicts.

* `zones_hold`: `_finish_pircam_motion` takes the registered timer out before it
  asks whose it is.  It needs a timer that wakes while the next Stop is
  handled; the motion then stays until a resync.
* `panel_busy`: `_async_command` asks whether the areas are in the mode already
  before it asks the controller.  A disarm pressed while an arm is under way finds
  every area disarmed still, is reported as done and never sent.

### Seen while modelling

These follow from the modules, and no run states them.

* `docs/arm-control/01-architecture.md:148` lets a table that shows the requested
  mode confirm.  `_evaluate` takes a row as evidence only while the area's source
  is `table`, and a row that agrees does not change the source: a system armed with
  one area in the mode already can end `UNCONFIRMED` after such a table.
* `protocol/arming.py:325` asks for a table read newer than the mark.  What counts
  is when a read is applied, not when it began.
* `protocol/engine.py:69` makes a fault unknown on a new connection.  A processor
  held up between its generation check and the application for as long as a
  reconnect takes brings the fault back.
* `README.md:16` of the repository says a table never overrides a newer event.  The
  watermark tells events from reads, not one connection from the next: a table the
  periodic thread read before a reconnect may be applied after it, and also after the
  new connection's own.  Modes that changed in between are then shown as they were
  until the next event or read; `LiveModesAreTrue` says what holds once the last
  table applied was read on this connection.
* `README.md:143` says that rejected credentials stop all background logins at
  once.  A realtime thread waiting to reconnect logs in once more, is rejected, and
  ends; a setup whose inventory is rejected goes on to one more login.
  `OneRejectionPerSession` and `FewRejections` are the bounds that do hold.
* `README.md:137` says that a started detector test stops automatically.  Unloading
  cancels the timer and leaves the test running, and a start whose reply is lost
  sets none; `NothingLeftBehind` says what holds otherwise.
* `README.md:149` preserves an area chosen by hand.  One that is the area setup had
  set last counts as setup's own, and a flow that was open meanwhile saves the
  ownership it copied (`KeptUnlessOwned` names both).
* `scripts/arm_probe.py:2920` calls the probe of the getters read-only; a getter
  that works is followed by a disarm with the setter of the same shape (2366-2381).
* `scripts/arm_probe.py:589` refuses a trial "unless every area is already disarmed".
  `read_modes` (615-622) takes a reply without a table as no areas and a row without
  a mode as disarmed, so such a reply lets the trial through; `Supervised` says what
  holds, that no area was seen armed.
* An exception of setup after `hub.start`, in the registries or the platforms,
  leaves the hub's threads running (`NoOtherHubRuns` counts them in `failures`).
* With the usual keepalive interval of sixty seconds the receive timeout of the
  realtime session comes before the watchdog's next look, so silence is mostly
  noticed by the timeout and not with the watchdog's explanation.

## Proofs

Each theorem holds for any values of the constants that satisfy the assumption its
module states: a disarmed mode exists, "no mode" is none, bounds are naturals.
`PanelAssumption` also has `Window <= Lockout`, which `OpenHasFewFailures` needs;
both are sixty seconds in `arm_code.py`.  The inductive invariants below were
checked by TLC, at the bounds of the runs, before they were proved.

| Module | Theorems | Inductive invariant |
|---|---|---|
| `ArmingTrackerProofs` | the type invariant, three invariants, three action properties | `IInv` |
| `ArmControlProofs` | `ControlTypeOK`, `AtMostOneLateLogin`, `NoStaleSuccess`, `NoStaleRefusal`, one write per command; a tracker, and the contract | `ControlInv` |
| `StateEngineProofs` | `TypeOK`, `SnapshotNeverOverridesNewerEvent`, `NewerEventBeatsHold` | `IInv` |
| `PictureProofs` | `TypeOK`, `LiveInputsAreTrue`, `LiveModesAreTrue`; an engine and a tracker | `PictureInv` |
| `SessionsProofs` | `TypeOK`, `EndedLeavesNothing`, `OneRejectionPerSession` | `IInv` |
| `PanelProofs` | `TypeOK`, `IdleShowsNoTransition`, `OpenHasFewFailures`, `TurnedAwayIsNotWritten`, `WrittenPastTheGate` | `IInv`, `LimiterInv`, `GateInv` |
| `ConfigEntryProofs` | `TypeOK`, `RejectedIsHeard`, `NoOtherHubRuns`, `SerialIsForLife`, `FewRejections`, `OneEntryPerArc` | `IInv`, `RejectionParts`, `SecondParts` |
| `ConfigEntryProofs`, options | `OptionsTypeOK`, `RisksAreFlagged`, `KeptUnlessOwned` | `OptionsInv`, `OptionsTypeInv` |
| `ResearchProofs` | `ResearchTypeOK`, `NothingLeftBehind`, `Supervised`; the latter two also of each part alone | `RadioInv`, `DetectorInv`, `ProbeInv` |

### ArmingTracker

The inductive invariant is `IInv == TypeOK /\ AlarmParts /\ HeardIsNewer`.
`AlarmParts` joins `KnownModeSettlesAlarm`, `UnconfirmedAwaitsMode` and
`AlarmNamesZones`, which need each other: a mode that becomes known settles the
alarm only because doubt implies that the alarm is on.  `HeardIsNewer` says that
an area heard since a read began has a sequence number above that read's
watermark; it ties the history variable to the comparison in the code, and
`NewerEventsSurvive` follows from it.  Steps that touch none of the invariant's
variables are dealt with once, in a frame lemma.

### ArmControl

`ControllerKeepsTracker` says that a step of the controller is a step of the
tracker or leaves it alone, so the tracker's invariant carries over.  `ControlInv`
adds what the controller knows.  `MarkSeparates` is the heart: it ties the numbers
`_evaluate` compares with the mark to what has been heard since the mark was taken,
and that no outcome comes from old news follows.
`LateLoginIsTheLast` says where the one login after a rejection can have gone, and
`WrittenAtMostOnce` that a command that was not sent was not written.

`ControllerKeepsContract` is the refinement of `Contract!SafetySpec` under
`StatusOf`: the initial states map to initial states, and each step to a step of
the contract or a stutter, by the places a command goes through.

### StateEngine and Picture

The engine gives each sequence number once.  `HeardIsNewer` is as in the tracker;
`SupersededIsOlder` says that a timer whose zone had another event since carries a
number below its zone's last, however late it is, so `_finish_pircam_motion` ends
nothing for it, be the newer event a Start or another Stop.

`PictureKeepsEngine` and `PictureKeepsTracker` show that the composition is an engine
and a tracker at every step, and the theorems of both hold in it.  That the picture
is true is an argument about the last event on its subject, an input or an area.
While the connection lives, that event tells the truth wherever it is: in the
stream, in the queue or in the processor's hands (`LastNewsIsTrue`, kept by every
step in `NewsStep`).  A reply that differs from the hub has such an event behind it,
on its way or with a number above the watermark of the read (`SnapshotIsFresh`,
`TableIsFresh`), so it is refused or put right.  What is shown agrees with the hub
once nothing is on its way (`InputsAreShown`, `ModesAreShown`).  A snapshot
asked for before the reconnect is kept out by the reconciler's lock (`ZonesRead` marks
the time after the connection's own).  A table is not kept out by any lock.  What
`table_read` promises is that the last one applied was read on this connection: it
has a row or a newer event for every area whatever was applied before, since a read
begun earlier has no higher watermark (`OlderIsBehind`), and an area heard since a
read began is shown as it was heard (`HeardIsShown`).

### Sessions

`ConnectionsAreInUse` says where the realtime thread can be while a connection is
open, current or counted as available.  `RejectionsAreFinal` says what a rejected
login leaves behind that keeps the session from logging in again, and
`ResyncsHaveThreads` which thread a resync under way belongs to.  A few lemmas say
which action writes what, once, and the cases go through the writers.

### Panel

A flag is not always cleared by the call that set it: a second call of the panel
that comes back as busy clears the first one's.  What is inductive is weaker
(`FlagHasCall`): as long as a flag is set, some call of the panel will come back and
clear it.  TLC checks one panel; the theorem covers the panels that share areas and
the controller.

`FailuresAreTheLatest` says that the limiter's list is the end of the list of all
wrong codes, and that each earlier one has left the window or was followed by a
lockout.  Clearing the list with the lockout is harmless because a lockout lasts at
least as long as the window.  Verifications may overlap in any way: each counts its
failure in one step, after its await.

`GateInv` joins what a command has written, what its call came back with and the
code it was let through with.  A call that comes back as locked, without its code,
with a wrong one or as busy has had nothing written, and none has more than one
request written (`TurnedAwayIsNotWritten`); one that comes back as unavailable may
have been written, as the hub can be unloaded while it waits.  What is written is the
only request of a call that had the right code, wherever one is asked for
(`WrittenPastTheGate`).  Both rest on the contract, which `ControllerKeepsContract`
shows of `ArmControl`; they are stated in `PanelProofs`, and no run has them.

### ConfigEntry and Options

`SetupParts` says what each step of setup has behind it (session, connection,
callback), and `HeardSinceCheck` extends `RejectedIsHeard` to the step after setup
has looked at `auth_failed`: a rejection before that step is seen there, one after
it finds the callback set.  `FlowType` is what makes a saved serial number one that
was read.

`FewRejections` rests on passwords that only get newer, so that one rejected stays
rejected (`RejectionParts`): a setup whose inventory was rejected cannot get past
the realtime session, and the next one fails at its first read.  `OneEntryPerArc`
needs what was checked of a second entry to stay true until it is created, while
the first may learn its serial number in between (`SecondParts`, with `SerialStays`).

`RunsWhatIsStored` says that a hub runs with the options stored unless a reload is
due, which is why setup may decide on issues by what is stored; `PlacedIsOwned`,
that a device setup has placed has an owner unless a stale copy dropped it.
`CopyParts` says that the copy a flow holds obeys the rules of the options, and
`RepairIsFollowed` that research switched on again while its repair waits for the
reload has another reload due.

### Wpan, DetectorTest and ArmProbe

The three share no state.  `RadioInv` adds to the types of the radio poller which
threads hold no line (`LinesAreHeld`).

`DetectorInv` follows the instances on the ARC session by session.  `ObjectsAreHeld`
bounds them from both sides: below by the sessions that hold one, so that a
`destroy` finds one to take away, and above by those that will still return theirs
and the sessions that broke.  A session that takes an instance, fails or ends moves
one worker in or out of these sets, and `CountMoves` is that step, once.  `EndIsNear`
is stronger than `RunningTestWillStop`: it names what will end a running test.
That is a timer that is set, a stop that has not been rejected with every
spelling, or a start that is still to set its timer.  Such a stop succeeds: while
the detector is on some spelling is accepted, it is among those the session has to
try (`OrderHasAll`), and a session with only rejections has tried them all
(`SessionFits`).  A start that replaces the timer of an earlier start sets its own
in the same step, and a press that never came to that has left the earlier one.

`ProbeInv` is about the steps that are left.  `Shape` says what of a mode's order
stays true from any point on: a look at the modes is followed by the guard,
requests come last, a trial has one, instances are destroyed before the next is
asked for.  It holds of the plan of each mode, and of what is left after a step, a
finally block or a jump to the next client type (`RestKeepsShape`, `CleanupShape`,
`NextTypeKeepsShape`).  The other parts tie the state to it: what has been sent
rules out steps that are left (`RequestsEnd`, `GuardComesFirst`), an instance has
the step that destroys it ahead of every other use (`ObjectIsReturned`), and a
rejection that counts leaves no login (`RiskIsTheLast`).

### Model-checked only

Liveness and fairness: the liveness half of `KeepsContract`, `SilenceIsNoticed`,
`StopEnds`, `RejectionIsReported`, `RadioStops` and `MotionSettles`.  They need
`ENABLED`, which the provers do not reason about.  The two violations are
counterexamples of TLC.

## Plan

Done: `ArmingTracker`, `CommandContract`, `ArmControl`, `StateEngine`, `Sessions`,
`Picture`, `Panel`, `DetectorTest`, `Wpan`, `ArmProbe`, `ConfigEntry`, `Options`.

Proved: every invariant and every action property that a passing run checks, and the
safety half of each refinement.

## Not modelled

* DHIP transport: framing, the login challenge and the matching of replies by id
  are bytes on one socket.  The modules take from it that a call is answered, fails
  or is rejected, and that the ARC may have acted when the reply is lost.
* Topology and inventory: pure functions over the tables one ARC returns.  What is
  hard about them is the shape of the tables, which the repository's tests pin down;
  how an ARC lists its areas after one is removed is not known from the repository.
* PIR camera media: a cache of the last image, HTTP and files; its lock has no step
  another thread could come between and matter.
* Entities and diagnostics: views of the state the other components keep.
* Health attributes, display data of events, key derivation, the similarity of
  names, translations and the contents of forms: data no property is about.
* The other scripts of `src/scripts`, which check the package and draw its icons.

Components that are modelled in part say in `PROJECT.json` what is left out.
