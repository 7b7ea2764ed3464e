---------------------------- MODULE StateEngine ----------------------------
(***************************************************************************)
(* The zone state engine of protocol/engine.py and the zone half of its    *)
(* Reconciler.                                                             *)
(*                                                                         *)
(* The realtime thread queues events and opens generations, the processor  *)
(* thread applies them, timer threads end a PIR camera's motion pulse, the *)
(* radio poller reports motion of its own, and one resync at a time reads  *)
(* a snapshot of all zones.  The engine's lock makes each locked section   *)
(* one action.  Between the processor's generation check and the event's   *)
(* application the lock is free, and so it is between a timer's wake-up    *)
(* and its own section.                                                    *)
(***************************************************************************)
EXTENDS Naturals, Sequences

CONSTANTS
  Zones,           \* configured alarm inputs
  MotionZones,     \* those whose AlarmLocal is a motion signal (PIR cameras)
  ArmEvents,       \* events that are the arming tracker's business only
  MaxEvents,       \* bound on event_sequence
  MaxGenerations,  \* bound on current_generation
  MaxQueue         \* bound on the events queued or in hand

ASSUME EngineAssumption ==
  /\ MotionZones \subseteq Zones
  /\ MaxEvents \in Nat /\ MaxGenerations \in Nat /\ MaxQueue \in Nat

VARIABLES
  active,              \* zone -> "unknown", "on" or "off"
  last_event_seq,      \* zone -> event_sequence of its last event
  last_action,         \* zone -> action of its last event, "none" before
  sensor_fault,        \* zone -> "unknown", "none" or "fault"
  event_sequence,
  current_generation,
  event_queue,         \* events with the generation they arrived in
  in_hand,             \* the event past the generation check, in a sequence
  off_timer,           \* _pircam_off_timers: zone -> its timer, 0 if none
  sleeping,            \* <<zone, seq>> of started timers
  firing,              \* <<zone, seq>> of timers too late to cancel
  resyncing,           \* a resync holds the reconciler's lock
  watermark,           \* its event watermark
  heard,               \* history: zones with an event since the resync began
  stopped,             \* stop() was called
  superseded,          \* history: timers whose zone has had another event since they started
  held                 \* history: motion zones whose last event is an AlarmLocal Stop
                       \* and that are shown in motion, with no snapshot since

stateVars == <<active, last_event_seq, last_action, event_sequence>>
queueVars == <<event_queue, in_hand, current_generation>>
timerVars == <<off_timer, sleeping, firing>>
syncVars  == <<resyncing, watermark>>
pulseVars == <<superseded, held>>
vars == <<stateVars, sensor_fault, queueVars, timerVars, syncVars, heard, stopped, pulseVars>>

Signals == {"input", "alarm", "fault"}  \* AlarmInputSourceSignal, AlarmLocal, SensorAbnormal
EventType ==
  [code : Signals, zone : Zones, action : {"Start", "Stop"}, generation : 0..MaxGenerations]
    \union [code : {"arm"}, event : ArmEvents, generation : 0..MaxGenerations]

Init ==
  /\ active = [z \in Zones |-> "unknown"]
  /\ last_event_seq = [z \in Zones |-> 0]
  /\ last_action = [z \in Zones |-> "none"]
  /\ sensor_fault = [z \in Zones |-> "none"]
  /\ event_sequence = 0
  /\ current_generation = 0
  /\ event_queue = <<>>
  /\ in_hand = <<>>
  /\ off_timer = [z \in Zones |-> 0]
  /\ sleeping = {}
  /\ firing = {}
  /\ resyncing = FALSE
  /\ watermark = 0
  /\ heard = {}
  /\ stopped = FALSE
  /\ superseded = {}
  /\ held = {}

-----------------------------------------------------------------------------
(* The realtime thread.                                                    *)

\* A fault that is on may have ended while detached: unknown until its next
\* event.
BeginGeneration ==
  /\ current_generation < MaxGenerations
  /\ current_generation' = current_generation + 1
  /\ sensor_fault' = [z \in Zones |->
       IF sensor_fault[z] = "fault" THEN "unknown" ELSE sensor_fault[z]]
  /\ UNCHANGED <<stateVars, event_queue, in_hand, timerVars,
                 syncVars, heard, stopped, pulseVars>>

Enqueue(e) ==
  /\ current_generation > 0
  /\ Len(event_queue) + Len(in_hand) < MaxQueue
  /\ event_queue' = Append(event_queue, e)
  /\ UNCHANGED <<stateVars, sensor_fault, in_hand, current_generation, timerVars,
                 syncVars, heard, stopped, pulseVars>>

EnqueueEvent(code, z, action) ==
  Enqueue([code |-> code, zone |-> z, action |-> action, generation |-> current_generation])

EnqueueArmEvent(event) ==
  Enqueue([code |-> "arm", event |-> event, generation |-> current_generation])

-----------------------------------------------------------------------------
(* The processor thread.                                                   *)

\* mutant: the generation of an event is not looked at
TakeAny ==
  /\ ~stopped
  /\ in_hand = <<>>
  /\ event_queue # <<>>
  /\ event_queue' = Tail(event_queue)
  /\ in_hand' = <<Head(event_queue)>>
  /\ UNCHANGED <<stateVars, sensor_fault, current_generation, timerVars, syncVars,
                 heard, stopped, pulseVars>>

\* _process_events: an event of an earlier generation is dropped.
TakeEvent ==
  /\ ~stopped
  /\ in_hand = <<>>
  /\ event_queue # <<>>
  /\ event_queue' = Tail(event_queue)
  /\ in_hand' = IF Head(event_queue).generation = current_generation
                THEN <<Head(event_queue)>> ELSE <<>>
  /\ UNCHANGED <<stateVars, sensor_fault, current_generation, timerVars, syncVars,
                 heard, stopped, pulseVars>>

\* The event in hand is e, and its handler is over.
Applies(e) ==
  /\ in_hand = <<e>>
  /\ in_hand' = <<>>
  /\ UNCHANGED <<event_queue, current_generation, syncVars, stopped>>

\* An event for zone z takes the next sequence number.
NextSeq(z, action) ==
  /\ event_sequence < MaxEvents
  /\ event_sequence' = event_sequence + 1
  /\ last_event_seq' = [last_event_seq EXCEPT ![z] = event_sequence + 1]
  /\ last_action' = [last_action EXCEPT ![z] = action]
  /\ heard' = IF resyncing THEN heard \union {z} ELSE {}

\* The registered timer of z is taken out and cancelled; one that is already
\* firing no longer notices.
CancelTimer(z) == sleeping \ {<<z, off_timer[z]>>}

\* The timers that an event of z overtakes, if those of sleeping that it leaves
\* alone are kept.
Overtaken(z, kept) == {t \in kept \union firing : t \in superseded \/ t[1] = z}

NotHeld(z, kept) == superseded' = Overtaken(z, kept) /\ held' = held \ {z}

\* An AlarmLocal Stop of a PIR camera: motion is held on for a while.
HoldMotion(e) ==
  LET z == e.zone IN
  /\ Applies(e)
  /\ e.code = "alarm" /\ z \in MotionZones /\ e.action = "Stop"
  /\ NextSeq(z, "Stop")
  /\ off_timer' = [off_timer EXCEPT ![z] = event_sequence + 1]
  /\ sleeping' = CancelTimer(z) \union {<<z, event_sequence + 1>>}
  /\ superseded' = Overtaken(z, CancelTimer(z))
  /\ held' = IF active[z] = "on" THEN held \union {z} ELSE held \ {z}
  /\ UNCHANGED <<active, sensor_fault, firing>>

\* Any other zone event shows at once; AlarmLocal also ends a hold.
ShowInput(e) ==
  LET z == e.zone IN
  /\ Applies(e)
  /\ \/ e.code = "input"
     \/ e.code = "alarm" /\ z \in MotionZones /\ e.action = "Start"
  /\ NextSeq(z, e.action)
  /\ active' = [active EXCEPT ![z] = IF e.action = "Start" THEN "on" ELSE "off"]
  /\ IF e.code = "alarm"
     THEN /\ off_timer' = [off_timer EXCEPT ![z] = 0]
          /\ sleeping' = CancelTimer(z)
     ELSE UNCHANGED <<off_timer, sleeping>>
  /\ NotHeld(z, sleeping')
  /\ UNCHANGED <<sensor_fault, firing>>

\* AlarmLocal of a zone that is no motion detector is the tracker's business,
\* as every arm event is.
LeaveToTracker(e) ==
  /\ Applies(e)
  /\ e.code = "arm" \/ (e.code = "alarm" /\ e.zone \notin MotionZones)
  /\ UNCHANGED <<stateVars, sensor_fault, timerVars, heard, pulseVars>>

ApplySensorFault(e) ==
  /\ Applies(e)
  /\ e.code = "fault"
  /\ sensor_fault' = [sensor_fault EXCEPT ![e.zone] =
                        IF e.action = "Start" THEN "fault" ELSE "none"]
  /\ UNCHANGED <<stateVars, timerVars, heard, pulseVars>>

ApplyEvent ==
  \E e \in {in_hand[i] : i \in DOMAIN in_hand} :
    HoldMotion(e) \/ ShowInput(e) \/ LeaveToTracker(e) \/ ApplySensorFault(e)

-----------------------------------------------------------------------------
(* The hold timers and the radio poller.                                   *)

TimerFires(z, seq) ==
  /\ <<z, seq>> \in sleeping
  /\ sleeping' = sleeping \ {<<z, seq>>}
  /\ firing' = firing \union {<<z, seq>>}
  /\ UNCHANGED <<stateVars, sensor_fault, queueVars, off_timer, syncVars, heard, stopped, pulseVars>>

\* The Stop that started the timer seq is still the zone's last event.
StoppedLast(z, seq) == last_action[z] = "Stop"  \* mutant
IsLastStop(z, seq)  == last_event_seq[z] = seq /\ last_action[z] = "Stop"

\* _finish_pircam_motion: whichever timer is registered is taken out; the zone
\* goes off if this timer's Stop is still its last event.
FinishMotion(z, seq) ==
  LET ends == off_timer[z] # 0 /\ IsLastStop(z, seq) IN
  /\ <<z, seq>> \in firing
  /\ firing' = firing \ {<<z, seq>>}
  /\ off_timer' = [off_timer EXCEPT ![z] = 0]
  /\ active' = IF ends THEN [active EXCEPT ![z] = "off"] ELSE active
  /\ held' = IF ends THEN held \ {z} ELSE held
  /\ superseded' = superseded \ {<<z, seq>>}
  /\ UNCHANGED <<last_event_seq, last_action, event_sequence, sensor_fault, queueVars,
                 sleeping, syncVars, heard, stopped>>

\* apply_wpan_motion: an event with a number, but none of the queue's.
ApplyWpanMotion(z, on) ==
  /\ z \in MotionZones
  /\ NextSeq(z, IF on THEN "WPAN-Start" ELSE "WPAN-Stop")
  /\ active' = [active EXCEPT ![z] = IF on THEN "on" ELSE "off"]
  /\ NotHeld(z, sleeping)
  /\ UNCHANGED <<sensor_fault, queueVars, timerVars, syncVars, stopped>>

-----------------------------------------------------------------------------
(* Reconciler.run: one resync at a time, for the zones.                    *)

\* mutant: the number of the next event
BeginResyncAhead ==
  /\ ~resyncing
  /\ resyncing' = TRUE
  /\ watermark' = event_sequence + 1
  /\ heard' = {}
  /\ UNCHANGED <<stateVars, sensor_fault, queueVars, timerVars, stopped, pulseVars>>

BeginResync ==
  /\ ~resyncing
  /\ resyncing' = TRUE
  /\ watermark' = event_sequence
  /\ heard' = {}
  /\ UNCHANGED <<stateVars, sensor_fault, queueVars, timerVars, stopped, pulseVars>>

EndResync == resyncing /\ resyncing' = FALSE /\ watermark' = 0 /\ heard' = {}

\* No answer, or a snapshot whose rows do not match the configured zones.
ResyncFails ==
  /\ EndResync
  /\ UNCHANGED <<stateVars, sensor_fault, queueVars, timerVars, stopped, pulseVars>>

AcceptsOneLater(z) == last_event_seq[z] <= watermark + 1  \* mutant
Accepts(z) == last_event_seq[z] <= watermark

ApplySnapshot(states) ==
  /\ EndResync
  /\ active' = [z \in Zones |-> IF Accepts(z) THEN states[z] ELSE active[z]]
  /\ held' = {z \in held : ~Accepts(z)}
  /\ UNCHANGED <<last_event_seq, last_action, event_sequence, sensor_fault, queueVars,
                 timerVars, stopped, superseded>>

-----------------------------------------------------------------------------

\* stop(): the registered timers are cancelled; the processor takes no more.
Stop ==
  /\ ~stopped
  /\ stopped' = TRUE
  /\ sleeping' = {t \in sleeping : off_timer[t[1]] # t[2]}
  /\ off_timer' = [z \in Zones |-> 0]
  /\ superseded' = superseded \intersect (sleeping' \union firing)
  /\ UNCHANGED <<stateVars, sensor_fault, queueVars, firing, syncVars, heard, held>>

Realtime ==
  \/ BeginGeneration
  \/ \E code \in Signals, z \in Zones, action \in {"Start", "Stop"} :
       EnqueueEvent(code, z, action)
  \/ \E event \in ArmEvents : EnqueueArmEvent(event)

Timer ==
  \/ \E t \in sleeping : TimerFires(t[1], t[2])
  \/ \E t \in firing : FinishMotion(t[1], t[2])

Resync ==
  \/ BeginResync
  \/ ResyncFails
  \/ \E states \in [Zones -> {"unknown", "on", "off"}] : ApplySnapshot(states)

Next ==
  \/ Realtime
  \/ TakeEvent
  \/ ApplyEvent
  \/ Timer
  \/ \E z \in Zones, on \in BOOLEAN : ApplyWpanMotion(z, on)
  \/ Resync
  \/ Stop

Spec == Init /\ [][Next]_vars

-----------------------------------------------------------------------------
(* Properties.                                                             *)

\* The shape of the engine's state.
TypeOK ==
  /\ active \in [Zones -> {"unknown", "on", "off"}]
  /\ last_action \in [Zones -> {"none", "Start", "Stop", "WPAN-Start", "WPAN-Stop"}]
  /\ sensor_fault \in [Zones -> {"unknown", "none", "fault"}]
  /\ event_sequence \in 0..MaxEvents
  /\ last_event_seq \in [Zones -> 0..event_sequence]
  /\ current_generation \in 0..MaxGenerations
  /\ event_queue \in Seq(EventType) /\ Len(event_queue) + Len(in_hand) <= MaxQueue
  /\ in_hand \in Seq(EventType) /\ Len(in_hand) <= 1
  /\ off_timer \in [Zones -> 0..event_sequence]
  /\ sleeping \subseteq MotionZones \X (1..event_sequence)
  /\ firing \subseteq MotionZones \X (1..event_sequence)
  /\ resyncing \in BOOLEAN
  /\ watermark \in 0..event_sequence
  /\ heard \subseteq Zones
  /\ stopped \in BOOLEAN
  /\ superseded \subseteq sleeping \union firing
  /\ held \subseteq MotionZones

\* A snapshot never overrides a zone event that was applied after the resync
\* began, wherever the event came from: the queue or the radio poller.
KeepsNewerEvents ==
  (resyncing /\ ~resyncing') => \A z \in heard : active'[z] = active[z]
SnapshotNeverOverridesNewerEvent == [][KeepsNewerEvents]_vars

\* "A newer event supersedes this delayed Stop": a timer, however late it wakes
\* up, turns off its own zone at the most, and nothing at all if its zone has had
\* another event since the Stop that started it, be it another Stop.
OnlyOwnStopEnds ==
  \A t \in firing \ firing' :
    /\ t \in superseded => active' = active
    /\ \A z \in Zones : active'[z] # active[z] => z = t[1] /\ active'[z] = "off"
NewerEventBeatsHold == [][OnlyOwnStopEnds]_vars

\* "Defer the actual OFF transition for a short, deterministic motion pulse":
\* motion that is held on has a timer that will end it.
HeldMotionHasTimer ==
  ~stopped => \A z \in held :
    /\ off_timer[z] # 0
    /\ <<z, last_event_seq[z]>> \in sleeping \union firing

=============================================================================
