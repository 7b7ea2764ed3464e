------------------------------ MODULE Picture ------------------------------
(***************************************************************************)
(* The picture of the hub that the integration shows, against the hub      *)
(* itself: the StateEngine and the ArmingTracker, the realtime connection  *)
(* that feeds them (protocol/realtime.py) and the resyncs of the realtime  *)
(* and the periodic thread over the one snapshot session                   *)
(* (protocol/engine.py, protocol/snapshot.py).                             *)
(*                                                                         *)
(* The hub is closed here: its inputs and modes change, each change is     *)
(* sent to the connection that is attached, if it still lives, and each    *)
(* read is answered with what holds at one instant before the reply.       *)
(* Sessions has the threads' other business: logins, keepalives and stop.  *)
(***************************************************************************)
EXTENDS Naturals, Sequences

CONSTANTS
  Zones,           \* configured alarm inputs, none of them a PIR camera
  Areas,           \* enabled areas
  Modes, Disarmed, NoMode,
  MaxChanges,      \* bound on the changes of the hub
  MaxGenerations,  \* bound on the realtime connections
  MaxQueue,        \* bound on the events queued or in hand
  MaxTables        \* bound on the tables applied

ASSUME PictureAssumption ==
  /\ Disarmed \in Modes
  /\ NoMode \notin Modes
  /\ MaxChanges \in Nat /\ MaxGenerations \in Nat
  /\ MaxQueue \in Nat /\ MaxTables \in Nat

Threads == {"realtime", "periodic"}
Inputs  == {"on", "off"}

VARIABLES
  \* the hub
  input,           \* zone -> its state
  mode,            \* area -> its mode
  changes,         \* changes so far
  \* the realtime connection
  rt,              \* the realtime thread: "down", "resync" or "up" (connected)
  ready,           \* ready_event: it was connected once
  line,            \* its connection: "none", "live" or "dead"
  stream,          \* the frames of the connection that are not read yet
  \* Reconciler.run of each thread
  stage,           \* "none", "lock", "zones", "table" or "done"
  session,         \* the thread that holds the snapshot session, or "none"
  reply,           \* what the hub answered the thread, until it is applied
  older,           \* history: threads whose table read began before this connection
  table_read,      \* history: the last table applied was read on this connection
  \* the engine and the tracker
  active, last_event_seq, last_action, event_sequence, current_generation,
  event_queue, in_hand, resyncing, watermark, zones_heard,
  raw_mode, source, alarm, last_mode_seq, mode_sequence, last_table_seq,
  table_sequence, reading, table_watermark, modes_heard, notify_pending,
  \* and what does not change here: timers, faults, alarms, failures, stop
  off_timer, sleeping, firing, superseded, held, sensor_fault, stopped,
  alarm_unconfirmed, alarm_zones, last_failure_seq, failure_sequence

hubVars    == <<input, mode, changes>>
rtVars     == <<rt, ready, line, stream>>
syncVars   == <<stage, session, reply, older, table_read>>
engineVars == <<active, last_event_seq, last_action, event_sequence, current_generation,
                event_queue, in_hand, resyncing, watermark, zones_heard,
                off_timer, sleeping, firing, superseded, held, sensor_fault, stopped>>
trackVars  == <<raw_mode, source, alarm, last_mode_seq, mode_sequence, last_table_seq,
                table_sequence, reading, table_watermark, modes_heard, notify_pending,
                alarm_unconfirmed, alarm_zones, last_failure_seq, failure_sequence>>
vars == <<hubVars, rtVars, syncVars, engineVars, trackVars>>

Engine == INSTANCE StateEngine WITH
  MotionZones <- {}, ArmEvents <- Areas \X Modes, MaxEvents <- MaxChanges,
  heard <- zones_heard

Tracker == INSTANCE ArmingTracker WITH
  Zones <- {}, Readers <- Threads, MaxEvents <- MaxChanges, MaxFailures <- 0,
  last_event_seq <- last_mode_seq, event_sequence <- mode_sequence,
  watermark <- table_watermark, heard <- modes_heard

NoReply == <<>>

Init ==
  /\ input \in [Zones -> Inputs]
  /\ mode \in [Areas -> Modes]
  /\ changes = 0
  /\ rt = "down" /\ ready = FALSE /\ line = "none" /\ stream = <<>>
  /\ stage = [t \in Threads |-> "none"]
  /\ session = "none"
  /\ reply = [t \in Threads |-> NoReply]
  /\ older = {}
  /\ table_read = FALSE
  /\ Engine!Init /\ Tracker!Init

-----------------------------------------------------------------------------
(* The hub.                                                                *)

\* A change is sent to the connection that is attached and lives.
Sends(event) ==
  /\ changes < MaxChanges
  /\ changes' = changes + 1
  /\ stream' = IF line = "live" THEN Append(stream, event) ELSE stream
  /\ UNCHANGED <<rt, ready, line, syncVars, engineVars, trackVars>>

InputChanges(z, v) ==
  /\ v # input[z]
  /\ input' = [input EXCEPT ![z] = v]
  /\ Sends([code |-> "input", zone |-> z, action |-> IF v = "on" THEN "Start" ELSE "Stop"])
  /\ UNCHANGED mode

ModeChanges(a, m) ==
  /\ m # mode[a]
  /\ mode' = [mode EXCEPT ![a] = m]
  /\ Sends([code |-> "arm", event |-> <<a, m>>])
  /\ UNCHANGED input

\* From now on nothing reaches the connection, whether its end notices or not.
LineFails ==
  /\ line = "live"
  /\ line' = "dead"
  /\ UNCHANGED <<hubVars, rt, ready, stream, syncVars, engineVars, trackVars>>

-----------------------------------------------------------------------------
(* The realtime thread.                                                    *)

\* _attach and begin_generation, and the resync begins.  A new connection takes
\* seconds, so an event in hand when the old one ended is applied by then.
Attach ==
  /\ rt = "down" /\ in_hand = <<>>
  /\ rt' = "resync" /\ line' = "live" /\ stream' = <<>>
  /\ stage' = [stage EXCEPT !["realtime"] = "lock"]
  /\ older' = reading
  /\ table_read' = FALSE
  /\ Engine!BeginGeneration
  /\ Tracker!Invalidate
  /\ UNCHANGED <<hubVars, ready, session, reply>>

Serve ==
  /\ rt = "resync" /\ stage["realtime"] = "done"
  /\ rt' = "up" /\ ready' = TRUE
  /\ stage' = [stage EXCEPT !["realtime"] = "none"]
  /\ UNCHANGED <<hubVars, line, stream, session, reply, older, table_read,
                 engineVars, trackVars>>

ReadFrame ==
  /\ rt = "up" /\ stream # <<>>
  /\ LET e == Head(stream) IN
       IF e.code = "arm" THEN Engine!EnqueueArmEvent(e.event)
       ELSE Engine!EnqueueEvent(e.code, e.zone, e.action)
  /\ stream' = Tail(stream)
  /\ UNCHANGED <<hubVars, rt, ready, line, syncVars, trackVars>>

\* recv raises; what was not read is lost.
Disconnect ==
  /\ rt = "up"
  /\ rt' = "down" /\ line' = "none" /\ stream' = <<>>
  /\ UNCHANGED <<hubVars, ready, syncVars, engineVars, trackVars>>

-----------------------------------------------------------------------------
(* The processor thread.                                                   *)

TakeEvent == Engine!TakeEvent /\ UNCHANGED <<hubVars, rtVars, syncVars, trackVars>>

\* The tracker sees an event first.
ApplyZoneEvent ==
  /\ Engine!ApplyEvent
  /\ in_hand[1].code = "input"
  /\ UNCHANGED <<hubVars, rtVars, syncVars, trackVars>>

ApplyArmEvent ==
  /\ Engine!ApplyEvent
  /\ in_hand[1].code = "arm"
  /\ Tracker!AreaArmModeChange(in_hand[1].event[1], in_hand[1].event[2])
  /\ UNCHANGED <<hubVars, rtVars, syncVars>>

-----------------------------------------------------------------------------
(* Reconciler.run of thread t.                                             *)

Moves(t, s) == stage[t] # s /\ stage' = [stage EXCEPT ![t] = s]

\* The periodic thread is started when the realtime client is ready.
PeriodicBegins ==
  /\ ready /\ stage["periodic"] = "none"
  /\ Moves("periodic", "lock")
  /\ UNCHANGED <<hubVars, rtVars, session, reply, older, table_read,
                 engineVars, trackVars>>

\* The reconciler's lock is taken, and the engine's watermark.
LockReconciler(t) ==
  /\ stage[t] = "lock"
  /\ Engine!BeginResync
  /\ Moves(t, "zones")
  /\ UNCHANGED <<hubVars, rtVars, session, reply, older, table_read, trackVars>>

Asks(t) == stage[t] \in {"zones", "table"} /\ reply[t] = NoReply

\* The hub answers t's request with the state of the moment.
Answers(t) ==
  reply' = [reply EXCEPT ![t] = IF stage[t] = "zones" THEN input ELSE mode]

\* The session's lock is held from the request to the reply.
Ask(t) ==
  /\ Asks(t) /\ session = "none"
  /\ session' = t
  /\ Answers(t)
  /\ UNCHANGED <<hubVars, rtVars, stage, older, table_read, engineVars, trackVars>>

\* The reply is read and the session free; what it says is applied later.
Receive(t) ==
  /\ session = t
  /\ session' = "none"
  /\ UNCHANGED <<hubVars, rtVars, stage, reply, older, table_read, engineVars, trackVars>>

\* t has received its reply and is done with it.
Uses(t) ==
  /\ reply[t] # NoReply /\ session # t
  /\ reply' = [reply EXCEPT ![t] = NoReply]
  /\ UNCHANGED session

\* t gives up: before its request, waiting for the reply or not content with it.
GivesUp(t) ==
  /\ reply' = [reply EXCEPT ![t] = NoReply]
  /\ session' = IF session = t THEN "none" ELSE session

\* The snapshot is applied, the reconciler's lock released, and the tracker's
\* watermark taken.
ApplySnapshot(t) ==
  /\ stage[t] = "zones"
  /\ Uses(t)
  /\ Engine!ApplySnapshot(reply[t])
  /\ Tracker!BeginRead(t)
  /\ Moves(t, "table")
  /\ UNCHANGED <<hubVars, rtVars, older, table_read>>

\* Thread t's resync is over.
Finish(t) == Moves(t, IF t = "realtime" THEN "done" ELSE "none")

\* Without the zones the resync fails, and the realtime connection with it.
SnapshotFails(t) ==
  /\ stage[t] = "zones"
  /\ GivesUp(t)
  /\ Moves(t, "none")
  /\ Engine!ResyncFails
  /\ IF t = "realtime"
     THEN rt' = "down" /\ line' = "none" /\ stream' = <<>> /\ UNCHANGED ready
     ELSE UNCHANGED rtVars
  /\ UNCHANGED <<hubVars, older, table_read, trackVars>>

\* Without the table it goes on.
TableFails(t) ==
  /\ stage[t] = "table"
  /\ GivesUp(t)
  /\ Finish(t)
  /\ older' = older \ {t}
  /\ Tracker!ReadFails(t)
  /\ UNCHANGED <<hubVars, rtVars, table_read, engineVars>>

\* No lock but the tracker's is held: since the reply was received, connections,
\* events and the other thread's table may have come in between.
ApplyTable(t) ==
  /\ stage[t] = "table"
  /\ Uses(t)
  /\ Tracker!ApplyTable(t, reply[t])
  /\ Finish(t)
  /\ older' = older \ {t}
  /\ table_read' = (t \notin older)
  /\ UNCHANGED <<hubVars, rtVars, engineVars>>

ResyncStep(t) ==
  \/ LockReconciler(t) \/ Ask(t) \/ Receive(t)
  \/ ApplySnapshot(t) \/ SnapshotFails(t)
  \/ ApplyTable(t) \/ TableFails(t)

-----------------------------------------------------------------------------

Hub ==
  \/ \E z \in Zones, v \in Inputs : InputChanges(z, v)
  \/ \E a \in Areas, m \in Modes : ModeChanges(a, m)
  \/ LineFails

Realtime  == Attach \/ Serve \/ ReadFrame \/ Disconnect
Processor == TakeEvent \/ ApplyZoneEvent \/ ApplyArmEvent

Next ==
  \/ Hub
  \/ Realtime
  \/ Processor
  \/ PeriodicBegins
  \/ \E t \in Threads : ResyncStep(t)

Spec == Init /\ [][Next]_vars

-----------------------------------------------------------------------------
(* Properties.                                                             *)

FrameType ==
  [code : {"input"}, zone : Zones, action : {"Start", "Stop"}]
    \union [code : {"arm"}, event : Areas \X Modes]

\* The shape of the state.  Only one thread at a time is at the snapshot session,
\* and the engine's resync is that of the thread in the zone half.
TypeOK ==
  /\ Engine!TypeOK /\ Tracker!TypeOK
  /\ input \in [Zones -> Inputs] /\ mode \in [Areas -> Modes]
  /\ changes \in 0..MaxChanges
  /\ rt \in {"down", "resync", "up"} /\ ready \in BOOLEAN
  /\ line \in {"none", "live", "dead"} /\ (line = "none" <=> rt = "down")
  /\ stream \in Seq(FrameType) /\ Len(stream) <= changes
  /\ stage \in [Threads -> {"none", "lock", "zones", "table", "done"}]
  /\ (rt = "resync" <=> stage["realtime"] # "none")
  /\ reply \in [Threads -> {NoReply} \union [Zones -> Inputs] \union [Areas -> Modes]]
  /\ session \in {"none"} \union {t \in Threads : stage[t] \in {"zones", "table"}}
  /\ older \subseteq reading
  /\ table_read \in BOOLEAN
  /\ resyncing <=> \E t \in Threads : stage[t] = "zones"
  /\ reading = {t \in Threads : stage[t] = "table"}

\* The picture is shown as live, its connection lives, and no news is on its
\* way.
LiveAndQuiet ==
  /\ rt = "up" /\ line = "live"
  /\ stream = <<>> /\ event_queue = <<>> /\ in_hand = <<>>

\* "Stale state is never shown as live": whatever was missed while detached, and
\* whatever the two threads' snapshots and the queue of an earlier connection
\* brought in which order, the inputs shown are the hub's.
LiveInputsAreTrue == LiveAndQuiet => active = input

\* The same for the arm modes, provided the last table applied was read on this
\* connection: it makes good what an older read of the periodic thread put there
\* after the modes were forgotten, and no such read has come after it.
LiveModesAreTrue == LiveAndQuiet /\ table_read => raw_mode = mode

=============================================================================
