--------------------------- MODULE PictureProofs ---------------------------
(***************************************************************************)
(* Proofs about Picture, for any inputs, areas, modes and bounds.          *)
(*                                                                         *)
(* The composition is a StateEngine and an ArmingTracker, so what is       *)
(* proved of these holds here.  That the picture is true rests on the last *)
(* event about an input or an area: while the connection lives, it tells   *)
(* the truth wherever it is on its way, and a reply that differs from the  *)
(* hub has such an event behind it, on its way or with a number above the  *)
(* watermark of the read.                                                  *)
(***************************************************************************)
EXTENDS Picture, SequenceTheorems, TLAPS

EngineFacts == INSTANCE StateEngineProofs WITH
  MotionZones <- {}, ArmEvents <- Areas \X Modes, MaxEvents <- MaxChanges,
  heard <- zones_heard

TrackerFacts == INSTANCE ArmingTrackerProofs WITH
  Zones <- {}, Readers <- Threads, MaxEvents <- MaxChanges, MaxFailures <- 0,
  last_event_seq <- last_mode_seq, event_sequence <- mode_sequence,
  watermark <- table_watermark, heard <- modes_heard

-----------------------------------------------------------------------------
(* What an event is about, and where it can be on its way.                 *)

Subjects   == ({"arm"} \X Areas) \union ({"input"} \X Zones)
Subject(e) == IF e.code = "arm" THEN <<"arm", e.event[1]>> ELSE <<"input", e.zone>>
News(e)    == IF e.code = "arm" THEN e.event[2] ELSE IF e.action = "Start" THEN "on" ELSE "off"
Truth(k)   == IF k[1] = "arm" THEN mode[k[2]] ELSE input[k[2]]

\* The events about k that are not applied yet: read from the connection by
\* nobody, queued in this generation, or past the generation check.
InStream(k) == {i \in DOMAIN stream : Subject(stream[i]) = k}
Queued      == {i \in DOMAIN event_queue : event_queue[i].generation = current_generation}
InQueue(k)  == {i \in Queued : Subject(event_queue[i]) = k}
InHand(k)   == {i \in DOMAIN in_hand : Subject(in_hand[i]) = k}
Quiet(k)    == InStream(k) = {} /\ InQueue(k) = {} /\ InHand(k) = {}

\* The last of the events I of s, if there is one, says v.
LastSays(I, s, v) == \A i \in I : (\A j \in I : j <= i) => News(s[i]) = v

-----------------------------------------------------------------------------
(* The inductive invariant.                                                *)

\* This module's part of the shape: one resync at a time in the zone half, and a
\* reply in hand is one to the read its thread has under way.
OwnType ==
  /\ input \in [Zones -> Inputs] /\ mode \in [Areas -> Modes]
  /\ changes \in 0..MaxChanges
  /\ rt \in {"down", "resync", "up"} /\ ready \in BOOLEAN
  /\ line \in {"none", "live", "dead"} /\ (line = "none" <=> rt = "down")
  /\ stream \in Seq(FrameType) /\ Len(stream) <= changes
  /\ table_read \in BOOLEAN

SyncType ==
  /\ stage \in [Threads -> {"none", "lock", "zones", "table", "done"}]
  /\ (rt = "resync" <=> stage["realtime"] # "none")
  /\ reply \in [Threads -> {NoReply} \union [Zones -> Inputs] \union [Areas -> Modes]]
  /\ session \in {"none"} \union {t \in Threads : stage[t] \in {"zones", "table"}}
  /\ older \subseteq reading
  /\ \A t \in Threads : reply[t] # NoReply =>
       \/ stage[t] = "zones" /\ reply[t] \in [Zones -> Inputs]
       \/ stage[t] = "table" /\ reply[t] \in [Areas -> Modes]
  /\ \A t, u \in Threads : stage[t] = "zones" /\ stage[u] = "zones" => t = u
  /\ resyncing <=> \E t \in Threads : stage[t] = "zones"
  /\ reading = {t \in Threads : stage[t] = "table"}

\* Queued events are of this generation or an earlier one.
QueueIsPast ==
  \A i \in DOMAIN event_queue : event_queue[i].generation <= current_generation

\* While the connection lives, the last event about k that is on its way says
\* what is true of k.
NewsIsTrue(k) ==
  /\ LastSays(InStream(k), stream, Truth(k))
  /\ InStream(k) = {} => LastSays(InQueue(k), event_queue, Truth(k))
  /\ InStream(k) = {} /\ InQueue(k) = {} => LastSays(InHand(k), in_hand, Truth(k))
LastNewsIsTrue == line = "live" => \A k \in Subjects : NewsIsTrue(k)

\* During its own resync the connection is not read: nothing of this generation
\* is on its way behind the stream, and nothing has a number above the
\* watermark.
NothingHeard ==
  rt = "resync" =>
    /\ in_hand = <<>> /\ Queued = {}
    /\ stage["realtime"] = "zones" => \A z \in Zones : last_event_seq[z] <= watermark

\* This connection's own snapshot was applied.
ZonesRead == rt = "up" \/ stage["realtime"] \in {"table", "done"}

\* A reply to a read of this connection differs from the hub only where an event
\* is on its way or newer than the read.
SnapshotIsFresh ==
  line = "live" => \A t \in Threads :
    (stage[t] = "zones" /\ reply[t] # NoReply /\ (t = "realtime" \/ ZonesRead)) =>
      \A z \in Zones :
        Quiet(<<"input", z>>) => reply[t][z] = input[z] \/ last_event_seq[z] > watermark

TableIsFresh ==
  line = "live" => \A t \in Threads :
    (stage[t] = "table" /\ reply[t] # NoReply /\ t \notin older) =>
      \A a \in Areas :
        Quiet(<<"arm", a>>) => reply[t][a] = mode[a] \/ last_mode_seq[a] > table_watermark[t]

\* A read of an earlier connection has no higher watermark than one of this.
OlderIsBehind ==
  \A u \in older : \A t \in reading \ older : table_watermark[u] <= table_watermark[t]

\* What was heard of an area since a read began on this connection is shown.
HeardIsShown ==
  line = "live" => \A t \in reading \ older : \A a \in Areas :
    Quiet(<<"arm", a>>) /\ last_mode_seq[a] > table_watermark[t] => raw_mode[a] = mode[a]

\* What was read for this connection and has no news is shown as it is.
InputsAreShown ==
  line = "live" /\ ZonesRead =>
    \A z \in Zones : Quiet(<<"input", z>>) => active[z] = input[z]
ModesAreShown ==
  line = "live" /\ table_read =>
    \A a \in Areas : Quiet(<<"arm", a>>) => raw_mode[a] = mode[a]

PictureInv ==
  /\ Engine!TypeOK /\ Tracker!TypeOK /\ OwnType /\ SyncType
  /\ QueueIsPast /\ LastNewsIsTrue /\ NothingHeard
  /\ SnapshotIsFresh /\ TableIsFresh /\ OlderIsBehind /\ HeardIsShown
  /\ InputsAreShown /\ ModesAreShown

USE PictureAssumption

-----------------------------------------------------------------------------
(* The parts are what they are by themselves.                              *)

\* What the theorems of the two parts assume of their constants.
LEMMA PartsAssumptions == EngineFacts!EngineAssumption /\ TrackerFacts!TrackerAssumption
  BY DEF EngineFacts!EngineAssumption, TrackerFacts!TrackerAssumption

\* The engine of the proofs is the engine of the composition.
LEMMA SameEngine ==
  /\ EngineFacts!Init <=> Engine!Init
  /\ EngineFacts!TypeOK <=> Engine!TypeOK
  /\ [EngineFacts!Next]_(EngineFacts!vars) <=> [Engine!Next]_(Engine!vars)
  <1>1. EngineFacts!Init <=> Engine!Init
    BY DEF Engine!Init, EngineFacts!Init
  <1>2. EngineFacts!TypeOK <=> Engine!TypeOK
    BY DEF Engine!TypeOK, EngineFacts!TypeOK, Engine!EventType, EngineFacts!EventType,
           Engine!Signals, EngineFacts!Signals
  <1> USE DEF Engine!stateVars, EngineFacts!stateVars,
              Engine!queueVars, EngineFacts!queueVars,
              Engine!timerVars, EngineFacts!timerVars,
              Engine!syncVars, EngineFacts!syncVars,
              Engine!pulseVars, EngineFacts!pulseVars
  <1>3. UNCHANGED EngineFacts!vars <=> UNCHANGED Engine!vars
    BY DEF Engine!vars, EngineFacts!vars
  <1>4. EngineFacts!Realtime <=> Engine!Realtime
    BY DEF Engine!Realtime, EngineFacts!Realtime,
           Engine!BeginGeneration, EngineFacts!BeginGeneration,
           Engine!EnqueueEvent, EngineFacts!EnqueueEvent,
           Engine!EnqueueArmEvent, EngineFacts!EnqueueArmEvent,
           Engine!Enqueue, EngineFacts!Enqueue, Engine!Signals, EngineFacts!Signals
  <1>5. EngineFacts!TakeEvent <=> Engine!TakeEvent
    BY DEF Engine!TakeEvent, EngineFacts!TakeEvent
  <1>6. EngineFacts!ApplyEvent <=> Engine!ApplyEvent
    BY DEF Engine!ApplyEvent, EngineFacts!ApplyEvent,
           Engine!HoldMotion, EngineFacts!HoldMotion,
           Engine!ShowInput, EngineFacts!ShowInput,
           Engine!LeaveToTracker, EngineFacts!LeaveToTracker,
           Engine!ApplySensorFault, EngineFacts!ApplySensorFault,
           Engine!Applies, EngineFacts!Applies, Engine!NextSeq, EngineFacts!NextSeq,
           Engine!CancelTimer, EngineFacts!CancelTimer,
           Engine!NotHeld, EngineFacts!NotHeld,
           Engine!Overtaken, EngineFacts!Overtaken
  <1>7. EngineFacts!Timer <=> Engine!Timer
    BY DEF Engine!Timer, EngineFacts!Timer, Engine!TimerFires, EngineFacts!TimerFires,
           Engine!FinishMotion, EngineFacts!FinishMotion,
           Engine!IsLastStop, EngineFacts!IsLastStop
  <1>8. EngineFacts!Resync <=> Engine!Resync
    BY DEF Engine!Resync, EngineFacts!Resync,
           Engine!BeginResync, EngineFacts!BeginResync,
           Engine!ResyncFails, EngineFacts!ResyncFails,
           Engine!ApplySnapshot, EngineFacts!ApplySnapshot,
           Engine!EndResync, EngineFacts!EndResync,
           Engine!Accepts, EngineFacts!Accepts
  <1>9. EngineFacts!Stop <=> Engine!Stop
    BY DEF Engine!Stop, EngineFacts!Stop
  <1>10. ASSUME NEW z, NEW on
         PROVE  EngineFacts!ApplyWpanMotion(z, on) <=> Engine!ApplyWpanMotion(z, on)
    BY DEF Engine!ApplyWpanMotion, EngineFacts!ApplyWpanMotion,
           Engine!NextSeq, EngineFacts!NextSeq, Engine!NotHeld, EngineFacts!NotHeld,
           Engine!Overtaken, EngineFacts!Overtaken
  <1>11. EngineFacts!Next <=> Engine!Next
    BY <1>4, <1>5, <1>6, <1>7, <1>8, <1>9, <1>10 DEF Engine!Next, EngineFacts!Next
  <1> QED
    BY <1>1, <1>2, <1>3, <1>11

\* And so is the tracker.
LEMMA SameTracker ==
  /\ TrackerFacts!Init <=> Tracker!Init
  /\ TrackerFacts!TypeOK <=> Tracker!TypeOK
  /\ [TrackerFacts!Next]_(TrackerFacts!vars) <=> [Tracker!Next]_(Tracker!vars)
  <1>1. TrackerFacts!Init <=> Tracker!Init
    BY DEF Tracker!Init, TrackerFacts!Init
  <1>2. TrackerFacts!TypeOK <=> Tracker!TypeOK
    BY DEF Tracker!TypeOK, TrackerFacts!TypeOK, Tracker!MaybeMode, TrackerFacts!MaybeMode,
           Tracker!AlarmState, TrackerFacts!AlarmState,
           Tracker!ModeHasSource, TrackerFacts!ModeHasSource
  <1> USE DEF Tracker!modeVars, TrackerFacts!modeVars,
              Tracker!alarmVars, TrackerFacts!alarmVars,
              Tracker!eventVars, TrackerFacts!eventVars,
              Tracker!failVars, TrackerFacts!failVars,
              Tracker!tableVars, TrackerFacts!tableVars,
              Tracker!readVars, TrackerFacts!readVars,
              Tracker!Ends, TrackerFacts!Ends,
              Tracker!Settled, TrackerFacts!Settled,
              Tracker!Unsettled, TrackerFacts!Unsettled
  <1>3. UNCHANGED TrackerFacts!vars <=> UNCHANGED Tracker!vars
    BY DEF Tracker!vars, TrackerFacts!vars
  <1>4. TrackerFacts!Event <=> Tracker!Event
    BY DEF Tracker!Event, TrackerFacts!Event,
           Tracker!AreaArmModeChange, TrackerFacts!AreaArmModeChange,
           Tracker!ArmingFailure, TrackerFacts!ArmingFailure,
           Tracker!GlobalArmingFailure, TrackerFacts!GlobalArmingFailure,
           Tracker!AlarmStart, TrackerFacts!AlarmStart,
           Tracker!ZonesWith, TrackerFacts!ZonesWith,
           Tracker!AlarmClear, TrackerFacts!AlarmClear
  <1>5. TrackerFacts!Invalidate <=> Tracker!Invalidate
    BY DEF Tracker!Invalidate, TrackerFacts!Invalidate, Tracker!Forgets, TrackerFacts!Forgets
  <1>6. ASSUME NEW r PROVE TrackerFacts!Read(r) <=> Tracker!Read(r)
    BY DEF Tracker!Read, TrackerFacts!Read, Tracker!BeginRead, TrackerFacts!BeginRead,
           Tracker!ReadFails, TrackerFacts!ReadFails,
           Tracker!ApplyTable, TrackerFacts!ApplyTable,
           Tracker!Corrects, TrackerFacts!Corrects,
           Tracker!Usable, TrackerFacts!Usable, Tracker!EndRead, TrackerFacts!EndRead
  <1>7. TrackerFacts!Fire <=> Tracker!Fire
    BY DEF Tracker!Fire, TrackerFacts!Fire
  <1>8. TrackerFacts!Next <=> Tracker!Next
    BY <1>4, <1>5, <1>6, <1>7 DEF Tracker!Next, TrackerFacts!Next
  <1> QED
    BY <1>1, <1>2, <1>3, <1>8

\* Whatever the composition does, the engine makes a step of its own or none.
LEMMA EngineStep ==
  ASSUME OwnType, SyncType, [Next]_vars
  PROVE  [Engine!Next]_(Engine!vars)
  <1> USE DEF engineVars, Engine!vars, Engine!stateVars, Engine!queueVars, Engine!timerVars,
              Engine!syncVars, Engine!pulseVars
  <1>1. CASE Hub \/ UNCHANGED vars
    BY <1>1 DEF Hub, InputChanges, ModeChanges, LineFails, Sends, vars
  <1>2. CASE Attach
    BY <1>2 DEF Attach, Engine!Next, Engine!Realtime
  <1>3. CASE ReadFrame
    <2> DEFINE e == Head(stream)
    <2>1. e \in FrameType
      BY <1>3, HeadTailProperties DEF ReadFrame, OwnType
    <2>2. CASE e.code = "arm"
      <3>1. e.event \in Areas \X Modes
        BY <2>1, <2>2 DEF FrameType
      <3> QED
        BY <1>3, <2>2, <3>1 DEF ReadFrame, Engine!Next, Engine!Realtime
    <2>3. CASE e.code # "arm"
      <3>1. e.code \in Engine!Signals /\ e.zone \in Zones /\ e.action \in {"Start", "Stop"}
        BY <2>1, <2>3 DEF FrameType, Engine!Signals
      <3> QED
        BY <1>3, <2>3, <3>1 DEF ReadFrame, Engine!Next, Engine!Realtime
    <2> QED
      BY <2>2, <2>3
  <1>4. CASE Serve \/ Disconnect \/ PeriodicBegins
    BY <1>4 DEF Serve, Disconnect, PeriodicBegins
  <1>5. CASE Processor
    BY <1>5 DEF Processor, TakeEvent, ApplyZoneEvent, ApplyArmEvent, Engine!Next
  <1>6. ASSUME NEW t \in Threads, ResyncStep(t) PROVE [Engine!Next]_(Engine!vars)
    <2>1. CASE LockReconciler(t) \/ SnapshotFails(t)
      BY <2>1 DEF LockReconciler, SnapshotFails, Engine!Next, Engine!Resync
    <2>2. CASE Ask(t) \/ Receive(t) \/ ApplyTable(t) \/ TableFails(t)
      BY <2>2 DEF Ask, Receive, ApplyTable, TableFails
    <2>3. CASE ApplySnapshot(t)
      <3>1. reply[t] \in [Zones -> {"unknown", "on", "off"}]
        BY <2>3 DEF ApplySnapshot, Uses, SyncType, Inputs
      <3> QED
        BY <2>3, <3>1 DEF ApplySnapshot, Engine!Next, Engine!Resync
    <2> QED
      BY <1>6, <2>1, <2>2, <2>3 DEF ResyncStep
  <1> QED
    BY <1>1, <1>2, <1>3, <1>4, <1>5, <1>6 DEF Next, Realtime

\* The event in hand for the tracker is a mode change of the hub's.
LEMMA ArmEventInHand ==
  ASSUME Engine!TypeOK, in_hand # <<>>, in_hand[1].code = "arm"
  PROVE  in_hand[1].event \in Areas \X Modes
  <1>1. in_hand[1] \in Engine!EventType
    BY HeadTailProperties DEF Engine!TypeOK
  <1> QED
    BY <1>1 DEF Engine!EventType, Engine!Signals

\* And the tracker makes a step of its own or none.
LEMMA TrackerStep ==
  ASSUME Engine!TypeOK, OwnType, SyncType, [Next]_vars
  PROVE  [Tracker!Next]_(Tracker!vars)
  <1> USE DEF trackVars, Tracker!vars, Tracker!modeVars, Tracker!alarmVars, Tracker!eventVars,
              Tracker!failVars, Tracker!tableVars, Tracker!readVars
  <1>1. CASE Hub \/ UNCHANGED vars
    BY <1>1 DEF Hub, InputChanges, ModeChanges, LineFails, Sends, vars
  <1>2. CASE Attach
    BY <1>2 DEF Attach, Tracker!Next
  <1>3. CASE Serve \/ ReadFrame \/ Disconnect \/ PeriodicBegins
    BY <1>3 DEF Serve, ReadFrame, Disconnect, PeriodicBegins
  <1>4. CASE ApplyArmEvent
    <2>1. in_hand # <<>>
      BY <1>4 DEF ApplyArmEvent, Engine!ApplyEvent
    <2>2. in_hand[1].event \in Areas \X Modes
      BY <1>4, <2>1, ArmEventInHand DEF ApplyArmEvent
    <2>3. in_hand[1].event[1] \in Areas /\ in_hand[1].event[2] \in Modes
      BY <2>2
    <2> QED
      BY <1>4, <2>3 DEF ApplyArmEvent, Tracker!Next, Tracker!Event
  <1>5. CASE TakeEvent \/ ApplyZoneEvent
    BY <1>5 DEF TakeEvent, ApplyZoneEvent
  <1>6. ASSUME NEW t \in Threads, ResyncStep(t) PROVE [Tracker!Next]_(Tracker!vars)
    <2>1. CASE LockReconciler(t) \/ Ask(t) \/ Receive(t) \/ SnapshotFails(t)
      BY <2>1 DEF LockReconciler, Ask, Receive, SnapshotFails
    <2>2. CASE ApplySnapshot(t) \/ TableFails(t)
      BY <2>2 DEF ApplySnapshot, TableFails, Tracker!Next, Tracker!Read
    <2>3. CASE ApplyTable(t)
      <3>1. reply[t] \in [Areas -> Modes \union {NoMode}]
        BY <2>3 DEF ApplyTable, Uses, SyncType
      <3> QED
        BY <2>3, <3>1 DEF ApplyTable, Tracker!Next, Tracker!Read
    <2> QED
      BY <1>6, <2>1, <2>2, <2>3 DEF ResyncStep
  <1> QED
    BY <1>1, <1>2, <1>3, <1>4, <1>5, <1>6 DEF Next, Realtime, Processor

-----------------------------------------------------------------------------
(* The shape of the composition.                                           *)

\* The composition starts in its invariant.
LEMMA InitInv == Init => PictureInv
  <1> SUFFICES ASSUME Init PROVE PictureInv
    OBVIOUS
  <1>1. Engine!TypeOK /\ Tracker!TypeOK
    <2>1. EngineFacts!IInv => EngineFacts!TypeOK
      BY DEF EngineFacts!IInv
    <2>2. TrackerFacts!IInv => TrackerFacts!TypeOK
      BY DEF TrackerFacts!IInv
    <2>3. EngineFacts!IInv
      BY PartsAssumptions, SameEngine, EngineFacts!InitInv DEF Init
    <2>4. TrackerFacts!IInv
      BY PartsAssumptions, SameTracker, TrackerFacts!InitInv DEF Init
    <2> QED
      BY <2>1, <2>2, <2>3, <2>4, SameEngine, SameTracker
  <1>2. stream \in Seq(FrameType) /\ Len(stream) = 0
    BY EmptySeq DEF Init
  <1>3. OwnType
    <2>1. ready \in BOOLEAN /\ table_read \in BOOLEAN
      BY DEF Init
    <2> QED
      BY <1>2, <2>1 DEF Init, OwnType
  <1>4. SyncType
    BY DEF Init, SyncType, Engine!Init, Tracker!Init, Threads
  <1>5. QueueIsPast /\ NothingHeard
    BY DEF Init, QueueIsPast, NothingHeard, Engine!Init
  <1>6. /\ LastNewsIsTrue /\ SnapshotIsFresh /\ TableIsFresh /\ HeardIsShown
        /\ InputsAreShown /\ ModesAreShown /\ OlderIsBehind
    BY DEF Init, LastNewsIsTrue, SnapshotIsFresh, TableIsFresh, HeardIsShown, InputsAreShown,
           ModesAreShown, OlderIsBehind
  <1> QED
    BY <1>1, <1>3, <1>4, <1>5, <1>6 DEF PictureInv

\* The parts' state keeps its shape in the composition.
LEMMA PartsType ==
  ASSUME Engine!TypeOK, Tracker!TypeOK, OwnType, SyncType, [Next]_vars
  PROVE  Engine!TypeOK' /\ Tracker!TypeOK'
  <1>1. EngineFacts!TypeOK'
    BY EngineStep, SameEngine, PartsAssumptions, EngineFacts!TypeStep
  <1>2. TrackerFacts!TypeOK'
    BY TrackerStep, SameTracker, PartsAssumptions, TrackerFacts!TypeStep
  <1>3. Engine!TypeOK'
    BY <1>1 DEF Engine!TypeOK, EngineFacts!TypeOK, Engine!EventType, EngineFacts!EventType,
                Engine!Signals, EngineFacts!Signals
  <1>4. Tracker!TypeOK'
    BY <1>2 DEF Tracker!TypeOK, TrackerFacts!TypeOK, Tracker!MaybeMode,
                TrackerFacts!MaybeMode, Tracker!AlarmState, TrackerFacts!AlarmState,
                Tracker!ModeHasSource, TrackerFacts!ModeHasSource
  <1> QED
    BY <1>3, <1>4

\* What the hub sends is an event, and there are no more on the way than changes.
LEMMA SendsType ==
  ASSUME OwnType, NEW e \in FrameType, Sends(e)
  PROVE  /\ stream' \in Seq(FrameType) /\ Len(stream') <= changes'
         /\ changes' \in 0..MaxChanges
  <1>1. Len(stream) \in Nat /\ changes \in Nat
    BY LenProperties DEF OwnType
  <1>2. CASE line = "live"
    <2>1. stream' \in Seq(FrameType) /\ Len(stream') = Len(stream) + 1
      BY <1>2, AppendProperties DEF Sends, OwnType
    <2> QED
      BY <1>1, <2>1 DEF Sends, OwnType
  <1>3. CASE line # "live"
    BY <1>1, <1>3 DEF Sends, OwnType
  <1> QED
    BY <1>2, <1>3

\* The hub's state and the connection keep their shape.
LEMMA OwnStep == ASSUME OwnType, SyncType, [Next]_vars PROVE OwnType'
  <1> USE DEF hubVars, rtVars
  <1>1. ASSUME NEW z \in Zones, NEW v \in Inputs, InputChanges(z, v) PROVE OwnType'
    <2> DEFINE e == [code |-> "input", zone |-> z,
                     action |-> IF v = "on" THEN "Start" ELSE "Stop"]
    <2>1. e \in FrameType /\ Sends(e)
      BY <1>1 DEF InputChanges, FrameType
    <2>2. /\ stream' \in Seq(FrameType) /\ Len(stream') <= changes'
          /\ changes' \in 0..MaxChanges
      BY <2>1, SendsType
    <2>3. ready' \in BOOLEAN /\ table_read' \in BOOLEAN
      BY <2>1 DEF Sends, OwnType, syncVars
    <2> QED
      BY <1>1, <2>1, <2>2, <2>3 DEF InputChanges, Sends, OwnType
  <1>2. ASSUME NEW a \in Areas, NEW m \in Modes, ModeChanges(a, m) PROVE OwnType'
    <2> DEFINE e == [code |-> "arm", event |-> <<a, m>>]
    <2>1. e \in FrameType /\ Sends(e)
      BY <1>2 DEF ModeChanges, FrameType
    <2>2. /\ stream' \in Seq(FrameType) /\ Len(stream') <= changes'
          /\ changes' \in 0..MaxChanges
      BY <2>1, SendsType
    <2>3. ready' \in BOOLEAN /\ table_read' \in BOOLEAN
      BY <2>1 DEF Sends, OwnType, syncVars
    <2> QED
      BY <1>2, <2>1, <2>2, <2>3 DEF ModeChanges, Sends, OwnType
  <1>3. CASE LineFails \/ Serve \/ PeriodicBegins \/ Processor \/ UNCHANGED vars
    <2>1. ready' \in BOOLEAN /\ table_read' \in BOOLEAN
      BY <1>3 DEF LineFails, Serve, PeriodicBegins, Processor, TakeEvent, ApplyZoneEvent,
                  ApplyArmEvent, OwnType, syncVars, vars
    <2> QED
      BY <1>3, <2>1 DEF LineFails, Serve, PeriodicBegins, Processor, TakeEvent,
                        ApplyZoneEvent, ApplyArmEvent, OwnType, syncVars, vars
  <1>4. CASE Attach \/ Disconnect
    <2>1. stream' \in Seq(FrameType) /\ Len(stream') = 0
      BY <1>4, EmptySeq DEF Attach, Disconnect
    <2>2. ready' \in BOOLEAN /\ table_read' \in BOOLEAN
      BY <1>4 DEF Attach, Disconnect, OwnType, syncVars
    <2> QED
      BY <1>4, <2>1, <2>2 DEF Attach, Disconnect, OwnType
  <1>5. CASE ReadFrame
    <2>1. stream' \in Seq(FrameType) /\ Len(stream') = Len(stream) - 1
      BY <1>5, HeadTailProperties DEF ReadFrame, OwnType
    <2>2. ready' \in BOOLEAN /\ table_read' \in BOOLEAN /\ Len(stream) \in Nat
      BY <1>5, LenProperties DEF ReadFrame, OwnType, syncVars
    <2> QED
      BY <1>5, <2>1, <2>2 DEF ReadFrame, OwnType
  <1>6. ASSUME NEW t \in Threads, ResyncStep(t) PROVE OwnType'
    <2>1. table_read' \in BOOLEAN /\ ready' \in BOOLEAN
      BY <1>6 DEF ResyncStep, LockReconciler, Ask, Receive, ApplySnapshot, SnapshotFails, ApplyTable,
                  TableFails, OwnType
    <2>2. CASE SnapshotFails(t) /\ t = "realtime"
      <3>1. stream' \in Seq(FrameType) /\ Len(stream') = 0
        BY <2>2, EmptySeq DEF SnapshotFails
      <3> QED
        BY <2>1, <2>2, <3>1 DEF SnapshotFails, OwnType
    <2>3. CASE ~(SnapshotFails(t) /\ t = "realtime")
      BY <1>6, <2>1, <2>3 DEF ResyncStep, LockReconciler, Ask, Receive, ApplySnapshot, SnapshotFails,
                  ApplyTable, TableFails, OwnType
    <2> QED
      BY <2>2, <2>3
  <1> QED
    BY <1>1, <1>2, <1>3, <1>4, <1>5, <1>6 DEF Next, Hub, Realtime

\* A thread that makes a step of its resync is at the place it is in; what the
\* other thread does is its own.
LEMMA SyncStep == ASSUME OwnType, SyncType, [Next]_vars PROVE SyncType'
  <1>1. CASE UNCHANGED <<stage, session, reply, older, rt, resyncing, reading>>
    BY <1>1 DEF SyncType
  <1>2. CASE Hub \/ ReadFrame \/ Processor \/ UNCHANGED vars
    <2>1. UNCHANGED <<stage, session, reply, older, rt, resyncing, reading>>
      BY <1>2 DEF Hub, InputChanges, ModeChanges, LineFails, Sends, ReadFrame, Processor,
                  TakeEvent, ApplyZoneEvent, ApplyArmEvent, vars, rtVars, syncVars,
                  engineVars, trackVars, Engine!EnqueueArmEvent, Engine!EnqueueEvent,
                  Engine!Enqueue, Engine!TakeEvent, Engine!ApplyEvent, Engine!HoldMotion,
                  Engine!ShowInput, Engine!LeaveToTracker, Engine!ApplySensorFault,
                  Engine!Applies, Engine!syncVars, Tracker!AreaArmModeChange
    <2> QED
      BY <1>1, <2>1
  <1>3. CASE Attach
    BY <1>3 DEF Attach, SyncType, Engine!BeginGeneration, Engine!syncVars, Tracker!Invalidate,
                Tracker!readVars, Threads
  <1>4. CASE Serve
    BY <1>4 DEF Serve, SyncType, engineVars, trackVars, Threads
  <1>5. CASE Disconnect
    BY <1>5 DEF Disconnect, SyncType, syncVars, engineVars, trackVars
  <1>6. CASE PeriodicBegins
    BY <1>6 DEF PeriodicBegins, Moves, SyncType, rtVars, engineVars, trackVars, Threads
  <1>7. ASSUME NEW t \in Threads, LockReconciler(t) PROVE SyncType'
    BY <1>7 DEF LockReconciler, Moves, SyncType, Engine!BeginResync, rtVars, trackVars
  <1>8. ASSUME NEW t \in Threads, Ask(t) PROVE SyncType'
    <2>1. stage[t] \in {"zones", "table"} /\ UNCHANGED <<stage, older, rt, resyncing, reading>>
      BY <1>8 DEF Ask, Asks, rtVars, engineVars, trackVars
    <2>2. PICK r : /\ reply' = [reply EXCEPT ![t] = r]
                   /\ stage[t] = "zones" => r = input
                   /\ stage[t] = "table" => r = mode
      BY <1>8, <2>1 DEF Ask, Answers
    <2>3. session' = t
      BY <1>8 DEF Ask
    <2>4. /\ stage[t] = "zones" => r \in [Zones -> Inputs]
          /\ stage[t] = "table" => r \in [Areas -> Modes]
      BY <2>2 DEF OwnType
    <2>5. /\ reply' \in [Threads -> {NoReply} \union [Zones -> Inputs] \union [Areas -> Modes]]
          /\ reply'[t] = r /\ \A u \in Threads \ {t} : reply'[u] = reply[u]
      BY <2>1, <2>2, <2>4 DEF SyncType
    <2> QED
      BY <2>1, <2>3, <2>4, <2>5 DEF SyncType
  <1>13. ASSUME NEW t \in Threads, Receive(t) PROVE SyncType'
    BY <1>13 DEF Receive, SyncType, rtVars, engineVars, trackVars
  <1>9. ASSUME NEW t \in Threads, ApplySnapshot(t) PROVE SyncType'
    BY <1>9 DEF ApplySnapshot, Uses, Moves, SyncType, Engine!ApplySnapshot,
                Engine!EndResync, Tracker!BeginRead, rtVars
  <1>10. ASSUME NEW t \in Threads, SnapshotFails(t) PROVE SyncType'
    BY <1>10 DEF SnapshotFails, GivesUp, Moves, SyncType, Engine!ResyncFails, Engine!EndResync,
                 rtVars, trackVars, Tracker!readVars
  <1>11. ASSUME NEW t \in Threads, ApplyTable(t) PROVE SyncType'
    BY <1>11 DEF ApplyTable, Uses, Finish, Moves, SyncType, Tracker!ApplyTable,
                 Tracker!EndRead, rtVars, engineVars
  <1>12. ASSUME NEW t \in Threads, TableFails(t) PROVE SyncType'
    BY <1>12 DEF TableFails, GivesUp, Finish, Moves, SyncType, Tracker!ReadFails, Tracker!EndRead,
                 rtVars, engineVars
  <1> QED
    BY <1>2, <1>3, <1>4, <1>5, <1>6, <1>7, <1>8, <1>9, <1>10, <1>11, <1>12,
     <1>13 DEF Next, Realtime, ResyncStep

-----------------------------------------------------------------------------
(* The last news on its way.                                               *)

\* An event appended to s is the last one among those chosen, if it is chosen.
LEMMA LastOfAppend ==
  ASSUME NEW S, NEW s \in Seq(S), NEW e \in S, NEW I \in SUBSET DOMAIN s, NEW v
  PROVE  /\ LastSays(I, s, v) => LastSays(I, Append(s, e), v)
         /\ News(e) = v => LastSays(I \union {Len(s) + 1}, Append(s, e), v)
  <1>1. /\ Len(s) \in Nat /\ DOMAIN s = 1..Len(s)
        /\ Append(s, e)[Len(s) + 1] = e
        /\ \A i \in 1..Len(s) : Append(s, e)[i] = s[i]
    BY AppendProperties, LenProperties
  <1>2. PICK n \in Nat : n = Len(s)
    BY <1>1
  <1> DEFINE t == Append(s, e)
  <1>3. I \subseteq 1..n /\ t[n + 1] = e /\ \A i \in 1..n : t[i] = s[i]
    BY <1>1, <1>2
  <1> HIDE DEF t
  <1>4. LastSays(I, s, v) => LastSays(I, t, v)
    BY <1>3 DEF LastSays
  <1>5. News(e) = v => LastSays(I \union {n + 1}, t, v)
    BY <1>2, <1>3 DEF LastSays
  <1> QED
    BY <1>2, <1>4, <1>5 DEF t

\* Without its first event s still has its last one, if that was another.
LEMMA LastOfTail ==
  ASSUME NEW S, NEW s \in Seq(S), s # <<>>, NEW I \in SUBSET DOMAIN s, NEW v,
         LastSays(I, s, v),
         NEW J, J = {i \in DOMAIN Tail(s) : i + 1 \in I}
  PROVE  /\ LastSays(J, Tail(s), v)
         /\ J = {} /\ 1 \in I => News(Head(s)) = v
         /\ J = {} /\ 1 \notin I => I = {}
  <1>1. /\ Len(s) \in Nat /\ DOMAIN s = 1..Len(s) /\ Head(s) = s[1]
        /\ Tail(s) \in Seq(S) /\ Len(Tail(s)) = Len(s) - 1
        /\ \A i \in 1..Len(Tail(s)) : Tail(s)[i] = s[i + 1]
    BY HeadTailProperties, LenProperties
  <1>2. DOMAIN Tail(s) = 1..Len(Tail(s))
    BY <1>1, LenProperties
  <1>3. PICK n \in Nat : n = Len(s) /\ n # 0
    BY <1>1, EmptySeq
  <1> DEFINE t == Tail(s)
  <1>4. /\ I \subseteq 1..n /\ J = {i \in 1..(n - 1) : i + 1 \in I}
        /\ \A i \in 1..(n - 1) : t[i] = s[i + 1]
    BY <1>1, <1>2, <1>3
  <1> HIDE DEF t
  <1>5. ASSUME NEW i \in J, \A j \in J : j <= i PROVE News(t[i]) = v
    <2>1. i + 1 \in I /\ i \in 1..(n - 1) /\ t[i] = s[i + 1]
      BY <1>4
    <2>2. ASSUME NEW j \in I PROVE j <= i + 1
      <3>1. CASE j = 1
        BY <2>1, <3>1
      <3>2. CASE j # 1
        <4>1. j - 1 \in 1..(n - 1) /\ (j - 1) + 1 = j
          BY <1>4, <3>2
        <4>2. j - 1 \in J
          BY <1>4, <4>1
        <4> QED
          BY <1>4, <1>5, <2>1, <4>2
      <3> QED
        BY <3>1, <3>2
    <2> QED
      BY <2>1, <2>2 DEF LastSays
  <1>6. ASSUME J = {} PROVE I \subseteq {1}
    <2> SUFFICES ASSUME NEW j \in I, j # 1 PROVE FALSE
      OBVIOUS
    <2>1. j - 1 \in 1..(n - 1) /\ (j - 1) + 1 = j
      BY <1>4
    <2> QED
      BY <1>4, <1>6, <2>1
  <1>7. J = {} /\ 1 \in I => News(s[1]) = v
    <2> SUFFICES ASSUME J = {}, 1 \in I PROVE News(s[1]) = v
      OBVIOUS
    <2>1. \A j \in I : j <= 1
      BY <1>6
    <2> QED
      BY <2>1 DEF LastSays
  <1>8. LastSays(J, t, v)
    BY <1>5 DEF LastSays
  <1> QED
    BY <1>1, <1>6, <1>7, <1>8 DEF t

\* The events chosen from a sequence with one more event.
LEMMA ChosenOfAppend ==
  ASSUME NEW S, NEW s \in Seq(S), NEW e \in S, NEW k
  PROVE  {i \in DOMAIN Append(s, e) : Subject(Append(s, e)[i]) = k} =
           {i \in DOMAIN s : Subject(s[i]) = k}
             \union (IF Subject(e) = k THEN {Len(s) + 1} ELSE {})
  <1>1. /\ Len(s) \in Nat /\ DOMAIN s = 1..Len(s)
        /\ DOMAIN Append(s, e) = 1..(Len(s) + 1)
        /\ Append(s, e)[Len(s) + 1] = e
        /\ \A i \in 1..Len(s) : Append(s, e)[i] = s[i]
    BY AppendProperties, LenProperties
  <1>2. PICK n \in Nat : n = Len(s)
    BY <1>1
  <1> DEFINE t == Append(s, e)
  <1>3. DOMAIN s = 1..n /\ DOMAIN t = 1..(n + 1) /\ t[n + 1] = e /\ \A i \in 1..n : t[i] = s[i]
    BY <1>1, <1>2
  <1> HIDE DEF t
  <1>4. {i \in DOMAIN t : Subject(t[i]) = k} =
          {i \in DOMAIN s : Subject(s[i]) = k} \union (IF Subject(e) = k THEN {n + 1} ELSE {})
    <2> HIDE DEF Subject
    <2> QED
      BY <1>3
  <1> QED
    BY <1>2, <1>4 DEF t

\* k has no news after the step that it did not miss before, and is as it was.
StaysQuiet(k) == Quiet(k)' => Quiet(k) /\ Truth(k)' = Truth(k)

\* A change of the hub is the last news about what changed, and no other's.
LEMMA NewsOfChange ==
  ASSUME OwnType, line = "live", NEW e \in FrameType, Sends(e),
         NEW k \in Subjects, NewsIsTrue(k),
         IF Subject(e) = k THEN News(e) = Truth(k)' ELSE Truth(k)' = Truth(k)
  PROVE  NewsIsTrue(k)' /\ StaysQuiet(k)
  <1>1. stream' = Append(stream, e) /\ stream \in Seq(FrameType)
    BY DEF Sends, OwnType
  <1>2. InStream(k)' = InStream(k) \union (IF Subject(e) = k THEN {Len(stream) + 1} ELSE {})
    BY <1>1, ChosenOfAppend DEF InStream
  <1>3. InQueue(k)' = InQueue(k) /\ InHand(k)' = InHand(k)
    BY DEF Sends, engineVars, InQueue, Queued, InHand
  <1>4. InStream(k) \in SUBSET DOMAIN stream
    BY DEF InStream
  <1>5. CASE Subject(e) = k
    <2>1. LastSays(InStream(k)', stream', Truth(k)')
      BY <1>1, <1>2, <1>4, <1>5, LastOfAppend
    <2>2. InStream(k)' # {}
      BY <1>2, <1>5
    <2> QED
      BY <2>1, <2>2 DEF NewsIsTrue, StaysQuiet, Quiet
  <1>6. CASE Subject(e) # k
    <2>1. InStream(k)' = InStream(k) /\ Truth(k)' = Truth(k)
      BY <1>2, <1>6
    <2>2. LastSays(InStream(k)', stream', Truth(k)')
      BY <1>1, <1>4, <2>1, LastOfAppend DEF NewsIsTrue
    <2>3. event_queue' = event_queue /\ in_hand' = in_hand
      BY DEF Sends, engineVars
    <2> QED
      BY <1>3, <2>1, <2>2, <2>3 DEF NewsIsTrue, StaysQuiet, Quiet
  <1> QED
    BY <1>5, <1>6

\* What the realtime thread queues is the event it read, of this generation.
LEMMA ReadIsQueued ==
  ASSUME Engine!TypeOK, OwnType, ReadFrame
  PROVE  \E q \in Engine!EventType :
           /\ event_queue' = Append(event_queue, q)
           /\ Subject(q) = Subject(Head(stream)) /\ News(q) = News(Head(stream))
           /\ q.generation = current_generation
  <1> DEFINE e == Head(stream)
  <1>1. e \in FrameType /\ current_generation \in 0..MaxGenerations
    BY HeadTailProperties DEF ReadFrame, OwnType, Engine!TypeOK
  <1>2. CASE e.code = "arm"
    <2> DEFINE q == [code |-> "arm", event |-> e.event, generation |-> current_generation]
    <2>1. q \in Engine!EventType
      BY <1>1, <1>2 DEF FrameType, Engine!EventType
    <2>2. event_queue' = Append(event_queue, q)
      BY <1>2 DEF ReadFrame, Engine!EnqueueArmEvent, Engine!Enqueue
    <2>3. Subject(q) = Subject(e) /\ News(q) = News(e)
      BY <1>2 DEF Subject, News
    <2> QED
      BY <2>1, <2>2, <2>3
  <1>3. CASE e.code # "arm"
    <2> DEFINE q == [code |-> e.code, zone |-> e.zone, action |-> e.action,
                     generation |-> current_generation]
    <2>1. q \in Engine!EventType
      BY <1>1, <1>3 DEF FrameType, Engine!EventType, Engine!Signals
    <2>2. event_queue' = Append(event_queue, q)
      BY <1>3 DEF ReadFrame, Engine!EnqueueEvent, Engine!Enqueue
    <2>3. Subject(q) = Subject(e) /\ News(q) = News(e)
      BY <1>3 DEF Subject, News
    <2> QED
      BY <2>1, <2>2, <2>3
  <1> QED
    BY <1>2, <1>3

\* What does not change in the step.
LEMMA ReadKeeps ==
  ASSUME ReadFrame
  PROVE  /\ stream # <<>> /\ stream' = Tail(stream)
         /\ UNCHANGED <<input, mode, line, in_hand, current_generation>>
  BY DEF ReadFrame, hubVars, Engine!EnqueueArmEvent, Engine!EnqueueEvent, Engine!Enqueue

\* An event that is queued is the last of the queue's news about its subject.
LEMMA QueuedOfAppend ==
  ASSUME event_queue \in Seq(Engine!EventType), NEW q \in Engine!EventType,
         event_queue' = Append(event_queue, q), q.generation = current_generation,
         current_generation' = current_generation, NEW k
  PROVE  InQueue(k)' =
           InQueue(k) \union (IF Subject(q) = k THEN {Len(event_queue) + 1} ELSE {})
  <1>1. /\ Len(event_queue) \in Nat /\ DOMAIN event_queue = 1..Len(event_queue)
        /\ DOMAIN event_queue' = 1..(Len(event_queue) + 1)
        /\ event_queue'[Len(event_queue) + 1] = q
        /\ \A i \in 1..Len(event_queue) : event_queue'[i] = event_queue[i]
    BY AppendProperties, LenProperties
  <1>2. PICK n \in Nat : n = Len(event_queue)
    BY <1>1
  <1>3. /\ DOMAIN event_queue = 1..n /\ DOMAIN event_queue' = 1..(n + 1)
        /\ event_queue'[n + 1] = q
        /\ \A i \in 1..n : event_queue'[i] = event_queue[i]
    BY <1>1, <1>2
  <1>4. InQueue(k)' = InQueue(k) \union (IF Subject(q) = k THEN {n + 1} ELSE {})
    BY <1>3 DEF InQueue, Queued
  <1> QED
    BY <1>2, <1>4

\* The events chosen from the tail are those chosen before, one place on.
LEMMA ChosenOfTail ==
  ASSUME NEW S, NEW s \in Seq(S), s # <<>>, NEW k
  PROVE  {i \in DOMAIN Tail(s) : Subject(Tail(s)[i]) = k} =
           {i \in DOMAIN Tail(s) : i + 1 \in {j \in DOMAIN s : Subject(s[j]) = k}}
  <1>1. /\ DOMAIN s = 1..Len(s) /\ Len(s) \in Nat /\ DOMAIN Tail(s) = 1..Len(Tail(s))
        /\ Len(Tail(s)) = Len(s) - 1
        /\ \A i \in 1..Len(Tail(s)) : Tail(s)[i] = s[i + 1]
    BY HeadTailProperties, LenProperties
  <1>2. PICK n \in Nat : n = Len(s)
    BY <1>1
  <1> DEFINE t == Tail(s)
  <1>3. DOMAIN s = 1..n /\ DOMAIN t = 1..(n - 1) /\ \A i \in 1..(n - 1) : t[i] = s[i + 1]
    BY <1>1, <1>2
  <1> HIDE DEF t
  <1>4. ASSUME NEW i \in DOMAIN t
        PROVE  Subject(t[i]) = k <=> i + 1 \in {j \in DOMAIN s : Subject(s[j]) = k}
    BY <1>3
  <1>5. {i \in DOMAIN t : Subject(t[i]) = k} =
          {i \in DOMAIN t : i + 1 \in {j \in DOMAIN s : Subject(s[j]) = k}}
    BY <1>4
  <1> QED
    BY <1>5 DEF t

\* An event that is read goes from the head of the stream to the end of the queue.
LEMMA NewsOfRead ==
  ASSUME Engine!TypeOK, OwnType, ReadFrame, NEW k \in Subjects, NewsIsTrue(k)
  PROVE  NewsIsTrue(k)' /\ StaysQuiet(k)
  <1>1. PICK q \in Engine!EventType :
           /\ event_queue' = Append(event_queue, q)
           /\ Subject(q) = Subject(Head(stream)) /\ News(q) = News(Head(stream))
           /\ q.generation = current_generation
    BY ReadIsQueued
  <1>2. /\ stream # <<>> /\ stream' = Tail(stream) /\ stream \in Seq(FrameType)
        /\ UNCHANGED <<input, mode, line, in_hand, current_generation>>
        /\ event_queue \in Seq(Engine!EventType)
    BY ReadKeeps DEF OwnType, Engine!TypeOK
  <1> DEFINE v == Truth(k)
  <1>3. Truth(k)' = v
    BY <1>2 DEF Truth
  <1> HIDE DEF v
  <1>4. InStream(k)' = {i \in DOMAIN stream' : i + 1 \in InStream(k)}
    BY <1>2, ChosenOfTail DEF InStream
  <1>5. InStream(k) \in SUBSET DOMAIN stream /\ InQueue(k) \in SUBSET DOMAIN event_queue
    BY DEF InStream, InQueue, Queued
  <1>6. /\ LastSays(InStream(k), stream, v)
        /\ InStream(k) = {} => LastSays(InQueue(k), event_queue, v)
        /\ InStream(k) = {} /\ InQueue(k) = {} => LastSays(InHand(k), in_hand, v)
    BY DEF NewsIsTrue, v
  <1>7. /\ LastSays(InStream(k)', stream', v)
        /\ InStream(k)' = {} /\ 1 \in InStream(k) => News(Head(stream)) = v
        /\ InStream(k)' = {} /\ 1 \notin InStream(k) => InStream(k) = {}
    <2> DEFINE J == InStream(k)'
    <2>1. J = {i \in DOMAIN Tail(stream) : i + 1 \in InStream(k)}
      BY <1>2, <1>4
    <2> HIDE DEF J
    <2>2. /\ LastSays(J, Tail(stream), v)
          /\ J = {} /\ 1 \in InStream(k) => News(Head(stream)) = v
          /\ J = {} /\ 1 \notin InStream(k) => InStream(k) = {}
      BY <1>2, <1>5, <1>6, <2>1, LastOfTail
    <2> QED
      BY <1>2, <2>2 DEF J
  <1>8. 1 \in InStream(k) <=> Subject(Head(stream)) = k
    BY <1>2, HeadTailProperties, EmptySeq, LenProperties DEF InStream
  <1>9. InQueue(k)' =
          InQueue(k) \union (IF Subject(q) = k THEN {Len(event_queue) + 1} ELSE {})
    BY <1>1, <1>2, QueuedOfAppend
  <1>10. InHand(k)' = InHand(k)
    BY <1>2 DEF InHand
  <1>11. CASE Subject(q) = k
    <2>1. InStream(k)' = {} => LastSays(InQueue(k)', event_queue', v)
      <3>1. News(q) = v => LastSays(InQueue(k)', event_queue', v)
        BY <1>1, <1>2, <1>5, <1>9, <1>11, LastOfAppend
      <3> QED
        BY <1>1, <1>7, <1>8, <1>11, <3>1
    <2>2. InQueue(k)' # {}
      BY <1>9, <1>11
    <2> QED
      BY <1>3, <1>7, <2>1, <2>2 DEF NewsIsTrue, StaysQuiet, Quiet
  <1>12. CASE Subject(q) # k
    <2>1. InQueue(k)' = InQueue(k) /\ (InStream(k)' = {} => InStream(k) = {})
      BY <1>1, <1>7, <1>8, <1>9, <1>12
    <2>2. InStream(k)' = {} => LastSays(InQueue(k)', event_queue', v)
      <3>1. LastSays(InQueue(k), event_queue, v) => LastSays(InQueue(k), event_queue', v)
        BY <1>1, <1>2, <1>5, LastOfAppend
      <3> QED
        BY <1>6, <2>1, <3>1
    <2>3. in_hand' = in_hand
      BY <1>2
    <2> QED
      BY <1>3, <1>6, <1>7, <1>10, <2>1, <2>2, <2>3 DEF NewsIsTrue, StaysQuiet, Quiet, v
  <1> QED
    BY <1>11, <1>12

\* An event that is taken goes from the head of the queue into the processor's hand,
\* or is dropped because it is of an earlier connection.
LEMMA NewsOfTake ==
  ASSUME Engine!TypeOK, TakeEvent, NEW k \in Subjects, NewsIsTrue(k)
  PROVE  NewsIsTrue(k)' /\ StaysQuiet(k)
  <1> DEFINE s == event_queue
             h == Head(event_queue)
             v == Truth(k)
  <1>1. /\ s # <<>> /\ s' = Tail(s) /\ s \in Seq(Engine!EventType) /\ in_hand = <<>>
        /\ UNCHANGED <<input, mode, line, stream, current_generation>>
        /\ in_hand' = IF h.generation = current_generation THEN <<h>> ELSE <<>>
    BY DEF TakeEvent, Engine!TakeEvent, hubVars, rtVars, Engine!TypeOK
  <1>2. InStream(k)' = InStream(k) /\ Truth(k)' = v
    BY <1>1 DEF InStream, Truth
  <1>3. InQueue(k)' = {i \in DOMAIN s' : i + 1 \in InQueue(k)}
    <2>1. /\ DOMAIN s = 1..Len(s) /\ Len(s) \in Nat /\ DOMAIN s' = 1..Len(s')
          /\ Len(s') = Len(s) - 1
          /\ \A i \in 1..Len(s') : s'[i] = s[i + 1]
      BY <1>1, HeadTailProperties, LenProperties
    <2>2. PICK n \in Nat : n = Len(s)
      BY <2>1
    <2>3. DOMAIN s = 1..n /\ DOMAIN s' = 1..(n - 1) /\ \A i \in 1..(n - 1) : s'[i] = s[i + 1]
      BY <2>1, <2>2
    <2>4. ASSUME NEW i \in DOMAIN s' PROVE i \in InQueue(k)' <=> i + 1 \in InQueue(k)
      BY <1>1, <2>3 DEF InQueue, Queued
    <2> QED
      BY <2>4 DEF InQueue, Queued
  <1>4. InQueue(k) \in SUBSET DOMAIN s
    BY DEF InQueue, Queued
  <1>5. 1 \in InQueue(k) <=> h.generation = current_generation /\ Subject(h) = k
    BY <1>1, HeadTailProperties, EmptySeq, LenProperties DEF InQueue, Queued
  <1>6. InHand(k) = {}
    BY <1>1 DEF InHand
  <1>7. InHand(k)' = IF h.generation = current_generation /\ Subject(h) = k THEN {1} ELSE {}
    BY <1>1 DEF InHand
  <1>8. ASSUME LastSays(InQueue(k), s, v)
        PROVE  /\ LastSays(InQueue(k)', s', v)
               /\ InQueue(k)' = {} => LastSays(InHand(k)', in_hand', v)
    <2> DEFINE J == InQueue(k)'
    <2>1. J = {i \in DOMAIN Tail(s) : i + 1 \in InQueue(k)}
      BY <1>1, <1>3
    <2> HIDE DEF J, v
    <2>2. LastSays(J, Tail(s), v) /\ (J = {} /\ 1 \in InQueue(k) => News(h) = v)
      BY <1>1, <1>4, <1>8, <2>1, LastOfTail
    <2>3. J = {} => LastSays(InHand(k)', in_hand', v)
      BY <1>1, <1>5, <1>7, <2>2 DEF LastSays
    <2> QED
      BY <1>1, <2>2, <2>3 DEF J
  <1>9. InQueue(k)' = {} /\ InHand(k)' = {} => InQueue(k) = {}
    <2> SUFFICES ASSUME InQueue(k)' = {}, 1 \notin InQueue(k), NEW j \in InQueue(k) PROVE FALSE
      BY <1>5, <1>7
    <2>1. /\ DOMAIN s = 1..Len(s) /\ Len(s) \in Nat /\ DOMAIN s' = 1..Len(s')
          /\ Len(s') = Len(s) - 1
      BY <1>1, HeadTailProperties, LenProperties
    <2>2. PICK n \in Nat : n = Len(s)
      BY <2>1
    <2>3. DOMAIN s = 1..n /\ DOMAIN s' = 1..(n - 1)
      BY <2>1, <2>2
    <2>4. j - 1 \in DOMAIN s' /\ (j - 1) + 1 = j
      BY <1>4, <2>3
    <2> QED
      BY <1>3, <2>4
  <1>10. NewsIsTrue(k)'
    <2>1. LastSays(InStream(k)', stream', Truth(k)')
      BY <1>1, <1>2 DEF NewsIsTrue
    <2> HIDE DEF s
    <2> QED
      BY <1>2, <1>8, <2>1 DEF NewsIsTrue, s
  <1> QED
    BY <1>2, <1>6, <1>9, <1>10 DEF StaysQuiet, Quiet

\* The event the processor has in hand is about k and says what is true of it.
HandSays(k) ==
  /\ ApplyZoneEvent \/ ApplyArmEvent
  /\ in_hand # <<>>
  /\ Subject(in_hand[1]) = k /\ News(in_hand[1]) = Truth(k)'

\* What an applied event leaves alone.
LEMMA ApplyKeeps ==
  ASSUME ApplyZoneEvent \/ ApplyArmEvent
  PROVE  /\ \E e : in_hand = <<e>>
         /\ in_hand' = <<>>
         /\ UNCHANGED <<input, mode, rt, line, stream, event_queue, current_generation,
                        stage, reply, table_read, watermark, table_watermark>>
  <1>1. Engine!ApplyEvent /\ UNCHANGED <<hubVars, rtVars, syncVars>>
    BY DEF ApplyZoneEvent, ApplyArmEvent
  <1>2. \E e : Engine!Applies(e)
    BY <1>1 DEF Engine!ApplyEvent, Engine!HoldMotion, Engine!ShowInput,
                Engine!LeaveToTracker, Engine!ApplySensorFault
  <1>3. table_watermark' = table_watermark
    BY DEF ApplyZoneEvent, ApplyArmEvent, trackVars, Tracker!AreaArmModeChange
  <1> QED
    BY <1>1, <1>2, <1>3 DEF Engine!Applies, Engine!syncVars, hubVars, rtVars, syncVars

\* An event that is applied was the last news about its subject, or there is more
\* on its way.
LEMMA NewsOfApply ==
  ASSUME ApplyZoneEvent \/ ApplyArmEvent, NEW k \in Subjects, NewsIsTrue(k)
  PROVE  NewsIsTrue(k)' /\ (StaysQuiet(k) \/ HandSays(k))
  <1>1. PICK e : in_hand = <<e>>
    BY ApplyKeeps
  <1>2. /\ in_hand' = <<>>
        /\ UNCHANGED <<input, mode, stream, event_queue, current_generation>>
    BY ApplyKeeps
  <1>3. InStream(k)' = InStream(k) /\ InQueue(k)' = InQueue(k) /\ Truth(k)' = Truth(k)
    BY <1>2 DEF InStream, InQueue, Queued, Truth
  <1>4. InHand(k)' = {}
    BY <1>2 DEF InHand
  <1>5. NewsIsTrue(k)'
    BY <1>2, <1>3, <1>4 DEF NewsIsTrue, LastSays
  <1>6. CASE Subject(e) = k
    <2>1. InHand(k) = {1} /\ in_hand[1] = e
      BY <1>1, <1>6 DEF InHand
    <2>2. Quiet(k)' => News(e) = Truth(k)
      BY <1>3, <2>1 DEF Quiet, NewsIsTrue, LastSays
    <2> QED
      BY <1>1, <1>3, <1>5, <1>6, <2>1, <2>2 DEF HandSays, StaysQuiet
  <1>7. CASE Subject(e) # k
    <2>1. InHand(k) = {}
      BY <1>1, <1>7 DEF InHand
    <2> QED
      BY <1>3, <1>5, <2>1 DEF StaysQuiet, Quiet
  <1> QED
    BY <1>6, <1>7

\* A new connection has no news: what was queued is of an earlier generation.
LEMMA AttachIsQuiet ==
  ASSUME Engine!TypeOK, QueueIsPast, Attach
  PROVE  /\ stream' = <<>> /\ in_hand' = <<>> /\ Queued' = {} /\ QueueIsPast'
         /\ \A k \in Subjects : NewsIsTrue(k)'
  <1>1. /\ stream' = <<>> /\ in_hand' = <<>> /\ event_queue' = event_queue
        /\ current_generation' = current_generation + 1
    BY DEF Attach, Engine!BeginGeneration
  <1>2. /\ current_generation \in Nat
        /\ \A i \in DOMAIN event_queue : event_queue[i].generation \in Nat
    <2>1. \A i \in DOMAIN event_queue : event_queue[i] \in Engine!EventType
      BY ElementOfSeq, LenProperties DEF Engine!TypeOK
    <2> QED
      BY <2>1 DEF Engine!TypeOK, Engine!EventType
  <1>3. \A i \in DOMAIN event_queue' : event_queue'[i].generation < current_generation'
    BY <1>1, <1>2 DEF QueueIsPast
  <1>4. Queued' = {} /\ QueueIsPast'
    <2>1. \A i \in DOMAIN event_queue' :
            /\ event_queue'[i].generation # current_generation'
            /\ event_queue'[i].generation <= current_generation'
      BY <1>1, <1>2, <1>3
    <2> QED
      BY <2>1 DEF Queued, QueueIsPast
  <1>5. ASSUME NEW k \in Subjects PROVE NewsIsTrue(k)'
    <2>1. InStream(k)' = {} /\ InQueue(k)' = {} /\ InHand(k)' = {}
      BY <1>1, <1>4 DEF InStream, InQueue, InHand
    <2> QED
      BY <2>1 DEF NewsIsTrue, LastSays
  <1> QED
    BY <1>1, <1>4, <1>5

\* The steps of the two resyncs leave the events alone, unless they end the
\* connection.
newsVars == <<input, mode, line, stream, event_queue, in_hand, current_generation>>

LEMMA ResyncKeepsNews ==
  ASSUME NEW t \in Threads, ResyncStep(t), line' # "none"
  PROVE  UNCHANGED newsVars
  BY DEF ResyncStep, LockReconciler, Ask, Receive, ApplySnapshot, SnapshotFails, ApplyTable, TableFails,
         hubVars, rtVars, engineVars, newsVars, Engine!BeginResync, Engine!ResyncFails,
         Engine!EndResync, Engine!ApplySnapshot, Engine!queueVars

\* While the connection lives, no step makes its last news a lie, and what has no
\* news after a step had none before, or is what the processor applied.
LEMMA NewsStep ==
  ASSUME PictureInv, [Next]_vars, line' = "live", ~Attach, NEW k \in Subjects
  PROVE  NewsIsTrue(k)' /\ (StaysQuiet(k) \/ HandSays(k))
  <1> USE DEF PictureInv
  <1>1. line = "live"
    BY DEF Next, Hub, InputChanges, ModeChanges, Sends, LineFails, Realtime, Serve, ReadFrame,
           Disconnect, Processor, TakeEvent, ApplyZoneEvent, ApplyArmEvent, PeriodicBegins,
           ResyncStep, LockReconciler, Ask, Receive, ApplySnapshot, SnapshotFails, ApplyTable,
           TableFails, rtVars, vars
  <1>2. NewsIsTrue(k)
    BY <1>1 DEF LastNewsIsTrue
  <1>3. ASSUME UNCHANGED newsVars PROVE NewsIsTrue(k)' /\ StaysQuiet(k)
    <2>1. /\ InStream(k)' = InStream(k) /\ InQueue(k)' = InQueue(k) /\ InHand(k)' = InHand(k)
          /\ Truth(k)' = Truth(k)
      BY <1>3 DEF newsVars, InStream, InQueue, Queued, InHand, Truth
    <2>2. stream' = stream /\ event_queue' = event_queue /\ in_hand' = in_hand
      BY <1>3 DEF newsVars
    <2> QED
      BY <1>2, <2>1, <2>2 DEF NewsIsTrue, StaysQuiet, Quiet
  <1>4. ASSUME NEW z \in Zones, NEW v \in Inputs, InputChanges(z, v)
        PROVE  NewsIsTrue(k)' /\ StaysQuiet(k)
    <2> DEFINE e == [code |-> "input", zone |-> z,
                     action |-> IF v = "on" THEN "Start" ELSE "Stop"]
    <2>1. e \in FrameType /\ Sends(e)
      BY <1>4 DEF InputChanges, FrameType
    <2>2. Subject(e) = <<"input", z>> /\ News(e) = v
      BY DEF Subject, News, Inputs
    <2>3. IF Subject(e) = k THEN News(e) = Truth(k)' ELSE Truth(k)' = Truth(k)
      <3>1. input' = [input EXCEPT ![z] = v] /\ mode' = mode /\ input \in [Zones -> Inputs]
        BY <1>4 DEF InputChanges, OwnType
      <3>2. CASE k = <<"input", z>>
        <4>1. Truth(k)' = input'[z] /\ k = Subject(e)
          BY <2>2, <3>2 DEF Truth
        <4>2. input'[z] = v
          BY <3>1
        <4> QED
          BY <2>2, <4>1, <4>2
      <3>3. ASSUME NEW y \in Zones, k = <<"input", y>>, y # z PROVE Truth(k)' = Truth(k)
        <4>1. Truth(k)' = input'[y] /\ Truth(k) = input[y]
          BY <3>3 DEF Truth
        <4> QED
          BY <3>1, <3>3, <4>1
      <3>4. ASSUME NEW y \in Areas, k = <<"arm", y>> PROVE Truth(k)' = Truth(k) /\ k # Subject(e)
        BY <2>2, <3>1, <3>4 DEF Truth
      <3>5. \/ k = <<"input", z>> \/ \E y \in Zones : k = <<"input", y>> /\ y # z
            \/ \E y \in Areas : k = <<"arm", y>>
        BY DEF Subjects
      <3> QED
        BY <2>2, <3>2, <3>3, <3>4, <3>5
    <2> HIDE DEF e
    <2> QED
      BY <1>1, <1>2, <2>1, <2>3, NewsOfChange
  <1>5. ASSUME NEW a \in Areas, NEW m \in Modes, ModeChanges(a, m)
        PROVE  NewsIsTrue(k)' /\ StaysQuiet(k)
    <2> DEFINE e == [code |-> "arm", event |-> <<a, m>>]
    <2>1. e \in FrameType /\ Sends(e)
      BY <1>5 DEF ModeChanges, FrameType
    <2>2. Subject(e) = <<"arm", a>> /\ News(e) = m
      BY DEF Subject, News
    <2>3. IF Subject(e) = k THEN News(e) = Truth(k)' ELSE Truth(k)' = Truth(k)
      <3>1. mode' = [mode EXCEPT ![a] = m] /\ input' = input /\ mode \in [Areas -> Modes]
        BY <1>5 DEF ModeChanges, OwnType
      <3>2. CASE k = <<"arm", a>>
        <4>1. Truth(k)' = mode'[a] /\ k = Subject(e)
          BY <2>2, <3>2 DEF Truth
        <4>2. mode'[a] = m
          BY <3>1
        <4> QED
          BY <2>2, <4>1, <4>2
      <3>3. ASSUME NEW y \in Areas, k = <<"arm", y>>, y # a PROVE Truth(k)' = Truth(k)
        <4>1. Truth(k)' = mode'[y] /\ Truth(k) = mode[y]
          BY <3>3 DEF Truth
        <4> QED
          BY <3>1, <3>3, <4>1
      <3>4. ASSUME NEW y \in Zones, k = <<"input", y>> PROVE Truth(k)' = Truth(k) /\ k # Subject(e)
        BY <2>2, <3>1, <3>4 DEF Truth
      <3>5. \/ k = <<"arm", a>> \/ \E y \in Areas : k = <<"arm", y>> /\ y # a
            \/ \E y \in Zones : k = <<"input", y>>
        BY DEF Subjects
      <3> QED
        BY <2>2, <3>2, <3>3, <3>4, <3>5
    <2> HIDE DEF e
    <2> QED
      BY <1>1, <1>2, <2>1, <2>3, NewsOfChange
  <1>6. CASE LineFails
    BY <1>6 DEF LineFails
  <1>7. CASE Serve \/ PeriodicBegins \/ UNCHANGED vars
    BY <1>3, <1>7 DEF Serve, PeriodicBegins, vars, hubVars, rtVars, engineVars, newsVars
  <1>8. CASE Disconnect
    BY <1>8 DEF Disconnect
  <1>9. CASE ReadFrame
    BY <1>2, <1>9, NewsOfRead
  <1>10. CASE TakeEvent
    BY <1>2, <1>10, NewsOfTake
  <1>11. CASE ApplyZoneEvent \/ ApplyArmEvent
    BY <1>2, <1>11, NewsOfApply
  <1>12. ASSUME NEW t \in Threads, ResyncStep(t) PROVE NewsIsTrue(k)' /\ StaysQuiet(k)
    BY <1>3, <1>12, ResyncKeepsNews
  <1> QED
    BY <1>4, <1>5, <1>6, <1>7, <1>8, <1>9, <1>10, <1>11, <1>12
       DEF Next, Hub, Realtime, Processor

-----------------------------------------------------------------------------
(* Who writes what.                                                        *)

Applies == ApplyZoneEvent \/ ApplyArmEvent

\* The processor alone gives numbers; a snapshot or an event changes what is shown
\* of an input; a table, an event or a new connection what is shown of a mode.
LEMMA PictureWriters ==
  ASSUME [Next]_vars
  PROVE  /\ Applies \/ UNCHANGED <<last_event_seq, last_mode_seq>>
         /\ Applies \/ (\E t \in Threads : ApplySnapshot(t)) \/ UNCHANGED active
         /\ Applies \/ Attach \/ (\E t \in Threads : ApplyTable(t)) \/ UNCHANGED raw_mode
  <1> USE DEF engineVars, trackVars
  <1>1. CASE Hub \/ Serve \/ ReadFrame \/ Disconnect \/ TakeEvent \/ PeriodicBegins
             \/ UNCHANGED vars
    BY <1>1 DEF Hub, InputChanges, ModeChanges, LineFails, Sends, Serve, ReadFrame,
                Disconnect, TakeEvent, PeriodicBegins, vars, Engine!EnqueueArmEvent,
                Engine!EnqueueEvent, Engine!Enqueue, Engine!TakeEvent, Engine!stateVars
  <1>2. CASE Attach
    BY <1>2 DEF Attach, Engine!BeginGeneration, Engine!stateVars, Tracker!Invalidate,
                Tracker!eventVars
  <1>3. ASSUME NEW t \in Threads, ResyncStep(t)
        PROVE  /\ UNCHANGED <<last_event_seq, last_mode_seq>>
               /\ ApplySnapshot(t) \/ UNCHANGED active
               /\ ApplyTable(t) \/ UNCHANGED raw_mode
    BY <1>3 DEF ResyncStep, LockReconciler, Ask, Receive, ApplySnapshot, SnapshotFails, ApplyTable,
                TableFails, Engine!BeginResync, Engine!ApplySnapshot, Engine!ResyncFails,
                Engine!stateVars, Tracker!BeginRead, Tracker!ApplyTable, Tracker!ReadFails,
                Tracker!eventVars, Tracker!modeVars
  <1> QED
    BY <1>1, <1>2, <1>3 DEF Next, Realtime, Processor, Applies

\* The watermark belongs to the thread in the zone half, a table's to its reader;
\* a reply is the hub's answer to an Ask.
LEMMA ReadWriters ==
  ASSUME Tracker!TypeOK, OwnType, SyncType, [Next]_vars
  PROVE  /\ \A t \in Threads : stage[t] = "zones" /\ stage'[t] = "zones" =>
                                 watermark' = watermark
         /\ \A t \in Threads : stage[t] = "table" /\ stage'[t] = "table" =>
                                 table_watermark'[t] = table_watermark[t]
         /\ \A t \in Threads : reply'[t] # NoReply =>
              stage'[t] = stage[t] /\ (Ask(t) \/ reply'[t] = reply[t])
  <1> USE DEF engineVars, trackVars
  <1>1. CASE Hub \/ ReadFrame \/ Disconnect \/ TakeEvent \/ UNCHANGED vars
    BY <1>1 DEF Hub, InputChanges, ModeChanges, LineFails, Sends, ReadFrame,
                Disconnect, TakeEvent, vars, syncVars, Engine!EnqueueArmEvent,
                Engine!EnqueueEvent, Engine!Enqueue, Engine!TakeEvent, Engine!syncVars
  <1>2. CASE Attach
    BY <1>2 DEF Attach, Engine!BeginGeneration, Engine!syncVars, Tracker!Invalidate,
                Tracker!readVars, SyncType, Threads
  <1>3. CASE Serve \/ PeriodicBegins
    BY <1>3 DEF Serve, PeriodicBegins, Moves, SyncType, Threads
  <1>4. CASE Applies
    BY <1>4, ApplyKeeps DEF Applies
  <1>5. ASSUME NEW t \in Threads,
               LockReconciler(t) \/ Ask(t) \/ Receive(t) \/ SnapshotFails(t),
               NEW u \in Threads
        PROVE  /\ stage[u] = "zones" /\ stage'[u] = "zones" => watermark' = watermark
               /\ stage[u] = "table" /\ stage'[u] = "table" =>
                    table_watermark'[u] = table_watermark[u]
               /\ reply'[u] # NoReply =>
                    stage'[u] = stage[u] /\ (Ask(u) \/ reply'[u] = reply[u])
    BY <1>5 DEF LockReconciler, Ask, Receive, SnapshotFails, GivesUp, Asks, Answers, Moves, SyncType,
                Engine!BeginResync, Engine!ResyncFails, Engine!EndResync
  <1>6. ASSUME NEW t \in Threads, ApplySnapshot(t), NEW u \in Threads
        PROVE  /\ stage[u] = "zones" /\ stage'[u] = "zones" => watermark' = watermark
               /\ stage[u] = "table" /\ stage'[u] = "table" =>
                    table_watermark'[u] = table_watermark[u]
               /\ reply'[u] # NoReply => stage'[u] = stage[u] /\ reply'[u] = reply[u]
    <2>1. stage'[u] = IF u = t THEN "table" ELSE stage[u]
      BY <1>6 DEF ApplySnapshot, Moves, SyncType
    <2>2. reply'[u] = IF u = t THEN NoReply ELSE reply[u]
      BY <1>6 DEF ApplySnapshot, Uses, SyncType
    <2>3. stage[t] = "zones" /\ (stage[u] = "zones" => u = t)
      BY <1>6 DEF ApplySnapshot, SyncType
    <2>4. u # t => table_watermark'[u] = table_watermark[u]
      BY <1>6 DEF ApplySnapshot, Tracker!BeginRead
    <2> QED
      BY <2>1, <2>2, <2>3, <2>4
  <1>7. ASSUME NEW t \in Threads, ApplyTable(t) \/ TableFails(t), NEW u \in Threads
        PROVE  /\ stage[u] = "zones" /\ stage'[u] = "zones" => watermark' = watermark
               /\ stage[u] = "table" /\ stage'[u] = "table" =>
                    table_watermark'[u] = table_watermark[u]
               /\ reply'[u] # NoReply => stage'[u] = stage[u] /\ reply'[u] = reply[u]
    <2>1. u # t => stage'[u] = stage[u] /\ reply'[u] = reply[u]
      BY <1>7 DEF ApplyTable, TableFails, Uses, GivesUp, Finish, Moves, SyncType
    <2>2. stage'[t] # "table" /\ reply'[t] = NoReply
      BY <1>7 DEF ApplyTable, TableFails, Uses, GivesUp, Finish, Moves, SyncType
    <2>3. u # t => table_watermark'[u] = table_watermark[u]
      <3>1. table_watermark' = [table_watermark EXCEPT ![t] = 0]
        BY <1>7 DEF ApplyTable, TableFails, Tracker!ApplyTable, Tracker!ReadFails,
                    Tracker!EndRead
      <3>2. table_watermark \in [Threads -> Nat]
        BY DEF Tracker!TypeOK
      <3> QED
        BY <3>1, <3>2
    <2>4. watermark' = watermark
      BY <1>7 DEF ApplyTable, TableFails
    <2> QED
      BY <2>1, <2>2, <2>3, <2>4
  <1> QED
    BY <1>1, <1>2, <1>3, <1>4, <1>5, <1>6, <1>7
       DEF Next, Realtime, Processor, ResyncStep, Applies

-----------------------------------------------------------------------------
(* What the steps do to the rest of the invariant.                         *)

\* An input's event that is applied shows what it says, under a new number.
LEMMA InputApplied ==
  ASSUME Engine!TypeOK, NEW z \in Zones, HandSays(<<"input", z>>)
  PROVE  active'[z] = input'[z] /\ last_event_seq'[z] = event_sequence + 1
  <1>1. PICK e : in_hand = <<e>>
    BY ApplyKeeps DEF HandSays
  <1>2. e = in_hand[1] /\ e \in Engine!EventType
    BY <1>1, ElementOfSeq, LenProperties DEF Engine!TypeOK
  <1>3. Subject(e) = <<"input", z>> /\ News(e) = input'[z]
    BY <1>2 DEF HandSays, Truth
  <1>4. e.code # "arm" /\ e.zone = z
    BY <1>3 DEF Subject
  <1>5. ApplyZoneEvent /\ e.code = "input"
    BY <1>2, <1>4 DEF HandSays, ApplyArmEvent, ApplyZoneEvent
  <1>6. Engine!ShowInput(e)
    BY <1>1, <1>2, <1>5 DEF ApplyZoneEvent, Engine!ApplyEvent, Engine!HoldMotion,
                       Engine!LeaveToTracker, Engine!ApplySensorFault
  <1>7. /\ active' = [active EXCEPT ![z] = News(e)]
        /\ last_event_seq' = [last_event_seq EXCEPT ![z] = event_sequence + 1]
    BY <1>4, <1>5, <1>6 DEF Engine!ShowInput, Engine!NextSeq, News
  <1>8. z \in DOMAIN active /\ z \in DOMAIN last_event_seq
    BY DEF Engine!TypeOK
  <1> QED
    BY <1>3, <1>7, <1>8

\* And so does an area's.
LEMMA ModeApplied ==
  ASSUME Engine!TypeOK, Tracker!TypeOK, NEW a \in Areas, HandSays(<<"arm", a>>)
  PROVE  raw_mode'[a] = mode'[a] /\ last_mode_seq'[a] = mode_sequence + 1
  <1>1. PICK e : in_hand = <<e>>
    BY ApplyKeeps DEF HandSays
  <1>2. e = in_hand[1]
    BY <1>1
  <1>3. Subject(e) = <<"arm", a>> /\ News(e) = mode'[a]
    BY <1>2 DEF HandSays, Truth
  <1>4. e.code = "arm" /\ e.event[1] = a
    BY <1>3 DEF Subject
  <1>5. ApplyArmEvent
    BY <1>2, <1>4 DEF HandSays, ApplyArmEvent, ApplyZoneEvent
  <1>6. /\ raw_mode' = [raw_mode EXCEPT ![a] = News(e)]
        /\ last_mode_seq' = [last_mode_seq EXCEPT ![a] = mode_sequence + 1]
    BY <1>2, <1>4, <1>5 DEF ApplyArmEvent, Tracker!AreaArmModeChange, News
  <1>7. a \in DOMAIN raw_mode /\ a \in DOMAIN last_mode_seq
    BY DEF Tracker!TypeOK
  <1> QED
    BY <1>3, <1>6, <1>7

\* Numbers only grow.
LEMMA NumbersGrow ==
  ASSUME Engine!TypeOK, Tracker!TypeOK, OwnType, SyncType, [Next]_vars
  PROVE  /\ \A z \in Zones : /\ last_event_seq[z] \in Nat /\ last_event_seq'[z] \in Nat
                             /\ last_event_seq[z] <= last_event_seq'[z]
         /\ \A a \in Areas : /\ last_mode_seq[a] \in Nat /\ last_mode_seq'[a] \in Nat
                             /\ last_mode_seq[a] <= last_mode_seq'[a]
  <1>1. CASE UNCHANGED <<last_event_seq, last_mode_seq>>
    BY <1>1 DEF Engine!TypeOK, Tracker!TypeOK
  <1>2. CASE Applies
    <2>1. Engine!ApplyEvent
      BY <1>2 DEF Applies, ApplyZoneEvent, ApplyArmEvent
    <2>2. /\ last_event_seq \in [Zones -> 0..event_sequence] /\ event_sequence \in Nat
          /\ last_mode_seq \in [Areas -> 0..mode_sequence] /\ mode_sequence \in Nat
      BY DEF Engine!TypeOK, Tracker!TypeOK
    <2>3. \/ last_event_seq' = last_event_seq
          \/ \E z : last_event_seq' = [last_event_seq EXCEPT ![z] = event_sequence + 1]
      BY <2>1 DEF Engine!ApplyEvent, Engine!HoldMotion, Engine!ShowInput,
                  Engine!LeaveToTracker, Engine!ApplySensorFault, Engine!NextSeq,
                  Engine!stateVars
    <2>4. \/ last_mode_seq' = last_mode_seq
          \/ \E a : last_mode_seq' = [last_mode_seq EXCEPT ![a] = mode_sequence + 1]
      BY <1>2 DEF Applies, ApplyZoneEvent, ApplyArmEvent, trackVars, Tracker!AreaArmModeChange
    <2> QED
      BY <2>2, <2>3, <2>4
  <1> QED
    BY <1>1, <1>2, PictureWriters

\* Only a new connection, a read frame and the processor touch the queue.
LEMMA QueueWriters ==
  ASSUME [Next]_vars
  PROVE  \/ Attach \/ ReadFrame \/ TakeEvent
         \/ Applies /\ UNCHANGED <<event_queue, current_generation>>
         \/ UNCHANGED <<event_queue, in_hand, current_generation>>
  BY ApplyKeeps
     DEF Next, Hub, InputChanges, ModeChanges, LineFails, Sends, Realtime, Serve, Disconnect,
         Processor, PeriodicBegins, ResyncStep, LockReconciler, Ask, Receive, ApplySnapshot,
         SnapshotFails, ApplyTable, TableFails, vars, engineVars, Applies, Engine!BeginResync,
         Engine!ResyncFails, Engine!ApplySnapshot, Engine!queueVars

\* The queue holds nothing of a generation to come.
LEMMA PastStep ==
  ASSUME Engine!TypeOK, OwnType, QueueIsPast, [Next]_vars
  PROVE  QueueIsPast'
  <1>1. CASE Attach
    BY <1>1, AttachIsQuiet
  <1>2. CASE ReadFrame
    <2>1. PICK q \in Engine!EventType :
             event_queue' = Append(event_queue, q) /\ q.generation = current_generation
      BY <1>2, ReadIsQueued
    <2>2. current_generation' = current_generation /\ current_generation \in Nat
      BY <1>2, ReadKeeps DEF Engine!TypeOK
    <2>3. /\ Len(event_queue) \in Nat /\ DOMAIN event_queue = 1..Len(event_queue)
          /\ DOMAIN event_queue' = 1..(Len(event_queue) + 1)
          /\ event_queue'[Len(event_queue) + 1] = q
          /\ \A i \in 1..Len(event_queue) : event_queue'[i] = event_queue[i]
      BY <2>1, AppendProperties, LenProperties DEF Engine!TypeOK
    <2>4. PICK n \in Nat : n = Len(event_queue)
      BY <2>3
    <2>5. /\ DOMAIN event_queue = 1..n /\ DOMAIN event_queue' = 1..(n + 1)
          /\ event_queue'[n + 1] = q
          /\ \A i \in 1..n : event_queue'[i] = event_queue[i]
      BY <2>3, <2>4
    <2> QED
      BY <2>1, <2>2, <2>5 DEF QueueIsPast
  <1>3. CASE TakeEvent
    <2>1. /\ event_queue # <<>> /\ event_queue' = Tail(event_queue)
          /\ current_generation' = current_generation
      BY <1>3 DEF TakeEvent, Engine!TakeEvent
    <2>2. /\ DOMAIN event_queue = 1..Len(event_queue) /\ Len(event_queue) \in Nat
          /\ DOMAIN event_queue' = 1..Len(event_queue')
          /\ Len(event_queue') = Len(event_queue) - 1
          /\ \A i \in 1..Len(event_queue') : event_queue'[i] = event_queue[i + 1]
      BY <2>1, HeadTailProperties, LenProperties DEF Engine!TypeOK
    <2> QED
      BY <2>1, <2>2 DEF QueueIsPast
  <1>4. CASE UNCHANGED <<event_queue, current_generation>>
    BY <1>4 DEF QueueIsPast
  <1> QED
    BY <1>1, <1>2, <1>3, <1>4, QueueWriters

\* A connection that is not read puts nothing into the queue, and what is left there
\* of an earlier one is dropped.
LEMMA HeardStep == ASSUME PictureInv, [Next]_vars PROVE NothingHeard'
  <1> USE DEF PictureInv
  <1> SUFFICES ASSUME rt' = "resync"
               PROVE  /\ in_hand' = <<>> /\ Queued' = {}
                      /\ stage'["realtime"] = "zones" =>
                           \A z \in Zones : last_event_seq'[z] <= watermark'
    BY DEF NothingHeard
  <1>1. CASE Attach
    <2>1. stage'["realtime"] = "lock"
      BY <1>1 DEF Attach, SyncType, Threads
    <2> QED
      BY <1>1, <2>1, AttachIsQuiet
  <1>2. CASE ~Attach
    <2>1. rt = "resync"
      BY <1>2 DEF Next, Hub, InputChanges, ModeChanges, LineFails, Sends, Realtime, Serve,
         ReadFrame, Disconnect, Processor, TakeEvent, ApplyZoneEvent, ApplyArmEvent,
         PeriodicBegins, ResyncStep, LockReconciler, Ask, Receive, ApplySnapshot, SnapshotFails,
         ApplyTable, TableFails, vars, rtVars
    <2>2. /\ in_hand = <<>> /\ Queued = {}
          /\ stage["realtime"] = "zones" => \A z \in Zones : last_event_seq[z] <= watermark
      BY <2>1 DEF NothingHeard
    <2>3. ~Applies /\ ~ReadFrame
      BY <2>1, <2>2, ApplyKeeps DEF Applies, ReadFrame
    <2>4. in_hand' = <<>> /\ Queued' = {}
      <3>1. CASE TakeEvent
        <4>1. /\ event_queue # <<>> /\ event_queue' = Tail(event_queue)
              /\ current_generation' = current_generation
              /\ in_hand' = IF Head(event_queue).generation = current_generation
                            THEN <<Head(event_queue)>> ELSE <<>>
          BY <3>1 DEF TakeEvent, Engine!TakeEvent
        <4>2. /\ DOMAIN event_queue = 1..Len(event_queue) /\ Len(event_queue) \in Nat
              /\ Len(event_queue) # 0 /\ Head(event_queue) = event_queue[1]
              /\ DOMAIN event_queue' = 1..Len(event_queue')
              /\ Len(event_queue') = Len(event_queue) - 1
              /\ \A i \in 1..Len(event_queue') : event_queue'[i] = event_queue[i + 1]
          BY <4>1, HeadTailProperties, LenProperties, EmptySeq DEF Engine!TypeOK
        <4>3. \A i \in DOMAIN event_queue : event_queue[i].generation # current_generation
          BY <2>2 DEF Queued
        <4>4. 1 \in DOMAIN event_queue
          BY <4>2
        <4>5. \A i \in DOMAIN event_queue' : event_queue'[i].generation # current_generation'
          BY <4>1, <4>2, <4>3
        <4> QED
          BY <4>1, <4>2, <4>3, <4>4, <4>5 DEF Queued
      <3>2. CASE UNCHANGED <<event_queue, in_hand, current_generation>>
        BY <2>2, <3>2 DEF Queued
      <3> QED
        BY <1>2, <2>3, <3>1, <3>2, QueueWriters
    <2>5. UNCHANGED <<last_event_seq, last_mode_seq>>
      BY <2>3, PictureWriters
    <2>6. ASSUME stage'["realtime"] = "zones", NEW z \in Zones
          PROVE  last_event_seq'[z] <= watermark'
      <3>1. CASE stage["realtime"] = "zones"
        BY <2>2, <2>5, <2>6, <3>1, ReadWriters DEF Threads
      <3>2. CASE LockReconciler("realtime")
        BY <2>5, <3>2 DEF LockReconciler, Engine!BeginResync, Engine!TypeOK
      <3>3. stage["realtime"] = "zones" \/ LockReconciler("realtime")
        BY <1>2, <2>3, <2>6
           DEF Next, Hub, InputChanges, ModeChanges, LineFails, Sends, Realtime, Serve,
         Disconnect, Processor, TakeEvent, Applies,
         PeriodicBegins, ResyncStep, LockReconciler, Ask, Receive, ApplySnapshot, SnapshotFails,
         ApplyTable, TableFails, vars, syncVars, Moves, Finish, SyncType, Threads
      <3> QED
        BY <3>1, <3>2, <3>3
    <2> QED
      BY <2>4, <2>6
  <1> QED
    BY <1>1, <1>2

\* A connection lives from its attach on, and its own snapshot is that of its own
\* resync.
LEMMA OwnReads ==
  ASSUME SyncType, [Next]_vars, ~Attach
  PROVE  /\ line' = "live" => line = "live"
         /\ ZonesRead' => ZonesRead \/ ApplySnapshot("realtime")
  <1>1. CASE Hub \/ ReadFrame \/ Disconnect \/ Processor \/ UNCHANGED vars
    <2>1. /\ line' = "live" => line = "live"
          /\ (rt' = "up" => rt = "up") /\ UNCHANGED stage
      BY <1>1 DEF Hub, InputChanges, ModeChanges, LineFails, Sends, ReadFrame, Disconnect,
                Processor, TakeEvent, ApplyZoneEvent, ApplyArmEvent, vars, rtVars, syncVars
    <2> QED
      BY <2>1 DEF ZonesRead
  <1>2. CASE Serve \/ PeriodicBegins
    <2>1. line' = line
      BY <1>2 DEF Serve, PeriodicBegins, rtVars
    <2>2. ZonesRead' => ZonesRead
      BY <1>2 DEF Serve, PeriodicBegins, Moves, rtVars, ZonesRead, SyncType, Threads
    <2> QED
      BY <2>1, <2>2
  <1>3. ASSUME NEW t \in Threads, ResyncStep(t)
        PROVE  /\ line' = "live" => line = "live"
               /\ ZonesRead' => ZonesRead \/ ApplySnapshot("realtime")
    <2>1. (line' = "live" => line = "live") /\ (rt' = "up" => rt = "up")
      BY <1>3 DEF ResyncStep, LockReconciler, Ask, Receive, ApplySnapshot, SnapshotFails,
                  ApplyTable, TableFails, rtVars
    <2>2. stage'["realtime"] \in {"table", "done"} =>
            stage["realtime"] \in {"table", "done"} \/ ApplySnapshot("realtime")
      BY <1>3 DEF ResyncStep, LockReconciler, Ask, Receive, ApplySnapshot, SnapshotFails,
                  ApplyTable, TableFails, Moves, Finish, SyncType, Threads
    <2> QED
      BY <2>1, <2>2 DEF ZonesRead
  <1> QED
    BY <1>1, <1>2, <1>3 DEF Next, Realtime

\* A thread's read is of this connection if it began on it.
LEMMA TableReads ==
  ASSUME SyncType, [Next]_vars, ~Attach
  PROVE  /\ older' = older \intersect reading'
         /\ \A t \in reading' : t \in reading \/ ApplySnapshot(t)
         /\ table_read' => table_read \/ \E t \in Threads : ApplyTable(t) /\ t \notin older
  <1>1. CASE Hub \/ Serve \/ ReadFrame \/ Disconnect \/ Processor \/ PeriodicBegins
             \/ UNCHANGED vars
    <2>1. UNCHANGED <<older, table_read, reading>>
      BY <1>1 DEF Hub, InputChanges, ModeChanges, LineFails, Sends, Serve, ReadFrame,
                  Disconnect, Processor, TakeEvent, ApplyZoneEvent, ApplyArmEvent,
                  PeriodicBegins, vars, syncVars, trackVars, Tracker!AreaArmModeChange
    <2>2. table_read' => table_read
      BY <2>1
    <2> QED
      BY <2>1, <2>2 DEF SyncType
  <1>2. ASSUME NEW t \in Threads, LockReconciler(t) \/ Ask(t) \/ Receive(t) \/ SnapshotFails(t)
        PROVE  UNCHANGED <<older, table_read, reading>>
    BY <1>2 DEF LockReconciler, Ask, Receive, SnapshotFails, trackVars
  <1>3. ASSUME NEW t \in Threads, ApplySnapshot(t)
        PROVE  /\ UNCHANGED <<older, table_read>> /\ reading' = reading \union {t}
    BY <1>3 DEF ApplySnapshot, Tracker!BeginRead
  <1>4. ASSUME NEW t \in Threads, ApplyTable(t) \/ TableFails(t)
        PROVE  /\ older' = older \ {t} /\ reading' = reading \ {t}
               /\ table_read' => table_read \/ (ApplyTable(t) /\ t \notin older)
    <2>1. older' = older \ {t} /\ reading' = reading \ {t}
      BY <1>4 DEF ApplyTable, TableFails, Tracker!ApplyTable, Tracker!ReadFails,
                  Tracker!EndRead
    <2>2. ApplyTable(t) /\ table_read' => t \notin older
      BY DEF ApplyTable
    <2>3. TableFails(t) => table_read' = table_read
      BY DEF TableFails
    <2> QED
      BY <1>4, <2>1, <2>2, <2>3
  <1>5. ASSUME UNCHANGED <<older, table_read, reading>>
        PROVE  /\ older' = older \intersect reading'
               /\ reading' = reading
               /\ table_read' => table_read
    <2>1. table_read' => table_read
      BY <1>5
    <2> QED
      BY <1>5, <2>1 DEF SyncType
  <1>6. ASSUME NEW t \in Threads, ResyncStep(t)
        PROVE  /\ older' = older \intersect reading'
               /\ \A u \in reading' : u \in reading \/ ApplySnapshot(u)
               /\ table_read' => table_read \/ \E u \in Threads : ApplyTable(u) /\ u \notin older
    <2>1. CASE LockReconciler(t) \/ Ask(t) \/ Receive(t) \/ SnapshotFails(t)
      BY <1>2, <1>5, <2>1
    <2>2. CASE ApplySnapshot(t)
      <3>1. table_read' => table_read
        BY <1>3, <2>2
      <3> QED
        BY <1>3, <2>2, <3>1 DEF SyncType
    <2>3. CASE ApplyTable(t) \/ TableFails(t)
      BY <1>4, <2>3 DEF SyncType
    <2> QED
      BY <1>6, <2>1, <2>2, <2>3 DEF ResyncStep
  <1> QED
    BY <1>1, <1>6 DEF Next, Realtime

\* A reply to a read of the zones stays as true as the news and the numbers make it.
LEMMA SnapshotStep == ASSUME PictureInv, [Next]_vars PROVE SnapshotIsFresh'
  <1> USE DEF PictureInv
  <1> SUFFICES ASSUME line' = "live", NEW t \in Threads,
                      stage'[t] = "zones", reply'[t] # NoReply,
                      t = "realtime" \/ ZonesRead',
                      NEW z \in Zones, Quiet(<<"input", z>>)'
               PROVE  reply'[t][z] = input'[z] \/ last_event_seq'[z] > watermark'
    BY DEF SnapshotIsFresh
  <1> DEFINE k == <<"input", z>>
  <1>1. k \in Subjects /\ k[1] # "arm" /\ k[2] = z
    BY DEF Subjects
  <1>2. stage[t] = "zones" /\ (Ask(t) \/ reply'[t] = reply[t]) /\ watermark' = watermark
    BY ReadWriters
  <1>3. CASE Attach
    BY <1>3 DEF Attach, ZonesRead, SyncType, Threads
  <1>4. CASE Ask(t)
    BY <1>2, <1>4 DEF Ask, Answers, SyncType, hubVars
  <1>5. CASE ~Attach /\ reply'[t] = reply[t]
    <2>1. line = "live" /\ (ZonesRead' => ZonesRead \/ ApplySnapshot("realtime"))
      BY <1>5, OwnReads
    <2>2. ~ApplySnapshot("realtime")
      <3>1. ApplySnapshot("realtime") => t = "realtime" /\ stage'["realtime"] = "table"
        BY <1>2 DEF ApplySnapshot, Moves, SyncType, Threads
      <3> QED
        BY <3>1
    <2>3. StaysQuiet(k) \/ HandSays(k)
      BY <1>1, <1>5, NewsStep
    <2>4. CASE StaysQuiet(k)
      <3>1. Quiet(k) /\ input'[z] = input[z]
        BY <1>1, <2>4 DEF StaysQuiet, Truth
      <3>2. reply[t][z] = input[z] \/ last_event_seq[z] > watermark
        BY <1>2, <1>5, <2>1, <2>2, <3>1 DEF SnapshotIsFresh
      <3>3. watermark \in Nat
        BY DEF Engine!TypeOK
      <3> QED
        BY <1>2, <1>5, <3>1, <3>2, <3>3, NumbersGrow
    <2>5. CASE HandSays(k)
      BY <1>2, <2>5, InputApplied DEF Engine!TypeOK
    <2> QED
      BY <2>3, <2>4, <2>5
  <1> QED
    BY <1>2, <1>3, <1>4, <1>5

\* And so does a reply to a read of the modes.
LEMMA TableStep == ASSUME PictureInv, [Next]_vars PROVE TableIsFresh'
  <1> USE DEF PictureInv
  <1> SUFFICES ASSUME line' = "live", NEW t \in Threads,
                      stage'[t] = "table", reply'[t] # NoReply, t \notin older',
                      NEW a \in Areas, Quiet(<<"arm", a>>)'
               PROVE  reply'[t][a] = mode'[a] \/ last_mode_seq'[a] > table_watermark'[t]
    BY DEF TableIsFresh
  <1> DEFINE k == <<"arm", a>>
  <1>1. k \in Subjects /\ k[1] = "arm" /\ k[2] = a
    BY DEF Subjects
  <1>2. /\ stage[t] = "table" /\ (Ask(t) \/ reply'[t] = reply[t])
        /\ table_watermark'[t] = table_watermark[t]
    BY ReadWriters
  <1>3. CASE Attach
    BY <1>2, <1>3 DEF Attach, SyncType, Threads
  <1>4. CASE Ask(t)
    BY <1>2, <1>4 DEF Ask, Answers, SyncType, hubVars
  <1>5. CASE ~Attach /\ reply'[t] = reply[t]
    <2>1. line = "live"
      BY <1>5, OwnReads
    <2>2. t \notin older
      <3>1. SyncType'
        BY SyncStep
      <3> QED
        BY <1>5, <3>1, TableReads DEF SyncType
    <2>3. StaysQuiet(k) \/ HandSays(k)
      BY <1>1, <1>5, NewsStep
    <2>4. CASE StaysQuiet(k)
      <3>1. Quiet(k) /\ mode'[a] = mode[a]
        BY <1>1, <2>4 DEF StaysQuiet, Truth
      <3>2. reply[t][a] = mode[a] \/ last_mode_seq[a] > table_watermark[t]
        BY <1>2, <1>5, <2>1, <2>2, <3>1 DEF TableIsFresh
      <3>3. table_watermark[t] \in Nat
        BY DEF Tracker!TypeOK
      <3> QED
        BY <1>2, <1>5, <3>1, <3>2, <3>3, NumbersGrow
    <2>5. CASE HandSays(k)
      <3>1. mode_sequence \in Nat /\ table_watermark[t] \in 0..mode_sequence
        BY DEF Tracker!TypeOK
      <3> QED
        BY <1>2, <2>5, <3>1, ModeApplied
    <2> QED
      BY <2>3, <2>4, <2>5
  <1> QED
    BY <1>2, <1>3, <1>4, <1>5

\* What is shown of an input without news is what the hub has.
LEMMA InputsStep == ASSUME PictureInv, [Next]_vars PROVE InputsAreShown'
  <1> USE DEF PictureInv
  <1> SUFFICES ASSUME line' = "live", ZonesRead', NEW z \in Zones, Quiet(<<"input", z>>)'
               PROVE  active'[z] = input'[z]
    BY DEF InputsAreShown
  <1> DEFINE k == <<"input", z>>
  <1>1. k \in Subjects /\ k[1] # "arm" /\ k[2] = z
    BY DEF Subjects
  <1>2. ~Attach
    BY DEF Attach, ZonesRead, SyncType, Threads
  <1>3. line = "live" /\ (ZonesRead \/ ApplySnapshot("realtime"))
    BY <1>2, OwnReads
  <1>4. StaysQuiet(k) \/ HandSays(k)
    BY <1>1, <1>2, NewsStep
  <1>5. CASE HandSays(k)
    BY <1>5, InputApplied
  <1>6. CASE StaysQuiet(k) /\ \E t \in Threads : ApplySnapshot(t)
    <2>1. PICK t \in Threads : ApplySnapshot(t)
      BY <1>6
    <2>2. Quiet(k) /\ input'[z] = input[z]
      BY <1>1, <1>6 DEF StaysQuiet, Truth
    <2>3. /\ stage[t] = "zones" /\ reply[t] # NoReply
          /\ active'[z] = IF last_event_seq[z] <= watermark THEN reply[t][z] ELSE active[z]
      BY <2>1 DEF ApplySnapshot, Uses, Engine!ApplySnapshot, Engine!Accepts
    <2>4. t = "realtime" \/ ZonesRead
      <3>1. ApplySnapshot("realtime") => t = "realtime"
        BY <2>3 DEF ApplySnapshot, SyncType, Threads
      <3> QED
        BY <1>3, <3>1
    <2>5. reply[t][z] = input[z] \/ last_event_seq[z] > watermark
      BY <1>3, <2>2, <2>3, <2>4 DEF SnapshotIsFresh
    <2>6. watermark \in Nat /\ last_event_seq[z] \in Nat
      BY NumbersGrow DEF Engine!TypeOK
    <2>7. CASE ZonesRead
      BY <1>3, <2>2, <2>3, <2>5, <2>6, <2>7 DEF InputsAreShown
    <2>8. CASE t = "realtime"
      <3>1. rt = "resync"
        BY <2>3, <2>8 DEF SyncType
      <3>2. last_event_seq[z] <= watermark
        BY <2>3, <2>8, <3>1 DEF NothingHeard
      <3> QED
        BY <2>2, <2>3, <2>5, <2>6, <3>2
    <2> QED
      BY <2>4, <2>7, <2>8
  <1>7. CASE StaysQuiet(k) /\ ~\E t \in Threads : ApplySnapshot(t)
    <2>1. Quiet(k) /\ input'[z] = input[z] /\ ZonesRead
      BY <1>1, <1>3, <1>7 DEF StaysQuiet, Truth, Threads
    <2>2. active[z] = input[z]
      BY <1>3, <2>1 DEF InputsAreShown
    <2>3. active'[z] = active[z]
      <3>1. CASE Applies
        <4>1. PICK e : in_hand = <<e>>
          BY <3>1, ApplyKeeps DEF Applies
        <4>2. Subject(e) # k
          <5>1. Subject(in_hand[1]) = k => 1 \in InHand(k)
            BY <4>1 DEF InHand
          <5> QED
            BY <2>1, <4>1, <5>1 DEF Quiet
        <4>3. Engine!ApplyEvent
          BY <3>1 DEF Applies, ApplyZoneEvent, ApplyArmEvent
        <4>4. active' = active \/ Engine!ShowInput(e)
          BY <4>1, <4>3 DEF Engine!ApplyEvent, Engine!HoldMotion, Engine!LeaveToTracker,
                            Engine!ApplySensorFault, Engine!stateVars
        <4>5. Engine!ShowInput(e) => e.zone # z /\ \E v : active' = [active EXCEPT ![e.zone] = v]
          BY <4>2 DEF Engine!ShowInput, Subject
        <4> QED
          BY <4>4, <4>5 DEF Engine!TypeOK
      <3>2. CASE ~Applies
        BY <1>7, <3>2, PictureWriters
      <3> QED
        BY <3>1, <3>2
    <2> QED
      BY <2>1, <2>2, <2>3
  <1> QED
    BY <1>4, <1>5, <1>6, <1>7

\* An area without news is none the processor applies an event of.
LEMMA QuietIsLeftAlone ==
  ASSUME Tracker!TypeOK, Applies, NEW a \in Areas, Quiet(<<"arm", a>>)
  PROVE  raw_mode'[a] = raw_mode[a] /\ last_mode_seq'[a] = last_mode_seq[a]
  <1>1. CASE ApplyZoneEvent
    BY <1>1 DEF ApplyZoneEvent, trackVars
  <1>2. CASE ApplyArmEvent
    <2>1. PICK e : in_hand = <<e>>
      BY <1>2, ApplyKeeps
    <2>2. Subject(e) # <<"arm", a>>
      <3>1. Subject(in_hand[1]) = <<"arm", a>> => 1 \in InHand(<<"arm", a>>)
        BY <2>1 DEF InHand
      <3> QED
        BY <2>1, <3>1 DEF Quiet
    <2>3. /\ e.code = "arm"
          /\ raw_mode' = [raw_mode EXCEPT ![e.event[1]] = e.event[2]]
          /\ last_mode_seq' = [last_mode_seq EXCEPT ![e.event[1]] = mode_sequence + 1]
      BY <1>2, <2>1 DEF ApplyArmEvent, Tracker!AreaArmModeChange
    <2>4. e.event[1] # a
      BY <2>2, <2>3 DEF Subject
    <2> QED
      BY <2>3, <2>4 DEF Tracker!TypeOK
  <1> QED
    BY <1>1, <1>2 DEF Applies

\* A table that was read on this connection leaves an area as it is or shows it as
\* the hub has it; one that is older leaves alone what was heard since a later read
\* began.
LEMMA TableWrites ==
  ASSUME PictureInv, line = "live", NEW u \in Threads, ApplyTable(u),
         NEW a \in Areas, Quiet(<<"arm", a>>)
  PROVE  /\ u \notin older =>
              \/ raw_mode'[a] = mode[a]
              \/ raw_mode'[a] = raw_mode[a] /\ last_mode_seq[a] > table_watermark[u]
         /\ \A t \in reading \ older :
              u \in older /\ last_mode_seq[a] > table_watermark[t] => raw_mode'[a] = raw_mode[a]
  <1> USE DEF PictureInv
  <1>1. /\ stage[u] = "table" /\ reply[u] # NoReply
        /\ raw_mode'[a] =
             IF reply[u][a] # NoMode /\ last_mode_seq[a] <= table_watermark[u]
             THEN reply[u][a] ELSE raw_mode[a]
    BY DEF ApplyTable, Uses, Tracker!ApplyTable, Tracker!Usable
  <1>2. /\ last_mode_seq[a] \in Nat /\ mode[a] # NoMode
        /\ \A t \in Threads : table_watermark[t] \in Nat
    BY DEF Tracker!TypeOK, OwnType
  <1>3. ASSUME u \notin older
        PROVE  reply[u][a] = mode[a] \/ last_mode_seq[a] > table_watermark[u]
    BY <1>1, <1>3 DEF TableIsFresh
  <1>4. ASSUME NEW t \in reading \ older, u \in older,
               last_mode_seq[a] > table_watermark[t]
        PROVE  last_mode_seq[a] > table_watermark[u]
    <2>1. table_watermark[u] <= table_watermark[t] /\ t \in Threads
      BY <1>4 DEF OlderIsBehind, SyncType
    <2> QED
      BY <1>2, <1>4, <2>1
  <1>5. last_mode_seq[a] > table_watermark[u] => raw_mode'[a] = raw_mode[a]
    BY <1>1, <1>2
  <1>6. u \notin older =>
          \/ raw_mode'[a] = mode[a]
          \/ raw_mode'[a] = raw_mode[a] /\ last_mode_seq[a] > table_watermark[u]
    BY <1>1, <1>2, <1>3
  <1> QED
    BY <1>4, <1>5, <1>6

\* A read that began earlier has no higher watermark.
LEMMA OlderStep == ASSUME PictureInv, [Next]_vars PROVE OlderIsBehind'
  <1> USE DEF PictureInv
  <1>1. CASE Attach
    <2>1. older' = reading /\ reading' = reading
      BY <1>1 DEF Attach, Tracker!Invalidate, Tracker!readVars
    <2> QED
      BY <2>1 DEF OlderIsBehind
  <1>2. CASE ~Attach
    <2> SUFFICES ASSUME NEW u \in older', NEW t \in reading' \ older'
                 PROVE  table_watermark'[u] <= table_watermark'[t]
      BY DEF OlderIsBehind
    <2>1. /\ u \in older /\ u \in reading' /\ u \in reading /\ t \notin older
          /\ t \in reading \/ ApplySnapshot(t)
      BY <1>2, TableReads DEF SyncType
    <2>2. u \in Threads /\ t \in Threads /\ stage[u] = "table" /\ stage'[u] = "table"
          /\ stage'[t] = "table" /\ (t \in reading => stage[t] = "table")
      <3>1. SyncType'
        BY SyncStep
      <3> QED
        BY <2>1, <3>1 DEF SyncType
    <2>3. table_watermark'[u] = table_watermark[u] /\ table_watermark[u] \in 0..mode_sequence
      BY <2>2, ReadWriters DEF Tracker!TypeOK
    <2>4. CASE t \in reading
      <3>1. table_watermark'[t] = table_watermark[t]
        BY <2>2, <2>4, ReadWriters
      <3> QED
        BY <2>1, <2>3, <2>4, <3>1 DEF OlderIsBehind
    <2>5. CASE ApplySnapshot(t)
      <3>1. table_watermark'[t] = mode_sequence /\ mode_sequence \in Nat
        BY <2>2, <2>5 DEF ApplySnapshot, Tracker!BeginRead, Tracker!TypeOK
      <3> QED
        BY <2>3, <3>1
    <2> QED
      BY <2>1, <2>4, <2>5
  <1> QED
    BY <1>1, <1>2

\* What was heard of an area since a read began on this connection stays shown.
LEMMA HeardShownStep == ASSUME PictureInv, [Next]_vars PROVE HeardIsShown'
  <1> USE DEF PictureInv
  <1> SUFFICES ASSUME line' = "live", NEW t \in reading' \ older', NEW a \in Areas,
                      Quiet(<<"arm", a>>)', last_mode_seq'[a] > table_watermark'[t]
               PROVE  raw_mode'[a] = mode'[a]
    BY DEF HeardIsShown
  <1> DEFINE k == <<"arm", a>>
  <1>1. k \in Subjects /\ k[1] = "arm" /\ k[2] = a
    BY DEF Subjects
  <1>2. ~Attach
    <2>1. Attach => older' = reading /\ reading' = reading
      BY DEF Attach, Tracker!Invalidate, Tracker!readVars
    <2> QED
      BY <2>1
  <1>3. line = "live" /\ t \notin older /\ (t \in reading \/ ApplySnapshot(t))
    BY <1>2, OwnReads, TableReads
  <1>4. StaysQuiet(k) \/ HandSays(k)
    BY <1>1, <1>2, NewsStep
  <1>5. CASE HandSays(k)
    BY <1>5, ModeApplied
  <1>6. CASE StaysQuiet(k)
    <2>1. Quiet(k) /\ mode'[a] = mode[a]
      BY <1>1, <1>6 DEF StaysQuiet, Truth
    <2>2. last_mode_seq'[a] = last_mode_seq[a]
      BY <2>1, QuietIsLeftAlone, PictureWriters
    <2>3. t \in Threads /\ stage'[t] = "table"
      <3>1. SyncType'
        BY SyncStep
      <3> QED
        BY <3>1 DEF SyncType
    <2>4. t \in reading
      <3>1. ~ApplySnapshot(t)
        <4>1. ApplySnapshot(t) => table_watermark'[t] = mode_sequence
          BY <2>3 DEF ApplySnapshot, Tracker!BeginRead, Tracker!TypeOK
        <4>2. last_mode_seq[a] \in 0..mode_sequence /\ mode_sequence \in Nat
          BY DEF Tracker!TypeOK
        <4> QED
          BY <2>2, <4>1, <4>2
      <3> QED
        BY <1>3, <3>1
    <2>5. table_watermark'[t] = table_watermark[t]
      BY <2>3, <2>4, ReadWriters DEF SyncType
    <2>6. raw_mode[a] = mode[a]
      BY <1>3, <2>1, <2>2, <2>4, <2>5 DEF HeardIsShown
    <2>7. CASE \E u \in Threads : ApplyTable(u)
      <3>1. PICK u \in Threads : ApplyTable(u)
        BY <2>7
      <3>2. \/ u \notin older /\ (raw_mode'[a] = mode[a] \/ raw_mode'[a] = raw_mode[a])
            \/ raw_mode'[a] = raw_mode[a]
        BY <1>3, <2>1, <2>2, <2>4, <2>5, <3>1, TableWrites
      <3> QED
        BY <2>1, <2>6, <3>2
    <2>8. CASE ~\E u \in Threads : ApplyTable(u)
      BY <1>2, <2>1, <2>6, <2>8, QuietIsLeftAlone, PictureWriters
    <2> QED
      BY <2>7, <2>8
  <1> QED
    BY <1>4, <1>5, <1>6

\* What is shown of a mode without news is what the hub has.
LEMMA ModesStep == ASSUME PictureInv, [Next]_vars PROVE ModesAreShown'
  <1> USE DEF PictureInv
  <1> SUFFICES ASSUME line' = "live", table_read', NEW a \in Areas, Quiet(<<"arm", a>>)'
               PROVE  raw_mode'[a] = mode'[a]
    BY DEF ModesAreShown
  <1> DEFINE k == <<"arm", a>>
  <1>1. k \in Subjects /\ k[1] = "arm" /\ k[2] = a
    BY DEF Subjects
  <1>2. ~Attach
    BY DEF Attach
  <1>3. line = "live" /\ (table_read \/ \E t \in Threads : ApplyTable(t) /\ t \notin older)
    BY <1>2, OwnReads, TableReads
  <1>4. StaysQuiet(k) \/ HandSays(k)
    BY <1>1, <1>2, NewsStep
  <1>5. CASE HandSays(k)
    BY <1>5, ModeApplied
  <1>6. CASE StaysQuiet(k) /\ \E t \in Threads : ApplyTable(t)
    <2>1. PICK t \in Threads : ApplyTable(t)
      BY <1>6
    <2>2. Quiet(k) /\ mode'[a] = mode[a]
      BY <1>1, <1>6 DEF StaysQuiet, Truth
    <2>3. t \notin older
      BY <2>1 DEF ApplyTable
    <2>4. t \in reading
      BY <2>1 DEF ApplyTable, SyncType
    <2>5. \/ raw_mode'[a] = mode[a]
          \/ raw_mode'[a] = raw_mode[a] /\ last_mode_seq[a] > table_watermark[t]
      BY <1>3, <2>1, <2>2, <2>3, TableWrites
    <2>6. last_mode_seq[a] > table_watermark[t] => raw_mode[a] = mode[a]
      BY <1>3, <2>2, <2>3, <2>4 DEF HeardIsShown
    <2> QED
      BY <2>2, <2>5, <2>6
  <1>7. CASE StaysQuiet(k) /\ ~\E t \in Threads : ApplyTable(t)
    <2>1. table_read
      BY <1>3, <1>7
    <2>2. Quiet(k) /\ mode'[a] = mode[a]
      BY <1>1, <1>7 DEF StaysQuiet, Truth
    <2>3. raw_mode[a] = mode[a]
      BY <1>3, <2>1, <2>2 DEF ModesAreShown
    <2>4. raw_mode'[a] = raw_mode[a]
      BY <1>2, <1>7, <2>2, QuietIsLeftAlone, PictureWriters
    <2> QED
      BY <2>2, <2>3, <2>4
  <1> QED
    BY <1>4, <1>5, <1>6, <1>7

\* While the connection lives, its last news are true.
LEMMA LastNewsStep == ASSUME PictureInv, [Next]_vars PROVE LastNewsIsTrue'
  <1>1. CASE Attach
    BY <1>1, AttachIsQuiet DEF PictureInv, LastNewsIsTrue, Subjects
  <1>2. CASE ~Attach
    <2>1. ASSUME line' = "live", NEW k \in Subjects PROVE NewsIsTrue(k)'
      BY <1>2, <2>1, NewsStep
    <2> QED
      BY <2>1 DEF LastNewsIsTrue, Subjects
  <1> QED
    BY <1>1, <1>2

\* Every step keeps the invariant.
LEMMA InvStep == ASSUME PictureInv, [Next]_vars PROVE PictureInv'
  <1>1. Engine!TypeOK' /\ Tracker!TypeOK'
    BY PartsType DEF PictureInv
  <1>2. OwnType' /\ SyncType' /\ QueueIsPast'
    BY OwnStep, SyncStep, PastStep DEF PictureInv
  <1>3. LastNewsIsTrue' /\ NothingHeard' /\ SnapshotIsFresh' /\ TableIsFresh'
    BY LastNewsStep, HeardStep, SnapshotStep, TableStep
  <1>4. InputsAreShown' /\ ModesAreShown' /\ OlderIsBehind' /\ HeardIsShown'
    BY InputsStep, ModesStep, OlderStep, HeardShownStep
  <1> QED
    BY <1>1, <1>2, <1>3, <1>4 DEF PictureInv

\* The invariant holds in every state of every behaviour.
LEMMA Inductive == Spec => []PictureInv
  BY InitInv, InvStep, PTL DEF Spec

-----------------------------------------------------------------------------
(* What follows for the picture.                                           *)

\* The engine under the two resyncs and a real connection is an engine: what is
\* proved of StateEngine, for any events and any replies, holds here.
THEOREM PictureKeepsEngine == Spec => Engine!Spec
  <1>1. Init => Engine!Init
    BY DEF Init
  <1>2. PictureInv /\ [Next]_vars => [Engine!Next]_(Engine!vars)
    BY EngineStep DEF PictureInv
  <1> QED
    BY <1>1, <1>2, Inductive, PTL DEF Spec, Engine!Spec

\* And the tracker is a tracker: its reads by two threads that overlap, and its
\* forgetting on a reconnect, are those ArmingTracker allows.
THEOREM PictureKeepsTracker == Spec => Tracker!Spec
  <1>1. Init => Tracker!Init
    BY DEF Init
  <1>2. PictureInv /\ [Next]_vars => [Tracker!Next]_(Tracker!vars)
    BY TrackerStep DEF PictureInv
  <1> QED
    BY <1>1, <1>2, Inductive, PTL DEF Spec, Tracker!Spec

\* The composition keeps its shape: one thread at a time is at the snapshot session,
\* and the engine's resync and the tracker's reads are those of the threads.
THEOREM TypeCorrect == Spec => []TypeOK
  <1>1. PictureInv => TypeOK
    BY DEF PictureInv, OwnType, SyncType, TypeOK
  <1> QED
    BY Inductive, <1>1, PTL

\* A connection that is up and lives, with no event on its way, has nothing of any
\* subject on its way.
LEMMA LiveIsQuiet ==
  ASSUME LiveAndQuiet, NEW k
  PROVE  line = "live" /\ rt = "up" /\ Quiet(k)
  BY DEF LiveAndQuiet, Quiet, InStream, InQueue, Queued, InHand

\* "Stale state is never shown as live", for any inputs, connections and changes:
\* once no news is on its way, the inputs shown are the hub's.
THEOREM InputsAreTrue == Spec => []LiveInputsAreTrue
  <1>1. PictureInv => LiveInputsAreTrue
    <2> SUFFICES ASSUME PictureInv, LiveAndQuiet PROVE active = input
      BY DEF LiveInputsAreTrue
    <2>1. \A z \in Zones : active[z] = input[z]
      BY LiveIsQuiet DEF PictureInv, InputsAreShown, ZonesRead
    <2>2. active \in [Zones -> {"unknown", "on", "off"}] /\ input \in [Zones -> Inputs]
      BY DEF PictureInv, Engine!TypeOK, OwnType
    <2> QED
      BY <2>1, <2>2
  <1> QED
    BY Inductive, <1>1, PTL

\* The same for the arm modes, whatever tables of earlier connections came in between
\* the receipt of a table and its use, if the last one applied was read on this
\* connection.
THEOREM ModesAreTrue == Spec => []LiveModesAreTrue
  <1>1. PictureInv => LiveModesAreTrue
    <2> SUFFICES ASSUME PictureInv, LiveAndQuiet, table_read PROVE raw_mode = mode
      BY DEF LiveModesAreTrue
    <2>1. \A a \in Areas : raw_mode[a] = mode[a]
      BY LiveIsQuiet DEF PictureInv, ModesAreShown
    <2>2. raw_mode \in [Areas -> Modes \union {NoMode}] /\ mode \in [Areas -> Modes]
      BY DEF PictureInv, Tracker!TypeOK, Tracker!MaybeMode, OwnType
    <2> QED
      BY <2>1, <2>2
  <1> QED
    BY Inductive, <1>1, PTL

=============================================================================
