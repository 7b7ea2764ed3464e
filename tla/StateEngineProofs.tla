------------------------- MODULE StateEngineProofs -------------------------
(***************************************************************************)
(* Proofs about StateEngine, for any zones and any bounds.                 *)
(*                                                                         *)
(* Both action properties rest on sequence numbers being given once: a     *)
(* zone heard during a resync has a number above the resync's watermark,   *)
(* and a hold timer that was overtaken carries a number below that of its  *)
(* zone's last event, however late the timer is.                           *)
(***************************************************************************)
EXTENDS StateEngine, SequenceTheorems, TLAPS

\* A zone with an event since the resync began has a number above its watermark.
HeardIsNewer == \A z \in heard : last_event_seq[z] > watermark

\* The zone of a timer that was overtaken has a later event than the timer's.
SupersededIsOlder == \A t \in superseded : last_event_seq[t[1]] > t[2]

IInv == TypeOK /\ HeardIsNewer /\ SupersededIsOlder

USE EngineAssumption

-----------------------------------------------------------------------------
(* The shape of the engine's state.                                        *)

\* The engine starts in the invariant.
LEMMA InitInv == Init => IInv
  <1> SUFFICES ASSUME Init PROVE IInv
    OBVIOUS
  <1>1. event_queue \in Seq(EventType) /\ Len(event_queue) = 0
    BY EmptySeq DEF Init
  <1>2. in_hand \in Seq(EventType) /\ Len(in_hand) = 0
    BY EmptySeq DEF Init
  <1>3. resyncing \in BOOLEAN /\ stopped \in BOOLEAN
    BY DEF Init
  <1>4. TypeOK
    BY <1>1, <1>2, <1>3 DEF Init, TypeOK
  <1>5. HeardIsNewer /\ SupersededIsOlder
    BY DEF Init, HeardIsNewer, SupersededIsOlder
  <1> QED
    BY <1>4, <1>5 DEF IInv

\* The event in hand is one the realtime thread may have queued.
LEMMA InHandIsEvent ==
  ASSUME TypeOK, NEW e, in_hand = <<e>>
  PROVE  /\ e \in EventType
         /\ e.code \in Signals => e.zone \in Zones /\ e.action \in {"Start", "Stop"}
  <1>1. e = in_hand[1] /\ Len(in_hand) = 1
    OBVIOUS
  <1>2. e \in EventType
    BY <1>1, ElementOfSeq DEF TypeOK
  <1> QED
    BY <1>2 DEF EventType, Signals

\* What the threads queue keeps the queue within its bound.
LEMMA EnqueueType ==
  ASSUME TypeOK, NEW e \in EventType, Enqueue(e)
  PROVE  TypeOK'
  <1>1. event_queue' \in Seq(EventType) /\ Len(event_queue') = Len(event_queue) + 1
    BY AppendProperties DEF Enqueue, TypeOK
  <1>2. Len(in_hand) \in Nat /\ Len(event_queue) \in Nat
    BY LenProperties DEF TypeOK
  <1>3. Len(event_queue') + Len(in_hand') <= MaxQueue
    BY <1>1, <1>2 DEF Enqueue
  <1>4. resyncing' \in BOOLEAN /\ stopped' \in BOOLEAN
    BY DEF Enqueue, TypeOK, syncVars
  <1> QED
    BY <1>1, <1>3, <1>4 DEF Enqueue, TypeOK, stateVars, timerVars, syncVars, pulseVars

\* An event that is taken leaves the queue, whether it is applied or dropped.
LEMMA TakeType ==
  ASSUME TypeOK, TakeEvent
  PROVE  TypeOK'
  <1>1. /\ event_queue' \in Seq(EventType) /\ Len(event_queue') = Len(event_queue) - 1
        /\ Head(event_queue) \in EventType
    BY HeadTailProperties DEF TakeEvent, TypeOK
  <1>2. Len(event_queue) \in Nat /\ Len(in_hand) = 0
    <2>1. Len(event_queue) \in Nat
      BY LenProperties DEF TypeOK
    <2> QED
      BY <2>1 DEF TakeEvent
  <1>3. in_hand' \in Seq(EventType) /\ Len(in_hand') \in {0, 1}
    <2>1. /\ <<Head(event_queue)>> \in Seq(EventType) /\ Len(<<Head(event_queue)>>) = 1
          /\ <<>> \in Seq(EventType) /\ Len(<<>>) = 0
      BY <1>1
    <2> QED
      BY <2>1 DEF TakeEvent
  <1>4. Len(event_queue') + Len(in_hand') <= MaxQueue /\ Len(in_hand') <= 1
    <2>1. Len(event_queue) + Len(in_hand) <= MaxQueue
      BY DEF TypeOK
    <2>2. Len(event_queue) <= MaxQueue /\ Len(event_queue') = Len(event_queue) - 1
      BY <1>1, <1>2, <2>1
    <2>3. CASE Len(in_hand') = 0
      BY <1>2, <2>2, <2>3
    <2>4. CASE Len(in_hand') = 1
      BY <1>2, <2>2, <2>4
    <2> QED
      BY <1>3, <2>3, <2>4
  <1>5. resyncing' \in BOOLEAN /\ stopped' \in BOOLEAN
    BY DEF TakeEvent, TypeOK, syncVars
  <1> QED
    BY <1>1, <1>3, <1>4, <1>5 DEF TakeEvent, TypeOK, stateVars, timerVars, syncVars, pulseVars

\* The handler of an event leaves nothing in hand and the queue as it was.
LEMMA AppliesType ==
  ASSUME TypeOK, NEW e, Applies(e)
  PROVE  /\ event_queue' \in Seq(EventType) /\ Len(event_queue') + Len(in_hand') <= MaxQueue
         /\ in_hand' \in Seq(EventType) /\ Len(in_hand') <= 1
         /\ current_generation' \in 0..MaxGenerations
         /\ resyncing' \in BOOLEAN /\ stopped' \in BOOLEAN
         /\ watermark' = watermark
  <1>1. Len(in_hand) = 1 /\ Len(in_hand') = 0 /\ in_hand' \in Seq(EventType)
    BY EmptySeq DEF Applies
  <1>2. event_queue' = event_queue /\ current_generation' = current_generation
    BY DEF Applies
  <1>3. Len(event_queue) \in Nat
    BY LenProperties DEF TypeOK
  <1>4. Len(event_queue) + Len(in_hand) <= MaxQueue /\ event_queue \in Seq(EventType)
    BY DEF TypeOK
  <1>5. Len(event_queue') + Len(in_hand') <= MaxQueue
    BY <1>1, <1>2, <1>3, <1>4
  <1>6. resyncing' \in BOOLEAN /\ stopped' \in BOOLEAN
    BY DEF Applies, TypeOK, syncVars
  <1> QED
    BY <1>1, <1>2, <1>4, <1>5, <1>6 DEF Applies, TypeOK, syncVars

\* A new event's number is above all numbers given before.
LEMMA NextSeqType ==
  ASSUME TypeOK, NEW z \in Zones,
         NEW action \in {"Start", "Stop", "WPAN-Start", "WPAN-Stop"}, NextSeq(z, action)
  PROVE  /\ event_sequence' \in 0..MaxEvents /\ event_sequence' = event_sequence + 1
         /\ last_event_seq' \in [Zones -> 0..event_sequence']
         /\ last_action' \in [Zones -> {"none", "Start", "Stop", "WPAN-Start", "WPAN-Stop"}]
         /\ heard' \subseteq Zones
  BY DEF NextSeq, TypeOK

\* No handler breaks the shape of the state.
LEMMA ApplyType ==
  ASSUME TypeOK, NEW e, in_hand = <<e>>,
         HoldMotion(e) \/ ShowInput(e) \/ LeaveToTracker(e) \/ ApplySensorFault(e)
  PROVE  TypeOK'
  <1>1. e \in EventType /\ (e.code \in Signals => e.zone \in Zones /\ e.action \in {"Start", "Stop"})
    BY InHandIsEvent
  <1>2. Applies(e)
    BY DEF HoldMotion, ShowInput, LeaveToTracker, ApplySensorFault
  <1>3. /\ event_queue' \in Seq(EventType) /\ Len(event_queue') + Len(in_hand') <= MaxQueue
        /\ in_hand' \in Seq(EventType) /\ Len(in_hand') <= 1
        /\ current_generation' \in 0..MaxGenerations
        /\ resyncing' \in BOOLEAN /\ stopped' \in BOOLEAN
        /\ watermark' = watermark
    BY <1>2, AppliesType
  <1>4. ASSUME NEW z \in Zones, NEW action \in {"Start", "Stop"}, NextSeq(z, action),
               active' \in [Zones -> {"unknown", "on", "off"}], sensor_fault' = sensor_fault,
               off_timer' \in [Zones -> 0..event_sequence'],
               sleeping' \subseteq MotionZones \X (1..event_sequence'), firing' = firing,
               superseded' \subseteq sleeping' \union firing', held' \subseteq MotionZones
        PROVE  TypeOK'
    <2>1. /\ event_sequence' \in 0..MaxEvents /\ event_sequence' = event_sequence + 1
          /\ last_event_seq' \in [Zones -> 0..event_sequence']
          /\ last_action' \in [Zones -> {"none", "Start", "Stop", "WPAN-Start", "WPAN-Stop"}]
          /\ heard' \subseteq Zones
      BY <1>4, NextSeqType
    <2>2. /\ watermark' \in 0..event_sequence'
          /\ firing' \subseteq MotionZones \X (1..event_sequence')
          /\ sensor_fault' \in [Zones -> {"unknown", "none", "fault"}]
      BY <1>3, <1>4, <2>1 DEF TypeOK
    <2> QED
      BY <1>3, <1>4, <2>1, <2>2 DEF TypeOK
  <1>5. event_sequence \in Nat /\ sleeping \subseteq MotionZones \X (1..event_sequence)
    BY DEF TypeOK
  <1>6. CASE HoldMotion(e)
    <2>1. NextSeq(e.zone, "Stop") /\ e.zone \in MotionZones
      BY <1>6 DEF HoldMotion
    <2>2. event_sequence' = event_sequence + 1
      BY <2>1 DEF NextSeq
    <2>3. sleeping' \subseteq MotionZones \X (1..event_sequence')
      BY <1>5, <1>6, <2>1, <2>2 DEF HoldMotion, CancelTimer
    <2>4. off_timer' \in [Zones -> 0..event_sequence']
      BY <1>5, <1>6, <2>2 DEF HoldMotion, TypeOK
    <2>5. superseded' \subseteq sleeping' \union firing' /\ held' \subseteq MotionZones
      BY <1>6, <2>1 DEF HoldMotion, Overtaken, TypeOK
    <2>6. active' \in [Zones -> {"unknown", "on", "off"}] /\ e.zone \in Zones
      BY <1>6, <2>1 DEF HoldMotion, TypeOK
    <2> QED
      BY <1>4, <1>6, <2>1, <2>3, <2>4, <2>5, <2>6 DEF HoldMotion
  <1>7. CASE ShowInput(e)
    <2>1. NextSeq(e.zone, e.action) /\ e.zone \in Zones /\ e.action \in {"Start", "Stop"}
      BY <1>1, <1>7 DEF ShowInput, Signals
    <2>2. event_sequence' = event_sequence + 1
      BY <2>1 DEF NextSeq
    <2>3. /\ sleeping' \subseteq MotionZones \X (1..event_sequence')
          /\ off_timer' \in [Zones -> 0..event_sequence']
      BY <1>5, <1>7, <2>1, <2>2 DEF ShowInput, CancelTimer, TypeOK
    <2>4. superseded' \subseteq sleeping' \union firing' /\ held' \subseteq MotionZones
      BY <1>7 DEF ShowInput, NotHeld, Overtaken, TypeOK
    <2>5. active' \in [Zones -> {"unknown", "on", "off"}]
      BY <1>7 DEF ShowInput, TypeOK
    <2> QED
      BY <1>4, <1>7, <2>1, <2>3, <2>4, <2>5 DEF ShowInput
  <1>8. CASE LeaveToTracker(e)
    BY <1>3, <1>8 DEF LeaveToTracker, TypeOK, stateVars, timerVars, pulseVars
  <1>9. CASE ApplySensorFault(e)
    <2>1. sensor_fault' \in [Zones -> {"unknown", "none", "fault"}]
      BY <1>9 DEF ApplySensorFault, TypeOK
    <2> QED
      BY <1>3, <1>9, <2>1 DEF ApplySensorFault, TypeOK, stateVars, timerVars, pulseVars
  <1> QED
    BY <1>6, <1>7, <1>8, <1>9

\* No step breaks the shape of the engine's state.
LEMMA TypeStep == ASSUME TypeOK, [Next]_vars PROVE TypeOK'
  <1>1. ASSUME UNCHANGED queueVars
        PROVE  /\ event_queue' \in Seq(EventType) /\ Len(event_queue') + Len(in_hand') <= MaxQueue
               /\ in_hand' \in Seq(EventType) /\ Len(in_hand') <= 1
               /\ current_generation' \in 0..MaxGenerations
    BY <1>1 DEF queueVars, TypeOK
  <1>2. CASE Realtime
    <2>1. CASE BeginGeneration
      <3>1. resyncing' \in BOOLEAN /\ stopped' \in BOOLEAN
        BY <2>1 DEF BeginGeneration, TypeOK, syncVars
      <3>2. /\ sensor_fault' \in [Zones -> {"unknown", "none", "fault"}]
            /\ current_generation' \in 0..MaxGenerations
        BY <2>1 DEF BeginGeneration, TypeOK
      <3>3. UNCHANGED <<stateVars, event_queue, in_hand, timerVars, syncVars, heard, pulseVars>>
        BY <2>1 DEF BeginGeneration
      <3> QED
        BY <3>1, <3>2, <3>3 DEF TypeOK, stateVars, timerVars, syncVars, pulseVars
    <2>2. ASSUME NEW code \in Signals, NEW z \in Zones, NEW action \in {"Start", "Stop"},
                 EnqueueEvent(code, z, action)
          PROVE  TypeOK'
      <3> DEFINE e == [code |-> code, zone |-> z, action |-> action,
                       generation |-> current_generation]
      <3>1. e \in EventType
        BY DEF EventType, TypeOK
      <3>2. Enqueue(e)
        BY <2>2 DEF EnqueueEvent
      <3> QED
        BY <3>1, <3>2, EnqueueType
    <2>3. ASSUME NEW event \in ArmEvents, EnqueueArmEvent(event) PROVE TypeOK'
      <3> DEFINE e == [code |-> "arm", event |-> event, generation |-> current_generation]
      <3>1. e \in EventType
        BY DEF EventType, TypeOK
      <3>2. Enqueue(e)
        BY <2>3 DEF EnqueueArmEvent
      <3> QED
        BY <3>1, <3>2, EnqueueType
    <2> QED
      BY <1>2, <2>1, <2>2, <2>3 DEF Realtime
  <1>3. CASE TakeEvent
    BY <1>3, TakeType
  <1>4. CASE ApplyEvent
    <2>1. PICK i \in DOMAIN in_hand :
            \/ HoldMotion(in_hand[i]) \/ ShowInput(in_hand[i])
            \/ LeaveToTracker(in_hand[i]) \/ ApplySensorFault(in_hand[i])
      BY <1>4 DEF ApplyEvent
    <2>2. in_hand = <<in_hand[i]>>
      BY <2>1 DEF HoldMotion, ShowInput, LeaveToTracker, ApplySensorFault, Applies
    <2> QED
      BY <2>1, <2>2, ApplyType
  <1>5. CASE Timer
    <2>1. UNCHANGED queueVars /\ resyncing' \in BOOLEAN /\ stopped' \in BOOLEAN
      BY <1>5 DEF Timer, TimerFires, FinishMotion, TypeOK, syncVars
    <2>2. ASSUME NEW t \in sleeping, TimerFires(t[1], t[2]) PROVE TypeOK'
      <3>1. /\ sleeping' \subseteq MotionZones \X (1..event_sequence)
            /\ firing' \subseteq MotionZones \X (1..event_sequence)
        BY <2>2 DEF TimerFires, TypeOK
      <3> QED
        BY <1>1, <2>1, <2>2, <3>1 DEF TimerFires, TypeOK, stateVars, syncVars, pulseVars
    <2>3. ASSUME NEW t \in firing, FinishMotion(t[1], t[2]) PROVE TypeOK'
      <3>1. t[1] \in MotionZones /\ t[1] \in Zones
        BY DEF TypeOK
      <3>2. active' \in [Zones -> {"unknown", "on", "off"}]
        BY <2>3, <3>1 DEF FinishMotion, TypeOK
      <3>3. superseded' \subseteq sleeping' \union firing' /\ held' \subseteq MotionZones
        BY <2>3 DEF FinishMotion, TypeOK
      <3>4. off_timer' \in [Zones -> 0..event_sequence']
        BY <2>3, <3>1 DEF FinishMotion, TypeOK
      <3> QED
        BY <1>1, <2>1, <2>3, <3>2, <3>3, <3>4 DEF FinishMotion, TypeOK, syncVars
    <2> QED
      BY <1>5, <2>2, <2>3 DEF Timer
  <1>6. ASSUME NEW z \in Zones, NEW on \in BOOLEAN, ApplyWpanMotion(z, on) PROVE TypeOK'
    <2> DEFINE action == IF on THEN "WPAN-Start" ELSE "WPAN-Stop"
    <2>1. action \in {"Start", "Stop", "WPAN-Start", "WPAN-Stop"} /\ NextSeq(z, action)
      BY <1>6 DEF ApplyWpanMotion
    <2>2. /\ event_sequence' \in 0..MaxEvents /\ event_sequence' = event_sequence + 1
          /\ last_event_seq' \in [Zones -> 0..event_sequence']
          /\ last_action' \in [Zones -> {"none", "Start", "Stop", "WPAN-Start", "WPAN-Stop"}]
          /\ heard' \subseteq Zones
      BY <2>1, NextSeqType
    <2>3. UNCHANGED <<queueVars, timerVars, syncVars, sensor_fault>>
      BY <1>6 DEF ApplyWpanMotion
    <2>4. resyncing' \in BOOLEAN /\ stopped' \in BOOLEAN
      BY <1>6 DEF ApplyWpanMotion, TypeOK, syncVars
    <2>5. active' \in [Zones -> {"unknown", "on", "off"}]
      BY <1>6 DEF ApplyWpanMotion, TypeOK
    <2>6. superseded' \subseteq sleeping' \union firing' /\ held' \subseteq MotionZones
      BY <1>6 DEF ApplyWpanMotion, NotHeld, Overtaken, timerVars, TypeOK
    <2>7. /\ off_timer' \in [Zones -> 0..event_sequence']
          /\ sleeping' \subseteq MotionZones \X (1..event_sequence')
          /\ firing' \subseteq MotionZones \X (1..event_sequence')
          /\ watermark' \in 0..event_sequence'
      BY <2>2, <2>3 DEF timerVars, syncVars, TypeOK
    <2> QED
      BY <1>1, <2>2, <2>3, <2>4, <2>5, <2>6, <2>7 DEF TypeOK
  <1>7. CASE Resync
    <2>1. UNCHANGED queueVars /\ resyncing' \in BOOLEAN /\ stopped' \in BOOLEAN
      BY <1>7 DEF Resync, BeginResync, ResyncFails, ApplySnapshot, EndResync, TypeOK
    <2>2. CASE BeginResync \/ ResyncFails
      BY <1>1, <2>1, <2>2
         DEF BeginResync, ResyncFails, EndResync, TypeOK, stateVars, timerVars, pulseVars
    <2>3. ASSUME NEW states \in [Zones -> {"unknown", "on", "off"}], ApplySnapshot(states)
          PROVE  TypeOK'
      <3>1. /\ active' \in [Zones -> {"unknown", "on", "off"}]
            /\ superseded' \subseteq sleeping' \union firing' /\ held' \subseteq MotionZones
        BY <2>3 DEF ApplySnapshot, timerVars, TypeOK
      <3>2. /\ event_sequence' \in 0..MaxEvents /\ watermark' \in 0..event_sequence'
            /\ heard' \subseteq Zones
        BY <2>3 DEF ApplySnapshot, EndResync, TypeOK
      <3> QED
        BY <1>1, <2>1, <2>3, <3>1, <3>2 DEF ApplySnapshot, TypeOK, timerVars
    <2> QED
      BY <1>7, <2>2, <2>3 DEF Resync
  <1>8. CASE Stop
    <2>1. stopped' \in BOOLEAN /\ resyncing' \in BOOLEAN
      BY <1>8 DEF Stop, TypeOK, syncVars
    <2> QED
      <3>1. /\ UNCHANGED <<stateVars, sensor_fault, queueVars, firing, syncVars, heard, held>>
            /\ superseded' \subseteq sleeping' \union firing'
        BY <1>8 DEF Stop
      <3>2. sleeping' \subseteq sleeping /\ off_timer' = [z \in Zones |-> 0]
        BY <1>8 DEF Stop
      <3>3. off_timer' \in [Zones -> 0..event_sequence']
        BY <3>1, <3>2 DEF TypeOK, stateVars
      <3> QED
        BY <1>1, <2>1, <3>1, <3>2, <3>3 DEF TypeOK, stateVars, syncVars
  <1>9. CASE UNCHANGED vars
    <2>1. stopped' \in BOOLEAN /\ resyncing' \in BOOLEAN /\ UNCHANGED queueVars
      BY <1>9 DEF vars, TypeOK, syncVars
    <2> QED
      BY <1>1, <1>9, <2>1 DEF vars, TypeOK, stateVars, timerVars, syncVars, pulseVars
  <1> QED
    BY <1>2, <1>3, <1>4, <1>5, <1>6, <1>7, <1>8, <1>9 DEF Next

-----------------------------------------------------------------------------
(* What a step does to the numbers, and what they stand for.               *)

\* An event of zone z takes a number, and the timers it overtakes are of z.
GivesNumber(z) ==
  /\ \E action \in {"Start", "Stop", "WPAN-Start", "WPAN-Stop"} : NextSeq(z, action)
  /\ UNCHANGED watermark
  /\ \A t \in superseded' :
       t \in superseded \/ (t[1] = z /\ t \in sleeping \union firing)

\* No number is given, no timer is overtaken, and what was heard is kept or gone.
GivesNone ==
  /\ UNCHANGED last_event_seq
  /\ superseded' \subseteq superseded
  /\ heard' = {} \/ UNCHANGED <<heard, watermark>>

\* Every step does one or the other.
LEMMA NumbersInStep ==
  ASSUME TypeOK, [Next]_vars
  PROVE  GivesNone \/ \E z \in Zones : GivesNumber(z)
  <1> event_sequence \in Nat /\ sleeping \subseteq MotionZones \X (1..event_sequence)
    BY DEF TypeOK
  <1>1. CASE Realtime \/ TakeEvent
    BY <1>1 DEF Realtime, BeginGeneration, EnqueueEvent, EnqueueArmEvent, Enqueue, TakeEvent,
                GivesNone, stateVars, timerVars, syncVars, pulseVars
  <1>2. CASE Timer
    BY <1>2 DEF Timer, TimerFires, FinishMotion, GivesNone, stateVars, syncVars, pulseVars
  <1>3. CASE Resync \/ Stop \/ UNCHANGED vars
    BY <1>3 DEF Resync, BeginResync, ResyncFails, ApplySnapshot, EndResync, Stop, vars,
                GivesNone, stateVars, timerVars, syncVars, pulseVars
  <1>4. CASE ApplyEvent
    <2>1. PICK e : /\ in_hand = <<e>>
                   /\ HoldMotion(e) \/ ShowInput(e) \/ LeaveToTracker(e) \/ ApplySensorFault(e)
      BY <1>4 DEF ApplyEvent, HoldMotion, ShowInput, LeaveToTracker, ApplySensorFault, Applies
    <2>2. e.code \in Signals => e.zone \in Zones /\ e.action \in {"Start", "Stop"}
      BY <2>1, InHandIsEvent
    <2>3. Applies(e) /\ UNCHANGED watermark
      BY <2>1 DEF HoldMotion, ShowInput, LeaveToTracker, ApplySensorFault, Applies, syncVars
    <2>4. CASE HoldMotion(e)
      <3>1. e.zone \in Zones /\ NextSeq(e.zone, "Stop")
        BY <2>2, <2>4 DEF HoldMotion, Signals
      <3>2. GivesNumber(e.zone)
        BY <2>3, <2>4, <3>1 DEF HoldMotion, CancelTimer, Overtaken, GivesNumber
      <3> QED
        BY <3>1, <3>2
    <2>5. CASE ShowInput(e)
      <3>1. e.zone \in Zones /\ e.action \in {"Start", "Stop"} /\ NextSeq(e.zone, e.action)
        BY <2>2, <2>5 DEF ShowInput, Signals
      <3>2. sleeping' \subseteq sleeping /\ superseded' = Overtaken(e.zone, sleeping')
        BY <2>5 DEF ShowInput, CancelTimer, NotHeld
      <3> QED
        BY <2>3, <3>1, <3>2 DEF Overtaken, GivesNumber
    <2>6. CASE LeaveToTracker(e) \/ ApplySensorFault(e)
      BY <2>3, <2>6
         DEF LeaveToTracker, ApplySensorFault, GivesNone, stateVars, timerVars, pulseVars
    <2> QED
      BY <2>1, <2>4, <2>5, <2>6
  <1>5. ASSUME NEW z \in Zones, NEW on \in BOOLEAN, ApplyWpanMotion(z, on)
        PROVE  GivesNumber(z)
    BY <1>5 DEF ApplyWpanMotion, NotHeld, Overtaken, GivesNumber, timerVars, syncVars
  <1> QED
    BY <1>1, <1>2, <1>3, <1>4, <1>5 DEF Next

\* The numbers keep their meaning: what was heard is above the watermark, and a
\* timer that was overtaken is below its zone's last event.
LEMMA InvStep == ASSUME IInv, [Next]_vars PROVE IInv'
  <1> TypeOK /\ HeardIsNewer /\ SupersededIsOlder
    BY DEF IInv
  <1>1. TypeOK'
    BY TypeStep
  <1>2. /\ event_sequence \in Nat /\ watermark \in 0..event_sequence
        /\ last_event_seq \in [Zones -> 0..event_sequence]
        /\ sleeping \union firing \subseteq Zones \X (1..event_sequence)
        /\ superseded \subseteq sleeping \union firing
        /\ heard \subseteq Zones
    BY DEF TypeOK
  <1>3. ASSUME GivesNone PROVE HeardIsNewer' /\ SupersededIsOlder'
    BY <1>3 DEF GivesNone, HeardIsNewer, SupersededIsOlder
  <1>4. ASSUME NEW z \in Zones, GivesNumber(z) PROVE HeardIsNewer' /\ SupersededIsOlder'
    <2>1. /\ last_event_seq' = [last_event_seq EXCEPT ![z] = event_sequence + 1]
          /\ heard' \subseteq heard \union {z}
      BY <1>4 DEF GivesNumber, NextSeq
    <2>2. HeardIsNewer'
      BY <1>2, <1>4, <2>1 DEF GivesNumber, HeardIsNewer
    <2>3. SupersededIsOlder'
      <3> SUFFICES ASSUME NEW t \in superseded'
                   PROVE  last_event_seq'[t[1]] > t[2]
        BY DEF SupersededIsOlder
      <3>1. /\ t \in superseded \/ t[1] = z
            /\ t \in sleeping \union firing
        BY <1>2, <1>4 DEF GivesNumber
      <3>2. t[1] \in Zones /\ t[2] \in 1..event_sequence
        BY <1>2, <3>1
      <3>3. CASE t[1] = z
        BY <1>2, <2>1, <3>2, <3>3
      <3>4. CASE t[1] # z
        BY <1>2, <2>1, <3>1, <3>2, <3>4 DEF SupersededIsOlder
      <3> QED
        BY <3>3, <3>4
    <2> QED
      BY <2>2, <2>3
  <1> QED
    BY <1>1, <1>3, <1>4, NumbersInStep DEF IInv

\* The inductive invariant holds in every reachable state.
LEMMA Inductive == Spec => []IInv
  <1>1. IInv /\ [Next]_vars => IInv'
    BY InvStep
  <1> QED
    BY InitInv, <1>1, PTL DEF Spec

-----------------------------------------------------------------------------
(* What follows for the zones.                                             *)

\* The engine's state keeps its shape: one event in hand at the most, the queue
\* within its bound, numbers only of events that were given one, and only motion
\* detectors held on.
THEOREM TypeCorrect == Spec => []TypeOK
  BY Inductive, PTL DEF IInv

\* A snapshot that was under way when an event arrived leaves the event's zone
\* alone, however long the read took and however many events there were.
THEOREM NewerEventsSurviveSnapshots == Spec => SnapshotNeverOverridesNewerEvent
  <1>1. ASSUME IInv, [Next]_vars PROVE [KeepsNewerEvents]_vars
    <2> SUFFICES ASSUME resyncing, ~resyncing', NEW z \in heard
                 PROVE  active'[z] = active[z]
      BY DEF KeepsNewerEvents
    <2>1. ResyncFails \/ \E states \in [Zones -> {"unknown", "on", "off"}] : ApplySnapshot(states)
      BY <1>1 DEF Next, Realtime, BeginGeneration, EnqueueEvent, EnqueueArmEvent, Enqueue,
                  TakeEvent, ApplyEvent, HoldMotion, ShowInput, LeaveToTracker,
                  ApplySensorFault, Applies, Timer, TimerFires, FinishMotion,
                  ApplyWpanMotion, Resync, BeginResync, Stop, vars, syncVars
    <2>2. /\ z \in Zones /\ last_event_seq[z] \in Nat /\ watermark \in Nat
          /\ last_event_seq[z] > watermark
      BY <1>1 DEF IInv, TypeOK, HeardIsNewer
    <2>3. ~Accepts(z)
      BY <2>2 DEF Accepts
    <2> QED
      BY <2>1, <2>2, <2>3 DEF ResyncFails, ApplySnapshot, stateVars
  <1> QED
    BY <1>1, Inductive, PTL DEF Spec, SnapshotNeverOverridesNewerEvent

\* A hold timer, however late it wakes up, changes nothing if its zone has had
\* another event since the Stop that started it, and otherwise turns off its own
\* zone at the most.
THEOREM OvertakenTimersEndNothing == Spec => NewerEventBeatsHold
  <1>1. ASSUME IInv, [Next]_vars PROVE [OnlyOwnStopEnds]_vars
    <2> SUFFICES ASSUME NEW t \in firing \ firing'
                 PROVE  /\ t \in superseded => active' = active
                        /\ \A z \in Zones :
                             active'[z] # active[z] => z = t[1] /\ active'[z] = "off"
      BY DEF OnlyOwnStopEnds
    <2>1. PICK u \in firing : FinishMotion(u[1], u[2])
      BY <1>1 DEF Next, Realtime, BeginGeneration, EnqueueEvent, EnqueueArmEvent, Enqueue,
                  TakeEvent, ApplyEvent, HoldMotion, ShowInput, LeaveToTracker,
                  ApplySensorFault, Timer, TimerFires, ApplyWpanMotion, Resync, BeginResync,
                  ResyncFails, ApplySnapshot, Stop, vars, stateVars, timerVars
    <2>2. /\ active \in [Zones -> {"unknown", "on", "off"}]
          /\ t \in Zones \X Nat /\ u \in Zones \X Nat
      BY <1>1 DEF IInv, TypeOK
    <2>3. t = u
      BY <2>1, <2>2 DEF FinishMotion
    <2>4. ASSUME t \in superseded PROVE active' = active
      <3>1. last_event_seq[t[1]] > t[2] /\ last_event_seq[t[1]] \in Nat
        BY <1>1, <2>2, <2>4 DEF IInv, TypeOK, SupersededIsOlder
      <3>2. ~IsLastStop(t[1], t[2])
        BY <2>2, <3>1 DEF IsLastStop
      <3> QED
        BY <2>1, <2>3, <3>2 DEF FinishMotion
    <2>5. ASSUME NEW z \in Zones, active'[z] # active[z]
          PROVE  z = t[1] /\ active'[z] = "off"
      BY <2>1, <2>2, <2>3, <2>5 DEF FinishMotion
    <2> QED
      BY <2>4, <2>5
  <1> QED
    BY <1>1, Inductive, PTL DEF Spec, NewerEventBeatsHold

=============================================================================
