------------------------ MODULE ArmingTrackerProofs ------------------------
(***************************************************************************)
(* Proofs about ArmingTracker, for any areas, zones, readers and modes.    *)
(*                                                                         *)
(* The inductive invariant adds to the checked invariants the link between *)
(* what a reader has heard and the sequence numbers the code compares: an  *)
(* area with an event since the read began has a sequence number above the *)
(* read's watermark.                                                       *)
(***************************************************************************)
EXTENDS ArmingTracker, TLAPS

HeardIsNewer ==
  \A r \in reading : \A a \in heard[r] : last_event_seq[a] > watermark[r]

AlarmParts ==
  /\ KnownModeSettlesAlarm
  /\ UnconfirmedAwaitsMode
  /\ AlarmNamesZones

IInv == TypeOK /\ AlarmParts /\ HeardIsNewer

USE TrackerAssumption

-----------------------------------------------------------------------------

\* The tracker starts in the invariant.
LEMMA InitInv == Init => IInv
  <1> SUFFICES ASSUME Init PROVE IInv
    OBVIOUS
  <1> USE DEF Init
  <1>1. TypeOK
    <2>1. notify_pending \in BOOLEAN
      OBVIOUS
    <2> QED
      BY <2>1 DEF TypeOK, ModeHasSource, AlarmState, MaybeMode
  <1>2. KnownModeSettlesAlarm
    BY DEF KnownModeSettlesAlarm
  <1>3. UnconfirmedAwaitsMode /\ AlarmNamesZones
    BY DEF UnconfirmedAwaitsMode, AlarmNamesZones
  <1>4. HeardIsNewer
    BY DEF HeardIsNewer
  <1> QED
    BY <1>1, <1>2, <1>3, <1>4 DEF IInv, AlarmParts

\* Every step keeps the tracker's state well formed.
LEMMA TypeStep == ASSUME TypeOK, [Next]_vars PROVE TypeOK'
  <1> USE DEF TypeOK, ModeHasSource, AlarmState, MaybeMode
  <1>1. ASSUME NEW a \in Areas, NEW m \in Modes \union {NoMode}, AreaArmModeChange(a, m)
        PROVE  TypeOK'
    BY <1>1 DEF AreaArmModeChange, Settled, Unsettled, Ends, failVars, tableVars
  <1>2. ASSUME NEW a \in Areas, ArmingFailure(a)
        PROVE  TypeOK'
    BY <1>2 DEF ArmingFailure, modeVars, alarmVars, eventVars, tableVars, readVars
  <1>3. CASE GlobalArmingFailure
    BY <1>3 DEF GlobalArmingFailure, modeVars, alarmVars, eventVars, failVars,
                tableVars, readVars
  <1>4. ASSUME NEW z \in Zones, NEW S \in SUBSET Areas \ {{}}, AlarmStart(z, S)
        PROVE  TypeOK'
    BY <1>4 DEF AlarmStart, ZonesWith, modeVars, eventVars, failVars, tableVars, readVars
  <1>5. ASSUME NEW a \in Areas, AlarmClear(a)
        PROVE  TypeOK'
    BY <1>5 DEF AlarmClear, modeVars, eventVars, failVars, tableVars, readVars
  <1>6. CASE Invalidate
    BY <1>6 DEF Invalidate, eventVars, failVars, tableVars, readVars
  <1>7. ASSUME NEW r \in Readers, BeginRead(r)
        PROVE  TypeOK'
    BY <1>7 DEF BeginRead, modeVars, alarmVars, eventVars, failVars, tableVars
  <1>8. ASSUME NEW r \in Readers, ReadFails(r)
        PROVE  TypeOK'
    BY <1>8 DEF ReadFails, EndRead, modeVars, alarmVars, eventVars, failVars, tableVars
  <1>9. ASSUME NEW r \in Readers, NEW modes \in [Areas -> Modes \union {NoMode}],
               ApplyTable(r, modes)
        PROVE  TypeOK'
    <2> DEFINE used == Usable(r, modes)
    <2>1. used \subseteq Areas /\ \A a \in used : modes[a] \in Modes
      BY DEF Usable
    <2>2. /\ raw_mode' \in [Areas -> Modes \union {NoMode}]
          /\ source' \in [Areas -> {"none", "event", "table"}]
      BY <1>9, <2>1 DEF ApplyTable, Corrects
    <2>3. /\ alarm' \in [Areas -> {"unknown", "on", "off"}]
          /\ alarm_unconfirmed' \in [Areas -> BOOLEAN]
      BY <1>9 DEF ApplyTable, Corrects, Settled, Unsettled
    <2>4. /\ table_sequence' \in 0..MaxTables
          /\ last_table_seq' \in [Areas -> 0..table_sequence']
      BY <1>9 DEF ApplyTable, Corrects
    <2>5. /\ reading' \subseteq Readers
          /\ watermark' \in [Readers -> 0..event_sequence]
          /\ heard' \in [Readers -> SUBSET Areas]
          /\ notify_pending' \in BOOLEAN
      BY <1>9 DEF ApplyTable, Corrects, EndRead
    <2> QED
      BY <1>9, <2>2, <2>3, <2>4, <2>5 DEF ApplyTable, Corrects, eventVars, failVars
  <1>10. CASE Fire
    BY <1>10 DEF Fire, modeVars, alarmVars, eventVars, failVars, tableVars, readVars
  <1>11. CASE UNCHANGED vars
    BY <1>11 DEF vars, modeVars, alarmVars, eventVars, failVars, tableVars, readVars
  <1> QED
    BY <1>1, <1>2, <1>3, <1>4, <1>5, <1>6, <1>7, <1>8, <1>9, <1>10, <1>11
       DEF Next, Event, Read

-----------------------------------------------------------------------------

\* A step that writes no mode, alarm, event number or read keeps them.
LEMMA Frame ==
  ASSUME AlarmParts, HeardIsNewer,
         UNCHANGED <<modeVars, alarmVars, eventVars, readVars>>
  PROVE  AlarmParts' /\ HeardIsNewer'
  BY DEF AlarmParts, KnownModeSettlesAlarm, UnconfirmedAwaitsMode, AlarmNamesZones,
         HeardIsNewer, modeVars, alarmVars, eventVars, readVars

\* Every step keeps the invariant.  Only the actions that write a mode, an
\* alarm or a read can disturb it.
LEMMA InvStep == ASSUME IInv, [Next]_vars PROVE IInv'
  <1> DEFINE Goal == AlarmParts' /\ HeardIsNewer'
  <1> TypeOK /\ AlarmParts /\ HeardIsNewer
    BY DEF IInv
  <1>1. ASSUME NEW a \in Areas, NEW m \in Modes \union {NoMode}, AreaArmModeChange(a, m)
        PROVE  Goal
    <2>1. AlarmParts'
      BY <1>1 DEF AreaArmModeChange, Settled, Unsettled, Ends, TypeOK, AlarmState,
                  AlarmParts, KnownModeSettlesAlarm, UnconfirmedAwaitsMode, AlarmNamesZones
    <2>2. HeardIsNewer'
      <3> SUFFICES ASSUME NEW r \in reading', NEW b \in heard'[r]
                   PROVE  last_event_seq'[b] > watermark'[r]
        BY DEF HeardIsNewer
      <3>1. r \in reading /\ r \in Readers /\ b \in Areas /\ watermark'[r] = watermark[r]
        BY <1>1 DEF AreaArmModeChange, TypeOK
      <3>2. CASE b = a
        BY <1>1, <3>1, <3>2 DEF AreaArmModeChange, TypeOK
      <3>3. CASE b # a
        BY <1>1, <3>1, <3>3 DEF AreaArmModeChange, TypeOK, HeardIsNewer
      <3> QED
        BY <3>2, <3>3
    <2> QED
      BY <2>1, <2>2
  <1>2. ASSUME NEW a \in Areas, ArmingFailure(a)
        PROVE  Goal
    BY <1>2, Frame DEF ArmingFailure
  <1>3. ASSUME GlobalArmingFailure PROVE Goal
    BY <1>3, Frame DEF GlobalArmingFailure
  <1>4. ASSUME NEW z \in Zones, NEW S \in SUBSET Areas \ {{}}, AlarmStart(z, S)
        PROVE  Goal
    <2>1. KnownModeSettlesAlarm' /\ UnconfirmedAwaitsMode'
      BY <1>4 DEF AlarmStart, modeVars, TypeOK, AlarmState, AlarmParts,
                  KnownModeSettlesAlarm, UnconfirmedAwaitsMode
    <2>2. AlarmNamesZones'
      BY <1>4 DEF AlarmStart, ZonesWith, TypeOK, AlarmState, AlarmParts, AlarmNamesZones
    <2>3. HeardIsNewer'
      BY <1>4 DEF AlarmStart, eventVars, readVars, HeardIsNewer
    <2> QED
      BY <2>1, <2>2, <2>3 DEF AlarmParts
  <1>5. ASSUME NEW a \in Areas, AlarmClear(a)
        PROVE  Goal
    <2>1. AlarmParts'
      BY <1>5 DEF AlarmClear, modeVars, TypeOK, AlarmState, AlarmParts,
                  KnownModeSettlesAlarm, UnconfirmedAwaitsMode, AlarmNamesZones
    <2>2. HeardIsNewer'
      BY <1>5 DEF AlarmClear, eventVars, readVars, HeardIsNewer
    <2> QED
      BY <2>1, <2>2
  <1>6. ASSUME Invalidate PROVE Goal
    <2>1. AlarmParts'
      BY <1>6 DEF Invalidate, TypeOK, AlarmState, AlarmParts,
                  KnownModeSettlesAlarm, UnconfirmedAwaitsMode, AlarmNamesZones
    <2>2. HeardIsNewer'
      BY <1>6 DEF Invalidate, eventVars, readVars, HeardIsNewer
    <2> QED
      BY <2>1, <2>2
  <1>7. ASSUME NEW r \in Readers, BeginRead(r)
        PROVE  Goal
    <2>1. AlarmParts'
      BY <1>7 DEF BeginRead, modeVars, alarmVars, AlarmParts,
                  KnownModeSettlesAlarm, UnconfirmedAwaitsMode, AlarmNamesZones
    <2>2. HeardIsNewer'
      BY <1>7 DEF BeginRead, eventVars, TypeOK, HeardIsNewer
    <2> QED
      BY <2>1, <2>2
  <1>8. ASSUME NEW r \in Readers, ReadFails(r)
        PROVE  Goal
    <2>1. AlarmParts'
      BY <1>8 DEF ReadFails, modeVars, alarmVars, AlarmParts,
                  KnownModeSettlesAlarm, UnconfirmedAwaitsMode, AlarmNamesZones
    <2>2. HeardIsNewer'
      BY <1>8 DEF ReadFails, EndRead, eventVars, TypeOK, HeardIsNewer
    <2> QED
      BY <2>1, <2>2
  <1>9. ASSUME NEW r \in Readers, NEW modes \in [Areas -> Modes \union {NoMode}],
               ApplyTable(r, modes)
        PROVE  Goal
    <2>1. AlarmParts'
      BY <1>9 DEF ApplyTable, Corrects, Settled, Unsettled, Ends, TypeOK, AlarmState, AlarmParts,
                  KnownModeSettlesAlarm, UnconfirmedAwaitsMode, AlarmNamesZones
    <2>2. HeardIsNewer'
      BY <1>9 DEF ApplyTable, Corrects, EndRead, eventVars, TypeOK, HeardIsNewer
    <2> QED
      BY <2>1, <2>2
  <1>10. ASSUME Fire PROVE Goal
    BY <1>10, Frame DEF Fire
  <1>11. ASSUME UNCHANGED vars PROVE Goal
    BY <1>11, Frame DEF vars
  <1>12. Goal
    BY <1>1, <1>2, <1>3, <1>4, <1>5, <1>6, <1>7, <1>8, <1>9, <1>10, <1>11
       DEF Next, Event, Read
  <1> QED
    BY <1>12, TypeStep DEF IInv

-----------------------------------------------------------------------------

\* The inductive invariant holds in every reachable state.
LEMMA Inductive == Spec => []IInv
  <1>1. IInv /\ [Next]_vars => IInv'
    BY InvStep
  <1> QED
    BY InitInv, <1>1, PTL DEF Spec

\* The tracker's state keeps its shape.
THEOREM TypeCorrect == Spec => []TypeOK
  BY Inductive, PTL DEF IInv

\* Where the mode is known, the alarm is: unknown only while the mode is.
THEOREM ModeSettlesAlarm == Spec => []KnownModeSettlesAlarm
  BY Inductive, PTL DEF IInv, AlarmParts

\* An alarm is in doubt only until the area's mode is next seen.
THEOREM DoubtEndsWithMode == Spec => []UnconfirmedAwaitsMode
  BY Inductive, PTL DEF IInv, AlarmParts

\* An alarm that is on names its zones.
THEOREM AlarmsNameZones == Spec => []AlarmNamesZones
  BY Inductive, PTL DEF IInv, AlarmParts

\* No path changes what the entities show without starting the debounce timer.
THEOREM ChangesAreScheduled == Spec => EveryChangeScheduled
  <1>1. ASSUME TypeOK, [Next]_vars PROVE [ChangeIsScheduled]_vars
    <2> SUFFICES ASSUME Shown' # Shown, Next PROVE notify_pending'
      BY <1>1 DEF ChangeIsScheduled
    <2> USE DEF Shown
    <2>1. ASSUME NEW a \in Areas, NEW m \in Modes \union {NoMode}, AreaArmModeChange(a, m)
          PROVE  notify_pending'
      BY <2>1 DEF AreaArmModeChange
    <2>2. ASSUME NEW a \in Areas, ArmingFailure(a) PROVE notify_pending'
      BY <2>2 DEF ArmingFailure
    <2>3. ASSUME GlobalArmingFailure PROVE notify_pending'
      BY <2>3 DEF GlobalArmingFailure
    <2>4. ASSUME NEW z \in Zones, NEW S \in SUBSET Areas \ {{}}, AlarmStart(z, S)
          PROVE  notify_pending'
      BY <2>4 DEF AlarmStart
    <2>5. ASSUME NEW a \in Areas, AlarmClear(a) PROVE notify_pending'
      BY <2>5 DEF AlarmClear
    <2>6. ASSUME Invalidate PROVE notify_pending'
      <3> SUFFICES ASSUME \A a \in Areas : raw_mode[a] = NoMode /\ alarm[a] # "off"
                   PROVE  FALSE
        BY <2>6 DEF Invalidate, Forgets
      <3>1. raw_mode' = raw_mode /\ alarm' = alarm
        BY <1>1, <2>6 DEF Invalidate, TypeOK, AlarmState
      <3> QED
        BY <2>6, <3>1 DEF Invalidate, failVars
    <2>7. ASSUME NEW r \in Readers, BeginRead(r) PROVE notify_pending'
      BY <2>7 DEF BeginRead, modeVars, alarmVars, failVars
    <2>8. ASSUME NEW r \in Readers, ReadFails(r) PROVE notify_pending'
      BY <2>8 DEF ReadFails, modeVars, alarmVars, failVars
    <2>9. ASSUME NEW r \in Readers, NEW modes \in [Areas -> Modes \union {NoMode}],
                 ApplyTable(r, modes)
          PROVE  notify_pending'
      <3> DEFINE used == Usable(r, modes)
      <3> SUFFICES ASSUME \A a \in used : /\ raw_mode[a] = modes[a]
                                          /\ alarm[a] # "unknown"
                                          /\ ~Ends(a, modes[a])
                   PROVE  FALSE
        BY <2>9 DEF ApplyTable, Corrects
      <3>1. raw_mode' = raw_mode
        BY <1>1, <2>9 DEF ApplyTable, Corrects, TypeOK
      <3>2. alarm' = alarm
        BY <1>1, <2>9 DEF ApplyTable, Corrects, Settled, TypeOK
      <3> QED
        BY <2>9, <3>1, <3>2 DEF ApplyTable, Corrects, failVars
    <2>10. ASSUME Fire PROVE notify_pending'
      BY <2>10 DEF Fire, modeVars, alarmVars, failVars
    <2> QED
      BY <2>1, <2>2, <2>3, <2>4, <2>5, <2>6, <2>7, <2>8, <2>9, <2>10
         DEF Next, Event, Read
  <1> QED
    BY <1>1, TypeCorrect, PTL DEF Spec, EveryChangeScheduled

\* The rows of a table read never reach an area that had an arm event since the
\* read began.
THEOREM NewerEventsSurvive == Spec => TableNeverOverridesNewerEvent
  <1>1. ASSUME IInv, [Next]_vars PROVE [KeepsNewerEvents]_vars
    <2> SUFFICES ASSUME NEW r \in Readers, r \in reading, reading' = reading \ {r},
                        table_sequence' # table_sequence,
                        NEW a \in heard[r]
                 PROVE  raw_mode'[a] = raw_mode[a] /\ alarm'[a] = alarm[a]
      BY DEF KeepsNewerEvents
    <2>1. PICK q \in Readers, modes \in [Areas -> Modes \union {NoMode}] : ApplyTable(q, modes)
      BY <1>1 DEF Next, Event, Read, AreaArmModeChange, ArmingFailure, GlobalArmingFailure,
                  AlarmStart, AlarmClear, Invalidate, BeginRead, ReadFails, Fire, vars, tableVars
    <2>2. q = r
      BY <2>1 DEF ApplyTable, Corrects, EndRead
    <2>3. /\ a \in Areas
          /\ last_event_seq[a] \in Nat
          /\ watermark[r] \in Nat
          /\ last_event_seq[a] > watermark[r]
      BY <1>1 DEF IInv, TypeOK, HeardIsNewer
    <2>4. a \notin Usable(q, modes)
      BY <2>2, <2>3 DEF Usable
    <2> QED
      BY <2>1, <2>3, <2>4 DEF ApplyTable, Corrects
  <1> QED
    BY <1>1, Inductive, PTL DEF Spec, TableNeverOverridesNewerEvent

\* An alarm that is on ends only with a disarm that was seen or an AlarmClear.
THEOREM AlarmsAreHeld == Spec => AlarmHeldUntilDisarmed
  <1>1. ASSUME TypeOK, [Next]_vars PROVE [AlarmEndsProperly]_vars
    <2> SUFFICES ASSUME NEW a \in Areas, alarm[a] = "on", alarm'[a] # "on", Next
                 PROVE  alarm'[a] = "off" /\ (raw_mode'[a] = Disarmed \/ AlarmClear(a))
      BY <1>1 DEF AlarmEndsProperly
    <2> DEFINE Goal == alarm'[a] = "off" /\ (raw_mode'[a] = Disarmed \/ AlarmClear(a))
    <2>1. ASSUME NEW b \in Areas, NEW m \in Modes \union {NoMode}, AreaArmModeChange(b, m)
          PROVE  Goal
      BY <1>1, <2>1 DEF AreaArmModeChange, Settled, Ends, TypeOK
    <2>2. ASSUME NEW b \in Areas, ArmingFailure(b) PROVE Goal
      BY <2>2 DEF ArmingFailure, alarmVars
    <2>3. ASSUME GlobalArmingFailure PROVE Goal
      BY <2>3 DEF GlobalArmingFailure, alarmVars
    <2>4. ASSUME NEW z \in Zones, NEW S \in SUBSET Areas \ {{}}, AlarmStart(z, S)
          PROVE  Goal
      BY <2>4 DEF AlarmStart
    <2>5. ASSUME NEW b \in Areas, AlarmClear(b) PROVE Goal
      <3>1. a = b
        BY <1>1, <2>5 DEF AlarmClear, TypeOK
      <3>2. alarm'[a] = "off"
        BY <1>1, <2>5, <3>1 DEF AlarmClear, TypeOK
      <3> QED
        BY <2>5, <3>1, <3>2
    <2>6. ASSUME Invalidate PROVE Goal
      BY <2>6 DEF Invalidate
    <2>7. ASSUME NEW r \in Readers, BeginRead(r) PROVE Goal
      BY <2>7 DEF BeginRead, alarmVars
    <2>8. ASSUME NEW r \in Readers, ReadFails(r) PROVE Goal
      BY <2>8 DEF ReadFails, alarmVars
    <2>9. ASSUME NEW r \in Readers, NEW modes \in [Areas -> Modes \union {NoMode}],
                 ApplyTable(r, modes)
          PROVE  Goal
      BY <1>1, <2>9 DEF ApplyTable, Corrects, Settled, Ends, TypeOK
    <2>10. ASSUME Fire PROVE Goal
      BY <2>10 DEF Fire, alarmVars
    <2> QED
      BY <2>1, <2>2, <2>3, <2>4, <2>5, <2>6, <2>7, <2>8, <2>9, <2>10
         DEF Next, Event, Read
  <1> QED
    BY <1>1, TypeCorrect, PTL DEF Spec, AlarmHeldUntilDisarmed

=============================================================================
