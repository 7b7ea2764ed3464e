--------------------------- MODULE ArmingTracker ---------------------------
(***************************************************************************)
(* The per-area arm and alarm state of protocol/arming.py (ArmingTracker). *)
(*                                                                         *)
(* The tracker is written by the engine's event processor, by the threads  *)
(* that read the AreaArmMode table and by each new realtime generation,    *)
(* each under the tracker's lock, so a method is one action.  A table read *)
(* takes its watermark first and applies its rows later: any other action  *)
(* may come in between.  The environment is open here: every event the hub *)
(* may send and every table it may return is possible at any time.         *)
(***************************************************************************)
EXTENDS Naturals

CONSTANTS
  Areas,        \* enabled Dahua areas (AlarmSubSystem rows)
  Zones,        \* alarm inputs an AlarmLocal event may name
  Readers,      \* threads that read the AreaArmMode table
  Modes,        \* mode codes the hub may send, recognised or not
  Disarmed,     \* the code "D"
  NoMode,       \* no mode: unknown, or a row or event without one
  MaxEvents,    \* bound on event_sequence
  MaxFailures,  \* bound on failure_sequence
  MaxTables     \* bound on table_sequence

ASSUME TrackerAssumption ==
  /\ Disarmed \in Modes
  /\ NoMode \notin Modes
  /\ MaxEvents \in Nat
  /\ MaxFailures \in Nat
  /\ MaxTables \in Nat

VARIABLES
  raw_mode,           \* area -> last known mode code, NoMode while unknown
  source,             \* area -> where raw_mode comes from
  alarm,              \* area -> "unknown", "on" or "off"
  alarm_unconfirmed,  \* area -> an alarm that was on at the last reconnect
  alarm_zones,        \* area -> zones of the current or the last alarm
  last_event_seq,     \* area -> event_sequence of its last mode change
  last_failure_seq,   \* area -> failure_sequence of its last failure
  last_table_seq,     \* area -> table_sequence of the last table read used
  event_sequence,
  failure_sequence,
  table_sequence,
  reading,            \* readers with a table read under way
  watermark,          \* reader -> event_sequence when its read began
  notify_pending,     \* the debounce timer is running
  heard               \* history: reader -> areas with a mode event since its read began

modeVars   == <<raw_mode, source>>
alarmVars  == <<alarm, alarm_unconfirmed, alarm_zones>>
eventVars  == <<last_event_seq, event_sequence>>
failVars   == <<last_failure_seq, failure_sequence>>
tableVars  == <<last_table_seq, table_sequence>>
readVars   == <<reading, watermark, heard>>
vars == <<modeVars, alarmVars, eventVars, failVars, tableVars, readVars,
          notify_pending>>

-----------------------------------------------------------------------------
\* What the entities show.
Shown == [mode |-> raw_mode, alarm |-> alarm, zones |-> alarm_zones,
          failures |-> last_failure_seq]

\* _settle_alarm: what becomes of an area's alarm once its mode is m.
EndsInAnyMode(a, m)  == alarm_unconfirmed[a] /\ m # NoMode  \* mutant
Ends(a, m)           == alarm_unconfirmed[a] /\ m = Disarmed
SettlesOnlyDoubt(a, m) == IF Ends(a, m) THEN "off" ELSE alarm[a]  \* mutant
Settled(a, m)        == IF alarm[a] = "unknown" \/ Ends(a, m) THEN "off" ELSE alarm[a]
StaysUnsettled(a)    == alarm_unconfirmed[a]  \* mutant
Unsettled(a)         == alarm[a] = "unknown" /\ alarm_unconfirmed[a]

-----------------------------------------------------------------------------

Init ==
  /\ raw_mode = [a \in Areas |-> NoMode]
  /\ source = [a \in Areas |-> "none"]
  /\ alarm = [a \in Areas |-> "unknown"]
  /\ alarm_unconfirmed = [a \in Areas |-> FALSE]
  /\ alarm_zones = [a \in Areas |-> {}]
  /\ last_event_seq = [a \in Areas |-> 0]
  /\ last_failure_seq = [a \in Areas |-> 0]
  /\ last_table_seq = [a \in Areas |-> 0]
  /\ event_sequence = 0
  /\ failure_sequence = 0
  /\ table_sequence = 0
  /\ reading = {}
  /\ watermark = [r \in Readers |-> 0]
  /\ notify_pending = FALSE
  /\ heard = [r \in Readers |-> {}]

-----------------------------------------------------------------------------
(* Events, applied by the engine's processor thread.                       *)

\* AreaArmModeChange for area a.  A disarm ends an alarm whatever its state
\* (_end_alarm); any other mode only settles one that was in doubt.
AreaArmModeChange(a, m) ==
  /\ event_sequence < MaxEvents
  /\ event_sequence' = event_sequence + 1
  /\ last_event_seq' = [last_event_seq EXCEPT ![a] = event_sequence + 1]
  /\ raw_mode' = [raw_mode EXCEPT ![a] = m]
  /\ source' = [source EXCEPT ![a] = "event"]
  /\ alarm' = [alarm EXCEPT ![a] = IF m = Disarmed THEN "off" ELSE Settled(a, m)]
  /\ alarm_unconfirmed' = [alarm_unconfirmed EXCEPT
                             ![a] = m # Disarmed /\ Unsettled(a)]
  /\ notify_pending' = TRUE
  /\ heard' = [r \in Readers |-> IF r \in reading THEN heard[r] \union {a} ELSE {}]
  /\ UNCHANGED <<alarm_zones, failVars, tableVars, reading, watermark>>

\* ArmingFailure for area a.  (Its open zones, and which failure the sensor
\* shows when it is part of a global burst, are display data.)
ArmingFailure(a) ==
  /\ failure_sequence < MaxFailures
  /\ failure_sequence' = failure_sequence + 1
  /\ last_failure_seq' = [last_failure_seq EXCEPT ![a] = failure_sequence + 1]
  /\ notify_pending' = TRUE
  /\ UNCHANGED <<modeVars, alarmVars, eventVars, tableVars, readVars>>

\* GlobalArmingFailure names no area: only the entities are told.
GlobalArmingFailure ==
  /\ notify_pending' = TRUE
  /\ UNCHANGED <<modeVars, alarmVars, eventVars, failVars, tableVars, readVars>>

\* The zones of area a's alarm once zone z raises it.
RestartsEmpty(a, z) == IF alarm[a] = "on" THEN alarm_zones[a] \union {z} ELSE {}  \* mutant
ZonesWith(a, z)     == IF alarm[a] = "on" THEN alarm_zones[a] \union {z} ELSE {z}

\* AlarmLocal Start of zone z in the areas S.  The zone list restarts with
\* each new alarm and names a zone once.  (Stop follows the input, not the
\* alarm, and changes nothing here.)
AlarmStart(z, S) ==
  /\ alarm' = [a \in Areas |-> IF a \in S THEN "on" ELSE alarm[a]]
  /\ alarm_unconfirmed' = [a \in Areas |-> alarm_unconfirmed[a] /\ a \notin S]
  /\ alarm_zones' = [a \in Areas |->
                       IF a \in S THEN ZonesWith(a, z) ELSE alarm_zones[a]]
  /\ notify_pending' = TRUE
  /\ UNCHANGED <<modeVars, eventVars, failVars, tableVars, readVars>>

\* AlarmClear of Type AlarmArea.
AlarmClear(a) ==
  /\ alarm' = [alarm EXCEPT ![a] = "off"]
  /\ alarm_unconfirmed' = [alarm_unconfirmed EXCEPT ![a] = FALSE]
  /\ notify_pending' = TRUE
  /\ UNCHANGED <<alarm_zones, modeVars, eventVars, failVars, tableVars,
                 readVars>>

-----------------------------------------------------------------------------
(* A new realtime generation.                                              *)

\* invalidate() has something to forget about a.
ForgetsMode(a) == raw_mode[a] # NoMode  \* mutant
Forgets(a)     == raw_mode[a] # NoMode \/ alarm[a] = "off"

\* invalidate(): modes are forgotten; an alarm that is on stays on, in doubt.
Invalidate ==
  /\ raw_mode' = [a \in Areas |-> NoMode]
  /\ source' = [a \in Areas |-> IF raw_mode[a] # NoMode THEN "none" ELSE source[a]]
  /\ alarm' = [a \in Areas |-> IF alarm[a] = "on" THEN "on" ELSE "unknown"]
  /\ alarm_unconfirmed' = [a \in Areas |-> alarm_unconfirmed[a] \/ alarm[a] = "on"]
  /\ notify_pending' = (notify_pending \/ \E a \in Areas : Forgets(a))
  /\ UNCHANGED <<alarm_zones, eventVars, failVars, tableVars, readVars>>

-----------------------------------------------------------------------------
(* Table reads: by the reconciler's callers and by a command.              *)

\* The read of r is over: its locals are gone.
EndRead(r) ==
  /\ r \in reading
  /\ reading' = reading \ {r}
  /\ watermark' = [watermark EXCEPT ![r] = 0]
  /\ heard' = [heard EXCEPT ![r] = {}]

\* watermark(), just before the read is sent.
BeginRead(r) ==
  /\ r \notin reading
  /\ reading' = reading \union {r}
  /\ watermark' = [watermark EXCEPT ![r] = event_sequence]
  /\ heard' = [heard EXCEPT ![r] = {}]
  /\ UNCHANGED <<modeVars, alarmVars, eventVars, failVars, tableVars, notify_pending>>

\* table_failed(), or a LoginError that ends the reader: nothing is applied.
ReadFails(r) ==
  /\ EndRead(r)
  /\ UNCHANGED <<modeVars, alarmVars, eventVars, failVars, tableVars,
                 notify_pending>>

\* mutant: the watermark is not looked at
UsableAlways(r, modes) == {a \in Areas : modes[a] # NoMode}

\* The rows of r's read that apply_table uses: a row with a mode, for an area
\* without an event newer than the read's watermark.
Usable(r, modes) ==
  {a \in Areas : modes[a] # NoMode /\ last_event_seq[a] <= watermark[r]}

\* A row of mode m changes what is known of area a.
CorrectsKnown(a, m) == raw_mode[a] \notin {m, NoMode}  \* mutant
Corrects(a, m)      == raw_mode[a] # m

ApplyTable(r, modes) ==
  LET used == Usable(r, modes)
      corrected == {a \in used : Corrects(a, modes[a])}
  IN
  /\ EndRead(r)
  /\ table_sequence < MaxTables
  /\ table_sequence' = table_sequence + 1
  /\ last_table_seq' = [a \in Areas |->
       IF a \in used THEN table_sequence + 1 ELSE last_table_seq[a]]
  /\ raw_mode' = [a \in Areas |-> IF a \in used THEN modes[a] ELSE raw_mode[a]]
  /\ source' = [a \in Areas |-> IF a \in corrected THEN "table" ELSE source[a]]
  /\ alarm' = [a \in Areas |->
       IF a \in used THEN Settled(a, modes[a]) ELSE alarm[a]]
  /\ alarm_unconfirmed' = [a \in Areas |->
       IF a \in used THEN Unsettled(a) ELSE alarm_unconfirmed[a]]
  /\ notify_pending' = (\/ notify_pending
                        \/ corrected # {}
                        \/ \E a \in used : alarm[a] = "unknown" \/ Ends(a, modes[a]))
  /\ UNCHANGED <<alarm_zones, eventVars, failVars>>

-----------------------------------------------------------------------------

\* _fire: the debounce timer runs and Home Assistant redraws.
Fire ==
  /\ notify_pending
  /\ notify_pending' = FALSE
  /\ UNCHANGED <<modeVars, alarmVars, eventVars, failVars, tableVars, readVars>>

Event ==
  \/ \E a \in Areas, m \in Modes \union {NoMode} : AreaArmModeChange(a, m)
  \/ \E a \in Areas : ArmingFailure(a)
  \/ GlobalArmingFailure
  \/ \E z \in Zones, S \in SUBSET Areas \ {{}} : AlarmStart(z, S)
  \/ \E a \in Areas : AlarmClear(a)

Read(r) ==
  \/ BeginRead(r)
  \/ ReadFails(r)
  \/ \E modes \in [Areas -> Modes \union {NoMode}] : ApplyTable(r, modes)

Next ==
  \/ Event
  \/ Invalidate
  \/ \E r \in Readers : Read(r)
  \/ Fire

Spec == Init /\ [][Next]_vars

-----------------------------------------------------------------------------
(* Properties.                                                             *)

AlarmState == {"unknown", "on", "off"}
MaybeMode == Modes \union {NoMode}

\* Each known mode has a source, and the event or the table it names was
\* counted for that area: _evaluate reads the number that goes with the source.
ModeHasSource ==
  \A a \in Areas :
    /\ raw_mode[a] # NoMode => source[a] # "none"
    /\ source[a] = "event" => last_event_seq[a] > 0
    /\ source[a] = "table" => last_table_seq[a] > 0

\* The shape of the tracker's state: numbers never run ahead of their counters,
\* and a mode always has a source (arming.py: ArmArea).
TypeOK ==
  /\ raw_mode \in [Areas -> MaybeMode]
  /\ source \in [Areas -> {"none", "event", "table"}]
  /\ alarm \in [Areas -> AlarmState]
  /\ alarm_unconfirmed \in [Areas -> BOOLEAN]
  /\ alarm_zones \in [Areas -> SUBSET Zones]
  /\ event_sequence \in 0..MaxEvents
  /\ failure_sequence \in 0..MaxFailures
  /\ table_sequence \in 0..MaxTables
  /\ last_event_seq \in [Areas -> 0..event_sequence]
  /\ last_failure_seq \in [Areas -> 0..failure_sequence]
  /\ last_table_seq \in [Areas -> 0..table_sequence]
  /\ reading \subseteq Readers
  /\ watermark \in [Readers -> 0..event_sequence]
  /\ notify_pending \in BOOLEAN
  /\ heard \in [Readers -> SUBSET Areas]
  /\ ModeHasSource

\* Once an area's mode is known, so is whether it is in alarm: the alarm
\* sensor is unknown only while the arm state is (README: "unknown until the
\* area's arm state is known, then off until an alarm arrives"), whatever mix
\* of events, reconnects and table reads led there.
KnownModeSettlesAlarm ==
  \A a \in Areas : raw_mode[a] # NoMode => alarm[a] # "unknown"

\* An alarm is left in doubt only while it is on and the area's mode has not
\* been seen since the reconnect: whatever shows the mode settles the doubt, so
\* no later table read can end a live alarm by mistake.
UnconfirmedAwaitsMode ==
  \A a \in Areas : alarm_unconfirmed[a] => alarm[a] = "on" /\ raw_mode[a] = NoMode

\* An alarm that is on names the zones that raised it.
AlarmNamesZones ==
  \A a \in Areas : alarm[a] = "on" => alarm_zones[a] # {}

\* Home Assistant is never left with an outdated picture: whatever path changes
\* a mode, an alarm or a failure also leaves the debounce timer running, and a
\* redraw itself changes nothing.
ChangeIsScheduled == Shown' # Shown => notify_pending'
EveryChangeScheduled == [][ChangeIsScheduled]_vars

\* A table read never overrides an arm event that was applied after the read
\* began (README: "A table read never overrides a newer arm event").
KeepsNewerEvents ==
  \A r \in Readers :
    (r \in reading /\ reading' = reading \ {r} /\ table_sequence' # table_sequence) =>
      \A a \in heard[r] : raw_mode'[a] = raw_mode[a] /\ alarm'[a] = alarm[a]
TableNeverOverridesNewerEvent == [][KeepsNewerEvents]_vars

\* An alarm that is on goes off only when the area is seen disarmed or the hub
\* sends AlarmClear for it, and never becomes unknown: not by a reconnect, not
\* by a table read that shows any other mode.
AlarmEndsProperly ==
  \A a \in Areas : (alarm[a] = "on" /\ alarm'[a] # "on") =>
    /\ alarm'[a] = "off"
    /\ raw_mode'[a] = Disarmed \/ AlarmClear(a)
AlarmHeldUntilDisarmed == [][AlarmEndsProperly]_vars

=============================================================================
