----------------------------- MODULE ArmControl -----------------------------
(***************************************************************************)
(* The arm controller of protocol/control.py on top of the tracker: one    *)
(* command at a time, each on a session of its own, written once, and      *)
(* decided by what the tracker hears after the command's mark.             *)
(*                                                                         *)
(* A command runs on an executor thread.  The tracker's events, the other  *)
(* table readers, new realtime generations, a rejected login elsewhere and *)
(* the unload of the integration may come between any two of its steps.    *)
(* The hub is open: any reply, or none, and any event or table.            *)
(***************************************************************************)
EXTENDS ArmingTracker

CONSTANTS
  Commands,       \* calls of execute
  ArmModes,       \* the mode codes a command may carry (ARM_MODES)
  NoCommand,      \* the lock is free
  UnknownArea,    \* an area index the tracker does not have
  CommandReader   \* the reader that stands for a command's own table read

ASSUME ControlAssumption ==
  /\ CommandReader \in Readers
  /\ ArmModes \subseteq Modes
  /\ NoCommand \notin Commands
  /\ UnknownArea \notin Areas

VARIABLES
  holder,       \* the command that holds _command_lock, or NoCommand
  pc,           \* where that command is
  want,         \* its target areas and mode
  mark,         \* its OutcomeMark
  outcome,      \* command -> its CommandOutcome, "none" before
  confirmed_by, \* command -> "event", "table" or "none"
  auth_failed,  \* the hub's flag: the credentials were rejected
  stopping,     \* arm_stop: the hub is being unloaded
  rpcs,         \* history: command -> arm requests written
  late_logins,  \* history: control logins begun with auth_failed set
  since         \* history: what reached the tracker since the mark was taken

commandVars == <<holder, pc, want, mark, outcome, confirmed_by>>
hubFlags    == <<auth_failed, stopping>>
history     == <<rpcs, late_logins, since>>
controlVars == <<commandVars, hubFlags, history>>
ctlVars     == <<vars, controlVars>>

NoWant == [areas |-> {}, mode |-> NoMode]
NoMark == [event |-> 0, failure |-> 0, table |-> 0]

\* Areas with a mode event, an arming failure or a row of an applied table.
Nothing == [events |-> {}, failures |-> {}, rows |-> {}]

ControlInit ==
  /\ Init
  /\ holder = NoCommand
  /\ pc = "idle"
  /\ want = NoWant
  /\ mark = NoMark
  /\ outcome = [c \in Commands |-> "none"]
  /\ confirmed_by = [c \in Commands |-> "none"]
  /\ auth_failed = FALSE
  /\ stopping = FALSE
  /\ rpcs = [c \in Commands |-> 0]
  /\ late_logins = 0
  /\ since = Nothing

-----------------------------------------------------------------------------
(* The tracker's world, and what the history makes of it.                  *)

Marked == pc \notin {"idle", "locked"}
Record(s) == since' = IF Marked THEN s ELSE since

HearMode ==
  \E a \in Areas, m \in Modes \union {NoMode} :
    /\ AreaArmModeChange(a, m)
    /\ Record([since EXCEPT !.events = @ \union {a}])

HearFailure ==
  \E a \in Areas :
    /\ ArmingFailure(a)
    /\ Record([since EXCEPT !.failures = @ \union {a}])

HearRows(r) ==
  \E modes \in [Areas -> Modes \union {NoMode}] :
    /\ ApplyTable(r, modes)
    /\ Record([since EXCEPT !.rows = @ \union Usable(r, modes)])

OtherRead(r) ==
  \/ (BeginRead(r) \/ ReadFails(r)) /\ UNCHANGED since
  \/ HearRows(r)

\* The tracker's steps that write what a command reads.  Its alarm events and
\* its debounce timer touch none of it and are left to ArmingTracker.
World ==
  /\ \/ HearMode \/ HearFailure
     \/ Invalidate /\ UNCHANGED since
     \/ \E r \in Readers \ {CommandReader} : OtherRead(r)
  /\ UNCHANGED <<commandVars, hubFlags, rpcs, late_logins>>

\* Another session's login was rejected (_handle_auth_failure).
LoginRejectedElsewhere ==
  /\ ~auth_failed
  /\ auth_failed' = TRUE
  /\ UNCHANGED <<vars, commandVars, stopping, history>>

\* hub.stop() sets arm_stop.
Unload ==
  /\ ~stopping
  /\ stopping' = TRUE
  /\ UNCHANGED <<vars, commandVars, auth_failed, history>>

-----------------------------------------------------------------------------
(* A command: execute and _execute_locked.                                 *)

\* The command in flight moves on.
Goto(l) == pc' = l /\ UNCHANGED <<holder, want, outcome, confirmed_by>>

\* mutant: the lock is kept
ReturnLocked(c, o, by) ==
  /\ pc' = "idle"
  /\ want' = NoWant
  /\ mark' = NoMark
  /\ outcome' = [outcome EXCEPT ![c] = o]
  /\ confirmed_by' = [confirmed_by EXCEPT ![c] = by]
  /\ since' = Nothing
  /\ UNCHANGED holder

\* The result is returned: the lock is released and the locals are gone.
Return(c, o, by) ==
  /\ holder' = NoCommand
  /\ pc' = "idle"
  /\ want' = NoWant
  /\ mark' = NoMark
  /\ outcome' = [outcome EXCEPT ![c] = o]
  /\ confirmed_by' = [confirmed_by EXCEPT ![c] = by]
  /\ since' = Nothing

Done(c, o) == Return(c, o, "none")

\* The step of c at label l.
At(c, l) == holder = c /\ pc = l

\* The lock is taken without waiting.
Execute(c, S, m) ==
  /\ outcome[c] = "none"
  /\ holder = NoCommand
  /\ holder' = c
  /\ pc' = "locked"
  /\ want' = [areas |-> S, mode |-> m]
  /\ UNCHANGED <<mark, outcome, confirmed_by, vars, hubFlags, history>>

\* A command in flight turns another one away at once.
RejectBusy(c) ==
  /\ outcome[c] = "none"
  /\ holder \notin {NoCommand, c}
  /\ outcome' = [outcome EXCEPT ![c] = "REJECTED"]
  /\ UNCHANGED <<holder, pc, want, mark, confirmed_by, vars, hubFlags, history>>

ValidCommand == want.areas # {} /\ want.areas \subseteq Areas /\ want.mode \in ArmModes

\* The checks, in the code's order.  Whether the hub is available belongs to
\* the hub: either answer is possible.
Refuse(c) ==
  /\ At(c, "locked")
  /\ \/ ~ValidCommand /\ Done(c, "REJECTED")
     \/ ValidCommand /\ stopping /\ Done(c, "FAILED")
     \/ ValidCommand /\ ~stopping /\ auth_failed /\ Done(c, "AUTH_FAILED")
     \/ ValidCommand /\ ~stopping /\ ~auth_failed /\ Done(c, "REJECTED")
  /\ UNCHANGED <<vars, hubFlags, rpcs, late_logins>>

\* mutant: rejected credentials do not keep a command from logging in
TakeMarkAnyway(c) ==
  /\ At(c, "locked")
  /\ ValidCommand /\ ~stopping
  /\ Goto("opening")
  /\ mark' = [event |-> event_sequence, failure |-> failure_sequence,
              table |-> table_sequence]
  /\ UNCHANGED <<vars, hubFlags, history>>

\* The checks passed: the mark is taken and the session is opened.
TakeMark(c) ==
  /\ At(c, "locked")
  /\ ValidCommand /\ ~stopping /\ ~auth_failed
  /\ Goto("opening")
  /\ mark' = [event |-> event_sequence, failure |-> failure_sequence,
              table |-> table_sequence]
  /\ UNCHANGED <<vars, hubFlags, history>>

-----------------------------------------------------------------------------
(* _send: one session, one request, never again.                           *)

CountLogin == late_logins' = IF auth_failed THEN late_logins + 1 ELSE late_logins

LogIn(c) ==
  /\ At(c, "opening")
  /\ Goto("logged_in")
  /\ CountLogin
  /\ UNCHANGED <<mark, vars, hubFlags, rpcs, since>>

LoginRejected(c) ==
  /\ At(c, "opening")
  /\ Done(c, "AUTH_FAILED")
  /\ auth_failed' = TRUE
  /\ CountLogin
  /\ UNCHANGED <<vars, stopping, rpcs>>

Write(c) ==
  /\ At(c, "logged_in")
  /\ Goto("sent")
  /\ rpcs' = [rpcs EXCEPT ![c] = @ + 1]
  /\ UNCHANGED <<mark, vars, hubFlags, late_logins, since>>

\* mutant: a lost reply is tried again
Retry(c) ==
  /\ At(c, "sent")
  /\ Goto("logged_in")
  /\ UNCHANGED <<mark, vars, hubFlags, history>>

\* No connection, no session, or no answer in time: reported, not repeated.
Unreachable(c) ==
  /\ holder = c /\ pc \in {"opening", "logged_in", "sent"}
  /\ Done(c, "FAILED")
  /\ UNCHANGED <<vars, hubFlags, rpcs, late_logins>>

\* The hub answers: accepted, refused naming open zones, or an error.
ReplyAccepted(c) ==
  /\ At(c, "sent")
  /\ Goto("waiting")
  /\ UNCHANGED <<mark, vars, hubFlags, history>>

ReplyRefused(c) ==
  /\ At(c, "sent")
  /\ \E o \in {"REFUSED", "FAILED"} : Done(c, o)
  /\ UNCHANGED <<vars, hubFlags, rpcs, late_logins>>

-----------------------------------------------------------------------------
(* _confirm: the tracker's _evaluate, the wait, and one table read.        *)

ByEventAtMark(a) == last_event_seq[a] >= mark.event  \* mutant
ByEvent(a) == last_event_seq[a] > mark.event
ByTable(a) == source[a] = "table" /\ last_table_seq[a] > mark.table

Confirmed ==
  \A a \in want.areas : raw_mode[a] = want.mode /\ (ByEvent(a) \/ ByTable(a))

RefusedAtMark ==  \* mutant
  ~Confirmed /\ \E a \in want.areas : last_failure_seq[a] >= mark.failure
Refused == ~Confirmed /\ \E a \in want.areas : last_failure_seq[a] > mark.failure

Confirm(c) ==
  /\ holder = c /\ pc \in {"waiting", "applied"}
  /\ Confirmed
  /\ Return(c, "CONFIRMED",
            IF \A a \in want.areas : ByEvent(a) THEN "event" ELSE "table")
  /\ UNCHANGED <<vars, hubFlags, rpcs, late_logins>>

HearRefusal(c) ==
  /\ holder = c /\ pc \in {"waiting", "applied"}
  /\ Refused
  /\ Done(c, "REFUSED")
  /\ UNCHANGED <<vars, hubFlags, rpcs, late_logins>>

\* Only the wait looks at the stop event.
StopWaiting(c) ==
  /\ At(c, "waiting")
  /\ ~Confirmed /\ ~Refused /\ stopping
  /\ Done(c, "FAILED")
  /\ UNCHANGED <<vars, hubFlags, rpcs, late_logins>>

TimeOut(c) ==
  /\ At(c, "waiting")
  /\ ~Confirmed /\ ~Refused /\ ~stopping
  /\ Goto("timed_out")
  /\ UNCHANGED <<mark, vars, hubFlags, history>>

BeginTableRead(c) ==
  /\ At(c, "timed_out")
  /\ BeginRead(CommandReader)
  /\ Goto("reading")
  /\ UNCHANGED <<mark, hubFlags, history>>

TableRead(c) ==
  /\ At(c, "reading")
  /\ HearRows(CommandReader)
  /\ Goto("applied")
  /\ UNCHANGED <<mark, hubFlags, rpcs, late_logins>>

\* A table that cannot be read; table_failed only notes the error.
TableUnreadable(c) ==
  /\ At(c, "reading")
  /\ ReadFails(CommandReader)
  /\ Done(c, "UNCONFIRMED")
  /\ UNCHANGED <<hubFlags, rpcs, late_logins>>

\* The snapshot session had to log in again and was rejected.
TableLoginRejected(c) ==
  /\ At(c, "reading")
  /\ ReadFails(CommandReader)
  /\ Done(c, "AUTH_FAILED")
  /\ auth_failed' = TRUE
  /\ UNCHANGED <<stopping, rpcs, late_logins>>

NotConfirmed(c) ==
  /\ At(c, "applied")
  /\ ~Confirmed /\ ~Refused
  /\ Done(c, "UNCONFIRMED")
  /\ UNCHANGED <<vars, hubFlags, rpcs, late_logins>>

-----------------------------------------------------------------------------

Validate(c) == Refuse(c) \/ TakeMark(c)
Send(c) == LogIn(c) \/ LoginRejected(c) \/ Write(c) \/ Unreachable(c)
             \/ ReplyAccepted(c) \/ ReplyRefused(c)
Wait(c) == Confirm(c) \/ HearRefusal(c) \/ StopWaiting(c) \/ TimeOut(c)
Verify(c) == BeginTableRead(c) \/ TableRead(c) \/ TableUnreadable(c)
               \/ TableLoginRejected(c) \/ NotConfirmed(c)

\* The executor thread of c.
CommandStep(c) == Validate(c) \/ Send(c) \/ Wait(c) \/ Verify(c)

Call(c) ==
  \/ RejectBusy(c)
  \/ \E S \in SUBSET (Areas \union {UnknownArea}), m \in Modes : Execute(c, S, m)

ControlNext ==
  \/ World
  \/ LoginRejectedElsewhere
  \/ Unload
  \/ \E c \in Commands : Call(c) \/ CommandStep(c)

ControlSpec == ControlInit /\ [][ControlNext]_ctlVars

\* The thread of a command runs: its waits are all bounded by timeouts.
FairControlSpec == ControlSpec /\ \A c \in Commands : WF_ctlVars(CommandStep(c))

-----------------------------------------------------------------------------
(* Properties.                                                             *)

Outcomes == {"CONFIRMED", "REFUSED", "FAILED", "UNCONFIRMED", "REJECTED", "AUTH_FAILED"}
Unwritten == {"idle", "locked", "opening", "logged_in"}
Written == {"sent", "waiting", "timed_out", "reading", "applied"}

\* The shape of the controller's state: the lock is held exactly while a
\* command is under way, by a command without a result, and the command's
\* reader reads exactly while its command does.
ControlTypeOK ==
  /\ holder \in Commands \union {NoCommand}
  /\ pc \in Unwritten \union Written
  /\ want \in [areas : SUBSET (Areas \union {UnknownArea}), mode : MaybeMode]
  /\ Marked => ValidCommand
  /\ mark \in [event : 0..event_sequence, failure : 0..failure_sequence,
               table : 0..table_sequence]
  /\ outcome \in [Commands -> Outcomes \union {"none"}]
  /\ confirmed_by \in [Commands -> {"event", "table", "none"}]
  /\ auth_failed \in BOOLEAN /\ stopping \in BOOLEAN
  /\ rpcs \in [Commands -> Nat]
  /\ late_logins \in Nat
  /\ since \in [events : SUBSET Areas, failures : SUBSET Areas, rows : SUBSET Areas]
  /\ holder = NoCommand <=> pc = "idle"
  /\ holder # NoCommand => outcome[holder] = "none"
  /\ CommandReader \in reading <=> pc = "reading"

EndsAs(c, o) == outcome[c] # o /\ outcome'[c] = o

\* A confirmation never comes from what was known before the command: every
\* target area has had a mode event, or a row of an applied table, since the
\* mark, an event each for one confirmed by events, and is in the requested
\* mode (docs/arm-control/01 section 7, "No stale success").
ConfirmationHasEvidence ==
  \A c \in Commands : EndsAs(c, "CONFIRMED") =>
    /\ \A a \in want.areas : raw_mode[a] = want.mode
    /\ confirmed_by'[c] = "event" => want.areas \subseteq since.events
    /\ want.areas \subseteq since.events \union since.rows
NoStaleSuccess == [][ConfirmationHasEvidence]_ctlVars

\* A command that the hub accepted is refused only by an arming failure of one
\* of its targets since the mark, and never once an event has shown every target
\* in the requested mode ("a stale failure from earlier never refuses a new
\* command").
RefusalHasEvidence ==
  \A c \in Commands : (EndsAs(c, "REFUSED") /\ pc # "sent") =>
    /\ want.areas \intersect since.failures # {}
    /\ \E a \in want.areas : raw_mode[a] # want.mode \/ a \notin since.events
NoStaleRefusal == [][RefusalHasEvidence]_ctlVars

\* Rejected credentials cost at most one more login of the controller: the one
\* of a command that had passed its checks already.  No later command logs in.
AtMostOneLateLogin == late_logins <= 1

\* A command's outcome as the contract sees it.
StatusOf(c) ==
  CASE outcome[c] # "none" -> outcome[c]
    [] holder = c -> IF pc \in Written THEN "sent" ELSE "open"
    [] OTHER -> "new"

Contract == INSTANCE CommandContract WITH status <- [c \in Commands |-> StatusOf(c)]

\* The controller keeps the contract: one command at a time, one request at the
\* most, none for a command turned away, and every command it takes up ends,
\* whatever reconnects, failures and lost replies come in between.
KeepsContract == Contract!Spec

=============================================================================
