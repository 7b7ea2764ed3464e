-------------------------- MODULE ArmControlProofs --------------------------
(***************************************************************************)
(* Proofs about ArmControl, for any areas, commands, readers and modes.    *)
(*                                                                         *)
(* A step of the controller is a step of the tracker or leaves it alone,   *)
(* so the tracker's invariant carries over.  The controller's own          *)
(* invariant links what it compares (sequence numbers against the mark)    *)
(* with what has really been heard since the mark, says where the one late *)
(* login can have gone, and that what was not sent was not written.        *)
(***************************************************************************)
EXTENDS ArmControl, ArmingTrackerProofs

\* A sequence number is above the mark exactly if the tracker heard the area's
\* event since, and no failure or table row above the mark is an old one.
\* Without a mark there is nothing since.
MarkSeparates ==
  /\ Marked => \A a \in Areas :
       /\ last_event_seq[a] > mark.event <=> a \in since.events
       /\ last_failure_seq[a] > mark.failure => a \in since.failures
       /\ last_table_seq[a] > mark.table => a \in since.rows
  /\ ~Marked => since = Nothing

\* The one late login was that of a command past its checks: the credentials
\* are known to be bad since, and no command is about to log in.
LateLoginIsTheLast ==
  late_logins # 0 => late_logins = 1 /\ auth_failed /\ pc # "opening"

\* A request is written once, and only by a command that was not turned away.
WrittenAtMostOnce ==
  \A c \in Commands :
    /\ rpcs[c] \in {0, 1}
    /\ outcome[c] = "REJECTED" => rpcs[c] = 0
    /\ (outcome[c] = "none" /\ (holder = c => pc \in Unwritten)) => rpcs[c] = 0

ControlInv ==
  IInv /\ ControlTypeOK /\ MarkSeparates /\ LateLoginIsTheLast /\ WrittenAtMostOnce

USE TrackerAssumption, ControlAssumption


-----------------------------------------------------------------------------
(* What the steps are to the tracker.                                      *)

\* Every step of the controller and its world is a step of the tracker or none.
LEMMA TrackerStep == ASSUME [ControlNext]_ctlVars PROVE [Next]_vars
  <1>1. ASSUME NEW r \in Readers, HearRows(r) PROVE Next
    BY <1>1 DEF HearRows, Next, Read
  <1>2. CASE World
    BY <1>1, <1>2 DEF World, HearMode, HearFailure, OtherRead, Next, Event, Read
  <1>3. ASSUME NEW c \in Commands, Call(c) PROVE UNCHANGED vars
    BY <1>3 DEF Call, RejectBusy, Execute
  <1>4. ASSUME NEW c \in Commands, CommandStep(c) PROVE [Next]_vars
    <2>1. CASE Validate(c)
      BY <2>1 DEF Validate, Refuse, TakeMark
    <2>2. CASE Send(c)
      BY <2>2 DEF Send, LogIn, LoginRejected, Write, Unreachable, ReplyAccepted, ReplyRefused
    <2>3. CASE Wait(c)
      BY <2>3 DEF Wait, Confirm, HearRefusal, StopWaiting, TimeOut
    <2>4. CASE Verify(c)
      BY <1>1, <2>4 DEF Verify, BeginTableRead, TableRead, TableUnreadable,
                        TableLoginRejected, NotConfirmed, Next, Read
    <2> QED
      BY <1>4, <2>1, <2>2, <2>3, <2>4 DEF CommandStep
  <1>5. CASE LoginRejectedElsewhere \/ Unload \/ UNCHANGED ctlVars
    BY <1>5 DEF LoginRejectedElsewhere, Unload, ctlVars
  <1> QED
    BY <1>2, <1>3, <1>4, <1>5 DEF ControlNext

\* The tracker under a controller is the tracker: all that is proved of it holds
\* while commands run.
THEOREM ControllerKeepsTracker == ControlSpec => Spec
  <1>1. ControlInit => Init
    BY DEF ControlInit
  <1>2. [ControlNext]_ctlVars => [Next]_vars
    BY TrackerStep
  <1> QED
    BY <1>1, <1>2, PTL DEF ControlSpec, Spec

\* The controller starts in its invariant.
LEMMA ControlInitInv == ControlInit => ControlInv
  <1> SUFFICES ASSUME ControlInit PROVE ControlInv
    OBVIOUS
  <1> USE DEF ControlInit
  <1>1. IInv
    BY InitInv
  <1>2. ControlTypeOK
    <2>1. auth_failed \in BOOLEAN /\ stopping \in BOOLEAN
      OBVIOUS
    <2>2. want \in [areas : SUBSET (Areas \union {UnknownArea}), mode : MaybeMode]
      BY DEF NoWant, MaybeMode
    <2>3. mark \in [event : 0..event_sequence, failure : 0..failure_sequence,
                    table : 0..table_sequence]
      BY DEF NoMark, Init
    <2>4. since \in [events : SUBSET Areas, failures : SUBSET Areas, rows : SUBSET Areas]
      BY DEF Nothing
    <2>5. CommandReader \notin reading
      BY DEF Init
    <2> QED
      BY <2>1, <2>2, <2>3, <2>4, <2>5
         DEF ControlTypeOK, Unwritten, Written, Marked, Outcomes
  <1>3. MarkSeparates /\ LateLoginIsTheLast /\ WrittenAtMostOnce
    BY DEF MarkSeparates, Marked, LateLoginIsTheLast, WrittenAtMostOnce, Unwritten
  <1> QED
    BY <1>1, <1>2, <1>3 DEF ControlInv

-----------------------------------------------------------------------------
(* The shape of the controller's state.                                    *)

\* The tracker's numbers only grow, so a mark stays within them.
LEMMA NumbersGrow ==
  ASSUME TypeOK, [Next]_vars
  PROVE  /\ event_sequence' \in Nat /\ event_sequence <= event_sequence'
         /\ failure_sequence' \in Nat /\ failure_sequence <= failure_sequence'
         /\ table_sequence' \in Nat /\ table_sequence <= table_sequence'
  <1> DEFINE Goal == /\ event_sequence' = event_sequence \/ event_sequence' = event_sequence + 1
                     /\ failure_sequence' = failure_sequence
                          \/ failure_sequence' = failure_sequence + 1
                     /\ table_sequence' = table_sequence \/ table_sequence' = table_sequence + 1
  <1> USE DEF eventVars, failVars, tableVars
  <1>1. ASSUME Event PROVE Goal
    BY <1>1 DEF Event, AreaArmModeChange, ArmingFailure, GlobalArmingFailure, AlarmStart,
                AlarmClear
  <1>2. ASSUME Invalidate \/ Fire \/ UNCHANGED vars PROVE Goal
    BY <1>2 DEF Invalidate, Fire, vars
  <1>3. ASSUME NEW r \in Readers, Read(r) PROVE Goal
    BY <1>3 DEF Read, BeginRead, ReadFails, ApplyTable
  <1>4. Goal
    BY <1>1, <1>2, <1>3 DEF Next
  <1> QED
    BY <1>4 DEF TypeOK

\* A result ends a command in a state of the right shape.
LEMMA ReturnType ==
  ASSUME TypeOK', ControlTypeOK, NEW c \in Commands, holder = c,
         NEW o \in Outcomes, NEW by \in {"event", "table", "none"}, Return(c, o, by),
         auth_failed' \in BOOLEAN, late_logins' \in Nat, UNCHANGED <<stopping, rpcs>>,
         CommandReader \notin reading'
  PROVE  ControlTypeOK'
  <1> USE DEF Return
  <1>1. mark' \in [event : 0..event_sequence', failure : 0..failure_sequence',
                   table : 0..table_sequence']
    BY DEF NoMark, TypeOK
  <1>2. want' \in [areas : SUBSET (Areas \union {UnknownArea}), mode : MaybeMode]
    BY DEF NoWant, MaybeMode
  <1>3. since' \in [events : SUBSET Areas, failures : SUBSET Areas, rows : SUBSET Areas]
    BY DEF Nothing
  <1>4. stopping' \in BOOLEAN
    BY DEF ControlTypeOK
  <1>5. outcome' \in [Commands -> Outcomes \union {"none"}]
    BY DEF ControlTypeOK
  <1>6. confirmed_by' \in [Commands -> {"event", "table", "none"}]
    BY DEF ControlTypeOK
  <1> QED
    BY <1>1, <1>2, <1>3, <1>4, <1>5, <1>6 DEF ControlTypeOK, Unwritten, Marked

\* A command that moves on, with nothing new heard, keeps the right shape.
LEMMA GotoType ==
  ASSUME TypeOK, ControlTypeOK, [Next]_vars, NEW c \in Commands, holder = c,
         Marked, NEW l \in Unwritten \union Written, l # "idle", Goto(l), mark' = mark,
         UNCHANGED hubFlags, late_logins' \in Nat, rpcs' \in [Commands -> Nat],
         since' \in [events : SUBSET Areas, failures : SUBSET Areas, rows : SUBSET Areas],
         CommandReader \in reading' <=> l = "reading"
  PROVE  ControlTypeOK'
  <1> USE DEF Goto
  <1>1. mark' \in [event : 0..event_sequence', failure : 0..failure_sequence',
                   table : 0..table_sequence']
    BY NumbersGrow DEF ControlTypeOK, TypeOK
  <1>2. auth_failed' \in BOOLEAN /\ stopping' \in BOOLEAN
    BY DEF ControlTypeOK, hubFlags
  <1> QED
    BY <1>1, <1>2 DEF ControlTypeOK, Marked, ValidCommand

\* The mark is taken within the tracker's numbers.
LEMMA TakeMarkType ==
  ASSUME TypeOK, ControlTypeOK, NEW c \in Commands, TakeMark(c)
  PROVE  ControlTypeOK'
  <1> USE DEF TakeMark, At, Goto, vars
  <1>1. mark' \in [event : 0..event_sequence', failure : 0..failure_sequence',
                   table : 0..table_sequence']
    BY DEF TypeOK, eventVars, failVars, tableVars
  <1>2. auth_failed' \in BOOLEAN /\ stopping' \in BOOLEAN
    BY DEF ControlTypeOK, hubFlags
  <1>3. since' = since /\ late_logins' = late_logins /\ rpcs' = rpcs /\ reading' = reading
    BY DEF history, readVars
  <1> QED
    BY <1>1, <1>2, <1>3 DEF ControlTypeOK, Marked, ValidCommand, Unwritten, Written

\* No step of a command breaks the shape of the controller's state.
LEMMA CommandStepType ==
  ASSUME TypeOK, ControlTypeOK, [Next]_vars, NEW c \in Commands, CommandStep(c)
  PROVE  ControlTypeOK'
  <1>1. TypeOK'
    BY TypeStep
  <1>2. /\ auth_failed \in BOOLEAN /\ stopping \in BOOLEAN
        /\ late_logins \in Nat /\ rpcs \in [Commands -> Nat]
        /\ since \in [events : SUBSET Areas, failures : SUBSET Areas, rows : SUBSET Areas]
        /\ CommandReader \in reading <=> pc = "reading"
    BY DEF ControlTypeOK
  <1>3. CASE Refuse(c)
    BY <1>1, <1>2, <1>3, ReturnType
       DEF Refuse, At, Done, Outcomes, vars, hubFlags, readVars
  <1>4. CASE TakeMark(c)
    BY <1>4, TakeMarkType
  <1>5. CASE LogIn(c)
    BY <1>2, <1>5, GotoType DEF LogIn, At, CountLogin, vars, readVars, Marked, Unwritten
  <1>6. CASE LoginRejected(c)
    BY <1>1, <1>2, <1>6, ReturnType
       DEF LoginRejected, At, Done, Outcomes, CountLogin, vars, readVars
  <1>7. CASE Write(c)
    BY <1>2, <1>7, GotoType DEF Write, At, vars, readVars, Marked, Written
  <1>8. CASE Unreachable(c) \/ ReplyRefused(c)
    BY <1>1, <1>2, <1>8, ReturnType
       DEF Unreachable, ReplyRefused, At, Done, Outcomes, vars, hubFlags, readVars
  <1>9. CASE ReplyAccepted(c) \/ TimeOut(c)
    BY <1>2, <1>9, GotoType
       DEF ReplyAccepted, TimeOut, At, vars, history, readVars, Marked, Written
  <1>10. CASE Confirm(c) \/ HearRefusal(c) \/ StopWaiting(c) \/ NotConfirmed(c)
    BY <1>1, <1>2, <1>10, ReturnType
       DEF Confirm, HearRefusal, StopWaiting, NotConfirmed, At, Done, Outcomes, vars, hubFlags,
           readVars
  <1>11. CASE BeginTableRead(c)
    BY <1>2, <1>11, GotoType DEF BeginTableRead, At, BeginRead, history, Marked, Written
  <1>12. CASE TableRead(c)
    <2>1. since' \in [events : SUBSET Areas, failures : SUBSET Areas, rows : SUBSET Areas]
      BY <1>2, <1>12 DEF TableRead, At, HearRows, Record, Usable
    <2>2. CommandReader \notin reading'
      BY <1>12 DEF TableRead, HearRows, ApplyTable, EndRead
    <2> QED
      BY <1>2, <1>12, <2>1, <2>2, GotoType DEF TableRead, At, Marked, Written
  <1>13. CASE TableUnreadable(c) \/ TableLoginRejected(c)
    BY <1>1, <1>2, <1>13, ReturnType
       DEF TableUnreadable, TableLoginRejected, At, Done, Outcomes, ReadFails, EndRead, hubFlags
  <1> QED
    BY <1>3, <1>4, <1>5, <1>6, <1>7, <1>8, <1>9, <1>10, <1>11, <1>12, <1>13
       DEF CommandStep, Validate, Send, Wait, Verify

\* What the tracker's world does keeps the shape: it only adds to the history.
LEMMA WorldType ==
  ASSUME TypeOK, ControlTypeOK, [Next]_vars, World
  PROVE  ControlTypeOK'
  <1> USE DEF World, commandVars, hubFlags
  <1>1. mark' \in [event : 0..event_sequence', failure : 0..failure_sequence',
                   table : 0..table_sequence']
    BY NumbersGrow DEF ControlTypeOK, TypeOK
  <1>2. since' \in [events : SUBSET Areas, failures : SUBSET Areas, rows : SUBSET Areas]
    BY DEF HearMode, HearFailure, OtherRead, HearRows, Record, Usable, ControlTypeOK
  <1>3. CommandReader \in reading' <=> CommandReader \in reading
    BY DEF HearMode, AreaArmModeChange, HearFailure, ArmingFailure, Invalidate, OtherRead,
           HearRows, BeginRead, ReadFails, EndRead, ApplyTable, readVars
  <1>4. auth_failed' \in BOOLEAN /\ stopping' \in BOOLEAN
    BY DEF ControlTypeOK
  <1> QED
    BY <1>1, <1>2, <1>3, <1>4 DEF ControlTypeOK, Marked, ValidCommand

\* Neither does a call, whether it takes the lock or is turned away.
LEMMA CallType ==
  ASSUME ControlTypeOK, NEW c \in Commands, Call(c)
  PROVE  ControlTypeOK'
  <1>1. auth_failed' \in BOOLEAN /\ stopping' \in BOOLEAN
    BY DEF Call, RejectBusy, Execute, hubFlags, ControlTypeOK
  <1>2. UNCHANGED <<mark, event_sequence, failure_sequence, table_sequence, reading,
                    since, late_logins, rpcs, confirmed_by>>
    BY DEF Call, RejectBusy, Execute, history, vars, eventVars, failVars, tableVars, readVars
  <1>3. CASE RejectBusy(c)
    <2>1. outcome' \in [Commands -> Outcomes \union {"none"}]
      BY <1>3 DEF RejectBusy, ControlTypeOK, Outcomes
    <2>2. holder # NoCommand => outcome'[holder] = "none"
      BY <1>3 DEF RejectBusy, ControlTypeOK
    <2> QED
      BY <1>1, <1>2, <1>3, <2>1, <2>2 DEF RejectBusy, ControlTypeOK, Marked, ValidCommand
  <1>4. ASSUME NEW S \in SUBSET (Areas \union {UnknownArea}), NEW m \in Modes,
               Execute(c, S, m)
        PROVE  ControlTypeOK'
    <2>1. want' \in [areas : SUBSET (Areas \union {UnknownArea}), mode : MaybeMode]
      BY <1>4 DEF Execute, MaybeMode
    <2> QED
      BY <1>1, <1>2, <1>4, <2>1 DEF Execute, ControlTypeOK, Marked, Unwritten
  <1> QED
    BY <1>3, <1>4 DEF Call

\* So no step of the controller or its world breaks the shape of its state.
LEMMA ControlTypeStep ==
  ASSUME TypeOK, ControlTypeOK, [ControlNext]_ctlVars
  PROVE  ControlTypeOK'
  <1>1. [Next]_vars
    BY TrackerStep
  <1>2. CASE LoginRejectedElsewhere \/ Unload \/ UNCHANGED ctlVars
    <2>1. UNCHANGED <<vars, commandVars, history>>
      BY <1>2 DEF LoginRejectedElsewhere, Unload, ctlVars, controlVars
    <2>2. auth_failed' \in BOOLEAN /\ stopping' \in BOOLEAN
      BY <1>2 DEF LoginRejectedElsewhere, Unload, ctlVars, controlVars, hubFlags, ControlTypeOK
    <2> QED
      BY <2>1, <2>2 DEF ControlTypeOK, Marked, ValidCommand, vars, commandVars, history,
                        eventVars, failVars, tableVars, readVars
  <1> QED
    BY <1>1, <1>2, WorldType, CallType, CommandStepType DEF ControlNext

-----------------------------------------------------------------------------
(* The other parts of the invariant.                                       *)

\* What arrives from the world keeps the sides of the mark apart.
LEMMA WorldSeparates ==
  ASSUME TypeOK, ControlTypeOK, MarkSeparates, Marked,
         \/ HearMode \/ HearFailure
         \/ Invalidate /\ UNCHANGED since
         \/ \E r \in Readers : OtherRead(r)
  PROVE  \A a \in Areas :
           /\ last_event_seq'[a] > mark.event <=> a \in since'.events
           /\ last_failure_seq'[a] > mark.failure => a \in since'.failures
           /\ last_table_seq'[a] > mark.table => a \in since'.rows
  <1> DEFINE Goal ==
        \A a \in Areas :
           /\ last_event_seq'[a] > mark.event <=> a \in since'.events
           /\ last_failure_seq'[a] > mark.failure => a \in since'.failures
           /\ last_table_seq'[a] > mark.table => a \in since'.rows
  <1> USE DEF Record
  <1>1. /\ mark.event \in 0..event_sequence
        /\ mark.failure \in 0..failure_sequence
        /\ mark.table \in 0..table_sequence
        /\ since \in [events : SUBSET Areas, failures : SUBSET Areas, rows : SUBSET Areas]
    BY DEF ControlTypeOK
  <1>2. ASSUME HearMode PROVE Goal
    BY <1>1, <1>2 DEF HearMode, AreaArmModeChange, failVars, tableVars, TypeOK, MarkSeparates
  <1>3. ASSUME HearFailure PROVE Goal
    BY <1>1, <1>3 DEF HearFailure, ArmingFailure, eventVars, tableVars, TypeOK, MarkSeparates
  <1>4. ASSUME Invalidate, UNCHANGED since PROVE Goal
    BY <1>4 DEF Invalidate, eventVars, failVars, tableVars, MarkSeparates
  <1>5. ASSUME NEW r \in Readers, OtherRead(r) PROVE Goal
    <2>1. CASE UNCHANGED since /\ (BeginRead(r) \/ ReadFails(r))
      BY <2>1 DEF BeginRead, ReadFails, eventVars, failVars, tableVars, MarkSeparates
    <2>2. CASE HearRows(r)
      BY <1>1, <2>2 DEF HearRows, ApplyTable, eventVars, failVars, TypeOK, MarkSeparates
    <2> QED
      BY <1>5, <2>1, <2>2 DEF OtherRead
  <1> QED
    BY <1>2, <1>3, <1>4, <1>5

\* The mark of a command parts the numbers from before it and after it, whatever
\* comes in while the command is under way.
LEMMA MarkStep ==
  ASSUME TypeOK, ControlTypeOK, MarkSeparates, [ControlNext]_ctlVars
  PROVE  MarkSeparates'
  <1>1. ASSUME UNCHANGED <<vars, mark, since>>, Marked' <=> Marked PROVE MarkSeparates'
    BY <1>1 DEF MarkSeparates, vars, eventVars, failVars, tableVars
  <1>2. ASSUME NEW c \in Commands, NEW o, NEW by, Return(c, o, by) PROVE MarkSeparates'
    BY <1>2 DEF Return, Marked, MarkSeparates
  <1>3. CASE World
    <2>1. mark' = mark /\ (Marked' <=> Marked)
      BY <1>3 DEF World, commandVars, Marked
    <2>2. CASE Marked
      BY <1>3, <2>1, <2>2, WorldSeparates DEF World, MarkSeparates
    <2>3. CASE ~Marked
      BY <1>3, <2>1, <2>3
         DEF World, HearMode, HearFailure, OtherRead, HearRows, Record, MarkSeparates
    <2> QED
      BY <2>2, <2>3
  <1>4. CASE LoginRejectedElsewhere \/ Unload \/ UNCHANGED ctlVars
    BY <1>1, <1>4 DEF LoginRejectedElsewhere, Unload, ctlVars, controlVars, commandVars,
                      history, Marked
  <1>5. ASSUME NEW c \in Commands, Call(c) PROVE MarkSeparates'
    <2>1. CASE RejectBusy(c)
      BY <1>1, <2>1 DEF RejectBusy, history, Marked
    <2>2. CASE \E S \in SUBSET (Areas \union {UnknownArea}), m \in Modes : Execute(c, S, m)
      BY <1>1, <2>2 DEF Execute, Marked, history, ControlTypeOK
    <2> QED
      BY <1>5, <2>1, <2>2 DEF Call
  <1>6. ASSUME NEW c \in Commands, CommandStep(c) PROVE MarkSeparates'
    <2>1. CASE TakeMark(c)
      <3>1. since' = Nothing /\ Marked' /\ UNCHANGED vars
        BY <2>1 DEF TakeMark, At, Goto, Marked, history, MarkSeparates
      <3> QED
        BY <2>1, <3>1 DEF TakeMark, Nothing, MarkSeparates, TypeOK, vars, eventVars, failVars,
                          tableVars
    <2>2. CASE LogIn(c) \/ Write(c) \/ ReplyAccepted(c) \/ TimeOut(c)
      BY <1>1, <2>2 DEF LogIn, Write, ReplyAccepted, TimeOut, At, Goto, Marked, history
    <2>3. CASE BeginTableRead(c)
      <3>1. Marked /\ Marked' /\ UNCHANGED <<mark, since, eventVars, failVars, tableVars>>
        BY <2>3 DEF BeginTableRead, BeginRead, At, Goto, Marked, history
      <3> QED
        BY <3>1 DEF MarkSeparates, eventVars, failVars, tableVars
    <2>4. CASE TableRead(c)
      <3>1. Marked /\ Marked' /\ mark' = mark /\ OtherRead(CommandReader)
        BY <2>4 DEF TableRead, At, Goto, Marked, OtherRead
      <3> QED
        BY <3>1, WorldSeparates DEF MarkSeparates
    <2>5. CASE \/ Refuse(c) \/ LoginRejected(c) \/ Unreachable(c) \/ ReplyRefused(c)
               \/ Confirm(c) \/ HearRefusal(c) \/ StopWaiting(c) \/ TableUnreadable(c)
               \/ TableLoginRejected(c) \/ NotConfirmed(c)
      BY <1>2, <2>5 DEF Refuse, LoginRejected, Unreachable, ReplyRefused, Confirm, HearRefusal,
                   StopWaiting, TableUnreadable, TableLoginRejected, NotConfirmed, Done
    <2> QED
      BY <1>6, <2>1, <2>2, <2>3, <2>4, <2>5
         DEF CommandStep, Validate, Send, Wait, Verify
  <1> QED
    BY <1>3, <1>4, <1>5, <1>6 DEF ControlNext

\* Once the credentials are known to be bad no command gets past its checks, so
\* only the one that had can still log in.
LEMMA LateStep ==
  ASSUME ControlTypeOK, LateLoginIsTheLast, [ControlNext]_ctlVars
  PROVE  LateLoginIsTheLast'
  <1> late_logins \in Nat
    BY DEF ControlTypeOK
  <1> USE DEF LateLoginIsTheLast
  <1>1. CASE World \/ LoginRejectedElsewhere \/ Unload \/ UNCHANGED ctlVars
    BY <1>1 DEF World, LoginRejectedElsewhere, Unload, ctlVars, controlVars, commandVars,
                hubFlags, history
  <1>2. ASSUME NEW c \in Commands, Call(c) PROVE LateLoginIsTheLast'
    BY <1>2 DEF Call, RejectBusy, Execute, hubFlags, history
  <1>3. ASSUME NEW c \in Commands, CommandStep(c) PROVE LateLoginIsTheLast'
    <2>1. CASE Validate(c)
      BY <2>1 DEF Validate, Refuse, TakeMark, Done, Return, hubFlags, history
    <2>2. CASE LogIn(c) \/ LoginRejected(c)
      <3>1. late_logins = 0 /\ pc = "opening"
        BY <2>2 DEF LogIn, LoginRejected, At
      <3>2. late_logins' = IF auth_failed THEN 1 ELSE 0
        BY <2>2, <3>1 DEF LogIn, LoginRejected, CountLogin
      <3>3. pc' # "opening" /\ (auth_failed => auth_failed')
        BY <2>2 DEF LogIn, LoginRejected, Goto, Done, Return, hubFlags
      <3> QED
        BY <3>2, <3>3
    <2>3. CASE Write(c) \/ Unreachable(c) \/ ReplyAccepted(c) \/ ReplyRefused(c)
      BY <2>3 DEF Write, Unreachable, ReplyAccepted, ReplyRefused, Goto, Done, Return,
                  hubFlags, history
    <2>4. CASE Wait(c)
      BY <2>4 DEF Wait, Confirm, HearRefusal, StopWaiting, TimeOut, Goto, Done, Return,
                  hubFlags, history
    <2>5. CASE Verify(c)
      BY <2>5 DEF Verify, BeginTableRead, TableRead, TableUnreadable, TableLoginRejected,
                  NotConfirmed, Goto, Done, Return, hubFlags, history
    <2> QED
      BY <1>3, <2>1, <2>2, <2>3, <2>4, <2>5 DEF CommandStep, Send
  <1> QED
    BY <1>1, <1>2, <1>3 DEF ControlNext

\* A command is written in one step only, before it has a result.
LEMMA WrittenStep ==
  ASSUME ControlTypeOK, WrittenAtMostOnce, [ControlNext]_ctlVars
  PROVE  WrittenAtMostOnce'
  <1> USE DEF WrittenAtMostOnce, Unwritten
  <1>1. CASE World \/ LoginRejectedElsewhere \/ Unload \/ UNCHANGED ctlVars
    BY <1>1 DEF World, LoginRejectedElsewhere, Unload, ctlVars, controlVars, commandVars,
                history
  <1>2. ASSUME NEW c \in Commands, Call(c) PROVE WrittenAtMostOnce'
    BY <1>2 DEF Call, RejectBusy, Execute, history, ControlTypeOK
  <1>3. ASSUME NEW c \in Commands, CommandStep(c) PROVE WrittenAtMostOnce'
    <2>1. ASSUME NEW o \in Outcomes, NEW by, Return(c, o, by), UNCHANGED rpcs, holder = c,
                 o = "REJECTED" => pc = "locked"
          PROVE  WrittenAtMostOnce'
      BY <2>1 DEF Return, ControlTypeOK, Outcomes
    <2>2. CASE Refuse(c) \/ LoginRejected(c) \/ Unreachable(c) \/ ReplyRefused(c)
      BY <2>1, <2>2 DEF Refuse, LoginRejected, Unreachable, ReplyRefused, At, Done, Outcomes
    <2>3. CASE Write(c)
      <3>1. rpcs[c] = 0
        BY <2>3 DEF Write, At, ControlTypeOK
      <3> QED
        BY <2>3, <3>1 DEF Write, At, Goto, ControlTypeOK
    <2>4. CASE TakeMark(c) \/ LogIn(c)
      BY <2>4 DEF TakeMark, LogIn, At, Goto, history
    <2>5. CASE ReplyAccepted(c) \/ TimeOut(c) \/ BeginTableRead(c) \/ TableRead(c)
      BY <2>5 DEF ReplyAccepted, TimeOut, BeginTableRead, TableRead, At, Goto, history
    <2>6. CASE Confirm(c) \/ HearRefusal(c) \/ StopWaiting(c)
      BY <2>1, <2>6 DEF Confirm, HearRefusal, StopWaiting, At, Done, Outcomes
    <2>7. CASE TableUnreadable(c) \/ TableLoginRejected(c) \/ NotConfirmed(c)
      BY <2>1, <2>7 DEF TableUnreadable, TableLoginRejected, NotConfirmed, At, Done, Outcomes
    <2> QED
      BY <1>3, <2>2, <2>3, <2>4, <2>5, <2>6, <2>7
         DEF CommandStep, Validate, Send, Wait, Verify
  <1> QED
    BY <1>1, <1>2, <1>3 DEF ControlNext

\* The inductive invariant holds in every reachable state.
LEMMA ControlInductive == ControlSpec => []ControlInv
  <1>1. ASSUME ControlInv, [ControlNext]_ctlVars PROVE ControlInv'
    <2>1. IInv'
      BY <1>1, TrackerStep, InvStep DEF ControlInv
    <2>2. TypeOK
      BY <1>1 DEF ControlInv, IInv
    <2> QED
      BY <1>1, <2>1, <2>2, ControlTypeStep, MarkStep, LateStep, WrittenStep DEF ControlInv
  <1> QED
    BY ControlInitInv, <1>1, PTL DEF ControlSpec

-----------------------------------------------------------------------------
(* What follows for the commands.                                          *)

\* The lock is held exactly while a command is under way, by a command without
\* a result, and its reader reads exactly while it does.
THEOREM ControlTypeCorrect == ControlSpec => []ControlTypeOK
  BY ControlInductive, PTL DEF ControlInv

\* Bad credentials cost at most one more login of the controller, however many
\* commands are called and whoever else was rejected.
THEOREM LateLoginsAreFew == ControlSpec => []AtMostOneLateLogin
  <1>1. ControlInv => AtMostOneLateLogin
    BY DEF ControlInv, ControlTypeOK, LateLoginIsTheLast, AtMostOneLateLogin
  <1> QED
    BY ControlInductive, <1>1, PTL

\* No command is written to the hub twice, and one that was turned away never
\* was: a lost reply is reported and not tried again.
THEOREM RequestsAreWrittenOnce == ControlSpec => []WrittenAtMostOnce
  BY ControlInductive, PTL DEF ControlInv

\* Only _confirm's two places confirm a command, and they do what Confirm says.
LEMMA OnlyConfirmConfirms ==
  ASSUME ControlTypeOK, [ControlNext]_ctlVars, NEW c \in Commands, EndsAs(c, "CONFIRMED")
  PROVE  Confirm(c)
  <1> USE DEF EndsAs
  <1>1. CASE World \/ LoginRejectedElsewhere \/ Unload \/ UNCHANGED ctlVars
    BY <1>1 DEF World, LoginRejectedElsewhere, Unload, ctlVars, controlVars, commandVars
  <1>2. ASSUME NEW d \in Commands, Call(d) PROVE FALSE
    BY <1>2 DEF Call, RejectBusy, Execute, ControlTypeOK
  <1>3. ASSUME NEW d \in Commands, CommandStep(d) PROVE Confirm(c)
    <2>1. ASSUME NEW o, NEW by, Return(d, o, by), o # "CONFIRMED" PROVE FALSE
      BY <2>1 DEF Return, ControlTypeOK
    <2>2. CASE Validate(d)
      BY <2>1, <2>2 DEF Validate, Refuse, TakeMark, Goto, Done
    <2>3. CASE Send(d)
      BY <2>1, <2>3 DEF Send, LogIn, LoginRejected, Write, Unreachable, ReplyAccepted,
                        ReplyRefused, Goto, Done
    <2>4. CASE Wait(d)
      <3>1. Confirm(d)
        BY <2>1, <2>4 DEF Wait, HearRefusal, StopWaiting, TimeOut, Goto, Done
      <3>2. c = d
        BY <3>1 DEF Confirm, Return, ControlTypeOK
      <3> QED
        BY <3>1, <3>2
    <2>5. CASE Verify(d)
      BY <2>1, <2>5 DEF Verify, BeginTableRead, TableRead, TableUnreadable,
                        TableLoginRejected, NotConfirmed, Goto, Done
    <2> QED
      BY <1>3, <2>2, <2>3, <2>4, <2>5 DEF CommandStep
  <1> QED
    BY <1>1, <1>2, <1>3 DEF ControlNext

\* A command is confirmed only by what the tracker heard of every target area
\* after the mark, and only in the mode asked for.
THEOREM ConfirmationsHaveEvidence == ControlSpec => NoStaleSuccess
  <1>1. ASSUME ControlInv, [ControlNext]_ctlVars PROVE [ConfirmationHasEvidence]_ctlVars
    <2> SUFFICES ASSUME NEW c \in Commands, EndsAs(c, "CONFIRMED")
                 PROVE  /\ \A a \in want.areas : raw_mode[a] = want.mode
                        /\ confirmed_by'[c] = "event" => want.areas \subseteq since.events
                        /\ want.areas \subseteq since.events \union since.rows
      BY DEF ConfirmationHasEvidence
    <2>1. Confirm(c)
      BY <1>1, OnlyConfirmConfirms DEF ControlInv
    <2>2. Marked /\ want.areas \subseteq Areas
      BY <1>1, <2>1 DEF Confirm, Marked, ControlInv, ControlTypeOK, ValidCommand
    <2>3. \A a \in want.areas : /\ ByEvent(a) => a \in since.events
                                /\ ByTable(a) => a \in since.rows
      BY <1>1, <2>2 DEF ControlInv, MarkSeparates, ByEvent, ByTable
    <2>4. confirmed_by'[c] = "event" => \A a \in want.areas : ByEvent(a)
      BY <1>1, <2>1 DEF Confirm, Return, ControlInv, ControlTypeOK
    <2> QED
      BY <2>1, <2>3, <2>4 DEF Confirm, Confirmed
  <1> QED
    BY ControlInductive, <1>1, PTL DEF ControlSpec, NoStaleSuccess

\* A command the hub accepted is refused only where the tracker hears a refusal.
LEMMA OnlyHearRefusalRefuses ==
  ASSUME ControlTypeOK, [ControlNext]_ctlVars, NEW c \in Commands, EndsAs(c, "REFUSED"),
         pc # "sent"
  PROVE  HearRefusal(c)
  <1> USE DEF EndsAs
  <1>1. CASE World \/ LoginRejectedElsewhere \/ Unload \/ UNCHANGED ctlVars
    BY <1>1 DEF World, LoginRejectedElsewhere, Unload, ctlVars, controlVars, commandVars
  <1>2. ASSUME NEW d \in Commands, Call(d) PROVE FALSE
    BY <1>2 DEF Call, RejectBusy, Execute, ControlTypeOK
  <1>3. ASSUME NEW d \in Commands, CommandStep(d) PROVE HearRefusal(c)
    <2>1. ASSUME NEW o, NEW by, Return(d, o, by), o # "REFUSED" PROVE FALSE
      BY <2>1 DEF Return, ControlTypeOK
    <2>2. CASE Validate(d)
      BY <2>1, <2>2 DEF Validate, Refuse, TakeMark, Goto, Done
    <2>3. CASE Send(d)
      BY <2>1, <2>3 DEF Send, LogIn, LoginRejected, Write, Unreachable, ReplyAccepted,
                        ReplyRefused, At, Goto, Done
    <2>4. CASE Wait(d)
      <3>1. HearRefusal(d)
        BY <2>1, <2>4 DEF Wait, Confirm, StopWaiting, TimeOut, Goto, Done
      <3>2. c = d
        BY <3>1 DEF HearRefusal, Done, Return, ControlTypeOK
      <3> QED
        BY <3>1, <3>2
    <2>5. CASE Verify(d)
      BY <2>1, <2>5 DEF Verify, BeginTableRead, TableRead, TableUnreadable,
                        TableLoginRejected, NotConfirmed, Goto, Done
    <2> QED
      BY <1>3, <2>2, <2>3, <2>4, <2>5 DEF CommandStep
  <1> QED
    BY <1>1, <1>2, <1>3 DEF ControlNext

\* An arming failure from before a command never refuses it, and neither does a
\* new one once events have shown every target in the mode asked for.
THEOREM RefusalsHaveEvidence == ControlSpec => NoStaleRefusal
  <1>1. ASSUME ControlInv, [ControlNext]_ctlVars PROVE [RefusalHasEvidence]_ctlVars
    <2> SUFFICES ASSUME NEW c \in Commands, EndsAs(c, "REFUSED"), pc # "sent"
                 PROVE  /\ want.areas \intersect since.failures # {}
                        /\ \E a \in want.areas :
                             raw_mode[a] # want.mode \/ a \notin since.events
      BY DEF RefusalHasEvidence
    <2>1. HearRefusal(c)
      BY <1>1, OnlyHearRefusalRefuses DEF ControlInv
    <2>2. Marked /\ want.areas \subseteq Areas
      BY <1>1, <2>1 DEF HearRefusal, Marked, ControlInv, ControlTypeOK, ValidCommand
    <2>3. \A a \in want.areas : /\ a \in since.events => ByEvent(a)
                                /\ last_failure_seq[a] > mark.failure => a \in since.failures
      BY <1>1, <2>2 DEF ControlInv, MarkSeparates, ByEvent
    <2>4. \E a \in want.areas : last_failure_seq[a] > mark.failure
      BY <2>1 DEF HearRefusal, Refused
    <2>5. \E a \in want.areas : raw_mode[a] # want.mode \/ ~ByEvent(a)
      BY <2>1 DEF HearRefusal, Refused, Confirmed
    <2> QED
      BY <2>3, <2>4, <2>5
  <1> QED
    BY ControlInductive, <1>1, PTL DEF ControlSpec, NoStaleRefusal

-----------------------------------------------------------------------------
(* The controller keeps the safety part of CommandContract.                *)

Status == [c \in Commands |-> StatusOf(c)]

\* What the contract calls a command, by where the command is.
LEMMA StatusCases ==
  ASSUME ControlTypeOK, NEW c \in Commands
  PROVE  /\ outcome[c] # "none" => StatusOf(c) = outcome[c]
         /\ outcome[c] = "none" /\ holder # c => StatusOf(c) = "new"
         /\ holder = c /\ pc \in Written => StatusOf(c) = "sent"
         /\ holder = c /\ pc \notin Written => StatusOf(c) = "open"
  BY DEF StatusOf, ControlTypeOK

\* Only the command of a step changes its standing.
LEMMA StatusChange ==
  ASSUME NEW c \in Commands,
         \A d \in Commands \ {c} : outcome'[d] = outcome[d] /\ (holder' = d <=> holder = d),
         UNCHANGED pc \/ \A d \in Commands \ {c} : holder # d
  PROVE  Status' = [Status EXCEPT ![c] = StatusOf(c)']
  <1>1. ASSUME NEW d \in Commands \ {c} PROVE StatusOf(d)' = StatusOf(d)
    <2>1. outcome'[d] = outcome[d] /\ (holder' = d <=> holder = d)
      OBVIOUS
    <2>2. CASE holder # d
      BY <2>1, <2>2 DEF StatusOf
    <2>3. CASE holder = d
      <3>1. pc' = pc
        BY <2>3
      <3> QED
        BY <2>1, <3>1 DEF StatusOf
    <2> QED
      BY <2>2, <2>3
  <1> QED
    BY <1>1 DEF Status

\* A result is what the contract sees of the step that returns it.
LEMMA ReturnedStatus ==
  ASSUME ControlTypeOK, NEW c \in Commands, holder = c, NEW o \in Outcomes, NEW by,
         Return(c, o, by)
  PROVE  Status' = [Status EXCEPT ![c] = o]
  <1>1. /\ outcome'[c] = o /\ o # "none"
        /\ \A d \in Commands \ {c} : outcome'[d] = outcome[d]
    BY DEF Return, ControlTypeOK, Outcomes
  <1>2. \A d \in Commands \ {c} : holder # d /\ holder' # d
    BY DEF Return
  <1>3. StatusOf(c)' = o
    <2>1. holder' # c
      BY DEF Return
    <2> QED
      BY <1>1, <2>1 DEF StatusOf
  <1> QED
    BY <1>1, <1>2, <1>3, StatusChange

\* Between the write and the result, and before the write, the contract sees
\* nothing of a command's steps.
LEMMA UnseenMove ==
  ASSUME ControlTypeOK, NEW c \in Commands, holder = c, NEW l, Goto(l),
         pc \in Written <=> l \in Written
  PROVE  Status' = Status
  <1>1. ASSUME NEW d \in Commands PROVE StatusOf(d)' = StatusOf(d)
    <2>1. outcome' = outcome /\ holder' = holder /\ (pc' \in Written <=> pc \in Written)
      BY DEF Goto
    <2>2. CASE pc \in Written
      BY <2>1, <2>2 DEF StatusOf
    <2>3. CASE pc \notin Written
      BY <2>1, <2>3 DEF StatusOf
    <2> QED
      BY <2>2, <2>3
  <1> QED
    BY <1>1 DEF Status

\* Every step of a command is one the contract allows, or none it can see.
LEMMA CommandKeepsContract ==
  ASSUME ControlTypeOK, NEW c \in Commands, CommandStep(c)
  PROVE  [Contract!Next]_<<Status, rpcs>>
  <1> USE DEF Status
  <1>1. holder = c
    BY DEF CommandStep, Validate, Send, Wait, Verify, Refuse, TakeMark, LogIn, LoginRejected,
           Write, Unreachable, ReplyAccepted, ReplyRefused, Confirm, HearRefusal, StopWaiting,
           TimeOut, BeginTableRead, TableRead, TableUnreadable, TableLoginRejected,
           NotConfirmed, At
  <1>2. /\ pc \in Written => Status[c] = "sent"
        /\ pc \notin Written => Status[c] = "open"
    BY <1>1, StatusCases
  <1>3. ASSUME NEW o \in Outcomes, NEW by, Return(c, o, by), UNCHANGED rpcs,
               \/ pc \in Written /\ o # "REJECTED"
               \/ pc \notin Written /\ o \in {"REJECTED", "FAILED", "AUTH_FAILED"}
        PROVE  Contract!Next
    <2>1. Status' = [Status EXCEPT ![c] = o]
      BY <1>1, <1>3, ReturnedStatus
    <2>2. Contract!Becomes(c, o)
      BY <2>1 DEF Contract!Becomes
    <2>3. CASE pc \in Written /\ o # "REJECTED"
      BY <1>2, <1>3, <2>2, <2>3
         DEF Outcomes, Contract!Outcomes, Contract!Conclude, Contract!Progress, Contract!Next
    <2>4. CASE pc \notin Written /\ o = "REJECTED"
      BY <1>2, <1>3, <2>2, <2>4 DEF Contract!Reject, Contract!Progress, Contract!Next
    <2>5. CASE pc \notin Written /\ o \in {"FAILED", "AUTH_FAILED"}
      BY <1>2, <1>3, <2>2, <2>5 DEF Contract!GiveUp, Contract!Progress, Contract!Next
    <2> QED
      BY <1>3, <2>3, <2>4, <2>5
  <1>4. CASE Refuse(c) \/ LoginRejected(c)
    BY <1>3, <1>4 DEF Refuse, LoginRejected, At, Done, Outcomes, Written
  <1>5. CASE Unreachable(c) \/ ReplyRefused(c)
    BY <1>3, <1>5 DEF Unreachable, ReplyRefused, At, Done, Outcomes, Written
  <1>6. CASE Confirm(c) \/ HearRefusal(c) \/ StopWaiting(c) \/ NotConfirmed(c)
    BY <1>3, <1>6 DEF Confirm, HearRefusal, StopWaiting, NotConfirmed, At, Done, Outcomes,
                      Written
  <1>7. CASE TableUnreadable(c) \/ TableLoginRejected(c)
    BY <1>3, <1>7 DEF TableUnreadable, TableLoginRejected, At, Done, Outcomes, Written
  <1>8. CASE TakeMark(c) \/ LogIn(c) \/ ReplyAccepted(c)
    BY <1>1, <1>8, UnseenMove DEF TakeMark, LogIn, ReplyAccepted, At, Written, history
  <1>9. CASE TimeOut(c) \/ BeginTableRead(c) \/ TableRead(c)
    BY <1>1, <1>9, UnseenMove DEF TimeOut, BeginTableRead, TableRead, At, Written, history
  <1>10. CASE Write(c)
    <2>1. pc \notin Written /\ pc' = "sent" /\ outcome' = outcome /\ holder' = holder
      BY <1>10 DEF Write, At, Goto, Written
    <2>2. StatusOf(c)' = "sent"
      BY <1>1, <2>1 DEF StatusOf, ControlTypeOK, Written
    <2>3. Status' = [Status EXCEPT ![c] = "sent"]
      BY <1>1, <2>1, <2>2, StatusChange
    <2> QED
      BY <1>2, <1>10, <2>1, <2>3
         DEF Write, Contract!Becomes, Contract!Send, Contract!Progress, Contract!Next
  <1> QED
    BY <1>4, <1>5, <1>6, <1>7, <1>8, <1>9, <1>10
       DEF CommandStep, Validate, Send, Wait, Verify

\* So is a call: the lock is taken only while no command is under way, and a
\* command that is turned away has not been taken up.
LEMMA CallKeepsContract ==
  ASSUME ControlTypeOK, NEW c \in Commands, Call(c)
  PROVE  Contract!Next
  <1> USE DEF Status
  <1>1. outcome[c] = "none" /\ holder # c
    BY DEF Call, RejectBusy, Execute, ControlTypeOK
  <1>2. Status[c] = "new" /\ rpcs' = rpcs
    BY <1>1, StatusCases DEF Call, RejectBusy, Execute, history
  <1>3. CASE RejectBusy(c)
    <2>1. /\ holder' = holder /\ pc' = pc /\ outcome'[c] = "REJECTED"
          /\ \A d \in Commands \ {c} : outcome'[d] = outcome[d]
      BY <1>3 DEF RejectBusy, ControlTypeOK
    <2>2. StatusOf(c)' = "REJECTED"
      BY <1>1, <2>1 DEF StatusOf
    <2>3. Status' = [Status EXCEPT ![c] = "REJECTED"]
      BY <2>1, <2>2, StatusChange
    <2> QED
      BY <1>2, <2>3 DEF Contract!Becomes, Contract!Reject, Contract!Next
  <1>4. CASE \E S \in SUBSET (Areas \union {UnknownArea}), m \in Modes : Execute(c, S, m)
    <2>1. /\ holder = NoCommand /\ holder' = c /\ pc' \notin Written
          /\ outcome' = outcome
      BY <1>4 DEF Execute, Written
    <2>2. StatusOf(c)' = "open"
      BY <1>1, <2>1 DEF StatusOf
    <2>3. Status' = [Status EXCEPT ![c] = "open"]
      BY <2>1, <2>2, StatusChange
    <2>4. ASSUME NEW d \in Commands PROVE Status[d] \notin {"open", "sent"}
      BY <2>1, StatusCases DEF ControlTypeOK, Outcomes
    <2> QED
      BY <1>2, <2>3, <2>4
         DEF Contract!InFlight, Contract!Becomes, Contract!Accept, Contract!Next
  <1> QED
    BY <1>3, <1>4 DEF Call

\* The controller implements the safety part of the contract: whatever the hub
\* answers and whatever the tracker hears, each of its steps is one of the
\* contract's or changes nothing the contract speaks of.
THEOREM ControllerKeepsContract == ControlSpec => Contract!SafetySpec
  <1> USE DEF Status
  <1>1. ControlInit => Contract!Init
    <2> SUFFICES ASSUME ControlInit PROVE Contract!Init
      OBVIOUS
    <2>1. \A c \in Commands : StatusOf(c) = "new"
      BY DEF ControlInit, StatusOf
    <2> QED
      BY <2>1 DEF ControlInit, Contract!Init
  <1>2. ASSUME ControlTypeOK, [ControlNext]_ctlVars PROVE [Contract!Next]_<<Status, rpcs>>
    <2>1. CASE World \/ LoginRejectedElsewhere \/ Unload \/ UNCHANGED ctlVars
      <3>1. UNCHANGED <<holder, pc, outcome, rpcs>>
        BY <2>1 DEF World, LoginRejectedElsewhere, Unload, ctlVars, controlVars, commandVars,
                    history
      <3>2. \A c \in Commands : StatusOf(c)' = StatusOf(c)
        BY <3>1 DEF StatusOf
      <3> QED
        BY <3>1, <3>2
    <2> QED
      BY <1>2, <2>1, CallKeepsContract, CommandKeepsContract DEF ControlNext
  <1> QED
    BY <1>1, <1>2, ControlTypeCorrect, PTL DEF ControlSpec, Contract!SafetySpec

=============================================================================
