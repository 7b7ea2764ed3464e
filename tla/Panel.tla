-------------------------------- MODULE Panel --------------------------------
(***************************************************************************)
(* The alarm panels of alarm_control_panel.py with the code check of       *)
(* arm_code.py: one panel for every area and one per area, each with its   *)
(* own attempt limiter and pending flag, all on one arm controller.        *)
(*                                                                         *)
(* A call runs on the event loop and leaves it twice, for the code check   *)
(* and for execute; other calls, the tracker's events and time pass in     *)
(* between.  The controller is CommandContract, which ArmControl refines.  *)
(***************************************************************************)
EXTENDS Integers, Sequences, FiniteSets

CONSTANTS
  Calls,      \* calls of async_alarm_disarm, _arm_home and _arm_away
  Areas,      \* the enabled areas of the ARC
  ArmModes,   \* mode codes of the arm calls, without Disarm
  Disarm,     \* the mode code "D"
  NoMode,     \* an area whose mode is unknown
  MaxAttempts, Window, Lockout,  \* of the AttemptLimiter
  MaxTime, MaxEvents             \* bounds of the model: clock, mode events

ASSUME PanelAssumption ==
  /\ Areas # {}
  /\ Disarm \notin ArmModes
  /\ NoMode \notin ArmModes \union {Disarm}
  /\ MaxAttempts \in Nat \ {0}
  /\ Window \in Nat /\ Lockout \in Nat /\ Window <= Lockout

ASSUME PanelBounds == MaxTime \in Nat /\ MaxEvents \in Nat

VARIABLES
  coded,        \* options: which of "disarm" and "arm" need the code
  usable,       \* the hub is available and its credentials are not rejected
  mode,         \* area -> raw_mode of the tracker
  pending,      \* panel -> "arming", "disarming" or "none"
  failures,     \* panel -> times of the limiter's wrong codes
  locked_until, \* panel -> end of its lockout
  call,         \* call -> what is asked and where it is
  now,          \* the monotonic clock
  events,       \* mode events so far (bounded by MaxEvents)
  command,      \* call -> status of its command in the controller
  rpcs,         \* call -> arm requests written to the ARC
  wrongs        \* history: panel -> times of all wrong codes since a right one

world == <<coded, usable, mode, events, now>>
limiterVars == <<failures, locked_until, wrongs>>
contractVars == <<command, rpcs>>
vars == <<world, limiterVars, contractVars, pending, call>>

Controller == INSTANCE CommandContract WITH Commands <- Calls, status <- command

\* A panel is the set of areas it commands.
Panels == {Areas} \union {{a} : a \in Areas}
Modes == ArmModes \union {Disarm}
Codes == {"right", "wrong", "none"}
Action(m) == IF m = Disarm THEN "disarm" ELSE "arm"
PendingFor(m) == IF m = Disarm THEN "disarming" ELSE "arming"

NotMade == [panel |-> {}, mode |-> NoMode, code |-> "none", at |-> "new",
            result |-> "none"]

Init ==
  /\ coded \in SUBSET {"disarm", "arm"}
  /\ usable = TRUE
  /\ mode \in [Areas -> Modes \union {NoMode}]
  /\ pending = [p \in Panels |-> "none"]
  /\ failures = [p \in Panels |-> <<>>]
  /\ locked_until = [p \in Panels |-> 0]
  /\ wrongs = [p \in Panels |-> <<>>]
  /\ call = [c \in Calls |-> NotMade]
  /\ now = 0
  /\ events = 0
  /\ Controller!Init

-----------------------------------------------------------------------------
(* AttemptLimiter.                                                         *)

Locked(p) == locked_until[p] > now

\* mutant: a code as old as the window is dropped
FirstStrict(s) == CHOOSE i \in DOMAIN s : /\ now - s[i] < Window
                                          /\ \A j \in 1..(i - 1) : now - s[j] >= Window

\* The times are dropped from the left up to the first one within the window,
\* which the last one, just appended, is.
First(s) == CHOOSE i \in DOMAIN s : /\ now - s[i] <= Window
                                    /\ \A j \in 1..(i - 1) : now - s[j] > Window

Recent(s) == SubSeq(s, First(s), Len(s))

\* mutant: a lockout does not empty the list
RecordFailureKeeps(p) ==
  LET fs == Recent(Append(failures[p], now)) IN
  /\ wrongs' = [wrongs EXCEPT ![p] = Append(@, now)]
  /\ failures' = [failures EXCEPT ![p] = fs]
  /\ locked_until' = [locked_until EXCEPT ![p] =
                        IF Len(fs) >= MaxAttempts THEN now + Lockout ELSE @]

RecordFailure(p) ==
  LET fs == Recent(Append(failures[p], now))
      full == Len(fs) >= MaxAttempts IN
  /\ wrongs' = [wrongs EXCEPT ![p] = Append(@, now)]
  /\ failures' = [failures EXCEPT ![p] = IF full THEN <<>> ELSE fs]
  /\ locked_until' = [locked_until EXCEPT ![p] = IF full THEN now + Lockout ELSE @]

RecordSuccess(p) ==
  /\ failures' = [failures EXCEPT ![p] = <<>>]
  /\ wrongs' = [wrongs EXCEPT ![p] = <<>>]
  /\ UNCHANGED locked_until

-----------------------------------------------------------------------------
(* A call: _async_command.                                                 *)

Goes(c, at) == call' = [call EXCEPT ![c].at = at]
Ends(c, result) ==
  call' = [call EXCEPT ![c] = [NotMade EXCEPT !.at = "ended", !.result = result]]

\* The call c as it is made.
Made(c, p, m, k, at) ==
  call' = [call EXCEPT ![c] =
             [panel |-> p, mode |-> m, code |-> k, at |-> at, result |-> "none"]]

AlreadyThere(p, m) == \A a \in p : mode[a] = m

\* The gate is open: nothing to do, or the command is on its way to a thread.
Proceed(c, p, m, k) ==
  \/ AlreadyThere(p, m) /\ Ends(c, "done") /\ UNCHANGED pending
  \/ /\ ~AlreadyThere(p, m)
     /\ Made(c, p, m, k, "submitted")
     /\ pending' = [pending EXCEPT ![p] = PendingFor(m)]

NeedsCode(m) == Action(m) \in coded

TurnedAway(c, p, m, k) ==
  /\ \/ ~usable /\ Ends(c, "arm_unavailable")
     \/ usable /\ NeedsCode(m) /\ Locked(p) /\ Ends(c, "invalid_code_locked")
     \/ usable /\ NeedsCode(m) /\ ~Locked(p) /\ k = "none" /\ Ends(c, "code_required")
  /\ UNCHANGED pending

\* Up to the first await, on the event loop.  A code nobody asks for is not read.
Press(c, p, m, k) ==
  /\ call[c].at = "new"
  /\ \/ TurnedAway(c, p, m, k)
     \/ /\ usable /\ NeedsCode(m) /\ ~Locked(p) /\ k # "none"
        /\ Made(c, p, m, k, "verifying")
        /\ UNCHANGED pending
     \/ usable /\ ~NeedsCode(m) /\ k = "none" /\ Proceed(c, p, m, k)
  /\ UNCHANGED <<world, limiterVars, contractVars>>

\* verify_code has returned.
Verified(c) ==
  LET p == call[c].panel
      m == call[c].mode IN
  /\ call[c].at = "verifying"
  /\ \/ /\ call[c].code = "wrong"
        /\ RecordFailure(p)
        /\ Ends(c, "invalid_code")
        /\ UNCHANGED pending
     \/ /\ call[c].code = "right"
        /\ RecordSuccess(p)
        /\ Proceed(c, p, m, "right")
  /\ UNCHANGED <<world, contractVars>>

\* execute begins on its thread: the controller takes it or is busy.
Execute(c) ==
  /\ call[c].at = "submitted"
  /\ Goes(c, "running")
  /\ \/ Controller!Accept(c)
     \/ /\ \E d \in Calls : command[d] \in Controller!InFlight
        /\ Controller!Reject(c)
  /\ UNCHANGED <<world, limiterVars, pending>>

\* execute works on.  A command is confirmed by the tracker's state alone.
Work(c) ==
  /\ call[c].at = "running"
  /\ Controller!Progress(c)
  /\ command'[c] = "CONFIRMED" => AlreadyThere(call[c].panel, call[c].mode)
  /\ usable' = (usable /\ command'[c] # "AUTH_FAILED")
  /\ UNCHANGED <<coded, mode, events, now, limiterVars, pending, call>>

\* What the user is told of an outcome.  Which of several it is depends on its
\* reason and error code, which the contract leaves out: a command that failed as
\* the hub was unloaded is "unavailable", whether it had been written or not.
Errors == [CONFIRMED   |-> {"done"},
           REFUSED     |-> {"arm_refused"},
           UNCONFIRMED |-> {"arm_unconfirmed"},
           AUTH_FAILED |-> {"arm_auth_failed"},
           REJECTED    |-> {"arm_busy", "arm_unavailable"},
           FAILED      |-> {"arm_unavailable", "arm_unreachable", "arm_failed"}]

\* mutant: the flag is cleared for a confirmed command only
ReturnsUnclean(c) ==
  /\ call[c].at = "running"
  /\ command[c] \in Controller!Outcomes
  /\ \E result \in Errors[command[c]] : Ends(c, result)
  /\ pending' = IF command[c] = "CONFIRMED"
                  THEN [pending EXCEPT ![call[c].panel] = "none"] ELSE pending
  /\ UNCHANGED <<world, limiterVars, contractVars>>

\* Back on the loop: finally, _record and _exception.
Returns(c) ==
  /\ call[c].at = "running"
  /\ command[c] \in Controller!Outcomes
  /\ \E result \in Errors[command[c]] : Ends(c, result)
  /\ pending' = [pending EXCEPT ![call[c].panel] = "none"]
  /\ UNCHANGED <<world, limiterVars, contractVars>>

-----------------------------------------------------------------------------
(* The tracker, the hub and time.                                          *)

ModeEvent(a, m) ==
  /\ events < MaxEvents
  /\ mode[a] # m
  /\ mode' = [mode EXCEPT ![a] = m]
  /\ events' = events + 1
  /\ UNCHANGED <<coded, usable, now, limiterVars, contractVars, pending, call>>

\* The clock is read by the limiters only.
Tick ==
  /\ now < MaxTime /\ coded # {}
  /\ now' = now + 1
  /\ UNCHANGED <<coded, usable, mode, events, limiterVars, contractVars,
                 pending, call>>

CallStep(c) == Verified(c) \/ Execute(c) \/ Work(c) \/ Returns(c)

Next ==
  \/ \E c \in Calls, p \in Panels, m \in Modes, k \in Codes : Press(c, p, m, k)
  \/ \E c \in Calls : CallStep(c)
  \/ \E a \in Areas, m \in Modes \union {NoMode} : ModeEvent(a, m)
  \/ Tick

Spec == Init /\ [][Next]_vars

-----------------------------------------------------------------------------
(* What a panel shows, alarms apart: panel_state.                          *)

Shown(p) ==
  IF pending[p] # "none" THEN pending[p]
  ELSE IF \E a \in p : mode[a] = NoMode THEN "unknown"
  ELSE IF \A a, b \in p : mode[a] = mode[b] THEN "one mode" ELSE "mixed"

\* The calls of p that have a command on its way.
Commanding(p) == {c \in Calls : call[c].panel = p
                                /\ call[c].at \in {"submitted", "running"}}

-----------------------------------------------------------------------------
(* Properties.                                                             *)

Results == {"none", "done", "arm_unavailable", "invalid_code_locked", "code_required",
            "invalid_code", "arm_refused", "arm_unconfirmed", "arm_auth_failed",
            "arm_busy", "arm_unreachable", "arm_failed"}

CallState == [panel : Panels \union {{}}, mode : Modes \union {NoMode}, code : Codes,
              at : {"new", "verifying", "submitted", "running", "ended"},
              result : Results]

\* Every variable has its type.  A limiter's list is shorter than what locks the
\* panel, a command exists only for a call past the gate, and a call has a result
\* exactly when it has ended.
TypeOK ==
  /\ coded \subseteq {"disarm", "arm"} /\ usable \in BOOLEAN
  /\ mode \in [Areas -> Modes \union {NoMode}]
  /\ now \in 0..MaxTime /\ events \in 0..MaxEvents
  /\ pending \in [Panels -> {"none", "arming", "disarming"}]
  /\ failures \in [Panels -> Seq(Nat)] /\ wrongs \in [Panels -> Seq(Nat)]
  /\ locked_until \in [Panels -> Nat]
  /\ \A p \in Panels : Len(failures[p]) < MaxAttempts
  /\ call \in [Calls -> CallState]
  /\ command \in [Calls -> {"new"} \union Controller!InFlight \union Controller!Outcomes]
  /\ rpcs \in [Calls -> {0, 1}]
  /\ \A c \in Calls : /\ command[c] # "new" => call[c].at \in {"running", "ended"}
                      /\ call[c].at = "ended" <=> call[c].result # "none"

\* The i-th wrong code of p still weighs: it is younger than the window, or just
\* as old and no lockout ends at this moment.
Weighs(p, i) ==
  \/ now - wrongs[p][i] < Window
  \/ now - wrongs[p][i] = Window /\ locked_until[p] # now

\* "Five wrong codes within 60 s lock the panel": a panel that is open has had
\* fewer than MaxAttempts wrong codes in the last Window seconds since the last
\* right one, the one exactly that old included, also when checks overlap, a
\* right code comes between them or a lockout has just ended.
OpenHasFewFailures ==
  \A p \in Panels : ~Locked(p) =>
    Cardinality({i \in DOMAIN wrongs[p] : Weighs(p, i)}) < MaxAttempts

\* "Cleared in a finally block whatever the outcome": a panel with no command on
\* its way shows no transition, however its calls overlapped and ended.
IdleShowsNoTransition ==
  \A p \in Panels : Commanding(p) = {} => Shown(p) \notin {"arming", "disarming"}

\* Refuted: a call for other areas' or the same areas' change, made while a
\* command is in flight, is turned away as busy or still has to run.  A press of
\* disarm during an arm finds the areas still disarmed and comes back as done,
\* and the arm goes on.
SecondCallIsTurnedAway ==
  [][\A c, d \in Calls :
       command[d] \in Controller!InFlight /\ command[c] = "new"
         => call'[c].result = call[c].result
            \/ call'[c].result # "done"]_vars

=============================================================================
