--------------------------------- MODULE Wpan ---------------------------------
(***************************************************************************)
(* The radio poller of research/wpan.py for one PIR camera: a thread that  *)
(* polls the ARC's low-rate radio service and one thread per subscription, *)
(* with what they make of the camera's alarm state in StateEngine, and     *)
(* what the hub does to them (start, rejected credentials, stop).          *)
(***************************************************************************)
EXTENDS Naturals, Sequences, FiniteSets

CONSTANTS
  Poller,    \* the thread of _run
  Subs,      \* the subscription threads (subscription_methods)
  Methods,   \* the status methods the poller tries (METHODS)
  StatusMethod,  \* the one that tells the alarm state
  Unseen,    \* no alarm state polled yet
  MaxChanges, MaxDrops, MaxLogins  \* bounds: alarm changes, broken lines, logins

ASSUME WpanAssumption == StatusMethod \in Methods /\ Poller \notin Subs

VARIABLES
  alarm,      \* external: the camera is in alarm
  notes,      \* external: sub -> notifications on their way
  valid,      \* external: the ARC takes the credentials
  supported,  \* external: the methods the firmware answers
  pc,         \* thread -> where it is
  line,       \* thread -> "none", "up" or "broken"
  styles,     \* method -> "unknown", "found" or "exhausted"
  reply,      \* the alarm state in the reply being handled, or Unseen
  last,       \* last_pircam_alarm_state
  shown,      \* the camera's motion in StateEngine
  stopping,   \* stop_event
  auth_failed, \* the hub's flag
  changes, drops, logins,  \* counters (bounded)
  missed      \* history: the first poll differed from what was shown

external == <<alarm, notes, valid, supported>>
threads == <<pc, line>>
polled == <<styles, reply, last>>
flags == <<stopping, auth_failed>>
counts == <<changes, drops, logins, missed>>
vars == <<external, threads, polled, shown, flags, counts>>

Threads == {Poller} \union Subs

Init ==
  /\ alarm = FALSE
  /\ notes = [s \in Subs |-> <<>>]
  /\ valid = TRUE
  /\ supported \in {Methods, Methods \ {StatusMethod}}
  /\ pc = [t \in Threads |-> "head"]
  /\ line = [t \in Threads |-> "none"]
  /\ styles = [m \in Methods |-> "unknown"]
  /\ reply = Unseen
  /\ last = Unseen
  /\ shown = FALSE
  /\ stopping = FALSE
  /\ auth_failed = FALSE
  /\ changes = 0 /\ drops = 0 /\ logins = 0
  /\ missed = FALSE

At(t, l) == pc[t] = l
Goes(t, l) == pc' = [pc EXCEPT ![t] = l]
Line(t, l) == line' = [line EXCEPT ![t] = l]

-----------------------------------------------------------------------------
(* Both kinds of thread: connect and log in; an error leads to a wait.     *)

\* The head of the thread's loop.
Enter(t) ==
  /\ At(t, "head") /\ (stopping \/ logins < MaxLogins)
  /\ Goes(t, IF stopping THEN "over" ELSE "login")
  /\ UNCHANGED <<external, line, polled, shown, flags, counts>>

LogIn(t) ==
  /\ At(t, "login") /\ valid
  /\ logins' = logins + 1
  /\ Line(t, "up")
  /\ Goes(t, IF t = Poller THEN "discover" ELSE "read")
  /\ UNCHANGED <<external, polled, shown, flags, changes, drops, missed>>

\* The exception is recorded like any other: the thread waits and tries again.
LoginRejected(t) ==
  /\ At(t, "login") /\ ~valid
  /\ logins' = logins + 1
  /\ Goes(t, "wait")
  /\ UNCHANGED <<external, line, polled, shown, flags, changes, drops, missed>>

\* mutant: the wait before the next round does not look at the event
WaitOn(t) ==
  /\ At(t, "wait")
  /\ Goes(t, IF t = Poller /\ line[t] # "none" THEN "discover" ELSE "head")
  /\ UNCHANGED <<external, line, polled, shown, flags, counts>>

\* mutant: a thread that is told to end forgets its line
WaitKeeps(t) ==
  /\ At(t, "wait")
  /\ Goes(t, IF stopping THEN "over"
             ELSE IF t = Poller /\ line[t] # "none" THEN "discover" ELSE "head")
  /\ UNCHANGED <<external, line, polled, shown, flags, counts>>

\* stop_event.wait: over once it is set, another round otherwise.
Wait(t) ==
  /\ At(t, "wait")
  /\ IF stopping
       THEN Goes(t, "over") /\ Line(t, "none")
       ELSE /\ Goes(t, IF t = Poller /\ line[t] # "none" THEN "discover" ELSE "head")
            /\ UNCHANGED line
  /\ UNCHANGED <<external, polled, shown, flags, counts>>

-----------------------------------------------------------------------------
(* The poller.  safe_request turns every failure into an answer that is not *)
(* ok: a broken line is kept, and its methods look unsupported.            *)

\* A method not decided yet is answered.
Answers(m) == styles[m] = "unknown" /\ line[Poller] = "up" /\ m \in supported

\* _discover: the undecided methods are tried, the last ones possibly on a line
\* that breaks meanwhile.  The answer by which the status is found is captured too.
Discover ==
  /\ At(Poller, "discover")
  /\ styles' = [m \in Methods |->
       IF styles[m] # "unknown" THEN styles[m]
       ELSE IF Answers(m) THEN "found" ELSE "exhausted"]
  /\ IF Answers(StatusMethod)
       THEN reply' = alarm /\ Goes(Poller, "noted")
       ELSE UNCHANGED reply /\ Goes(Poller, "ask")
  /\ UNCHANGED <<external, line, last, shown, flags, counts>>

\* _poll_once: the found methods are asked; only the status is followed here.
Ask ==
  /\ At(Poller, "ask")
  /\ IF line[Poller] = "up" /\ styles[StatusMethod] = "found"
       THEN reply' = alarm /\ Goes(Poller, "apply")
       ELSE UNCHANGED reply /\ Goes(Poller, "wait")
  /\ UNCHANGED <<external, line, styles, last, shown, flags, counts>>

\* A captured reply is handled; a discovery is followed by the poll itself.
Handled ==
  /\ \/ At(Poller, "noted") /\ Goes(Poller, "ask")
     \/ At(Poller, "apply") /\ Goes(Poller, "wait")
  /\ reply' = Unseen

\* mutant: the end of an alarm is left to the notifications
ApplyAlarms ==
  /\ Handled
  /\ last' = reply
  /\ shown' = IF last = FALSE /\ reply = TRUE THEN reply ELSE shown
  /\ missed' = (missed \/ (last = Unseen /\ reply # shown))
  /\ UNCHANGED <<external, line, styles, flags, changes, drops, logins>>

\* _apply_pircam_status: the first state is only remembered, then changes are
\* passed on.
ApplyStatus ==
  /\ Handled
  /\ last' = reply
  /\ shown' = IF last # Unseen /\ last # reply THEN reply ELSE shown
  /\ missed' = (missed \/ (last = Unseen /\ reply # shown))
  /\ UNCHANGED <<external, line, styles, flags, changes, drops, logins>>

-----------------------------------------------------------------------------
(* A subscription.                                                         *)

\* A notification of the camera (_record_subscription_frame).
Notified(s) ==
  /\ At(s, "read") /\ line[s] = "up" /\ notes[s] # <<>> /\ ~stopping
  /\ notes' = [notes EXCEPT ![s] = Tail(@)]
  /\ shown' = Head(notes[s])
  /\ UNCHANGED <<alarm, valid, supported, threads, polled, flags, counts>>

\* recv_frame fails, or the event is set: keepalive and socket are closed.
SubEnds(s) ==
  /\ At(s, "read") /\ (line[s] # "up" \/ stopping)
  /\ Line(s, "none")
  /\ notes' = [notes EXCEPT ![s] = <<>>]
  /\ Goes(s, "wait")
  /\ UNCHANGED <<alarm, valid, supported, polled, shown, flags, counts>>

-----------------------------------------------------------------------------
(* The ARC, the line and the hub.                                          *)

AlarmChanges ==
  /\ changes < MaxChanges
  /\ changes' = changes + 1
  /\ alarm' = ~alarm
  /\ notes' = [s \in Subs |-> IF At(s, "read") /\ line[s] = "up"
                                THEN Append(notes[s], ~alarm) ELSE notes[s]]
  /\ UNCHANGED <<valid, supported, threads, polled, shown, flags, drops, logins,
                 missed>>

LineBreaks(t) ==
  /\ drops < MaxDrops /\ line[t] = "up"
  /\ drops' = drops + 1
  /\ Line(t, "broken")
  /\ UNCHANGED <<external, pc, polled, shown, flags, changes, logins, missed>>

PasswordChanges ==
  /\ valid /\ valid' = FALSE
  /\ UNCHANGED <<alarm, notes, supported, threads, polled, shown, flags, counts>>

\* Another session meets the rejection: _handle_auth_failure.
AuthFailure ==
  /\ ~valid /\ ~auth_failed
  /\ auth_failed' = TRUE
  /\ stopping' = TRUE
  /\ UNCHANGED <<external, threads, polled, shown, counts>>

\* The integration is unloaded: stop.
Stop ==
  /\ ~stopping
  /\ stopping' = TRUE
  /\ UNCHANGED <<external, threads, polled, shown, auth_failed, counts>>

Poll == Discover \/ Ask \/ ApplyStatus
Step(t) ==
  \/ Enter(t) \/ LogIn(t) \/ LoginRejected(t) \/ Wait(t)
  \/ t = Poller /\ Poll
  \/ t \in Subs /\ (Notified(t) \/ SubEnds(t))

Next ==
  \/ \E t \in Threads : Step(t) \/ LineBreaks(t)
  \/ AlarmChanges \/ PasswordChanges \/ AuthFailure \/ Stop

\* Threads run on; a rejection need not be met by another session.
Spec == Init /\ [][Next]_vars /\ \A t \in Threads : WF_vars(Step(t))

-----------------------------------------------------------------------------
(* Properties.                                                             *)

\* Every variable has its type; a thread that is over holds no line.
TypeOK ==
  /\ alarm \in BOOLEAN /\ shown \in BOOLEAN /\ valid \in BOOLEAN
  /\ stopping \in BOOLEAN /\ auth_failed \in BOOLEAN /\ missed \in BOOLEAN
  /\ notes \in [Subs -> Seq(BOOLEAN)]
  /\ supported \subseteq Methods
  /\ pc \in [Threads -> {"head", "login", "discover", "noted", "ask", "apply", "read", "wait",
                         "over"}]
  /\ styles \in [Methods -> {"unknown", "found", "exhausted"}]
  /\ reply \in BOOLEAN \union {Unseen} /\ last \in BOOLEAN \union {Unseen}
  /\ changes \in Nat /\ drops \in Nat /\ logins \in Nat
  /\ line \in [Threads -> {"none", "up", "broken"}]
  /\ \A t \in Threads : At(t, "over") => line[t] = "none"

\* Once the poller and its subscriptions are stopped, by an unload or by rejected
\* credentials, every thread ends, wherever it was.
RadioStops == stopping ~> \A t \in Threads : At(t, "over")

\* As long as no line breaks and nothing is stopped, motion ends up as the
\* camera has it, though two notifications and a poll that was answered earlier
\* may be applied in any order.  The case of a first poll that differs from what
\* is shown is left to the next snapshot.
MotionSettles ==
  [](drops = 0 /\ valid /\ ~stopping /\ ~missed)
    /\ <>(\A t \in Threads : line[t] = "up") /\ StatusMethod \in supported
    => <>[](shown = alarm)

=============================================================================
