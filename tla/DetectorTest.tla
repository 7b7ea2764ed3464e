----------------------------- MODULE DetectorTest -----------------------------
(***************************************************************************)
(* The detector test of one PIR camera (research/detector_test.py): start, *)
(* stop and the automatic stop, each an RPC on a session of its own.       *)
(*                                                                         *)
(* The buttons are pressed one at a time (PARALLEL_UPDATES of button.py),  *)
(* a timer's automatic stop runs on that timer's thread.  The ARC may act  *)
(* on a request whose reply is lost.                                       *)
(***************************************************************************)
EXTENDS Naturals, Sequences, FiniteSets, SequencesExt

CONSTANTS
  Button,   \* the executor thread of a pressed button
  NoTimer,
  Styles,   \* the spellings of the payload (PAYLOAD_STYLES), in order
  MaxPresses, MaxFaults  \* bounds of the model

\* A timer has the number of the press that starts it.
Timers == 1..MaxPresses

\* What is assumed of the constants: names are distinct, and so are the spellings.
ConstantsOK ==
  /\ MaxPresses \in Nat /\ MaxFaults \in Nat
  /\ Button \notin Timers /\ NoTimer \notin Timers
  /\ Styles \in Seq(ToSet(Styles))
  /\ \A i, j \in DOMAIN Styles : Styles[i] = Styles[j] => i = j

VARIABLES
  on,         \* external: the camera's detector is in test mode
  objects,    \* external: instances of the service the ARC keeps
  accepted,   \* external: the spellings the firmware takes
  enabled,    \* what the controller believes of the test
  preferred,  \* the spelling that worked, <<>> or <<style>>
  timer,      \* timer -> "unused", "set", "running" or "over"
  registered, \* the timer in _timers, or NoTimer
  rpc,        \* worker -> its session
  unloaded,   \* cancel_timers has run
  presses,    \* presses so far (bounded)
  faults      \* history: sessions that failed (bounded)

external == <<on, objects, accepted>>
belief == <<enabled, preferred>>
timing == <<timer, registered, unloaded>>
counts == <<presses, faults>>
vars == <<external, belief, timing, rpc, counts>>

Workers == {Button} \union Timers
Idle == [at |-> "idle", enable |-> FALSE, tries |-> <<>>, object |-> FALSE,
         result |-> "none"]

Init ==
  /\ on = FALSE
  /\ objects = 0
  /\ accepted \in SUBSET ToSet(Styles)
  /\ enabled = FALSE
  /\ preferred = <<>>
  /\ timer = [t \in Timers |-> "unused"]
  /\ registered = NoTimer
  /\ rpc = [w \in Workers |-> Idle]
  /\ unloaded = FALSE
  /\ presses = 0
  /\ faults = 0

-----------------------------------------------------------------------------
(* _rpc, up to the state update.                                           *)

\* The spelling that worked once comes first, then the others.
Order == IF preferred = <<>> THEN Styles
         ELSE preferred \o RemoveFirst(Styles, Head(preferred))

Begun(w, enable) ==
  [rpc EXCEPT ![w] = [at |-> "factory", enable |-> enable, tries |-> Order,
                      object |-> FALSE, result |-> "none"]]

At(w, l) == rpc[w].at = l
Goes(w, l) == rpc' = [rpc EXCEPT ![w].at = l]

\* An exception: the session is closed, after destroying an instance if there
\* is one.
Raises(w) == rpc' = [rpc EXCEPT ![w].at = "destroy", ![w].result = "raised"]

\* Connect, log in and ask for an instance, with null and then with {}.
Factory(w) ==
  /\ At(w, "factory")
  /\ \/ /\ rpc' = [rpc EXCEPT ![w].at = "set", ![w].object = TRUE]
        /\ objects' = objects + 1
        /\ UNCHANGED faults
     \/ /\ faults < MaxFaults /\ faults' = faults + 1
        /\ Raises(w)
        /\ UNCHANGED objects
  /\ UNCHANGED <<on, accepted, belief, timing, presses>>

\* One spelling after the other until the ARC takes one.
SetParam(w) ==
  LET r == rpc[w]
      taken == r.tries # <<>> /\ Head(r.tries) \in accepted IN
  /\ At(w, "set")
  /\ on' = IF taken THEN r.enable ELSE on
  /\ rpc' = [rpc EXCEPT ![w] =
       IF taken THEN [r EXCEPT !.at = "destroy", !.result = "ok"]
       ELSE IF r.tries = <<>> THEN [r EXCEPT !.at = "destroy", !.result = "rejected"]
       ELSE [r EXCEPT !.tries = Tail(@)]]
  /\ UNCHANGED <<objects, accepted, belief, timing, counts>>

\* The session breaks: the ARC may have acted on the spelling or not.
SetBreaks(w) ==
  /\ At(w, "set")
  /\ faults < MaxFaults
  /\ faults' = faults + 1
  /\ Raises(w)
  /\ on' \in {on} \union IF rpc[w].tries # <<>> /\ Head(rpc[w].tries) \in accepted
                           THEN {rpc[w].enable} ELSE {}
  /\ UNCHANGED <<objects, accepted, belief, timing, presses>>

\* finally: the instance is destroyed, if the broken session still can.
Destroy(w) ==
  /\ At(w, "destroy")
  /\ Goes(w, "update")
  /\ objects' \in IF ~rpc[w].object THEN {objects}
                  ELSE IF rpc[w].result = "raised" THEN {objects, objects - 1}
                  ELSE {objects - 1}
  /\ UNCHANGED <<on, accepted, belief, timing, counts>>

\* The state update under the lock; an exception has left it out.
Update(w) ==
  IF rpc[w].result = "ok"
    THEN /\ enabled' = rpc[w].enable
         /\ preferred' = <<Head(rpc[w].tries)>>
    ELSE UNCHANGED belief

-----------------------------------------------------------------------------
(* start, stop and the automatic stop around it.                           *)

Over(t) == IF t \in Timers /\ timer[t] = "set" THEN [timer EXCEPT ![t] = "over"]
                                              ELSE timer

PressStart ==
  /\ At(Button, "idle") /\ ~unloaded /\ presses < MaxPresses
  /\ presses' = presses + 1
  /\ rpc' = Begun(Button, TRUE)
  /\ UNCHANGED <<external, belief, timing, faults>>

\* stop: the timer goes before the request.
PressStop ==
  /\ At(Button, "idle") /\ ~unloaded /\ presses < MaxPresses
  /\ presses' = presses + 1
  /\ timer' = Over(registered)
  /\ registered' = NoTimer
  /\ rpc' = Begun(Button, FALSE)
  /\ UNCHANGED <<external, belief, unloaded, faults>>

\* mutant: a timer is set only if none was registered
StartDoneOnce ==
  /\ At(Button, "update")
  /\ Update(Button)
  /\ rpc' = [rpc EXCEPT ![Button] = Idle]
  /\ IF rpc[Button].result = "ok" /\ rpc[Button].enable /\ registered = NoTimer
       THEN /\ timer' = [timer EXCEPT ![presses] = "set"]
            /\ registered' = presses
       ELSE UNCHANGED <<timer, registered>>
  /\ UNCHANGED <<external, unloaded, counts>>

\* The press comes back; a start that succeeded replaces the timer.
PressDone ==
  /\ At(Button, "update")
  /\ Update(Button)
  /\ rpc' = [rpc EXCEPT ![Button] = Idle]
  /\ IF rpc[Button].result = "ok" /\ rpc[Button].enable
       THEN /\ timer' = [Over(registered) EXCEPT ![presses] = "set"]
            /\ registered' = presses
       ELSE UNCHANGED <<timer, registered>>
  /\ UNCHANGED <<external, unloaded, counts>>

\* AUTO_STOP_SECONDS are over.
Fires(t) ==
  /\ timer[t] = "set"
  /\ timer' = [timer EXCEPT ![t] = "running"]
  /\ rpc' = Begun(t, FALSE)
  /\ UNCHANGED <<external, belief, registered, unloaded, counts>>

\* finally: whatever timer is registered is dropped from the table.
AutoStopDone(t) ==
  /\ At(t, "update")
  /\ Update(t)
  /\ rpc' = [rpc EXCEPT ![t] = Idle]
  /\ timer' = [timer EXCEPT ![t] = "over"]
  /\ registered' = NoTimer
  /\ UNCHANGED <<external, unloaded, counts>>

\* The integration is unloaded: cancel_timers.
CancelTimers ==
  /\ ~unloaded
  /\ unloaded' = TRUE
  /\ timer' = Over(registered)
  /\ registered' = NoTimer
  /\ UNCHANGED <<external, belief, rpc, counts>>

Session(w) == Factory(w) \/ SetParam(w) \/ SetBreaks(w) \/ Destroy(w)

Next ==
  \/ PressStart \/ PressStop \/ CancelTimers
  \/ \E w \in Workers : Session(w)
  \/ PressDone
  \/ \E t \in Timers : Fires(t) \/ AutoStopDone(t)

Spec == Init /\ [][Next]_vars

-----------------------------------------------------------------------------
(* Properties.                                                             *)

Working == {w \in Workers : rpc[w].at # "idle"}

RpcState == [at : {"idle", "factory", "set", "destroy", "update"}, enable : BOOLEAN,
             tries : Seq(ToSet(Styles)), object : BOOLEAN,
             result : {"none", "ok", "rejected", "raised"}]

\* Every variable has its type; the registered timer has been started.
TypeOK ==
  /\ on \in BOOLEAN /\ enabled \in BOOLEAN /\ unloaded \in BOOLEAN
  /\ objects \in Nat /\ presses \in 0..MaxPresses /\ faults \in 0..MaxFaults
  /\ rpc \in [Workers -> RpcState]
  /\ preferred \in {<<>>} \union {<<s>> : s \in accepted}
  /\ timer \in [Timers -> {"unused", "set", "running", "over"}]
  /\ registered \in Timers \union {NoTimer}
  /\ registered # NoTimer => timer[registered] # "unused"

\* The service's instances are destroyed on every path of a session: none is
\* left but those of sessions at work and of sessions that broke.
NoObjectLeft == objects <= Cardinality(Working) + faults

\* A detector is in test mode only while something will end it: a timer that is
\* set, or a session still at work.  It holds through overlapping presses and
\* automatic stops, as long as no session broke and nothing was unloaded.
RunningTestWillStop ==
  on /\ faults = 0 /\ ~unloaded =>
    Working # {} \/ \E t \in Timers : timer[t] = "set"

\* Nothing is left behind on the ARC that nobody ends: no instance of the service
\* and no running test.
NothingLeftBehind == NoObjectLeft /\ RunningTestWillStop

=============================================================================
