------------------------------ MODULE Sessions ------------------------------
(***************************************************************************)
(* The sessions of one hub: the realtime thread and its keepalive threads  *)
(* (protocol/realtime.py), the snapshot session they share with the        *)
(* periodic thread (protocol/snapshot.py), and the hub that starts and     *)
(* stops them and handles rejected credentials (hub.py).                   *)
(*                                                                         *)
(* A step of a thread is what it does between two points at which another  *)
(* thread can change what it reads.  Joins with a timeout wait for nothing *)
(* here: the thread they join may be done or not.  The network is open:    *)
(* a connection may go silent or break, a login may be rejected, a request *)
(* may fail, all at any time.                                              *)
(***************************************************************************)
EXTENDS Naturals, FiniteSets

CONSTANTS
  MaxAttempts    \* bound on connection_attempts of the realtime client

ASSUME SessionsAssumption == MaxAttempts \in Nat \ {0}

Attempts == 1..MaxAttempts
Threads  == {"realtime", "periodic"}

VARIABLES
  rt,            \* where the realtime thread is
  attempt,       \* connection_attempts
  line,          \* attempt -> its connection
  transport,     \* the attempt whose connection is self.transport, 0 for None
  keeper,        \* attempt -> its keepalive thread
  overdue,       \* seconds_since_last_frame() is over the liveness limit
  tripped,       \* _watchdog_tripped
  connected,     \* the realtime client's flag
  ready,         \* ready_event
  rejected,      \* the realtime client's auth_failed
  last_error,    \* of the realtime client: "none", "error" or "silence"
  stop_event,    \* the realtime client's
  resync,        \* thread -> where its Reconciler.run is
  in_login,      \* the threads in _connect_locked, holding the snapshot lock
  session,       \* the snapshot client has a transport
  snap_rejected, \* the snapshot client's auth_failed
  periodic,      \* the periodic thread: "none", "waiting", "resync" or "ended"
  periodic_stop,
  hub,           \* "starting", "up", then the steps of stop(), "stopped"
  auth_failed,   \* the hub's flag
  rejections     \* history: session -> logins the ARC rejected

flagVars == <<connected, ready, rejected>>
rtVars   == <<rt, attempt, flagVars, last_error, tripped>>
lineVars == <<line, transport, keeper, overdue>>
snapVars == <<in_login, session, snap_rejected>>
hubVars  == <<periodic, periodic_stop, hub, auth_failed>>
vars == <<rtVars, lineVars, stop_event, resync, snapVars, hubVars, rejections>>

Init ==
  /\ rt = "attach" /\ attempt = 1
  /\ connected = FALSE /\ ready = FALSE /\ rejected = FALSE
  /\ last_error = "none" /\ tripped = FALSE
  /\ line = [k \in Attempts |-> "none"] /\ keeper = [k \in Attempts |-> "none"]
  /\ transport = 0 /\ overdue = FALSE
  /\ stop_event = FALSE
  /\ resync = [t \in Threads |-> "none"]
  /\ in_login = {} /\ session = TRUE /\ snap_rejected = FALSE
  /\ periodic = "none" /\ periodic_stop = FALSE
  /\ hub = "starting" /\ auth_failed = FALSE
  /\ rejections = [s \in {"realtime", "snapshot"} |-> 0]

\* What a step of each kind leaves alone.
KeepHub    == UNCHANGED <<stop_event, hubVars>>
KeepLine   == UNCHANGED lineVars
KeepSnap   == UNCHANGED <<in_login, session, snap_rejected, rejections>>
KeepResync == UNCHANGED resync
KeepRt     == UNCHANGED rtVars

-----------------------------------------------------------------------------
(* Rejected credentials.                                                   *)

\* _handle_auth_failure: the periodic thread and the snapshot session are told;
\* the realtime thread is not.
HandleAuthFailure ==
  /\ auth_failed' = TRUE /\ periodic_stop' = TRUE /\ snap_rejected' = TRUE
  /\ UNCHANGED <<hub, stop_event, in_login, session>>

-----------------------------------------------------------------------------
(* The realtime thread: one pass of _run's loop.                           *)

Goto(l) == rt' = l /\ UNCHANGED <<attempt, flagVars, last_error, tripped>>

\* except Exception: the watchdog's explanation is kept, once.
Fail ==
  /\ rt' = "cleanup"
  /\ IF stop_event
     THEN UNCHANGED <<connected, last_error, tripped>>
     ELSE /\ connected' = FALSE
          /\ last_error' = IF tripped THEN last_error ELSE "error"
          /\ tripped' = FALSE
  /\ UNCHANGED <<attempt, ready, rejected>>

\* except LoginError (_handle_login_error): the thread will end.
LoginFail ==
  /\ rt' = "cleanup"
  /\ connected' = FALSE /\ rejected' = TRUE /\ ready' = TRUE
  /\ last_error' = "error"
  /\ HandleAuthFailure
  /\ UNCHANGED <<attempt, tripped, lineVars, periodic>>

\* _attach: connect, log in, subscribe.
Attach ==
  /\ rt = "attach"
  /\ Goto("attached")
  /\ line' = [line EXCEPT ![attempt] = "live"]
  /\ UNCHANGED <<transport, keeper, overdue>> /\ KeepResync /\ KeepSnap /\ KeepHub

AttachFails ==
  /\ rt = "attach"
  /\ Fail
  /\ KeepLine /\ KeepResync /\ KeepSnap /\ KeepHub

AttachRejected ==
  /\ rt = "attach"
  /\ LoginFail
  /\ rejections' = [rejections EXCEPT !["realtime"] = @ + 1]
  /\ KeepResync

\* The connection becomes current and can be closed from outside, silence is
\* measured anew, the keepalive thread starts, and the resync begins.
Begin ==
  /\ rt = "attached"
  /\ rt' = "resync"
  /\ transport' = attempt
  /\ overdue' = FALSE
  /\ last_error' = "none"
  /\ keeper' = [keeper EXCEPT ![attempt] = "waiting"]
  /\ resync' = [resync EXCEPT !["realtime"] = "lock"]
  /\ UNCHANGED <<attempt, flagVars, tripped, line>> /\ KeepSnap /\ KeepHub

\* The resync has ended as s.
ResyncEnds(s) ==
  /\ rt = "resync" /\ resync["realtime"] = s
  /\ resync' = [resync EXCEPT !["realtime"] = "none"]

Serve ==
  /\ ResyncEnds("done")
  /\ rt' = "loop"
  /\ connected' = TRUE /\ ready' = TRUE
  /\ UNCHANGED <<attempt, rejected, last_error, tripped>> /\ KeepLine /\ KeepSnap /\ KeepHub

ResyncFails    == ResyncEnds("failed") /\ Fail /\ KeepLine /\ KeepSnap /\ KeepHub
ResyncRejected == ResyncEnds("rejected") /\ LoginFail /\ UNCHANGED rejections

\* mutant: the stop event is left to the socket
LoopOn ==
  /\ rt = "loop"
  /\ Goto("recv")
  /\ KeepLine /\ KeepResync /\ KeepSnap /\ KeepHub

\* _read_events_forever looks at the stop event between two frames.
LoopHead ==
  /\ rt = "loop"
  /\ Goto(IF stop_event THEN "cleanup" ELSE "recv")
  /\ KeepLine /\ KeepResync /\ KeepSnap /\ KeepHub

Frame ==
  /\ rt = "recv" /\ line[attempt] = "live"
  /\ Goto("loop")
  /\ overdue' = FALSE
  /\ UNCHANGED <<line, transport, keeper>> /\ KeepResync /\ KeepSnap /\ KeepHub

\* recv raises on a connection that broke or was closed, and when the peer has
\* been silent for the socket's timeout.
NeverTimesOut(l) == l \in {"broken", "closed"}  \* mutant
RecvRaises(l) == l \in {"broken", "closed"} \/ (l = "silent" /\ overdue)

RecvFails ==
  /\ rt = "recv" /\ RecvRaises(line[attempt])
  /\ Fail
  /\ KeepLine /\ KeepResync /\ KeepSnap /\ KeepHub

Ends == stop_event \/ rejected

\* mutant: the connection is left to the garbage collector
LeaveOpen ==
  /\ rt = "cleanup"
  /\ rt' = IF Ends THEN "ended" ELSE "backoff"
  /\ connected' = FALSE
  /\ transport' = IF transport = attempt THEN 0 ELSE transport
  /\ UNCHANGED <<attempt, ready, rejected, last_error, tripped, line, keeper, overdue>>
  /\ KeepResync /\ KeepSnap /\ KeepHub

\* finally: the keepalive thread is told and waited for, at most two seconds,
\* and the connection of this pass is closed.
CleanUp ==
  /\ rt = "cleanup"
  /\ rt' = IF Ends THEN "ended" ELSE "backoff"
  /\ connected' = FALSE
  /\ line' = [line EXCEPT ![attempt] = IF @ = "none" THEN "none" ELSE "closed"]
  /\ transport' = IF transport = attempt THEN 0 ELSE transport
  /\ UNCHANGED <<attempt, ready, rejected, last_error, tripped, keeper, overdue>>
  /\ KeepResync /\ KeepSnap /\ KeepHub

\* The reconnect delay, which the stop event cuts short.
BackOff ==
  /\ rt = "backoff"
  /\ IF stop_event
     THEN rt' = "ended" /\ UNCHANGED attempt
     ELSE attempt < MaxAttempts /\ rt' = "attach" /\ attempt' = attempt + 1
  /\ UNCHANGED <<flagVars, last_error, tripped>>
  /\ KeepLine /\ KeepResync /\ KeepSnap /\ KeepHub

-----------------------------------------------------------------------------
(* The keepalive thread of attempt k.                                      *)

KeeperTold(k) == k < attempt \/ rt \in {"backoff", "ended"} \/ stop_event

KeeperStep(k, from, to) == keeper[k] = from /\ keeper' = [keeper EXCEPT ![k] = to]

\* _close_current_transport: whichever connection is current.
CloseCurrent ==
  /\ transport' = 0
  /\ line' = [k \in Attempts |-> IF k = transport THEN "closed" ELSE line[k]]

\* It was told to stop, or it died: nothing relies on its being there.
KeeperEnds(k) ==
  /\ KeeperStep(k, "waiting", "done")
  /\ UNCHANGED <<line, transport, overdue>> /\ KeepRt /\ KeepResync /\ KeepSnap /\ KeepHub

\* Its delay is over and nobody has told it: from here on it does not look again,
\* and the thread that waits for it gives up after two seconds.
KeeperWakes(k) ==
  /\ ~KeeperTold(k)
  /\ KeeperStep(k, "waiting", "awake")
  /\ UNCHANGED <<line, transport, overdue>> /\ KeepRt /\ KeepResync /\ KeepSnap /\ KeepHub

\* The watchdog: no frame for too long.
Trip(k) ==
  /\ overdue
  /\ KeeperStep(k, "awake", "closing")
  /\ tripped' = TRUE /\ last_error' = "silence"
  /\ UNCHANGED <<rt, attempt, flagVars, line, transport, overdue>>
  /\ KeepResync /\ KeepSnap /\ KeepHub

\* A keepalive is sent; on a connection that is not live it may fail.
Sent(k) ==
  /\ KeeperStep(k, "awake", "waiting")
  /\ UNCHANGED <<line, transport, overdue>> /\ KeepRt /\ KeepResync /\ KeepSnap /\ KeepHub

SendFails(k) ==
  /\ line[k] # "live"
  /\ KeeperStep(k, "awake", "closing")
  /\ UNCHANGED <<line, transport, overdue>> /\ KeepRt /\ KeepResync /\ KeepSnap /\ KeepHub

KeeperCloses(k) ==
  /\ KeeperStep(k, "closing", "done")
  /\ CloseCurrent
  /\ UNCHANGED overdue /\ KeepRt /\ KeepResync /\ KeepSnap /\ KeepHub

-----------------------------------------------------------------------------
(* The network and the clock.                                              *)

LineFails ==
  /\ line[attempt] = "live"
  /\ \E l \in {"silent", "broken"} : line' = [line EXCEPT ![attempt] = l]
  /\ UNCHANGED <<transport, keeper, overdue>> /\ KeepRt /\ KeepResync /\ KeepSnap /\ KeepHub

\* Time passes without a frame: nobody reads, or the peer is silent.
TimePasses ==
  /\ ~overdue
  /\ rt = "resync" \/ (rt = "recv" /\ line[attempt] = "silent")
  /\ overdue' = TRUE
  /\ UNCHANGED <<line, transport, keeper>> /\ KeepRt /\ KeepResync /\ KeepSnap /\ KeepHub

-----------------------------------------------------------------------------
(* Reconciler.run of thread t on the snapshot session: the zones under the *)
(* reconciler's lock, then the arm table.                                  *)

Resyncs(t, s) == resync' = [resync EXCEPT ![t] = s]
KeepOthers == KeepRt /\ KeepLine /\ KeepHub

\* mutant: the zones are read without the lock
LockNothing(t) ==
  /\ resync[t] = "lock"
  /\ Resyncs(t, "zones")
  /\ KeepSnap /\ KeepOthers

LockReconciler(t) ==
  /\ resync[t] = "lock"
  /\ \A u \in Threads : resync[u] # "zones"
  /\ Resyncs(t, "zones")
  /\ KeepSnap /\ KeepOthers

\* t is about to send a request, and nobody else is at the session.
Requests(t) == resync[t] \in {"zones", "table"} /\ in_login = {}

Advance(t) == Resyncs(t, IF resync[t] = "zones" THEN "table" ELSE "done")

Answered(t) ==
  /\ Requests(t) /\ session
  /\ Advance(t)
  /\ KeepSnap /\ KeepOthers

\* Without the zones the resync fails; without the arm table it goes on.
Failed(t) == Resyncs(t, IF resync[t] = "zones" THEN "failed" ELSE "done")

\* An error drops the session.
RequestFails(t) ==
  /\ Requests(t) /\ session
  /\ session' = FALSE
  /\ Failed(t)
  /\ UNCHANGED <<in_login, snap_rejected, rejections>> /\ KeepOthers

\* _connect_locked after a rejection raises a LoginError of its own.
Denied(t) ==
  /\ Requests(t) /\ ~session /\ snap_rejected
  /\ Resyncs(t, "rejected")
  /\ KeepSnap /\ KeepOthers

ReopenAnyway(t) ==  \* mutant
  /\ Requests(t) /\ ~session
  /\ in_login' = {t}
  /\ UNCHANGED <<session, snap_rejected, rejections>> /\ KeepResync /\ KeepOthers

Reopen(t) ==
  /\ Requests(t) /\ ~session /\ ~snap_rejected
  /\ in_login' = {t}
  /\ UNCHANGED <<session, snap_rejected, rejections>> /\ KeepResync /\ KeepOthers

\* The session's lock is held from before the login until after the request.
LoggedIn(t) == t \in in_login /\ in_login' = {}

Reopened(t) ==
  /\ LoggedIn(t)
  /\ session' = TRUE
  /\ Advance(t)
  /\ UNCHANGED <<snap_rejected, rejections>> /\ KeepOthers

ReopenFails(t) ==
  /\ LoggedIn(t)
  /\ Failed(t)
  /\ UNCHANGED <<session, snap_rejected, rejections>> /\ KeepOthers

ReopenRejected(t) ==
  /\ LoggedIn(t)
  /\ snap_rejected' = TRUE
  /\ Resyncs(t, "rejected")
  /\ rejections' = [rejections EXCEPT !["snapshot"] = @ + 1]
  /\ UNCHANGED <<session>> /\ KeepOthers

ResyncStep(t) ==
  \/ LockReconciler(t) \/ Answered(t) \/ RequestFails(t) \/ Denied(t)
  \/ Reopen(t) \/ Reopened(t) \/ ReopenFails(t) \/ ReopenRejected(t)

\* The snapshot session's own keepalive fails.
SessionLost ==
  /\ session /\ in_login = {} /\ hub # "stopped"
  /\ session' = FALSE
  /\ UNCHANGED <<in_login, snap_rejected, rejections>> /\ KeepResync /\ KeepOthers

-----------------------------------------------------------------------------
(* The periodic thread.                                                    *)

KeepClients == KeepRt /\ KeepLine /\ UNCHANGED stop_event
PeriodicStep(from, to) == periodic = from /\ periodic' = to

PeriodicBegins ==
  /\ ~periodic_stop
  /\ PeriodicStep("waiting", "resync")
  /\ Resyncs("periodic", "lock")
  /\ UNCHANGED <<periodic_stop, hub, auth_failed>> /\ KeepSnap /\ KeepClients

PeriodicDone ==
  /\ resync["periodic"] \in {"done", "failed"}
  /\ PeriodicStep("resync", "waiting")
  /\ Resyncs("periodic", "none")
  /\ UNCHANGED <<periodic_stop, hub, auth_failed>> /\ KeepSnap /\ KeepClients

\* mutant: a rejected login is a failure like any other
PeriodicShrugs ==
  /\ resync["periodic"] = "rejected"
  /\ PeriodicStep("resync", "waiting")
  /\ Resyncs("periodic", "none")
  /\ UNCHANGED <<periodic_stop, hub, auth_failed>> /\ KeepSnap /\ KeepClients

PeriodicRejected ==
  /\ resync["periodic"] = "rejected"
  /\ PeriodicStep("resync", "ended")
  /\ Resyncs("periodic", "none")
  /\ HandleAuthFailure
  /\ UNCHANGED <<rejections, rtVars, lineVars>>

PeriodicEnds ==
  /\ periodic_stop
  /\ PeriodicStep("waiting", "ended")
  /\ UNCHANGED <<periodic_stop, hub, auth_failed>> /\ KeepResync /\ KeepSnap /\ KeepClients

Periodic == PeriodicBegins \/ PeriodicDone \/ PeriodicRejected \/ PeriodicEnds

-----------------------------------------------------------------------------
(* The hub.                                                                *)

HubStep(from, to) == hub = from /\ hub' = to /\ UNCHANGED auth_failed

\* The end of start(): the realtime client is ready and well.
Started ==
  /\ ready /\ ~rejected /\ (last_error = "none" \/ connected)
  /\ HubStep("starting", "up")
  /\ periodic' = "waiting"
  /\ UNCHANGED periodic_stop /\ KeepResync /\ KeepSnap /\ KeepClients

\* stop(), after a start that failed or timed out, or on unload.
BeginStop ==
  /\ \E h \in {"starting", "up"} : HubStep(h, "stopping")
  /\ periodic_stop' = TRUE
  /\ UNCHANGED periodic /\ KeepResync /\ KeepSnap /\ KeepClients

\* RealtimeClient.stop: the event, then whichever connection is current.
StopRealtime ==
  /\ HubStep("stopping", "closing")
  /\ stop_event' = TRUE
  /\ UNCHANGED <<periodic, periodic_stop>> /\ KeepResync /\ KeepSnap /\ KeepRt /\ KeepLine

CloseRealtime ==
  /\ HubStep("closing", "closed")
  /\ CloseCurrent
  /\ UNCHANGED <<periodic, periodic_stop, stop_event, keeper, overdue>>
  /\ KeepResync /\ KeepSnap /\ KeepRt

CloseSnapshot ==
  /\ in_login = {}
  /\ HubStep("closed", "stopped")
  /\ session' = FALSE
  /\ UNCHANGED <<periodic, periodic_stop, in_login, snap_rejected, rejections>>
  /\ KeepResync /\ KeepClients

Stopping == StopRealtime \/ CloseRealtime \/ CloseSnapshot

-----------------------------------------------------------------------------

Realtime ==
  \/ Attach \/ AttachFails \/ AttachRejected
  \/ Begin \/ Serve \/ ResyncFails \/ ResyncRejected
  \/ LoopHead \/ Frame \/ RecvFails
  \/ CleanUp \/ BackOff
  \/ ResyncStep("realtime")

Keeper(k) ==
  KeeperEnds(k) \/ KeeperWakes(k) \/ Trip(k) \/ Sent(k) \/ SendFails(k) \/ KeeperCloses(k)

Next ==
  \/ Realtime
  \/ \E k \in Attempts : Keeper(k)
  \/ LineFails \/ TimePasses \/ SessionLost
  \/ Periodic \/ ResyncStep("periodic")
  \/ Started \/ BeginStop \/ Stopping

Spec == Init /\ [][Next]_vars

\* Threads run, every request and receive has a timeout, and time passes.
FairSpec ==
  /\ Spec
  /\ WF_vars(Realtime)
  /\ WF_vars(TimePasses)
  /\ WF_vars(Periodic \/ ResyncStep("periodic"))
  /\ WF_vars(Stopping)

-----------------------------------------------------------------------------
(* Properties.                                                             *)

Labels == {"attach", "attached", "resync", "loop", "recv", "cleanup", "backoff", "ended"}

\* The shape of the state; one thread at a time is in the zone half of a resync
\* or logs in for it.
TypeOK ==
  /\ rt \in Labels
  /\ attempt \in Attempts
  /\ line \in [Attempts -> {"none", "live", "silent", "broken", "closed"}]
  /\ transport \in 0..attempt
  /\ keeper \in [Attempts -> {"none", "waiting", "awake", "closing", "done"}]
  /\ overdue \in BOOLEAN /\ tripped \in BOOLEAN
  /\ connected \in BOOLEAN /\ ready \in BOOLEAN /\ rejected \in BOOLEAN
  /\ last_error \in {"none", "error", "silence"}
  /\ stop_event \in BOOLEAN
  /\ resync \in [Threads -> {"none", "lock", "zones", "table", "done", "failed", "rejected"}]
  /\ in_login \subseteq Threads
  /\ session \in BOOLEAN /\ snap_rejected \in BOOLEAN
  /\ periodic \in {"none", "waiting", "resync", "ended"}
  /\ periodic_stop \in BOOLEAN
  /\ hub \in {"starting", "up", "stopping", "closing", "closed", "stopped"}
  /\ auth_failed \in BOOLEAN
  /\ rejections \in [{"realtime", "snapshot"} -> Nat]
  /\ Cardinality({t \in Threads : resync[t] = "zones"}) <= 1
  /\ Cardinality(in_login) <= 1 /\ (in_login # {} => ~session)

\* "A silently dead realtime connection is detected": a peer that goes silent
\* without closing the connection does not stay connected for ever, "even if
\* the keepalive thread dies".
SilenceIsNoticed ==
  (connected /\ line[attempt] = "silent") ~> ~connected

\* After stop() the realtime thread ends, wherever it was: attaching, between
\* the attach and the moment its connection can be closed from outside, in a
\* resync, reading a live or a silent peer, or waiting to reconnect.
StopEnds == stop_event ~> rt = "ended"

\* A realtime thread that has ended has left nothing behind that looks alive:
\* no open connection of any of its attempts, and no availability.
EndedLeavesNothing ==
  rt = "ended" =>
    /\ ~connected /\ transport = 0
    /\ \A k \in Attempts : line[k] \in {"none", "closed"}

\* "Repeated failed logins can lock the ARC account": whatever the hub answers,
\* each session has at most one login rejected.
OneRejectionPerSession == \A s \in DOMAIN rejections : rejections[s] <= 1

\* A rejected login on any session is always reported to the hub, which asks
\* for new credentials, also when it happened on the snapshot session.
RejectionIsReported ==
  (\E s \in DOMAIN rejections : rejections[s] > 0) ~> auth_failed

=============================================================================
