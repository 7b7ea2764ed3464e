--------------------------- MODULE SessionsProofs ---------------------------
(***************************************************************************)
(* Proofs about Sessions, for any number of connection attempts.           *)
(*                                                                         *)
(* The inductive invariant says where the realtime thread can be while a   *)
(* connection is open, current or counted as available, which thread the   *)
(* snapshot session's lock belongs to, and what a rejected login leaves    *)
(* behind that keeps its session from logging in again.                    *)
(***************************************************************************)
EXTENDS Sessions, FiniteSetTheorems, TLAPS

\* A thread is in a resync exactly while Reconciler.run is on its way there, and
\* logs in only as part of its requests.  The periodic thread is started once.
ResyncsHaveThreads ==
  /\ hub = "starting" => periodic = "none"
  /\ resync["realtime"] # "none" <=> rt = "resync"
  /\ resync["periodic"] # "none" <=> periodic = "resync"
  /\ \A t \in in_login : resync[t] \in {"zones", "table"}

\* Only the connection of the current attempt can be open or current, and only
\* between its attach and its cleanup; the client is available only while it
\* reads, or is about to clean up.
ConnectionsAreInUse ==
  /\ connected => rt \in {"loop", "recv", "cleanup"}
  /\ transport # 0 => transport = attempt /\ rt \in {"resync", "loop", "recv", "cleanup"}
  /\ \A k \in Attempts :
       (k # attempt \/ rt \in {"attach", "backoff", "ended"}) => line[k] \in {"none", "closed"}

\* A session whose login was rejected knows it: the realtime thread is on its
\* way out, and nobody logs in on the snapshot session again.
RejectionsAreFinal ==
  /\ rejected => rt \in {"cleanup", "ended"}
  /\ rejections["realtime"] # 0 => rejections["realtime"] = 1 /\ rejected
  /\ rejections["snapshot"] # 0 =>
       rejections["snapshot"] = 1 /\ snap_rejected /\ in_login = {}

IInv == TypeOK /\ ResyncsHaveThreads /\ ConnectionsAreInUse /\ RejectionsAreFinal

USE SessionsAssumption

-----------------------------------------------------------------------------
(* Who writes what.                                                        *)

RealtimeOwn ==
  \/ Attach \/ AttachFails \/ AttachRejected \/ Begin \/ Serve \/ ResyncFails
  \/ ResyncRejected \/ LoopHead \/ Frame \/ RecvFails \/ CleanUp \/ BackOff

ResyncOwn == ResyncStep("realtime") \/ ResyncStep("periodic")

\* The realtime client's state is written by its own thread and the watchdog.
LEMMA RtWriters ==
  ASSUME [Next]_vars
  PROVE  RealtimeOwn \/ (\E k \in Attempts : Trip(k)) \/ UNCHANGED rtVars
  <1> USE DEF KeepRt, KeepOthers, KeepClients
  <1>1. CASE ResyncOwn
    BY <1>1 DEF ResyncOwn, ResyncStep, LockReconciler, Answered, RequestFails, Denied, Reopen,
                Reopened, ReopenFails, ReopenRejected
  <1>2. ASSUME NEW k \in Attempts, Keeper(k) PROVE Trip(k) \/ UNCHANGED rtVars
    BY <1>2 DEF Keeper, KeeperEnds, KeeperWakes, Sent, SendFails, KeeperCloses
  <1>3. CASE LineFails \/ TimePasses \/ SessionLost
    BY <1>3 DEF LineFails, TimePasses, SessionLost
  <1>4. CASE Periodic
    BY <1>4 DEF Periodic, PeriodicBegins, PeriodicDone, PeriodicRejected, PeriodicEnds
  <1>5. CASE Started \/ BeginStop \/ Stopping \/ UNCHANGED vars
    BY <1>5 DEF Started, BeginStop, Stopping, StopRealtime, CloseRealtime, CloseSnapshot, vars
  <1> QED
    BY <1>1, <1>2, <1>3, <1>4, <1>5 DEF Next, Realtime, RealtimeOwn, ResyncOwn

\* The connections are written by the realtime thread, the keepalive threads,
\* the network and the hub that closes them.
LEMMA LineWriters ==
  ASSUME [Next]_vars
  PROVE  \/ Attach \/ Begin \/ Frame \/ CleanUp \/ LineFails \/ TimePasses \/ CloseRealtime
         \/ \E k \in Attempts : Keeper(k)
         \/ UNCHANGED lineVars
  <1> USE DEF KeepLine, KeepOthers, KeepClients
  <1>1. CASE ResyncOwn
    BY <1>1 DEF ResyncOwn, ResyncStep, LockReconciler, Answered, RequestFails, Denied, Reopen,
                Reopened, ReopenFails, ReopenRejected
  <1>2. CASE RealtimeOwn
    BY <1>2 DEF RealtimeOwn, AttachFails, AttachRejected, LoginFail, Serve, ResyncFails,
                ResyncRejected, LoopHead, RecvFails, BackOff
  <1>3. CASE SessionLost \/ Periodic
    BY <1>3 DEF SessionLost, Periodic, PeriodicBegins, PeriodicDone, PeriodicRejected,
                PeriodicEnds
  <1>4. CASE Started \/ BeginStop \/ Stopping \/ UNCHANGED vars
    BY <1>4 DEF Started, BeginStop, Stopping, StopRealtime, CloseSnapshot, vars
  <1> QED
    BY <1>1, <1>2, <1>3, <1>4 DEF Next, Realtime, RealtimeOwn, ResyncOwn

\* The resyncs are written by the threads that are in one, and by nobody else.
LEMMA ResyncWriters ==
  ASSUME [Next]_vars
  PROVE  \/ Begin \/ Serve \/ ResyncFails \/ ResyncRejected
         \/ ResyncOwn
         \/ PeriodicBegins \/ PeriodicDone \/ PeriodicRejected
         \/ UNCHANGED resync
  <1> USE DEF KeepResync
  <1>1. CASE RealtimeOwn
    BY <1>1 DEF RealtimeOwn, Attach, AttachFails, AttachRejected, LoopHead, Frame, RecvFails,
                CleanUp, BackOff
  <1>2. ASSUME NEW k \in Attempts, Keeper(k) PROVE UNCHANGED resync
    BY <1>2 DEF Keeper, KeeperEnds, Trip, KeeperWakes, Sent, SendFails, KeeperCloses
  <1>3. CASE LineFails \/ TimePasses \/ SessionLost \/ PeriodicEnds
    BY <1>3 DEF LineFails, TimePasses, SessionLost, PeriodicEnds
  <1>4. CASE Started \/ BeginStop \/ Stopping \/ UNCHANGED vars
    BY <1>4 DEF Started, BeginStop, Stopping, StopRealtime, CloseRealtime, CloseSnapshot, vars
  <1> QED
    BY <1>1, <1>2, <1>3, <1>4 DEF Next, Realtime, RealtimeOwn, ResyncOwn, Periodic

\* The snapshot session is written by requests, by whoever reports a rejected
\* login, by its own keepalive and by the hub that closes it.
LEMMA SnapWriters ==
  ASSUME [Next]_vars
  PROVE  \/ AttachRejected \/ ResyncRejected \/ PeriodicRejected
         \/ ResyncOwn \/ SessionLost \/ CloseSnapshot
         \/ UNCHANGED <<snapVars, rejections>>
  <1> USE DEF KeepSnap, snapVars
  <1>1. CASE RealtimeOwn
    BY <1>1 DEF RealtimeOwn, Attach, AttachFails, Begin, Serve, ResyncFails, LoopHead, Frame,
                RecvFails, CleanUp, BackOff
  <1>2. ASSUME NEW k \in Attempts, Keeper(k) PROVE UNCHANGED <<snapVars, rejections>>
    BY <1>2 DEF Keeper, KeeperEnds, Trip, KeeperWakes, Sent, SendFails, KeeperCloses
  <1>3. CASE LineFails \/ TimePasses \/ Periodic
    BY <1>3 DEF LineFails, TimePasses, Periodic, PeriodicBegins, PeriodicDone, PeriodicEnds
  <1>4. CASE Started \/ BeginStop \/ Stopping \/ UNCHANGED vars
    BY <1>4 DEF Started, BeginStop, Stopping, StopRealtime, CloseRealtime, vars
  <1> QED
    BY <1>1, <1>2, <1>3, <1>4 DEF Next, Realtime, RealtimeOwn, ResyncOwn

\* The hub and its periodic thread are written by themselves and by whoever
\* reports a rejected login.
LEMMA HubWriters ==
  ASSUME [Next]_vars
  PROVE  \/ AttachRejected \/ ResyncRejected \/ Periodic \/ Started \/ BeginStop \/ Stopping
         \/ UNCHANGED <<stop_event, hubVars>>
  <1> USE DEF KeepHub, KeepOthers
  <1>1. CASE RealtimeOwn
    BY <1>1 DEF RealtimeOwn, Attach, AttachFails, Begin, Serve, ResyncFails, LoopHead, Frame,
                RecvFails, CleanUp, BackOff
  <1>2. ASSUME NEW k \in Attempts, Keeper(k) PROVE UNCHANGED <<stop_event, hubVars>>
    BY <1>2 DEF Keeper, KeeperEnds, Trip, KeeperWakes, Sent, SendFails, KeeperCloses
  <1>3. CASE LineFails \/ TimePasses \/ SessionLost
    BY <1>3 DEF LineFails, TimePasses, SessionLost
  <1>4. CASE ResyncOwn
    BY <1>4 DEF ResyncOwn, ResyncStep, LockReconciler, Answered, RequestFails, Denied, Reopen,
                Reopened, ReopenFails, ReopenRejected
  <1>5. CASE UNCHANGED vars
    BY <1>5 DEF vars
  <1> QED
    BY <1>1, <1>2, <1>3, <1>4, <1>5 DEF Next, Realtime, RealtimeOwn, ResyncOwn

-----------------------------------------------------------------------------
(* The shape of the state.                                                 *)

RtType ==
  /\ rt \in Labels
  /\ attempt \in Attempts
  /\ tripped \in BOOLEAN
  /\ connected \in BOOLEAN /\ ready \in BOOLEAN /\ rejected \in BOOLEAN
  /\ last_error \in {"none", "error", "silence"}

LineType ==
  /\ line \in [Attempts -> {"none", "live", "silent", "broken", "closed"}]
  /\ transport \in 0..attempt
  /\ keeper \in [Attempts -> {"none", "waiting", "awake", "closing", "done"}]
  /\ overdue \in BOOLEAN

\* One thread at a time reads the zones.
ResyncType ==
  /\ resync \in [Threads -> {"none", "lock", "zones", "table", "done", "failed", "rejected"}]
  /\ \A t, u \in Threads : resync[t] = "zones" /\ resync[u] = "zones" => t = u

\* One thread at a time logs in, on a session that has no transport.
SnapType ==
  /\ in_login \subseteq Threads
  /\ session \in BOOLEAN /\ snap_rejected \in BOOLEAN
  /\ rejections \in [{"realtime", "snapshot"} -> Nat]
  /\ \A t, u \in in_login : t = u
  /\ in_login # {} => ~session

HubType ==
  /\ stop_event \in BOOLEAN
  /\ periodic \in {"none", "waiting", "resync", "ended"}
  /\ periodic_stop \in BOOLEAN
  /\ hub \in {"starting", "up", "stopping", "closing", "closed", "stopped"}
  /\ auth_failed \in BOOLEAN

\* A set in which any two members are the same has at most one.
LEMMA AtMostOne ==
  ASSUME NEW S
  PROVE  IsFiniteSet(S) /\ Cardinality(S) <= 1 <=> \A x, y \in S : x = y
  <1>1. ASSUME IsFiniteSet(S), Cardinality(S) <= 1 PROVE \A x, y \in S : x = y
    <2>1. Cardinality(S) \in Nat
      BY <1>1, FS_CardinalityType
    <2>2. Cardinality(S) = 0 \/ Cardinality(S) = 1
      BY <1>1, <2>1
    <2> QED
      BY <1>1, <2>2, FS_EmptySet, FS_Singleton
  <1>2. ASSUME \A x, y \in S : x = y PROVE IsFiniteSet(S) /\ Cardinality(S) <= 1
    <2>1. CASE S = {}
      BY <2>1, FS_EmptySet
    <2>2. ASSUME NEW x \in S PROVE IsFiniteSet(S) /\ Cardinality(S) <= 1
      <3>1. S = {x}
        BY <1>2
      <3>2. IsFiniteSet({x}) /\ Cardinality({x}) = 1
        BY FS_Singleton
      <3> QED
        BY <3>1, <3>2
    <2> QED
      BY <2>1, <2>2
  <1> QED
    BY <1>1, <1>2

\* The type invariant is the conjunction of these parts.
LEMMA TypeParts == TypeOK <=> RtType /\ LineType /\ ResyncType /\ SnapType /\ HubType
  <1> DEFINE Reading == {t \in Threads : resync[t] = "zones"}
  <1>1. IsFiniteSet(Threads) /\ Reading \subseteq Threads
    <2>1. IsFiniteSet({"realtime"})
      BY FS_Singleton
    <2>2. IsFiniteSet({"realtime"} \union {"periodic"})
      BY <2>1, FS_AddElement
    <2>3. Threads = {"realtime"} \union {"periodic"}
      BY DEF Threads
    <2> QED
      BY <2>2, <2>3
  <1>2. IsFiniteSet(Reading)
    BY <1>1, FS_Subset
  <1>3. Cardinality(Reading) <= 1 <=>
          \A t, u \in Threads : resync[t] = "zones" /\ resync[u] = "zones" => t = u
    BY <1>2, AtMostOne
  <1>4. in_login \subseteq Threads =>
          (Cardinality(in_login) <= 1 <=> \A t, u \in in_login : t = u)
    BY <1>1, FS_Subset, AtMostOne
  <1> QED
    BY <1>3, <1>4 DEF TypeOK, RtType, LineType, ResyncType, SnapType, HubType

\* The realtime client's state keeps its shape.
LEMMA RtTypeStep == ASSUME RtType, [Next]_vars PROVE RtType'
  <1> USE DEF RtType
  <1>1. ASSUME UNCHANGED rtVars PROVE RtType'
    BY <1>1 DEF rtVars, flagVars
  <1>2. ASSUME NEW l \in Labels, Goto(l) PROVE RtType'
    BY <1>2 DEF Goto, flagVars
  <1>3. ASSUME NEW k \in Attempts, Trip(k) PROVE RtType'
    BY <1>3 DEF Trip, flagVars
  <1>4. ASSUME Fail PROVE RtType'
    <2>1. connected' \in BOOLEAN /\ tripped' \in BOOLEAN
      BY <1>4 DEF Fail
    <2> QED
      BY <1>4, <2>1 DEF Fail, Labels
  <1>5. ASSUME LoginFail PROVE RtType'
    <2>1. tripped' \in BOOLEAN
      BY <1>5 DEF LoginFail
    <2> QED
      BY <1>5, <2>1 DEF LoginFail, Labels
  <1>6. CASE Attach \/ LoopHead \/ Frame
    BY <1>2, <1>6 DEF Attach, LoopHead, Frame, Labels
  <1>7. CASE AttachFails \/ ResyncFails \/ RecvFails
    BY <1>4, <1>7 DEF AttachFails, ResyncFails, RecvFails
  <1>8. CASE AttachRejected \/ ResyncRejected
    BY <1>5, <1>8 DEF AttachRejected, ResyncRejected
  <1>9. CASE Begin
    BY <1>9 DEF Begin, flagVars, Labels
  <1>10. CASE Serve
    <2>1. rejected' \in BOOLEAN /\ tripped' \in BOOLEAN
      BY <1>10 DEF Serve
    <2> QED
      BY <1>10, <2>1 DEF Serve, Labels
  <1>11. CASE CleanUp
    <2>1. rejected' \in BOOLEAN /\ tripped' \in BOOLEAN /\ ready' \in BOOLEAN
      BY <1>11 DEF CleanUp
    <2> QED
      BY <1>11, <2>1 DEF CleanUp, Labels
  <1>12. CASE BackOff
    <2>1. attempt' \in Attempts
      BY <1>12 DEF BackOff, Attempts
    <2> QED
      BY <1>12, <2>1 DEF BackOff, flagVars, Labels
  <1> QED
    BY <1>1, <1>3, <1>6, <1>7, <1>8, <1>9, <1>10, <1>11, <1>12, RtWriters DEF RealtimeOwn

\* So do the connections.
LEMMA LineTypeStep == ASSUME RtType, LineType, [Next]_vars PROVE LineType'
  <1> attempt \in Attempts /\ attempt \in Nat
    BY DEF RtType, Attempts
  <1> USE DEF LineType
  <1>1. CASE UNCHANGED lineVars
    <2>1. attempt' = attempt \/ attempt' = attempt + 1
      BY RtWriters DEF RealtimeOwn, Attach, AttachFails, AttachRejected, Begin, Serve,
           ResyncFails, ResyncRejected, LoopHead, Frame, RecvFails, CleanUp, BackOff, Goto,
           Fail, LoginFail, Trip, rtVars
    <2> QED
      BY <1>1, <2>1 DEF lineVars
  <1>2. CASE Attach
    BY <1>2 DEF Attach, Goto
  <1>3. CASE Begin
    <2>1. overdue' \in BOOLEAN
      BY <1>3 DEF Begin
    <2>2. keeper' \in [Attempts -> {"none", "waiting", "awake", "closing", "done"}]
      BY <1>3 DEF Begin
    <2> QED
      BY <1>3, <2>1, <2>2 DEF Begin
  <1>4. CASE Frame
    BY <1>4 DEF Frame, Goto
  <1>5. CASE CleanUp
    <2>1. attempt' = attempt /\ overdue' \in BOOLEAN /\ keeper' = keeper
      BY <1>5 DEF CleanUp
    <2>2. line' \in [Attempts -> {"none", "live", "silent", "broken", "closed"}]
      BY <1>5 DEF CleanUp
    <2>3. transport' \in 0..attempt
      BY <1>5 DEF CleanUp
    <2> QED
      BY <2>1, <2>2, <2>3
  <1>6. CASE LineFails \/ TimePasses
    BY <1>6 DEF LineFails, TimePasses, KeepRt, rtVars
  <1>7. CASE CloseRealtime
    BY <1>7 DEF CloseRealtime, CloseCurrent, KeepRt, rtVars
  <1>8. ASSUME NEW k \in Attempts, Keeper(k) PROVE LineType'
    <2>1. attempt' = attempt /\ overdue' \in BOOLEAN
      BY <1>8 DEF Keeper, KeeperEnds, Trip, KeeperWakes, Sent, SendFails, KeeperCloses,
         KeepRt, rtVars
    <2>2. keeper' \in [Attempts -> {"none", "waiting", "awake", "closing", "done"}]
      BY <1>8 DEF Keeper, KeeperEnds, Trip, KeeperWakes, Sent, SendFails, KeeperCloses,
         KeeperStep
    <2>3. line' \in [Attempts -> {"none", "live", "silent", "broken", "closed"}]
      BY <1>8 DEF Keeper, KeeperEnds, Trip, KeeperWakes, Sent, SendFails, KeeperCloses,
         CloseCurrent
    <2>4. transport' \in 0..attempt
      BY <1>8 DEF Keeper, KeeperEnds, Trip, KeeperWakes, Sent, SendFails, KeeperCloses,
         CloseCurrent
    <2> QED
      BY <2>1, <2>2, <2>3, <2>4
  <1> QED
    BY <1>1, <1>2, <1>3, <1>4, <1>5, <1>6, <1>7, <1>8, LineWriters

\* So do the resyncs: the reconciler's lock lets one thread at a time read zones.
LEMMA ResyncTypeStep == ASSUME ResyncType, [Next]_vars PROVE ResyncType'
  <1> USE DEF ResyncType
  <1>1. ASSUME NEW t \in Threads, NEW s \in {"none", "lock", "table", "done", "failed", "rejected"},
               Resyncs(t, s)
        PROVE  ResyncType'
    BY <1>1 DEF Resyncs
  <1>2. ASSUME NEW t \in Threads, ResyncStep(t) PROVE ResyncType'
    <2>1. CASE LockReconciler(t)
      BY <2>1 DEF LockReconciler, Resyncs
    <2>2. CASE Answered(t) \/ Reopened(t)
      BY <1>1, <2>2 DEF Answered, Reopened, Advance
    <2>3. CASE RequestFails(t) \/ ReopenFails(t)
      BY <1>1, <2>3 DEF RequestFails, ReopenFails, Failed
    <2>4. CASE Denied(t) \/ ReopenRejected(t)
      BY <1>1, <2>4 DEF Denied, ReopenRejected
    <2>5. CASE Reopen(t)
      BY <2>5 DEF Reopen, KeepResync
    <2> QED
      BY <1>2, <2>1, <2>2, <2>3, <2>4, <2>5 DEF ResyncStep
  <1>3. CASE Begin
    BY <1>1, <1>3 DEF Begin, Resyncs, Threads
  <1>4. CASE Serve \/ ResyncFails \/ ResyncRejected
    BY <1>1, <1>4 DEF Serve, ResyncFails, ResyncRejected, ResyncEnds, Resyncs, Threads
  <1>5. CASE PeriodicBegins \/ PeriodicDone \/ PeriodicRejected
    BY <1>1, <1>5 DEF PeriodicBegins, PeriodicDone, PeriodicRejected, Threads
  <1>6. CASE UNCHANGED resync
    BY <1>6
  <1> QED
    BY <1>2, <1>3, <1>4, <1>5, <1>6, ResyncWriters DEF ResyncOwn, Threads

\* So does the snapshot session: whoever logs in holds its lock until the request
\* has been made.
LEMMA SnapTypeStep == ASSUME SnapType, [Next]_vars PROVE SnapType'
  <1> USE DEF SnapType
  <1>1. ASSUME NEW t \in Threads, ResyncStep(t) PROVE SnapType'
    <2>1. CASE LockReconciler(t) \/ Answered(t) \/ Denied(t)
      BY <2>1 DEF LockReconciler, Answered, Denied, KeepSnap
    <2>2. CASE RequestFails(t)
      BY <2>2 DEF RequestFails
    <2>3. CASE Reopen(t)
      BY <2>3 DEF Reopen, Requests
    <2>4. CASE Reopened(t)
      <3>1. snap_rejected' \in BOOLEAN /\ in_login' = {}
        BY <2>4 DEF Reopened, LoggedIn
      <3> QED
        BY <2>4, <3>1 DEF Reopened
    <2>5. CASE ReopenFails(t)
      BY <2>5 DEF ReopenFails, LoggedIn
    <2>6. CASE ReopenRejected(t)
      <3>1. session' \in BOOLEAN /\ in_login' = {}
        BY <2>6 DEF ReopenRejected, LoggedIn
      <3> QED
        BY <2>6, <3>1 DEF ReopenRejected
    <2> QED
      BY <1>1, <2>1, <2>2, <2>3, <2>4, <2>5, <2>6 DEF ResyncStep
  <1>2. CASE AttachRejected \/ ResyncRejected \/ PeriodicRejected
    <2>1. in_login' = in_login /\ session' = session /\ snap_rejected' = TRUE
      BY <1>2 DEF AttachRejected, ResyncRejected, PeriodicRejected, LoginFail, HandleAuthFailure
    <2>2. rejections' \in [{"realtime", "snapshot"} -> Nat]
      BY <1>2 DEF AttachRejected, ResyncRejected, PeriodicRejected
    <2> QED
      BY <2>1, <2>2
  <1>3. CASE SessionLost \/ CloseSnapshot
    <2>1. UNCHANGED <<in_login, snap_rejected, rejections>> /\ session' = FALSE
      BY <1>3 DEF SessionLost, CloseSnapshot
    <2> QED
      BY <2>1
  <1>4. CASE UNCHANGED <<snapVars, rejections>>
    BY <1>4 DEF snapVars
  <1> QED
    BY <1>1, <1>2, <1>3, <1>4, SnapWriters DEF ResyncOwn, Threads

\* So do the hub and its periodic thread.
LEMMA HubTypeStep == ASSUME HubType, [Next]_vars PROVE HubType'
  <1> USE DEF HubType
  <1>1. CASE UNCHANGED <<stop_event, hubVars>>
    BY <1>1 DEF hubVars
  <1>2. CASE AttachRejected \/ ResyncRejected
    <2>1. UNCHANGED <<periodic, hub, stop_event>> /\ auth_failed' = TRUE /\ periodic_stop' = TRUE
      BY <1>2 DEF AttachRejected, ResyncRejected, LoginFail, HandleAuthFailure
    <2> QED
      BY <2>1
  <1>3. CASE Periodic
    <2>1. /\ stop_event' = stop_event /\ hub' = hub
          /\ periodic' \in {"waiting", "resync", "ended"}
      BY <1>3 DEF Periodic, PeriodicBegins, PeriodicDone, PeriodicRejected, PeriodicEnds,
                  PeriodicStep, HandleAuthFailure, KeepClients
    <2>2. /\ auth_failed' = auth_failed \/ auth_failed' = TRUE
          /\ periodic_stop' = periodic_stop \/ periodic_stop' = TRUE
      BY <1>3 DEF Periodic, PeriodicBegins, PeriodicDone, PeriodicRejected, PeriodicEnds,
                  HandleAuthFailure
    <2> QED
      BY <2>1, <2>2
  <1>4. CASE Started \/ BeginStop \/ Stopping
    <2>1. /\ auth_failed' = auth_failed
          /\ hub' \in {"starting", "up", "stopping", "closing", "closed", "stopped"}
      BY <1>4 DEF Started, BeginStop, Stopping, StopRealtime, CloseRealtime, CloseSnapshot, HubStep
    <2>2. /\ stop_event' = stop_event \/ stop_event' = TRUE
          /\ periodic_stop' = periodic_stop \/ periodic_stop' = TRUE
          /\ periodic' = periodic \/ periodic' = "waiting"
      BY <1>4 DEF Started, BeginStop, Stopping, StopRealtime, CloseRealtime, CloseSnapshot,
                  KeepClients
    <2> QED
      BY <2>1, <2>2
  <1> QED
    BY <1>1, <1>2, <1>3, <1>4, HubWriters

-----------------------------------------------------------------------------
(* The rest of the invariant.                                              *)

\* The sessions start in the invariant.
LEMMA InitInv == Init => IInv
  <1> SUFFICES ASSUME Init PROVE IInv
    OBVIOUS
  <1> USE DEF Init
  <1>1. RtType
    <2>1. connected \in BOOLEAN /\ ready \in BOOLEAN /\ rejected \in BOOLEAN /\ tripped \in BOOLEAN
      OBVIOUS
    <2> QED
      BY <2>1 DEF RtType, Labels, Attempts
  <1>2. LineType
    <2>1. overdue \in BOOLEAN
      OBVIOUS
    <2> QED
      BY <2>1 DEF LineType, Attempts
  <1>3. ResyncType
    BY DEF ResyncType
  <1>4. SnapType
    BY DEF SnapType
  <1>5. HubType
    BY DEF HubType
  <1>6. ResyncsHaveThreads /\ ConnectionsAreInUse /\ RejectionsAreFinal
    BY DEF ResyncsHaveThreads, ConnectionsAreInUse, RejectionsAreFinal, Threads
  <1> QED
    BY <1>1, <1>2, <1>3, <1>4, <1>5, <1>6, TypeParts DEF IInv

\* A resync belongs to the thread that is in it, and a login to a request.
LEMMA ThreadsStep ==
  ASSUME ResyncType, SnapType, ResyncsHaveThreads, [Next]_vars
  PROVE  ResyncsHaveThreads'
  <1> USE DEF ResyncsHaveThreads, ResyncType, SnapType
  <1>1. "realtime" \in Threads /\ "periodic" \in Threads /\ \A t \in Threads : t \in {"realtime", "periodic"}
    BY DEF Threads
  <1>2. ASSUME UNCHANGED <<resync, in_login, periodic, rt, hub>> PROVE ResyncsHaveThreads'
    BY <1>2
  <1>3. CASE RealtimeOwn
    <2>1. in_login' = in_login /\ periodic' = periodic /\ hub' = hub
      BY <1>3 DEF RealtimeOwn, Attach, AttachFails, AttachRejected, Begin, Serve, ResyncFails,
                  ResyncRejected, LoopHead, Frame, RecvFails, CleanUp, BackOff, KeepSnap, KeepHub,
                  hubVars, LoginFail, HandleAuthFailure
    <2>2. CASE Begin
      BY <1>1, <2>1, <2>2 DEF Begin
    <2>3. CASE Serve \/ ResyncFails \/ ResyncRejected
      <3>1. rt = "resync" /\ rt' # "resync" /\ resync["realtime"] \in {"done", "failed", "rejected"}
        BY <2>3 DEF Serve, ResyncFails, ResyncRejected, ResyncEnds, Fail, LoginFail
      <3>2. resync' = [resync EXCEPT !["realtime"] = "none"]
        BY <2>3 DEF Serve, ResyncFails, ResyncRejected, ResyncEnds
      <3> QED
        BY <1>1, <2>1, <3>1, <3>2
    <2>4. CASE Attach \/ AttachFails \/ AttachRejected \/ LoopHead \/ Frame \/ RecvFails
                 \/ CleanUp \/ BackOff
      <3>1. rt # "resync" /\ rt' # "resync" /\ resync' = resync
        BY <2>4 DEF Attach, AttachFails, AttachRejected, LoopHead, Frame, RecvFails, CleanUp,
                    BackOff, Goto, Fail, LoginFail, KeepResync
      <3> QED
        BY <2>1, <3>1
    <2> QED
      BY <1>3, <2>2, <2>3, <2>4 DEF RealtimeOwn
  <1>4. ASSUME NEW t \in Threads, ResyncStep(t) PROVE ResyncsHaveThreads'
    <2>1. rt' = rt /\ periodic' = periodic /\ hub' = hub
      BY <1>4 DEF ResyncStep, LockReconciler, Answered, RequestFails, Denied, Reopen, Reopened,
                  ReopenFails, ReopenRejected, KeepOthers, KeepRt, KeepHub, rtVars, hubVars
    <2>2. \A u \in Threads : resync'[u] # "none" <=> resync[u] # "none"
      BY <1>4 DEF ResyncStep, LockReconciler, Answered, RequestFails, Denied, Reopen, Reopened,
                  ReopenFails, ReopenRejected, Requests, LoggedIn, Advance, Failed, Resyncs,
                  KeepResync
    <2>3. \A u \in in_login' : resync'[u] \in {"zones", "table"}
      <3>1. CASE LockReconciler(t)
        BY <3>1 DEF LockReconciler, Resyncs, KeepSnap
      <3>2. CASE Reopen(t)
        BY <3>2 DEF Reopen, Requests, KeepResync
      <3>3. CASE Answered(t) \/ RequestFails(t) \/ Denied(t)
        BY <3>3 DEF Answered, RequestFails, Denied, Requests, KeepSnap
      <3>4. CASE Reopened(t) \/ ReopenFails(t) \/ ReopenRejected(t)
        BY <3>4 DEF Reopened, ReopenFails, ReopenRejected, LoggedIn
      <3> QED
        BY <1>4, <3>1, <3>2, <3>3, <3>4 DEF ResyncStep
    <2> QED
      BY <1>1, <2>1, <2>2, <2>3
  <1>5. CASE Periodic
    <2>1. in_login' = in_login /\ rt' = rt /\ hub' = hub
      BY <1>5 DEF Periodic, PeriodicBegins, PeriodicDone, PeriodicRejected, PeriodicEnds,
                  HandleAuthFailure, KeepSnap, KeepClients, KeepRt, rtVars
    <2>2. CASE PeriodicEnds
      BY <2>1, <2>2 DEF PeriodicEnds, PeriodicStep, KeepResync
    <2>3. CASE PeriodicBegins
      BY <1>1, <2>1, <2>3 DEF PeriodicBegins, PeriodicStep, Resyncs
    <2>4. CASE PeriodicDone \/ PeriodicRejected
      BY <1>1, <2>1, <2>4 DEF PeriodicDone, PeriodicRejected, PeriodicStep, Resyncs
    <2> QED
      BY <1>5, <2>2, <2>3, <2>4 DEF Periodic
  <1>6. CASE LineFails \/ TimePasses \/ SessionLost \/ UNCHANGED vars
    BY <1>2, <1>6 DEF LineFails, TimePasses, SessionLost, KeepResync, KeepSnap, KeepHub, KeepRt,
                      KeepOthers, hubVars, rtVars, snapVars, vars
  <1>7. ASSUME NEW k \in Attempts, Keeper(k) PROVE ResyncsHaveThreads'
    BY <1>2, <1>7 DEF Keeper, KeeperEnds, Trip, KeeperWakes, Sent, SendFails, KeeperCloses,
       KeepResync, KeepSnap,
                      KeepHub, KeepRt, hubVars, rtVars
  <1>8. CASE Started \/ BeginStop \/ Stopping
    BY <1>8 DEF Started, BeginStop, Stopping, StopRealtime, CloseRealtime, CloseSnapshot, HubStep,
                KeepResync, KeepSnap, KeepClients, KeepRt, rtVars
  <1> QED
    BY <1>1, <1>3, <1>4, <1>5, <1>6, <1>7, <1>8 DEF Next, Realtime, RealtimeOwn

\* Whoever closes the current connection from outside opens none.
LEMMA CloseCurrentInUse ==
  ASSUME LineType, ConnectionsAreInUse, CloseCurrent, UNCHANGED <<rt, attempt, connected>>
  PROVE  ConnectionsAreInUse'
  BY DEF LineType, ConnectionsAreInUse, CloseCurrent

\* A connection is open, current or counted as available only while it is in use.
LEMMA ConnectionsStep ==
  ASSUME RtType, LineType, ConnectionsAreInUse, [Next]_vars
  PROVE  ConnectionsAreInUse'
  <1> attempt \in Attempts /\ attempt \in Nat
    BY DEF RtType, Attempts
  <1> DEFINE Kept == UNCHANGED <<line, transport>>
  <1>1. ASSUME Kept, UNCHANGED <<rt, attempt, connected>> PROVE ConnectionsAreInUse'
    BY <1>1 DEF ConnectionsAreInUse
  <1>2. ASSUME Kept, attempt' = attempt, rt' = "cleanup",
               connected' = connected \/ connected' = FALSE
        PROVE  ConnectionsAreInUse'
    BY <1>2 DEF ConnectionsAreInUse
  <1>3. CASE AttachFails \/ ResyncFails \/ RecvFails
    BY <1>2, <1>3 DEF AttachFails, ResyncFails, RecvFails, Fail, KeepLine, lineVars
  <1>4. CASE AttachRejected \/ ResyncRejected
    BY <1>2, <1>4 DEF AttachRejected, ResyncRejected, LoginFail, lineVars
  <1>5. CASE Attach
    BY <1>5 DEF Attach, Goto, flagVars, LineType, ConnectionsAreInUse
  <1>6. CASE Begin
    <2>1. /\ transport' = attempt /\ rt' = "resync" /\ UNCHANGED <<line, attempt, connected>>
          /\ rt = "attached"
      BY <1>6 DEF Begin, flagVars
    <2> QED
      BY <2>1 DEF ConnectionsAreInUse
  <1>7. CASE Serve
    <2>1. Kept /\ rt = "resync" /\ rt' = "loop" /\ attempt' = attempt
      BY <1>7 DEF Serve, ResyncEnds, KeepLine, lineVars
    <2> QED
      BY <2>1 DEF ConnectionsAreInUse
  <1>8. CASE LoopHead \/ Frame
    <2>1. /\ Kept /\ rt \in {"loop", "recv"} /\ rt' \in {"loop", "recv", "cleanup"}
          /\ UNCHANGED <<attempt, connected>>
      BY <1>8 DEF LoopHead, Frame, Goto, flagVars, KeepLine, lineVars
    <2> QED
      BY <2>1 DEF ConnectionsAreInUse
  <1>9. CASE CleanUp
    <2>1. connected' = FALSE /\ attempt' = attempt /\ rt = "cleanup"
      BY <1>9 DEF CleanUp
    <2>2. transport' = 0
      BY <1>9 DEF CleanUp, ConnectionsAreInUse
    <2>3. \A k \in Attempts : line'[k] \in {"none", "closed"}
      BY <1>9 DEF CleanUp, LineType, ConnectionsAreInUse
    <2> QED
      BY <2>1, <2>2, <2>3 DEF ConnectionsAreInUse
  <1>10. CASE BackOff
    <2>1. /\ Kept /\ rt = "backoff" /\ UNCHANGED connected
          /\ \/ rt' = "ended" /\ attempt' = attempt
             \/ rt' = "attach" /\ attempt' = attempt + 1
      BY <1>10 DEF BackOff, KeepLine, lineVars, flagVars
    <2> QED
      BY <2>1 DEF ConnectionsAreInUse
  <1>11. ASSUME NEW k \in Attempts, Keeper(k) PROVE ConnectionsAreInUse'
    <2>1. UNCHANGED <<rt, attempt, connected>>
      BY <1>11 DEF Keeper, KeeperEnds, Trip, KeeperWakes, Sent, SendFails, KeeperCloses, KeepRt,
         rtVars, flagVars
    <2>2. Kept \/ CloseCurrent
      BY <1>11 DEF Keeper, KeeperEnds, Trip, KeeperWakes, Sent, SendFails, KeeperCloses
    <2> QED
      BY <1>1, <2>1, <2>2, CloseCurrentInUse
  <1>12. CASE LineFails
    <2>1. UNCHANGED <<rt, attempt, connected, transport>>
      BY <1>12 DEF LineFails, KeepRt, rtVars, flagVars
    <2>2. rt \notin {"attach", "backoff", "ended"}
      BY <1>12 DEF LineFails, ConnectionsAreInUse
    <2>3. \A k \in Attempts \ {attempt} : line'[k] = line[k]
      BY <1>12 DEF LineFails, LineType
    <2> QED
      BY <2>1, <2>2, <2>3 DEF ConnectionsAreInUse
  <1>13. CASE TimePasses
    BY <1>1, <1>13 DEF TimePasses, KeepRt, rtVars, flagVars
  <1>14. CASE CloseRealtime
    BY <1>14, CloseCurrentInUse DEF CloseRealtime, KeepRt, rtVars, flagVars
  <1>15. CASE UNCHANGED <<rtVars, lineVars>>
    BY <1>1, <1>15 DEF rtVars, flagVars, lineVars
  <1> QED
    BY <1>3, <1>4, <1>5, <1>6, <1>7, <1>8, <1>9, <1>10, <1>11, <1>12, <1>13, <1>14, <1>15,
       RtWriters, LineWriters DEF RealtimeOwn, Keeper

\* A rejection is remembered by the session it happened on, and ends its logins.
LEMMA RejectionsStep ==
  ASSUME RtType, SnapType, RejectionsAreFinal, [Next]_vars
  PROVE  RejectionsAreFinal'
  <1> USE DEF RejectionsAreFinal
  <1> rejections["realtime"] \in Nat /\ rejections["snapshot"] \in Nat
    BY DEF SnapType
  <1>1. rejected' => rt' \in {"cleanup", "ended"}
    <2>1. CASE AttachRejected \/ ResyncRejected
      BY <2>1 DEF AttachRejected, ResyncRejected, LoginFail
    <2>2. CASE CleanUp
      BY <2>2 DEF CleanUp, Ends
    <2>3. CASE UNCHANGED rtVars \/ \E k \in Attempts : Trip(k)
      BY <2>3 DEF Trip, rtVars, flagVars
    <2>4. CASE Attach \/ AttachFails \/ Begin \/ Serve \/ ResyncFails \/ LoopHead \/ Frame
                 \/ RecvFails \/ BackOff
      BY <2>4 DEF Attach, AttachFails, Begin, Serve, ResyncFails, ResyncEnds, LoopHead, Frame,
                  RecvFails, BackOff, Goto, Fail, flagVars
    <2> QED
      BY <2>1, <2>2, <2>3, <2>4, RtWriters DEF RealtimeOwn
  <1>2. rejected => rejected'
    BY RtWriters DEF RealtimeOwn, Attach, AttachFails, AttachRejected, Begin, Serve, ResyncFails,
         ResyncRejected, LoopHead, Frame, RecvFails, CleanUp, BackOff, Goto, Fail, LoginFail,
         Trip, rtVars, flagVars
  <1>3. snap_rejected => snap_rejected'
    BY SnapWriters DEF AttachRejected, ResyncRejected, PeriodicRejected, LoginFail,
         HandleAuthFailure, ResyncOwn, ResyncStep, LockReconciler, Answered, RequestFails, Denied,
         Reopen, Reopened, ReopenFails, ReopenRejected, SessionLost, CloseSnapshot, KeepSnap,
         snapVars
  <1>4. CASE AttachRejected
    <2>1. /\ ~rejected /\ rejected' = TRUE /\ snap_rejected' = TRUE /\ in_login' = in_login
          /\ rejections' = [rejections EXCEPT !["realtime"] = @ + 1]
      BY <1>4 DEF AttachRejected, LoginFail, HandleAuthFailure
    <2>2. rejections'["realtime"] = 1 /\ rejections'["snapshot"] = rejections["snapshot"]
      BY <2>1 DEF SnapType
    <2> QED
      BY <1>1, <2>1, <2>2
  <1>5. ASSUME NEW t \in Threads, ResyncStep(t) PROVE RejectionsAreFinal'
    <2>1. CASE LockReconciler(t) \/ Answered(t) \/ Denied(t)
      BY <1>1, <1>2, <2>1 DEF LockReconciler, Answered, Denied, KeepSnap
    <2>2. CASE RequestFails(t) \/ Reopen(t)
      BY <1>1, <1>2, <2>2 DEF RequestFails, Reopen
    <2>3. CASE Reopened(t) \/ ReopenFails(t)
      BY <1>1, <1>2, <2>3 DEF Reopened, ReopenFails, LoggedIn
    <2>4. CASE ReopenRejected(t)
      <3>1. rejections["snapshot"] = 0
        BY <2>4 DEF ReopenRejected, LoggedIn
      <3>2. /\ snap_rejected' = TRUE /\ in_login' = {}
            /\ rejections' = [rejections EXCEPT !["snapshot"] = @ + 1]
        BY <2>4 DEF ReopenRejected, LoggedIn
      <3>3. rejections'["snapshot"] = 1 /\ rejections'["realtime"] = rejections["realtime"]
        BY <3>1, <3>2 DEF SnapType
      <3> QED
        BY <1>1, <1>2, <3>2, <3>3
    <2> QED
      BY <1>5, <2>1, <2>2, <2>3, <2>4 DEF ResyncStep
  <1>6. CASE ResyncRejected \/ PeriodicRejected \/ SessionLost \/ CloseSnapshot
               \/ UNCHANGED <<snapVars, rejections>>
    <2>1. rejections' = rejections /\ in_login' = in_login
      BY <1>6 DEF ResyncRejected, PeriodicRejected, LoginFail, HandleAuthFailure, SessionLost,
                  CloseSnapshot, snapVars
    <2> QED
      BY <1>1, <1>2, <1>3, <2>1
  <1> QED
    BY <1>4, <1>5, <1>6, SnapWriters DEF ResyncOwn, Threads

\* The inductive invariant holds in every reachable state.
LEMMA Inductive == Spec => []IInv
  <1>1. ASSUME IInv, [Next]_vars PROVE IInv'
    <2>1. /\ RtType /\ LineType /\ ResyncType /\ SnapType /\ HubType
          /\ ResyncsHaveThreads /\ ConnectionsAreInUse /\ RejectionsAreFinal
      BY <1>1, TypeParts DEF IInv
    <2>2. RtType' /\ LineType' /\ ResyncType' /\ SnapType' /\ HubType'
      BY <1>1, <2>1, RtTypeStep, LineTypeStep, ResyncTypeStep, SnapTypeStep, HubTypeStep
    <2>3. ResyncsHaveThreads' /\ ConnectionsAreInUse' /\ RejectionsAreFinal'
      BY <1>1, <2>1, ThreadsStep, ConnectionsStep, RejectionsStep
    <2>4. (RtType /\ LineType /\ ResyncType /\ SnapType /\ HubType => TypeOK)'
      BY TypeParts, PTL
    <2> QED
      BY <2>2, <2>3, <2>4 DEF IInv
  <1> QED
    BY InitInv, <1>1, PTL DEF Spec

-----------------------------------------------------------------------------
(* What follows for the hub's sessions.                                    *)

\* The sessions' state keeps its shape: one thread at a time reads the zones, and
\* one at a time logs in, on a session without a transport.
THEOREM TypeCorrect == Spec => []TypeOK
  BY Inductive, PTL DEF IInv

\* A realtime thread that has ended has left no open connection of any attempt
\* and nothing that looks available, wherever the stop or the rejection met it.
THEOREM EndLeavesNothing == Spec => []EndedLeavesNothing
  <1>1. IInv => EndedLeavesNothing
    BY DEF IInv, ConnectionsAreInUse, EndedLeavesNothing
  <1> QED
    BY Inductive, <1>1, PTL

\* No session has its login rejected twice, however often it reconnects and
\* whichever thread is asked to log in.
THEOREM RejectedOnceEach == Spec => []OneRejectionPerSession
  <1>1. IInv => OneRejectionPerSession
    <2> SUFFICES ASSUME IInv PROVE OneRejectionPerSession
      OBVIOUS
    <2>1. DOMAIN rejections = {"realtime", "snapshot"}
      BY DEF IInv, TypeOK
    <2>2. rejections["realtime"] <= 1 /\ rejections["snapshot"] <= 1
      BY DEF IInv, TypeOK, RejectionsAreFinal
    <2> QED
      BY <2>1, <2>2 DEF OneRejectionPerSession
  <1> QED
    BY Inductive, <1>1, PTL

=============================================================================
