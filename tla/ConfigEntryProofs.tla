-------------------------- MODULE ConfigEntryProofs --------------------------
(***************************************************************************)
(* Proofs about ConfigEntry, for any ARCs, addresses and bounds.           *)
(*                                                                         *)
(* The inductive invariant says where setup is: which step has the hub's   *)
(* session, its connection and its callback behind it (SetupParts), and    *)
(* that a rejection is heard from the step on in which setup has looked    *)
(* for it (HeardSinceCheck).  Flows disturb neither; what they may do to   *)
(* the entry rests on the type of what they found (FlowType).  Two more    *)
(* invariants stand on it: a rejected password stays rejected              *)
(* (RejectionParts), and what was checked of a second entry stays true     *)
(* while its forms are filled in (SecondParts).                            *)
(***************************************************************************)
EXTENDS ConfigEntry, Options, TLAPS

States == {"not_loaded", "setup", "retry", "auth_error", "error", "loaded",
           "failed_unload"}
WithHub == {"inventory", "realtime", "serial", "callback", "check", "registry"}
Steps == {"none", "cgi", "snapshot"} \union WithHub
Stages == {"closed", "form", "checking", "checked", "options"}

Entries == [uid : Arcs \union {Legacy}, host : Hosts, pw : Nat, serial : Arcs \union {None}]
Hubs == [alive : BOOLEAN, host : Hosts \union {None}, pw : Nat,
         serial : Arcs \union {None}, arc : Arcs \union {None},
         failed : BOOLEAN, callback : BOOLEAN]
Flows == [stage : Stages, host : Hosts \union {None}, pw : Nat, found : Arcs \union {None}]

DataType ==
  /\ at \in [Hosts -> Arcs] /\ password \in Nat
  /\ entry \in Entries
  /\ state \in States /\ step \in Steps
  /\ hub \in Hubs /\ handler \in {"idle", "marked"}
  /\ {hubs, failures, rejected} \subseteq Nat
  /\ asked \in BOOLEAN

FlowType ==
  /\ flow \in [Kinds -> Flows]
  /\ \A k \in Kinds : flow[k].stage \in {"checking", "checked", "options"}
                        => flow[k].host \in Hosts

SetupParts ==
  /\ step # "none" <=> state = "setup"
  /\ step # "none" => hub.host \in Hosts
  /\ step \in WithHub \/ state = "loaded" => hub.alive
  /\ step \in {"cgi", "snapshot"} => ~hub.alive
  /\ step \in {"serial", "callback", "check", "registry"} \/ state = "loaded"
       => hub.arc # None
  /\ step \in {"check", "registry"} \/ state = "loaded" => hub.callback

HeardSinceCheck ==
  (step = "registry" \/ state = "loaded") /\ hub.failed /\ handler = "idle" => asked

Core == DataType /\ SetupParts /\ NoOtherHubRuns /\ HeardSinceCheck

IInv == Core /\ FlowType

USE NamesAreDistinct

-----------------------------------------------------------------------------

\* An entry that is not loaded, with nothing under way, is where it all begins.
LEMMA InitInv == Init => IInv
  <1> SUFFICES ASSUME Init PROVE IInv
    OBVIOUS
  <1> USE DEF Init
  <1>1. DataType
    <2>1. entry \in Entries
      BY DEF Entries
    <2>2. hub \in Hubs
      BY DEF NoHub, Hubs
    <2>3. asked \in BOOLEAN
      OBVIOUS
    <2> QED
      BY <2>1, <2>2, <2>3 DEF DataType, States, Steps, WithHub
  <1>2. SetupParts /\ NoOtherHubRuns /\ HeardSinceCheck
    BY DEF SetupParts, NoOtherHubRuns, HeardSinceCheck, NoHub, Own, WithHub
  <1>3. FlowType
    BY DEF FlowType, Flows, Closed, Stages
  <1> QED
    BY <1>1, <1>2, <1>3 DEF IInv, Core

\* The end of a setup by an exception leaves no hub of its own.
LEMMA RaiseInv ==
  ASSUME Core, step # "none", NEW o \in States \ {"setup", "loaded"}, Raise(o),
         UNCHANGED <<at, password, entry, handler, failures>>, rejected' \in Nat
  PROVE  Core'
  <1> USE DEF Core
  <1>1. hub' \in Hubs /\ ~hub'.alive
    BY DEF Raise, DataType, Hubs
  <1>2. hubs' = failures /\ failures \in Nat
    BY DEF Raise, DataType, NoOtherHubRuns, Own, Hubs, SetupParts
  <1>3. DataType'
    BY <1>1, <1>2 DEF Raise, DataType, Steps
  <1>4. SetupParts' /\ HeardSinceCheck'
    BY DEF Raise, SetupParts, HeardSinceCheck, WithHub
  <1>5. NoOtherHubRuns'
    BY <1>1, <1>2 DEF NoOtherHubRuns, Own
  <1> QED
    BY <1>3, <1>4, <1>5

\* What the core rests on, unchanged.
LEMMA CoreFrame ==
  ASSUME Core, UNCHANGED <<at, password, entry, hub, handler, hubs, failures, state, step,
                           asked, rejected>>
  PROVE  Core'
  BY DEF Core, DataType, SetupParts, NoOtherHubRuns, Own, HeardSinceCheck

\* The steps of setup, each with what it has behind it, and of the hub's threads.
LEMMA SetupStep ==
  ASSUME Core,
         \/ Begin \/ Unreachable
         \/ \E s \in {"cgi", "snapshot", "realtime"} : Rejected(s)
         \/ ReadRecords \/ ReadSnapshot \/ ReadInventory \/ StartRealtime
         \/ CheckSerial \/ SetCallback \/ CheckFailed \/ Register \/ RegisterFails
  PROVE  Core'
  <1> USE DEF Core, outside, flows, running
  <1>1. CASE Begin
    <2>1. hub' \in Hubs /\ ~hub'.alive /\ ~hub'.failed /\ hub'.host \in Hosts
      BY <1>1 DEF Begin, DataType, Hubs, Entries, NoHub
    <2>2. DataType'
      <3>1. asked' \in BOOLEAN
        BY <1>1 DEF Begin
      <3>2. rejected' \in Nat
        BY <1>1 DEF Begin, DataType
      <3> QED
        BY <1>1, <2>1, <3>1, <3>2 DEF Begin, DataType, States, Steps
    <2>3. SetupParts' /\ HeardSinceCheck'
      BY <1>1, <2>1 DEF Begin, SetupParts, HeardSinceCheck, WithHub
    <2>4. NoOtherHubRuns'
      BY <1>1, <2>1 DEF Begin, NoOtherHubRuns, Own, DataType
    <2> QED
      BY <2>2, <2>3, <2>4
  <1>2. CASE Unreachable
    BY <1>2, RaiseInv DEF Unreachable, States, DataType
  <1>3. ASSUME NEW s \in {"cgi", "snapshot", "realtime"}, Rejected(s)
        PROVE  Core'
    BY <1>3, RaiseInv DEF Rejected, States, DataType
  <1>4. CASE ReadRecords
    BY <1>4 DEF ReadRecords, DataType, States, Steps, SetupParts, WithHub,
                HeardSinceCheck, NoOtherHubRuns, Own
  <1>5. CASE ReadSnapshot
    <2>1. /\ hub' \in Hubs /\ hub'.alive /\ hub'.host = hub.host /\ ~hub.alive
      BY <1>5 DEF ReadSnapshot, DataType, Hubs, SetupParts
    <2>2. DataType'
      BY <1>5, <2>1 DEF ReadSnapshot, DataType, States, Steps, WithHub
    <2>3. SetupParts' /\ HeardSinceCheck'
      BY <1>5, <2>1 DEF ReadSnapshot, SetupParts, HeardSinceCheck, WithHub
    <2>4. NoOtherHubRuns'
      BY <1>5, <2>1 DEF ReadSnapshot, NoOtherHubRuns, Own, DataType, SetupParts
    <2> QED
      BY <2>2, <2>3, <2>4
  <1>6. CASE ReadInventory
    <2>1. hub.host \in Hosts /\ Here \in Arcs /\ hub.alive
      BY <1>6 DEF ReadInventory, Here, DataType, SetupParts, WithHub
    <2>2. /\ hub' \in Hubs /\ hub'.alive = hub.alive /\ hub'.host = hub.host
      BY <1>6, <2>1 DEF ReadInventory, DataType, Hubs
    <2>3. DataType'
      BY <1>6, <2>2 DEF ReadInventory, DataType, States, Steps, WithHub
    <2>4. SetupParts' /\ HeardSinceCheck'
      BY <1>6, <2>1, <2>2 DEF ReadInventory, SetupParts, HeardSinceCheck, WithHub
    <2>5. NoOtherHubRuns'
      BY <1>6, <2>2 DEF ReadInventory, NoOtherHubRuns, Own
    <2> QED
      BY <2>3, <2>4, <2>5
  <1>7. CASE StartRealtime
    <2>1. hub.host \in Hosts /\ Here \in Arcs /\ hub.alive
      BY <1>7 DEF StartRealtime, Here, DataType, SetupParts, WithHub
    <2>2. /\ hub' \in Hubs /\ hub'.alive = hub.alive /\ hub'.host = hub.host
          /\ hub'.arc # None
      BY <1>7, <2>1 DEF StartRealtime, DataType, Hubs
    <2>3. DataType'
      BY <1>7, <2>2 DEF StartRealtime, DataType, States, Steps, WithHub
    <2>4. SetupParts' /\ HeardSinceCheck'
      BY <1>7, <2>1, <2>2 DEF StartRealtime, SetupParts, HeardSinceCheck, WithHub
    <2>5. NoOtherHubRuns'
      BY <1>7, <2>2 DEF StartRealtime, NoOtherHubRuns, Own
    <2> QED
      BY <2>3, <2>4, <2>5
  <1>8. CASE CheckSerial
    <2>1. CASE hub.serial \notin {None, entry.serial} /\ entry.serial # None
      BY <1>8, <2>1, RaiseInv DEF CheckSerial, States, DataType
    <2>2. CASE ~(hub.serial \notin {None, entry.serial} /\ entry.serial # None)
      <3>1. entry' \in Entries
        BY <1>8, <2>2 DEF CheckSerial, DataType, Entries, Hubs
      <3>2. step' = "callback" /\ step = "serial"
            /\ UNCHANGED <<at, password, hub, hubs, state, asked, handler, failures, rejected>>
        BY <1>8, <2>2 DEF CheckSerial
      <3> HIDE <1>8
      <3>3. DataType'
        BY <3>1, <3>2 DEF DataType, Steps, WithHub
      <3>4. SetupParts' /\ HeardSinceCheck' /\ NoOtherHubRuns'
        BY <3>2 DEF SetupParts, HeardSinceCheck, WithHub, NoOtherHubRuns, Own
      <3> QED
        BY <3>3, <3>4
    <2> QED
      BY <2>1, <2>2
  <1>9. CASE SetCallback
    <2>1. /\ hub' \in Hubs /\ hub'.alive = hub.alive /\ hub'.host = hub.host
          /\ hub'.arc = hub.arc /\ hub'.callback
      BY <1>9 DEF SetCallback, DataType, Hubs
    <2>2. DataType'
      BY <1>9, <2>1 DEF SetCallback, DataType, States, Steps, WithHub
    <2>3. SetupParts' /\ HeardSinceCheck'
      BY <1>9, <2>1 DEF SetCallback, SetupParts, HeardSinceCheck, WithHub
    <2>4. NoOtherHubRuns'
      BY <1>9, <2>1 DEF SetCallback, NoOtherHubRuns, Own
    <2> QED
      BY <2>2, <2>3, <2>4
  <1>10. CASE CheckFailed
    <2>1. DataType'
      BY <1>10 DEF CheckFailed, DataType, States, Steps, WithHub, Hubs
    <2>2. SetupParts' /\ HeardSinceCheck' /\ NoOtherHubRuns'
      BY <1>10 DEF CheckFailed, SetupParts, HeardSinceCheck, WithHub,
                   NoOtherHubRuns, Own
    <2> QED
      BY <2>1, <2>2
  <1>11. CASE Register
    BY <1>11 DEF Register, DataType, States, Steps, SetupParts, WithHub,
                 HeardSinceCheck, NoOtherHubRuns, Own
  <1>12. CASE RegisterFails
    BY <1>12 DEF RegisterFails, DataType, States, Steps, SetupParts, WithHub,
                 HeardSinceCheck, NoOtherHubRuns, Own
  <1> QED
    BY <1>1, <1>2, <1>3, <1>4, <1>5, <1>6, <1>7, <1>8, <1>9, <1>10, <1>11, <1>12

\* The hub's threads, unload, restart and the world.
LEMMA RunningStep ==
  ASSUME Core,
         HubRejected \/ HandlerCalls \/ Reload \/ Unload \/ Restart \/ WorldChanges
  PROVE  Core'
  <1> USE DEF Core, setting, flows, running
  <1>1. CASE HubRejected
    <2>1. /\ hub' \in Hubs /\ hub'.alive = hub.alive /\ hub'.host = hub.host
          /\ hub'.arc = hub.arc /\ hub'.callback = hub.callback
      BY <1>1 DEF HubRejected, DataType, Hubs
    <2>2. DataType'
      BY <1>1, <2>1 DEF HubRejected, DataType, outside
    <2>3. SetupParts' /\ HeardSinceCheck' /\ NoOtherHubRuns'
      BY <1>1, <2>1 DEF HubRejected, SetupParts, HeardSinceCheck,
                        NoOtherHubRuns, Own
    <2> QED
      BY <2>2, <2>3
  <1>2. CASE HandlerCalls
    <2>1. DataType'
      BY <1>2 DEF HandlerCalls, DataType, Hubs, outside
    <2>2. SetupParts' /\ HeardSinceCheck' /\ NoOtherHubRuns'
      BY <1>2 DEF HandlerCalls, SetupParts, HeardSinceCheck, NoOtherHubRuns, Own
    <2> QED
      BY <2>1, <2>2
  <1>3. CASE Reload
    BY <1>3, CoreFrame DEF Reload, outside
  <1>4. CASE Unload
    <2>1. CASE state' = "not_loaded"
      <3>1. hub' \in Hubs /\ ~hub'.alive /\ hub.alive /\ hub'.host = hub.host
        BY <1>4, <2>1 DEF Unload, DataType, Hubs, SetupParts
      <3>2. hubs' = failures /\ failures \in Nat
        BY <1>4, <2>1, <3>1 DEF Unload, DataType, NoOtherHubRuns, Own
      <3>3. DataType'
        BY <1>4, <2>1, <3>1, <3>2 DEF Unload, DataType, States, outside
      <3>4. SetupParts' /\ HeardSinceCheck' /\ NoOtherHubRuns'
        BY <1>4, <2>1, <3>1, <3>2 DEF Unload, SetupParts, HeardSinceCheck,
                                      NoOtherHubRuns,
                                      Own, WithHub
      <3> QED
        BY <3>3, <3>4
    <2>2. CASE state' = "failed_unload" /\ UNCHANGED <<hub, hubs>>
      BY <1>4, <2>2 DEF Unload, DataType, States, SetupParts, HeardSinceCheck,
                        NoOtherHubRuns, Own, WithHub, outside
    <2> QED
      BY <1>4, <2>1, <2>2 DEF Unload
  <1>5. CASE Restart
    <2>1. hub' \in Hubs /\ ~hub'.alive
      BY <1>5 DEF Restart, NoHub, Hubs
    <2>2. DataType'
      <3>1. asked' \in BOOLEAN
        BY <1>5 DEF Restart
      <3> QED
        BY <1>5, <2>1, <3>1 DEF Restart, DataType, States, Steps, outside
    <2>3. SetupParts' /\ HeardSinceCheck' /\ NoOtherHubRuns'
      BY <1>5, <2>1 DEF Restart, SetupParts, HeardSinceCheck, NoOtherHubRuns,
                        Own, WithHub
    <2> QED
      BY <2>2, <2>3
  <1>6. CASE WorldChanges
    BY <1>6 DEF WorldChanges, DataType, SetupParts, HeardSinceCheck,
                NoOtherHubRuns, Own
  <1> QED
    BY <1>1, <1>2, <1>3, <1>4, <1>5, <1>6

FlowStep ==
  \/ \E k \in Kinds : Open(k) \/ Submit(k) \/ Probe(k) \/ ProbeFails(k) \/ Finish(k)
  \/ Identify \/ Create

\* A flow that finishes writes an address, a password and the serial number it
\* found, which is one.
LEMMA FinishedEntry ==
  ASSUME IInv, NEW k \in Kinds, Finish(k)
  PROVE  entry' \in Entries
  <1>1. CASE UniqueIdMatches(k)
    <2>1. flow[k] \in Flows /\ flow[k].host \in Hosts
      BY DEF IInv, FlowType, Finish
    <2>2. flow[k].found \in Arcs
      BY <1>1, <2>1 DEF UniqueIdMatches, Flows
    <2>3. entry \in Entries
      BY DEF IInv, Core, DataType
    <2> QED
      BY <1>1, <2>1, <2>2, <2>3 DEF Finish, Entries, Flows
  <1>2. CASE ~UniqueIdMatches(k)
    BY <1>2 DEF Finish, IInv, Core, DataType
  <1> QED
    BY <1>1, <1>2

\* The flows leave setup where it is.
LEMMA CoreInFlows == ASSUME IInv, FlowStep PROVE Core'
  <1> USE DEF IInv, outside, running, setting
  <1>1. ASSUME NEW k \in Kinds, Open(k) \/ Submit(k) \/ Probe(k) \/ ProbeFails(k)
        PROVE  Core'
    BY <1>1, CoreFrame DEF Open, Submit, Probe, ProbeFails
  <1>2. ASSUME NEW k \in Kinds, Finish(k)
        PROVE  Core'
    <2>1. entry' \in Entries
      BY <1>2, FinishedEntry
    <2>2. UNCHANGED <<at, password, hub, handler, hubs, failures, state, step, asked, rejected>>
      BY <1>2 DEF Finish
    <2> QED
      BY <2>1, <2>2 DEF Core, DataType, SetupParts, NoOtherHubRuns, Own,
                        HeardSinceCheck
  <1>3. CASE Identify \/ Create
    BY <1>3, CoreFrame DEF Identify, Create
  <1> QED
    BY <1>1, <1>2, <1>3 DEF FlowStep

\* A flow keeps what it was asked and what it found together.
LEMMA FlowsInFlows == ASSUME IInv, FlowStep PROVE FlowType'
  <1> USE DEF Move
  <1>1. FlowType /\ DataType
    BY DEF IInv, Core
  <1>2. Closed \in Flows /\ Closed.stage = "closed"
        /\ [Closed EXCEPT !.stage = "form"] \in Flows
        /\ [Closed EXCEPT !.stage = "form"].stage = "form"
    BY DEF Closed, Flows, Stages
  <1>3. ASSUME NEW k \in Kinds, NEW f \in Flows, Move(k, f),
               f.stage \in {"checking", "checked", "options"} => f.host \in Hosts
        PROVE  FlowType'
    BY <1>1, <1>3 DEF FlowType
  <1>4. ASSUME NEW k \in Kinds, Open(k) \/ ProbeFails(k)
        PROVE  FlowType'
    BY <1>2, <1>3, <1>4 DEF Open, ProbeFails
  <1>5. ASSUME NEW k \in Kinds, Submit(k)
        PROVE  FlowType'
    <2>1. PICK h \in Hosts, p \in {entry.pw, password} :
            Move(k, [flow[k] EXCEPT !.stage = "checking", !.host = h, !.pw = p])
      BY <1>5 DEF Submit
    <2> DEFINE f == [flow[k] EXCEPT !.stage = "checking", !.host = h, !.pw = p]
    <2>2. p \in Nat
      BY <1>1 DEF DataType, Entries
    <2>3. f \in Flows /\ f.host = h
      BY <1>1, <2>2 DEF FlowType, Flows, Stages
    <2> HIDE DEF f
    <2>4. Move(k, f)
      BY <2>1 DEF f
    <2> QED
      BY <1>3, <2>3, <2>4
  <1>6. ASSUME NEW k \in Kinds, Probe(k)
        PROVE  FlowType'
    <2>1. CASE flow[k].pw = password
      <3>1. PICK s \in {None, at[flow[k].host]} :
              Move(k, [flow[k] EXCEPT !.stage = "checked", !.found = s])
        BY <1>6, <2>1 DEF Probe
      <3> DEFINE f == [flow[k] EXCEPT !.stage = "checked", !.found = s]
      <3>2. flow[k] \in Flows /\ flow[k].host \in Hosts
        BY <1>1, <1>6 DEF FlowType, Probe
      <3>3. s \in Arcs \union {None}
        BY <1>1, <3>2 DEF DataType
      <3>4. f \in Flows /\ f.host = flow[k].host
        BY <3>2, <3>3 DEF Flows, Stages
      <3> HIDE DEF f
      <3>5. Move(k, f)
        BY <3>1 DEF f
      <3> QED
        BY <1>3, <3>2, <3>4, <3>5
    <2>2. CASE flow[k].pw # password
      BY <1>2, <1>3, <1>6, <2>2 DEF Probe
    <2> QED
      BY <2>1, <2>2
  <1>7. ASSUME NEW k \in Kinds, Finish(k)
        PROVE  FlowType'
    BY <1>2, <1>3, <1>7 DEF Finish
  <1>8. CASE Identify
    <2> DEFINE f == [flow["user"] EXCEPT !.stage = "options"]
    <2>1. "user" \in Kinds
      BY DEF Kinds
    <2>2. flow["user"] \in Flows /\ flow["user"].host \in Hosts
      BY <1>1, <1>8, <2>1 DEF FlowType, Identify
    <2>3. f \in Flows /\ f.host = flow["user"].host
      BY <2>2 DEF Flows, Stages
    <2>4. \/ Move("user", f) \/ Move("user", Closed)
          \/ Move("user", [Closed EXCEPT !.stage = "form"])
      BY <1>8 DEF Identify
    <2> HIDE DEF f
    <2> QED
      BY <1>2, <1>3, <2>1, <2>2, <2>3, <2>4
  <1>9. CASE Create
    BY <1>2, <1>3, <1>9 DEF Create, Kinds
  <1> QED
    BY <1>4, <1>5, <1>6, <1>7, <1>8, <1>9 DEF FlowStep

\* Every step keeps the invariant.
LEMMA StepInv == ASSUME IInv, [Next]_vars PROVE IInv'
  <1> USE DEF IInv
  <1>1. CASE FlowStep
    BY <1>1, CoreInFlows, FlowsInFlows
  <1>2. CASE \/ Begin \/ Unreachable
             \/ \E s \in {"cgi", "snapshot", "realtime"} : Rejected(s)
             \/ ReadRecords \/ ReadSnapshot \/ ReadInventory \/ StartRealtime
             \/ CheckSerial \/ SetCallback \/ CheckFailed \/ Register \/ RegisterFails
    <2>1. UNCHANGED flow
      BY <1>2 DEF Begin, Unreachable, Rejected, ReadRecords, ReadSnapshot,
                  ReadInventory,
                  StartRealtime, CheckSerial, SetCallback, CheckFailed, Register,
                  RegisterFails, flows
    <2> QED
      BY <1>2, <2>1, SetupStep DEF FlowType
  <1>3. CASE HubRejected \/ HandlerCalls \/ Reload \/ Unload \/ Restart \/ WorldChanges
    <2>1. CASE UNCHANGED flow
      BY <1>3, <2>1, RunningStep DEF FlowType
    <2>2. CASE Restart
      BY <1>3, <2>2, RunningStep DEF Restart, FlowType, Flows, Closed, Stages
    <2> QED
      BY <1>3, <2>1, <2>2 DEF HubRejected, HandlerCalls, Reload, Unload,
                              WorldChanges, flows
  <1>4. CASE UNCHANGED vars
    BY <1>4, CoreFrame DEF vars, outside, running, setting, flows, FlowType
  <1> QED
    BY <1>1, <1>2, <1>3, <1>4 DEF Next, FlowStep

\* A serial number that is stored stays, whatever step is taken.
LEMMA SerialStays ==
  ASSUME IInv, [Next]_vars, entry.serial # None
  PROVE  entry'.serial = entry.serial
  <1>1. entry \in Entries
    BY DEF IInv, Core, DataType
  <1>2. CASE CheckSerial
    BY <1>1, <1>2 DEF CheckSerial, Entries
  <1>3. ASSUME NEW k \in Kinds, Finish(k)
        PROVE  entry'.serial = entry.serial
    BY <1>1, <1>3 DEF Finish, UniqueIdMatches, Entries
  <1>4. CASE UNCHANGED entry
    BY <1>4
  <1>5. CheckSerial \/ (\E k \in Kinds : Finish(k)) \/ UNCHANGED entry
    BY DEF Next, Begin, Unreachable, Rejected, ReadRecords, ReadSnapshot,
           ReadInventory, StartRealtime, SetCallback, CheckFailed, Register,
           RegisterFails, HubRejected, HandlerCalls, Reload, Unload, Restart,
           WorldChanges, Open, Submit, Probe, ProbeFails, Identify, Create, vars
  <1> QED
    BY <1>2, <1>3, <1>4, <1>5

-----------------------------------------------------------------------------

\* The entry and its hub are well formed in every state, and an entry that counts
\* as loaded has a hub with its session, its connection and its callback.
THEOREM TypeCorrect == Spec => []TypeOK
  <1>1. IInv => TypeOK
    BY DEF IInv, Core, DataType, SetupParts, TypeOK, Entries, States
  <1> QED
    BY <1>1, InitInv, StepInv, PTL DEF Spec

\* Whenever the credentials of a running hub are rejected, at whatever point of
\* setup and on whichever thread, a loaded entry has asked for new ones.
THEOREM RejectedIsHeardAlways == Spec => []RejectedIsHeard
  <1>1. IInv => RejectedIsHeard
    BY DEF IInv, Core, HeardSinceCheck, RejectedIsHeard
  <1> QED
    BY <1>1, InitInv, StepInv, PTL DEF Spec

\* Whichever step of setup fails, retries and reloads leave no hub's threads
\* behind, but those of setups that failed after hub.start.
THEOREM NoOtherHubRunsAlways == Spec => []NoOtherHubRuns
  <1>1. IInv => NoOtherHubRuns
    BY DEF IInv, Core
  <1> QED
    BY <1>1, InitInv, StepInv, PTL DEF Spec

\* No step of setup or of a flow gives an entry that has a serial number another.
THEOREM SerialIsForLifeAlways == Spec => SerialIsForLife
  BY InitInv, StepInv, SerialStays, PTL DEF Spec, SerialIsForLife

-----------------------------------------------------------------------------
(* Rejected logins.  Passwords only ever get newer, so a password that was *)
(* rejected once is rejected for good: RejectionParts says that a setup    *)
(* whose inventory was rejected cannot get past the realtime session, and  *)
(* that the next one fails at its first read, unless the user intervened.  *)

RejectionParts ==
  /\ entry.pw <= password /\ hub.pw <= password
  /\ \A k \in Kinds : flow[k].pw <= password
  /\ state = "setup" => wanted \/ hub.pw = entry.pw
  /\ rejected > 0 => wanted \/ entry.pw < password
  /\ rejected > 0 /\ state = "setup" => hub.pw < password
  /\ step \in {"snapshot", "inventory"} => rejected = 0
  /\ rejected <= IF state = "auth_error" THEN 2 ELSE 1

\* The data types give the numbers that are compared.
LEMMA Numbers ==
  ASSUME IInv
  PROVE  /\ entry.pw \in Nat /\ hub.pw \in Nat /\ password \in Nat /\ rejected \in Nat
         /\ \A k \in Kinds : flow[k].pw \in Nat
  BY DEF IInv, Core, DataType, FlowType, Entries, Hubs, Flows

\* The end of a setup by an exception keeps the hub's password.
LEMMA RaiseRejections ==
  ASSUME IInv, RejectionParts, step # "none", NEW o \in States \ {"setup", "loaded"}, Raise(o),
         UNCHANGED <<password, entry, wanted, flow>>,
         rejected' <= IF o = "auth_error" THEN 2 ELSE 1,
         rejected' > 0 => rejected > 0 \/ hub.pw < password
  PROVE  RejectionParts'
  <1>1. hub'.pw = hub.pw
    BY DEF Raise, IInv, Core, DataType, Hubs
  <1>2. state = "setup"
    BY DEF IInv, Core, SetupParts
  <1>3. state' = o /\ step' = "none"
    BY DEF Raise
  <1>4. rejected' > 0 => wanted \/ entry.pw < password
    BY <1>2, Numbers DEF RejectionParts
  <1> QED
    BY <1>1, <1>3, <1>4 DEF RejectionParts

\* A setup that goes on to another step without a rejection.
LEMMA RejectionsFrame ==
  ASSUME IInv, RejectionParts, UNCHANGED <<password, entry, wanted, flow, rejected>>,
         hub'.pw = hub.pw, state' = "setup" => state = "setup", state' # "auth_error",
         state = "auth_error" => rejected <= 1,
         step' \in {"snapshot", "inventory"} => rejected = 0
  PROVE  RejectionParts'
  BY Numbers DEF RejectionParts

\* A step of setup counts a rejection only where the login cannot succeed again.
LEMMA RejectionsInSetup ==
  ASSUME IInv, RejectionParts,
         \/ Begin \/ Unreachable
         \/ \E s \in {"cgi", "snapshot", "realtime"} : Rejected(s)
         \/ ReadRecords \/ ReadSnapshot \/ ReadInventory \/ StartRealtime
         \/ CheckSerial \/ SetCallback \/ CheckFailed \/ Register \/ RegisterFails
  PROVE  RejectionParts'
  <1> USE DEF outside, flows, running
  <1>0. /\ step # "none" <=> state = "setup"
        /\ hub \in Hubs /\ step \in Steps
    BY DEF IInv, Core, SetupParts, DataType
  <1>1. CASE Begin
    <2>1. hub'.pw = entry.pw
      BY <1>1 DEF Begin, NoHub
    <2>2. rejected' > 0 => rejected > 0 /\ ~wanted
      BY <1>1 DEF Begin
    <2>3. rejected' <= 1
      BY <1>1, Numbers DEF Begin, RejectionParts
    <2> QED
      BY <1>1, <2>1, <2>2, <2>3, Numbers DEF Begin, RejectionParts
  <1>2. CASE Unreachable
    <2>1. rejected' <= 1 /\ UNCHANGED rejected
      BY <1>0, <1>2 DEF Unreachable, RejectionParts
    <2> QED
      BY <1>0, <1>2, <2>1, RaiseRejections DEF Unreachable, States
  <1>3. ASSUME NEW s \in {"cgi", "snapshot", "realtime"}, Rejected(s)
        PROVE  RejectionParts'
    <2>1. hub.pw < password
      BY <1>3, Numbers DEF Rejected, Accepted, RejectionParts
    <2>2. rejected <= 1 /\ rejected' = rejected + 1
      BY <1>0, <1>3 DEF Rejected, RejectionParts
    <2> QED
      BY <1>0, <1>3, <2>1, <2>2, Numbers, RaiseRejections DEF Rejected, States
  <1>4. CASE ReadRecords \/ ReadSnapshot
    <2>1. rejected = 0
      BY <1>0, <1>4, Numbers DEF ReadRecords, ReadSnapshot, Accepted,
                                 RejectionParts
    <2>2. hub'.pw = hub.pw
      BY <1>0, <1>4 DEF ReadRecords, ReadSnapshot, Hubs
    <2> QED
      BY <1>0, <1>4, <2>1, <2>2, RejectionsFrame DEF ReadRecords, ReadSnapshot
  <1>5. CASE ReadInventory
    <2>1. hub'.pw = hub.pw
      BY <1>0, <1>5 DEF ReadInventory, Hubs
    <2>2. rejected = 0 /\ state = "setup" /\ step' = "realtime"
          /\ UNCHANGED <<entry, password, state, wanted, flow>>
      BY <1>0, <1>5 DEF ReadInventory, RejectionParts
    <2>3. rejected' <= 1 /\ (rejected' > 0 => hub.pw < password)
      BY <1>5, <2>2, Numbers DEF ReadInventory, Accepted, RejectionParts
    <2> QED
      BY <2>1, <2>2, <2>3, Numbers DEF RejectionParts
  <1>6. CASE CheckSerial
    <2>1. CASE hub.serial \notin {None, entry.serial} /\ entry.serial # None
      <3>1. rejected' <= 1 /\ UNCHANGED rejected
        BY <1>0, <1>6 DEF CheckSerial, RejectionParts
      <3> QED
        BY <1>0, <1>6, <2>1, <3>1, RaiseRejections DEF CheckSerial, States
    <2>2. CASE ~(hub.serial \notin {None, entry.serial} /\ entry.serial # None)
      <3>1. entry'.pw = entry.pw
        BY <1>6, <2>2 DEF CheckSerial, IInv, Core, DataType, Entries
      <3> QED
        BY <1>0, <1>6, <2>2, <3>1 DEF CheckSerial, RejectionParts
    <2> QED
      BY <2>1, <2>2
  <1>7. CASE StartRealtime \/ SetCallback \/ CheckFailed \/ Register \/ RegisterFails
    <2>1. hub'.pw = hub.pw
      BY <1>0, <1>7 DEF StartRealtime, SetCallback, CheckFailed, Register,
                        RegisterFails, Hubs
    <2> QED
      BY <1>0, <1>7, <2>1, RejectionsFrame
         DEF StartRealtime, SetCallback, CheckFailed, Register, RegisterFails
  <1> QED
    BY <1>1, <1>2, <1>3, <1>4, <1>5, <1>6, <1>7

\* The rest of the system keeps the passwords in their order.
LEMMA RejectionsElsewhere ==
  ASSUME IInv, RejectionParts,
         \/ HubRejected \/ HandlerCalls \/ Reload \/ Unload \/ Restart \/ WorldChanges
         \/ FlowStep
  PROVE  RejectionParts'
  <1> USE DEF outside, flows, running, setting
  <1>0. /\ step # "none" <=> state = "setup"
        /\ hub \in Hubs /\ entry \in Entries /\ flow \in [Kinds -> Flows]
    BY DEF IInv, Core, SetupParts, DataType, FlowType
  <1>1. CASE HubRejected \/ Unload
    <2>1. hub'.pw = hub.pw
      BY <1>0, <1>1 DEF HubRejected, Unload, Hubs
    <2> QED
      BY <1>0, <1>1, <2>1, Numbers DEF HubRejected, Unload, RejectionParts
  <1>2. CASE HandlerCalls \/ Reload
    BY <1>2 DEF HandlerCalls, Reload, RejectionParts
  <1>3. CASE Restart
    BY <1>3, Numbers DEF Restart, NoHub, Closed, RejectionParts
  <1>4. CASE WorldChanges
    <2>1. password' \in {password, password + 1}
          /\ UNCHANGED <<entry, hub, flow, state, step, wanted, rejected>>
      BY <1>4 DEF WorldChanges
    <2> QED
      BY <2>1, Numbers DEF RejectionParts
  <1>5. ASSUME NEW k \in Kinds, NEW f \in Flows, Move(k, f), f.pw <= password,
               UNCHANGED <<password, entry, hub, state, step, wanted, rejected>>
        PROVE  RejectionParts'
    BY <1>0, <1>5 DEF Move, RejectionParts
  <1>6. ASSUME NEW k \in Kinds, Open(k) \/ ProbeFails(k)
        PROVE  RejectionParts'
    BY <1>5, <1>6, Numbers DEF Open, ProbeFails, Closed, Flows, Stages
  <1>7. ASSUME NEW k \in Kinds, Submit(k)
        PROVE  RejectionParts'
    <2>1. PICK h \in Hosts, p \in {entry.pw, password} :
            Move(k, [flow[k] EXCEPT !.stage = "checking", !.host = h, !.pw = p])
      BY <1>7 DEF Submit
    <2> DEFINE f == [flow[k] EXCEPT !.stage = "checking", !.host = h, !.pw = p]
    <2>2. p \in Nat /\ p <= password
      BY Numbers DEF RejectionParts
    <2>3. f \in Flows /\ f.pw = p
      BY <1>0, <2>2 DEF Flows, Stages
    <2>4. Move(k, f)
      BY <2>1
    <2> HIDE DEF f
    <2> QED
      BY <1>5, <1>7, <2>2, <2>3, <2>4 DEF Submit
  <1>8. ASSUME NEW k \in Kinds, Probe(k)
        PROVE  RejectionParts'
    <2>1. \A j \in Kinds : flow'[j].pw \in {flow[j].pw, 0}
      BY <1>0, <1>8 DEF Probe, Move, Closed, Flows
    <2> QED
      BY <1>8, <2>1, Numbers DEF Probe, RejectionParts
  <1>9. ASSUME NEW k \in Kinds, Finish(k)
        PROVE  RejectionParts'
    <2>1. \A j \in Kinds : flow'[j].pw \in {flow[j].pw, 0}
      BY <1>0, <1>9 DEF Finish, Move, Closed
    <2>2. /\ entry'.pw = flow[k].pw /\ wanted' = TRUE
          \/ UNCHANGED <<entry, wanted>>
      BY <1>0, <1>9 DEF Finish, Entries
    <2> QED
      BY <1>9, <2>1, <2>2, Numbers DEF Finish, RejectionParts
  <1>10. CASE Identify \/ Create
    <2>1. \A j \in Kinds : flow'[j].pw \in {flow[j].pw, 0}
      BY <1>0, <1>10 DEF Identify, Create, Move, Closed, Flows, Kinds
    <2> QED
      BY <1>10, <2>1, Numbers DEF Identify, Create, RejectionParts
  <1> QED
    BY <1>1, <1>2, <1>3, <1>4, <1>6, <1>7, <1>8, <1>9, <1>10 DEF FlowStep

\* "Repeated failed logins can lock the ARC account": however often setup is
\* retried, and whichever of its reads is rejected, at most two of its logins are
\* rejected until the user saves a password or reloads.
THEOREM FewRejectionsAlways == Spec => []FewRejections
  <1>1. Init => RejectionParts
    BY DEF Init, RejectionParts, NoHub, Closed
  <1>2. ASSUME IInv, RejectionParts, [Next]_vars
        PROVE  RejectionParts'
    <2>1. CASE UNCHANGED vars
      BY <1>2, <2>1 DEF vars, outside, running, setting, flows, RejectionParts
    <2>2. CASE Next
      BY <1>2, <2>2, RejectionsInSetup, RejectionsElsewhere DEF Next, FlowStep
    <2> QED
      BY <1>2, <2>1, <2>2
  <1>3. IInv /\ RejectionParts => FewRejections
    BY Numbers DEF RejectionParts, FewRejections
  <1> QED
    BY <1>1, <1>2, <1>3, InitInv, StepInv, PTL DEF Spec

-----------------------------------------------------------------------------
(* One entry per ARC.  Between the check of a new entry and its creation   *)
(* the user fills in two more forms, while the first entry may learn or    *)
(* change its serial number: SecondParts carries what was checked over.    *)

Seconds == [serial : Arcs, blind : BOOLEAN, made : BOOLEAN]

SecondParts ==
  /\ second \in {None} \union Seconds
  /\ flow["user"].stage = "options" => second \in Seconds
  /\ (second # None \/ flow["user"].stage = "options") /\ ~second.blind
       => entry.serial \notin {None, second.serial}

\* Only the user's flow has anything to do with a second entry, and it gets to
\* the options by Identify alone.
LEMMA SecondWriters ==
  ASSUME IInv, [Next]_vars
  PROVE  \/ Identify \/ Create
         \/ /\ UNCHANGED second
            /\ flow'["user"].stage = "options" => flow["user"].stage = "options"
  <1>0. flow \in [Kinds -> Flows] /\ "user" \in Kinds
    BY DEF IInv, FlowType, Kinds
  <1>1. ASSUME NEW k \in Kinds, Open(k) \/ Submit(k) \/ Probe(k) \/ ProbeFails(k) \/ Finish(k)
        PROVE  /\ UNCHANGED second
               /\ flow'["user"].stage = "options" => flow["user"].stage = "options"
    BY <1>0, <1>1 DEF Open, Submit, Probe, ProbeFails, Finish, Move, Closed, Flows
  <1>2. CASE Restart
    BY <1>0, <1>2 DEF Restart, Closed
  <1>3. ASSUME UNCHANGED <<flow, second>>
        PROVE  /\ UNCHANGED second
               /\ flow'["user"].stage = "options" => flow["user"].stage = "options"
    BY <1>3
  <1>4. CASE UNCHANGED vars
    BY <1>3, <1>4 DEF vars, flows
  <1>5. CASE \/ Begin \/ Unreachable
             \/ \E s \in {"cgi", "snapshot", "realtime"} : Rejected(s)
             \/ ReadRecords \/ ReadSnapshot \/ ReadInventory \/ StartRealtime
             \/ CheckSerial \/ SetCallback \/ CheckFailed \/ Register \/ RegisterFails
             \/ HubRejected \/ HandlerCalls \/ Reload \/ Unload \/ WorldChanges
    <2>1. UNCHANGED flows
      BY <1>5 DEF Begin, Unreachable, Rejected, ReadRecords, ReadSnapshot,
                  ReadInventory,
                  StartRealtime, CheckSerial, SetCallback, CheckFailed, Register,
                  RegisterFails, HubRejected, HandlerCalls, Reload, Unload,
                  WorldChanges
    <2> QED
      BY <1>3, <2>1 DEF flows
  <1> QED
    BY <1>1, <1>2, <1>4, <1>5 DEF Next

\* What was checked of a second entry still holds when the entry is made.
LEMMA SecondStep ==
  ASSUME IInv, SecondParts, [Next]_vars
  PROVE  SecondParts'
  <1>1. /\ entry \in Entries /\ flow \in [Kinds -> Flows] /\ "user" \in Kinds
    BY DEF IInv, Core, DataType, FlowType, Kinds
  <1>2. CASE Identify
    <2>1. UNCHANGED entry
      BY <1>2 DEF Identify
    <2>2. CASE flow["user"].found # None /\ IsNew
      <3> DEFINE s == [serial |-> flow["user"].found, blind |-> entry.serial = None,
                       made |-> FALSE]
      <3>1. second' = s /\ flow["user"].found # entry.serial
        BY <1>2, <2>2 DEF Identify, IsNew
      <3>2. flow["user"].found \in Arcs
        BY <1>1, <2>2 DEF Flows
      <3>3. s \in Seconds /\ (~s.blind => entry.serial # None)
            /\ s.serial = flow["user"].found
        BY <3>2 DEF Seconds
      <3> HIDE DEF s
      <3> QED
        BY <2>1, <3>1, <3>3 DEF SecondParts
    <2>3. CASE ~(flow["user"].found # None /\ IsNew)
      <3>1. UNCHANGED second /\ flow'["user"].stage # "options"
        BY <1>1, <1>2, <2>3 DEF Identify, Move, Closed
      <3> QED
        BY <2>1, <3>1 DEF SecondParts
    <2> QED
      BY <2>2, <2>3
  <1>3. CASE Create
    <2>1. second \in Seconds /\ UNCHANGED entry /\ flow["user"].stage = "options"
      BY <1>3 DEF Create, SecondParts
    <2>2. second' \in Seconds /\ second'.serial = second.serial
          /\ second'.blind = second.blind
      BY <1>3, <2>1 DEF Create, Seconds
    <2> QED
      BY <2>1, <2>2 DEF SecondParts
  <1>4. CASE /\ UNCHANGED second
             /\ flow'["user"].stage = "options" => flow["user"].stage = "options"
    BY <1>4, SerialStays DEF SecondParts
  <1> QED
    BY <1>2, <1>3, <1>4, SecondWriters

\* However long the forms of a new entry stay open, and whatever the first entry
\* learns meanwhile, a second entry for its ARC can only be made if the first had
\* no serial number when the new one was checked.
THEOREM OneEntryPerArcAlways == Spec => []OneEntryPerArc
  <1>1. Init => SecondParts
    <2> SUFFICES ASSUME Init PROVE SecondParts
      OBVIOUS
    <2>1. flow["user"].stage = "closed"
      BY DEF Init, Closed, Kinds
    <2> QED
      BY <2>1 DEF Init, SecondParts
  <1>2. SecondParts => OneEntryPerArc
    BY DEF SecondParts, OneEntryPerArc, Seconds
  <1> QED
    BY <1>1, <1>2, SecondStep, InitInv, StepInv, PTL DEF Spec

-----------------------------------------------------------------------------
(* The options of the entry.  They are written by flows that copied them   *)
(* long before, so what the hub runs with is what is stored only while no  *)
(* reload is due (RunsWhatIsStored), and what setup owns is known only     *)
(* while no flow has saved an older ownership (PlacedIsOwned).             *)

TabSteps == {"closed", "init", "arm", "areas", "preview"}
TabStates == [step : TabSteps, copy : OptionSet \union {Unknown}]
HasCopy(v) == v.step \in {"arm", "areas", "preview"} => v.copy \in OptionSet

OptionsData ==
  /\ options \in OptionSet
  /\ runs \in [control : BOOLEAN, research : BOOLEAN]
  /\ area \in Choices
  /\ tab \in [Tabs -> TabStates]
  /\ \A t \in Tabs : HasCopy(tab[t])

RunsWhatIsStored ==
  ~due /\ phase \in {"starting", "loaded"} =>
    /\ runs.control = options.control
    /\ clearing # "waiting" => runs.research = options.research

\* A repair removes its issue in the reload it waits for, and a save that turns
\* research on meanwhile has a reload to come.
RepairIsFollowed ==
  /\ clearing \in {"none", "waiting", "reloading"}
  /\ clearing = "reloading" => phase = "starting"
  /\ clearing # "none" /\ options.research => due

PlacedIsOwned ==
  /\ placed /\ ~stale => options.own # Unknown
  /\ kept /\ area = NoArea => placed

OptionsInv ==
  /\ OptionsData /\ RunsWhatIsStored /\ RepairIsFollowed /\ PlacedIsOwned
  /\ RisksAreFlagged

USE AreasAreNamed DEF Choices

-----------------------------------------------------------------------------

\* An entry as it is created is stored, run and owned by nobody.
LEMMA OptionsStart == OptionsInit => OptionsInv
  <1> SUFFICES ASSUME OptionsInit PROVE OptionsInv
    OBVIOUS
  <1> USE DEF OptionsInit
  <1>1. options \in OptionSet /\ runs \in [control : BOOLEAN, research : BOOLEAN]
    BY DEF Created, NothingRuns
  <1>2. OptionsData
    BY <1>1 DEF OptionsData, ClosedTab, TabStates, TabSteps, HasCopy
  <1>3. RunsWhatIsStored /\ RepairIsFollowed /\ PlacedIsOwned /\ RisksAreFlagged
    BY DEF RunsWhatIsStored, RepairIsFollowed, PlacedIsOwned, RisksAreFlagged, NoCodeIsFlagged,
           ResearchIsFlagged
  <1> QED
    BY <1>2, <1>3 DEF OptionsInv

\* A save makes a reload due unless it changes nothing.
LEMMA SaveInv ==
  ASSUME OptionsInv, NEW t \in Tabs, NEW copy \in OptionSet, Save(t, copy)
  PROVE  OptionsInv'
  <1> USE DEF OptionsInv, Save
  <1>1. OptionsData'
    BY DEF OptionsData, ClosedTab, TabStates, TabSteps, HasCopy
  <1>2. ~due' => options' = options /\ ~due
    OBVIOUS
  <1>3. RunsWhatIsStored' /\ RepairIsFollowed'
    BY <1>2 DEF RunsWhatIsStored, RepairIsFollowed
  <1>4. PlacedIsOwned'
    BY DEF PlacedIsOwned
  <1>5. RisksAreFlagged'
    BY <1>2 DEF RisksAreFlagged, NoCodeIsFlagged, ResearchIsFlagged
  <1> QED
    BY <1>1, <1>3, <1>4, <1>5

\* A flow that stays open stores nothing.
LEMMA StaysInv ==
  ASSUME OptionsInv, NEW t \in Tabs, NEW v \in TabStates, HasCopy(v),
         tab' = [tab EXCEPT ![t] = v],
         UNCHANGED <<options, entryVars, area, history>>
  PROVE  OptionsInv'
  <1> USE DEF OptionsInv, entryVars, history
  <1>1. OptionsData'
    BY DEF OptionsData
  <1>2. RunsWhatIsStored' /\ RepairIsFollowed' /\ PlacedIsOwned' /\ RisksAreFlagged'
    BY DEF RunsWhatIsStored, RepairIsFollowed, PlacedIsOwned, RisksAreFlagged, NoCodeIsFlagged,
           ResearchIsFlagged
  <1> QED
    BY <1>1, <1>2

\* A flow goes to a step with the copy it has, or with another.
LEMMA GoInv ==
  ASSUME OptionsInv, NEW t \in Tabs, UNCHANGED <<options, entryVars, area, history>>,
         NEW s \in TabSteps,
         \/ /\ Go(t, s)
            /\ s \in {"arm", "areas", "preview"} => tab[t].copy \in OptionSet
         \/ \E copy \in OptionSet : GoWith(t, s, copy)
  PROVE  OptionsInv'
  <1>1. tab[t] \in TabStates
    BY DEF OptionsInv, OptionsData
  <1>2. CASE /\ Go(t, s)
             /\ s \in {"arm", "areas", "preview"} => tab[t].copy \in OptionSet
    <2> DEFINE v == [tab[t] EXCEPT !.step = s]
    <2>1. v \in TabStates /\ HasCopy(v)
      BY <1>1, <1>2 DEF TabStates, HasCopy
    <2>2. tab' = [tab EXCEPT ![t] = v]
      BY <1>2 DEF Go
    <2> HIDE DEF v
    <2> QED
      BY <2>1, <2>2, StaysInv
  <1>3. ASSUME NEW copy \in OptionSet, GoWith(t, s, copy)
        PROVE  OptionsInv'
    <2> DEFINE v == [[tab[t] EXCEPT !.step = s] EXCEPT !.copy = copy]
    <2>1. v \in TabStates /\ HasCopy(v)
      BY <1>1 DEF TabStates, HasCopy
    <2>2. tab' = [tab EXCEPT ![t] = v]
      BY <1>1, <1>3 DEF GoWith, TabStates, OptionsData, OptionsInv
    <2> HIDE DEF v
    <2> QED
      BY <2>1, <2>2, StaysInv
  <1> QED
    BY <1>2, <1>3

\* On to the areas, or saved.
LEMMA AfterInv ==
  ASSUME OptionsInv, NEW t \in Tabs, NEW copy \in OptionSet, After(t, copy)
  PROVE  OptionsInv'
  <1>1. CASE GoWith(t, "areas", copy) /\ Stays
    BY <1>1, GoInv DEF Stays, TabSteps
  <1>2. CASE Save(t, copy)
    BY <1>2, SaveInv
  <1> QED
    BY <1>1, <1>2 DEF After

\* Setup: what the hub is built from, and the decisions and issues at its end.
LEMMA SetupInv ==
  ASSUME OptionsInv, BeginSetup \/ Loaded \/ NotReady
  PROVE  OptionsInv'
  <1> USE DEF OptionsInv, history
  <1>1. CASE BeginSetup
    <2>1. runs' \in [control : BOOLEAN, research : BOOLEAN]
          /\ runs'.control = options.control /\ runs'.research = options.research
      BY <1>1 DEF BeginSetup, OptionsData, OptionSet
    <2>2. OptionsData' /\ RunsWhatIsStored' /\ RepairIsFollowed'
      BY <1>1, <2>1 DEF BeginSetup, OptionsData, RunsWhatIsStored, RepairIsFollowed
    <2>3. PlacedIsOwned' /\ RisksAreFlagged'
      BY <1>1 DEF BeginSetup, PlacedIsOwned, RisksAreFlagged, NoCodeIsFlagged,
                  ResearchIsFlagged
    <2> QED
      BY <2>2, <2>3
  <1>2. CASE Loaded
    <2>1. PICK match \in Choices :
            LET decided == [options EXCEPT !.decision = Decided(@, match)]
            IN  IF options.auto /\ MayAssign(decided)
                  THEN /\ area' = decided.decision
                       /\ options' = [decided EXCEPT !.own = decided.decision]
                       /\ placed' = TRUE
                       /\ kept' = (kept /\ area' = area)
                  ELSE /\ options' = IF options.auto THEN decided ELSE options
                       /\ UNCHANGED <<area, placed, kept>>
      BY <1>2 DEF Loaded
    <2> DEFINE decided == [options EXCEPT !.decision = Decided(@, match)]
    <2>2. options \in OptionSet
      BY DEF OptionsData
    <2>3. /\ decided \in OptionSet /\ decided.own = options.own
          /\ \A f \in {"control", "research", "hash", "noCode"} : decided[f] = options[f]
      BY <2>2 DEF OptionSet, Decided
    <2>4. CASE options.auto /\ MayAssign(decided)
      <3>1. decided.decision \in Areas
        BY <2>4 DEF MayAssign
      <3>2. /\ area' = decided.decision /\ placed' = TRUE
            /\ options' = [decided EXCEPT !.own = decided.decision]
        BY <2>1, <2>4
      <3>3. /\ options' \in OptionSet /\ options'.own = decided.decision
            /\ options'.control = options.control /\ options'.research = options.research
            /\ options'.hash = options.hash /\ options'.noCode = options.noCode
        BY <2>3, <3>1, <3>2 DEF OptionSet
      <3> QED
        BY <1>2, <3>1, <3>2, <3>3 DEF Loaded, SetupEnds, OptionsData, RunsWhatIsStored,
                                      RepairIsFollowed, PlacedIsOwned,
             RisksAreFlagged, NoCodeIsFlagged, ResearchIsFlagged, Flagged
    <2>5. CASE ~(options.auto /\ MayAssign(decided))
      <3>1. options' \in {decided, options} /\ UNCHANGED <<area, placed, kept>>
        BY <2>1, <2>5
      <3>2. /\ options' \in OptionSet /\ options'.own = options.own
            /\ options'.control = options.control /\ options'.research = options.research
            /\ options'.hash = options.hash /\ options'.noCode = options.noCode
        BY <2>2, <2>3, <3>1
      <3> QED
        BY <1>2, <3>1, <3>2 DEF Loaded, SetupEnds, OptionsData, RunsWhatIsStored,
                                RepairIsFollowed, PlacedIsOwned,
             RisksAreFlagged, NoCodeIsFlagged, ResearchIsFlagged, Flagged
    <2> QED
      BY <2>4, <2>5
  <1>3. CASE NotReady
    BY <1>3 DEF NotReady, NothingRuns, SetupEnds, OptionsData, RunsWhatIsStored, RepairIsFollowed, PlacedIsOwned,
                RisksAreFlagged,
                NoCodeIsFlagged, ResearchIsFlagged
  <1> QED
    BY <1>1, <1>2, <1>3

\* The user picks an area; the repairs store what they promise and take their
\* issue away.
LEMMA UserInv ==
  ASSUME OptionsInv,
         \/ \E a \in Choices : Pick(a)
         \/ \E i \in {"no_code", "research"} : OpenRepair(i)
         \/ RepairResearch \/ RepairNoCode
  PROVE  OptionsInv'
  <1> USE DEF OptionsInv, history, entryVars
  <1>1. ASSUME NEW a \in Choices, Pick(a)
        PROVE  OptionsInv'
    BY <1>1 DEF Pick, OptionsData, RunsWhatIsStored, RepairIsFollowed, PlacedIsOwned,
                RisksAreFlagged,
                NoCodeIsFlagged, ResearchIsFlagged
  <1>2. ASSUME NEW i \in {"no_code", "research"}, OpenRepair(i)
        PROVE  OptionsInv'
    BY <1>2 DEF OpenRepair, OptionsData, RunsWhatIsStored, RepairIsFollowed, PlacedIsOwned,
                RisksAreFlagged,
                NoCodeIsFlagged, ResearchIsFlagged
  <1>3. CASE RepairResearch
    <2>1. options' \in OptionSet /\ options'.own = options.own /\ ~options'.research
      BY <1>3 DEF RepairResearch, OptionsData, OptionSet
    <2> QED
      BY <1>3, <2>1 DEF RepairResearch, OptionsData, RunsWhatIsStored,
                        RepairIsFollowed, PlacedIsOwned,
           RisksAreFlagged, NoCodeIsFlagged, ResearchIsFlagged
  <1>4. CASE RepairNoCode
    <2>1. /\ options' \in OptionSet /\ options'.own = options.own /\ options'.noCode
          /\ options'.control = options.control /\ options'.research = options.research
      BY <1>4 DEF RepairNoCode, OptionsData, OptionSet
    <2> QED
      BY <1>4, <2>1 DEF RepairNoCode, OptionsData, RunsWhatIsStored,
                        RepairIsFollowed, PlacedIsOwned,
           RisksAreFlagged, NoCodeIsFlagged, ResearchIsFlagged
  <1> QED
    BY <1>1, <1>2, <1>3, <1>4

\* A step of an options flow.
LEMMA TabInv ==
  ASSUME OptionsInv, NEW t \in Tabs,
         \/ OpenTab(t) \/ SubmitInit(t) \/ SubmitArm(t) \/ SubmitAreas(t)
         \/ Preview(t) \/ Abandon(t)
  PROVE  OptionsInv'
  <1> USE DEF Stays, TabSteps
  <1>1. /\ options \in OptionSet
        /\ tab[t] \in TabStates /\ HasCopy(tab[t])
    BY DEF OptionsInv, OptionsData
  <1>2. CASE OpenTab(t)
    BY <1>2, GoInv DEF OpenTab
  <1>3. CASE SubmitInit(t)
    <2>1. PICK auto \in BOOLEAN, control \in BOOLEAN, research \in BOOLEAN :
            LET copy == [options EXCEPT !.auto = auto, !.control = control,
                                        !.research = research]
            IN  IF control THEN GoWith(t, "arm", copy) /\ Stays ELSE After(t, copy)
      BY <1>3 DEF SubmitInit
    <2> DEFINE copy == [options EXCEPT !.auto = auto, !.control = control,
                                       !.research = research]
    <2>2. copy \in OptionSet
      BY <1>1 DEF OptionSet
    <2>3. (GoWith(t, "arm", copy) /\ Stays) \/ After(t, copy)
      BY <2>1
    <2> HIDE DEF copy
    <2> QED
      BY <2>2, <2>3, GoInv, AfterInv
  <1>4. CASE SubmitArm(t)
    <2>1. PICK code \in {"keep", "set", "clear"}, tick \in BOOLEAN :
            After(t, [tab[t].copy EXCEPT
                        !.ack = TRUE,
                        !.hash = (code = "set") \/ (@ /\ code = "keep"),
                        !.noCode = @ /\ code # "set"])
      BY <1>4 DEF SubmitArm
    <2> DEFINE copy == [tab[t].copy EXCEPT
                          !.ack = TRUE,
                          !.hash = (code = "set") \/ (@ /\ code = "keep"),
                          !.noCode = @ /\ code # "set"]
    <2>2. tab[t].copy \in OptionSet
      BY <1>1, <1>4 DEF SubmitArm, HasCopy
    <2>3. copy \in OptionSet
      BY <2>2 DEF OptionSet
    <2>4. After(t, copy)
      BY <2>1
    <2> HIDE DEF copy
    <2> QED
      BY <2>3, <2>4, AfterInv
  <1>5. CASE SubmitAreas(t)
    <2>1. tab[t].step = "areas" /\ tab[t].copy \in OptionSet
      BY <1>1, <1>5 DEF SubmitAreas, HasCopy
    <2>2. PICK new \in Choices \union {Unknown} :
            tab' = [tab EXCEPT ![t].step = "preview", ![t].copy.decision = new]
      BY <1>1, <1>5 DEF SubmitAreas, Decided, OptionSet
    <2> DEFINE v == [tab[t] EXCEPT !.step = "preview", !.copy.decision = new]
    <2>3. v \in TabStates /\ HasCopy(v)
      BY <1>1, <2>1 DEF TabStates, HasCopy, OptionSet
    <2>4. tab' = [tab EXCEPT ![t] = v]
      BY <1>1, <2>2 DEF OptionsInv, OptionsData
    <2> HIDE DEF v
    <2> QED
      BY <1>5, <2>3, <2>4, StaysInv DEF SubmitAreas
  <1>6. CASE Preview(t)
    <2>1. tab[t].copy \in OptionSet
      BY <1>1, <1>6 DEF Preview, HasCopy
    <2> QED
      BY <1>6, <2>1, SaveInv, GoInv DEF Preview
  <1>7. CASE Abandon(t)
    <2>1. ClosedTab \in TabStates /\ HasCopy(ClosedTab)
      BY DEF ClosedTab, TabStates, HasCopy
    <2> QED
      BY <1>7, <2>1, StaysInv DEF Abandon
  <1> QED
    BY <1>2, <1>3, <1>4, <1>5, <1>6, <1>7

\* Every step keeps the invariant.
LEMMA OptionsStep == ASSUME OptionsInv, [OptionsNext]_optionsVars PROVE OptionsInv'
  <1>1. CASE UNCHANGED optionsVars
    BY <1>1 DEF optionsVars, entryVars, history, OptionsInv, OptionsData,
                RunsWhatIsStored, RepairIsFollowed, PlacedIsOwned,
                RisksAreFlagged, NoCodeIsFlagged, ResearchIsFlagged
  <1>2. CASE OptionsNext
    BY <1>2, SetupInv, UserInv, TabInv DEF OptionsNext
  <1> QED
    BY <1>1, <1>2

-----------------------------------------------------------------------------

\* "Without one, a repair issue warns until it is dismissed or a code is set", and
\* one "is raised while research mode is enabled": however many flows, repairs
\* and setups write the options in whatever order, a risk the hub runs is shown.
THEOREM RisksAreFlaggedAlways == OptionsSpec => []RisksAreFlagged
  <1>1. OptionsInv => RisksAreFlagged
    BY DEF OptionsInv
  <1> QED
    BY <1>1, OptionsStart, OptionsStep, PTL DEF OptionsSpec

\* Setup moves a device the user has placed only out of the area it set last, or
\* after a flow saved an ownership it had copied earlier.
THEOREM KeptUnlessOwnedAlways == OptionsSpec => KeptUnlessOwned
  <1>1. ASSUME OptionsInv, [OptionsNext]_optionsVars,
               phase = "starting" /\ phase' = "loaded" /\ kept /\ area' # area
        PROVE  area = options.own \/ stale
    <2>1. Loaded
      BY <1>1 DEF OptionsNext, BeginSetup, NotReady, Pick, OpenTab, SubmitInit,
                  SubmitArm, SubmitAreas,
                  Preview, Abandon, After, GoWith, Go, Save, Stays, OpenRepair,
                  RepairResearch, RepairNoCode, optionsVars, entryVars
    <2>2. PICK match \in Choices :
            MayAssign([options EXCEPT !.decision = Decided(@, match)])
      BY <1>1, <2>1 DEF Loaded
    <2>3. options.own = Unknown => area = NoArea
      BY <2>2, <1>1 DEF MayAssign, OptionsInv, OptionsData, OptionSet
    <2>4. options.own # Unknown => area = options.own
      BY <2>2, <1>1 DEF MayAssign, OptionsInv, OptionsData, OptionSet
    <2> QED
      BY <1>1, <2>3, <2>4 DEF OptionsInv, PlacedIsOwned
  <1> QED
    BY <1>1, OptionsStart, OptionsStep, PTL DEF OptionsSpec, KeptUnlessOwned

-----------------------------------------------------------------------------
(* The type invariant.  A flow stores what it copied, so its copies keep   *)
(* the same rules as the options from the step on in which they can be     *)
(* saved: CopyParts.                                                       *)

CopyParts ==
  \A t \in Tabs : tab[t].step \in {"arm", "areas", "preview"} =>
    /\ tab[t].copy.own # Unknown => placed
    /\ tab[t].step # "arm" /\ tab[t].copy.control => tab[t].copy.ack

OptionsTypeInv == OptionsTypeOK /\ CopyParts

\* A step that leaves every flow where it is, or closed, and forgets no placing
\* keeps the copies' rules.
LEMMA CopiesFrame ==
  ASSUME CopyParts, placed => placed',
         \A t \in Tabs : tab'[t] = tab[t] \/ tab'[t].step \in {"closed", "init"}
  PROVE  CopyParts'
  BY DEF CopyParts

\* A flow that stores its copy, which keeps the rules, and closes.
LEMMA SaveType ==
  ASSUME OptionsInv, OptionsTypeInv, NEW t \in Tabs, NEW copy \in OptionSet, Save(t, copy),
         copy.own # Unknown => placed, copy.control => copy.ack
  PROVE  OptionsTypeInv'
  <1> USE DEF OptionsTypeInv
  <1>1. CopyParts'
    BY CopiesFrame DEF Save, ClosedTab, OptionsInv, OptionsData
  <1>2. ~due' => copy = options /\ ~due
    BY DEF Save
  <1>3. OptionsTypeOK'
    BY <1>2 DEF Save, OptionsTypeOK, ClosedTab, OptionsInv, OptionsData
  <1> QED
    BY <1>1, <1>3

\* A flow that goes on with a copy that keeps the rules of its step.
LEMMA GoType ==
  ASSUME OptionsInv, OptionsTypeInv, NEW t \in Tabs, NEW s \in TabSteps, NEW copy,
         UNCHANGED <<options, entryVars, area, repairs, history>>,
         tab' = [tab EXCEPT ![t].step = s, ![t].copy = copy],
         s \in {"arm", "areas", "preview"} =>
           /\ copy.own # Unknown => placed
           /\ s # "arm" /\ copy.control => copy.ack
  PROVE  OptionsTypeInv'
  <1> USE DEF OptionsTypeInv, entryVars, history, TabSteps
  <1>1. /\ tab'[t].step = s /\ tab'[t].copy = copy
        /\ \A u \in Tabs \ {t} : tab'[u] = tab[u]
    BY DEF OptionsInv, OptionsData, TabStates
  <1>2. CopyParts'
    BY <1>1 DEF CopyParts
  <1>3. OptionsTypeOK'
    BY <1>1 DEF OptionsTypeOK
  <1> QED
    BY <1>2, <1>3

\* A flow that goes on with the copy it has.
LEMMA GoOnType ==
  ASSUME OptionsInv, OptionsTypeInv, NEW t \in Tabs, NEW s \in TabSteps, Go(t, s),
         UNCHANGED <<options, entryVars, area, repairs, history>>,
         s \in {"arm", "areas", "preview"} => tab[t].step \in {"areas", "preview"}
  PROVE  OptionsTypeInv'
  <1>1. tab' = [tab EXCEPT ![t].step = s, ![t].copy = tab[t].copy]
    BY DEF Go, OptionsInv, OptionsData, TabStates
  <1>2. s \in {"arm", "areas", "preview"} =>
          /\ tab[t].copy.own # Unknown => placed
          /\ s # "arm" /\ tab[t].copy.control => tab[t].copy.ack
    BY DEF OptionsTypeInv, CopyParts
  <1> QED
    BY <1>1, <1>2, GoType

\* On to the areas, or saved, with a copy that keeps the rules.
LEMMA AfterType ==
  ASSUME OptionsInv, OptionsTypeInv, NEW t \in Tabs, NEW copy \in OptionSet, After(t, copy),
         copy.own # Unknown => placed, copy.control => copy.ack
  PROVE  OptionsTypeInv'
  <1>1. CASE GoWith(t, "areas", copy) /\ Stays
    BY <1>1, GoType DEF GoWith, Stays, TabSteps
  <1>2. CASE Save(t, copy)
    BY <1>2, SaveType
  <1> QED
    BY <1>1, <1>2 DEF After

\* A step of an options flow.
LEMMA TabType ==
  ASSUME OptionsInv, OptionsTypeInv, NEW t \in Tabs,
         \/ OpenTab(t) \/ SubmitInit(t) \/ SubmitArm(t) \/ SubmitAreas(t)
         \/ Preview(t) \/ Abandon(t)
  PROVE  OptionsTypeInv'
  <1> USE DEF Stays, TabSteps
  <1>1. /\ options \in OptionSet
        /\ tab[t] \in TabStates /\ HasCopy(tab[t])
    BY DEF OptionsInv, OptionsData
  <1>2. CASE OpenTab(t)
    BY <1>2, GoOnType DEF OpenTab
  <1>3. CASE SubmitInit(t)
    <2>1. PICK auto \in BOOLEAN, control \in BOOLEAN, research \in BOOLEAN :
            LET copy == [options EXCEPT !.auto = auto, !.control = control,
                                        !.research = research]
            IN  IF control THEN GoWith(t, "arm", copy) /\ Stays ELSE After(t, copy)
      BY <1>3 DEF SubmitInit
    <2> DEFINE copy == [options EXCEPT !.auto = auto, !.control = control,
                                       !.research = research]
    <2>2. copy \in OptionSet /\ copy.own = options.own /\ copy.control = control
      BY <1>1 DEF OptionSet
    <2>3. copy.own # Unknown => placed
      BY <2>2 DEF OptionsTypeInv, OptionsTypeOK
    <2>4. (GoWith(t, "arm", copy) /\ Stays) \/ (~copy.control /\ After(t, copy))
      BY <2>1, <2>2
    <2> HIDE DEF copy
    <2>5. CASE GoWith(t, "arm", copy) /\ Stays
      BY <2>3, <2>5, GoType DEF GoWith
    <2>6. CASE ~copy.control /\ After(t, copy)
      BY <2>2, <2>3, <2>6, AfterType
    <2> QED
      BY <2>4, <2>5, <2>6
  <1>4. CASE SubmitArm(t)
    <2>1. PICK code \in {"keep", "set", "clear"}, tick \in BOOLEAN :
            After(t, [tab[t].copy EXCEPT
                        !.ack = TRUE,
                        !.hash = (code = "set") \/ (@ /\ code = "keep"),
                        !.noCode = @ /\ code # "set"])
      BY <1>4 DEF SubmitArm
    <2> DEFINE copy == [tab[t].copy EXCEPT
                          !.ack = TRUE,
                          !.hash = (code = "set") \/ (@ /\ code = "keep"),
                          !.noCode = @ /\ code # "set"]
    <2>2. tab[t].copy \in OptionSet /\ (tab[t].copy.own # Unknown => placed)
      BY <1>1, <1>4 DEF SubmitArm, HasCopy, OptionsTypeInv, CopyParts
    <2>3. copy \in OptionSet /\ copy.own = tab[t].copy.own /\ copy.ack
      BY <2>2 DEF OptionSet
    <2>4. After(t, copy)
      BY <2>1
    <2> HIDE DEF copy
    <2> QED
      BY <2>2, <2>3, <2>4, AfterType
  <1>5. CASE SubmitAreas(t)
    <2>1. /\ tab[t].step = "areas" /\ tab[t].copy \in OptionSet
          /\ tab[t].copy.own # Unknown => placed
          /\ tab[t].copy.control => tab[t].copy.ack
      BY <1>1, <1>5 DEF SubmitAreas, HasCopy, OptionsTypeInv, CopyParts
    <2>2. PICK new \in Choices \union {Unknown} :
            tab' = [tab EXCEPT ![t].step = "preview", ![t].copy.decision = new]
      BY <1>1, <1>5 DEF SubmitAreas, Decided, OptionSet
    <2> DEFINE copy == [tab[t].copy EXCEPT !.decision = new]
    <2>3. /\ copy.own = tab[t].copy.own /\ copy.control = tab[t].copy.control
          /\ copy.ack = tab[t].copy.ack
      BY <2>1 DEF OptionSet
    <2>4. tab' = [tab EXCEPT ![t].step = "preview", ![t].copy = copy]
      BY <1>1, <2>2 DEF OptionsInv, OptionsData, TabStates
    <2> HIDE DEF copy
    <2> QED
      BY <1>5, <2>1, <2>3, <2>4, GoType DEF SubmitAreas
  <1>6. CASE Preview(t)
    <2>1. /\ tab[t].step = "preview" /\ tab[t].copy \in OptionSet
          /\ tab[t].copy.own # Unknown => placed
          /\ tab[t].copy.control => tab[t].copy.ack
      BY <1>1, <1>6 DEF Preview, HasCopy, OptionsTypeInv, CopyParts
    <2> QED
      BY <1>6, <2>1, SaveType, GoOnType DEF Preview
  <1>7. CASE Abandon(t)
    <2>1. CopyParts'
      BY <1>7, CopiesFrame DEF Abandon, ClosedTab, OptionsInv, OptionsData,
                               OptionsTypeInv, history
    <2>2. OptionsTypeOK'
      BY <1>7 DEF Abandon, ClosedTab, OptionsInv, OptionsData, OptionsTypeInv,
                  OptionsTypeOK, entryVars, history
    <2> QED
      BY <2>1, <2>2 DEF OptionsTypeInv
  <1> QED
    BY <1>2, <1>3, <1>4, <1>5, <1>6, <1>7

\* Setup, the user's picks and the repairs.
LEMMA OtherType ==
  ASSUME OptionsInv, OptionsTypeInv,
         \/ BeginSetup \/ Loaded \/ NotReady
         \/ \E a \in Choices : Pick(a)
         \/ \E i \in {"no_code", "research"} : OpenRepair(i)
         \/ RepairResearch \/ RepairNoCode
  PROVE  OptionsTypeInv'
  <1> USE DEF OptionsTypeInv, entryVars, history
  <1>1. options \in OptionSet
    BY DEF OptionsInv, OptionsData
  <1>2. UNCHANGED tab /\ (placed => placed')
    <2>1. UNCHANGED tab
      BY DEF BeginSetup, Loaded, NotReady, Pick, OpenRepair, RepairResearch,
             RepairNoCode
    <2>2. CASE Loaded
      <3>1. placed' = TRUE \/ UNCHANGED placed
        BY <2>2 DEF Loaded
      <3> QED
        BY <2>1, <3>1
    <2>3. CASE ~Loaded
      <3>1. UNCHANGED placed
        BY <2>3 DEF BeginSetup, NotReady, Pick, OpenRepair, RepairResearch,
                    RepairNoCode
      <3> QED
        BY <2>1, <3>1
    <2> QED
      BY <2>2, <2>3
  <1>3. CopyParts'
    BY <1>2 DEF CopyParts
  <1>4. CASE BeginSetup \/ NotReady
    BY <1>3, <1>4 DEF BeginSetup, NotReady, SetupEnds, OptionsTypeOK, OptionsInv,
       RepairIsFollowed
  <1>5. CASE Loaded
    <2>1. PICK match \in Choices :
            LET decided == [options EXCEPT !.decision = Decided(@, match)]
            IN  IF options.auto /\ MayAssign(decided)
                  THEN /\ area' = decided.decision
                       /\ options' = [decided EXCEPT !.own = decided.decision]
                       /\ placed' = TRUE
                       /\ kept' = (kept /\ area' = area)
                  ELSE /\ options' = IF options.auto THEN decided ELSE options
                       /\ UNCHANGED <<area, placed, kept>>
      BY <1>5 DEF Loaded
    <2> DEFINE decided == [options EXCEPT !.decision = Decided(@, match)]
    <2>2. /\ decided \in OptionSet /\ decided.own = options.own
          /\ decided.auto = options.auto /\ decided.decision # Unknown
          /\ decided.control = options.control /\ decided.ack = options.ack
      BY <1>1 DEF OptionSet, Decided
    <2>3. phase' = "loaded" /\ issues' \subseteq {"no_code", "research"}
          /\ UNCHANGED <<repairs, tab>>
      BY <1>5 DEF Loaded, SetupEnds, Flagged
    <2>4. CASE options.auto /\ MayAssign(decided)
      <3>1. decided.decision \in Areas
        BY <2>4 DEF MayAssign
      <3>2. /\ area' = decided.decision /\ placed' = TRUE
            /\ options' = [decided EXCEPT !.own = decided.decision]
        BY <2>1, <2>4
      <3> HIDE DEF decided
      <3>3. /\ options' \in OptionSet /\ options'.control = decided.control
            /\ options'.ack = decided.ack /\ options'.decision = decided.decision
        BY <2>2, <3>1, <3>2 DEF OptionSet
      <3> QED
        BY <1>3, <1>5, <2>2, <2>3, <3>1, <3>2, <3>3 DEF OptionsTypeOK, Loaded, SetupEnds,
           OptionsInv, RepairIsFollowed
    <2>5. CASE ~(options.auto /\ MayAssign(decided))
      <3>1. /\ options' = IF options.auto THEN decided ELSE options
            /\ UNCHANGED <<area, placed, kept>>
        BY <2>1, <2>5
      <3> HIDE DEF decided
      <3> QED
        BY <1>1, <1>3, <1>5, <2>2, <2>3, <3>1 DEF OptionsTypeOK, Loaded, SetupEnds,
           OptionsInv, RepairIsFollowed
    <2> QED
      BY <2>4, <2>5
  <1>6. ASSUME NEW a \in Choices, Pick(a)
        PROVE  OptionsTypeInv'
    BY <1>3, <1>6 DEF Pick, OptionsTypeOK
  <1>7. ASSUME NEW i \in {"no_code", "research"}, OpenRepair(i)
        PROVE  OptionsTypeInv'
    BY <1>3, <1>7 DEF OpenRepair, OptionsTypeOK
  <1>8. CASE RepairResearch \/ RepairNoCode
    <2>1. /\ options' \in OptionSet /\ options'.own = options.own
          /\ options'.control = options.control /\ options'.ack = options.ack
          /\ options'.auto = options.auto /\ options'.decision = options.decision
      BY <1>1, <1>8 DEF RepairResearch, RepairNoCode, OptionSet
    <2>2. /\ issues' \subseteq issues /\ repairs' \subseteq repairs
          /\ UNCHANGED <<area, phase, tab, placed>> /\ (~due' => ~due \/ phase = "down")
          /\ clearing' \in {clearing, "waiting"}
      BY <1>8 DEF RepairResearch, RepairNoCode
    <2> QED
      BY <1>3, <2>1, <2>2 DEF OptionsTypeOK
  <1> QED
    BY <1>4, <1>5, <1>6, <1>7, <1>8

\* What is stored has its type however many flows store what they copied long
\* before: arm control only with its acknowledgement, an area as setup's own only
\* once it placed the device, and a decision for the zone of a loaded entry.
THEOREM OptionsTyped == OptionsSpec => []OptionsTypeOK
  <1>1. OptionsInit => OptionsTypeInv
    <2> SUFFICES ASSUME OptionsInit PROVE OptionsTypeInv
      OBVIOUS
    <2>1. options \in OptionSet /\ ~options.control /\ options.own = Unknown
      BY DEF OptionsInit, Created
    <2> QED
      BY <2>1 DEF OptionsInit, OptionsTypeInv, OptionsTypeOK, CopyParts, ClosedTab
  <1>2. ASSUME OptionsInv, OptionsTypeInv, [OptionsNext]_optionsVars
        PROVE  OptionsTypeInv'
    <2>1. CASE UNCHANGED optionsVars
      BY <1>2, <2>1 DEF optionsVars, entryVars, history, OptionsTypeInv,
                        OptionsTypeOK, CopyParts
    <2>2. CASE OptionsNext
      BY <1>2, <2>2, TabType, OtherType DEF OptionsNext
    <2> QED
      BY <1>2, <2>1, <2>2
  <1>3. OptionsTypeInv => OptionsTypeOK
    BY DEF OptionsTypeInv
  <1> QED
    BY <1>1, <1>2, <1>3, OptionsStart, OptionsStep, PTL DEF OptionsSpec

=============================================================================
