------------------------------ MODULE ConfigEntry ------------------------------
(***************************************************************************)
(* A config entry and its hub: setup with its reads, the serial number     *)
(* that ties the entry to one ARC, rejected credentials, unload, and the   *)
(* flows that create an entry, repair its credentials or move it.          *)
(* Home Assistant (states of an entry, retries, one setup or unload of an  *)
(* entry at a time) and the ARCs at the addresses are external.            *)
(***************************************************************************)
EXTENDS Naturals

CONSTANTS
  Arcs,       \* ARCs, named by their serial numbers
  Hosts,      \* addresses
  None,
  Legacy,     \* unique id host:port of an entry made before serials were read
  MaxChanges, \* bound: passwords changed and ARCs moved or replaced
  MaxReloads, \* bound: reloads and restarts by the user
  MaxFailures, \* bound: setups that fail after the hub was started
  MaxFlows    \* bound: flows opened

ASSUME NamesAreDistinct == None \notin Arcs /\ Legacy \notin Arcs \union {None}

VARIABLES
  at,       \* external: the ARC that answers at an address
  password, \* external: number of the password the ARCs accept
  changes,  \* changes of both so far (bounded)
  entry,    \* [uid, host, pw, serial]: the entry's data
  state,    \* Home Assistant's state of the entry
  step,     \* where its setup is
  hub,      \* [alive, host, pw, serial, arc, failed, callback] of the last setup
  handler,  \* the thread in _handle_auth_failure: "idle" or "marked"
  hubs,     \* hubs whose threads run
  failures, \* setups that failed after hub.start (bounded)
  asked,    \* reauthentication was asked for since the last setup began
  wanted,   \* Home Assistant is to reload the entry
  reloads,  \* reloads by the user so far (bounded)
  rejected, \* logins of setups rejected since a reload or a restart
  flow,     \* the three flows, each [stage, host, pw, found]
  opened,   \* flows opened so far (bounded)
  second    \* an entry made meanwhile: [serial, blind] or None

outside == <<at, password, changes>>
running == <<hub, handler, hubs, failures>>
setting == <<state, step, asked, wanted, reloads, rejected>>
flows == <<flow, opened, second>>
vars == <<outside, entry, running, setting, flows>>

NoHub == [alive |-> FALSE, host |-> None, pw |-> 0, serial |-> None, arc |-> None,
          failed |-> FALSE, callback |-> FALSE]
Closed == [stage |-> "closed", host |-> None, pw |-> 0, found |-> None]
Kinds == {"user", "reauth", "reconfigure"}

Init ==
  /\ at \in [Hosts -> Arcs]
  /\ password = 1 /\ changes = 0
  /\ \E h \in Hosts :
       entry \in {[uid |-> at[h], host |-> h, pw |-> 1, serial |-> at[h]]}
         \union [uid : {Legacy}, host : {h}, pw : {1}, serial : {None, at[h]}]
  /\ state = "not_loaded" /\ step = "none"
  /\ hub = NoHub /\ handler = "idle" /\ hubs = 0 /\ failures = 0
  /\ asked = FALSE /\ wanted = FALSE /\ reloads = 0 /\ rejected = 0
  /\ flow = [k \in Kinds |-> Closed]
  /\ second = None /\ opened = 0

-----------------------------------------------------------------------------
(* Setup.                                                                  *)

\* Home Assistant sets up an entry that is new, to be retried or reloaded.
Begin ==
  /\ state \in {"not_loaded", "retry"} \/ (wanted /\ state \in {"auth_error", "error"})
  /\ state' = "setup" /\ step' = "cgi"
  /\ hub' = [NoHub EXCEPT !.host = entry.host, !.pw = entry.pw]
  /\ handler' = "idle"
  /\ asked' = FALSE /\ wanted' = FALSE
  /\ rejected' = IF wanted THEN 0 ELSE rejected
  /\ UNCHANGED <<outside, entry, hubs, failures, reloads, flows>>

Accepted == hub.pw = password
Here == at[hub.host]

\* Setup ends with an exception after hub.stop: Home Assistant retries, waits
\* for new credentials or, for another ARC, gives up.
Raise(outcome) ==
  /\ state' = outcome /\ step' = "none"
  /\ hub' = [hub EXCEPT !.alive = FALSE]
  /\ hubs' = hubs - IF hub.alive THEN 1 ELSE 0
  /\ asked' = (asked \/ outcome = "auth_error")

\* mutant: a rejected login is a ConfigEntryNotReady like any other failure
RejectedRetries(s) ==
  /\ step = s /\ ~Accepted
  /\ rejected' = rejected + 1
  /\ Raise("retry")
  /\ UNCHANGED <<outside, entry, handler, failures, wanted, reloads, flows>>

\* mutant: the exception leaves the hub as it is
RejectedLeaves(s) ==
  /\ step = s /\ ~Accepted
  /\ rejected' = rejected + 1
  /\ state' = "auth_error" /\ step' = "none" /\ asked' = TRUE
  /\ UNCHANGED <<outside, entry, running, wanted, reloads, flows>>

\* The ARC rejects the login of a read that setup cannot do without.
Rejected(s) ==
  /\ step = s /\ ~Accepted
  /\ rejected' = rejected + 1
  /\ Raise("auth_error")
  /\ UNCHANGED <<outside, entry, handler, failures, wanted, reloads, flows>>

\* mutant: setup does not wait for the realtime session to attach
UnreachableGoesOn ==
  /\ step = "realtime"
  /\ step' = "serial"
  /\ UNCHANGED <<outside, entry, running, state, asked, wanted, reloads, rejected, flows>>

\* Any other exception of hub.start, its time for the realtime session included.
Unreachable ==
  /\ step \in {"cgi", "snapshot", "realtime"}
  /\ Raise("retry")
  /\ UNCHANGED <<outside, entry, handler, failures, wanted, reloads, rejected, flows>>

\* fetch_alarm_config, then the snapshot session, which stays open.
ReadRecords ==
  /\ step = "cgi" /\ Accepted
  /\ step' = "snapshot"
  /\ UNCHANGED <<outside, entry, running, state, asked, wanted, reloads, rejected, flows>>

ReadSnapshot ==
  /\ step = "snapshot" /\ Accepted
  /\ step' = "inventory"
  /\ hub' = [hub EXCEPT !.alive = TRUE] /\ hubs' = hubs + 1
  /\ UNCHANGED <<outside, entry, handler, failures, state, asked, wanted, reloads,
                 rejected, flows>>

\* The inventory is optional: whatever happens to it, a rejected login too,
\* setup goes on, without the serial number if it was not read.
ReadInventory ==
  /\ step = "inventory"
  /\ step' = "realtime"
  /\ hub' \in {hub} \union IF Accepted THEN {[hub EXCEPT !.serial = Here]} ELSE {}
  /\ rejected' \in {rejected} \union IF Accepted THEN {} ELSE {rejected + 1}
  /\ UNCHANGED <<outside, entry, handler, hubs, failures, state, asked, wanted,
                 reloads, flows>>

\* The realtime session attached and resynced within its 30 s.
StartRealtime ==
  /\ step = "realtime" /\ Accepted
  /\ step' = "serial"
  /\ hub' = [hub EXCEPT !.arc = Here]
  /\ UNCHANGED <<outside, entry, handler, hubs, failures, state, asked, wanted,
                 reloads, rejected, flows>>

\* The first serial number read is recorded; another one is another ARC.
CheckSerial ==
  /\ step = "serial"
  /\ IF hub.serial \notin {None, entry.serial} /\ entry.serial # None
       THEN Raise("error") /\ UNCHANGED entry
       ELSE /\ entry' = [entry EXCEPT !.serial = IF @ = None THEN hub.serial ELSE @]
            /\ step' = "callback"
            /\ UNCHANGED <<hub, hubs, state, asked>>
  /\ UNCHANGED <<outside, handler, failures, wanted, reloads, rejected, flows>>

\* From here setup keeps the event loop to itself, but not the hub's threads.
SetCallback ==
  /\ step = "callback"
  /\ hub' = [hub EXCEPT !.callback = TRUE]
  /\ step' = "check"
  /\ UNCHANGED <<outside, entry, handler, hubs, failures, state, asked, wanted,
                 reloads, rejected, flows>>

\* mutant: nothing is checked once the callback is set
SkipCheck ==
  /\ step = "check"
  /\ step' = "registry"
  /\ UNCHANGED <<outside, entry, running, state, asked, wanted, reloads, rejected, flows>>

CheckFailed ==
  /\ step = "check"
  /\ asked' = (asked \/ hub.failed)
  /\ step' = "registry"
  /\ UNCHANGED <<outside, entry, running, state, wanted, reloads, rejected, flows>>

\* Devices, areas, migrations, issues and platforms.
Register ==
  /\ step = "registry"
  /\ state' = "loaded" /\ step' = "none"
  /\ UNCHANGED <<outside, entry, running, asked, wanted, reloads, rejected, flows>>

\* An exception there ends the setup and leaves the hub running for good.
RegisterFails ==
  /\ step = "registry" /\ failures < MaxFailures
  /\ state' = "error" /\ step' = "none"
  /\ failures' = failures + 1
  /\ UNCHANGED <<outside, entry, hub, handler, hubs, asked, wanted, reloads,
                 rejected, flows>>

-----------------------------------------------------------------------------
(* The hub's threads, unload, the world.                                   *)

\* _handle_auth_failure, called once by whichever session, periodic resync or
\* diagnostics read of the hub is rejected first.
HubRejected ==
  /\ step \in {"serial", "callback", "check", "registry"} \/ state = "loaded"
  /\ hub.alive /\ ~Accepted /\ ~hub.failed
  /\ hub' = [hub EXCEPT !.failed = TRUE]
  /\ handler' = "marked"
  /\ UNCHANGED <<outside, entry, hubs, failures, setting, flows>>

HandlerCalls ==
  /\ handler = "marked"
  /\ handler' = "idle"
  /\ asked' = (asked \/ hub.callback)
  /\ UNCHANGED <<outside, entry, hub, hubs, failures, state, step, wanted, reloads,
                 rejected, flows>>

Reload ==
  /\ reloads < MaxReloads /\ reloads' = reloads + 1
  /\ wanted' = TRUE
  /\ UNCHANGED <<outside, entry, running, state, step, asked, rejected, flows>>

\* The first half of a reload.  Platforms that do not unload keep the hub.
Unload ==
  /\ state = "loaded" /\ wanted
  /\ \/ /\ state' = "not_loaded"
        /\ hub' = [hub EXCEPT !.alive = FALSE] /\ hubs' = hubs - 1
     \/ state' = "failed_unload" /\ UNCHANGED <<hub, hubs>>
  /\ UNCHANGED <<outside, entry, handler, failures, step, asked, wanted, reloads,
                 rejected, flows>>

\* Home Assistant stops or dies: only what is stored is left.
Restart ==
  /\ reloads < MaxReloads /\ reloads' = reloads + 1
  /\ state' = "not_loaded" /\ step' = "none"
  /\ hub' = NoHub /\ handler' = "idle" /\ hubs' = 0 /\ failures' = 0
  /\ asked' = FALSE /\ wanted' = FALSE /\ rejected' = 0
  /\ flow' = [k \in Kinds |-> Closed]
  /\ UNCHANGED <<outside, entry, opened, second>>

\* An ARC is moved or replaced, which takes longer than a setup, or gets another
\* password.
WorldChanges ==
  /\ changes < MaxChanges /\ changes' = changes + 1
  /\ \/ password' = password + 1 /\ UNCHANGED at
     \/ state # "setup" /\ at' \in [Hosts -> Arcs] /\ UNCHANGED password
  /\ UNCHANGED <<entry, running, setting, flows>>

-----------------------------------------------------------------------------
(* Flows.                                                                  *)

\* The event loop is not in the part of setup that never awaits.
LoopFree == step \notin {"callback", "check", "registry"}

Move(k, to) == flow' = [flow EXCEPT ![k] = to]

\* Home Assistant opens a reauthentication that was asked for; the user opens
\* the others.
Open(k) ==
  /\ flow[k].stage = "closed" /\ opened < MaxFlows /\ opened' = opened + 1
  /\ k = "reauth" => asked
  /\ k = "user" => second = None
  /\ Move(k, [Closed EXCEPT !.stage = "form"])
  /\ UNCHANGED <<outside, entry, running, setting, second>>

\* Reauthentication keeps the address; a blank password in a reconfiguration
\* keeps the stored one.
Submit(k) ==
  /\ LoopFree
  /\ flow[k].stage = "form"
  /\ \E h \in Hosts, p \in {entry.pw, password} :
       /\ k = "reauth" => h = entry.host
       /\ Move(k, [flow[k] EXCEPT !.stage = "checking", !.host = h, !.pw = p])
  /\ UNCHANGED <<outside, entry, running, setting, opened, second>>

\* probe_connection in an executor.  The serial number is optional there too.
Probe(k) ==
  /\ flow[k].stage = "checking"
  /\ IF flow[k].pw = password
       THEN \E s \in {None, at[flow[k].host]} :
              Move(k, [flow[k] EXCEPT !.stage = "checked", !.found = s])
       ELSE Move(k, [Closed EXCEPT !.stage = "form"])
  /\ UNCHANGED <<outside, entry, running, setting, opened, second>>

ProbeFails(k) ==
  /\ flow[k].stage = "checking"
  /\ Move(k, [Closed EXCEPT !.stage = "form"])
  /\ UNCHANGED <<outside, entry, running, setting, opened, second>>

\* mutant: any ARC that accepts the credentials will do
AnyArcMatches(k) == flow[k].found # None

\* _unique_id_matches_entry.  A legacy entry's address cannot have changed, as
\* without a serial number only a flow for the same address is let through.
UniqueIdMatches(k) ==
  /\ flow[k].found # None
  /\ IF entry.serial # None THEN flow[k].found = entry.serial
       ELSE \/ flow[k].found = entry.uid
            \/ entry.uid = Legacy /\ flow[k].host = entry.host

\* Reauthentication and reconfiguration save what was checked and reload, or
\* refuse another ARC.
Finish(k) ==
  /\ LoopFree
  /\ k \in {"reauth", "reconfigure"} /\ flow[k].stage = "checked"
  /\ IF UniqueIdMatches(k)
       THEN /\ entry' = [entry EXCEPT !.host = flow[k].host, !.pw = flow[k].pw,
                                      !.serial = flow[k].found]
            /\ wanted' = TRUE
       ELSE UNCHANGED <<entry, wanted>>
  /\ Move(k, Closed)
  /\ UNCHANGED <<outside, running, state, step, asked, reloads, rejected, opened, second>>

\* mutant: only the unique id is looked at
IsNewByUid == entry.uid # flow["user"].found /\ entry.host # flow["user"].host

\* No entry has this serial number, as data or as unique id, or this address.
IsNew ==
  /\ flow["user"].found \notin {entry.serial, entry.uid}
  /\ flow["user"].host # entry.host

\* async_step_user after the check: on to the forms for the options.
Identify ==
  /\ LoopFree
  /\ flow["user"].stage = "checked"
  /\ Move("user", IF flow["user"].found = None THEN [Closed EXCEPT !.stage = "form"]
                  ELSE IF IsNew THEN [flow["user"] EXCEPT !.stage = "options"]
                  ELSE Closed)
  /\ second' = IF flow["user"].found # None /\ IsNew
                 THEN [serial |-> flow["user"].found, blind |-> entry.serial = None,
                       made |-> FALSE]
                 ELSE second
  /\ UNCHANGED <<outside, entry, running, setting, opened>>

Create ==
  /\ LoopFree
  /\ flow["user"].stage = "options"
  /\ second' = [second EXCEPT !.made = TRUE]
  /\ Move("user", Closed)
  /\ UNCHANGED <<outside, entry, running, setting, opened>>

Next ==
  \/ Begin \/ Unreachable
  \/ \E s \in {"cgi", "snapshot", "realtime"} : Rejected(s)
  \/ ReadRecords \/ ReadSnapshot \/ ReadInventory \/ StartRealtime
  \/ CheckSerial \/ SetCallback \/ CheckFailed \/ Register \/ RegisterFails
  \/ HubRejected \/ HandlerCalls \/ Reload \/ Unload \/ Restart \/ WorldChanges
  \/ \E k \in Kinds : Open(k) \/ Submit(k) \/ Probe(k) \/ ProbeFails(k) \/ Finish(k)
  \/ Identify \/ Create

Spec == Init /\ [][Next]_vars

-----------------------------------------------------------------------------
(* Properties.                                                             *)

Own == IF hub.alive /\ state \in {"setup", "loaded", "failed_unload"} THEN 1 ELSE 0

\* What is stored and counted has its type, and a hub is complete, session and
\* callback, before its entry counts as loaded.
TypeOK ==
  /\ entry \in [uid : Arcs \union {Legacy}, host : Hosts, pw : Nat,
                 serial : Arcs \union {None}]
  /\ state \in {"not_loaded", "setup", "retry", "auth_error", "error", "loaded",
                "failed_unload"}
  /\ {hubs, failures, rejected} \subseteq Nat
  /\ step # "none" <=> state = "setup"
  /\ state = "loaded" => hub.alive /\ hub.callback /\ hub.arc # None

\* "Identity is preserved": once a serial number is stored the entry stays with
\* that ARC, whatever answers at its address and whatever a flow finds.
SerialIsForLife == [][entry.serial # None => entry'.serial = entry.serial]_vars

\* The credentials of a running hub are rejected, at any moment from the end of
\* hub.start on: once the thread that saw it is done and the entry is loaded,
\* reauthentication was asked for, by the thread or by setup itself.
RejectedIsHeard ==
  state = "loaded" /\ hub.failed /\ handler = "idle" => asked

\* "Repeated failed logins can lock the ARC account": setups make at most two
\* rejected logins, retries included, until the user saves a password or reloads.
FewRejections == rejected <= 2

\* Every hub started is stopped, but the entry's own and those of setups that
\* failed after hub.start.
NoOtherHubRuns == hubs = Own + failures

\* A second entry for an ARC can only be made while the first is a legacy entry
\* that has not read its serial number yet.
OneEntryPerArc ==
  second # None /\ second.made /\ second.serial = entry.serial => second.blind

=============================================================================
