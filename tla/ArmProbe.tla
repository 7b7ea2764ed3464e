------------------------------- MODULE ArmProbe -------------------------------
(***************************************************************************)
(* scripts/arm_probe.py: one run of the supervised probe, in each of its   *)
(* modes, on a panel somebody else may arm meanwhile and over a line that  *)
(* may break.  A mode is a plan of steps; what is read and the shapes of   *)
(* the candidate requests are left out, every request that could change    *)
(* the panel is counted.                                                   *)
(***************************************************************************)
EXTENDS Naturals, Sequences, SequencesExt

CONSTANTS
  Candidates,  \* requests a sweep has to try
  ClientTypes, \* client types to log in under
  MaxArms      \* bound: how often the panel is armed at its keypad

\* What is assumed of the constants.
ConstantsOK == Candidates \in Nat /\ ClientTypes \in Nat /\ MaxArms \in Nat

VARIABLES
  mode,     \* what the run was asked to do
  opts,     \* [allow_arm, at_panel, instance] of the command line
  todo,     \* the steps left, the next one first
  control,     \* its session: "none", "up" or "broken"
  armed,    \* external: an area of the panel is armed
  arms,     \* arms at the keypad so far (bounded)
  seen,     \* AreaArmMode as read before any request: "unread", "disarmed", "armed"
            \* or "blank", a reply that leaves out the modes of areas
  instances,  \* external: objects the panel keeps
  object,   \* object_id is set
  sent,     \* requests that may change the panel
  won,      \* one of them was answered with a result
  extra,    \* history: requests sent after won
  risky,    \* history: logins rejected with a code that counts for a lockout
  broke     \* history: the line broke, or the panel refused a destroy

panel == <<armed, arms, instances>>
requests == <<sent, won, extra>>
vars == <<mode, opts, todo, control, seen, object, panel, requests, risky, broke>>

Trials == {"trial", "disarm", "condition"}
ReadOnly == {"client_types", "sweep_keys", "sweep_instances", "inspect", "getters"}

Times(n, step) == [i \in 1..n |-> step]
\* The steps of a round, n times over.
Rounds(n, round) == [i \in 1..(n * Len(round)) |-> round[((i - 1) % Len(round)) + 1]]

\* The requests a sweep will try, built before the first one is sent.
GetterShapes == Times(Candidates, "getter")
DisarmShapes == Times(Candidates, "try disarm")
ConditionShapes == Times(Candidates, "try condition")

\* The steps of each mode, in the order of its function.
Trial(o) ==
  <<"login", "modes", "guard", "ask">>
    \o (IF o.instance THEN <<"acquire">> ELSE <<>>)
    \o <<"attach", "send", "listen", "after">>
ProbeClientTypes == Rounds(ClientTypes, <<"login", "read", "close">>)
SweepKeys == <<"login">> \o Times(Candidates, "read")
SweepInstances ==
  <<"login">> \o Rounds(Candidates, <<"maybe_acquire", "destroy">>)
InspectService == <<"login", "read", "maybe_acquire", "read", "destroy">>
ProbeGetters == <<"login", "read", "acquire">> \o GetterShapes
ProbeDisarm ==
  <<"login", "modes", "guard", "read", "maybe_acquire">> \o DisarmShapes
ProbeCondition(o) ==
  <<"login", "read">>
    \o (IF o.at_panel THEN <<"modes", "guard">> \o ConditionShapes ELSE <<>>)

Plan(m, o) ==
  CASE m = "trial" -> Trial(o)
    [] m = "client_types" -> ProbeClientTypes
    [] m = "sweep_keys" -> SweepKeys
    [] m = "sweep_instances" -> SweepInstances
    [] m = "inspect" -> InspectService
    [] m = "getters" -> ProbeGetters
    [] m = "disarm" -> ProbeDisarm
    [] m = "condition" -> ProbeCondition(o)

\* The command lines parse_args accepts.
Accepted(m, o) ==
  /\ m \in {"trial", "disarm"} => o.at_panel
  /\ o.instance => m = "trial"

Init ==
  /\ mode \in Trials \union ReadOnly
  /\ opts \in [allow_arm : BOOLEAN, at_panel : BOOLEAN, instance : BOOLEAN]
  /\ Accepted(mode, opts)
  /\ todo = Plan(mode, opts)
  /\ control = "none"
  /\ armed \in BOOLEAN
  /\ arms = 0
  /\ seen = "unread"
  /\ instances = 0 /\ object = FALSE
  /\ sent = 0 /\ won = FALSE /\ extra = 0
  /\ risky = 0 /\ broke = FALSE

-----------------------------------------------------------------------------

NextIs(step) == todo # <<>> /\ Head(todo) = step
Done == todo' = Tail(todo)
\* An exception or a refusal: what is left is the finally block.
GoesTo(steps) == todo' = steps
Cleanup == IF object /\ mode \in {"trial", "disarm", "getters"}
             THEN <<"destroy", "close">> ELSE <<"close">>
\* --probe-client-types closes the session and goes on to the next type.
NextType == SubSeq(todo, SelectInSeq(todo, LAMBDA s : s = "close"), Len(todo))

LogIn ==
  /\ NextIs("login")
  /\ control' = "up"
  /\ Done
  /\ UNCHANGED <<mode, opts, seen, object, panel, requests, risky, broke>>

\* A rejected login, the event session's too, ends the run; --probe-client-types
\* goes on to the next type unless the code counts towards a lockout.
LoginRejected ==
  /\ \E s \in {"login", "attach"} : NextIs(s)
  /\ \E risk \in BOOLEAN :
       /\ risky' = risky + IF risk THEN 1 ELSE 0
       /\ GoesTo(IF mode = "client_types" /\ ~risk THEN NextType ELSE Cleanup)
  /\ UNCHANGED <<mode, opts, control, seen, object, panel, requests, broke>>

\* Calls that change nothing, with the lists of methods, users and keys.
Reads ==
  /\ \E s \in {"read", "attach", "listen", "after"} : NextIs(s)
  /\ control = "up"
  /\ Done
  /\ UNCHANGED <<mode, opts, control, seen, object, panel, requests, risky, broke>>

\* read_modes: only a reply that says no is a GuardError.  One without a table is
\* a list of no areas and a row without a mode is a disarmed area's, so a reply may
\* be "blank" about the areas that are armed.
ReadModes ==
  /\ NextIs("modes") /\ control = "up"
  /\ \/ seen' \in {IF armed THEN "armed" ELSE "disarmed", "blank"} /\ Done
     \/ UNCHANGED seen /\ GoesTo(Cleanup)
  /\ UNCHANGED <<mode, opts, control, object, panel, requests, risky, broke>>

\* mutant: the modes are read but not looked at
GuardBlind ==
  /\ NextIs("guard")
  /\ Done
  /\ UNCHANGED <<mode, opts, control, seen, object, panel, requests, risky, broke>>

\* The modes were read and named no area that is not disarmed.
NoneSeenArmed == seen \in {"disarmed", "blank"}

\* check_disarm_only: no further with an area seen armed unless arming is allowed.
\* The parameters are taken to pass, or the run would end here.
Guard ==
  /\ NextIs("guard")
  /\ IF opts.allow_arm \/ NoneSeenArmed THEN Done ELSE GoesTo(Cleanup)
  /\ UNCHANGED <<mode, opts, control, seen, object, panel, requests, risky, broke>>

\* "Type SEND to continue".
Ask ==
  /\ NextIs("ask")
  /\ Done \/ GoesTo(Cleanup)
  /\ UNCHANGED <<mode, opts, control, seen, object, panel, requests, risky, broke>>

\* factory.instance; a run that needs the object refuses without it.
Acquire ==
  /\ \E s \in {"acquire", "maybe_acquire"} : NextIs(s)
  /\ control = "up"
  /\ \/ object' = TRUE /\ instances' = instances + 1 /\ Done
     \/ /\ IF NextIs("acquire") THEN GoesTo(Cleanup) ELSE Done
        /\ UNCHANGED <<object, instances>>
  /\ UNCHANGED <<mode, opts, control, seen, armed, arms, requests, risky, broke>>

\* n requests that may change the panel, the last one answered with ok or not.
Sends(n, ok) ==
  /\ sent' = sent + n
  /\ won' = (won \/ ok)
  /\ extra' = extra + IF won THEN n ELSE 0
  /\ armed' \in {armed} \union IF ok THEN {FALSE} ELSE {}

\* run: the one request.  A failure is reported and the run goes on to listen.
Send ==
  /\ NextIs("send")
  /\ \E ok \in BOOLEAN : Sends(1, ok)
  /\ Done
  /\ UNCHANGED <<mode, opts, control, seen, object, instances, arms, risky, broke>>

\* A candidate of the sweep: static, then on the instance if there is one.  The
\* first that works ends the sweep.
TryDisarm ==
  /\ NextIs("try disarm") /\ control = "up"
  /\ \E ok \in BOOLEAN, n \in 1..(IF object THEN 2 ELSE 1) :
       /\ Sends(n, ok)
       /\ IF ok THEN GoesTo(Cleanup) ELSE Done
  /\ UNCHANGED <<mode, opts, control, seen, object, instances, arms, risky, broke>>

\* The same for probe_condition, whose setters have no instance.
TryCondition ==
  /\ NextIs("try condition") /\ control = "up"
  /\ \E ok \in BOOLEAN : Sends(1, ok) /\ IF ok THEN GoesTo(Cleanup) ELSE Done
  /\ UNCHANGED <<mode, opts, control, seen, object, instances, arms, risky, broke>>

\* probe_getters: a getter that works is followed by the setter of the same
\* shape, in two spellings; a code that counts for a lockout ends the run.
Getter ==
  /\ NextIs("getter") /\ control = "up"
  /\ \/ Done /\ UNCHANGED <<requests, armed>>
     \/ GoesTo(Cleanup) /\ UNCHANGED <<requests, armed>>
     \/ Done /\ \E ok \in BOOLEAN, n \in 1..2 : (ok \/ n = 2) /\ Sends(n, ok)
  /\ UNCHANGED <<mode, opts, control, seen, object, instances, arms, risky, broke>>

\* The end of a plan: finally.
Finally ==
  /\ todo = <<>> /\ control # "none"
  /\ GoesTo(Cleanup)
  /\ UNCHANGED <<mode, opts, control, seen, object, panel, requests, risky, broke>>

\* The instance is destroyed, best effort: a broken line and a refusal are ignored.
Destroy ==
  /\ NextIs("destroy")
  /\ object' = FALSE
  /\ \/ /\ instances' = IF object /\ control = "up" THEN instances - 1 ELSE instances
        /\ UNCHANGED broke
     \/ /\ object /\ control = "up"
        /\ broke' = TRUE
        /\ UNCHANGED instances
  /\ Done
  /\ UNCHANGED <<mode, opts, control, seen, armed, arms, requests, risky>>

Close ==
  /\ NextIs("close")
  /\ control' = "none"
  /\ Done
  /\ UNCHANGED <<mode, opts, seen, object, panel, requests, risky, broke>>

\* A call finds the line broken.  The run ends, but a trial's own request is
\* reported as failed and --probe-client-types goes on to the next type.
LineFails ==
  /\ control # "none" /\ todo # <<>> /\ Head(todo) \notin {"send", "destroy", "close"}
  /\ control' = "broken" /\ broke' = TRUE
  /\ GoesTo(IF mode = "client_types" THEN NextType ELSE Cleanup)
  /\ UNCHANGED <<mode, opts, seen, object, panel, requests, risky>>

KeypadArms ==
  /\ ~armed /\ arms < MaxArms
  /\ armed' = TRUE /\ arms' = arms + 1
  /\ UNCHANGED <<mode, opts, todo, control, seen, object, instances, requests, risky, broke>>

Step ==
  \/ LogIn \/ LoginRejected \/ Reads \/ ReadModes \/ Guard \/ Ask \/ Acquire
  \/ Send \/ TryDisarm \/ TryCondition \/ Getter \/ Finally \/ Destroy \/ Close \/ LineFails

Next == Step \/ KeypadArms

Over == todo = <<>> /\ control = "none"

Spec == Init /\ [][Next]_vars

-----------------------------------------------------------------------------
(* Properties.                                                             *)

Steps == {"login", "read", "modes", "guard", "ask", "acquire", "maybe_acquire", "attach",
          "send", "listen", "after", "getter", "try disarm", "try condition", "destroy",
          "close"}

\* Every variable has its type; what the run counts as its object exists.
TypeOK ==
  /\ mode \in Trials \union ReadOnly /\ control \in {"none", "up", "broken"}
  /\ opts \in [allow_arm : BOOLEAN, at_panel : BOOLEAN, instance : BOOLEAN]
  /\ todo \in Seq(Steps)
  /\ seen \in {"unread", "disarmed", "armed", "blank"}
  /\ armed \in BOOLEAN /\ object \in BOOLEAN /\ won \in BOOLEAN /\ broke \in BOOLEAN
  /\ arms \in Nat /\ sent \in Nat /\ extra \in Nat /\ risky \in Nat /\ instances \in Nat
  /\ object => instances > 0

\* "It sends exactly one RPC per run: no loops, no retries": a trial never sends
\* a second request, whatever became of the first.
OneRequestPerTrial == mode = "trial" => sent <= 1

\* "Short-circuit on success": once a request worked, a trial or a disarm sweep
\* sends no other.
NothingAfterSuccess == mode \in Trials => extra = 0

\* Unless arming is allowed, nothing that could change the panel is sent by a
\* trial or sweep that saw an area armed, or that did not look before it.  A look at
\* a reply without modes counts: the code takes it for a disarmed panel.
ArmedPanelIsLeftAlone ==
  mode \in Trials /\ sent > 0 /\ ~opts.allow_arm /\ ~won => NoneSeenArmed

\* Every instance is destroyed by the end of a run, refused and stopped runs too,
\* as long as the line held and the panel agreed.
InstancesReturned == Over /\ ~broke => instances = 0

\* "A login failure that could count towards an account lockout stops the whole
\* probe immediately".
OneRiskyLogin == risky <= 1

\* What the script promises of every run: what a trial or a sweep sends, that its
\* instances are returned and that it does not lock the account out.
Supervised ==
  /\ OneRequestPerTrial /\ NothingAfterSuccess /\ ArmedPanelIsLeftAlone
  /\ InstancesReturned /\ OneRiskyLogin

=============================================================================
