------------------------------ MODULE MCResearch ------------------------------
(* The parts for research and investigation for TLC: the radio poller, the   *)
(* detector test and the supervised probe.  They share no state, so one of   *)
(* them runs in a behaviour and the others stay where they began.            *)
EXTENDS Wpan

CONSTANTS Button, NoTimer, Styles, MaxPresses, MaxFaults,
          Candidates, ClientTypes, MaxArms

VARIABLES on, objects, accepted, enabled, preferred, timer, registered, rpc,
          unloaded, presses, faults,
          mode, opts, todo, control, armed, arms, seen, instances, object, sent,
          won, extra, risky, broke,
          part  \* the one that runs

detector == <<on, objects, accepted, enabled, preferred, timer, registered, rpc,
              unloaded, presses, faults>>
probe == <<mode, opts, todo, control, armed, arms, seen, instances, object, sent,
           won, extra, risky, broke>>
MCVars == <<vars, detector, probe, part>>

Detector == INSTANCE DetectorTest
Probe == INSTANCE ArmProbe

MCStyles == <<"enable", "Enable">>

ASSUME ResearchAssumption == Detector!ConstantsOK /\ Probe!ConstantsOK

Still == [allow_arm |-> FALSE, at_panel |-> TRUE, instance |-> FALSE]

MCInit ==
  /\ part \in {"radio", "detector", "probe"}
  /\ Init /\ Detector!Init /\ Probe!Init
  /\ part # "radio" => supported = Methods
  /\ part # "detector" => accepted = {}
  /\ part # "probe" => mode = "trial" /\ opts = Still /\ ~armed

RadioRuns(A) ==
  part = "radio" /\ A /\ UNCHANGED <<detector, probe, part>>

MCNext ==
  \/ RadioRuns(Next)
  \/ part = "detector" /\ Detector!Next /\ UNCHANGED <<vars, probe, part>>
  \/ part = "probe" /\ Probe!Next /\ UNCHANGED <<vars, detector, part>>

\* The fairness of the radio's threads, as in Spec.
MCSpec ==
  MCInit /\ [][MCNext]_MCVars /\ \A t \in Threads : WF_MCVars(RadioRuns(Step(t)))

-----------------------------------------------------------------------------

\* The three parts keep their types.
ResearchTypeOK == TypeOK /\ Detector!TypeOK /\ Probe!TypeOK

\* No test and no instance of the service stays behind on the ARC.
NothingLeftBehind == Detector!NothingLeftBehind

\* What arm_probe.py promises of what it sends and of its logins.
Supervised == Probe!Supervised

=============================================================================
