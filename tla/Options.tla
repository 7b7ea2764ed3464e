-------------------------------- MODULE Options --------------------------------
(***************************************************************************)
(* The options of a config entry and who writes them: options flows, of    *)
(* which two can be open in two browser tabs, the repair flows and setup   *)
(* itself, which also places the device of a zone in an area.  One zone    *)
(* and its device stand for all: each has its own decision and ownership.  *)
(* Home Assistant reloads the entry when an options flow changed it.       *)
(***************************************************************************)
EXTENDS Naturals

CONSTANTS
  Areas,    \* Home Assistant's areas
  NoArea,   \* no area
  Unknown,  \* nothing stored
  Tabs,     \* options flows that can be open at a time
  MaxTabs,  \* bound: options flows opened
  MaxPicks  \* bound: areas picked by the user

ASSUME AreasAreNamed == {NoArea, Unknown} \intersect Areas = {} /\ NoArea # Unknown

VARIABLES
  options, \* what is stored with the entry
  phase,   \* of the entry: "down", "starting" or "loaded"
  due,     \* Home Assistant is to set it up again
  clearing, \* the research repair's own reload: "none", "waiting" or "reloading"
  runs,    \* [control, research]: the options its hub was built with, if it has one
  area,    \* the area of the device in the registry
  issues,  \* repair issues shown, among "no_code" and "research"
  repairs, \* repair flows open
  tab,     \* [Tabs -> the open flow's step and copy of the options]
  tabsOpened, \* options flows opened so far (bounded)
  picks,   \* areas picked so far (bounded)
  placed,  \* history: setup placed the device once
  kept,    \* history: the user has the last word on the area
  stale    \* history: a flow saved another ownership than was stored by then

entryVars == <<phase, due, clearing, runs, issues>>
history == <<placed, kept, stale>>
optionsVars == <<options, entryVars, area, repairs, tab, tabsOpened, picks, history>>

Choices == Areas \union {NoArea}
OptionSet ==
  [auto : BOOLEAN, decision : Choices \union {Unknown}, own : Areas \union {Unknown},
   control : BOOLEAN, ack : BOOLEAN, hash : BOOLEAN, noCode : BOOLEAN, research : BOOLEAN]

\* An entry as the config flow creates it: no arm control, matched or not.
Created ==
  {o \in OptionSet : /\ ~o.control /\ ~o.ack /\ ~o.hash /\ ~o.noCode
                     /\ o.own = Unknown /\ (o.decision # Unknown => o.auto)}

NothingRuns == [control |-> FALSE, research |-> FALSE]

ClosedTab == [step |-> "closed", copy |-> Unknown]

OptionsInit ==
  /\ options \in Created
  /\ phase = "down" /\ due = TRUE /\ clearing = "none"
  /\ runs = NothingRuns
  /\ area = NoArea
  /\ issues = {} /\ repairs = {}
  /\ tab = [t \in Tabs |-> ClosedTab]
  /\ tabsOpened = 0 /\ picks = 0
  /\ placed = FALSE /\ kept = FALSE /\ stale = FALSE

-----------------------------------------------------------------------------
(* Setup.                                                                  *)

\* The hub is built from the options, then started, which takes a while.  Reloads
\* queue for the entry, and no save after a repair is ahead of the repair's own.
BeginSetup ==
  /\ phase \in {"down", "loaded"} /\ phase' = "starting"
  /\ IF clearing = "waiting"
       THEN clearing' = "reloading" /\ UNCHANGED due
       ELSE due /\ due' = FALSE /\ UNCHANGED clearing
  /\ runs' = [control |-> options.control, research |-> options.research]
  /\ UNCHANGED <<options, issues, area, repairs, tab, tabsOpened, picks, history>>

\* mutant: only matches are stored
DecidedIfMatched(old, match) == IF old = Unknown /\ match # NoArea THEN match ELSE old

\* decide_zone_areas: a stored decision is kept, "no area" too.
Decided(old, match) == IF old = Unknown THEN match ELSE old

\* mutant: an area that is blank is free, whoever cleared it
MayAssignBlank(o) == o.decision \in Areas /\ area \in {NoArea, o.own}

\* may_auto_assign: a blank area, or the area that setup set last.
MayAssign(o) ==
  /\ o.decision \in Areas
  /\ IF o.own = Unknown THEN area = NoArea ELSE area = o.own

\* _update_repair_issues: the command is known, so a hub built with arm control
\* has a controller.
Flagged ==
  {i \in {"research"} : options.research}
    \union {i \in {"no_code"} : /\ options.control /\ runs.control
                               /\ ~options.hash /\ ~options.noCode}

\* The issues after setup left them as now; async_delete_issue follows the repair's
\* own reload, however that ended.
SetupEnds(now) ==
  /\ issues' = now \ (IF clearing = "reloading" THEN {"research"} ELSE {})
  /\ clearing' = (IF clearing = "reloading" THEN "none" ELSE clearing)

\* The rest of setup, on the event loop without a break: decisions, areas of
\* devices not placed by hand, issues.
Loaded ==
  /\ phase = "starting"
  /\ phase' = "loaded"
  /\ \E match \in Choices :
       LET decided == [options EXCEPT !.decision = Decided(@, match)]
       IN  IF options.auto /\ MayAssign(decided)
             THEN /\ area' = decided.decision
                  /\ options' = [decided EXCEPT !.own = decided.decision]
                  /\ placed' = TRUE
                  /\ kept' = (kept /\ area' = area)
             ELSE /\ options' = IF options.auto THEN decided ELSE options
                  /\ UNCHANGED <<area, placed, kept>>
  /\ SetupEnds(Flagged)
  /\ UNCHANGED <<due, runs, repairs, tab, tabsOpened, picks, stale>>

\* The hub cannot be reached and is dropped: Home Assistant will try again.
NotReady ==
  /\ phase = "starting"
  /\ phase' = "down" /\ due' = TRUE /\ runs' = NothingRuns
  /\ SetupEnds(issues)
  /\ UNCHANGED <<options, area, repairs, tab, tabsOpened, picks, history>>

\* The user picks or clears the area of the device.
Pick(a) ==
  /\ phase # "starting" \/ placed  \* the device exists
  /\ picks < MaxPicks /\ picks' = picks + 1
  /\ area # a /\ area' = a
  /\ kept' = (placed \/ a # NoArea)
  /\ UNCHANGED <<options, entryVars, repairs, tab, tabsOpened, placed, stale>>

-----------------------------------------------------------------------------
(* Options flows.                                                          *)

Go(t, step) == tab' = [tab EXCEPT ![t].step = step]
GoWith(t, step, copy) == tab' = [tab EXCEPT ![t].step = step, ![t].copy = copy]

OpenTab(t) ==
  /\ tab[t].step = "closed" /\ tabsOpened < MaxTabs /\ tabsOpened' = tabsOpened + 1
  /\ Go(t, "init")
  /\ UNCHANGED <<options, entryVars, area, repairs, picks, history>>

\* The flow ends: its copy replaces the options and the entry is reloaded.
Save(t, copy) ==
  /\ options' = copy
  /\ due' = (due \/ copy # options)
  /\ tab' = [tab EXCEPT ![t] = ClosedTab]
  /\ stale' = (stale \/ copy.own # options.own)
  /\ UNCHANGED <<phase, clearing, runs, issues, area, repairs, tabsOpened, picks, placed,
                 kept>>

Stays == UNCHANGED <<options, entryVars, area, repairs, tabsOpened, picks, history>>

\* _async_after_arm_control: on to the areas, if they are to be matched.
After(t, copy) ==
  IF copy.auto THEN GoWith(t, "areas", copy) /\ Stays ELSE Save(t, copy)

\* async_step_init: the options are copied here and not looked at again.
SubmitInit(t) ==
  /\ tab[t].step = "init"
  /\ \E auto, control, research \in BOOLEAN :
       LET copy == [options EXCEPT !.auto = auto, !.control = control,
                                   !.research = research]
       IN  IF control THEN GoWith(t, "arm", copy) /\ Stays ELSE After(t, copy)

\* async_step_arm_control, with a valid code or none and at least one mode.
SubmitArm(t) ==
  /\ tab[t].step = "arm"
  /\ \E code \in {"keep", "set", "clear"}, tick \in BOOLEAN :
       /\ tab[t].copy.ack \/ tick
       /\ After(t, [tab[t].copy EXCEPT
                      !.ack = TRUE,
                      !.hash = (code = "set") \/ (@ /\ code = "keep"),
                      !.noCode = @ /\ code # "set"])

\* async_step_area_match: the decisions start from those stored now, unless the
\* user asks for new ones; without a hub only zones with one are known.
SubmitAreas(t) ==
  /\ tab[t].step = "areas"
  /\ \E match \in Choices, rematch \in BOOLEAN :
       LET old == options.decision
           new == IF old = Unknown /\ phase # "loaded" THEN old
                  ELSE Decided(IF rematch THEN Unknown ELSE old, match)
       IN  /\ rematch => old # Unknown
           /\ tab' = [tab EXCEPT ![t].step = "preview", ![t].copy.decision = new]
  /\ Stays

\* async_step_area_preview: save, or back to the matching.
Preview(t) ==
  /\ tab[t].step = "preview"
  /\ Save(t, tab[t].copy) \/ (Go(t, "areas") /\ Stays)

\* The user closes the tab.
Abandon(t) ==
  /\ tab[t].step # "closed"
  /\ tab' = [tab EXCEPT ![t] = ClosedTab]
  /\ Stays

-----------------------------------------------------------------------------
(* Repair flows: opened from an issue, and still there when it is gone.    *)

OpenRepair(i) ==
  /\ i \in issues \ repairs
  /\ repairs' = repairs \union {i}
  /\ UNCHANGED <<options, entryVars, area, tab, tabsOpened, picks, history>>

\* The option is stored and a reload asked for and awaited; the issue stays until
\* then.  A retry that was planned is called off, a save's reload is not.  (One such
\* repair at a time.)
RepairResearch ==
  /\ "research" \in repairs /\ clearing = "none"
  /\ options' = [options EXCEPT !.research = FALSE]
  /\ clearing' = "waiting"
  /\ UNCHANGED due \/ (phase = "down" /\ due' = FALSE)
  /\ repairs' = repairs \ {"research"}
  /\ UNCHANGED <<phase, runs, issues, area, tab, tabsOpened, picks, history>>

\* mutant: the issue goes away without the acknowledgement
RepairNoCodeUnstored ==
  /\ "no_code" \in repairs
  /\ issues' = issues \ {"no_code"} /\ repairs' = repairs \ {"no_code"}
  /\ UNCHANGED <<options, phase, due, clearing, runs, area, tab, tabsOpened, picks,
                 history>>

RepairNoCode ==
  /\ "no_code" \in repairs
  /\ options' = [options EXCEPT !.noCode = TRUE]
  /\ issues' = issues \ {"no_code"} /\ repairs' = repairs \ {"no_code"}
  /\ UNCHANGED <<phase, due, clearing, runs, area, tab, tabsOpened, picks, history>>

OptionsNext ==
  \/ BeginSetup \/ Loaded \/ NotReady
  \/ \E a \in Choices : Pick(a)
  \/ \E t \in Tabs : \/ OpenTab(t) \/ SubmitInit(t) \/ SubmitArm(t) \/ SubmitAreas(t)
                     \/ Preview(t) \/ Abandon(t)
  \/ \E i \in {"no_code", "research"} : OpenRepair(i)
  \/ RepairResearch \/ RepairNoCode

OptionsSpec == OptionsInit /\ [][OptionsNext]_optionsVars

-----------------------------------------------------------------------------
(* Properties.                                                             *)

\* What is stored has its type, arm control only with its acknowledgement; what
\* setup owns is an area it once placed the device in, and a loaded entry that
\* matches has a decision for the zone.
OptionsTypeOK ==
  /\ options \in OptionSet
  /\ area \in Choices
  /\ phase \in {"down", "starting", "loaded"}
  /\ clearing \in {"none", "waiting", "reloading"}
  /\ clearing = "reloading" => phase = "starting"
  /\ issues \union repairs \subseteq {"no_code", "research"}
  /\ \A t \in Tabs : tab[t].step \in {"closed", "init", "arm", "areas", "preview"}
  /\ options.own # Unknown => placed
  /\ options.control => options.ack
  /\ phase = "loaded" /\ ~due /\ options.auto => options.decision # Unknown

\* "Without one, a repair issue warns until it is dismissed or a code is set":
\* a loaded entry whose hub can disarm without a code shows the issue, unless the
\* user accepted that or the entry is about to be reloaded.
NoCodeIsFlagged ==
  phase = "loaded" /\ ~due /\ runs.control /\ ~options.hash
    => "no_code" \in issues \/ options.noCode

\* "A repair issue is raised while research mode is enabled": a hub never runs
\* the research features without the issue, but on its way to a reload.  The repair
\* removes the issue after its reload, also one that a save made while it ran.
ResearchIsFlagged ==
  phase = "loaded" /\ ~due /\ clearing # "waiting" /\ runs.research => "research" \in issues

\* What the issues warn of is warned of.
RisksAreFlagged == NoCodeIsFlagged /\ ResearchIsFlagged

\* Setup moves a device the user placed only if it counts the area as its own: the
\* user picked the very area setup had set, or a save dropped the ownership.
KeptUnlessOwned ==
  [][phase = "starting" /\ phase' = "loaded" /\ kept /\ area' # area
       => area = options.own \/ stale]_optionsVars

=============================================================================
