--------------------------- MODULE ResearchProofs ---------------------------
(***************************************************************************)
(* Proofs about the parts for research and investigation: Wpan, and the    *)
(* instances Detector of DetectorTest and Probe of ArmProbe, for any       *)
(* subscriptions, spellings and candidates and any bounds.                 *)
(*                                                                         *)
(* The radio's invariant says which threads hold a line.  The detector     *)
(* test's follows the instances on the ARC session by session, and says    *)
(* what will end a running test: a timer, a stop that has not tried its    *)
(* spellings yet, or a start that will set a timer.  The probe's says      *)
(* which steps may still follow which in the plan, and what the steps      *)
(* already taken rule out.                                                 *)
(***************************************************************************)
EXTENDS MCResearch, FiniteSetTheorems, SequenceTheorems, WellFoundedInduction, TLAPS

USE WpanAssumption

-----------------------------------------------------------------------------
(* The radio poller.                                                       *)

\* A thread that is about to connect has no line, and a subscription keeps
\* none while it waits; a reply being applied is an alarm state.
LinesAreHeld ==
  /\ \A t \in Threads : pc[t] \in {"head", "login"} => line[t] = "none"
  /\ \A s \in Subs : pc[s] = "wait" => line[s] = "none"
  /\ pc[Poller] \in {"noted", "apply"} => reply \in BOOLEAN

RadioInv == TypeOK /\ LinesAreHeld

LEMMA RadioInit == Init => RadioInv
  <1> SUFFICES ASSUME Init PROVE RadioInv
    OBVIOUS
  <1> USE DEF Init
  <1>1. notes \in [Subs -> Seq(BOOLEAN)] /\ supported \subseteq Methods
    OBVIOUS
  <1>2. TypeOK
    BY <1>1 DEF TypeOK, At
  <1>3. LinesAreHeld
    BY DEF LinesAreHeld, Threads
  <1> QED
    BY <1>2, <1>3 DEF RadioInv

\* What the threads' steps do to places and lines.
LEMMA RadioThreads ==
  ASSUME RadioInv, NEW t \in Threads, Step(t) \/ LineBreaks(t)
  PROVE  RadioInv'
  <1> USE DEF RadioInv, TypeOK, LinesAreHeld, At, Goes, Line, external, polled, flags, counts,
              threads
  <1>1. CASE Enter(t)
    BY <1>1 DEF Enter
  <1>2. CASE LogIn(t)
    BY <1>2 DEF LogIn
  <1>3. CASE LoginRejected(t)
    BY <1>3 DEF LoginRejected
  <1>4. CASE Wait(t)
    <2>1. /\ pc[t] = "wait" /\ UNCHANGED <<external, polled, shown, flags, counts>>
          /\ \/ pc' = [pc EXCEPT ![t] = "over"] /\ line' = [line EXCEPT ![t] = "none"]
             \/ t = Poller /\ pc' = [pc EXCEPT ![t] = "discover"] /\ line' = line
             \/ /\ t = Poller => line[t] = "none"
                /\ pc' = [pc EXCEPT ![t] = "head"] /\ line' = line
      BY <1>4 DEF Wait
    <2>2. LinesAreHeld'
      BY <2>1 DEF Threads
    <2>3. TypeOK'
      BY <2>1
    <2> QED
      BY <2>2, <2>3
  <1>5. CASE Discover
    <2>1. styles' \in [Methods -> {"unknown", "found", "exhausted"}]
          /\ UNCHANGED <<external, line, last, shown, flags, counts>>
      BY <1>5 DEF Discover
    <2>2. CASE reply' = alarm /\ pc' = [pc EXCEPT ![Poller] = "noted"]
      BY <2>1, <2>2, WpanAssumption DEF Threads
    <2>3. CASE reply' = reply /\ pc' = [pc EXCEPT ![Poller] = "ask"]
      BY <2>1, <2>3, WpanAssumption DEF Threads
    <2> QED
      BY <1>5, <2>2, <2>3 DEF Discover
  <1>6. CASE Ask
    BY <1>6 DEF Ask, Threads
  <1>7. CASE ApplyStatus
    BY <1>7 DEF ApplyStatus, Handled, Threads
  <1>8. CASE t \in Subs /\ Notified(t)
    BY <1>8 DEF Notified
  <1>9. CASE t \in Subs /\ SubEnds(t)
    BY <1>9 DEF SubEnds
  <1>10. CASE LineBreaks(t)
    BY <1>10 DEF LineBreaks
  <1> QED
    BY <1>1, <1>2, <1>3, <1>4, <1>5, <1>6, <1>7, <1>8, <1>9, <1>10 DEF Step, Poll

\* What the ARC and the hub do leaves the threads where they are.
LEMMA RadioStep == ASSUME RadioInv, [Next]_vars PROVE RadioInv'
  <1> USE DEF RadioInv, TypeOK, LinesAreHeld, At, external, polled, flags, counts, threads
  <1>1. CASE AlarmChanges
    <2>1. notes' \in [Subs -> Seq(BOOLEAN)]
      <3>1. \A s \in Subs : Append(notes[s], ~alarm) \in Seq(BOOLEAN)
        BY AppendProperties
      <3> QED
        BY <1>1, <3>1 DEF AlarmChanges
    <2>2. alarm' \in BOOLEAN /\ changes' \in Nat
      BY <1>1 DEF AlarmChanges
    <2> QED
      BY <1>1, <2>1, <2>2 DEF AlarmChanges
  <1>2. CASE PasswordChanges
    BY <1>2 DEF PasswordChanges
  <1>3. CASE AuthFailure
    BY <1>3 DEF AuthFailure
  <1>4. CASE Stop
    BY <1>4 DEF Stop
  <1>5. CASE UNCHANGED vars
    BY <1>5 DEF vars
  <1> QED
    BY <1>1, <1>2, <1>3, <1>4, <1>5, RadioThreads DEF Next

-----------------------------------------------------------------------------
(* The detector test.                                                      *)

HasAll(tries) == \A s \in accepted : \E i \in DOMAIN tries : tries[i] = s

\* Where each session is: an automatic stop runs on its timer's thread and stops,
\* and the press at work has not used its timer.
PlacesFit ==
  /\ \A t \in Detector!Timers :
       /\ ~rpc[t].enable
       /\ rpc[t].at # "idle" <=> timer[t] = "running"
       /\ t > presses \/ (t = presses /\ rpc[Button].at # "idle") => timer[t] = "unused"
  /\ rpc[Button].at # "idle" => presses \in Detector!Timers

\* A spelling that was taken is one the firmware accepts, an accepted one is tried
\* before all are rejected, and an instance is there from the factory on.
SessionFits(r) ==
  /\ r.result = "ok" => r.tries # <<>> /\ Head(r.tries) \in accepted
  /\ r.result = "rejected" => accepted = {}
  /\ r.result = "raised" => faults > 0
  /\ r.at = "factory" => ~r.object
  /\ r.at \in {"factory", "set"} => r.result = "none" /\ HasAll(r.tries)
  /\ r.at \in {"destroy", "update"} => r.result # "none"
SessionsFit ==
  /\ \A w \in Detector!Workers : SessionFits(rpc[w])
  /\ HasAll(Styles)
  /\ on => accepted # {}

\* Of the sessions, those that hold an instance and will have it destroyed.
Holds(r)   == r.object /\ r.at \in {"set", "destroy"}
Returns(r) == Holds(r) /\ r.result # "raised"
Holding   == {w \in Detector!Workers : Holds(rpc[w])}
Returning == {w \in Detector!Workers : Returns(rpc[w])}
ObjectsAreHeld ==
  Cardinality(Holding) <= objects /\ objects <= Cardinality(Returning) + faults

\* A running test will end: by a timer, by a stop that is still to try its
\* spellings, or by the timer that a start will set.
EndIsNear ==
  on /\ faults = 0 /\ ~unloaded =>
    \/ \E t \in Detector!Timers : timer[t] = "set"
    \/ \E w \in Detector!Workers : rpc[w].at \in {"factory", "set"} /\ ~rpc[w].enable
    \/ rpc[Button].at # "idle" /\ rpc[Button].enable

DetectorInv ==
  /\ Detector!TypeOK /\ PlacesFit /\ SessionsFit
  /\ ObjectsAreHeld /\ EndIsNear

\* The order of the spellings has every accepted one, whichever is preferred.
LEMMA OrderHasAll ==
  ASSUME Detector!TypeOK, HasAll(Styles)
  PROVE  Detector!Order \in Seq(Detector!ToSet(Styles)) /\ HasAll(Detector!Order)
  <1> DEFINE S == Detector!ToSet(Styles)
  <1>1. /\ DOMAIN Styles = 1..Len(Styles) /\ Len(Styles) \in Nat /\ Styles \in Seq(S)
        /\ \A i, j \in DOMAIN Styles : Styles[i] = Styles[j] => i = j
    <2>1. /\ Styles \in Seq(S)
          /\ \A i, j \in DOMAIN Styles : Styles[i] = Styles[j] => i = j
      BY ResearchAssumption DEF Detector!ConstantsOK
    <2> HIDE DEF S
    <2> QED
      BY <2>1, LenProperties
  <1> HIDE DEF S
  <1>2. CASE preferred = <<>>
    BY <1>1, <1>2 DEF Detector!Order, S
  <1>3. ASSUME NEW h \in accepted, preferred = <<h>>
        PROVE  Detector!Order \in Seq(S) /\ HasAll(Detector!Order)
    <2>1. PICK k \in DOMAIN Styles : Styles[k] = h
      BY DEF HasAll
    <2>2. {i \in 1..Len(Styles) : Styles[i] = h} = {k}
      BY <1>1, <2>1
    <2>3. Detector!Min({k}) = k
      BY <1>1, <2>1 DEF Detector!Min
    <2> DEFINE before == SubSeq(Styles, 1, k - 1)
               after  == SubSeq(Styles, k + 1, Len(Styles))
               rest   == before \o after
    <2>4. Detector!Order = <<h>> \o rest
      <3>1. Detector!SelectInSeq(Styles, LAMBDA v : v = h) = k
        BY <2>2, <2>3 DEF Detector!SelectInSeq
      <3>2. Detector!RemoveFirst(Styles, h) = rest
        BY <1>1, <2>1, <3>1 DEF Detector!RemoveFirst, Detector!RemoveAt
      <3>3. preferred # <<>> /\ Head(preferred) = h
        BY <1>3
      <3> HIDE DEF rest
      <3> QED
        BY <1>3, <3>2, <3>3 DEF Detector!Order
    <2>5. /\ before \in Seq(S) /\ Len(before) = k - 1
          /\ \A i \in 1..(k - 1) : before[i] = Styles[i]
      <3>1. \A i \in 1..(k - 1) : Styles[i] \in S
        BY <1>1, <2>1, ElementOfSeq
      <3> QED
        BY <1>1, <2>1, <3>1, SubSeqProperties
    <2>6. /\ after \in Seq(S) /\ Len(after) = Len(Styles) - k
          /\ \A i \in 1..(Len(Styles) - k) : after[i] = Styles[k + i]
      <3>1. \A i \in (k + 1)..Len(Styles) : Styles[i] \in S
        BY <1>1, <2>1, ElementOfSeq
      <3> QED
        BY <1>1, <2>1, <3>1, SubSeqProperties
    <2> HIDE DEF before, after
    <2>7. /\ rest \in Seq(S) /\ Len(rest) = Len(Styles) - 1
          /\ \A i \in 1..(Len(Styles) - 1) :
               rest[i] = IF i < k THEN Styles[i] ELSE Styles[i + 1]
      <3>1. /\ rest \in Seq(S) /\ Len(rest) = (k - 1) + (Len(Styles) - k)
            /\ \A i \in 1..(k - 1) + (Len(Styles) - k) :
                 rest[i] = IF i <= k - 1 THEN before[i] ELSE after[i - (k - 1)]
        <4>1. /\ before \o after \in Seq(S)
              /\ Len(before \o after) = Len(before) + Len(after)
              /\ \A i \in 1..Len(before) + Len(after) :
                   (before \o after)[i] =
                     IF i <= Len(before) THEN before[i] ELSE after[i - Len(before)]
          BY <2>5, <2>6, ConcatProperties
        <4> QED
          BY <2>5, <2>6, <4>1
      <3> HIDE DEF rest
      <3>2. ASSUME NEW i \in 1..(Len(Styles) - 1)
            PROVE  rest[i] = IF i < k THEN Styles[i] ELSE Styles[i + 1]
        <4>1. CASE i < k
          BY <1>1, <2>1, <2>5, <3>1, <4>1
        <4>2. CASE i >= k
          <5>1. rest[i] = after[i - (k - 1)] /\ i - (k - 1) \in 1..(Len(Styles) - k)
            BY <1>1, <2>1, <3>1, <4>2
          <5>2. after[i - (k - 1)] = Styles[k + (i - (k - 1))] /\ k + (i - (k - 1)) = i + 1
            BY <1>1, <2>1, <2>6, <5>1
          <5> QED
            BY <1>1, <2>1, <4>2, <5>1, <5>2
        <4> QED
          BY <1>1, <2>1, <4>1, <4>2
      <3> QED
        BY <1>1, <2>1, <3>1, <3>2
    <2> HIDE DEF rest
    <2>8. /\ <<h>> \o rest \in Seq(S) /\ Len(<<h>> \o rest) = Len(Styles)
          /\ (<<h>> \o rest)[1] = h
          /\ \A i \in 2..Len(Styles) : (<<h>> \o rest)[i] = rest[i - 1]
      <3> DEFINE one == <<h>>
      <3>1. h \in S
        BY <2>1 DEF S, Detector!ToSet
      <3>2. one \in Seq(S) /\ Len(one) = 1 /\ one[1] = h
        BY <3>1
      <3> HIDE DEF one
      <3>3. /\ one \o rest \in Seq(S) /\ Len(one \o rest) = 1 + (Len(Styles) - 1)
            /\ \A i \in 1..1 + (Len(Styles) - 1) :
                 (one \o rest)[i] = IF i <= 1 THEN one[i] ELSE rest[i - 1]
        <4>1. /\ one \o rest \in Seq(S) /\ Len(one \o rest) = Len(one) + Len(rest)
              /\ \A i \in 1..Len(one) + Len(rest) :
                   (one \o rest)[i] =
                     IF i <= Len(one) THEN one[i] ELSE rest[i - Len(one)]
          BY <2>7, <3>2, ConcatProperties
        <4> QED
          BY <2>7, <3>2, <4>1
      <3>4. 1 + (Len(Styles) - 1) = Len(Styles) /\ 1 \in 1..Len(Styles)
        BY <1>1, <2>1
      <3>5. /\ one \o rest \in Seq(S) /\ Len(one \o rest) = Len(Styles)
            /\ (one \o rest)[1] = h
            /\ \A i \in 2..Len(Styles) : (one \o rest)[i] = rest[i - 1]
        BY <1>1, <3>2, <3>3, <3>4
      <3> QED
        BY <3>5 DEF one
    <2> DEFINE all == <<h>> \o rest
    <2> HIDE DEF all
    <2>9. ASSUME NEW s \in accepted
          PROVE  \E i \in DOMAIN all : all[i] = s
      <3> USE DEF all
      <3>1. PICK j \in DOMAIN Styles : Styles[j] = s
        BY DEF HasAll
      <3>2. /\ DOMAIN all = 1..Len(Styles) /\ all[1] = h
            /\ \A i \in 2..Len(Styles) : all[i] = rest[i - 1]
        BY <2>8, LenProperties
      <3> HIDE DEF all
      <3>3. CASE j = k
        BY <1>1, <2>1, <3>1, <3>2, <3>3
      <3>4. CASE j < k
        <4>1. j \in 1..(Len(Styles) - 1) /\ j + 1 \in 2..Len(Styles) /\ (j + 1) - 1 = j
          BY <1>1, <2>1, <3>1, <3>4
        <4>2. all[j + 1] = s
          BY <2>7, <3>1, <3>2, <3>4, <4>1
        <4> QED
          BY <3>2, <4>1, <4>2
      <3>5. CASE j > k
        <4>1. /\ j - 1 \in 1..(Len(Styles) - 1) /\ j \in 2..Len(Styles)
              /\ ~(j - 1 < k) /\ (j - 1) + 1 = j
          BY <1>1, <2>1, <3>1, <3>5
        <4>2. all[j] = s
          BY <2>7, <3>1, <3>2, <4>1
        <4> QED
          BY <3>1, <3>2, <4>1, <4>2
      <3> QED
        BY <1>1, <2>1, <3>1, <3>3, <3>4, <3>5
    <2> QED
      BY <2>4, <2>8, <2>9 DEF HasAll, all
  <1> QED
    BY <1>1, <1>2, <1>3 DEF Detector!TypeOK, S

USE ResearchAssumption DEF Detector!ConstantsOK, Probe!ConstantsOK

LEMMA DetectorInit == Detector!Init => DetectorInv
  <1> SUFFICES ASSUME Detector!Init PROVE DetectorInv
    OBVIOUS
  <1> USE DEF Detector!Init, Detector!Idle
  <1>1. Detector!TypeOK
    <2>1. <<>> \in Seq(Detector!ToSet(Styles))
      OBVIOUS
    <2>2. Detector!Idle \in Detector!RpcState
      BY <2>1 DEF Detector!RpcState
    <2>3. rpc \in [Detector!Workers -> Detector!RpcState]
      BY <2>2
    <2>4. objects \in Nat /\ presses \in 0..MaxPresses /\ faults \in 0..MaxFaults
      OBVIOUS
    <2>5. timer \in [Detector!Timers -> {"unused", "set", "running", "over"}]
      OBVIOUS
    <2> QED
      BY <2>3, <2>4, <2>5 DEF Detector!TypeOK
  <1>2. PlacesFit
    BY DEF PlacesFit, Detector!Workers, Detector!Timers
  <1>3. HasAll(Styles)
    BY DEF HasAll, Detector!ToSet
  <1>4. SessionsFit
    BY <1>3 DEF SessionsFit, SessionFits
  <1>5. Holding = {} /\ Returning = {}
    BY DEF Holding, Returning, Holds, Returns
  <1>6. ObjectsAreHeld
    BY <1>5, FS_EmptySet DEF ObjectsAreHeld
  <1>7. EndIsNear
    BY DEF EndIsNear
  <1> QED
    BY <1>1, <1>2, <1>4, <1>6, <1>7 DEF DetectorInv

\* Every step of the detector test is one of these, by the worker that takes it.
LEMMA DetectorSteps ==
  ASSUME [Detector!Next]_detector
  PROVE  \/ Detector!PressStart \/ Detector!PressStop \/ Detector!PressDone
         \/ Detector!CancelTimers \/ UNCHANGED detector
         \/ \E w \in Detector!Workers :
              \/ Detector!Factory(w) \/ Detector!SetParam(w) \/ Detector!SetBreaks(w)
              \/ Detector!Destroy(w)
         \/ \E t \in Detector!Timers : Detector!Fires(t) \/ Detector!AutoStopDone(t)
  BY DEF Detector!Next, Detector!Session

\* A step moves one worker's session at most, and this is where it goes.
Moves(w, v) == rpc' = [rpc EXCEPT ![w] = v]
Ok(r) == r.tries # <<>> /\ Head(r.tries) \in accepted

LEMMA FactoryMoves ==
  ASSUME Detector!TypeOK, NEW w \in Detector!Workers, Detector!Factory(w)
  PROVE  \/ /\ Moves(w, [rpc[w] EXCEPT !.at = "set", !.object = TRUE])
            /\ objects' = objects + 1 /\ faults' = faults
         \/ /\ Moves(w, [rpc[w] EXCEPT !.at = "destroy", !.result = "raised"])
            /\ objects' = objects /\ faults' = faults + 1 /\ faults < MaxFaults
  BY DEF Detector!Factory, Detector!Raises, Detector!TypeOK, Detector!RpcState, Moves

LEMMA SetMoves ==
  ASSUME Detector!TypeOK, NEW w \in Detector!Workers, Detector!SetParam(w)
  PROVE  \/ /\ Ok(rpc[w]) /\ on' = rpc[w].enable
            /\ Moves(w, [rpc[w] EXCEPT !.at = "destroy", !.result = "ok"])
         \/ /\ rpc[w].tries = <<>> /\ on' = on
            /\ Moves(w, [rpc[w] EXCEPT !.at = "destroy", !.result = "rejected"])
         \/ /\ rpc[w].tries # <<>> /\ Head(rpc[w].tries) \notin accepted /\ on' = on
            /\ Moves(w, [rpc[w] EXCEPT !.tries = Tail(rpc[w].tries)])
  BY DEF Detector!SetParam, Moves, Ok

LEMMA BreakMoves ==
  ASSUME Detector!TypeOK, NEW w \in Detector!Workers, Detector!SetBreaks(w)
  PROVE  /\ Moves(w, [rpc[w] EXCEPT !.at = "destroy", !.result = "raised"])
         /\ faults' = faults + 1 /\ faults < MaxFaults
         /\ on' = on \/ (Ok(rpc[w]) /\ on' = rpc[w].enable)
  BY DEF Detector!SetBreaks, Detector!Raises, Detector!TypeOK, Detector!RpcState, Moves, Ok

LEMMA DestroyMoves ==
  ASSUME Detector!TypeOK, NEW w \in Detector!Workers, Detector!Destroy(w)
  PROVE  /\ Moves(w, [rpc[w] EXCEPT !.at = "update"])
         /\ ~rpc[w].object => objects' = objects
         /\ rpc[w].object => objects' \in {objects, objects - 1}
         /\ rpc[w].object /\ rpc[w].result # "raised" => objects' = objects - 1
  BY DEF Detector!Destroy, Detector!Goes, Detector!TypeOK, Detector!RpcState, Moves

\* A session as it begins: its spellings have every accepted one.
Fresh(w, enable) ==
  Moves(w, [at |-> "factory", enable |-> enable, tries |-> Detector!Order,
            object |-> FALSE, result |-> "none"])

LEMMA BeginMoves ==
  /\ Detector!PressStart => Fresh(Button, TRUE)
  /\ Detector!PressStop => Fresh(Button, FALSE)
  /\ \A t \in Detector!Timers : Detector!Fires(t) => Fresh(t, FALSE)
  BY DEF Detector!PressStart, Detector!PressStop, Detector!Fires, Detector!Begun, Fresh, Moves

\* Moving a worker's session moves the worker in and out of a set of workers.
LEMMA CountMoves ==
  ASSUME NEW S, IsFiniteSet(S), NEW A \in SUBSET S, NEW B \in SUBSET S, NEW w \in S,
         A \ {w} = B \ {w}
  PROVE  /\ Cardinality(A) \in Nat /\ Cardinality(B) \in Nat
         /\ w \in A => Cardinality(A) > 0
         /\ (w \in A <=> w \in B) => Cardinality(B) = Cardinality(A)
         /\ w \in A /\ w \notin B => Cardinality(B) = Cardinality(A) - 1
         /\ w \notin A /\ w \in B => Cardinality(B) = Cardinality(A) + 1
  <1>1. IsFiniteSet(A) /\ IsFiniteSet(B)
    BY FS_Subset
  <1>2. Cardinality(A) \in Nat /\ Cardinality(B) \in Nat /\ Cardinality(A \ {w}) \in Nat
    BY <1>1, FS_CardinalityType, FS_RemoveElement
  <1>3. /\ Cardinality(A \ {w}) = IF w \in A THEN Cardinality(A) - 1 ELSE Cardinality(A)
        /\ Cardinality(B \ {w}) = IF w \in B THEN Cardinality(B) - 1 ELSE Cardinality(B)
    BY <1>1, FS_RemoveElement
  <1> DEFINE a == Cardinality(A)
             b == Cardinality(B)
             rest == Cardinality(A \ {w})
  <1>4. /\ a \in Nat /\ b \in Nat /\ rest \in Nat
        /\ rest = (IF w \in A THEN a - 1 ELSE a) /\ rest = (IF w \in B THEN b - 1 ELSE b)
    BY <1>2, <1>3
  <1> HIDE DEF a, b, rest
  <1>5. /\ a \in Nat /\ b \in Nat
        /\ w \in A => a > 0
        /\ (w \in A <=> w \in B) => b = a
        /\ w \in A /\ w \notin B => b = a - 1
        /\ w \notin A /\ w \in B => b = a + 1
    BY <1>4
  <1> QED
    BY <1>5 DEF a, b

LEMMA WorkersAreFinite == IsFiniteSet(Detector!Workers)
  <1>1. IsFiniteSet(Detector!Timers)
    BY FS_Interval DEF Detector!Timers
  <1>2. IsFiniteSet({Button})
    BY FS_Singleton
  <1> QED
    BY <1>1, <1>2, FS_Union DEF Detector!Workers

LEMMA HoldersMove ==
  ASSUME Detector!TypeOK, NEW w \in Detector!Workers, NEW v, Moves(w, v)
  PROVE  /\ Cardinality(Holding) \in Nat /\ Cardinality(Holding)' \in Nat
         /\ Cardinality(Returning) \in Nat /\ Cardinality(Returning)' \in Nat
         /\ Holds(rpc[w]) => Cardinality(Holding) > 0
         /\ (Holds(rpc[w]) <=> Holds(v)) => Cardinality(Holding)' = Cardinality(Holding)
         /\ Holds(rpc[w]) /\ ~Holds(v) => Cardinality(Holding)' = Cardinality(Holding) - 1
         /\ ~Holds(rpc[w]) /\ Holds(v) => Cardinality(Holding)' = Cardinality(Holding) + 1
         /\ (Returns(rpc[w]) <=> Returns(v)) => Cardinality(Returning)' = Cardinality(Returning)
         /\ Returns(rpc[w]) /\ ~Returns(v) =>
              Cardinality(Returning)' = Cardinality(Returning) - 1
         /\ ~Returns(rpc[w]) /\ Returns(v) =>
              Cardinality(Returning)' = Cardinality(Returning) + 1
  <1> DEFINE W == Detector!Workers
             A == Holding
             B == {x \in W : Holds(rpc'[x])}
             C == Returning
             D == {x \in W : Returns(rpc'[x])}
  <1>1. Holding' = B /\ Returning' = D
    BY DEF Holding, Returning
  <1>2. /\ rpc'[w] = v
        /\ \A x \in W \ {w} : rpc'[x] = rpc[x]
    BY DEF Moves, Detector!TypeOK
  <1>3. /\ A \in SUBSET W /\ B \in SUBSET W /\ A \ {w} = B \ {w}
        /\ C \in SUBSET W /\ D \in SUBSET W /\ C \ {w} = D \ {w}
        /\ w \in A <=> Holds(rpc[w])
        /\ w \in B <=> Holds(v)
        /\ w \in C <=> Returns(rpc[w])
        /\ w \in D <=> Returns(v)
    BY <1>2 DEF Holding, Returning
  <1>4. IsFiniteSet(W)
    BY WorkersAreFinite
  <1> HIDE DEF W, A, B, C, D
  <1>w. w \in W
    BY DEF W
  <1>5. /\ Cardinality(A) \in Nat /\ Cardinality(B) \in Nat
        /\ w \in A => Cardinality(A) > 0
        /\ (w \in A <=> w \in B) => Cardinality(B) = Cardinality(A)
        /\ w \in A /\ w \notin B => Cardinality(B) = Cardinality(A) - 1
        /\ w \notin A /\ w \in B => Cardinality(B) = Cardinality(A) + 1
    BY <1>3, <1>4, <1>w, CountMoves
  <1>6. /\ Cardinality(C) \in Nat /\ Cardinality(D) \in Nat
        /\ (w \in C <=> w \in D) => Cardinality(D) = Cardinality(C)
        /\ w \in C /\ w \notin D => Cardinality(D) = Cardinality(C) - 1
        /\ w \notin C /\ w \in D => Cardinality(D) = Cardinality(C) + 1
    BY <1>3, <1>4, <1>w, CountMoves
  <1>7. /\ Cardinality(Holding) = Cardinality(A) /\ Cardinality(Holding)' = Cardinality(B)
        /\ Cardinality(Returning) = Cardinality(C) /\ Cardinality(Returning)' = Cardinality(D)
    BY <1>1 DEF A, C
  <1> QED
    BY <1>3, <1>5, <1>6, <1>7

\* A session that goes on stays where its timer or its press is.
LEMMA PlacesKept ==
  ASSUME Detector!TypeOK, PlacesFit, NEW w \in Detector!Workers,
         NEW v \in Detector!RpcState, Moves(w, v),
         rpc[w].at # "idle", v.at # "idle", v.enable = rpc[w].enable,
         UNCHANGED <<timer, presses>>
  PROVE  PlacesFit'
  <1>1. /\ rpc'[w] = v
        /\ \A x \in Detector!Workers : x # w => rpc'[x] = rpc[x]
    BY DEF Moves, Detector!TypeOK
  <1>2. \A x \in Detector!Workers :
          (rpc'[x].at # "idle" <=> rpc[x].at # "idle") /\ rpc'[x].enable = rpc[x].enable
    BY <1>1
  <1> QED
    BY <1>2 DEF PlacesFit, Detector!Workers

\* A session at work takes a step of its own.
LEMMA SessionStep ==
  ASSUME DetectorInv, NEW w \in Detector!Workers,
         \/ Detector!Factory(w) \/ Detector!SetParam(w)
         \/ Detector!SetBreaks(w) \/ Detector!Destroy(w)
  PROVE  DetectorInv'
  <1>r. rpc[w] \in Detector!RpcState /\ SessionFits(rpc[w])
    BY DEF DetectorInv, Detector!TypeOK, SessionsFit
  <1>s. /\ UNCHANGED <<timer, registered, unloaded, presses, enabled, preferred, accepted>>
        /\ rpc[w].at \in {"factory", "set", "destroy"}
        /\ faults' \in 0..MaxFaults /\ faults <= faults'
        /\ faults \in 0..MaxFaults /\ objects \in Nat
    BY DEF DetectorInv, Detector!TypeOK, Detector!Factory, Detector!SetParam,
       Detector!SetBreaks, Detector!Destroy, Detector!At, Detector!belief, Detector!timing,
       Detector!counts
  <1>1. PICK v \in Detector!RpcState :
          /\ Moves(w, v) /\ v.at # "idle" /\ v.enable = rpc[w].enable
          /\ SessionFits(v)'
          /\ objects' \in Nat
          /\ Cardinality(Holding)' <= objects'
          /\ objects' <= Cardinality(Returning)' + faults'
          /\ on' \in BOOLEAN /\ (on' => accepted # {})
          /\ on' /\ faults' = 0 => on \/ rpc[w].enable
          /\ on' /\ faults' = 0 /\ rpc[w].at \in {"factory", "set"} /\ ~rpc[w].enable =>
               v.at \in {"factory", "set"}
    <2>h. ASSUME NEW v, Moves(w, v)
          PROVE  /\ Cardinality(Holding) \in Nat /\ Cardinality(Holding)' \in Nat
                 /\ Cardinality(Returning) \in Nat /\ Cardinality(Returning)' \in Nat
                 /\ Holds(rpc[w]) => Cardinality(Holding) > 0
                 /\ (Holds(rpc[w]) <=> Holds(v)) =>
                      Cardinality(Holding)' = Cardinality(Holding)
                 /\ Holds(rpc[w]) /\ ~Holds(v) =>
                      Cardinality(Holding)' = Cardinality(Holding) - 1
                 /\ ~Holds(rpc[w]) /\ Holds(v) =>
                      Cardinality(Holding)' = Cardinality(Holding) + 1
                 /\ (Returns(rpc[w]) <=> Returns(v)) =>
                      Cardinality(Returning)' = Cardinality(Returning)
                 /\ Returns(rpc[w]) /\ ~Returns(v) =>
                      Cardinality(Returning)' = Cardinality(Returning) - 1
                 /\ ~Returns(rpc[w]) /\ Returns(v) =>
                      Cardinality(Returning)' = Cardinality(Returning) + 1
      BY <2>h, HoldersMove DEF DetectorInv
    <2>o. /\ Cardinality(Holding) <= objects
          /\ objects <= Cardinality(Returning) + faults
          /\ on \in BOOLEAN /\ (on => accepted # {})
      <3>1. Detector!TypeOK /\ ObjectsAreHeld /\ SessionsFit
        BY DEF DetectorInv
      <3>2. Cardinality(Holding) <= objects /\ objects <= Cardinality(Returning) + faults
        BY <3>1 DEF ObjectsAreHeld
      <3>3. on \in BOOLEAN
        BY <3>1 DEF Detector!TypeOK
      <3>4. on => accepted # {}
        BY <3>1 DEF SessionsFit
      <3> QED
        BY <3>2, <3>3, <3>4
    <2>n. objects \in Nat /\ faults \in Nat
      BY <1>s
    <2>1. CASE Detector!Factory(w)
      <3>1. rpc[w].at = "factory" /\ on' = on
        BY <2>1 DEF Detector!Factory, Detector!At
      <3>2. CASE /\ Moves(w, [rpc[w] EXCEPT !.at = "set", !.object = TRUE])
                 /\ objects' = objects + 1 /\ faults' = faults
        <4>1. PICK v \in Detector!RpcState :
                 v = [rpc[w] EXCEPT !.at = "set", !.object = TRUE]
          BY <1>r DEF Detector!RpcState
        <4>2. SessionFits(v)'
          BY <1>r, <1>s, <3>1, <4>1 DEF SessionFits, HasAll, Detector!RpcState
        <4>3. ~Holds(rpc[w]) /\ ~Returns(rpc[w]) /\ Holds(v) /\ Returns(v)
          BY <1>r, <3>1, <4>1 DEF SessionFits, Holds, Returns, Detector!RpcState
        <4>4. Moves(w, v)
          BY <3>2, <4>1
        <4>5. v.at = "set" /\ v.enable = rpc[w].enable
          BY <1>r, <4>1 DEF Detector!RpcState
        <4>6. Cardinality(Holding)' <= objects' /\ objects' <= Cardinality(Returning)' + faults'
          <5>1. /\ Cardinality(Holding)' = Cardinality(Holding) + 1
                /\ Cardinality(Returning)' = Cardinality(Returning) + 1
                /\ Cardinality(Holding) \in Nat /\ Cardinality(Returning) \in Nat
            BY <2>h, <4>3, <4>4
          <5> QED
            BY <2>n, <2>o, <3>2, <5>1
        <4> QED
          BY <1>s, <2>o, <3>1, <3>2, <4>2, <4>4, <4>5, <4>6
      <3>3. CASE /\ Moves(w, [rpc[w] EXCEPT !.at = "destroy", !.result = "raised"])
                 /\ objects' = objects /\ faults' = faults + 1 /\ faults < MaxFaults
        <4>1. PICK v \in Detector!RpcState :
                 v = [rpc[w] EXCEPT !.at = "destroy", !.result = "raised"]
          BY <1>r DEF Detector!RpcState
        <4>2. SessionFits(v)'
          BY <1>r, <1>s, <3>1, <3>3, <4>1 DEF SessionFits, HasAll, Detector!RpcState
        <4>3. ~Holds(rpc[w]) /\ ~Returns(rpc[w]) /\ ~Holds(v) /\ ~Returns(v)
          BY <1>r, <3>1, <4>1 DEF SessionFits, Holds, Returns, Detector!RpcState
        <4>4. Moves(w, v)
          BY <3>3, <4>1
        <4>5. v.at = "destroy" /\ v.enable = rpc[w].enable
          BY <1>r, <4>1 DEF Detector!RpcState
        <4>6. Cardinality(Holding)' <= objects' /\ objects' <= Cardinality(Returning)' + faults'
          <5>1. /\ Cardinality(Holding)' = Cardinality(Holding)
                /\ Cardinality(Returning)' = Cardinality(Returning)
                /\ Cardinality(Holding) \in Nat /\ Cardinality(Returning) \in Nat
            BY <2>h, <4>3, <4>4
          <5> QED
            BY <2>n, <2>o, <3>3, <5>1
        <4> QED
          BY <1>s, <2>o, <3>1, <3>3, <4>2, <4>4, <4>5, <4>6
      <3> QED
        BY <2>1, <3>2, <3>3, FactoryMoves DEF DetectorInv
    <2>2. CASE Detector!SetParam(w)
      <3>1. rpc[w].at = "set" /\ objects' = objects /\ faults' = faults
        BY <2>2 DEF Detector!SetParam, Detector!At, Detector!counts
      <3>2. rpc[w].result = "none" /\ HasAll(rpc[w].tries)
        BY <1>r, <3>1 DEF SessionFits
      <3>3. CASE /\ Ok(rpc[w]) /\ on' = rpc[w].enable
                 /\ Moves(w, [rpc[w] EXCEPT !.at = "destroy", !.result = "ok"])
        <4>1. PICK v \in Detector!RpcState :
                 v = [rpc[w] EXCEPT !.at = "destroy", !.result = "ok"]
          BY <1>r DEF Detector!RpcState
        <4>2. SessionFits(v)'
          BY <1>r, <1>s, <3>3, <4>1 DEF SessionFits, HasAll, Detector!RpcState, Ok
        <4>3. (Holds(rpc[w]) <=> Holds(v)) /\ (Returns(rpc[w]) <=> Returns(v))
          BY <1>r, <3>1, <3>2, <4>1 DEF Holds, Returns, Detector!RpcState
        <4>4. Moves(w, v)
          BY <3>3, <4>1
        <4>5. v.at = "destroy" /\ v.enable = rpc[w].enable /\ accepted # {}
              /\ rpc[w].enable \in BOOLEAN
          BY <1>r, <3>3, <4>1 DEF Detector!RpcState, Ok
        <4>6. Cardinality(Holding)' <= objects' /\ objects' <= Cardinality(Returning)' + faults'
          <5>1. /\ Cardinality(Holding)' = Cardinality(Holding)
                /\ Cardinality(Returning)' = Cardinality(Returning)
                /\ Cardinality(Holding) \in Nat /\ Cardinality(Returning) \in Nat
            BY <2>h, <4>3, <4>4
          <5> QED
            BY <2>n, <2>o, <3>1, <5>1
        <4> QED
          BY <1>s, <2>o, <3>1, <3>3, <4>2, <4>4, <4>5, <4>6
      <3>4. CASE /\ rpc[w].tries = <<>> /\ on' = on
                 /\ Moves(w, [rpc[w] EXCEPT !.at = "destroy", !.result = "rejected"])
        <4>1. PICK v \in Detector!RpcState :
                 v = [rpc[w] EXCEPT !.at = "destroy", !.result = "rejected"]
          BY <1>r DEF Detector!RpcState
        <4>0. accepted = {}
          BY <3>2, <3>4 DEF HasAll
        <4>2. SessionFits(v)'
          BY <1>r, <1>s, <4>0, <4>1 DEF SessionFits, HasAll, Detector!RpcState
        <4>3. (Holds(rpc[w]) <=> Holds(v)) /\ (Returns(rpc[w]) <=> Returns(v))
          BY <1>r, <3>1, <3>2, <4>1 DEF Holds, Returns, Detector!RpcState
        <4>4. Moves(w, v)
          BY <3>4, <4>1
        <4>5. v.at = "destroy" /\ v.enable = rpc[w].enable
          BY <1>r, <4>1 DEF Detector!RpcState
        <4>6. Cardinality(Holding)' <= objects' /\ objects' <= Cardinality(Returning)' + faults'
          <5>1. /\ Cardinality(Holding)' = Cardinality(Holding)
                /\ Cardinality(Returning)' = Cardinality(Returning)
                /\ Cardinality(Holding) \in Nat /\ Cardinality(Returning) \in Nat
            BY <2>h, <4>3, <4>4
          <5> QED
            BY <2>n, <2>o, <3>1, <5>1
        <4> QED
          BY <1>s, <2>o, <3>1, <3>4, <4>0, <4>2, <4>4, <4>5, <4>6
      <3>5. CASE /\ rpc[w].tries # <<>> /\ Head(rpc[w].tries) \notin accepted /\ on' = on
                 /\ Moves(w, [rpc[w] EXCEPT !.tries = Tail(rpc[w].tries)])
        <4> DEFINE s == rpc[w].tries
        <4>1. /\ s \in Seq(Detector!ToSet(Styles)) /\ s # <<>>
              /\ Head(s) \notin accepted
          BY <1>r, <3>5 DEF Detector!RpcState
        <4>2. HasAll(s)
          BY <3>2
        <4> HIDE DEF s
        <4>3. /\ Tail(s) \in Seq(Detector!ToSet(Styles))
              /\ Len(Tail(s)) = Len(s) - 1 /\ Head(s) = s[1]
              /\ \A i \in 1..Len(s) - 1 : Tail(s)[i] = s[i + 1]
              /\ DOMAIN s = 1..Len(s) /\ DOMAIN Tail(s) = 1..Len(Tail(s)) /\ Len(s) \in Nat
          BY <4>1, HeadTailProperties, LenProperties
        <4>4. ASSUME NEW a \in accepted PROVE \E i \in DOMAIN Tail(s) : Tail(s)[i] = a
          <5>1. PICK i \in DOMAIN s : s[i] = a
            BY <4>2 DEF HasAll
          <5>2. i # 1
            BY <4>1, <4>3, <5>1
          <5>3. i - 1 \in 1..Len(s) - 1 /\ (i - 1) + 1 = i
            BY <4>3, <5>1, <5>2
          <5> QED
            BY <4>3, <5>1, <5>3
        <4>5. PICK v \in Detector!RpcState : v = [rpc[w] EXCEPT !.tries = Tail(s)]
          BY <1>r, <4>3 DEF Detector!RpcState
        <4>6. v.tries = Tail(s) /\ v.at = "set" /\ v.enable = rpc[w].enable
              /\ v.result = "none" /\ v.object = rpc[w].object
          BY <1>r, <3>1, <3>2, <4>5 DEF Detector!RpcState
        <4>7. SessionFits(v)'
          <5>1. HasAll(v.tries)'
            BY <1>s, <4>4, <4>6 DEF HasAll
          <5> QED
            BY <4>6, <5>1 DEF SessionFits
        <4>8. (Holds(rpc[w]) <=> Holds(v)) /\ (Returns(rpc[w]) <=> Returns(v))
          BY <3>1, <3>2, <4>6 DEF Holds, Returns
        <4>9. Moves(w, v)
          BY <3>5, <4>5 DEF s
        <4>10. Cardinality(Holding)' <= objects' /\ objects' <= Cardinality(Returning)' + faults'
          <5>1. /\ Cardinality(Holding)' = Cardinality(Holding)
                /\ Cardinality(Returning)' = Cardinality(Returning)
                /\ Cardinality(Holding) \in Nat /\ Cardinality(Returning) \in Nat
            BY <2>h, <4>8, <4>9
          <5> QED
            BY <2>n, <2>o, <3>1, <5>1
        <4> QED
          BY <1>s, <2>o, <3>1, <3>5, <4>6, <4>7, <4>9, <4>10
      <3> QED
        BY <2>2, <3>3, <3>4, <3>5, SetMoves DEF DetectorInv
    <2>3. CASE Detector!SetBreaks(w)
      <3>1. rpc[w].at = "set" /\ objects' = objects
        BY <2>3 DEF Detector!SetBreaks, Detector!At
      <3>2. /\ Moves(w, [rpc[w] EXCEPT !.at = "destroy", !.result = "raised"])
            /\ faults' = faults + 1 /\ faults < MaxFaults
            /\ on' = on \/ (Ok(rpc[w]) /\ on' = rpc[w].enable)
        BY <2>3, BreakMoves DEF DetectorInv
      <3>3. PICK v \in Detector!RpcState :
               v = [rpc[w] EXCEPT !.at = "destroy", !.result = "raised"]
        BY <1>r DEF Detector!RpcState
      <3>4. SessionFits(v)'
        BY <1>r, <1>s, <3>2, <3>3 DEF SessionFits, HasAll, Detector!RpcState
      <3>5. (Holds(rpc[w]) <=> Holds(v)) /\ ~Returns(v)
        BY <1>r, <3>1, <3>3 DEF Holds, Returns, Detector!RpcState
      <3>6. Moves(w, v)
        BY <3>2, <3>3
      <3>7. /\ v.at = "destroy" /\ v.enable = rpc[w].enable /\ rpc[w].enable \in BOOLEAN
            /\ on' # on => accepted # {}
        BY <1>r, <3>2, <3>3 DEF Detector!RpcState, Ok
      <3>8. Cardinality(Holding)' <= objects' /\ objects' <= Cardinality(Returning)' + faults'
        <4>1. /\ Cardinality(Holding)' = Cardinality(Holding)
              /\ Cardinality(Returning)' \in Nat
              /\ Cardinality(Returning)' >= Cardinality(Returning) - 1
              /\ Cardinality(Holding) \in Nat /\ Cardinality(Returning) \in Nat
          <5>1. \/ Cardinality(Returning)' = Cardinality(Returning)
                \/ Cardinality(Returning)' = Cardinality(Returning) - 1
            BY <2>h, <3>5, <3>6
          <5>2. /\ Cardinality(Holding)' = Cardinality(Holding)
                /\ Cardinality(Returning)' \in Nat
                /\ Cardinality(Holding) \in Nat /\ Cardinality(Returning) \in Nat
            BY <2>h, <3>5, <3>6
          <5> QED
            BY <5>1, <5>2
        <4> QED
          BY <2>n, <2>o, <3>1, <3>2, <4>1
      <3>9. on' \in BOOLEAN /\ (on' => accepted # {}) /\ faults' # 0
        BY <1>s, <2>o, <3>2, <3>7
      <3> QED
        BY <1>s, <2>o, <3>1, <3>4, <3>6, <3>7, <3>8, <3>9
    <2>4. CASE Detector!Destroy(w)
      <3>1. rpc[w].at = "destroy" /\ on' = on /\ faults' = faults
        BY <2>4 DEF Detector!Destroy, Detector!At, Detector!counts
      <3>2. /\ Moves(w, [rpc[w] EXCEPT !.at = "update"])
            /\ ~rpc[w].object => objects' = objects
            /\ rpc[w].object => objects' \in {objects, objects - 1}
            /\ rpc[w].object /\ rpc[w].result # "raised" => objects' = objects - 1
        BY <2>4, DestroyMoves DEF DetectorInv
      <3>3. PICK v \in Detector!RpcState : v = [rpc[w] EXCEPT !.at = "update"]
        BY <1>r DEF Detector!RpcState
      <3>4. SessionFits(v)'
        BY <1>r, <1>s, <3>1, <3>3 DEF SessionFits, HasAll, Detector!RpcState
      <3>5. /\ ~Holds(v) /\ ~Returns(v)
            /\ Holds(rpc[w]) <=> rpc[w].object
            /\ Returns(rpc[w]) <=> rpc[w].object /\ rpc[w].result # "raised"
        BY <1>r, <3>1, <3>3 DEF Holds, Returns, Detector!RpcState
      <3>6. Moves(w, v)
        BY <3>2, <3>3
      <3>7. v.at = "update" /\ v.enable = rpc[w].enable
        BY <1>r, <3>3 DEF Detector!RpcState
      <3>8. /\ Cardinality(Holding)' <= objects' /\ objects' <= Cardinality(Returning)' + faults'
            /\ objects' \in Nat
        <4>1. CASE ~rpc[w].object
          <5>1. /\ Cardinality(Holding)' = Cardinality(Holding)
                /\ Cardinality(Returning)' = Cardinality(Returning)
                /\ Cardinality(Holding)' \in Nat /\ Cardinality(Returning)' \in Nat
                /\ Cardinality(Holding) \in Nat /\ Cardinality(Returning) \in Nat
            BY <2>h, <3>5, <3>6, <4>1
          <5> QED
            BY <2>n, <2>o, <3>1, <3>2, <4>1, <5>1
        <4>2. CASE rpc[w].object /\ rpc[w].result = "raised"
          <5>1. /\ Cardinality(Holding)' = Cardinality(Holding) - 1
                /\ Cardinality(Returning)' = Cardinality(Returning)
                /\ Cardinality(Holding)' \in Nat /\ Cardinality(Returning)' \in Nat
                /\ Cardinality(Holding) \in Nat /\ Cardinality(Returning) \in Nat
            BY <2>h, <3>5, <3>6, <4>2
          <5> QED
            BY <2>n, <2>o, <3>1, <3>2, <4>2, <5>1
        <4>3. CASE rpc[w].object /\ rpc[w].result # "raised"
          <5>1. /\ Cardinality(Holding)' = Cardinality(Holding) - 1
                /\ Cardinality(Returning)' = Cardinality(Returning) - 1
                /\ Cardinality(Holding)' \in Nat /\ Cardinality(Returning)' \in Nat
                /\ Cardinality(Holding) \in Nat /\ Cardinality(Returning) \in Nat
            BY <2>h, <3>5, <3>6, <4>3
          <5> QED
            BY <2>n, <2>o, <3>1, <3>2, <4>3, <5>1
        <4> QED
          BY <4>1, <4>2, <4>3
      <3> QED
        BY <1>s, <2>o, <3>1, <3>4, <3>6, <3>7, <3>8
    <2> QED
      BY <2>1, <2>2, <2>3, <2>4
  <1>2. /\ rpc' = [rpc EXCEPT ![w] = v] /\ rpc'[w] = v
        /\ \A x \in Detector!Workers : x # w => rpc'[x] = rpc[x]
        /\ rpc' \in [Detector!Workers -> Detector!RpcState]
    BY <1>1 DEF Moves, DetectorInv, Detector!TypeOK
  <1>3. Detector!TypeOK'
    BY <1>1, <1>2, <1>s DEF DetectorInv, Detector!TypeOK
  <1>4. PlacesFit'
    BY <1>1, <1>s, PlacesKept DEF DetectorInv
  <1>5. SessionsFit'
    <2>1. ASSUME NEW x \in Detector!Workers PROVE SessionFits(rpc[x])'
      <3>1. CASE x = w
        BY <1>1, <1>2, <3>1
      <3>2. CASE x # w
        BY <1>2, <1>s, <3>2 DEF DetectorInv, SessionsFit, SessionFits, HasAll
      <3> QED
        BY <3>1, <3>2
    <2>2. HasAll(Styles)'
      BY <1>s DEF DetectorInv, SessionsFit, HasAll
    <2> QED
      BY <1>1, <1>s, <2>1, <2>2 DEF SessionsFit
  <1>6. ObjectsAreHeld'
    BY <1>1 DEF ObjectsAreHeld
  <1>7. EndIsNear'
    <2> SUFFICES ASSUME on', faults' = 0, ~unloaded'
                 PROVE  \/ \E t \in Detector!Timers : timer'[t] = "set"
                        \/ \E x \in Detector!Workers :
                             rpc'[x].at \in {"factory", "set"} /\ ~rpc'[x].enable
                        \/ rpc'[Button].at # "idle" /\ rpc'[Button].enable
      BY DEF EndIsNear
    <2>1. \A x \in Detector!Workers : rpc[x].at # "idle" => rpc'[x].at # "idle"
      BY <1>1, <1>2
    <2>2. \A x \in Detector!Workers : rpc'[x].enable = rpc[x].enable
      BY <1>1, <1>2
    <2>3. faults = 0
      BY <1>s
    <2>4. Button \in Detector!Workers
      BY DEF Detector!Workers
    <2>5. CASE on
      <3>1. CASE \E t \in Detector!Timers : timer[t] = "set"
        BY <1>s, <3>1
      <3>2. CASE rpc[Button].at # "idle" /\ rpc[Button].enable
        BY <2>1, <2>2, <2>4, <3>2
      <3>3. ASSUME NEW x \in Detector!Workers,
                   rpc[x].at \in {"factory", "set"} /\ ~rpc[x].enable
            PROVE  rpc'[x].at \in {"factory", "set"}
        <4>1. CASE x = w
          BY <1>1, <1>2, <3>3, <4>1
        <4>2. CASE x # w
          BY <1>2, <3>3, <4>2
        <4> QED
          BY <4>1, <4>2
      <3> QED
        BY <1>s, <2>2, <2>3, <2>5, <3>1, <3>2, <3>3 DEF DetectorInv, EndIsNear
    <2>6. CASE ~on
      <3>1. rpc[w].enable
        BY <1>1, <2>6
      <3>2. w = Button
        BY <3>1 DEF DetectorInv, PlacesFit, Detector!Workers
      <3> QED
        BY <1>1, <1>2, <3>1, <3>2
    <2> QED
      BY <2>5, <2>6
  <1> QED
    BY <1>3, <1>4, <1>5, <1>6, <1>7 DEF DetectorInv

\* A press or a timer begins a session, with no instance and every spelling to try.
LEMMA BeginStep ==
  ASSUME DetectorInv, NEW w \in Detector!Workers, NEW e \in BOOLEAN, Fresh(w, e),
         rpc[w].at = "idle", UNCHANGED <<on, objects, accepted, enabled, preferred, unloaded, faults>>
  PROVE  /\ rpc' \in [Detector!Workers -> Detector!RpcState]
         /\ rpc'[w].at = "factory" /\ rpc'[w].enable = e
         /\ \A x \in Detector!Workers : x # w => rpc'[x] = rpc[x]
         /\ SessionsFit' /\ ObjectsAreHeld'
  <1>1. /\ Detector!Order \in Seq(Detector!ToSet(Styles)) /\ HasAll(Detector!Order)
    BY OrderHasAll DEF DetectorInv, SessionsFit
  <1>2. PICK v \in Detector!RpcState :
          v = [at |-> "factory", enable |-> e, tries |-> Detector!Order,
               object |-> FALSE, result |-> "none"]
    BY <1>1 DEF Detector!RpcState
  <1>3. Moves(w, v)
    BY <1>2 DEF Fresh
  <1>4. /\ rpc' \in [Detector!Workers -> Detector!RpcState] /\ rpc'[w] = v
        /\ \A x \in Detector!Workers : x # w => rpc'[x] = rpc[x]
    BY <1>3 DEF Moves, DetectorInv, Detector!TypeOK
  <1>5. SessionFits(v)'
    <2>1. HasAll(v.tries)'
      BY <1>1, <1>2 DEF HasAll
    <2> QED
      BY <1>2, <2>1 DEF SessionFits
  <1>6. SessionsFit'
    <2>1. ASSUME NEW x \in Detector!Workers PROVE SessionFits(rpc[x])'
      <3>1. CASE x = w
        BY <1>4, <1>5, <3>1
      <3>2. CASE x # w
        BY <1>4, <3>2 DEF DetectorInv, SessionsFit, SessionFits, HasAll
      <3> QED
        BY <3>1, <3>2
    <2> QED
      BY <2>1 DEF DetectorInv, SessionsFit, HasAll
  <1>7. ObjectsAreHeld'
    <2>1. ~Holds(v) /\ ~Returns(v) /\ ~Holds(rpc[w]) /\ ~Returns(rpc[w])
      BY <1>2 DEF Holds, Returns
    <2>2. Cardinality(Holding)' = Cardinality(Holding)
          /\ Cardinality(Returning)' = Cardinality(Returning)
      BY <1>3, <2>1, HoldersMove DEF DetectorInv
    <2> QED
      BY <2>2 DEF DetectorInv, ObjectsAreHeld
  <1> QED
    BY <1>2, <1>4, <1>6, <1>7

\* A session is over: its worker is idle again.
LEMMA EndStep ==
  ASSUME DetectorInv, NEW w \in Detector!Workers, Moves(w, Detector!Idle),
         rpc[w].at = "update", Detector!Update(w),
         UNCHANGED <<on, objects, accepted, unloaded, presses, faults>>
  PROVE  /\ rpc' \in [Detector!Workers -> Detector!RpcState]
         /\ rpc'[w] = Detector!Idle
         /\ \A x \in Detector!Workers : x # w => rpc'[x] = rpc[x]
         /\ enabled' \in BOOLEAN
         /\ preferred' \in {<<>>} \union {<<s>> : s \in accepted}
         /\ SessionsFit' /\ ObjectsAreHeld'
  <1>1. Detector!Idle \in Detector!RpcState
    <2>1. <<>> \in Seq(Detector!ToSet(Styles))
      OBVIOUS
    <2> QED
      BY <2>1 DEF Detector!Idle, Detector!RpcState
  <1>2. /\ rpc' \in [Detector!Workers -> Detector!RpcState] /\ rpc'[w] = Detector!Idle
        /\ \A x \in Detector!Workers : x # w => rpc'[x] = rpc[x]
    BY <1>1 DEF Moves, DetectorInv, Detector!TypeOK
  <1>3. SessionsFit'
    <2>1. ASSUME NEW x \in Detector!Workers PROVE SessionFits(rpc[x])'
      <3>1. CASE x = w
        BY <1>2, <3>1 DEF Detector!Idle, SessionFits
      <3>2. CASE x # w
        BY <1>2, <3>2 DEF DetectorInv, SessionsFit, SessionFits, HasAll
      <3> QED
        BY <3>1, <3>2
    <2> QED
      BY <2>1 DEF DetectorInv, SessionsFit, HasAll
  <1>4. ObjectsAreHeld'
    <2> DEFINE v == Detector!Idle
    <2>1. ~Holds(v) /\ ~Returns(v) /\ ~Holds(rpc[w]) /\ ~Returns(rpc[w])
      BY DEF Holds, Returns, Detector!Idle
    <2>2. Moves(w, v)
      OBVIOUS
    <2> HIDE DEF v
    <2>3. Cardinality(Holding)' = Cardinality(Holding)
          /\ Cardinality(Returning)' = Cardinality(Returning)
      BY <2>1, <2>2, HoldersMove DEF DetectorInv
    <2> QED
      BY <2>3 DEF DetectorInv, ObjectsAreHeld
  <1>5. rpc[w].result = "ok" => rpc[w].enable \in BOOLEAN /\ Head(rpc[w].tries) \in accepted
    BY DEF DetectorInv, SessionsFit, SessionFits, Detector!TypeOK, Detector!RpcState
  <1>6. /\ enabled' \in BOOLEAN
        /\ preferred' \in {<<>>} \union {<<s>> : s \in accepted}
    BY <1>5 DEF Detector!Update, Detector!belief, DetectorInv, Detector!TypeOK
  <1> QED
    BY <1>2, <1>3, <1>4, <1>6

LEMMA DetectorStep == ASSUME DetectorInv, [Detector!Next]_detector PROVE DetectorInv'
  <1>w. /\ Button \in Detector!Workers
        /\ \A t \in Detector!Timers : t \in Detector!Workers /\ t # Button /\ t \in Nat
        /\ \A w \in Detector!Workers : w = Button \/ w \in Detector!Timers
    BY DEF Detector!Workers, Detector!Timers
  <1>t. /\ Detector!TypeOK /\ PlacesFit
        /\ timer \in [Detector!Timers -> {"unused", "set", "running", "over"}]
        /\ presses \in 0..MaxPresses
    BY DEF DetectorInv, Detector!TypeOK
  <1>o. /\ Detector!Over(registered) \in
             [Detector!Timers -> {"unused", "set", "running", "over"}]
        /\ \A t \in Detector!Timers :
             LET u == Detector!Over(registered)[t] IN
               u = timer[t] \/ (timer[t] = "set" /\ u = "over")
    BY <1>t DEF Detector!Over
  <1>1. CASE Detector!PressStart
    <2>1. /\ presses < MaxPresses /\ presses' = presses + 1 /\ rpc[Button].at = "idle"
          /\ UNCHANGED <<on, objects, accepted, enabled, preferred, unloaded, faults,
                         timer, registered>>
      BY <1>1 DEF Detector!PressStart, Detector!external, Detector!belief,
         Detector!timing, Detector!At
    <2>2. /\ rpc' \in [Detector!Workers -> Detector!RpcState]
          /\ rpc'[Button].at = "factory" /\ rpc'[Button].enable = TRUE
          /\ \A x \in Detector!Workers : x # Button => rpc'[x] = rpc[x]
          /\ SessionsFit' /\ ObjectsAreHeld'
      BY <1>1, <1>w, <2>1, BeginStep, BeginMoves
    <2>3. Detector!TypeOK'
      BY <1>t, <2>1, <2>2 DEF Detector!TypeOK
    <2>4. PlacesFit'
      BY <1>t, <1>w, <2>1, <2>2 DEF PlacesFit, Detector!Timers
    <2>5. EndIsNear'
      BY <2>2 DEF EndIsNear
    <2> QED
      BY <2>2, <2>3, <2>4, <2>5 DEF DetectorInv
  <1>2. CASE Detector!PressStop
    <2>1. /\ presses < MaxPresses /\ presses' = presses + 1 /\ rpc[Button].at = "idle"
          /\ timer' = Detector!Over(registered) /\ registered' = NoTimer
          /\ UNCHANGED <<on, objects, accepted, enabled, preferred, unloaded, faults>>
      BY <1>2 DEF Detector!PressStop, Detector!external, Detector!belief, Detector!At
    <2>2. /\ rpc' \in [Detector!Workers -> Detector!RpcState]
          /\ rpc'[Button].at = "factory" /\ rpc'[Button].enable = FALSE
          /\ \A x \in Detector!Workers : x # Button => rpc'[x] = rpc[x]
          /\ SessionsFit' /\ ObjectsAreHeld'
      BY <1>2, <1>w, <2>1, BeginStep, BeginMoves
    <2>3. Detector!TypeOK'
      BY <1>t, <1>o, <2>1, <2>2 DEF Detector!TypeOK
    <2>4. PlacesFit'
      <3>1. ASSUME NEW t \in Detector!Timers
            PROVE  /\ ~rpc'[t].enable
                   /\ rpc'[t].at # "idle" <=> timer'[t] = "running"
                   /\ t > presses' \/ (t = presses' /\ rpc'[Button].at # "idle") =>
                        timer'[t] = "unused"
        <4>1. timer'[t] = timer[t] \/ (timer[t] = "set" /\ timer'[t] = "over")
          BY <1>o, <2>1
        <4>2. rpc'[t] = rpc[t] /\ t \in Nat
          BY <1>w, <2>2
        <4> QED
          BY <1>t, <2>1, <4>1, <4>2 DEF PlacesFit
      <3>2. presses' \in Detector!Timers
        BY <1>t, <2>1 DEF Detector!Timers
      <3> QED
        BY <3>1, <3>2 DEF PlacesFit
    <2>5. EndIsNear'
      BY <1>w, <2>2 DEF EndIsNear
    <2> QED
      BY <2>2, <2>3, <2>4, <2>5 DEF DetectorInv
  <1>3. CASE Detector!PressDone
    <2>1. /\ rpc[Button].at = "update" /\ Moves(Button, Detector!Idle)
          /\ Detector!Update(Button)
          /\ UNCHANGED <<on, objects, accepted, unloaded, presses, faults>>
      BY <1>3 DEF Detector!PressDone, Detector!external, Detector!counts, Detector!At, Moves
    <2>2. /\ rpc' \in [Detector!Workers -> Detector!RpcState]
          /\ rpc'[Button] = Detector!Idle
          /\ \A x \in Detector!Workers : x # Button => rpc'[x] = rpc[x]
          /\ enabled' \in BOOLEAN
          /\ preferred' \in {<<>>} \union {<<s>> : s \in accepted}
          /\ SessionsFit' /\ ObjectsAreHeld'
      BY <1>w, <2>1, EndStep
    <2>3. presses \in Detector!Timers /\ timer[presses] = "unused"
      BY <1>t, <2>1 DEF PlacesFit
    <2>4. /\ timer' \in [Detector!Timers -> {"unused", "set", "running", "over"}]
          /\ registered' \in Detector!Timers \union {NoTimer}
          /\ registered' # NoTimer => timer'[registered'] # "unused"
          /\ \A t \in Detector!Timers :
               \/ timer'[t] = timer[t]
               \/ timer[t] = "set" /\ timer'[t] = "over"
               \/ t = presses /\ timer'[t] = "set"
          /\ \/ rpc[Button].result = "ok" /\ rpc[Button].enable /\ timer'[presses] = "set"
             \/ ~(rpc[Button].result = "ok" /\ rpc[Button].enable) /\ timer' = timer
      <3>1. CASE rpc[Button].result = "ok" /\ rpc[Button].enable
        BY <1>3, <1>o, <2>3, <3>1 DEF Detector!PressDone
      <3>2. CASE ~(rpc[Button].result = "ok" /\ rpc[Button].enable)
        BY <1>3, <1>t, <3>2 DEF Detector!PressDone, Detector!TypeOK
      <3> QED
        BY <3>1, <3>2
    <2>5. Detector!TypeOK'
      BY <1>t, <2>1, <2>2, <2>4 DEF Detector!TypeOK
    <2>6. PlacesFit'
      <3>1. ASSUME NEW t \in Detector!Timers
            PROVE  /\ ~rpc'[t].enable
                   /\ rpc'[t].at # "idle" <=> timer'[t] = "running"
                   /\ t > presses' \/ (t = presses' /\ rpc'[Button].at # "idle") =>
                        timer'[t] = "unused"
        BY <1>t, <1>w, <2>1, <2>2, <2>3, <2>4 DEF PlacesFit, Detector!Idle
      <3> QED
        BY <2>2, <3>1 DEF PlacesFit, Detector!Idle
    <2>7. EndIsNear'
      <3> SUFFICES ASSUME on, faults = 0, ~unloaded
                   PROVE  \/ \E t \in Detector!Timers : timer'[t] = "set"
                          \/ \E x \in Detector!Workers :
                               rpc'[x].at \in {"factory", "set"} /\ ~rpc'[x].enable
        BY <2>1 DEF EndIsNear
      <3>1. CASE rpc[Button].enable
        <4>1. rpc[Button].result = "ok"
          BY <1>w, <2>1 DEF DetectorInv, SessionsFit, SessionFits, Detector!TypeOK,
             Detector!RpcState
        <4> QED
          BY <2>3, <2>4, <3>1, <4>1
      <3>2. CASE ~rpc[Button].enable
        <4>1. timer' = timer
          BY <2>4, <3>2
        <4> QED
          BY <2>1, <2>2, <3>2, <4>1 DEF DetectorInv, EndIsNear
      <3> QED
        BY <3>1, <3>2
    <2> QED
      BY <2>2, <2>5, <2>6, <2>7 DEF DetectorInv
  <1>4. CASE Detector!CancelTimers
    <2>1. /\ unloaded' = TRUE /\ timer' = Detector!Over(registered) /\ registered' = NoTimer
          /\ UNCHANGED <<on, objects, accepted, enabled, preferred, presses, faults, rpc>>
      BY <1>4 DEF Detector!CancelTimers, Detector!external, Detector!belief, Detector!counts
    <2>2. Detector!TypeOK'
      BY <1>t, <1>o, <2>1 DEF Detector!TypeOK
    <2>3. PlacesFit'
      BY <1>t, <1>o, <2>1 DEF PlacesFit
    <2>4. SessionsFit'
      BY <2>1 DEF DetectorInv, SessionsFit, SessionFits, HasAll
    <2>5. ObjectsAreHeld'
      BY <2>1 DEF DetectorInv, ObjectsAreHeld, Holding, Returning
    <2>6. EndIsNear'
      BY <2>1 DEF EndIsNear
    <2> QED
      BY <2>2, <2>3, <2>4, <2>5, <2>6 DEF DetectorInv
  <1>5. ASSUME NEW w \in Detector!Workers,
               \/ Detector!Factory(w) \/ Detector!SetParam(w)
               \/ Detector!SetBreaks(w) \/ Detector!Destroy(w)
        PROVE  DetectorInv'
    BY <1>5, SessionStep
  <1>6. ASSUME NEW t \in Detector!Timers, Detector!Fires(t) PROVE DetectorInv'
    <2>1. /\ timer[t] = "set" /\ timer' = [timer EXCEPT ![t] = "running"]
          /\ UNCHANGED <<on, objects, accepted, enabled, preferred, unloaded, faults,
                         registered, presses>>
      BY <1>6 DEF Detector!Fires, Detector!external, Detector!belief, Detector!counts
    <2>2. rpc[t].at = "idle"
      BY <1>t, <2>1 DEF PlacesFit
    <2>3. /\ rpc' \in [Detector!Workers -> Detector!RpcState]
          /\ rpc'[t].at = "factory" /\ rpc'[t].enable = FALSE
          /\ \A x \in Detector!Workers : x # t => rpc'[x] = rpc[x]
          /\ SessionsFit' /\ ObjectsAreHeld'
      BY <1>6, <1>w, <2>1, <2>2, BeginStep, BeginMoves
    <2>4. Detector!TypeOK'
      BY <1>t, <2>1, <2>3 DEF Detector!TypeOK
    <2>5. PlacesFit'
      BY <1>t, <1>w, <2>1, <2>3 DEF PlacesFit
    <2>6. EndIsNear'
      BY <1>w, <2>3 DEF EndIsNear
    <2> QED
      BY <2>3, <2>4, <2>5, <2>6 DEF DetectorInv
  <1>7. ASSUME NEW t \in Detector!Timers, Detector!AutoStopDone(t) PROVE DetectorInv'
    <2>1. /\ rpc[t].at = "update" /\ Moves(t, Detector!Idle) /\ Detector!Update(t)
          /\ timer' = [timer EXCEPT ![t] = "over"] /\ registered' = NoTimer
          /\ UNCHANGED <<on, objects, accepted, unloaded, presses, faults>>
      BY <1>7 DEF Detector!AutoStopDone, Detector!external, Detector!counts, Detector!At, Moves
    <2>2. /\ rpc' \in [Detector!Workers -> Detector!RpcState]
          /\ rpc'[t] = Detector!Idle
          /\ \A x \in Detector!Workers : x # t => rpc'[x] = rpc[x]
          /\ enabled' \in BOOLEAN
          /\ preferred' \in {<<>>} \union {<<s>> : s \in accepted}
          /\ SessionsFit' /\ ObjectsAreHeld'
      BY <1>w, <2>1, EndStep
    <2>3. timer[t] = "running"
      BY <1>t, <2>1 DEF PlacesFit
    <2>4. Detector!TypeOK'
      BY <1>t, <2>1, <2>2 DEF Detector!TypeOK
    <2>5. PlacesFit'
      BY <1>t, <1>w, <2>1, <2>2, <2>3 DEF PlacesFit, Detector!Idle
    <2>6. EndIsNear'
      BY <1>t, <1>w, <2>1, <2>2, <2>3 DEF DetectorInv, EndIsNear
    <2> QED
      BY <2>2, <2>4, <2>5, <2>6 DEF DetectorInv
  <1>8. CASE UNCHANGED detector
    <2>1. UNCHANGED <<on, objects, accepted, enabled, preferred, timer, registered, rpc,
                      unloaded, presses, faults>>
      BY <1>8 DEF detector
    <2> QED
      BY <2>1 DEF DetectorInv, Detector!TypeOK, PlacesFit, SessionsFit, SessionFits, HasAll,
         ObjectsAreHeld, Holding, Returning, EndIsNear
  <1> QED
    BY <1>1, <1>2, <1>3, <1>4, <1>5, <1>6, <1>7, <1>8, DetectorSteps

\* What the detector test's invariant is for.
LEMMA DetectorSafe == DetectorInv => Detector!TypeOK /\ NothingLeftBehind
  <1> SUFFICES ASSUME DetectorInv PROVE NothingLeftBehind
    BY DEF DetectorInv
  <1>1. Detector!NoObjectLeft
    <2>1. Returning \subseteq Detector!Working /\ IsFiniteSet(Detector!Working)
      BY WorkersAreFinite, FS_Subset DEF Returning, Returns, Holds, Detector!Working
    <2>2. /\ Cardinality(Returning) <= Cardinality(Detector!Working)
          /\ Cardinality(Returning) \in Nat /\ Cardinality(Detector!Working) \in Nat
      BY <2>1, FS_Subset, FS_CardinalityType
    <2>3. /\ objects <= Cardinality(Returning) + faults
          /\ objects \in Nat /\ faults \in 0..MaxFaults
      BY DEF DetectorInv, ObjectsAreHeld, Detector!TypeOK
    <2> DEFINE back == Cardinality(Returning)
               work == Cardinality(Detector!Working)
    <2>4. /\ back \in Nat /\ work \in Nat /\ objects \in Nat /\ faults \in Nat
          /\ back <= work /\ objects <= back + faults
      BY <2>2, <2>3
    <2> HIDE DEF back, work
    <2>5. objects <= work + faults
      BY <2>4
    <2>6. Detector!Cardinality(Detector!Working) = Cardinality(Detector!Working)
      BY DEF Detector!Cardinality, Cardinality
    <2> QED
      BY <2>5, <2>6 DEF work, Detector!NoObjectLeft
  <1>2. Detector!RunningTestWillStop
    <2>1. Button \in Detector!Workers
      BY DEF Detector!Workers
    <2> QED
      BY <2>1 DEF DetectorInv, EndIsNear, Detector!RunningTestWillStop, Detector!Working
  <1> QED
    BY <1>1, <1>2 DEF NothingLeftBehind, Detector!NothingLeftBehind

-----------------------------------------------------------------------------
(* The probe.                                                              *)

Requests == {"send", "try disarm", "try condition"}
Acquires == {"acquire", "maybe_acquire"}
LogIns   == {"login", "attach"}
\* The modes that destroy their instance in the finally block.
Owners   == {"trial", "disarm", "getters"}
\* The modes that destroy it in their plan.
Sweeps   == {"sweep_instances", "inspect"}

StepsOf(m) ==
  CASE m = "trial" -> {"login", "modes", "guard", "ask", "acquire", "attach", "send",
                       "listen", "after", "destroy", "close"}
    [] m \in {"client_types", "sweep_keys"} -> {"login", "read", "close"}
    [] m = "sweep_instances" -> {"login", "maybe_acquire", "destroy", "close"}
    [] m = "inspect" -> {"login", "read", "maybe_acquire", "destroy", "close"}
    [] m = "getters" -> {"login", "read", "acquire", "getter", "destroy", "close"}
    [] m = "disarm" -> {"login", "modes", "guard", "read", "maybe_acquire",
                        "try disarm", "destroy", "close"}
    [] m = "condition" -> {"login", "read", "modes", "guard", "try condition", "close"}

\* What is true of the steps s that mode m has left, and stays true as they are
\* taken: a look at the modes is followed by the guard, requests come last, a trial
\* has one, and an instance is destroyed before the next one is asked for.
Follows(s, i, step) == i + 1 \in DOMAIN s /\ s[i + 1] = step
Shape(m, s) ==
  /\ s \in Seq(StepsOf(m))
  /\ m = "trial" => \A i, j \in DOMAIN s : s[i] = "send" /\ s[j] = "send" => i = j
  /\ \A i \in DOMAIN s : s[i] = "modes" => Follows(s, i, "guard")
  /\ \A i, j \in DOMAIN s : s[i] \in Requests /\ s[j] \in {"modes", "guard"} => j < i
  /\ \A i, k \in DOMAIN s : s[i] \in Acquires /\ s[k] \in Acquires /\ i < k =>
       \E j \in i..k : s[j] = "destroy"
  /\ \A i, j \in DOMAIN s : s[i] \in Acquires => s[j] # "close"
  /\ m \in Sweeps => \A i \in DOMAIN s :
       /\ s[i] \in Acquires => \E j \in DOMAIN s : i < j /\ s[j] = "destroy"
       /\ s[i] = "login" => i = 1
  /\ m = "client_types" /\ s # <<>> => s[Len(s)] = "close"

Left(step) == \E i \in DOMAIN todo : todo[i] = step

\* Requests end with the first that works, and a trial's with the first.
RequestsEnd ==
  mode \in Probe!Trials =>
    /\ extra = 0 /\ (sent = 0 => ~won) /\ (mode = "trial" => sent <= 1)
    /\ won \/ (mode = "trial" /\ sent > 0) => \A r \in Requests : ~Left(r)

\* Nothing is requested before the guard has seen no area armed, and the
\* modes are not read again after it.
GuardComesFirst ==
  mode \in Probe!Trials =>
    /\ sent > 0 => ~Left("modes") /\ (opts.allow_arm \/ Probe!NoneSeenArmed)
    /\ (\E r \in Requests : Left(r)) => opts.allow_arm \/ Left("guard") \/ Probe!NoneSeenArmed

\* While the line holds there is at most the run's own instance, and a step left or
\* the finally block destroys it.
ObjectIsReturned ==
  ~broke =>
    /\ instances = IF object THEN 1 ELSE 0
    /\ object =>
         /\ control = "up" /\ mode \in Owners \union Sweeps
         /\ \A i \in DOMAIN todo : todo[i] \in Acquires \union {"close"} =>
              \E j \in 1..i : todo[j] = "destroy"
         /\ mode \in Sweeps => Left("destroy") /\ ~Left("login")

\* A risky rejection leaves no login to make.
RiskIsTheLast == risky <= 1 /\ (risky > 0 => \A l \in LogIns : ~Left(l))

ProbeInv ==
  /\ Probe!TypeOK /\ Shape(mode, todo)
  /\ RequestsEnd /\ GuardComesFirst /\ ObjectIsReturned /\ RiskIsTheLast

-----------------------------------------------------------------------------
(* What is left of a plan keeps its shape.                                 *)

\* A place in a plan, counted from step k on and back again.
LEMMA BackAgain ==
  ASSUME NEW i \in Int, NEW k \in Int, NEW l \in Int
  PROVE  (l - k + 1) + k - 1 = l /\ (i + k - 1 < l => i < l - k + 1)
  OBVIOUS

\* The steps that are left from some step on.
LEMMA RestKeepsShape ==
  ASSUME NEW m, NEW s, Shape(m, s), NEW t \in Seq(StepsOf(m)),
         NEW k \in 1..(Len(s) + 1), Len(t) = Len(s) - k + 1,
         \A i \in 1..Len(t) : t[i] = s[i + k - 1]
  PROVE  Shape(m, t)
  <1>1. /\ s \in Seq(StepsOf(m)) /\ Len(s) \in Nat /\ DOMAIN s = 1..Len(s)
        /\ Len(t) \in Nat /\ DOMAIN t = 1..Len(t)
    BY LenProperties DEF Shape
  <1>2. \A i \in DOMAIN t : i + k - 1 \in DOMAIN s /\ s[i + k - 1] = t[i]
    BY <1>1
  <1>3. m = "trial" => \A i, j \in DOMAIN t : t[i] = "send" /\ t[j] = "send" => i = j
    <2> SUFFICES ASSUME m = "trial", NEW i \in DOMAIN t, NEW j \in DOMAIN t,
                        t[i] = "send", t[j] = "send"
                 PROVE  i = j
      OBVIOUS
    <2>1. i + k - 1 = j + k - 1
      BY <1>2 DEF Shape
    <2> QED
      BY <1>1, <2>1
  <1>4. ASSUME NEW i \in DOMAIN t, t[i] = "modes" PROVE Follows(t, i, "guard")
    <2>1. (i + k - 1) + 1 \in DOMAIN s /\ s[(i + k - 1) + 1] = "guard"
      BY <1>2, <1>4 DEF Shape, Follows
    <2>2. i + 1 \in DOMAIN t /\ (i + k - 1) + 1 = (i + 1) + k - 1
      <3>1. /\ i \in Nat /\ k \in Nat /\ Len(s) \in Nat /\ Len(t) \in Nat
            /\ 1 <= i /\ (i + k - 1) + 1 <= Len(s) /\ Len(t) = Len(s) - k + 1
        BY <1>1, <2>1
      <3>2. \A a, b, n, l \in Nat :
              1 <= a /\ (a + b - 1) + 1 <= n /\ l = n - b + 1 =>
                a + 1 \in 1..l /\ (a + b - 1) + 1 = (a + 1) + b - 1
        OBVIOUS
      <3>3. i + 1 \in 1..Len(t) /\ (i + k - 1) + 1 = (i + 1) + k - 1
        BY <3>1, <3>2
      <3> QED
        BY <1>1, <3>3
    <2> QED
      BY <1>2, <2>1, <2>2 DEF Follows
  <1>5. ASSUME NEW i \in DOMAIN t, NEW j \in DOMAIN t,
               t[i] \in Requests, t[j] \in {"modes", "guard"}
        PROVE  j < i
    <2>1. j + k - 1 < i + k - 1
      BY <1>2, <1>5 DEF Shape
    <2> QED
      BY <1>1, <2>1
  <1>6. ASSUME NEW i \in DOMAIN t, NEW j \in DOMAIN t,
               t[i] \in Acquires, t[j] \in Acquires, i < j
        PROVE  \E l \in i..j : t[l] = "destroy"
    <2>1. i + k - 1 < j + k - 1
      BY <1>1, <1>6
    <2>2. PICK l \in (i + k - 1)..(j + k - 1) : s[l] = "destroy"
      BY <1>2, <1>6, <2>1 DEF Shape
    <2>3. l - k + 1 \in i..j /\ l - k + 1 \in DOMAIN t /\ (l - k + 1) + k - 1 = l
      BY <1>1, <2>2
    <2> QED
      BY <1>2, <2>2, <2>3
  <1>7. ASSUME NEW i \in DOMAIN t, NEW j \in DOMAIN t, t[i] \in Acquires
        PROVE  t[j] # "close"
    BY <1>2, <1>7 DEF Shape
  <1>8. ASSUME m \in Sweeps, NEW i \in DOMAIN t
        PROVE  /\ t[i] \in Acquires => \E j \in DOMAIN t : i < j /\ t[j] = "destroy"
               /\ t[i] = "login" => i = 1
    <2>1. ASSUME t[i] \in Acquires PROVE \E j \in DOMAIN t : i < j /\ t[j] = "destroy"
      <3>1. PICK l \in DOMAIN s : i + k - 1 < l /\ s[l] = "destroy"
        BY <1>2, <1>8, <2>1 DEF Shape
      <3>2. l \in 1..Len(s) /\ i \in 1..Len(t)
        BY <1>1, <3>1
      <3>3. l - k + 1 \in DOMAIN t
        BY <1>1, <3>1, <3>2
      <3>4. i \in Int /\ k \in Int /\ l \in Int /\ i + k - 1 < l
        BY <1>1, <3>1, <3>2
      <3>5. i < l - k + 1 /\ (l - k + 1) + k - 1 = l
        BY <3>4, BackAgain, Zenon
      <3> QED
        BY <1>2, <3>1, <3>3, <3>5
    <2>2. ASSUME t[i] = "login" PROVE i = 1
      <3>1. i + k - 1 = 1
        BY <1>2, <1>8, <2>2 DEF Shape
      <3> QED
        BY <1>1, <3>1
    <2> QED
      BY <2>1, <2>2
  <1>9. m = "client_types" /\ t # <<>> => t[Len(t)] = "close"
    <2> SUFFICES ASSUME m = "client_types", t # <<>> PROVE t[Len(t)] = "close"
      OBVIOUS
    <2>1. Len(t) \in DOMAIN t /\ Len(t) + k - 1 = Len(s)
      <3>1. Len(t) # 0
        BY EmptySeq
      <3> QED
        BY <1>1, <3>1
    <2>2. s # <<>>
      BY <1>1, <1>2, <2>1
    <2> QED
      BY <1>2, <2>1, <2>2 DEF Shape
  <1> QED
    BY <1>3, <1>4, <1>5, <1>6, <1>7, <1>8, <1>9 DEF Shape

LEMMA TailKeepsShape ==
  ASSUME NEW m, NEW s, Shape(m, s), s # <<>>
  PROVE  /\ Shape(m, Tail(s))
         /\ Len(s) \in Nat \ {0} /\ DOMAIN s = 1..Len(s) /\ Head(s) = s[1]
         /\ Len(Tail(s)) = Len(s) - 1 /\ DOMAIN Tail(s) = 1..(Len(s) - 1)
         /\ \A i \in 1..(Len(s) - 1) : Tail(s)[i] = s[i + 1]
  <1>1. s \in Seq(StepsOf(m))
    BY DEF Shape
  <1> DEFINE t == Tail(s)
  <1>2. /\ t \in Seq(StepsOf(m)) /\ Len(t) = Len(s) - 1 /\ Head(s) = s[1]
        /\ \A i \in 1..Len(t) : t[i] = s[i + 1]
        /\ Len(s) \in Nat \ {0} /\ DOMAIN s = 1..Len(s) /\ DOMAIN t = 1..Len(t)
    <2>1. Len(s) \in Nat /\ Len(s) # 0 /\ DOMAIN s = 1..Len(s)
      BY <1>1, LenProperties, EmptySeq
    <2> QED
      BY <1>1, <2>1, HeadTailProperties, LenProperties
  <1> HIDE DEF t
  <1>3. 2 \in 1..(Len(s) + 1) /\ Len(t) = Len(s) - 2 + 1
        /\ \A i \in 1..Len(t) : t[i] = s[i + 2 - 1]
    BY <1>2
  <1>4. Shape(m, t)
    BY <1>2, <1>3, RestKeepsShape
  <1>5. /\ Shape(m, t)
        /\ Len(s) \in Nat \ {0} /\ DOMAIN s = 1..Len(s) /\ Head(s) = s[1]
        /\ Len(t) = Len(s) - 1 /\ DOMAIN t = 1..(Len(s) - 1)
        /\ \A i \in 1..(Len(s) - 1) : t[i] = s[i + 1]
    BY <1>2, <1>4
  <1> QED
    BY <1>5 DEF t

Modes == Probe!Trials \union Probe!ReadOnly

LEMMA CleanupShape ==
  ASSUME NEW m \in Modes
  PROVE  /\ Shape(m, <<"close">>)
         /\ m \in Owners => Shape(m, <<"destroy", "close">>)
  <1>1. "close" \in StepsOf(m) /\ (m \in Owners => "destroy" \in StepsOf(m))
    BY DEF StepsOf, Modes, Probe!Trials, Probe!ReadOnly, Owners
  <1>2. Shape(m, <<"close">>)
    <2>1. <<"close">> \in Seq(StepsOf(m)) /\ Len(<<"close">>) = 1
          /\ DOMAIN <<"close">> = {1} /\ <<"close">>[1] = "close"
      BY <1>1
    <2> QED
      BY <2>1 DEF Shape, Requests, Acquires
  <1>3. ASSUME m \in Owners PROVE Shape(m, <<"destroy", "close">>)
    <2> DEFINE s == <<"destroy", "close">>
    <2>1. s \in Seq(StepsOf(m)) /\ Len(s) = 2
          /\ DOMAIN s = {1, 2} /\ s[1] = "destroy" /\ s[2] = "close"
      BY <1>1, <1>3
    <2> HIDE DEF s
    <2>2. Shape(m, s)
      BY <1>3, <2>1 DEF Shape, Requests, Acquires, Owners, Sweeps
    <2> QED
      BY <2>2 DEF s
  <1> QED
    BY <1>2, <1>3

\* A set of naturals has a smallest element.
LEMMA Smallest ==
  ASSUME NEW S \in SUBSET Nat, S # {}
  PROVE  \E x \in S : \A y \in S : x <= y
  <1> DEFINE R == OpToRel(<, Nat)
  <1>1. IsWellFoundedOn(R, Nat)
    BY NatLessThanWellFounded
  <1>2. \A x, y \in Nat : x < y => <<x, y>> \in R
    BY DEF OpToRel
  <1> HIDE DEF R
  <1>3. PICK x \in S : \A y \in S : ~(<<y, x>> \in R)
    BY <1>1, WFMin
  <1>4. ASSUME NEW y \in S PROVE x <= y
    <2>1. x \in Nat /\ y \in Nat /\ ~(y < x)
      BY <1>2, <1>3
    <2> QED
      BY <2>1
  <1> QED
    BY <1>4

\* Going on to the next client type leaves a rest of the plan.
LEMMA NextTypeKeepsShape ==
  ASSUME Shape(mode, todo), mode = "client_types", todo # <<>>
  PROVE  /\ Shape(mode, Probe!NextType)
         /\ \A step : (\E i \in DOMAIN Probe!NextType : Probe!NextType[i] = step) => Left(step)
  <1>1. /\ Len(todo) \in Nat \ {0} /\ DOMAIN todo = 1..Len(todo)
        /\ todo \in Seq(StepsOf(mode))
    BY TailKeepsShape DEF Shape
  <1> DEFINE I == {i \in 1..Len(todo) : todo[i] = "close"}
             k == Probe!SelectInSeq(todo, LAMBDA s : s = "close")
  <1>2. Len(todo) \in I
    BY <1>1 DEF Shape
  <1>3. PICK x \in I : \A y \in I : x <= y
    <2> HIDE DEF I
    <2>1. I \in SUBSET Nat /\ I # {}
      BY <1>1, <1>2 DEF I
    <2> QED
      BY <2>1, Smallest
  <1>4. k \in 1..Len(todo)
    <2>1. Probe!Min(I) \in I
      <3> HIDE DEF I
      <3> QED
        BY <1>3 DEF Probe!Min
    <2>2. k = Probe!Min(I)
      BY <1>2 DEF Probe!SelectInSeq
    <2> QED
      BY <2>1, <2>2
  <1> DEFINE t == SubSeq(todo, k, Len(todo))
  <1>5. Probe!NextType = t
    BY DEF Probe!NextType
  <1> HIDE DEF k, I
  <1>6. /\ t \in Seq(StepsOf(mode)) /\ Len(t) = Len(todo) - k + 1
        /\ \A i \in 1..(Len(todo) - k + 1) : t[i] = todo[k + i - 1]
    <2>1. \A i \in k..Len(todo) : todo[i] \in StepsOf(mode)
      BY <1>1, <1>4, ElementOfSeq
    <2> QED
      BY <1>1, <1>4, <2>1, SubSeqProperties
  <1> HIDE DEF t
  <1>7. k \in 1..(Len(todo) + 1) /\ (\A i \in 1..Len(t) : t[i] = todo[i + k - 1])
        /\ DOMAIN t = 1..Len(t) /\ Len(t) = Len(todo) - k + 1
    <2>1. DOMAIN t = 1..Len(t)
      BY <1>6, LenProperties
    <2>2. \A i \in 1..Len(t) : i \in Int /\ i + k - 1 = k + i - 1
      BY <1>1, <1>4, <1>6
    <2> QED
      BY <1>1, <1>4, <1>6, <2>1, <2>2
  <1>8. Shape(mode, t)
    BY <1>6, <1>7, RestKeepsShape
  <1>9. ASSUME NEW i \in DOMAIN t PROVE Left(t[i])
    <2>1. /\ i \in Nat /\ k \in Nat /\ Len(todo) \in Nat /\ 1 <= i /\ 1 <= k
          /\ i <= Len(todo) - k + 1
      BY <1>1, <1>4, <1>7
    <2>2. \A a, b, n \in Nat :
            1 <= a /\ 1 <= b /\ a <= n - b + 1 => a + b - 1 \in 1..n
      OBVIOUS
    <2>3. i + k - 1 \in 1..Len(todo)
      BY <2>1, <2>2
    <2>4. todo[i + k - 1] = t[i]
      BY <1>7
    <2> QED
      BY <1>1, <2>3, <2>4 DEF Left
  <1> QED
    BY <1>5, <1>8, <1>9

\* A plan that begins with the steps a and has step x for every candidate.
LEMMA FirstThen ==
  ASSUME NEW S, NEW a \in Seq(S), NEW x \in S
  PROVE  LET n == Candidates
             la == Len(a)
             s == a \o Probe!Times(n, x) IN
           /\ s \in Seq(S) /\ Len(s) = la + n /\ DOMAIN s = 1..(la + n)
           /\ \A i \in 1..la : s[i] = a[i]
           /\ \A i \in 1..(la + n) : i > la => s[i] = x
  <1> DEFINE n == Candidates
             b == Probe!Times(n, x)
             s == a \o b
  <1>1. b \in Seq(S) /\ Len(b) = n /\ \A i \in 1..n : b[i] = x
    <2>1. b = [i \in 1..n |-> x]
      BY DEF Probe!Times
    <2>0. n \in Nat
      OBVIOUS
    <2> HIDE DEF b, n
    <2>2. b \in Seq(S)
      BY <2>0, <2>1, IsASeq
    <2>3. DOMAIN b = 1..n /\ DOMAIN b = 1..Len(b) /\ Len(b) \in Nat
      BY <2>1, <2>2, LenProperties
    <2>4. Len(b) = n
      BY <2>0, <2>1, <2>2, <2>3, LenProperties
    <2> QED
      BY <2>1, <2>2, <2>4
  <1> HIDE DEF b, s
  <1>b. b \in Seq(S)
    BY <1>1
  <1>2. /\ a \o b \in Seq(S) /\ Len(a \o b) = Len(a) + Len(b)
        /\ \A i \in 1..(Len(a) + Len(b)) :
             (a \o b)[i] = IF i <= Len(a) THEN a[i] ELSE b[i - Len(a)]
    BY <1>b, ConcatProperties
  <1> DEFINE la == Len(a)
  <1>l. la \in Nat
    BY LenProperties
  <1>3. /\ s \in Seq(S) /\ Len(s) = la + n
        /\ \A i \in 1..(la + n) : s[i] = IF i <= la THEN a[i] ELSE b[i - la]
    BY <1>1, <1>2 DEF s
  <1> HIDE DEF la
  <1>4. DOMAIN s = 1..(la + n)
    BY <1>3, <1>l, LenProperties
  <1>5. ASSUME NEW i \in 1..(la + n), i > la PROVE s[i] = x
    <2>1. i \in 1..(la + n) /\ ~(i <= la) /\ i - la \in 1..n
      BY <1>l, <1>5
    <2> QED
      BY <1>1, <1>3, <2>1
  <1>6. ASSUME NEW i \in 1..la PROVE s[i] = a[i]
    <2>1. i \in 1..(la + n) /\ i <= la
      BY <1>l
    <2> QED
      BY <1>3, <2>1
  <1> QED
    BY <1>3, <1>4, <1>5, <1>6 DEF s, b, la

LEMMA Joined ==
  ASSUME NEW S, NEW a \in Seq(S), NEW b \in Seq(S)
  PROVE  LET la == Len(a)
             lb == Len(b)
             s == a \o b IN
           /\ s \in Seq(S) /\ la \in Nat /\ lb \in Nat
           /\ Len(s) = la + lb /\ DOMAIN s = 1..(la + lb)
           /\ \A i \in 1..la : s[i] = a[i]
           /\ \A i \in 1..lb : s[la + i] = b[i]
  <1> DEFINE s == a \o b
             la == Len(a)
             lb == Len(b)
  <1>1. /\ a \o b \in Seq(S) /\ Len(a \o b) = Len(a) + Len(b)
        /\ \A i \in 1..(Len(a) + Len(b)) :
             (a \o b)[i] = IF i <= Len(a) THEN a[i] ELSE b[i - Len(a)]
    <2> HIDE DEF s, la, lb
    <2> QED
      BY ConcatProperties
  <1>2. la \in Nat /\ lb \in Nat
    BY LenProperties
  <1>3. /\ s \in Seq(S) /\ Len(s) = la + lb
        /\ \A i \in 1..(la + lb) : s[i] = IF i <= la THEN a[i] ELSE b[i - la]
    BY <1>1
  <1> HIDE DEF s, la, lb
  <1>4. DOMAIN s = 1..(la + lb)
    BY <1>2, <1>3, LenProperties
  <1>5. ASSUME NEW i \in 1..la PROVE s[i] = a[i]
    BY <1>2, <1>3
  <1>6. ASSUME NEW i \in 1..lb PROVE s[la + i] = b[i]
    <2>1. la + i \in 1..(la + lb) /\ ~(la + i <= la) /\ (la + i) - la = i
      BY <1>2
    <2> QED
      BY <1>3, <2>1
  <1> QED
    BY <1>2, <1>3, <1>4, <1>5, <1>6 DEF s, la, lb

\* Before anything is requested, the plan looks at the modes.
Guarded(s) == (\E i \in DOMAIN s : s[i] \in Requests) => \E i \in DOMAIN s : s[i] = "guard"

LEMMA TrialShape ==
  ASSUME NEW o \in [allow_arm : BOOLEAN, at_panel : BOOLEAN, instance : BOOLEAN]
  PROVE  Shape("trial", Probe!Trial(o)) /\ Guarded(Probe!Trial(o))
  <1> DEFINE S == StepsOf("trial")
             a == <<"login", "modes", "guard", "ask">>
             b == IF o.instance THEN <<"acquire">> ELSE <<>>
             c == <<"attach", "send", "listen", "after">>
             ab == a \o b
             s == ab \o c
  <1>1. /\ a \in Seq(S) /\ b \in Seq(S) /\ c \in Seq(S)
        /\ Len(a) = 4 /\ Len(c) = 4
        /\ a[1] = "login" /\ a[2] = "modes" /\ a[3] = "guard" /\ a[4] = "ask"
        /\ c[1] = "attach" /\ c[2] = "send" /\ c[3] = "listen" /\ c[4] = "after"
        /\ \/ Len(b) = 1 /\ b[1] = "acquire"
           \/ Len(b) = 0
    <2>1. a \in Seq(S) /\ Len(a) = 4 /\ a[1] = "login" /\ a[2] = "modes" /\ a[3] = "guard"
          /\ a[4] = "ask"
      BY DEF StepsOf
    <2>2. c \in Seq(S) /\ Len(c) = 4 /\ c[1] = "attach" /\ c[2] = "send" /\ c[3] = "listen"
          /\ c[4] = "after"
      BY DEF StepsOf
    <2>3. CASE o.instance
      <3>1. b = <<"acquire">> /\ "acquire" \in S
        BY <2>3 DEF StepsOf
      <3>2. b \in Seq(S) /\ Len(b) = 1 /\ b[1] = "acquire"
        BY <3>1
      <3> HIDE DEF a, b, c, S
      <3> QED
        BY <2>1, <2>2, <3>2
    <2>4. CASE ~o.instance
      <3>1. b = <<>>
        BY <2>4
      <3>2. b \in Seq(S) /\ Len(b) = 0
        BY <3>1
      <3> HIDE DEF a, b, c, S
      <3> QED
        BY <2>1, <2>2, <3>2
    <2> QED
      BY <2>3, <2>4
  <1>2. s = Probe!Trial(o)
    BY DEF Probe!Trial
  <1> HIDE DEF S, a, b, c
  <1>3. /\ ab \in Seq(S) /\ Len(ab) = Len(a) + Len(b) /\ DOMAIN ab = 1..(Len(a) + Len(b))
        /\ \A i \in 1..Len(a) : ab[i] = a[i]
        /\ \A i \in 1..Len(b) : ab[Len(a) + i] = b[i]
    <2>1. a \in Seq(S) /\ b \in Seq(S)
      BY <1>1
    <2> QED
      BY <2>1, Joined
  <1> HIDE DEF ab
  <1>4. /\ s \in Seq(S) /\ Len(s) = Len(ab) + Len(c) /\ DOMAIN s = 1..(Len(ab) + Len(c))
        /\ \A i \in 1..Len(ab) : s[i] = ab[i]
        /\ \A i \in 1..Len(c) : s[Len(ab) + i] = c[i]
    <2>1. ab \in Seq(S) /\ c \in Seq(S)
      BY <1>1, <1>3
    <2> QED
      BY <2>1, Joined
  <1> HIDE DEF s
  <1>5. CASE Len(b) = 1 /\ b[1] = "acquire"
    <2>1. /\ Len(ab) = 5 /\ ab[1] = "login" /\ ab[2] = "modes" /\ ab[3] = "guard"
          /\ ab[4] = "ask" /\ ab[5] = "acquire"
      BY <1>1, <1>3, <1>5
    <2>2. /\ s \in Seq(S) /\ DOMAIN s = 1..9
          /\ s[1] = "login" /\ s[2] = "modes" /\ s[3] = "guard" /\ s[4] = "ask"
          /\ s[5] = "acquire" /\ s[6] = "attach" /\ s[7] = "send" /\ s[8] = "listen"
          /\ s[9] = "after"
      BY <1>1, <1>4, <2>1
    <2>3. \A i \in 1..9 :
            /\ s[i] \in Requests <=> i = 7
            /\ s[i] = "send" => i = 7
            /\ s[i] = "modes" <=> i = 2
            /\ s[i] = "guard" <=> i = 3
            /\ s[i] \in Acquires <=> i = 5
            /\ s[i] # "close"
      <3> SUFFICES ASSUME NEW i \in 1..9
                   PROVE  /\ s[i] \in Requests <=> i = 7
                          /\ s[i] = "send" => i = 7
                          /\ s[i] = "modes" <=> i = 2
                          /\ s[i] = "guard" <=> i = 3
                          /\ s[i] \in Acquires <=> i = 5
                          /\ s[i] # "close"
        OBVIOUS
      <3>1. i \in {1, 2, 3, 4, 5, 6, 7, 8, 9}
        OBVIOUS
      <3> QED
        BY <2>2, <3>1 DEF Requests, Acquires
    <2>4. Shape("trial", s)
      BY <2>2, <2>3 DEF Shape, Follows, Sweeps, S
    <2>5. Guarded(s)
      BY <2>2 DEF Guarded
    <2> QED
      BY <1>2, <2>4, <2>5
  <1>6. CASE Len(b) = 0
    <2>1. /\ Len(ab) = 4 /\ ab[1] = "login" /\ ab[2] = "modes" /\ ab[3] = "guard"
          /\ ab[4] = "ask"
      BY <1>1, <1>3, <1>6
    <2>2. /\ s \in Seq(S) /\ DOMAIN s = 1..8
          /\ s[1] = "login" /\ s[2] = "modes" /\ s[3] = "guard" /\ s[4] = "ask"
          /\ s[5] = "attach" /\ s[6] = "send" /\ s[7] = "listen" /\ s[8] = "after"
      BY <1>1, <1>4, <2>1
    <2>3. \A i \in 1..8 :
            /\ s[i] \in Requests <=> i = 6
            /\ s[i] = "send" => i = 6
            /\ s[i] = "modes" <=> i = 2
            /\ s[i] = "guard" <=> i = 3
            /\ s[i] \notin Acquires
      <3> SUFFICES ASSUME NEW i \in 1..8
                   PROVE  /\ s[i] \in Requests <=> i = 6
                          /\ s[i] = "send" => i = 6
                          /\ s[i] = "modes" <=> i = 2
                          /\ s[i] = "guard" <=> i = 3
                          /\ s[i] \notin Acquires
        OBVIOUS
      <3>1. i \in {1, 2, 3, 4, 5, 6, 7, 8}
        OBVIOUS
      <3> QED
        BY <2>2, <3>1 DEF Requests, Acquires
    <2>4. Shape("trial", s)
      BY <2>2, <2>3 DEF Shape, Follows, Sweeps, S
    <2>5. Guarded(s)
      BY <2>2 DEF Guarded
    <2> QED
      BY <1>2, <2>4, <2>5
  <1> QED
    BY <1>1, <1>5, <1>6

LEMMA ClientTypesShape == Shape("client_types", Probe!ProbeClientTypes)
  <1> DEFINE S == StepsOf("client_types")
             n == ClientTypes
             s == Probe!ProbeClientTypes
  <1>1. s = [i \in 1..(n * 3) |-> <<"login", "read", "close">>[((i - 1) % 3) + 1]]
    BY DEF Probe!ProbeClientTypes, Probe!Rounds
  <1>2. n \in Nat
    BY ResearchAssumption DEF Probe!ConstantsOK
  <1> HIDE DEF s, n
  <1>3. ASSUME NEW i \in 1..(n * 3)
        PROVE  s[i] \in S /\ s[i] \in {"login", "read", "close"}
    <2>1. ((i - 1) % 3) + 1 \in {1, 2, 3}
      BY <1>2
    <2>2. s[i] = <<"login", "read", "close">>[((i - 1) % 3) + 1]
      BY <1>1
    <2>3. s[i] \in {"login", "read", "close"}
      BY <2>1, <2>2
    <2> QED
      BY <2>3 DEF StepsOf
  <1>4. s \in Seq(S) /\ DOMAIN s = 1..(n * 3)
    <2>1. n * 3 \in Nat
      BY <1>2
    <2> HIDE DEF S
    <2> QED
      BY <1>1, <1>3, <2>1, IsASeq
  <1>5. s # <<>> => s[Len(s)] = "close"
    <2> SUFFICES ASSUME s # <<>> PROVE s[Len(s)] = "close"
      OBVIOUS
    <2>1. Len(s) \in Nat /\ DOMAIN s = 1..Len(s) /\ Len(s) # 0
      BY <1>4, LenProperties, EmptySeq
    <2>2. Len(s) = n * 3
      BY <1>2, <1>4, <2>1
    <2>3. n * 3 \in 1..(n * 3) /\ ((n * 3 - 1) % 3) + 1 = 3
      BY <1>2, <2>1, <2>2
    <2> QED
      BY <1>1, <2>2, <2>3
  <1>6. Shape("client_types", s)
    BY <1>3, <1>4, <1>5 DEF Shape, Follows, Requests, Acquires, Sweeps, S
  <1> QED
    BY <1>6 DEF s

LEMMA SweepKeysShape == Shape("sweep_keys", Probe!SweepKeys)
  <1> DEFINE S == StepsOf("sweep_keys")
             a == <<"login">>
             x == "read"
             s == a \o Probe!Times(Candidates, x)
  <1>1. a \in Seq(S) /\ x \in S /\ Len(a) = 1 /\ a[1] = "login"
    BY DEF StepsOf
  <1>2. s = Probe!SweepKeys
    BY DEF Probe!SweepKeys
  <1> HIDE DEF S, a, x
  <1>3. /\ s \in Seq(S) /\ DOMAIN s = 1..(Len(a) + Candidates)
        /\ \A i \in 1..Len(a) : s[i] = a[i]
        /\ \A i \in 1..(Len(a) + Candidates) : i > Len(a) => s[i] = x
    <2>1. a \in Seq(S) /\ x \in S
      BY <1>1
    <2> QED
      BY <2>1, FirstThen
  <1> HIDE DEF s
  <1>4. s \in Seq(S) /\ \A i \in DOMAIN s : s[i] \in {"login", "read"}
    BY <1>1, <1>3 DEF x
  <1>5. Shape("sweep_keys", s)
    BY <1>4 DEF Shape, Follows, Requests, Acquires, Sweeps, S
  <1> QED
    BY <1>2, <1>5

LEMMA SweepInstancesShape == Shape("sweep_instances", Probe!SweepInstances)
  <1> DEFINE S == StepsOf("sweep_instances")
             n == Candidates
             a == <<"login">>
             r == Probe!Rounds(n, <<"maybe_acquire", "destroy">>)
             s == a \o r
  <1>1. a \in Seq(S) /\ Len(a) = 1 /\ a[1] = "login" /\ n \in Nat
    BY DEF StepsOf
  <1>2. r = [i \in 1..(n * 2) |-> IF (i - 1) % 2 = 0 THEN "maybe_acquire" ELSE "destroy"]
    BY DEF Probe!Rounds
  <1>3. s = Probe!SweepInstances
    BY DEF Probe!SweepInstances
  <1> HIDE DEF a, r, n
  <1>4. r \in Seq(S) /\ Len(r) = n * 2
    <2>1. n * 2 \in Nat /\ \A i \in 1..(n * 2) : r[i] \in S
      BY <1>1, <1>2 DEF StepsOf
    <2> HIDE DEF S
    <2>2. r \in Seq(S)
      BY <1>2, <2>1, IsASeq
    <2> QED
      BY <1>2, <2>1, <2>2, LenProperties
  <1>5. /\ s \in Seq(S) /\ DOMAIN s = 1..(Len(a) + Len(r))
        /\ \A i \in 1..Len(a) : s[i] = a[i]
        /\ \A i \in 1..Len(r) : s[Len(a) + i] = r[i]
    <2> HIDE DEF s, S
    <2>1. a \in Seq(S) /\ r \in Seq(S)
      BY <1>1, <1>4
    <2> QED
      BY <2>1, Joined DEF s
  <1> HIDE DEF s
  <1>6. DOMAIN s = 1..(1 + n * 2) /\ s[1] = "login" /\ n * 2 \in Nat
    BY <1>1, <1>4, <1>5
  <1>7. ASSUME NEW i \in DOMAIN s, i # 1
        PROVE  s[i] = IF i % 2 = 0 THEN "maybe_acquire" ELSE "destroy"
    <2>1. i - 1 \in 1..(n * 2) /\ 1 + (i - 1) = i /\ ((i - 1) - 1) % 2 = i % 2
      BY <1>1, <1>6, <1>7
    <2>2. s[i] = r[i - 1]
      <3>1. s[Len(a) + (i - 1)] = r[i - 1]
        BY <1>4, <1>5, <2>1
      <3> QED
        BY <1>1, <2>1, <3>1
    <2>3. r[i - 1] = IF ((i - 1) - 1) % 2 = 0 THEN "maybe_acquire" ELSE "destroy"
      BY <1>2, <2>1
    <2> QED
      BY <2>1, <2>2, <2>3
  <1>8. ASSUME NEW i \in DOMAIN s, s[i] \in Acquires
        PROVE  i + 1 \in DOMAIN s /\ s[i + 1] = "destroy"
    <2>1. i # 1 /\ i % 2 = 0 /\ i \in Nat
      BY <1>6, <1>7, <1>8 DEF Acquires
    <2>2. i + 1 \in DOMAIN s /\ i + 1 # 1 /\ (i + 1) % 2 = 1
      BY <1>1, <1>6, <1>8, <2>1
    <2> QED
      BY <1>7, <2>2
  <1>9. \A i \in DOMAIN s :
          /\ s[i] \in {"login", "maybe_acquire", "destroy"}
          /\ s[i] = "login" => i = 1
    BY <1>6, <1>7
  <1>10. ASSUME NEW i \in DOMAIN s, NEW k \in DOMAIN s, s[i] \in Acquires, i < k
         PROVE  \E j \in i..k : s[j] = "destroy"
    <2>1. i + 1 \in i..k
      BY <1>6, <1>10
    <2> QED
      BY <1>8, <1>10, <2>1
  <1>11. ASSUME NEW i \in DOMAIN s, s[i] \in Acquires
         PROVE  \E j \in DOMAIN s : i < j /\ s[j] = "destroy"
    <2>1. i < i + 1
      BY <1>6
    <2> QED
      BY <1>8, <1>11, <2>1
  <1>12. Shape("sweep_instances", s)
    BY <1>5, <1>9, <1>10, <1>11 DEF Shape, Follows, Requests, Acquires, S
  <1> QED
    BY <1>3, <1>12

LEMMA InspectShape == Shape("inspect", Probe!InspectService)
  <1> DEFINE s == <<"login", "read", "maybe_acquire", "read", "destroy">>
  <1>1. /\ s \in Seq(StepsOf("inspect")) /\ DOMAIN s = 1..5 /\ 5 \in DOMAIN s
        /\ s[1] = "login" /\ s[2] = "read" /\ s[3] = "maybe_acquire" /\ s[4] = "read"
        /\ s[5] = "destroy"
    BY DEF StepsOf
  <1> HIDE DEF s
  <1>2. ASSUME NEW i \in DOMAIN s
        PROVE  /\ s[i] \in Acquires <=> i = 3
               /\ s[i] = "login" <=> i = 1
               /\ s[i] \notin Requests \union {"modes", "guard", "close"}
    <2>1. i \in {1, 2, 3, 4, 5}
      BY <1>1
    <2> QED
      BY <1>1, <2>1 DEF Acquires, Requests
  <1>3. ASSUME NEW i \in DOMAIN s, s[i] \in Acquires
        PROVE  \E j \in DOMAIN s : i < j /\ s[j] = "destroy"
    <2>1. i < 5
      BY <1>2, <1>3
    <2> QED
      BY <1>1, <2>1
  <1>4. \A i, k \in DOMAIN s : s[i] \in Acquires /\ s[k] \in Acquires => i = k
    BY <1>2
  <1>5. \A i, k \in DOMAIN s : i = k => ~(i < k)
    BY <1>1
  <1>6. Shape("inspect", s)
    BY <1>1, <1>2, <1>3, <1>4, <1>5 DEF Shape, Follows, Sweeps
  <1> QED
    BY <1>6 DEF s, Probe!InspectService

LEMMA GettersShape == Shape("getters", Probe!ProbeGetters)
  <1> DEFINE S == StepsOf("getters")
             a == <<"login", "read", "acquire">>
             x == "getter"
             s == a \o Probe!Times(Candidates, x)
  <1>1. /\ a \in Seq(S) /\ x \in S /\ Len(a) = 3
        /\ a[1] = "login" /\ a[2] = "read" /\ a[3] = "acquire"
    BY DEF StepsOf
  <1>2. s = Probe!ProbeGetters
    BY DEF Probe!ProbeGetters, Probe!GetterShapes
  <1> HIDE DEF S, a, x
  <1>3. /\ s \in Seq(S) /\ DOMAIN s = 1..(Len(a) + Candidates)
        /\ \A i \in 1..Len(a) : s[i] = a[i]
        /\ \A i \in 1..(Len(a) + Candidates) : i > Len(a) => s[i] = x
    <2>1. a \in Seq(S) /\ x \in S
      BY <1>1
    <2> QED
      BY <2>1, FirstThen
  <1> HIDE DEF s
  <1>4. /\ DOMAIN s = 1..(3 + Candidates)
        /\ s[1] = "login" /\ s[2] = "read" /\ s[3] = "acquire"
        /\ \A i \in DOMAIN s : i > 3 => s[i] = x
    BY <1>1, <1>3
  <1>5. ASSUME NEW i \in DOMAIN s
        PROVE  /\ s[i] \in Acquires => i = 3
               /\ s[i] \notin Requests \union {"modes", "guard", "close"}
    <2>1. i \in {1, 2, 3} \/ i > 3
      BY <1>4
    <2> QED
      BY <1>4, <2>1 DEF Acquires, Requests, x
  <1>6. \A i, k \in DOMAIN s : s[i] \in Acquires /\ s[k] \in Acquires => ~(i < k)
    BY <1>4, <1>5
  <1>7. Shape("getters", s)
    BY <1>3, <1>5, <1>6 DEF Shape, Follows, Sweeps, S
  <1> QED
    BY <1>2, <1>7

LEMMA DisarmShape == Shape("disarm", Probe!ProbeDisarm) /\ Guarded(Probe!ProbeDisarm)
  <1> DEFINE S == StepsOf("disarm")
             a == <<"login", "modes", "guard", "read", "maybe_acquire">>
             x == "try disarm"
             s == a \o Probe!Times(Candidates, x)
  <1>1. /\ a \in Seq(S) /\ x \in S /\ Len(a) = 5
        /\ a[1] = "login" /\ a[2] = "modes" /\ a[3] = "guard" /\ a[4] = "read"
        /\ a[5] = "maybe_acquire"
    BY DEF StepsOf
  <1>2. s = Probe!ProbeDisarm
    BY DEF Probe!ProbeDisarm, Probe!DisarmShapes
  <1> HIDE DEF S, a, x
  <1>3. /\ s \in Seq(S) /\ DOMAIN s = 1..(Len(a) + Candidates)
        /\ \A i \in 1..Len(a) : s[i] = a[i]
        /\ \A i \in 1..(Len(a) + Candidates) : i > Len(a) => s[i] = x
    <2>1. a \in Seq(S) /\ x \in S
      BY <1>1
    <2> QED
      BY <2>1, FirstThen
  <1> HIDE DEF s
  <1>4. /\ DOMAIN s = 1..(5 + Candidates)
        /\ s[1] = "login" /\ s[2] = "modes" /\ s[3] = "guard" /\ s[4] = "read"
        /\ s[5] = "maybe_acquire"
        /\ \A i \in DOMAIN s : i > 5 => s[i] = x
    BY <1>1, <1>3
  <1>5. ASSUME NEW i \in DOMAIN s
        PROVE  /\ s[i] \in Acquires => i = 5
               /\ s[i] = "modes" => i = 2
               /\ s[i] = "guard" => i = 3
               /\ s[i] \in Requests => i > 5
               /\ s[i] # "close"
    <2>1. i \in {1, 2, 3, 4, 5} \/ i > 5
      BY <1>4
    <2> QED
      BY <1>4, <2>1 DEF Acquires, Requests, x
  <1>6. \A i, k \in DOMAIN s : s[i] \in Acquires /\ s[k] \in Acquires => ~(i < k)
    BY <1>4, <1>5
  <1>7. \A i, j \in DOMAIN s : s[i] \in Requests /\ s[j] \in {"modes", "guard"} => j < i
    BY <1>4, <1>5
  <1>8. \A i \in DOMAIN s : s[i] = "modes" => Follows(s, i, "guard")
    BY <1>4, <1>5 DEF Follows
  <1>9. Shape("disarm", s)
    BY <1>3, <1>5, <1>6, <1>7, <1>8 DEF Shape, Sweeps, S
  <1>10. Guarded(s)
    BY <1>4 DEF Guarded
  <1> QED
    BY <1>2, <1>9, <1>10

LEMMA ConditionShape ==
  ASSUME NEW o \in [allow_arm : BOOLEAN, at_panel : BOOLEAN, instance : BOOLEAN]
  PROVE  Shape("condition", Probe!ProbeCondition(o)) /\ Guarded(Probe!ProbeCondition(o))
  <1> DEFINE S == StepsOf("condition")
             a == <<"login", "read">>
  <1>1. a \in Seq(S) /\ Len(a) = 2 /\ a[1] = "login" /\ a[2] = "read"
    BY DEF StepsOf
  <1>2. CASE ~o.at_panel
    <2>1. Probe!ProbeCondition(o) = a
      BY <1>1, <1>2 DEF Probe!ProbeCondition
    <2> HIDE DEF a
    <2>2. DOMAIN a = 1..2
      BY <1>1, LenProperties
    <2>3. \A i \in DOMAIN a : a[i] \in {"login", "read"}
      BY <1>1, <2>2
    <2>4. Shape("condition", a)
      BY <1>1, <2>3 DEF Shape, Follows, Requests, Acquires, Sweeps, S
    <2>5. Guarded(a)
      BY <2>3 DEF Guarded, Requests
    <2> QED
      BY <2>1, <2>4, <2>5
  <1>3. CASE o.at_panel
    <2> DEFINE g == <<"modes", "guard">>
               x == "try condition"
               b == g \o Probe!Times(Candidates, x)
               s == a \o b
    <2>1. g \in Seq(S) /\ x \in S /\ Len(g) = 2 /\ g[1] = "modes" /\ g[2] = "guard"
      BY DEF StepsOf
    <2>2. s = Probe!ProbeCondition(o)
      BY <1>3 DEF Probe!ProbeCondition, Probe!ConditionShapes
    <2> HIDE DEF S, a, g, x
    <2>3. /\ b \in Seq(S) /\ Len(b) = Len(g) + Candidates
          /\ \A i \in 1..Len(g) : b[i] = g[i]
          /\ \A i \in 1..(Len(g) + Candidates) : i > Len(g) => b[i] = x
      <3>1. g \in Seq(S) /\ x \in S
        BY <2>1
      <3> QED
        BY <3>1, FirstThen
    <2> HIDE DEF b
    <2>4. /\ s \in Seq(S) /\ DOMAIN s = 1..(Len(a) + Len(b))
          /\ \A i \in 1..Len(a) : s[i] = a[i]
          /\ \A i \in 1..Len(b) : s[Len(a) + i] = b[i]
      <3>1. a \in Seq(S) /\ b \in Seq(S)
        BY <1>1, <2>3
      <3> QED
        BY <3>1, Joined
    <2> HIDE DEF s
    <2>5. /\ Len(b) = 2 + Candidates /\ b[1] = "modes" /\ b[2] = "guard"
          /\ \A i \in 1..(2 + Candidates) : i > 2 => b[i] = x
      BY <2>1, <2>3
    <2>6. /\ DOMAIN s = 1..(4 + Candidates)
          /\ s[1] = "login" /\ s[2] = "read" /\ s[3] = "modes" /\ s[4] = "guard"
      BY <1>1, <2>4, <2>5
    <2>7. ASSUME NEW i \in DOMAIN s, i > 4 PROVE s[i] = x
      <3>1. i - 2 \in 1..(2 + Candidates) /\ i - 2 > 2 /\ 2 + (i - 2) = i
        BY <2>6, <2>7
      <3>2. s[Len(a) + (i - 2)] = b[i - 2]
        BY <2>4, <2>5, <3>1
      <3> QED
        BY <1>1, <2>5, <3>1, <3>2
    <2>8. ASSUME NEW i \in DOMAIN s
          PROVE  /\ s[i] = "modes" => i = 3
                 /\ s[i] = "guard" => i = 4
                 /\ s[i] \in Requests => i > 4
                 /\ s[i] \notin Acquires \union {"close"}
      <3>1. i \in {1, 2, 3, 4} \/ i > 4
        BY <2>6
      <3> QED
        BY <2>6, <2>7, <3>1 DEF Acquires, Requests, x
    <2>9. \A i, j \in DOMAIN s : s[i] \in Requests /\ s[j] \in {"modes", "guard"} => j < i
      BY <2>6, <2>8
    <2>10. \A i \in DOMAIN s : s[i] = "modes" => Follows(s, i, "guard")
      BY <2>6, <2>8 DEF Follows
    <2>11. Shape("condition", s)
      BY <2>4, <2>8, <2>9, <2>10 DEF Shape, Sweeps, S
    <2>12. Guarded(s)
      BY <2>6 DEF Guarded
    <2> QED
      BY <2>2, <2>11, <2>12
  <1> QED
    BY <1>2, <1>3

LEMMA PlanShape ==
  ASSUME NEW m \in Modes,
         NEW o \in [allow_arm : BOOLEAN, at_panel : BOOLEAN, instance : BOOLEAN]
  PROVE  Shape(m, Probe!Plan(m, o)) /\ (m \in Probe!Trials => Guarded(Probe!Plan(m, o)))
  BY TrialShape, ClientTypesShape, SweepKeysShape, SweepInstancesShape, InspectShape,
     GettersShape, DisarmShape, ConditionShape
     DEF Probe!Plan, Modes, Probe!Trials, Probe!ReadOnly

-----------------------------------------------------------------------------
(* The probe takes its steps.                                              *)

LEMMA ShapeIsTyped ==
  ASSUME NEW m \in Modes, NEW s, Shape(m, s)
  PROVE  s \in Seq(Probe!Steps)
  <1>1. StepsOf(m) \subseteq Probe!Steps
    BY DEF StepsOf, Modes, Probe!Trials, Probe!ReadOnly, Probe!Steps
  <1>2. s \in Seq(StepsOf(m))
    BY DEF Shape
  <1> QED
    BY <1>1, <1>2, SeqMonotonic

\* The next step is one of its mode's.
LEMMA HeadFits ==
  ASSUME ProbeInv, todo # <<>>
  PROVE  /\ Head(todo) \in StepsOf(mode) /\ Left(Head(todo)) /\ mode \in Modes
         /\ DOMAIN todo = 1..Len(todo) /\ Len(todo) \in Nat \ {0} /\ Head(todo) = todo[1]
         /\ 1 \in DOMAIN todo
  <1>1. Shape(mode, todo) /\ todo \in Seq(StepsOf(mode)) /\ mode \in Modes
    BY DEF ProbeInv, Shape, Modes, Probe!TypeOK
  <1>2. /\ DOMAIN todo = 1..Len(todo) /\ Len(todo) \in Nat \ {0} /\ Head(todo) = todo[1]
    BY <1>1, TailKeepsShape
  <1>3. 1 \in DOMAIN todo
    BY <1>2
  <1>4. todo[1] \in StepsOf(mode)
    BY <1>1, <1>2, <1>3, ElementOfSeq
  <1> QED
    BY <1>1, <1>2, <1>3, <1>4 DEF Left

\* No step left is lost but the one that is taken, and none is new.
LEMMA DoneLeaves ==
  ASSUME ProbeInv, todo # <<>>, Probe!Done, mode' = mode
  PROVE  /\ Shape(mode, todo)' /\ (todo \in Seq(Probe!Steps))'
         /\ \A step : Left(step)' => Left(step)
         /\ \A step : Left(step) /\ step # Head(todo) => Left(step)'
         /\ DOMAIN todo' = 1..(Len(todo) - 1) /\ Len(todo) \in Nat \ {0}
         /\ \A i \in 1..(Len(todo) - 1) : todo'[i] = todo[i + 1]
  <1>1. Shape(mode, todo) /\ mode \in Modes
    BY DEF ProbeInv, Modes, Probe!TypeOK
  <1> DEFINE t == Tail(todo)
  <1>2. /\ Shape(mode, t)
        /\ Len(todo) \in Nat \ {0} /\ DOMAIN todo = 1..Len(todo) /\ Head(todo) = todo[1]
        /\ DOMAIN t = 1..(Len(todo) - 1)
        /\ \A i \in 1..(Len(todo) - 1) : t[i] = todo[i + 1]
    BY <1>1, TailKeepsShape
  <1>3. t \in Seq(Probe!Steps)
    <2> HIDE DEF t
    <2> QED
      BY <1>1, <1>2, ShapeIsTyped
  <1>4. todo' = t
    BY DEF Probe!Done
  <1> HIDE DEF t
  <1>5. ASSUME NEW step, Left(step)' PROVE Left(step)
    <2>1. PICK i \in 1..(Len(todo) - 1) : todo[i + 1] = step
      BY <1>2, <1>4, <1>5 DEF Left
    <2>2. i + 1 \in 1..Len(todo)
      BY <1>2
    <2> QED
      BY <1>2, <2>1, <2>2 DEF Left
  <1>6. ASSUME NEW step, Left(step), step # Head(todo) PROVE Left(step)'
    <2>1. PICK i \in 1..Len(todo) : todo[i] = step
      BY <1>2, <1>6 DEF Left
    <2>2. i # 1
      BY <1>2, <1>6, <2>1
    <2>3. i - 1 \in 1..(Len(todo) - 1) /\ (i - 1) + 1 = i
      BY <1>2, <2>2
    <2>4. t[i - 1] = step /\ i - 1 \in DOMAIN t
      BY <1>2, <2>1, <2>3
    <2> QED
      BY <1>4, <2>4 DEF Left
  <1> QED
    BY <1>2, <1>3, <1>4, <1>5, <1>6

\* What the finally block leaves.
LEMMA CleanupLeaves ==
  ASSUME ProbeInv, todo' = Probe!Cleanup, mode' = mode
  PROVE  /\ Shape(mode, todo)' /\ (todo \in Seq(Probe!Steps))'
         /\ \A step : Left(step)' => step \in {"destroy", "close"}
         /\ object /\ mode \in Owners =>
              \A i \in DOMAIN todo' : \E j \in 1..i : todo'[j] = "destroy"
  <1>1. mode \in Modes
    BY DEF ProbeInv, Modes, Probe!TypeOK
  <1>2. CASE object /\ mode \in Owners
    <2> DEFINE t == <<"destroy", "close">>
    <2>1. todo' = t
      BY <1>2 DEF Probe!Cleanup, Owners
    <2>2. DOMAIN t = {1, 2} /\ t[1] = "destroy" /\ t[2] = "close"
      OBVIOUS
    <2>3. Shape(mode, t)
      BY <1>1, <1>2, CleanupShape
    <2>4. t \in Seq(Probe!Steps)
      <3> HIDE DEF t
      <3> QED
        BY <1>1, <2>3, ShapeIsTyped
    <2> HIDE DEF t
    <2>5. \A i \in DOMAIN t : \E j \in 1..i : t[j] = "destroy"
      BY <2>2
    <2> QED
      BY <2>1, <2>2, <2>3, <2>4, <2>5 DEF Left
  <1>3. CASE ~(object /\ mode \in Owners)
    <2> DEFINE t == <<"close">>
    <2>1. todo' = t
      BY <1>3 DEF Probe!Cleanup, Owners
    <2>2. DOMAIN t = {1} /\ t[1] = "close"
      OBVIOUS
    <2>3. Shape(mode, t)
      BY <1>1, CleanupShape
    <2>4. t \in Seq(Probe!Steps)
      <3> HIDE DEF t
      <3> QED
        BY <1>1, <2>3, ShapeIsTyped
    <2> HIDE DEF t
    <2> QED
      BY <1>3, <2>1, <2>2, <2>3, <2>4 DEF Left
  <1> QED
    BY <1>2, <1>3

\* While the line holds, the next step finds an instance only where one may be.
LEMMA ObjectFits ==
  ASSUME ProbeInv, todo # <<>>, ~broke, object
  PROVE  /\ Head(todo) \notin Acquires \union {"close"}
         /\ Head(todo) = "login" => mode \in Owners
         /\ Head(todo) # "maybe_acquire"
  <1>1. Left(Head(todo)) /\ Head(todo) = todo[1] /\ 1 \in DOMAIN todo
    BY HeadFits
  <1>2. mode \in Owners \union Sweeps
    BY DEF ProbeInv, ObjectIsReturned
  <1>3. ASSUME Head(todo) \in Acquires \union {"close"} PROVE FALSE
    <2>1. PICK j \in 1..1 : todo[j] = "destroy"
      BY <1>1, <1>3 DEF ProbeInv, ObjectIsReturned
    <2>2. todo[1] = "destroy"
      BY <2>1
    <2> QED
      BY <1>1, <1>3, <2>2 DEF Acquires
  <1>4. Head(todo) = "login" => mode \notin Sweeps
    BY <1>1 DEF ProbeInv, ObjectIsReturned
  <1> QED
    BY <1>2, <1>3, <1>4 DEF Acquires

\* What the run has sent and keeps, which most steps leave alone.
untouched == <<mode, opts, armed, arms, instances, object, sent, won, extra>>

\* A step but a destroy leaves the instance to the steps that are left.
LEMMA ObjectKept ==
  ASSUME ProbeInv, todo # <<>>, Probe!Done, UNCHANGED <<mode, instances, object, broke>>,
         Head(todo) # "destroy", ~broke /\ object => control' = "up"
  PROVE  ObjectIsReturned'
  <1>1. /\ \A step : Left(step)' => Left(step)
        /\ \A step : Left(step) /\ step # Head(todo) => Left(step)'
        /\ DOMAIN todo' = 1..(Len(todo) - 1) /\ Len(todo) \in Nat \ {0}
        /\ \A i \in 1..(Len(todo) - 1) : todo'[i] = todo[i + 1]
    BY DoneLeaves
  <1>2. DOMAIN todo = 1..Len(todo) /\ Head(todo) = todo[1]
    BY HeadFits
  <1> SUFFICES ASSUME ~broke
               PROVE  /\ instances = IF object THEN 1 ELSE 0
                      /\ object =>
                           /\ control' = "up" /\ mode \in Owners \union Sweeps
                           /\ \A i \in DOMAIN todo' : todo'[i] \in Acquires \union {"close"} =>
                                \E j \in 1..i : todo'[j] = "destroy"
                           /\ mode \in Sweeps => Left("destroy")' /\ ~Left("login")'
    BY DEF ObjectIsReturned
  <1>3. /\ instances = IF object THEN 1 ELSE 0
        /\ object => control' = "up" /\ mode \in Owners \union Sweeps
        /\ object /\ mode \in Sweeps => Left("destroy")' /\ ~Left("login")'
    BY <1>1 DEF ProbeInv, ObjectIsReturned
  <1>4. ASSUME object, NEW i \in DOMAIN todo', todo'[i] \in Acquires \union {"close"}
        PROVE  \E j \in 1..i : todo'[j] = "destroy"
    <2>1. i \in 1..(Len(todo) - 1) /\ i + 1 \in DOMAIN todo /\ todo[i + 1] = todo'[i]
      BY <1>1, <1>2
    <2>2. PICK j \in 1..(i + 1) : todo[j] = "destroy"
      BY <1>4, <2>1 DEF ProbeInv, ObjectIsReturned
    <2>3. j # 1
      BY <1>2, <2>2
    <2>4. j - 1 \in 1..i /\ j - 1 \in 1..(Len(todo) - 1) /\ (j - 1) + 1 = j
      BY <1>1, <2>1, <2>2, <2>3
    <2> QED
      BY <1>1, <2>2, <2>4
  <1> QED
    BY <1>3, <1>4

\* A step that only goes on: what the guard saw is as it was or not wanted yet.
LEMMA GoesOn ==
  ASSUME ProbeInv, todo # <<>>, Probe!Done, UNCHANGED <<mode, opts, arms, instances, object>>,
         armed' \in BOOLEAN,
         \/ UNCHANGED <<sent, won, extra>>
         \/ /\ mode \notin Probe!Trials
            /\ sent' \in Nat /\ won' \in BOOLEAN /\ extra' \in Nat,
         Head(todo) # "destroy", risky' = risky, broke' = broke,
         control' \in {"none", "up", "broken"},
         ~broke /\ object => control' = "up",
         seen' \in {"unread", "disarmed", "armed", "blank"},
         \/ seen' = seen /\ (Head(todo) = "guard" => opts.allow_arm \/ Probe!NoneSeenArmed)
         \/ Head(todo) = "modes"
  PROVE  ProbeInv'
  <1>u. /\ UNCHANGED <<mode, opts, arms, instances, object>>
        /\ sent' \in Nat /\ won' \in BOOLEAN /\ extra' \in Nat
        /\ mode \in Probe!Trials => UNCHANGED <<sent, won, extra>>
    BY DEF ProbeInv, Probe!TypeOK
  <1>1. /\ Shape(mode, todo)' /\ (todo \in Seq(Probe!Steps))'
        /\ \A step : Left(step)' => Left(step)
        /\ \A step : Left(step) /\ step # Head(todo) => Left(step)'
        /\ DOMAIN todo' = 1..(Len(todo) - 1) /\ Len(todo) \in Nat \ {0}
        /\ \A i \in 1..(Len(todo) - 1) : todo'[i] = todo[i + 1]
    BY <1>u, DoneLeaves
  <1>2. /\ Left(Head(todo)) /\ DOMAIN todo = 1..Len(todo) /\ Head(todo) = todo[1]
        /\ 1 \in DOMAIN todo
    BY HeadFits
  <1>3. Probe!TypeOK'
    BY <1>u, <1>1 DEF ProbeInv, Probe!TypeOK
  <1>4. RequestsEnd'
    BY <1>u, <1>1 DEF ProbeInv, RequestsEnd
  <1>5. GuardComesFirst'
    <2> SUFFICES ASSUME mode \in Probe!Trials
                 PROVE  /\ sent > 0 => ~Left("modes")' /\ (opts.allow_arm \/ Probe!NoneSeenArmed')
                        /\ (\E r \in Requests : Left(r)') =>
                             opts.allow_arm \/ Left("guard")' \/ Probe!NoneSeenArmed'
      BY <1>u DEF GuardComesFirst
    <2>1. CASE Head(todo) = "modes"
      <3>1. ~(sent > 0)
        BY <1>2, <2>1 DEF ProbeInv, GuardComesFirst
      <3>2. Follows(todo, 1, "guard")
        BY <1>2, <2>1 DEF ProbeInv, Shape
      <3>3. 1 \in 1..(Len(todo) - 1) /\ todo[1 + 1] = "guard"
        BY <1>1, <1>2, <3>2 DEF Follows
      <3>4. Left("guard")'
        BY <1>1, <3>3 DEF Left
      <3> QED
        BY <3>1, <3>4
    <2>2. CASE Head(todo) # "modes"
      <3>1. /\ seen' = seen
            /\ Head(todo) = "guard" => opts.allow_arm \/ Probe!NoneSeenArmed
        BY <2>2
      <3>2. Left("guard") => Left("guard")' \/ opts.allow_arm \/ Probe!NoneSeenArmed
        BY <1>1, <3>1
      <3> QED
        BY <1>1, <3>1, <3>2 DEF ProbeInv, GuardComesFirst, Probe!NoneSeenArmed
    <2> QED
      BY <2>1, <2>2
  <1>6. ObjectIsReturned'
    BY <1>u, ObjectKept
  <1>7. RiskIsTheLast'
    BY <1>1 DEF ProbeInv, RiskIsTheLast
  <1> QED
    BY <1>1, <1>3, <1>4, <1>5, <1>6, <1>7 DEF ProbeInv

\* A step that goes to the finally block, which destroys what the mode has to.
LEMMA GoesToCleanup ==
  ASSUME ProbeInv, todo' = Probe!Cleanup, UNCHANGED untouched, seen' = seen,
         risky' \in {0, 1}, broke' \in BOOLEAN, broke => broke',
         control' \in {"none", "up", "broken"},
         ~broke' /\ object => mode \in Owners /\ control' = "up"
  PROVE  ProbeInv'
  <1>u. UNCHANGED <<mode, opts, armed, arms, instances, object, sent, won, extra>>
    BY DEF untouched
  <1>1. /\ Shape(mode, todo)' /\ (todo \in Seq(Probe!Steps))'
        /\ \A step : Left(step)' => step \in {"destroy", "close"}
        /\ object /\ mode \in Owners =>
             \A i \in DOMAIN todo' : \E j \in 1..i : todo'[j] = "destroy"
    BY <1>u, CleanupLeaves
  <1>2. Probe!TypeOK'
    BY <1>u, <1>1 DEF ProbeInv, Probe!TypeOK
  <1>3. RequestsEnd'
    BY <1>u, <1>1 DEF ProbeInv, RequestsEnd, Requests
  <1>4. GuardComesFirst'
    <2>1. ~Left("modes")' /\ \A r \in Requests : ~Left(r)'
      BY <1>1 DEF Requests, Left
    <2> QED
      BY <1>u, <2>1 DEF ProbeInv, GuardComesFirst, Probe!NoneSeenArmed
  <1>5. ObjectIsReturned'
    BY <1>u, <1>1 DEF ProbeInv, ObjectIsReturned, Probe!TypeOK, Owners, Sweeps
  <1>6. RiskIsTheLast'
    BY <1>1 DEF RiskIsTheLast, LogIns
  <1> QED
    BY <1>1, <1>2, <1>3, <1>4, <1>5, <1>6 DEF ProbeInv

\* --probe-client-types goes on to the next type; it has no instance.
LEMMA GoesToNextType ==
  ASSUME ProbeInv, todo # <<>>, mode = "client_types", todo' = Probe!NextType,
         UNCHANGED untouched, seen' = seen, risky' = risky,
         broke' \in BOOLEAN, broke => broke', control' \in {"none", "up", "broken"}
  PROVE  ProbeInv'
  <1>u. UNCHANGED <<mode, opts, armed, arms, instances, object, sent, won, extra>>
    BY DEF untouched
  <1>1. /\ Shape(mode, Probe!NextType)
        /\ \A step : (\E i \in DOMAIN Probe!NextType : Probe!NextType[i] = step) => Left(step)
    BY NextTypeKeepsShape DEF ProbeInv
  <1>2. Probe!NextType \in Seq(Probe!Steps)
    BY <1>1, ShapeIsTyped DEF ProbeInv, Modes, Probe!TypeOK
  <1>3. /\ Shape(mode, todo)' /\ (todo \in Seq(Probe!Steps))'
        /\ \A step : Left(step)' => Left(step)
    BY <1>u, <1>1, <1>2 DEF Left
  <1>4. Probe!TypeOK'
    BY <1>u, <1>3 DEF ProbeInv, Probe!TypeOK
  <1>5. mode \notin Probe!Trials \union Owners \union Sweeps
    BY DEF Probe!Trials, Owners, Sweeps
  <1>6. RequestsEnd' /\ GuardComesFirst'
    BY <1>u, <1>5 DEF RequestsEnd, GuardComesFirst
  <1>7. ObjectIsReturned'
    BY <1>u, <1>5 DEF ProbeInv, ObjectIsReturned
  <1>8. RiskIsTheLast'
    BY <1>3 DEF ProbeInv, RiskIsTheLast
  <1> QED
    BY <1>3, <1>4, <1>6, <1>7, <1>8 DEF ProbeInv

\* A request that may change the panel is sent, and the run goes on or ends.
LEMMA Requested ==
  ASSUME ProbeInv, todo # <<>>, Head(todo) \in Requests,
         UNCHANGED <<mode, opts, control, seen, arms, instances, object, risky, broke>>,
         NEW n \in 1..2, NEW ok \in BOOLEAN, Probe!Sends(n, ok),
         mode = "trial" => n = 1,
         control = "up" \/ mode = "trial",
         \/ Probe!Done /\ (ok => mode = "trial")
         \/ todo' = Probe!Cleanup
  PROVE  ProbeInv'
  <1>1. /\ Left(Head(todo)) /\ DOMAIN todo = 1..Len(todo) /\ Len(todo) \in Nat \ {0}
        /\ Head(todo) = todo[1] /\ 1 \in DOMAIN todo /\ Head(todo) \in StepsOf(mode)
        /\ mode \in Modes
    BY HeadFits
  <1>2. /\ mode \in {"trial", "disarm", "condition"}
        /\ mode \in Probe!Trials
        /\ mode = "trial" => Head(todo) = "send"
    BY <1>1 DEF Requests, StepsOf, Modes, Probe!Trials, Probe!ReadOnly
  <1>3. ~won /\ extra = 0 /\ (mode = "trial" => sent = 0)
    BY <1>1, <1>2 DEF ProbeInv, RequestsEnd, Probe!TypeOK
  <1>4. /\ sent' = sent + n /\ won' = ok /\ extra' = 0 /\ armed' \in BOOLEAN
        /\ sent' \in Nat /\ sent' > 0
    <2>1. sent \in Nat /\ armed \in BOOLEAN /\ won \in BOOLEAN /\ n \in Nat /\ n > 0
      BY DEF ProbeInv, Probe!TypeOK
    <2>2. sent' = sent + n /\ won' = (won \/ ok) /\ extra' = extra + IF won THEN n ELSE 0
      BY DEF Probe!Sends
    <2>3. armed' \in {armed} \union (IF ok THEN {FALSE} ELSE {})
      BY DEF Probe!Sends
    <2>4. armed' \in BOOLEAN
      BY <2>1, <2>3
    <2>5. won' = ok /\ extra' = 0
      BY <1>3, <2>2
    <2>6. sent' \in Nat /\ sent' > 0
      BY <2>1, <2>2
    <2> QED
      BY <2>2, <2>4, <2>5, <2>6
  <1>5. ~Left("modes") /\ ~Left("guard")
    <2>1. ASSUME NEW j \in DOMAIN todo, todo[j] \in {"modes", "guard"} PROVE FALSE
      <3>1. j < 1
        BY <1>1, <2>1 DEF ProbeInv, Shape
      <3> QED
        BY <1>1, <3>1
    <2> QED
      BY <2>1 DEF Left
  <1>6. opts.allow_arm \/ Probe!NoneSeenArmed
    BY <1>1, <1>2, <1>5 DEF ProbeInv, GuardComesFirst
  <1>7. CASE Probe!Done /\ (ok => mode = "trial")
    <2>1. /\ Shape(mode, todo)' /\ (todo \in Seq(Probe!Steps))'
          /\ \A step : Left(step)' => Left(step)
          /\ \A step : Left(step) /\ step # Head(todo) => Left(step)'
          /\ DOMAIN todo' = 1..(Len(todo) - 1)
          /\ \A i \in 1..(Len(todo) - 1) : todo'[i] = todo[i + 1]
      BY <1>7, DoneLeaves
    <2>2. Probe!TypeOK'
      BY <1>4, <2>1 DEF ProbeInv, Probe!TypeOK
    <2>3. RequestsEnd'
      <3>1. ASSUME mode = "trial", NEW r \in Requests, Left(r)' PROVE FALSE
        <4>1. PICK i \in 1..(Len(todo) - 1) : todo[i + 1] = r
          BY <2>1, <3>1 DEF Left
        <4>2. i + 1 \in DOMAIN todo
          BY <1>1
        <4>3. todo[i + 1] \in StepsOf("trial")
          BY <3>1, <4>2, ElementOfSeq, <1>1 DEF ProbeInv, Shape
        <4>4. r = "send"
          BY <4>1, <4>3 DEF Requests, StepsOf
        <4>5. i + 1 = 1
          BY <1>1, <1>2, <3>1, <4>1, <4>2, <4>4 DEF ProbeInv, Shape
        <4> QED
          BY <4>5
      <3>2. mode = "trial" => sent' <= 1
        BY <1>3, <1>4
      <3>3. won' => mode = "trial"
        BY <1>4, <1>7
      <3> QED
        BY <1>4, <3>1, <3>2, <3>3 DEF RequestsEnd
    <2>4. GuardComesFirst'
      BY <1>5, <1>6, <2>1 DEF GuardComesFirst, Probe!NoneSeenArmed
    <2>5. ObjectIsReturned'
      <3>1. Head(todo) # "destroy" /\ (~broke /\ object => control' = "up")
        BY DEF Requests, ProbeInv, ObjectIsReturned
      <3> QED
        BY <1>7, <3>1, ObjectKept
    <2>6. RiskIsTheLast'
      BY <2>1 DEF ProbeInv, RiskIsTheLast
    <2> QED
      BY <2>1, <2>2, <2>3, <2>4, <2>5, <2>6 DEF ProbeInv
  <1>8. CASE todo' = Probe!Cleanup
    <2>1. /\ Shape(mode, todo)' /\ (todo \in Seq(Probe!Steps))'
          /\ \A step : Left(step)' => step \in {"destroy", "close"}
          /\ object /\ mode \in Owners =>
               \A i \in DOMAIN todo' : \E j \in 1..i : todo'[j] = "destroy"
      BY <1>8, CleanupLeaves
    <2>2. Probe!TypeOK'
      BY <1>4, <2>1 DEF ProbeInv, Probe!TypeOK
    <2>3. /\ ~Left("modes")' /\ \A r \in Requests : ~Left(r)'
          /\ \A l \in LogIns : ~Left(l)'
      BY <2>1 DEF Requests, LogIns, Left
    <2>4. RequestsEnd'
      <3>1. mode = "trial" => sent' <= 1
        BY <1>3, <1>4
      <3> QED
        BY <1>4, <2>3, <3>1 DEF RequestsEnd
    <2>5. GuardComesFirst'
      BY <1>6, <2>3 DEF GuardComesFirst, Probe!NoneSeenArmed
    <2>6. ObjectIsReturned'
      BY <1>2, <2>1 DEF ProbeInv, ObjectIsReturned, Owners, Sweeps
    <2>7. RiskIsTheLast'
      BY <2>3 DEF ProbeInv, RiskIsTheLast
    <2> QED
      BY <2>1, <2>2, <2>4, <2>5, <2>6, <2>7 DEF ProbeInv
  <1> QED
    BY <1>7, <1>8

\* The run has its instance: a step left or the finally block destroys it.
LEMMA Acquired ==
  ASSUME ProbeInv, todo # <<>>, Head(todo) \in Acquires, Probe!Done,
         control = "up", control' = control, ~broke => ~object,
         object' = TRUE, instances' = instances + 1,
         UNCHANGED <<mode, opts, seen, armed, arms, sent, won, extra, risky, broke>>
  PROVE  ProbeInv'
  <1>1. /\ Shape(mode, todo)' /\ (todo \in Seq(Probe!Steps))'
        /\ \A step : Left(step)' => Left(step)
        /\ \A step : Left(step) /\ step # Head(todo) => Left(step)'
        /\ DOMAIN todo' = 1..(Len(todo) - 1) /\ Len(todo) \in Nat \ {0}
        /\ \A i \in 1..(Len(todo) - 1) : todo'[i] = todo[i + 1]
    BY DoneLeaves
  <1>2. /\ DOMAIN todo = 1..Len(todo) /\ Head(todo) = todo[1] /\ 1 \in DOMAIN todo
        /\ Head(todo) \in StepsOf(mode) /\ mode \in Modes
    BY HeadFits
  <1>3. Probe!TypeOK'
    BY <1>1 DEF ProbeInv, Probe!TypeOK
  <1>4. RequestsEnd'
    BY <1>1 DEF ProbeInv, RequestsEnd
  <1>5. GuardComesFirst'
    <2>1. Left("guard") => Left("guard")'
      BY <1>1 DEF Acquires
    <2> QED
      BY <1>1, <2>1 DEF ProbeInv, GuardComesFirst, Probe!NoneSeenArmed
  <1>6. ObjectIsReturned'
    <2> SUFFICES ASSUME ~broke
                 PROVE  /\ instances' = 1
                        /\ mode \in Owners \union Sweeps
                        /\ \A i \in DOMAIN todo' : todo'[i] \in Acquires \union {"close"} =>
                             \E j \in 1..i : todo'[j] = "destroy"
                        /\ mode \in Sweeps => Left("destroy")' /\ ~Left("login")'
      BY DEF ObjectIsReturned
    <2>1. instances' = 1
      BY DEF ProbeInv, ObjectIsReturned
    <2>2. mode \in Owners \union Sweeps
      BY <1>2 DEF StepsOf, Acquires, Modes, Probe!Trials, Probe!ReadOnly, Owners, Sweeps
    <2>3. ASSUME NEW i \in DOMAIN todo', todo'[i] \in Acquires \union {"close"}
          PROVE  \E j \in 1..i : todo'[j] = "destroy"
      <3>1. i \in 1..(Len(todo) - 1) /\ i + 1 \in DOMAIN todo /\ todo[i + 1] = todo'[i]
            /\ 1 < i + 1
        BY <1>1, <1>2
      <3>2. todo[i + 1] # "close"
        BY <1>2, <3>1 DEF ProbeInv, Shape
      <3>3. PICK j \in 1..(i + 1) : todo[j] = "destroy"
        BY <1>2, <2>3, <3>1, <3>2 DEF ProbeInv, Shape
      <3>4. j # 1
        BY <1>2, <3>3 DEF Acquires
      <3>5. j - 1 \in 1..i /\ j - 1 \in 1..(Len(todo) - 1) /\ (j - 1) + 1 = j
        BY <1>1, <3>1, <3>3, <3>4
      <3> QED
        BY <1>1, <3>3, <3>5
    <2>4. ASSUME mode \in Sweeps PROVE Left("destroy")' /\ ~Left("login")'
      <3>1. PICK j \in DOMAIN todo : 1 < j /\ todo[j] = "destroy"
        BY <1>2, <2>4 DEF ProbeInv, Shape
      <3>2. Left("destroy") /\ Head(todo) # "destroy"
        BY <3>1 DEF Left, Acquires
      <3>3. Left("destroy")'
        BY <1>1, <3>2
      <3>4. ASSUME Left("login")' PROVE FALSE
        <4>1. PICK i \in DOMAIN todo : todo[i] = "login"
          BY <1>1, <3>4 DEF Left
        <4>2. i = 1
          BY <2>4, <4>1 DEF ProbeInv, Shape
        <4> QED
          BY <1>2, <4>1, <4>2 DEF Acquires
      <3> QED
        BY <3>3, <3>4
    <2> QED
      BY <2>1, <2>2, <2>3, <2>4
  <1>7. RiskIsTheLast'
    BY <1>1 DEF ProbeInv, RiskIsTheLast
  <1> QED
    BY <1>1, <1>3, <1>4, <1>5, <1>6, <1>7 DEF ProbeInv

\* The instance goes, and with it what was left to do for it.
LEMMA Destroyed == ASSUME ProbeInv, Probe!Destroy PROVE ProbeInv'
  <1>1. /\ todo # <<>> /\ Head(todo) = "destroy" /\ Probe!Done /\ object' = FALSE
        /\ \/ /\ instances' = IF object /\ control = "up" THEN instances - 1 ELSE instances
              /\ broke' = broke
           \/ instances' = instances /\ broke' = TRUE
        /\ UNCHANGED <<mode, opts, control, seen, armed, arms, sent, won, extra, risky>>
    BY DEF Probe!Destroy, Probe!NextIs, Probe!requests
  <1>2. /\ Shape(mode, todo)' /\ (todo \in Seq(Probe!Steps))'
        /\ \A step : Left(step)' => Left(step)
        /\ \A step : Left(step) /\ step # Head(todo) => Left(step)'
    BY <1>1, DoneLeaves
  <1>3. instances' \in Nat /\ broke' \in BOOLEAN
    <2>1. instances \in Nat /\ broke \in BOOLEAN /\ (object => instances > 0)
      BY DEF ProbeInv, Probe!TypeOK
    <2>2. CASE broke' = broke
      BY <1>1, <2>1, <2>2
    <2>3. CASE instances' = instances /\ broke' = TRUE
      BY <2>1, <2>3
    <2> QED
      BY <1>1, <2>2, <2>3
  <1>4. Probe!TypeOK'
    BY <1>1, <1>2, <1>3 DEF ProbeInv, Probe!TypeOK
  <1>5. RequestsEnd'
    BY <1>1, <1>2 DEF ProbeInv, RequestsEnd
  <1>6. GuardComesFirst'
    BY <1>1, <1>2 DEF ProbeInv, GuardComesFirst, Probe!NoneSeenArmed
  <1>7. ObjectIsReturned'
    BY <1>1 DEF ProbeInv, ObjectIsReturned
  <1>8. RiskIsTheLast'
    BY <1>1, <1>2 DEF ProbeInv, RiskIsTheLast
  <1> QED
    BY <1>2, <1>4, <1>5, <1>6, <1>7, <1>8 DEF ProbeInv

LEMMA ProbeInit == Probe!Init => ProbeInv
  <1> SUFFICES ASSUME Probe!Init PROVE ProbeInv
    OBVIOUS
  <1> USE DEF Probe!Init
  <1>1. mode \in Modes
    BY DEF Modes
  <1>2. Shape(mode, todo)
    BY <1>1, PlanShape
  <1>3. todo \in Seq(Probe!Steps)
    BY <1>1, <1>2, ShapeIsTyped
  <1>4. Probe!TypeOK
    BY <1>3 DEF Probe!TypeOK
  <1>5. RequestsEnd
    BY DEF RequestsEnd
  <1>6. GuardComesFirst
    <2> SUFFICES ASSUME mode \in Probe!Trials, NEW r \in Requests, Left(r)
                 PROVE  Left("guard")
      BY DEF GuardComesFirst
    <2> QED
      BY <1>1, PlanShape DEF Guarded, Left
  <1>7. ObjectIsReturned /\ RiskIsTheLast
    BY DEF ObjectIsReturned, RiskIsTheLast
  <1> QED
    BY <1>2, <1>4, <1>5, <1>6, <1>7 DEF ProbeInv

LEMMA ProbeStep == ASSUME ProbeInv, [Probe!Next]_probe PROVE ProbeInv'
  <1>t. /\ Probe!TypeOK /\ mode \in Modes
        /\ ObjectIsReturned /\ RiskIsTheLast
    BY DEF ProbeInv, Modes, Probe!TypeOK
  <1>h. ASSUME todo # <<>>
        PROVE  Head(todo) \in StepsOf(mode) /\ Left(Head(todo))
    BY <1>h, HeadFits
  <1>o. ~broke /\ object => control = "up" /\ mode \in Owners \union Sweeps
    BY <1>t DEF ObjectIsReturned
  <1>r. risky \in {0, 1}
    BY <1>t DEF RiskIsTheLast, Probe!TypeOK
  <1> USE DEF Probe!NextIs, Probe!GoesTo, Probe!panel, Probe!requests
  <1>1. CASE Probe!LogIn
    BY <1>1, <1>t, GoesOn DEF Probe!LogIn, Probe!TypeOK
  <1>2. CASE Probe!LoginRejected
    <2>1. /\ todo # <<>> /\ Head(todo) \in LogIns
          /\ UNCHANGED untouched /\ seen' = seen /\ broke' = broke /\ control' = control
      BY <1>2 DEF Probe!LoginRejected, LogIns, untouched
    <2>2. PICK risk \in BOOLEAN :
            /\ risky' = risky + IF risk THEN 1 ELSE 0
            /\ todo' = IF mode = "client_types" /\ ~risk THEN Probe!NextType ELSE Probe!Cleanup
      BY <1>2 DEF Probe!LoginRejected
    <2>3. risky = 0
      BY <1>h, <1>r, <1>t, <2>1 DEF RiskIsTheLast, LogIns
    <2>4. CASE mode = "client_types" /\ ~risk
      BY <1>t, <2>1, <2>2, <2>3, <2>4, GoesToNextType DEF Probe!TypeOK
    <2>5. CASE ~(mode = "client_types" /\ ~risk)
      <3>1. ~broke /\ object => mode \in Owners
        <4>1. Head(todo) = "login" \/ mode = "trial"
          BY <1>h, <1>t, <2>1 DEF LogIns, StepsOf, Modes, Probe!Trials, Probe!ReadOnly
        <4> QED
          BY <2>1, <4>1, ObjectFits DEF Owners
      <3> QED
        BY <1>t, <1>o, <2>1, <2>2, <2>3, <2>5, <3>1, GoesToCleanup DEF Probe!TypeOK
    <2> QED
      BY <2>4, <2>5
  <1>3. CASE Probe!Reads
    BY <1>3, <1>t, GoesOn DEF Probe!Reads, Probe!TypeOK
  <1>4. CASE Probe!ReadModes \/ Probe!Guard \/ Probe!Ask
    <2>1. /\ todo # <<>> /\ Head(todo) \in {"modes", "guard", "ask"}
          /\ UNCHANGED <<untouched, risky, broke, control>>
      BY <1>4 DEF Probe!ReadModes, Probe!Guard, Probe!Ask, untouched
    <2>2. seen \in {"unread", "disarmed", "armed", "blank"} /\ armed \in BOOLEAN
          /\ control \in {"none", "up", "broken"} /\ broke \in BOOLEAN
      BY <1>t DEF Probe!TypeOK
    <2>3. \/ /\ Probe!Done /\ seen' \in {"unread", "disarmed", "armed", "blank"}
             /\ \/ /\ seen' = seen
                   /\ Head(todo) = "guard" => opts.allow_arm \/ Probe!NoneSeenArmed
                \/ Head(todo) = "modes"
          \/ todo' = Probe!Cleanup /\ seen' = seen
      <3>1. CASE Probe!ReadModes
        BY <3>1 DEF Probe!ReadModes
      <3>2. CASE Probe!Guard
        BY <2>2, <3>2 DEF Probe!Guard
      <3>3. CASE Probe!Ask
        BY <2>2, <3>3 DEF Probe!Ask
      <3> QED
        BY <1>4, <3>1, <3>2, <3>3
    <2>4. mode \in Probe!Trials /\ (~broke /\ object => mode \in Owners)
      BY <1>h, <1>t, <1>o, <2>1 DEF StepsOf, Modes, Probe!Trials, Probe!ReadOnly, Owners, Sweeps
    <2>5. CASE /\ Probe!Done /\ seen' \in {"unread", "disarmed", "armed", "blank"}
               /\ \/ /\ seen' = seen
                     /\ Head(todo) = "guard" => opts.allow_arm \/ Probe!NoneSeenArmed
                  \/ Head(todo) = "modes"
      BY <1>o, <2>1, <2>2, <2>5, GoesOn DEF untouched
    <2>6. CASE todo' = Probe!Cleanup /\ seen' = seen
      BY <1>o, <1>r, <2>1, <2>2, <2>4, <2>6, GoesToCleanup
    <2> QED
      BY <2>3, <2>5, <2>6
  <1>5. CASE Probe!Acquire
    <2>1. /\ todo # <<>> /\ Head(todo) \in Acquires /\ control = "up" /\ control' = control
          /\ UNCHANGED <<mode, opts, seen, armed, arms, sent, won, extra, risky, broke>>
      BY <1>5 DEF Probe!Acquire, Acquires
    <2>2. ~broke => ~object
      BY <2>1, ObjectFits
    <2>3. CASE object' = TRUE /\ instances' = instances + 1 /\ Probe!Done
      BY <2>1, <2>2, <2>3, Acquired
    <2>4. CASE Probe!Done /\ UNCHANGED <<object, instances>>
      BY <1>t, <2>1, <2>2, <2>4, GoesOn DEF Acquires, Probe!TypeOK
    <2>5. CASE todo' = Probe!Cleanup /\ UNCHANGED <<object, instances>>
      BY <1>r, <1>t, <2>1, <2>2, <2>5, GoesToCleanup DEF untouched, Probe!TypeOK
    <2> QED
      BY <1>5, <2>3, <2>4, <2>5 DEF Probe!Acquire
  <1>6. CASE Probe!Send
    <2>1. mode = "trial"
      BY <1>6, <1>h, <1>t DEF Probe!Send, StepsOf, Modes, Probe!Trials, Probe!ReadOnly
    <2>2. PICK ok \in BOOLEAN : Probe!Sends(1, ok)
      BY <1>6 DEF Probe!Send
    <2>3. PICK n \in 1..2 : n = 1
      OBVIOUS
    <2>4. Probe!Sends(n, ok)
      BY <2>2, <2>3
    <2>5. /\ todo # <<>> /\ Head(todo) \in Requests /\ Probe!Done
          /\ UNCHANGED <<mode, opts, control, seen, arms, instances, object, risky, broke>>
      BY <1>6 DEF Probe!Send, Requests
    <2> QED
      BY <2>1, <2>3, <2>4, <2>5, Requested
  <1>7. CASE Probe!TryDisarm
    <2>1. mode = "disarm"
      BY <1>7, <1>h, <1>t DEF Probe!TryDisarm, StepsOf, Modes, Probe!Trials, Probe!ReadOnly
    <2>2. PICK ok \in BOOLEAN, n \in 1..(IF object THEN 2 ELSE 1) :
            Probe!Sends(n, ok) /\ IF ok THEN todo' = Probe!Cleanup ELSE Probe!Done
      BY <1>7 DEF Probe!TryDisarm
    <2>3. n \in 1..2
      OBVIOUS
    <2>4. /\ todo # <<>> /\ Head(todo) \in Requests /\ control = "up"
          /\ UNCHANGED <<mode, opts, control, seen, arms, instances, object, risky, broke>>
      BY <1>7 DEF Probe!TryDisarm, Requests
    <2> QED
      BY <2>1, <2>2, <2>3, <2>4, Requested
  <1>8. CASE Probe!TryCondition
    <2>1. mode = "condition"
      BY <1>8, <1>h, <1>t DEF Probe!TryCondition, StepsOf, Modes, Probe!Trials, Probe!ReadOnly
    <2>2. PICK ok \in BOOLEAN :
            Probe!Sends(1, ok) /\ IF ok THEN todo' = Probe!Cleanup ELSE Probe!Done
      BY <1>8 DEF Probe!TryCondition
    <2>3. PICK n \in 1..2 : n = 1
      OBVIOUS
    <2>4. Probe!Sends(n, ok) /\ IF ok THEN todo' = Probe!Cleanup ELSE Probe!Done
      BY <2>2, <2>3
    <2>5. /\ todo # <<>> /\ Head(todo) \in Requests /\ control = "up"
          /\ UNCHANGED <<mode, opts, control, seen, arms, instances, object, risky, broke>>
      BY <1>8 DEF Probe!TryCondition, Requests
    <2> QED
      BY <2>1, <2>3, <2>4, <2>5, Requested
  <1>9. CASE Probe!Getter
    <2>1. /\ todo # <<>> /\ Head(todo) = "getter" /\ control = "up" /\ control' = control
          /\ UNCHANGED <<mode, opts, seen, instances, object, arms, risky, broke>>
      BY <1>9 DEF Probe!Getter
    <2>2. mode = "getters"
      BY <1>h, <1>t, <2>1 DEF StepsOf, Modes, Probe!Trials, Probe!ReadOnly
    <2>3. CASE Probe!Done /\ UNCHANGED <<sent, won, extra, armed>>
      BY <1>t, <2>1, <2>3, GoesOn DEF Probe!TypeOK
    <2>4. CASE todo' = Probe!Cleanup /\ UNCHANGED <<sent, won, extra, armed>>
      BY <1>r, <1>t, <2>1, <2>2, <2>4, GoesToCleanup DEF untouched, Owners, Probe!TypeOK
    <2>5. ASSUME Probe!Done, NEW ok \in BOOLEAN, NEW n \in 1..2, Probe!Sends(n, ok)
          PROVE  ProbeInv'
      <3>1. sent' \in Nat /\ won' \in BOOLEAN /\ extra' \in Nat
        BY <1>t, <2>5 DEF Probe!Sends, Probe!TypeOK
      <3>2. armed' \in BOOLEAN
        BY <1>t, <2>5 DEF Probe!Sends, Probe!TypeOK
      <3> QED
        BY <1>t, <2>1, <2>2, <2>5, <3>1, <3>2, GoesOn DEF Probe!Trials, Probe!TypeOK
    <2> QED
      BY <1>9, <2>3, <2>4, <2>5 DEF Probe!Getter
  <1>10. CASE Probe!Finally
    <2>1. /\ todo = <<>> /\ todo' = Probe!Cleanup /\ UNCHANGED untouched
          /\ seen' = seen /\ risky' = risky /\ broke' = broke /\ control' = control
      BY <1>10 DEF Probe!Finally, untouched
    <2>2. ~broke /\ object => mode \in Owners
      BY <1>o, <1>t, <2>1 DEF ObjectIsReturned, Left
    <2> QED
      BY <1>o, <1>r, <1>t, <2>1, <2>2, GoesToCleanup DEF Probe!TypeOK
  <1>11. CASE Probe!Destroy
    BY <1>11, Destroyed
  <1>12. CASE Probe!Close
    <2>1. /\ todo # <<>> /\ Head(todo) = "close" /\ control' = "none" /\ Probe!Done
          /\ UNCHANGED <<mode, opts, seen, object, armed, arms, instances, sent, won, extra,
                         risky, broke>>
      BY <1>12 DEF Probe!Close
    <2>2. ~broke => ~object
      BY <2>1, ObjectFits
    <2> QED
      BY <1>t, <2>1, <2>2, GoesOn DEF Probe!TypeOK
  <1>13. CASE Probe!LineFails
    <2>1. /\ todo # <<>> /\ control' = "broken" /\ broke' = TRUE
          /\ todo' = IF mode = "client_types" THEN Probe!NextType ELSE Probe!Cleanup
          /\ UNCHANGED untouched /\ seen' = seen /\ risky' = risky
      BY <1>13 DEF Probe!LineFails, untouched
    <2>2. CASE mode = "client_types"
      BY <2>1, <2>2, GoesToNextType
    <2>3. CASE mode # "client_types"
      BY <1>r, <2>1, <2>3, GoesToCleanup
    <2> QED
      BY <2>2, <2>3
  <1>14. CASE Probe!KeypadArms
    <2>1. /\ armed' = TRUE /\ arms' = arms + 1
          /\ UNCHANGED <<mode, opts, todo, control, seen, object, instances, sent, won, extra,
                         risky, broke>>
      BY <1>14 DEF Probe!KeypadArms
    <2> QED
      BY <2>1 DEF ProbeInv, Probe!TypeOK, RequestsEnd, GuardComesFirst, Probe!NoneSeenArmed,
         ObjectIsReturned, RiskIsTheLast, Left
  <1>15. CASE UNCHANGED probe
    BY <1>15 DEF probe, ProbeInv, Probe!TypeOK, RequestsEnd, GuardComesFirst, Probe!NoneSeenArmed,
       ObjectIsReturned, RiskIsTheLast, Left
  <1> QED
    BY <1>1, <1>2, <1>3, <1>4, <1>5, <1>6, <1>7, <1>8, <1>9, <1>10, <1>11, <1>12, <1>13,
       <1>14, <1>15 DEF Probe!Next, Probe!Step

\* What the probe's invariant is for.
LEMMA ProbeSafe == ProbeInv => Probe!TypeOK /\ Supervised
  <1> SUFFICES ASSUME ProbeInv PROVE Supervised
    BY DEF ProbeInv
  <1>1. Probe!OneRequestPerTrial /\ Probe!NothingAfterSuccess
    BY DEF ProbeInv, RequestsEnd, Probe!OneRequestPerTrial, Probe!NothingAfterSuccess,
       Probe!Trials
  <1>2. Probe!ArmedPanelIsLeftAlone
    BY DEF ProbeInv, GuardComesFirst, Probe!ArmedPanelIsLeftAlone
  <1>3. Probe!InstancesReturned
    BY DEF ProbeInv, ObjectIsReturned, Probe!InstancesReturned, Probe!Over
  <1>4. Probe!OneRiskyLogin
    BY DEF ProbeInv, RiskIsTheLast, Probe!OneRiskyLogin
  <1> QED
    BY <1>1, <1>2, <1>3, <1>4 DEF Supervised, Probe!Supervised

-----------------------------------------------------------------------------
(* The three parts in one specification, as the run has them, and each of  *)
(* its own.                                                                *)

ResearchInv == RadioInv /\ DetectorInv /\ ProbeInv

LEMMA ResearchAlways == MCSpec => []ResearchInv
  <1>1. MCInit => ResearchInv
    BY RadioInit, DetectorInit, ProbeInit DEF MCInit, ResearchInv
  <1>2. ResearchInv /\ [MCNext]_MCVars => ResearchInv'
    <2> SUFFICES ASSUME ResearchInv, [MCNext]_MCVars PROVE ResearchInv'
      OBVIOUS
    <2>1. [Next]_vars /\ [Detector!Next]_detector /\ [Probe!Next]_probe
      BY DEF MCNext, MCVars, RadioRuns
    <2> QED
      BY <2>1, RadioStep, DetectorStep, ProbeStep DEF ResearchInv
  <1> QED
    BY <1>1, <1>2, PTL DEF MCSpec

\* Every variable of the radio poller, of the detector test and of the probe keeps
\* its type; the registered timer has been started, and what the probe counts as its
\* object exists.
THEOREM ResearchTyped == MCSpec => []ResearchTypeOK
  <1>1. ResearchInv => ResearchTypeOK
    BY DetectorSafe, ProbeSafe DEF ResearchInv, RadioInv, ResearchTypeOK
  <1> QED
    BY <1>1, ResearchAlways, PTL

\* DetectorTest leaves no instance behind but a broken session's, and no running
\* test without a timer or a session that ends it, however presses, automatic stops
\* and rejected spellings overlap.
THEOREM DetectorLeavesNothing == MCSpec => []NothingLeftBehind
  <1>1. ResearchInv => NothingLeftBehind
    BY DetectorSafe DEF ResearchInv
  <1> QED
    BY <1>1, ResearchAlways, PTL

\* arm_probe.py keeps what it promises in every mode and at every point where a run
\* stops: one request of a trial, none after a success, none to an armed panel, every
\* instance returned and one risky login at most.
THEOREM ProbeIsSupervised == MCSpec => []Supervised
  <1>1. ResearchInv => Supervised
    BY ProbeSafe DEF ResearchInv
  <1> QED
    BY <1>1, ResearchAlways, PTL

\* The same of the detector test alone.
THEOREM DetectorAlone == Detector!Spec => []Detector!NothingLeftBehind
  <1>1. DetectorInv /\ [Detector!Next]_Detector!vars => DetectorInv'
    <2> SUFFICES ASSUME DetectorInv, [Detector!Next]_Detector!vars PROVE DetectorInv'
      OBVIOUS
    <2>1. [Detector!Next]_detector
      BY DEF Detector!vars, Detector!external, Detector!belief, Detector!timing,
         Detector!counts, detector
    <2> QED
      BY <2>1, DetectorStep
  <1>2. DetectorInv => Detector!NothingLeftBehind
    BY DetectorSafe DEF NothingLeftBehind
  <1> QED
    BY <1>1, <1>2, DetectorInit, PTL DEF Detector!Spec

\* The same of the probe alone.
THEOREM ProbeAlone == Probe!Spec => []Probe!Supervised
  <1>1. ProbeInv /\ [Probe!Next]_Probe!vars => ProbeInv'
    <2> SUFFICES ASSUME ProbeInv, [Probe!Next]_Probe!vars PROVE ProbeInv'
      OBVIOUS
    <2>1. [Probe!Next]_probe
      BY DEF Probe!vars, Probe!panel, Probe!requests, probe
    <2> QED
      BY <2>1, ProbeStep
  <1>2. ProbeInv => Probe!Supervised
    BY ProbeSafe DEF Supervised
  <1> QED
    BY <1>1, <1>2, ProbeInit, PTL DEF Probe!Spec

=============================================================================
