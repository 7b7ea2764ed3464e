----------------------------- MODULE PanelProofs -----------------------------
(***************************************************************************)
(* Proofs about Panel, for any areas, calls and modes and any limiter.     *)
(*                                                                         *)
(* A flag of a panel is cleared by whichever of its calls returns, not by  *)
(* the one that set it.  What holds is weaker than "the flag is the        *)
(* running call's" and enough: a flag that is set has some call of its     *)
(* panel that will come back and clear it.                                 *)
(*                                                                         *)
(* A limiter's list holds the latest of all wrong codes, and each earlier  *)
(* one has left the window or was followed by a lockout: Latest.           *)
(***************************************************************************)
EXTENDS Panel, FiniteSetTheorems, SequenceTheorems, TLAPS

Places == {"new", "verifying", "submitted", "running", "ended"}

CallType ==
  /\ pending \in [Panels -> {"none", "arming", "disarming"}]
  /\ call \in [Calls -> CallState]
  /\ command \in [Calls -> {"new"} \union Controller!InFlight \union Controller!Outcomes]

\* A call that is past its gate or at it names a panel.
CallNamesPanel ==
  \A c \in Calls : call[c].at \in {"verifying", "submitted", "running"}
                     => call[c].panel \in Panels /\ call[c].mode \in Modes

FlagHasCall == \A p \in Panels : pending[p] # "none" => Commanding(p) # {}

IInv == CallType /\ CallNamesPanel /\ FlagHasCall

USE PanelAssumption

-----------------------------------------------------------------------------

\* Only the state of the call that moves changes.
LEMMA OneCallMoves ==
  ASSUME CallType, NEW c \in Calls, NEW v \in CallState, call' = [call EXCEPT ![c] = v]
  PROVE  /\ call' \in [Calls -> CallState]
         /\ call'[c] = v
         /\ \A d \in Calls : d # c => call'[d] = call[d]
  BY DEF CallType

\* A call that ends names no panel any more.
LEMMA CallEnds ==
  ASSUME CallType, NEW c \in Calls, NEW r \in Results, Ends(c, r)
  PROVE  /\ call' \in [Calls -> CallState]
         /\ call'[c].at = "ended"
         /\ \A d \in Calls : d # c => call'[d] = call[d]
  <1> DEFINE v == [NotMade EXCEPT !.at = "ended", !.result = r]
  <1>1. v \in CallState /\ v.at = "ended"
    BY DEF NotMade, CallState, Codes, Places
  <1>2. call' = [call EXCEPT ![c] = v]
    BY DEF Ends
  <1> HIDE DEF v
  <1> QED
    BY <1>1, <1>2, OneCallMoves

\* A call that is made names its panel.
LEMMA CallMade ==
  ASSUME CallType, NEW c \in Calls, NEW p \in Panels, NEW m \in Modes, NEW k \in Codes,
         NEW at \in Places, Made(c, p, m, k, at)
  PROVE  /\ call' \in [Calls -> CallState]
         /\ call'[c].at = at /\ call'[c].panel = p /\ call'[c].mode = m
         /\ \A d \in Calls : d # c => call'[d] = call[d]
  <1> DEFINE v == [panel |-> p, mode |-> m, code |-> k, at |-> at, result |-> "none"]
  <1>1. v \in CallState /\ v.at = at /\ v.panel = p /\ v.mode = m
    BY DEF CallState, Results, Places
  <1>2. call' = [call EXCEPT ![c] = v]
    BY DEF Made
  <1> HIDE DEF v
  <1> QED
    BY <1>1, <1>2, OneCallMoves

\* A call that goes on keeps its panel and its mode.
LEMMA CallGoes ==
  ASSUME CallType, NEW c \in Calls, NEW at \in Places, Goes(c, at)
  PROVE  /\ call' \in [Calls -> CallState]
         /\ call'[c].at = at /\ call'[c].panel = call[c].panel
         /\ call'[c].mode = call[c].mode
         /\ \A d \in Calls : d # c => call'[d] = call[d]
  <1> DEFINE v == [call[c] EXCEPT !.at = at]
  <1>1. call[c] \in CallState
    BY DEF CallType
  <1>2. v \in CallState /\ v.at = at /\ v.panel = call[c].panel /\ v.mode = call[c].mode
    BY <1>1 DEF CallState, Places
  <1>3. call' = [call EXCEPT ![c] = v]
    BY DEF Goes
  <1> HIDE DEF v
  <1> QED
    BY <1>2, <1>3, OneCallMoves

\* Nothing is called and no flag is set at first.
LEMMA InitInv == Init => IInv
  <1> SUFFICES ASSUME Init PROVE IInv
    OBVIOUS
  <1> USE DEF Init, NotMade, Controller!Init
  <1>1. CallType
    <2>1. NotMade \in CallState
      BY DEF CallState, Codes, Results, Places
    <2>2. pending \in [Panels -> {"none", "arming", "disarming"}]
      OBVIOUS
    <2> QED
      BY <2>1, <2>2 DEF CallType
  <1>2. CallNamesPanel /\ FlagHasCall
    BY DEF CallNamesPanel, FlagHasCall
  <1> QED
    BY <1>1, <1>2 DEF IInv

\* A call that ends without having commanded changes no flag.
LEMMA EndsInv ==
  ASSUME IInv, NEW c \in Calls, NEW r \in Results,
         call[c].at \in {"new", "verifying"}, Ends(c, r), UNCHANGED <<command, pending>>
  PROVE  IInv'
  <1> USE DEF IInv
  <1>1. /\ call' \in [Calls -> CallState]
        /\ call'[c].at = "ended"
        /\ \A d \in Calls : d # c => call'[d] = call[d]
    BY CallEnds
  <1>2. CallType' /\ CallNamesPanel'
    BY <1>1 DEF CallType, CallNamesPanel
  <1>3. \A q \in Panels : Commanding(q)' = Commanding(q)
    BY <1>1 DEF Commanding
  <1> QED
    BY <1>2, <1>3 DEF FlagHasCall

\* A call that has not been commanding leaves the flags of those that are, and
\* either ends or sets the flag of its own panel with its command.
LEMMA ProceedInv ==
  ASSUME IInv, NEW c \in Calls, NEW p \in Panels, NEW m \in Modes, NEW k \in Codes,
         call[c].at \in {"new", "verifying"}, Proceed(c, p, m, k),
         UNCHANGED command
  PROVE  IInv'
  <1> USE DEF IInv
  <1>1. CASE Ends(c, "done") /\ UNCHANGED pending
    BY <1>1, EndsInv DEF Results
  <1>2. CASE /\ Made(c, p, m, k, "submitted")
             /\ pending' = [pending EXCEPT ![p] = PendingFor(m)]
    <2>1. /\ call' \in [Calls -> CallState]
          /\ call'[c].at = "submitted" /\ call'[c].panel = p /\ call'[c].mode = m
          /\ \A d \in Calls : d # c => call'[d] = call[d]
      BY <1>2, CallMade DEF Places
    <2>2. CallType'
      BY <1>2, <2>1 DEF CallType, PendingFor
    <2>3. CallNamesPanel'
      BY <2>1 DEF CallNamesPanel
    <2>4. c \in Commanding(p)' /\ \A q \in Panels : Commanding(q) \subseteq Commanding(q)'
      BY <2>1 DEF Commanding
    <2>5. \A q \in Panels : q # p => pending'[q] = pending[q]
      BY <1>2 DEF CallType
    <2> QED
      BY <2>2, <2>3, <2>4, <2>5 DEF FlagHasCall
  <1> QED
    BY <1>1, <1>2 DEF Proceed

\* Every step keeps the invariant.
LEMMA StepInv == ASSUME IInv, [Next]_vars PROVE IInv'
  <1> USE DEF IInv
  <1>1. ASSUME NEW c \in Calls, NEW p \in Panels, NEW m \in Modes, NEW k \in Codes,
               Press(c, p, m, k)
        PROVE  IInv'
    <2>1. call[c].at = "new" /\ UNCHANGED command
      BY <1>1 DEF Press, contractVars
    <2>2. CASE TurnedAway(c, p, m, k)
      BY <2>1, <2>2, EndsInv DEF TurnedAway, Results
    <2>3. CASE Made(c, p, m, k, "verifying") /\ UNCHANGED pending
      <3>1. /\ call' \in [Calls -> CallState]
            /\ call'[c].at = "verifying" /\ call'[c].panel = p /\ call'[c].mode = m
            /\ \A d \in Calls : d # c => call'[d] = call[d]
        BY <2>3, CallMade DEF Places
      <3>2. CallType' /\ CallNamesPanel'
        BY <2>1, <2>3, <3>1 DEF CallType, CallNamesPanel
      <3>3. \A q \in Panels : Commanding(q)' = Commanding(q)
        BY <2>1, <3>1 DEF Commanding
      <3> QED
        BY <2>3, <3>2, <3>3 DEF FlagHasCall
    <2>4. CASE Proceed(c, p, m, k)
      BY <2>1, <2>4, ProceedInv
    <2> QED
      BY <1>1, <2>2, <2>3, <2>4 DEF Press
  <1>2. ASSUME NEW c \in Calls, Verified(c)
        PROVE  IInv'
    <2>1. /\ call[c].at = "verifying" /\ UNCHANGED command
          /\ call[c].panel \in Panels /\ call[c].mode \in Modes
      BY <1>2 DEF Verified, contractVars, CallNamesPanel
    <2>2. CASE Ends(c, "invalid_code") /\ UNCHANGED pending
      BY <2>1, <2>2, EndsInv DEF Results
    <2>3. CASE Proceed(c, call[c].panel, call[c].mode, "right")
      BY <2>1, <2>3, ProceedInv DEF Codes
    <2> QED
      BY <1>2, <2>2, <2>3 DEF Verified
  <1>3. ASSUME NEW c \in Calls, Execute(c)
        PROVE  IInv'
    <2>1. call[c].at = "submitted" /\ Goes(c, "running") /\ UNCHANGED pending
      BY <1>3 DEF Execute
    <2>2. command' \in [Calls -> {"new"} \union Controller!InFlight \union Controller!Outcomes]
      BY <1>3 DEF Execute, CallType, Controller!Accept, Controller!Reject,
                  Controller!Becomes, Controller!InFlight, Controller!Outcomes
    <2>3. /\ call' \in [Calls -> CallState]
          /\ call'[c].at = "running" /\ call'[c].panel = call[c].panel
          /\ call'[c].mode = call[c].mode
          /\ \A d \in Calls : d # c => call'[d] = call[d]
      BY <2>1, CallGoes DEF Places
    <2>4. CallType' /\ CallNamesPanel'
      BY <2>1, <2>2, <2>3 DEF CallType, CallNamesPanel
    <2>5. \A q \in Panels : Commanding(q)' = Commanding(q)
      BY <2>1, <2>3 DEF Commanding
    <2> QED
      BY <2>1, <2>4, <2>5 DEF FlagHasCall
  <1>4. ASSUME NEW c \in Calls, Work(c)
        PROVE  IInv'
    <2>1. UNCHANGED <<call, pending>>
      BY <1>4 DEF Work
    <2>2. command' \in [Calls -> {"new"} \union Controller!InFlight \union Controller!Outcomes]
      BY <1>4 DEF Work, CallType, Controller!Progress, Controller!Reject,
                  Controller!Send, Controller!GiveUp, Controller!Conclude,
                  Controller!Becomes, Controller!InFlight, Controller!Outcomes
    <2> QED
      BY <2>1, <2>2 DEF CallType, CallNamesPanel, FlagHasCall, Commanding
  <1>5. ASSUME NEW c \in Calls, Returns(c)
        PROVE  IInv'
    <2> DEFINE p == call[c].panel
    <2>1. /\ p \in Panels /\ UNCHANGED command
          /\ pending' = [pending EXCEPT ![p] = "none"]
      BY <1>5 DEF Returns, contractVars, CallNamesPanel
    <2>2. PICK r \in Results : Ends(c, r)
      BY <1>5 DEF Returns, Results, Errors, Controller!Outcomes
    <2>3. /\ call' \in [Calls -> CallState]
          /\ call'[c].at = "ended"
          /\ \A d \in Calls : d # c => call'[d] = call[d]
      BY <2>1, <2>2, CallEnds
    <2>4. CallType' /\ CallNamesPanel'
      BY <2>1, <2>3 DEF CallType, CallNamesPanel
    <2>5. \A q \in Panels : q # p => Commanding(q)' = Commanding(q)
      BY <2>1, <2>3 DEF Commanding
    <2>6. pending'[p] = "none" /\ \A q \in Panels : q # p => pending'[q] = pending[q]
      BY <2>1 DEF CallType
    <2> QED
      BY <2>4, <2>5, <2>6 DEF FlagHasCall
  <1>6. ASSUME UNCHANGED <<call, pending, command>>
        PROVE  IInv'
    BY <1>6 DEF CallType, CallNamesPanel, FlagHasCall, Commanding
  <1>7. ASSUME NEW a \in Areas, NEW m \in Modes \union {NoMode}, ModeEvent(a, m)
        PROVE  IInv'
    BY <1>6, <1>7 DEF ModeEvent, contractVars
  <1>8. CASE Tick
    BY <1>6, <1>8 DEF Tick, contractVars
  <1>9. CASE UNCHANGED vars
    BY <1>6, <1>9 DEF vars, contractVars
  <1> QED
    BY <1>1, <1>2, <1>3, <1>4, <1>5, <1>7, <1>8, <1>9 DEF Next, CallStep

\* "Cleared in a finally block whatever the outcome": for any number of areas,
\* panels and calls, a panel without a command on its way shows no transition,
\* though the calls of a panel share its one flag.
THEOREM IdleShowsNoTransitionAlways == Spec => []IdleShowsNoTransition
  <1>1. IInv => IdleShowsNoTransition
    <2> SUFFICES ASSUME IInv, NEW p \in Panels, Commanding(p) = {}
                 PROVE  Shown(p) \notin {"arming", "disarming"}
      BY DEF IdleShowsNoTransition
    <2>1. pending[p] = "none"
      BY DEF IInv, FlagHasCall
    <2> QED
      BY <2>1 DEF Shown
  <1> QED
    BY <1>1, InitInv, StepInv, PTL DEF Spec

-----------------------------------------------------------------------------
(* The attempt limiter.  It forgets a wrong code either because the code   *)
(* has left the window or because a lockout cleared the list, and a        *)
(* lockout is no shorter than the window: FailuresAreTheLatest.            *)

LimiterType ==
  /\ now \in Nat
  /\ failures \in [Panels -> Seq(Nat)] /\ wrongs \in [Panels -> Seq(Nat)]
  /\ locked_until \in [Panels -> Nat]

\* The list f holds the latest of the wrong codes w, and each of the d earlier
\* ones has left the window at time t or was followed by a lockout until u.
Latest(f, w, t, u) ==
  LET d == Len(w) - Len(f) IN
  /\ d >= 0 /\ Len(f) < MaxAttempts
  /\ \A i \in 1..Len(f) : f[i] = w[d + i]
  /\ \A i \in 1..Len(w) : w[i] <= t
  /\ \A i \in 1..d : t - w[i] > Window \/ w[i] + Lockout <= u

FailuresAreTheLatest ==
  \A p \in Panels : Latest(failures[p], wrongs[p], now, locked_until[p])

LimiterInv == LimiterType /\ FailuresAreTheLatest

\* A set of the first positions of a sequence is an interval.
LEMMA PrefixIsInterval ==
  ASSUME NEW n \in Nat, NEW S \in SUBSET (1..n),
         \A i \in S : \A j \in 1..i : j \in S
  PROVE  \E k \in 0..n : S = 1..k
  <1> DEFINE k == Cardinality(S)
  <1>1. IsFiniteSet(1..n) /\ Cardinality(1..n) = n
    BY FS_Interval
  <1>2. IsFiniteSet(S) /\ k \in Nat /\ k <= n
    BY <1>1, FS_Subset, FS_CardinalityType
  <1> HIDE DEF k
  <1>3. k + 1 \notin S
    <2> SUFFICES ASSUME k + 1 \in S PROVE FALSE
      OBVIOUS
    <2>1. 1..(k + 1) \in SUBSET S
      OBVIOUS
    <2>2. Cardinality(1..(k + 1)) = k + 1
      BY <1>2, FS_Interval
    <2>3. Cardinality(1..(k + 1)) <= k
      BY <1>2, <2>1, FS_Subset DEF k
    <2> QED
      BY <1>2, <2>2, <2>3
  <1>4. S \in SUBSET (1..k)
    BY <1>2, <1>3
  <1>5. IsFiniteSet(1..k) /\ Cardinality(1..k) = k
    BY <1>2, FS_Interval
  <1>6. S = 1..k
    BY <1>4, <1>5, FS_Subset DEF k
  <1> QED
    BY <1>2, <1>6

\* Among times of which the last is within the window there is a first one.
LEMMA FirstIsWithinWindow ==
  ASSUME NEW s \in Seq(Nat), now \in Nat, s # <<>>, now - s[Len(s)] <= Window
  PROVE  /\ First(s) \in 1..Len(s)
         /\ now - s[First(s)] <= Window
         /\ \A j \in 1..(First(s) - 1) : now - s[j] > Window
  <1> DEFINE n == Len(s)
             S == {i \in 1..n : \A j \in 1..i : now - s[j] > Window}
  <1>1. n \in Nat /\ n >= 1 /\ DOMAIN s = 1..n /\ \A i \in 1..n : s[i] \in Nat
    BY EmptySeq, LenProperties
  <1>2. /\ S \in SUBSET (1..n)
        /\ \A i \in S : \A j \in 1..i : now - s[j] > Window
        /\ \A i \in 1..n : (\A j \in 1..i : now - s[j] > Window) => i \in S
    OBVIOUS
  <1> HIDE DEF S
  <1>3. PICK k \in 0..n : S = 1..k
    <2>1. \A i \in S : \A j \in 1..i : j \in S
      BY <1>1, <1>2
    <2>2. n \in Nat /\ S \in SUBSET (1..n)
      BY <1>1, <1>2
    <2> HIDE DEF n
    <2> QED
      BY <2>1, <2>2, PrefixIsInterval
  <1>4. \A j \in 1..k : now - s[j] > Window
    BY <1>1, <1>2, <1>3
  <1>5. k < n
    BY <1>1, <1>4, PanelAssumption
  <1>6. now - s[k + 1] <= Window
    <2> SUFFICES ASSUME now - s[k + 1] > Window PROVE FALSE
      BY <1>1, <1>5, PanelAssumption
    <2>1. k + 1 \in S
      <3>1. \A j \in 1..(k + 1) : now - s[j] > Window
        BY <1>1, <1>4, <1>5
      <3> QED
        BY <1>1, <1>2, <1>5, <3>1
    <2> QED
      BY <1>3, <2>1
  <1>7. \E i \in DOMAIN s : /\ now - s[i] <= Window
                            /\ \A j \in 1..(i - 1) : now - s[j] > Window
    <2> WITNESS k + 1 \in DOMAIN s
    <2> QED
      BY <1>4, <1>5, <1>6
  <1> QED
    BY <1>1, <1>7 DEF First

\* The list after a wrong code is the end of the old list with the code's time,
\* and what it drops has left the window.
LEMMA RecentProperties ==
  ASSUME now \in Nat, NEW f \in Seq(Nat)
  PROVE  \E d \in 0..Len(f) :
           /\ Recent(Append(f, now)) \in Seq(Nat)
           /\ Len(Recent(Append(f, now))) = Len(f) + 1 - d
           /\ \A i \in 1..(Len(f) + 1 - d) :
                Recent(Append(f, now))[i] = Append(f, now)[d + i]
           /\ \A i \in 1..d : now - f[i] > Window
  <1> DEFINE h == Append(f, now)
  <1>1. PICK n \in Nat : n = Len(f)
    BY LenProperties
  <1>2. /\ h \in Seq(Nat) /\ Len(h) = n + 1 /\ h[n + 1] = now
        /\ \A i \in 1..n : h[i] = f[i]
    BY <1>1, AppendProperties
  <1> HIDE DEF h
  <1>3. h # <<>> /\ now - h[Len(h)] <= Window
    <2>1. Len(h) # 0
      BY <1>2
    <2> QED
      BY <1>2, <2>1, EmptySeq, PanelAssumption
  <1>4. PICK k \in 1..(n + 1) : k = First(h)
    BY <1>2, <1>3, FirstIsWithinWindow
  <1>5. \A j \in 1..(k - 1) : now - h[j] > Window
    BY <1>2, <1>3, <1>4, FirstIsWithinWindow
  <1>6. /\ Recent(h) \in Seq(Nat) /\ Len(Recent(h)) = n + 1 - k + 1
        /\ \A i \in 1..(n + 1 - k + 1) : Recent(h)[i] = h[k + i - 1]
    <2>1. Recent(h) = SubSeq(h, k, n + 1)
      BY <1>2, <1>4 DEF Recent
    <2>2. \A i \in k..(n + 1) : h[i] \in Nat
      BY <1>2, ElementOfSeq
    <2>3. k \in Int /\ n + 1 \in Int /\ k <= n + 1
      OBVIOUS
    <2>4. /\ SubSeq(h, k, n + 1) \in Seq(Nat)
          /\ Len(SubSeq(h, k, n + 1)) = n + 1 - k + 1
          /\ \A i \in 1..(n + 1 - k + 1) : SubSeq(h, k, n + 1)[i] = h[k + i - 1]
      BY <2>2, <2>3, SubSeqProperties
    <2> QED
      BY <2>1, <2>4
  <1>7. k - 1 \in 0..n /\ n + 1 - k + 1 = n + 1 - (k - 1)
    OBVIOUS
  <1>8. \A i \in 1..(n + 1 - (k - 1)) : Recent(h)[i] = h[(k - 1) + i]
    <2> SUFFICES ASSUME NEW i \in 1..(n + 1 - (k - 1))
                 PROVE  Recent(h)[i] = h[(k - 1) + i]
      OBVIOUS
    <2>1. k + i - 1 = (k - 1) + i
      OBVIOUS
    <2> QED
      BY <1>6, <1>7, <2>1
  <1>9. \A i \in 1..(k - 1) : now - f[i] > Window
    BY <1>2, <1>5
  <1> QED
    BY <1>1, <1>6, <1>7, <1>8, <1>9 DEF h

\* The lists f and w, of m and n times, become g and v with a wrong code at time
\* t, and the d codes that g drops have left the window.
Becomes(f, m, w, n, g, d, v, t) ==
  /\ Len(f) = m /\ Len(w) = n /\ Len(v) = n + 1 /\ Len(g) = m + 1 - d
  /\ v[n + 1] = t /\ \A i \in 1..n : v[i] = w[i] /\ w[i] \in Nat
  /\ \A i \in 1..(m + 1 - d) : g[i] = IF d + i = m + 1 THEN t ELSE f[d + i]
  /\ \A i \in 1..d : t - f[i] > Window

\* A wrong code that brings no lockout.
LEMMA DropsOld ==
  ASSUME NEW f, NEW w, NEW g, NEW v, NEW t \in Nat, NEW u \in Nat,
         NEW m \in Nat, NEW n \in Nat, NEW d \in 0..m,
         Becomes(f, m, w, n, g, d, v, t), Len(g) < MaxAttempts,
         Latest(f, w, t, u)
  PROVE  Latest(g, v, t, u)
  <1> USE DEF Becomes
  <1>3. /\ n - m >= 0
        /\ \A i \in 1..m : f[i] = w[(n - m) + i]
        /\ \A i \in 1..n : w[i] <= t
        /\ \A i \in 1..(n - m) : t - w[i] > Window \/ w[i] + Lockout <= u
    BY DEF Latest
  <1>4. PICK e \in Nat : e = n - m
    BY <1>3
  <1>5. n + 1 - (m + 1 - d) = e + d /\ n = e + m
    BY <1>4
  <1>6. ASSUME NEW i \in 1..(m + 1 - d)
        PROVE  g[i] = v[(e + d) + i]
    <2>1. g[i] = (IF d + i = m + 1 THEN t ELSE f[d + i]) /\ d + i \in 1..(m + 1)
      OBVIOUS
    <2>2. CASE d + i = m + 1
      <3>1. (e + d) + i = n + 1
        BY <1>5, <2>2
      <3> QED
        BY <2>1, <2>2, <3>1
    <2>3. CASE d + i \in 1..m
      <3>1. f[d + i] = w[e + (d + i)]
        BY <1>3, <1>4, <2>3
      <3>2. e + (d + i) = (e + d) + i /\ (e + d) + i \in 1..n
        BY <1>5, <2>3
      <3> QED
        BY <2>1, <2>3, <3>1, <3>2
    <2> QED
      BY <2>1, <2>2, <2>3
  <1>7. \A i \in 1..(n + 1) : v[i] <= t
    BY <1>3
  <1>8. ASSUME NEW i \in 1..(e + d)
        PROVE  t - v[i] > Window \/ v[i] + Lockout <= u
    <2>1. i \in 1..n /\ v[i] = w[i]
      BY <1>5
    <2>2. CASE i \in 1..e
      BY <1>3, <1>4, <2>1, <2>2
    <2>3. CASE i - e \in 1..d
      <3>1. i - e \in 1..m /\ e + (i - e) = i
        BY <1>5, <2>3
      <3>2. f[i - e] = w[i]
        BY <1>3, <1>4, <3>1
      <3> QED
        BY <2>1, <2>3, <3>2
    <2> QED
      BY <1>5, <2>2, <2>3
  <1> QED
    BY <1>5, <1>6, <1>7, <1>8 DEF Latest

\* A wrong code at time t that brings a lockout outlives all of them.
LEMMA LocksOut ==
  ASSUME NEW f \in Seq(Nat), NEW w \in Seq(Nat), NEW t \in Nat, NEW u \in Nat,
         Latest(f, w, t, u)
  PROVE  Latest(<<>>, Append(w, t), t, t + Lockout)
  <1> DEFINE v == Append(w, t)
  <1>1. PICK n \in Nat : n = Len(w)
    BY LenProperties
  <1>2. Len(v) = n + 1 /\ v[n + 1] = t /\ \A i \in 1..n : v[i] = w[i] /\ w[i] \in Nat
    BY <1>1, AppendProperties, ElementOfSeq
  <1> HIDE DEF v
  <1>3. \A i \in 1..(n + 1) : v[i] \in Nat /\ v[i] <= t
    BY <1>1, <1>2 DEF Latest
  <1>4. \A i \in 1..(n + 1) : v[i] + Lockout <= t + Lockout
    BY <1>3, PanelAssumption
  <1>5. Len(<<>>) = 0
    BY EmptySeq
  <1>6. Latest(<<>>, v, t, t + Lockout)
    BY <1>2, <1>3, <1>4, <1>5, PanelAssumption DEF Latest
  <1> QED
    BY <1>6 DEF v

\* A unit of time brings none of the forgotten codes back.
LEMMA Ages ==
  ASSUME NEW f, NEW w, NEW t \in Nat, NEW u, NEW m \in Nat, NEW n \in Nat,
         m = Len(f), n = Len(w), \A i \in 1..n : w[i] \in Nat, Latest(f, w, t, u)
  PROVE  Latest(f, w, t + 1, u)
  <1>1. /\ n - m >= 0 /\ m < MaxAttempts
        /\ \A i \in 1..m : f[i] = w[(n - m) + i]
        /\ \A i \in 1..n : w[i] <= t
        /\ \A i \in 1..(n - m) : t - w[i] > Window \/ w[i] + Lockout <= u
    BY DEF Latest
  <1>2. ASSUME NEW i \in 1..n
        PROVE  w[i] <= t + 1
    BY <1>1
  <1>3. ASSUME NEW i \in 1..(n - m)
        PROVE  t + 1 - w[i] > Window \/ w[i] + Lockout <= u
    <2>1. w[i] \in Nat
      BY <1>1
    <2> QED
      BY <1>1, <2>1, PanelAssumption
  <1> QED
    BY <1>1, <1>2, <1>3 DEF Latest

\* A wrong code is forgotten only when it has left the window or by a lockout.
LEMMA FailureStep ==
  ASSUME LimiterInv, NEW p \in Panels, RecordFailure(p), UNCHANGED now
  PROVE  LimiterInv'
  <1> DEFINE g == Recent(Append(failures[p], now))
             full == Len(g) >= MaxAttempts
             f == IF full THEN <<>> ELSE g
             u == IF full THEN now + Lockout ELSE locked_until[p]
  <1>1. /\ now \in Nat
        /\ failures \in [Panels -> Seq(Nat)] /\ wrongs \in [Panels -> Seq(Nat)]
        /\ locked_until \in [Panels -> Nat]
    BY DEF LimiterInv, LimiterType
  <1>2. /\ failures' = [failures EXCEPT ![p] = f]
        /\ wrongs' = [wrongs EXCEPT ![p] = Append(wrongs[p], now)]
        /\ locked_until' = [locked_until EXCEPT ![p] = u]
    BY DEF RecordFailure
  <1>3. PICK m \in Nat, n \in Nat : m = Len(failures[p]) /\ n = Len(wrongs[p])
    BY <1>1, LenProperties
  <1>4. PICK d \in 0..m :
          /\ g \in Seq(Nat) /\ Len(g) = m + 1 - d
          /\ \A i \in 1..(m + 1 - d) : g[i] = Append(failures[p], now)[d + i]
          /\ \A i \in 1..d : now - failures[p][i] > Window
    BY <1>1, <1>3, RecentProperties
  <1>5. Latest(failures[p], wrongs[p], now, locked_until[p])
    BY DEF LimiterInv, FailuresAreTheLatest
  <1>6. /\ Append(wrongs[p], now) \in Seq(Nat) /\ Len(Append(wrongs[p], now)) = n + 1
        /\ Append(wrongs[p], now)[n + 1] = now
        /\ \A i \in 1..n : Append(wrongs[p], now)[i] = wrongs[p][i] /\ wrongs[p][i] \in Nat
        /\ Append(failures[p], now)[m + 1] = now
        /\ \A i \in 1..m : Append(failures[p], now)[i] = failures[p][i]
    BY <1>1, <1>3, AppendProperties, ElementOfSeq
  <1>7. f \in Seq(Nat) /\ u \in Nat
    BY <1>1, <1>4, EmptySeq, PanelAssumption
  <1> HIDE DEF g
  <1>8. Latest(f, Append(wrongs[p], now), now, u)
    <2>1. CASE full
      BY <1>1, <1>5, <2>1, LocksOut
    <2>2. CASE ~full
      <3>1. Len(g) < MaxAttempts
        BY <1>4, <2>2, PanelAssumption
      <3>2. Becomes(failures[p], m, wrongs[p], n, g, d, Append(wrongs[p], now), now)
        <4>1. ASSUME NEW i \in 1..(m + 1 - d)
              PROVE  g[i] = IF d + i = m + 1 THEN now ELSE failures[p][d + i]
          <5>1. g[i] = Append(failures[p], now)[d + i]
            BY <1>4
          <5>2. d + i = m + 1 \/ d + i \in 1..m
            OBVIOUS
          <5> QED
            BY <1>6, <5>1, <5>2
        <4> QED
          BY <1>3, <1>4, <1>6, <4>1 DEF Becomes
      <3>3. Latest(g, Append(wrongs[p], now), now, locked_until[p])
        BY <1>1, <1>5, <3>1, <3>2, DropsOld
      <3> QED
        BY <2>2, <3>3
    <2> QED
      BY <2>1, <2>2
  <1> HIDE DEF f, u
  <1>9. LimiterType'
    BY <1>1, <1>2, <1>6, <1>7 DEF LimiterType
  <1>10. FailuresAreTheLatest'
    <2> SUFFICES ASSUME NEW q \in Panels
                 PROVE  Latest(failures'[q], wrongs'[q], now, locked_until'[q])
      BY DEF FailuresAreTheLatest
    <2>1. CASE q = p
      BY <1>1, <1>2, <1>8, <2>1
    <2>2. CASE q # p
      BY <1>1, <1>2, <2>2 DEF LimiterInv, FailuresAreTheLatest
    <2> QED
      BY <2>1, <2>2
  <1> QED
    BY <1>9, <1>10 DEF LimiterInv

\* A right code forgets them all, with the history.
LEMMA SuccessStep ==
  ASSUME LimiterInv, NEW p \in Panels, RecordSuccess(p), UNCHANGED now
  PROVE  LimiterInv'
  <1>1. /\ now \in Nat
        /\ failures \in [Panels -> Seq(Nat)] /\ wrongs \in [Panels -> Seq(Nat)]
        /\ locked_until \in [Panels -> Nat]
    BY DEF LimiterInv, LimiterType
  <1>2. /\ failures' = [failures EXCEPT ![p] = <<>>]
        /\ wrongs' = [wrongs EXCEPT ![p] = <<>>] /\ UNCHANGED locked_until
    BY DEF RecordSuccess
  <1>3. <<>> \in Seq(Nat) /\ Len(<<>>) = 0
    BY EmptySeq
  <1>4. LimiterType'
    BY <1>1, <1>2, <1>3 DEF LimiterType
  <1>5. Latest(<<>>, <<>>, now, locked_until[p])
    BY <1>3, PanelAssumption DEF Latest
  <1>6. FailuresAreTheLatest'
    <2> SUFFICES ASSUME NEW q \in Panels
                 PROVE  Latest(failures'[q], wrongs'[q], now, locked_until'[q])
      BY DEF FailuresAreTheLatest
    <2>1. CASE q = p
      BY <1>1, <1>2, <1>5, <2>1
    <2>2. CASE q # p
      BY <1>1, <1>2, <2>2 DEF LimiterInv, FailuresAreTheLatest
    <2> QED
      BY <2>1, <2>2
  <1> QED
    BY <1>4, <1>6 DEF LimiterInv

\* Time only makes wrong codes older.
LEMMA TimePasses ==
  ASSUME LimiterInv, Tick
  PROVE  LimiterInv'
  <1>1. now \in Nat /\ now' = now + 1 /\ UNCHANGED <<failures, wrongs, locked_until>>
        /\ wrongs \in [Panels -> Seq(Nat)] /\ failures \in [Panels -> Seq(Nat)]
    BY DEF Tick, limiterVars, LimiterInv, LimiterType
  <1>2. LimiterType'
    BY <1>1 DEF LimiterInv, LimiterType
  <1>3. ASSUME NEW p \in Panels
        PROVE  Latest(failures[p], wrongs[p], now + 1, locked_until[p])
    <2>1. PICK m \in Nat, n \in Nat : m = Len(failures[p]) /\ n = Len(wrongs[p])
      BY <1>1, LenProperties
    <2>2. \A i \in 1..n : wrongs[p][i] \in Nat
      BY <1>1, <2>1, ElementOfSeq
    <2>3. Latest(failures[p], wrongs[p], now, locked_until[p])
      BY DEF LimiterInv, FailuresAreTheLatest
    <2> QED
      BY <1>1, <2>1, <2>2, <2>3, Ages
  <1> QED
    BY <1>1, <1>2, <1>3 DEF LimiterInv, FailuresAreTheLatest

\* Only a code that was checked, and time, move the limiters.
LEMMA LimiterStep ==
  ASSUME IInv, LimiterInv, [Next]_vars
  PROVE  LimiterInv'
  <1>1. ASSUME NEW c \in Calls, Verified(c)
        PROVE  LimiterInv'
    <2>1. call[c].panel \in Panels /\ UNCHANGED now
      BY <1>1 DEF Verified, IInv, CallNamesPanel, world
    <2>2. RecordFailure(call[c].panel) \/ RecordSuccess(call[c].panel)
      BY <1>1 DEF Verified
    <2> QED
      BY <2>1, <2>2, FailureStep, SuccessStep
  <1>2. CASE Tick
    BY <1>2, TimePasses
  <1>3. CASE UNCHANGED <<now, limiterVars>>
    BY <1>3 DEF LimiterInv, LimiterType, FailuresAreTheLatest, limiterVars
  <1>4. (\E c \in Calls : Verified(c)) \/ Tick \/ UNCHANGED <<now, limiterVars>>
    BY DEF Next, CallStep, Press, Execute, Work, Returns, ModeEvent, vars, world
  <1> QED
    BY <1>1, <1>2, <1>3, <1>4

\* No limiter has counted anything at first.
LEMMA LimiterInit == Init => LimiterInv
  <1> SUFFICES ASSUME Init PROVE LimiterInv
    OBVIOUS
  <1>1. <<>> \in Seq(Nat) /\ Len(<<>>) = 0
    BY EmptySeq
  <1>2. LimiterType
    BY <1>1 DEF Init, LimiterType
  <1>3. \A p \in Panels : Latest(failures[p], wrongs[p], now, locked_until[p])
    BY <1>1, PanelAssumption DEF Init, Latest
  <1> QED
    BY <1>2, <1>3 DEF LimiterInv, FailuresAreTheLatest

\* "Five wrong codes within 60 s lock the panel": for any limits with a lockout no
\* shorter than the window, and however the checks of a panel's codes overlap with
\* each other and with a lockout, an open panel has had fewer wrong codes than
\* MaxAttempts within the window since the last right one, its far end included.
THEOREM OpenHasFewFailuresAlways == Spec => []OpenHasFewFailures
  <1>1. ASSUME LimiterInv
        PROVE  OpenHasFewFailures
    <2> SUFFICES ASSUME NEW p \in Panels, ~Locked(p)
                 PROVE  Cardinality({i \in DOMAIN wrongs[p] : Weighs(p, i)}) < MaxAttempts
      BY DEF OpenHasFewFailures
    <2> DEFINE S == {i \in DOMAIN wrongs[p] : Weighs(p, i)}
    <2>1. /\ wrongs[p] \in Seq(Nat) /\ failures[p] \in Seq(Nat)
          /\ locked_until[p] \in Nat /\ now \in Nat /\ locked_until[p] <= now
      BY <1>1 DEF LimiterInv, LimiterType, Locked
    <2>2. PICK m \in Nat, n \in Nat : m = Len(failures[p]) /\ n = Len(wrongs[p])
      BY <2>1, LenProperties
    <2>3. DOMAIN wrongs[p] = 1..n /\ \A i \in 1..n : wrongs[p][i] \in Nat
      BY <2>1, <2>2, LenProperties, ElementOfSeq
    <2>4. /\ n - m >= 0 /\ m < MaxAttempts
          /\ \A i \in 1..(n - m) :
               now - wrongs[p][i] > Window \/ wrongs[p][i] + Lockout <= locked_until[p]
      BY <1>1, <2>2 DEF LimiterInv, FailuresAreTheLatest, Latest
    <2>5. ASSUME NEW i \in 1..(n - m)
          PROVE  ~Weighs(p, i)
      <3>1. wrongs[p][i] \in Nat
        BY <2>3, <2>4
      <3>2. now - wrongs[p][i] > Window \/ wrongs[p][i] + Lockout <= locked_until[p]
        BY <2>4
      <3>3. PICK w \in Nat, u \in Nat, t \in Nat :
              w = wrongs[p][i] /\ u = locked_until[p] /\ t = now
        BY <2>1, <3>1
      <3>4. u <= t /\ (t - w > Window \/ w + Lockout <= u)
        BY <2>1, <3>2, <3>3
      <3>5. t - w >= Window /\ (t - w = Window => u = t)
        BY <3>4, PanelAssumption
      <3>6. ~(t - w < Window)
        BY <3>5, PanelAssumption
      <3> QED
        BY <3>3, <3>5, <3>6 DEF Weighs
    <2>6. S \in SUBSET ((n - m + 1)..n)
      BY <2>3, <2>4, <2>5
    <2> HIDE DEF S
    <2>7. IsFiniteSet((n - m + 1)..n) /\ Cardinality((n - m + 1)..n) = m
      <3>1. n - m + 1 \in Int /\ n \in Int /\ n - (n - m + 1) + 1 = m
            /\ (n - m + 1 > n => m = 0)
        BY <2>4
      <3> QED
        BY <3>1, FS_Interval
    <2>8. Cardinality(S) <= m /\ Cardinality(S) \in Nat
      BY <2>6, <2>7, FS_Subset, FS_CardinalityType
    <2> QED
      BY <2>4, <2>8, PanelAssumption DEF S
  <1> QED
    BY <1>1, LimiterInit, LimiterStep, InitInv, StepInv, PTL DEF Spec

-----------------------------------------------------------------------------
(* The type invariant.                                                     *)

CommandsAreRunning ==
  \A c \in Calls : command[c] # "new" => call[c].at \in {"running", "ended"}

WorldType ==
  /\ coded \subseteq {"disarm", "arm"} /\ usable \in BOOLEAN
  /\ mode \in [Areas -> Modes \union {NoMode}]
  /\ now \in 0..MaxTime /\ events \in 0..MaxEvents

\* The controller touches the command of the call that it works for.
LEMMA OneCommandMoves ==
  ASSUME IInv, NEW c \in Calls, Controller!Accept(c) \/ Controller!Reject(c) \/ Controller!Progress(c)
  PROVE  \A d \in Calls : d # c => command'[d] = command[d]
  BY DEF IInv, CallType, Controller!Accept, Controller!Reject, Controller!Progress,
         Controller!Send, Controller!GiveUp, Controller!Conclude, Controller!Becomes

\* A call gets its command only when it runs, and then only comes back.
LEMMA CommandsStep ==
  ASSUME IInv, CommandsAreRunning, [Next]_vars
  PROVE  CommandsAreRunning'
  <1>1. call \in [Calls -> CallState]
    BY DEF IInv, CallType
  <1>2. ASSUME NEW c \in Calls, UNCHANGED command,
               \A d \in Calls : d # c => call'[d] = call[d],
               call[c].at \in {"new", "verifying"} \/ call'[c].at = "ended"
        PROVE  CommandsAreRunning'
    BY <1>2 DEF CommandsAreRunning
  <1>3. ASSUME NEW c \in Calls, NEW p \in Panels, NEW m \in Modes, NEW k \in Codes,
               Press(c, p, m, k)
        PROVE  CommandsAreRunning'
    <2>1. \A d \in Calls : d # c => call'[d] = call[d]
      BY <1>1, <1>3 DEF Press, TurnedAway, Proceed, Ends, Made
    <2> QED
      BY <1>2, <1>3, <2>1 DEF Press, contractVars
  <1>4. ASSUME NEW c \in Calls, Verified(c)
        PROVE  CommandsAreRunning'
    <2>1. \A d \in Calls : d # c => call'[d] = call[d]
      BY <1>1, <1>4 DEF Verified, Proceed, Ends, Made
    <2> QED
      BY <1>2, <1>4, <2>1 DEF Verified, contractVars
  <1>5. ASSUME NEW c \in Calls, Execute(c)
        PROVE  CommandsAreRunning'
    <2>1. Goes(c, "running") /\ (Controller!Accept(c) \/ Controller!Reject(c))
      BY <1>5 DEF Execute
    <2>2. /\ call'[c].at = "running"
          /\ \A d \in Calls : d # c => call'[d] = call[d]
      BY <2>1, CallGoes DEF IInv, Places
    <2>3. \A d \in Calls : d # c => command'[d] = command[d]
      BY <2>1, OneCommandMoves
    <2> QED
      BY <2>2, <2>3 DEF CommandsAreRunning
  <1>6. ASSUME NEW c \in Calls, Work(c)
        PROVE  CommandsAreRunning'
    <2>1. \A d \in Calls : d # c => command'[d] = command[d]
      BY <1>6, OneCommandMoves DEF Work
    <2>2. UNCHANGED call /\ call[c].at = "running"
      BY <1>6 DEF Work
    <2> QED
      BY <2>1, <2>2 DEF CommandsAreRunning
  <1>7. ASSUME NEW c \in Calls, Returns(c)
        PROVE  CommandsAreRunning'
    <2>1. /\ call'[c].at = "ended" /\ UNCHANGED command
          /\ \A d \in Calls : d # c => call'[d] = call[d]
      BY <1>1, <1>7 DEF Returns, Ends, NotMade, contractVars
    <2> QED
      BY <1>2, <2>1
  <1>8. CASE UNCHANGED <<call, command>>
    BY <1>8 DEF CommandsAreRunning
  <1>9. \/ \E c \in Calls, p \in Panels, m \in Modes, k \in Codes : Press(c, p, m, k)
        \/ \E c \in Calls : Verified(c) \/ Execute(c) \/ Work(c) \/ Returns(c)
        \/ UNCHANGED <<call, command>>
    BY DEF Next, CallStep, ModeEvent, Tick, vars, contractVars
  <1> QED
    BY <1>3, <1>4, <1>5, <1>6, <1>7, <1>8, <1>9

\* The options never change here, the hub only loses its credentials, and an area
\* gets a mode there is.
LEMMA WorldStep ==
  ASSUME WorldType, [Next]_vars
  PROVE  WorldType'
  <1>1. ASSUME NEW c \in Calls, Work(c)
        PROVE  WorldType'
    <2>1. usable' \in BOOLEAN
      BY <1>1 DEF Work
    <2> QED
      BY <1>1, <2>1 DEF Work, WorldType
  <1>2. ASSUME NEW a \in Areas, NEW m \in Modes \union {NoMode}, ModeEvent(a, m)
        PROVE  WorldType'
    <2>1. UNCHANGED <<coded, usable, now>> /\ mode' = [mode EXCEPT ![a] = m]
      BY <1>2 DEF ModeEvent
    <2>2. events' \in 0..MaxEvents
      BY <1>2, PanelBounds DEF ModeEvent, WorldType
    <2> QED
      BY <2>1, <2>2 DEF WorldType
  <1>5. CASE Tick
    <2>1. now' \in 0..MaxTime /\ UNCHANGED <<coded, usable, mode, events>>
      BY <1>5, PanelBounds DEF Tick, WorldType
    <2> QED
      BY <2>1 DEF WorldType
  <1>3. CASE UNCHANGED <<coded, usable, mode, now, events>>
    BY <1>3 DEF WorldType
  <1>4. \/ \E c \in Calls : Work(c)
        \/ \E a \in Areas, m \in Modes \union {NoMode} : ModeEvent(a, m)
        \/ Tick
        \/ UNCHANGED <<coded, usable, mode, now, events>>
    BY DEF Next, CallStep, Press, Verified, Execute, Returns, vars, world
  <1> QED
    BY <1>1, <1>2, <1>3, <1>4, <1>5

-----------------------------------------------------------------------------
(* The panel and the controller: what a call comes back with tells whether *)
(* it was written, and what is written was let through.                    *)

GateResults == {"code_required", "invalid_code", "invalid_code_locked"}

\* A step of a command belongs to a call that runs; no other step touches any.
LEMMA CommandSteps ==
  ASSUME [Next]_vars
  PROVE  \/ \E c \in Calls : Execute(c) \/ Work(c)
         \/ UNCHANGED <<command, rpcs>>
  BY DEF Next, CallStep, Press, Verified, Returns, ModeEvent, Tick, vars, contractVars

\* What has been written by the status a command has.
RequestsFit ==
  /\ rpcs \in [Calls -> {0, 1}]
  /\ \A c \in Calls : command[c] \in {"new", "open", "REJECTED"} => rpcs[c] = 0

\* What a call came back with by the status its command has.
ResultsFit ==
  \A c \in Calls :
    /\ call[c].result \in GateResults => command[c] = "new"
    /\ call[c].result = "arm_busy" => command[c] = "REJECTED"
    /\ call[c].at = "ended" <=> call[c].result # "none"

\* A call that needed the code got past the gate with the right one.
CodesFit ==
  \A c \in Calls :
    call[c].at \in {"submitted", "running"} /\ NeedsCode(call[c].mode)
      => call[c].code = "right"

GateInv == RequestsFit /\ ResultsFit /\ CodesFit

\* Of the controller's steps only a send writes, and what it writes is open.
LEMMA RequestsStep ==
  ASSUME IInv, RequestsFit, [Next]_vars
  PROVE  RequestsFit'
  <1>1. CASE UNCHANGED <<command, rpcs>>
    BY <1>1 DEF RequestsFit
  <1>2. ASSUME NEW c \in Calls, Execute(c) \/ Work(c)
        PROVE  RequestsFit'
    <2>1. Controller!Accept(c) \/ Controller!Reject(c) \/ Controller!Progress(c)
      BY <1>2 DEF Execute, Work
    <2>2. command \in [Calls -> {"new"} \union Controller!InFlight \union Controller!Outcomes]
      BY DEF IInv, CallType
    <2>3. CASE Controller!Accept(c) \/ Controller!Reject(c)
      BY <2>2, <2>3
         DEF Controller!Accept, Controller!Reject, Controller!Becomes, RequestsFit
    <2>4. CASE Controller!Send(c)
      BY <2>2, <2>4 DEF Controller!Send, Controller!Becomes, RequestsFit
    <2>5. CASE Controller!GiveUp(c) \/ Controller!Conclude(c)
      BY <2>2, <2>5 DEF Controller!GiveUp, Controller!Conclude, Controller!Becomes,
                        Controller!Outcomes, RequestsFit
    <2> QED
      BY <2>1, <2>3, <2>4, <2>5 DEF Controller!Progress
  <1> QED
    BY <1>1, <1>2, CommandSteps

\* A call keeps what it was made with until it ends, and ends at its gate without
\* a command or with what its command came to.
LEMMA ResultsStep ==
  ASSUME IInv, CommandsAreRunning, ResultsFit, CodesFit, [Next]_vars
  PROVE  ResultsFit' /\ CodesFit'
  <1>1. call \in [Calls -> CallState]
    BY DEF IInv, CallType
  <1>2. ASSUME NEW c \in Calls, NEW r \in GateResults \union {"done", "arm_unavailable"}, Ends(c, r),
               UNCHANGED <<coded, command>>, command[c] = "new"
        PROVE  ResultsFit' /\ CodesFit'
    <2>1. /\ call'[c].at = "ended" /\ call'[c].result = r
          /\ \A d \in Calls : d # c => call'[d] = call[d]
      BY <1>1, <1>2 DEF Ends, NotMade
    <2> QED
      BY <1>2, <2>1 DEF ResultsFit, CodesFit, GateResults, NeedsCode
  <1>3. ASSUME NEW c \in Calls, NEW p \in Panels, NEW m \in Modes, NEW k \in Codes,
               NEW at \in Places \ {"ended"}, Made(c, p, m, k, at), UNCHANGED <<coded, command>>,
               at # "verifying" /\ NeedsCode(m) => k = "right"
        PROVE  ResultsFit' /\ CodesFit'
    <2>1. /\ call'[c].at = at /\ call'[c].mode = m /\ call'[c].code = k
          /\ call'[c].result = "none"
          /\ \A d \in Calls : d # c => call'[d] = call[d]
      BY <1>1, <1>3 DEF Made
    <2> QED
      BY <1>3, <2>1 DEF ResultsFit, CodesFit, GateResults, NeedsCode
  <1>4. ASSUME NEW c \in Calls, NEW p \in Panels, NEW m \in Modes, NEW k \in Codes,
               Proceed(c, p, m, k), UNCHANGED <<coded, command>>, command[c] = "new",
               NeedsCode(m) => k = "right"
        PROVE  ResultsFit' /\ CodesFit'
    BY <1>2, <1>3, <1>4 DEF Proceed, Places
  <1>5. ASSUME NEW c \in Calls, NEW p \in Panels, NEW m \in Modes, NEW k \in Codes,
               Press(c, p, m, k)
        PROVE  ResultsFit' /\ CodesFit'
    <2>1. command[c] = "new" /\ UNCHANGED <<coded, command>>
      BY <1>5 DEF Press, CommandsAreRunning, world, contractVars
    <2>2. CASE TurnedAway(c, p, m, k)
      BY <1>2, <2>1, <2>2 DEF TurnedAway, GateResults
    <2>3. CASE Made(c, p, m, k, "verifying")
      BY <1>3, <2>1, <2>3 DEF Places
    <2>4. CASE ~NeedsCode(m) /\ Proceed(c, p, m, k)
      BY <1>4, <2>1, <2>4
    <2> QED
      BY <1>5, <2>2, <2>3, <2>4 DEF Press
  <1>6. ASSUME NEW c \in Calls, Verified(c)
        PROVE  ResultsFit' /\ CodesFit'
    <2>1. /\ command[c] = "new" /\ UNCHANGED <<coded, command>>
          /\ call[c].panel \in Panels /\ call[c].mode \in Modes
      BY <1>6 DEF Verified, CommandsAreRunning, CallNamesPanel, IInv, world, contractVars
    <2>2. CASE Ends(c, "invalid_code")
      BY <1>2, <2>1, <2>2 DEF GateResults
    <2>3. CASE Proceed(c, call[c].panel, call[c].mode, "right")
      BY <1>4, <2>1, <2>3 DEF Codes
    <2> QED
      BY <1>6, <2>2, <2>3 DEF Verified
  <1>7. ASSUME NEW c \in Calls, Execute(c) \/ Work(c)
        PROVE  ResultsFit' /\ CodesFit'
    <2>1. /\ call[c].at \in {"submitted", "running"} /\ UNCHANGED coded
          /\ Controller!Accept(c) \/ Controller!Reject(c) \/ Controller!Progress(c)
      BY <1>7 DEF Execute, Work, world
    <2>2. \A d \in Calls : d # c => command'[d] = command[d]
      BY <2>1, OneCommandMoves
    <2>3. /\ call'[c] = [call[c] EXCEPT !.at = "running"]
          /\ \A d \in Calls : d # c => call'[d] = call[d]
      <3>1. CASE Execute(c)
        BY <1>1, <3>1 DEF Execute, Goes
      <3>2. CASE Work(c)
        BY <1>1, <3>2 DEF Work, CallState
      <3> QED
        BY <1>7, <3>1, <3>2
    <2>4. call[c] \in CallState
      BY <1>1
    <2>5. /\ call'[c].at = "running" /\ call'[c].result = "none"
          /\ call'[c].mode = call[c].mode /\ call'[c].code = call[c].code
      BY <2>1, <2>3, <2>4 DEF CallState, ResultsFit
    <2>6. \A d \in Calls : d # c => call'[d] = call[d] /\ command'[d] = command[d]
      BY <2>2, <2>3
    <2>7. ResultsFit'
      BY <2>5, <2>6 DEF ResultsFit, GateResults
    <2>8. CodesFit'
      BY <2>1, <2>5, <2>6 DEF CodesFit, NeedsCode
    <2> QED
      BY <2>7, <2>8
  <1>8. ASSUME NEW c \in Calls, Returns(c)
        PROVE  ResultsFit' /\ CodesFit'
    <2>1. command[c] \in Controller!Outcomes /\ UNCHANGED <<coded, command>>
      BY <1>8 DEF Returns, world, contractVars
    <2>2. PICK r \in Errors[command[c]] : Ends(c, r)
      BY <1>8 DEF Returns
    <2>4. r \notin GateResults \union {"none"} /\ (r = "arm_busy" => command[c] = "REJECTED")
      BY <2>1, <2>2 DEF Errors, GateResults, Controller!Outcomes
    <2>3. /\ call'[c].at = "ended" /\ call'[c].result = r
          /\ \A d \in Calls : d # c => call'[d] = call[d]
      BY <1>1, <2>2 DEF Ends, NotMade
    <2> QED
      BY <2>1, <2>3, <2>4 DEF ResultsFit, CodesFit, NeedsCode
  <1>9. CASE UNCHANGED <<coded, call, command>>
    BY <1>9 DEF ResultsFit, CodesFit, NeedsCode
  <1>10. \/ \E c \in Calls, p \in Panels, m \in Modes, k \in Codes : Press(c, p, m, k)
         \/ \E c \in Calls : Verified(c) \/ Execute(c) \/ Work(c) \/ Returns(c)
         \/ UNCHANGED <<coded, call, command>>
    BY DEF Next, CallStep, ModeEvent, Tick, vars, world, contractVars
  <1> QED
    BY <1>5, <1>6, <1>7, <1>8, <1>9, <1>10

\* The invariant of the gate, for the theorems that rest on it.
LEMMA GateAlways == Spec => [](IInv /\ GateInv /\ CommandsAreRunning)
  <1>1. Init => GateInv /\ CommandsAreRunning
    BY DEF Init, NotMade, Controller!Init, GateInv, RequestsFit, ResultsFit, CodesFit,
           GateResults, CommandsAreRunning
  <1>2. ASSUME IInv, CommandsAreRunning, GateInv, [Next]_vars
        PROVE  GateInv'
    BY <1>2, RequestsStep, ResultsStep DEF GateInv
  <1> QED
    BY <1>1, <1>2, CommandsStep, InitInv, StepInv, PTL DEF Spec

\* Panels, limiters, calls and options are well formed in every state, a list is
\* too short to lock its panel, and the controller has a command only for a call
\* that is past its gate.
THEOREM TypeCorrect == Spec => []TypeOK
  <1>1. Init => WorldType
    <2> SUFFICES ASSUME Init PROVE WorldType
      OBVIOUS
    <2>1. usable \in BOOLEAN
      BY DEF Init
    <2> QED
      BY <2>1, PanelBounds DEF Init, WorldType
  <1>2. IInv /\ LimiterInv /\ WorldType /\ CommandsAreRunning /\ GateInv => TypeOK
    <2> SUFFICES ASSUME IInv, LimiterInv, WorldType, CommandsAreRunning, GateInv
                 PROVE  TypeOK
      OBVIOUS
    <2>1. \A p \in Panels : Len(failures[p]) < MaxAttempts
      BY DEF LimiterInv, FailuresAreTheLatest, Latest
    <2>2. call \in [Calls -> CallState] /\ rpcs \in [Calls -> {0, 1}]
      BY DEF IInv, CallType, GateInv, RequestsFit
    <2>3. \A c \in Calls : call[c].at = "ended" <=> call[c].result # "none"
      BY DEF GateInv, ResultsFit
    <2> QED
      BY <2>1, <2>2, <2>3
         DEF IInv, CallType, LimiterInv, LimiterType, WorldType, CommandsAreRunning, TypeOK
  <1> QED
    BY <1>1, <1>2, LimiterInit, WorldStep, GateAlways, LimiterStep,
       InitInv, StepInv, PTL DEF Spec

\* A call that comes back as locked, without its code, with a wrong one or as busy
\* has had nothing written to the ARC, and no call has more than one request
\* written.  One that comes back as unavailable may have been written: the hub can
\* be unloaded while a request waits for its confirmation.
TurnedAwayIsNotWritten ==
  \A c \in Calls :
    /\ rpcs[c] \in {0, 1}
    /\ call[c].result \in GateResults \union {"arm_busy"} => rpcs[c] = 0

\* A call turned away at its gate never gets a command, and the command of one that
\* came back as busy was rejected before anything was written.
THEOREM TurnedAwayIsNotWrittenAlways == Spec => []TurnedAwayIsNotWritten
  <1>1. GateInv => TurnedAwayIsNotWritten
    BY DEF GateInv, RequestsFit, ResultsFit, TurnedAwayIsNotWritten
  <1> QED
    BY <1>1, GateAlways, PTL

\* What is written to the ARC is the first and only request of a call that runs,
\* made with the right code wherever the options ask for one, whatever happened
\* between its verification and its turn.
WrittenPastTheGate ==
  [][\A c \in Calls : rpcs'[c] # rpcs[c] =>
       /\ call[c].at = "running" /\ rpcs[c] = 0
       /\ NeedsCode(call[c].mode) => call[c].code = "right"]_vars

\* Between its verification and its turn a call keeps its code, its mode and the
\* options that asked for it, and the controller sends for running calls only.
THEOREM WrittenPastTheGateAlways == Spec => WrittenPastTheGate
  <1>1. ASSUME IInv, GateInv, [Next]_vars
        PROVE  \A c \in Calls : rpcs'[c] # rpcs[c] =>
                 /\ call[c].at = "running" /\ rpcs[c] = 0
                 /\ NeedsCode(call[c].mode) => call[c].code = "right"
    <2> SUFFICES ASSUME NEW c \in Calls, rpcs'[c] # rpcs[c]
                 PROVE  /\ call[c].at = "running" /\ rpcs[c] = 0
                        /\ NeedsCode(call[c].mode) => call[c].code = "right"
      OBVIOUS
    <2>1. PICK d \in Calls : Execute(d) \/ Work(d)
      BY <1>1, CommandSteps
    <2>2. Work(d) /\ Controller!Send(d)
      BY <2>1 DEF Execute, Work, Controller!Accept, Controller!Reject,
                  Controller!Progress, Controller!GiveUp, Controller!Conclude
    <2>3. d = c
      BY <1>1, <2>2 DEF Controller!Send, GateInv, RequestsFit
    <2>4. call[c].at = "running" /\ command[c] = "open"
      BY <2>2, <2>3 DEF Work, Controller!Send
    <2> QED
      BY <1>1, <2>4 DEF GateInv, RequestsFit, CodesFit
  <1> QED
    BY <1>1, GateAlways, PTL DEF Spec, WrittenPastTheGate

=============================================================================
