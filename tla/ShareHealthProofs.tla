------------------------- MODULE ShareHealthProofs -------------------------
(***************************************************************************)
(* Proofs about ShareHealth, for any thresholds, timeouts and bounds.      *)
(***************************************************************************)
EXTENDS ShareHealth, TLAPS

(* Every failure that is counted is one of the present streak; after the   *)
(* breaker has opened the streak goes on and the count begins anew.        *)
Counted == failures <= streak

HealthInv == TypeOK /\ Counted

LEMMA CapTyped ==
  ASSUME NEW n \in Nat, NEW limit \in Nat
  PROVE  UpTo(n, limit) \in 0..limit
BY DEF UpTo

LEMMA InvInit == Init => HealthInv
<1> SUFFICES ASSUME Init PROVE HealthInv
  OBVIOUS
<1>1. /\ FailureThreshold \in Nat \ {0} /\ OpenTimeout \in Nat \ {0}
      /\ MaxGap \in Nat
      /\ MaxSwitches \in Nat /\ MaxSleeps \in Nat /\ MaxOthers \in Nat
  BY HealthAssumption DEF HealthAssumption
<1>2. checker \in [at : Places, ok : BOOLEAN, age : 0..OpenTimeout]
  <2>1. 0 \in 0..OpenTimeout
    BY <1>1
  <2> QED
    BY <2>1 DEF Init, Places
<1>3. detector \in [at : Places, ok : BOOLEAN]
  BY DEF Init, Places
<1>4. reachable \in BOOLEAN /\ checkDue \in BOOLEAN /\ detectDue \in BOOLEAN
  BY Zenon DEF Init
<1>5. /\ failures \in 0..(FailureThreshold - 1) /\ openAge \in 0..OpenTimeout
      /\ gap \in 0..(MaxGap + 1) /\ streak \in 0..FailureThreshold
      /\ switches \in 0..MaxSwitches /\ sleeps \in 0..MaxSleeps
      /\ others \in 0..MaxOthers /\ Counted
  BY <1>1 DEF Init, Counted
<1>6. /\ state \in {"closed", "open", "half_open"} /\ state # "half_open"
      /\ warning \in {"none", "lost", "checking", "not ready"}
  BY DEF Init
<1> QED
  BY <1>2, <1>3, <1>4, <1>5, <1>6 DEF HealthInv, TypeOK

(***************************************************************************)
(* The breaker, told of a check that has ended: what it counts and what it *)
(* shows.                                                                  *)
(***************************************************************************)
LEMMA EndCheckCounts ==
  ASSUME HealthInv, EndCheck
  PROVE  /\ failures' \in 0..(FailureThreshold - 1)
         /\ streak' \in 0..FailureThreshold
         /\ failures' <= streak'
         /\ state = "closed" /\ state' = "open" => streak' = FailureThreshold
<1>1. FailureThreshold \in Nat /\ FailureThreshold > 0
  BY HealthAssumption DEF HealthAssumption
<1>2. /\ failures \in 0..(FailureThreshold - 1)
      /\ streak \in 0..FailureThreshold /\ failures <= streak
  BY DEF HealthInv, TypeOK, Counted
<1>3. CASE checker.ok
  <2>1. RecordSuccess /\ streak' = 0
    BY <1>3 DEF EndCheck
  <2>2. state' = "closed" /\ failures' = 0
    BY <2>1 DEF RecordSuccess
  <2> QED
    BY <1>1, <2>1, <2>2
<1>4. CASE ~checker.ok
  <2>1. RecordFailure /\ streak' = UpTo(streak + 1, FailureThreshold)
    BY <1>4 DEF EndCheck
  <2>2. /\ streak' \in 0..FailureThreshold
        /\ streak < FailureThreshold => streak' = streak + 1
        /\ streak = FailureThreshold => streak' = FailureThreshold
    BY <1>1, <1>2, <2>1 DEF UpTo
  <2>3. CASE Open /\ (state = "half_open" \/ failures + 1 >= FailureThreshold)
    <3>1. state' = "open" /\ failures' = 0
      BY <2>3 DEF Open
    <3>2. state = "closed" => streak' = FailureThreshold
      BY <1>1, <1>2, <2>2, <2>3
    <3> QED
      BY <1>1, <2>2, <3>1, <3>2
  <2>4. CASE /\ failures + 1 < FailureThreshold
             /\ failures' = failures + 1 /\ state' = state
    <3>1. /\ failures' \in 0..(FailureThreshold - 1)
          /\ failures' <= streak'
      BY <1>1, <1>2, <2>2, <2>4
    <3> QED
      BY <2>2, <2>4, <3>1
  <2>5. CASE failures' = failures /\ state' = state
    <3>1. failures' <= streak'
      BY <1>1, <1>2, <2>2, <2>5
    <3> QED
      BY <1>2, <2>2, <2>5, <3>1
  <2> QED
    BY <2>1, <2>3, <2>4, <2>5 DEF RecordFailure, breaker
<1> QED
  BY <1>3, <1>4

LEMMA EndCheckShows ==
  ASSUME HealthInv, EndCheck
  PROVE  /\ state' \in {"closed", "open"}
         /\ openAge' \in 0..OpenTimeout
         /\ warning' \in {"none", "lost", "checking", "not ready"}
<1>1. /\ openAge \in 0..OpenTimeout /\ checker.age \in 0..OpenTimeout
      /\ state \in {"closed", "open", "half_open"}
      /\ warning \in {"none", "lost", "checking", "not ready"}
  BY DEF HealthInv, TypeOK
<1>2. CASE checker.ok
  <2>1. RecordSuccess
    BY <1>2 DEF EndCheck
  <2> QED
    BY <1>1, <2>1 DEF RecordSuccess
<1>3. CASE ~checker.ok
  <2>1. RecordFailure
    BY <1>3 DEF EndCheck
  <2> QED
    BY <1>1, <2>1 DEF RecordFailure, Open, breaker
<1> QED
  BY <1>2, <1>3

(***************************************************************************)
(* The steps.  Those of the breaker change its counts, those of the world  *)
(* the ages; the rest of a step is a matter of ranges.                     *)
(***************************************************************************)
Numbers ==
    /\ failures \in 0..(FailureThreshold - 1)
    /\ streak \in 0..FailureThreshold
    /\ failures <= streak

Ages ==
    /\ openAge \in 0..OpenTimeout
    /\ gap \in 0..(MaxGap + 1)
    /\ checker \in [at : Places, ok : BOOLEAN, age : 0..OpenTimeout]

Shown ==
    /\ state \in {"closed", "open", "half_open"}
    /\ warning \in {"none", "lost", "checking", "not ready"}
    /\ detector \in [at : Places, ok : BOOLEAN]
    /\ state = "half_open" => checker.at # "wait"

Signals ==
    reachable \in BOOLEAN /\ checkDue \in BOOLEAN /\ detectDue \in BOOLEAN

Bounded ==
    /\ switches \in 0..MaxSwitches
    /\ sleeps \in 0..MaxSleeps
    /\ others \in 0..MaxOthers

LEMMA InvParts ==
  HealthInv <=> Numbers /\ Ages /\ Shown /\ Signals /\ Bounded
BY Zenon DEF HealthInv, TypeOK, Counted, Numbers, Ages, Shown, Signals, Bounded

LEMMA CheckerTyped ==
  ASSUME NEW at \in Places, NEW ok \in BOOLEAN, NEW age \in 0..OpenTimeout
  PROVE  [at |-> at, ok |-> ok, age |-> age]
           \in [at : Places, ok : BOOLEAN, age : 0..OpenTimeout]
OBVIOUS

LEMMA MonitorKeeps ==
  ASSUME HealthInv, Monitor
  PROVE  HealthInv'
<1>1. Numbers /\ Ages /\ Shown /\ Signals /\ Bounded
  BY InvParts
<1>2. 0 \in 0..OpenTimeout
  BY HealthAssumption DEF HealthAssumption
<1>3. checkDue' \in BOOLEAN /\ reachable' \in BOOLEAN
  BY <1>1, Zenon
     DEF Signals, Monitor, Refuse, BeginCheck, Probe, EndCheck
<1>4. Bounded' /\ detectDue' = detectDue /\ gap' = gap /\ detector' = detector
  BY <1>1
     DEF Bounded, Monitor, Refuse, BeginCheck, Probe, EndCheck, bounds, resume
<1>5. Signals'
  BY <1>1, <1>3, <1>4, Zenon DEF Signals
<1>6. CASE Refuse
  <2>1. UNCHANGED <<failures, streak, openAge, checker, state, warning>>
    BY <1>6 DEF Refuse, breaker
  <2> QED
    BY <1>1, <1>4, <1>5, <2>1, InvParts, Zenon DEF HealthInv, TypeOK, Counted,
       Numbers, Ages, Shown, Signals, Bounded
<1>7. CASE BeginCheck
  <2>1. UNCHANGED <<failures, streak, openAge, warning>>
    BY <1>7 DEF BeginCheck, Allow
  <2>2. checker' = [at |-> "probe", ok |-> TRUE, age |-> 0]
    BY <1>7 DEF BeginCheck
  <2>3. checker' \in [at : Places, ok : BOOLEAN, age : 0..OpenTimeout]
    <3>1. "probe" \in Places /\ TRUE \in BOOLEAN
      BY DEF Places
    <3> QED
      BY <1>2, <2>2, <3>1, CheckerTyped
  <2>4. checker'.at # "wait"
    BY <2>2
  <2>5. state' \in {"closed", "open", "half_open"}
    BY <1>1, <1>7 DEF BeginCheck, Allow, Shown
  <2> QED
    BY <1>1, <1>4, <1>5, <2>1, <2>3, <2>4, <2>5, Zenon
       DEF HealthInv, TypeOK, Counted, Numbers, Ages, Shown, Signals, Bounded
<1>8. CASE Probe
  <2>1. UNCHANGED <<failures, streak, openAge, state, warning>>
    BY <1>8 DEF Probe, breaker
  <2>2. checker' = [checker EXCEPT !.at = "tell", !.ok = reachable]
    BY <1>8 DEF Probe
  <2>3. checker' \in [at : Places, ok : BOOLEAN, age : 0..OpenTimeout]
    <3>1. "tell" \in Places
      BY DEF Places
    <3> QED
      BY <1>1, <2>2, <3>1 DEF Ages, Signals
  <2>4. checker'.at # "wait"
    BY <1>1, <2>2 DEF Ages
  <2> QED
    BY <1>1, <1>4, <1>5, <2>1, <2>3, <2>4, Zenon
       DEF HealthInv, TypeOK, Counted, Numbers, Ages, Shown, Signals, Bounded
<1>9. CASE EndCheck
  <2>1. Numbers'
    BY <1>9, EndCheckCounts DEF Numbers
  <2>2. checker' = [at |-> "wait", ok |-> TRUE, age |-> 0]
    BY <1>9 DEF EndCheck
  <2>3. checker' \in [at : Places, ok : BOOLEAN, age : 0..OpenTimeout]
    <3>1. "wait" \in Places /\ TRUE \in BOOLEAN
      BY DEF Places
    <3> QED
      BY <1>2, <2>2, <3>1, CheckerTyped
  <2>4. /\ state' \in {"closed", "open"} /\ openAge' \in 0..OpenTimeout
        /\ warning' \in {"none", "lost", "checking", "not ready"}
    BY <1>9, EndCheckShows
  <2>5. state' # "half_open" /\ state' \in {"closed", "open", "half_open"}
    BY <2>4
  <2> QED
    BY <1>1, <1>4, <1>5, <2>1, <2>3, <2>4, <2>5, Zenon
       DEF HealthInv, TypeOK, Counted, Numbers, Ages, Shown, Signals, Bounded
<1> QED
  BY <1>6, <1>7, <1>8, <1>9 DEF Monitor

LEMMA DetectorKeeps ==
  ASSUME HealthInv, Detector
  PROVE  HealthInv'
<1>1. Numbers /\ Ages /\ Shown /\ Signals /\ Bounded
  BY InvParts
<1>2. UNCHANGED <<reachable, state, failures, openAge, checker, checkDue, streak,
                  switches, sleeps, others>>
  BY DEF Detector, Detect, Revalidate, Revalidated, monitor, breaker, bounds
<1>3. detectDue' \in BOOLEAN
  BY <1>1, Zenon DEF Detector, Detect, Revalidate, Revalidated, Signals
<1>4. gap' \in 0..(MaxGap + 1)
  <2>1. 0 \in 0..(MaxGap + 1)
    BY HealthAssumption DEF HealthAssumption
  <2>2. gap' = 0 \/ gap' = gap
    BY DEF Detector, Detect, Revalidate, Revalidated
  <2> QED
    BY <1>1, <2>1, <2>2 DEF Ages
<1>5. warning' \in {"none", "lost", "checking", "not ready"}
  BY <1>1 DEF Detector, Detect, Revalidate, Revalidated, Shown
<1>6. detector' \in [at : Places, ok : BOOLEAN]
  <2>1. \/ detector' = detector
        \/ detector' = [at |-> "probe", ok |-> TRUE]
        \/ detector' = [at |-> "tell", ok |-> reachable]
        \/ detector' = [at |-> "wait", ok |-> TRUE]
    BY Zenon DEF Detector, Detect, Revalidate, Revalidated
  <2>2. reachable \in BOOLEAN /\ detector \in [at : Places, ok : BOOLEAN]
    BY <1>1 DEF Signals, Shown
  <2>3. TRUE \in BOOLEAN
    OBVIOUS
  <2>4. \A at \in Places, ok \in BOOLEAN :
          [at |-> at, ok |-> ok] \in [at : Places, ok : BOOLEAN]
    OBVIOUS
  <2>5. "wait" \in Places /\ "probe" \in Places /\ "tell" \in Places
    BY DEF Places
  <2> QED
    BY <2>1, <2>2, <2>3, <2>4, <2>5, Zenon
<1> QED
  BY <1>1, <1>2, <1>3, <1>4, <1>5, <1>6, Zenon
     DEF HealthInv, TypeOK, Counted, Numbers, Ages, Shown, Signals, Bounded

LEMMA PassKeeps ==
  ASSUME HealthInv, NEW units \in Nat, Pass(units)
  PROVE  Numbers' /\ Ages' /\ Shown' /\ Signals'
<1>1. Numbers /\ Ages /\ Shown /\ Signals /\ Bounded
  BY InvParts
<1>2. OpenTimeout \in Nat /\ MaxGap \in Nat
  BY HealthAssumption DEF HealthAssumption
<1>3. openAge' \in 0..OpenTimeout /\ gap' \in 0..(MaxGap + 1)
  <2>1. openAge + units \in Nat /\ gap + units \in Nat /\ MaxGap + 1 \in Nat
    BY <1>1, <1>2 DEF Ages
  <2>2. /\ openAge' = UpTo(openAge + units, OpenTimeout)
        /\ gap' = UpTo(gap + units, MaxGap + 1)
    BY DEF Pass
  <2> QED
    BY <1>2, <2>1, <2>2, CapTyped
<1>4. PICK age \in 0..OpenTimeout : checker' = [checker EXCEPT !.age = age]
  <2>1. checker.age \in Nat
    BY <1>1 DEF Ages
  <2>2. UpTo(checker.age + units, OpenTimeout) \in 0..OpenTimeout
    <3>1. checker.age + units \in Nat
      BY <2>1
    <3> QED
      BY <1>2, <3>1, CapTyped
  <2>3. 0 \in 0..OpenTimeout
    BY <1>2
  <2>4. \/ checker' = [checker EXCEPT !.age = 0]
        \/ checker' = [checker EXCEPT
                         !.age = UpTo(checker.age + units, OpenTimeout)]
    BY DEF Pass
  <2> QED
    BY <2>2, <2>3, <2>4
<1>5. /\ checker' \in [at : Places, ok : BOOLEAN, age : 0..OpenTimeout]
      /\ checker'.at = checker.at
  BY <1>1, <1>4 DEF Ages
<1>6. /\ UNCHANGED <<reachable, state, failures, detector, warning, streak>>
      /\ checkDue' = TRUE /\ detectDue' = TRUE
  BY DEF Pass
<1>7. Signals'
  BY <1>1, <1>6, Zenon DEF Signals
<1> QED
  BY <1>1, <1>3, <1>5, <1>6, <1>7, Zenon DEF Numbers, Ages, Shown

LEMMA WorldKeeps ==
  ASSUME HealthInv, Tick \/ Sleep \/ Switch \/ OtherStatus
  PROVE  HealthInv'
<1>1. Numbers /\ Ages /\ Shown /\ Signals /\ Bounded
  BY InvParts
<1>2. /\ OpenTimeout \in Nat /\ MaxGap \in Nat
      /\ MaxSwitches \in Nat /\ MaxSleeps \in Nat /\ MaxOthers \in Nat
  BY HealthAssumption DEF HealthAssumption
<1>3. Bounded'
  BY <1>1, <1>2 DEF Tick, Sleep, Switch, OtherStatus, Bounded, bounds
<1>4. CASE Tick \/ Sleep
  <2>1. PICK units \in Nat : Pass(units)
    <3>1. 1 \in Nat /\ OpenTimeout + MaxGap + 1 \in Nat
      BY <1>2
    <3> QED
      BY <1>4, <3>1, Zenon DEF Tick, Sleep
  <2>2. Numbers' /\ Ages' /\ Shown' /\ Signals'
    BY <2>1, PassKeeps
  <2> QED
    BY <1>3, <2>2, Zenon
       DEF HealthInv, TypeOK, Counted, Numbers, Ages, Shown, Signals, Bounded
<1>5. CASE Switch \/ OtherStatus
  <2>1. UNCHANGED <<state, failures, openAge, checker, checkDue, streak,
                    detector, detectDue, gap>>
    BY <1>5 DEF Switch, OtherStatus, monitor, breaker, resume
  <2>2. reachable' \in BOOLEAN
    BY <1>1, <1>5, Zenon DEF Switch, OtherStatus, Signals
  <2>3. warning' \in {"none", "lost", "checking", "not ready"}
    BY <1>1, <1>5 DEF Switch, OtherStatus, Shown
  <2> QED
    BY <1>1, <1>3, <2>1, <2>2, <2>3, Zenon
       DEF HealthInv, TypeOK, Counted, Numbers, Ages, Shown, Signals, Bounded
<1> QED
  BY <1>4, <1>5

LEMMA InvStep ==
  HealthInv /\ [Next]_vars => HealthInv'
<1> SUFFICES ASSUME HealthInv, [Next]_vars PROVE HealthInv'
  OBVIOUS
<1>1. CASE UNCHANGED vars
  BY <1>1, Zenon DEF HealthInv, TypeOK, Counted, vars, monitor, breaker, resume,
     bounds
<1> QED
  BY <1>1, MonitorKeeps, DetectorKeeps, WorldKeeps DEF Next

LEMMA HealthInvHolds == Spec => []HealthInv
BY InvInit, InvStep, PTL DEF Spec

-----------------------------------------------------------------------------
(* Counts stay below the threshold, ages within their caps, and a half-    *)
(* open breaker always has a probe on its way that will decide it          *)
(* (CircuitBreaker.Allow lets exactly one through).                        *)
THEOREM HealthTypeCorrect == Spec => []TypeOK
<1>1. HealthInv => TypeOK
  BY DEF HealthInv
<1> QED
  BY <1>1, HealthInvHolds, PTL

(* The breaker opens from closed only after FailureThreshold checks in a   *)
(* row have failed (CircuitBreaker.RecordFailure, RecordSuccess).          *)
THEOREM OutageSound == Spec => OpensOnlyAfterOutage
<1>1. ASSUME HealthInv, [Next]_vars,
             state = "closed", state' = "open"
      PROVE  streak' = FailureThreshold
  <2>1. CASE EndCheck
    BY <1>1, <2>1, EndCheckCounts
  <2>2. CASE ~EndCheck
    <3>1. state' = state \/ state' = "half_open" \/ UNCHANGED vars
      BY <1>1, <2>2 DEF Next, Monitor, Refuse, BeginCheck, Allow, Probe,
         Detector, Detect, Revalidate, Revalidated, Tick, Sleep, Pass, Switch,
         OtherStatus, monitor, breaker
    <3> QED
      BY <1>1, <3>1 DEF vars, monitor, breaker
  <2> QED
    BY <2>1, <2>2
<1>2. HealthInv /\ [Next]_vars
        => [state = "closed" /\ state' = "open"
              => streak' = FailureThreshold]_vars
  BY <1>1
<1> QED
  BY <1>2, HealthInvHolds, PTL DEF Spec, OpensOnlyAfterOutage
=============================================================================
