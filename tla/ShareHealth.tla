---------------------------- MODULE ShareHealth ----------------------------
(***************************************************************************)
(* How the agent notices that the share is gone and back: the circuit      *)
(* breaker and its monitor (internal/monitor/network_health.go), the       *)
(* resume detector (internal/monitor/resume_detector.go), and what main    *)
(* makes of both, the warning in the status.                               *)
(*                                                                         *)
(* One unit of time is the period of both tickers; goroutines take a tick  *)
(* at once, but a probe of a share that does not answer can take long.     *)
(* Covered: a share that comes and goes, also during a probe, a machine    *)
(* that sleeps, ticks that are dropped, other changes of the status.       *)
(***************************************************************************)
EXTENDS Integers

CONSTANTS
    FailureThreshold,
    OpenTimeout,      \* two check intervals in main
    MaxGap,           \* of the resume detector
    MaxSwitches,      \* bounds: how often the share comes or goes,
    MaxSleeps,        \* the machine sleeps,
    MaxOthers         \* and something else sets the status

ASSUME HealthAssumption ==
    /\ FailureThreshold \in Nat \ {0}
    /\ OpenTimeout \in Nat \ {0}
    /\ MaxGap \in Nat
    /\ MaxSwitches \in Nat /\ MaxSleeps \in Nat /\ MaxOthers \in Nat

VARIABLES
    reachable,  \* the paths of the share can be read
    state,      \* of the breaker
    failures,
    openAge,    \* time since openedAt, at most OpenTimeout
    checker,    \* checkOnce: where it is, what the probe says, the time
                \* since it took its now
    checkDue,   \* a tick is in the channel of the monitor
    detector,   \* OnResume: where it is and what its probe says
    detectDue,
    gap,        \* time since last of the detector, at most MaxGap + 1
    warning     \* the warning in the status, "none" if it is derived

(* History and bounds.                                                     *)
VARIABLES
    streak,     \* failed checks since a check succeeded
    switches, sleeps, others

breaker == <<state, failures, openAge>>
monitor == <<breaker, checker, checkDue, streak>>
resume == <<detector, detectDue, gap>>
bounds == <<switches, sleeps, others>>
vars == <<reachable, monitor, resume, warning, bounds>>

Places == {"wait", "probe", "tell"}

TypeOK ==
    /\ reachable \in BOOLEAN
    /\ state \in {"closed", "open", "half_open"}
    /\ failures \in 0..(FailureThreshold - 1)
    /\ openAge \in 0..OpenTimeout
    /\ checker \in [at : Places, ok : BOOLEAN, age : 0..OpenTimeout]
    /\ checkDue \in BOOLEAN
    /\ detector \in [at : Places, ok : BOOLEAN]
    /\ detectDue \in BOOLEAN
    /\ gap \in 0..(MaxGap + 1)
    /\ warning \in {"none", "lost", "checking", "not ready"}
    /\ streak \in 0..FailureThreshold
    /\ switches \in 0..MaxSwitches
    /\ sleeps \in 0..MaxSleeps
    /\ others \in 0..MaxOthers
    \* A half-open breaker is one whose only probe is on its way.
    /\ state = "half_open" => checker.at # "wait"

(* Run checks at once; the detector waits for its first tick.              *)
Init ==
    /\ reachable \in BOOLEAN
    /\ state = "closed" /\ failures = 0 /\ openAge = 0
    /\ checker = [at |-> "wait", ok |-> TRUE, age |-> 0]
    /\ checkDue = TRUE
    /\ detector = [at |-> "wait", ok |-> TRUE]
    /\ detectDue = FALSE
    /\ gap = 0
    /\ warning = "none"
    /\ streak = 0
    /\ switches = 0 /\ sleeps = 0 /\ others = 0

UpTo(n, limit) == IF n > limit THEN limit ELSE n

-----------------------------------------------------------------------------
(* The breaker, entered by its monitor alone.  Its hook sets the warning   *)
(* when it opens and derives the status again when it closes from half     *)
(* open.                                                                   *)

MayPass == state = "open" => openAge >= OpenTimeout

Allow ==
    /\ MayPass
    /\ state' = IF state = "open" THEN "half_open" ELSE state
    /\ UNCHANGED <<failures, openAge>>

(* openedAt is when the failing check began, not when it failed.           *)
Open ==
    /\ state' = "open"
    /\ openAge' = checker.age
    /\ failures' = 0
    /\ warning' = "lost"

\* A success leaves the failures that were counted before it.
RecordSuccessOnly ==
    /\ state' = "closed"
    /\ warning' = IF state = "half_open" THEN "none" ELSE warning
    /\ UNCHANGED <<failures, openAge>>

RecordSuccess ==
    /\ state' = "closed"
    /\ failures' = 0
    /\ warning' = IF state = "half_open" THEN "none" ELSE warning
    /\ UNCHANGED openAge

\* A half-open breaker whose probe fails stays as it is.
RecordFailureOfClosed ==
    \/ state = "closed" /\ failures + 1 >= FailureThreshold /\ Open
    \/ /\ state = "closed" /\ failures + 1 < FailureThreshold
       /\ failures' = failures + 1
       /\ UNCHANGED <<state, openAge, warning>>
    \/ state # "closed" /\ UNCHANGED <<breaker, warning>>

\* The breaker opens one failure late.
RecordFailureLate ==
    \/ state = "half_open" /\ Open
    \/ state = "closed" /\ failures + 1 > FailureThreshold /\ Open
    \/ /\ state = "closed" /\ failures + 1 <= FailureThreshold
       /\ failures' = failures + 1
       /\ UNCHANGED <<state, openAge, warning>>
    \/ state = "open" /\ UNCHANGED <<breaker, warning>>

RecordFailure ==
    \/ state = "half_open" /\ Open
    \/ state = "closed" /\ failures + 1 >= FailureThreshold /\ Open
    \/ /\ state = "closed" /\ failures + 1 < FailureThreshold
       /\ failures' = failures + 1
       /\ UNCHANGED <<state, openAge, warning>>
    \/ state = "open" /\ UNCHANGED <<breaker, warning>>

-----------------------------------------------------------------------------
(* checkOnce.                                                              *)

Refuse ==
    /\ checker.at = "wait" /\ checkDue
    /\ ~MayPass
    /\ checkDue' = FALSE
    /\ UNCHANGED <<reachable, breaker, checker, streak, resume, warning,
                   bounds>>

BeginCheck ==
    /\ checker.at = "wait" /\ checkDue
    /\ Allow
    /\ checkDue' = FALSE
    /\ checker' = [at |-> "probe", ok |-> TRUE, age |-> 0]
    /\ UNCHANGED <<reachable, streak, resume, warning, bounds>>

(* The probe reads every path; what it saw may be over when it is told.    *)
Probe ==
    /\ checker.at = "probe"
    /\ checker' = [checker EXCEPT !.at = "tell", !.ok = reachable]
    /\ UNCHANGED <<reachable, breaker, checkDue, streak, resume, warning,
                   bounds>>

EndCheck ==
    /\ checker.at = "tell"
    /\ IF checker.ok THEN RecordSuccess ELSE RecordFailure
    /\ streak' = IF checker.ok THEN 0 ELSE UpTo(streak + 1, FailureThreshold)
    /\ checker' = [at |-> "wait", ok |-> TRUE, age |-> 0]
    /\ UNCHANGED <<reachable, checkDue, resume, bounds>>

Monitor == Refuse \/ BeginCheck \/ Probe \/ EndCheck

-----------------------------------------------------------------------------
(* The resume detector.  It takes its time before it runs the hook of      *)
(* main: a hook that takes long is a gap of its own.                       *)

Detect ==
    /\ detector.at = "wait" /\ detectDue
    /\ detectDue' = FALSE
    /\ gap' = 0
    /\ \/ gap <= MaxGap /\ UNCHANGED <<detector, warning>>
       \/ /\ gap > MaxGap
          /\ detector' = [at |-> "probe", ok |-> TRUE]
          /\ warning' = "checking"
    /\ UNCHANGED <<reachable, monitor, bounds>>

(* The hook probes by itself, around the breaker.                          *)
Revalidate ==
    /\ detector.at = "probe"
    /\ detector' = [at |-> "tell", ok |-> reachable]
    /\ UNCHANGED <<reachable, monitor, detectDue, gap, warning, bounds>>

Revalidated ==
    /\ detector.at = "tell"
    /\ warning' = IF detector.ok THEN "none" ELSE "not ready"
    /\ detector' = [at |-> "wait", ok |-> TRUE]
    /\ UNCHANGED <<reachable, monitor, detectDue, gap, bounds>>

Detector == Detect \/ Revalidate \/ Revalidated

-----------------------------------------------------------------------------
(* The world.                                                              *)

Pass(units) ==
    /\ openAge' = UpTo(openAge + units, OpenTimeout)
    /\ checker' = [checker EXCEPT !.age = IF checker.at = "wait" THEN 0
                                          ELSE UpTo(@ + units, OpenTimeout)]
    /\ gap' = UpTo(gap + units, MaxGap + 1)
    /\ checkDue' = TRUE /\ detectDue' = TRUE
    /\ UNCHANGED <<reachable, state, failures, detector, warning, streak>>

(* Time passes when all have taken their ticks and told their results, and *)
(* in a probe while the share does not answer.                             *)
Tick ==
    /\ checker.at = "wait" => ~checkDue
    /\ detector.at = "wait" => ~detectDue
    /\ "tell" \notin {checker.at, detector.at}
    /\ "probe" \in {checker.at, detector.at} => ~reachable
    /\ Pass(1)
    /\ UNCHANGED bounds

(* The machine sleeps, longer than every timeout.                          *)
Sleep ==
    /\ sleeps < MaxSleeps
    /\ sleeps' = sleeps + 1
    /\ Pass(OpenTimeout + MaxGap + 1)
    /\ UNCHANGED <<switches, others>>

Switch ==
    /\ switches < MaxSwitches
    /\ switches' = switches + 1
    /\ reachable' = ~reachable
    /\ UNCHANGED <<monitor, resume, warning, sleeps, others>>

(* Lightroom starts or stops, a job begins or ends, the sync is paused or  *)
(* resumed: the status is derived again.                                   *)
OtherStatus ==
    /\ others < MaxOthers
    /\ others' = others + 1
    /\ warning' = "none"
    /\ UNCHANGED <<reachable, monitor, resume, switches, sleeps>>

Next == Monitor \/ Detector \/ Tick \/ Sleep \/ Switch \/ OtherStatus

Spec == Init /\ [][Next]_vars

(* Tickers go on and the system calls of a probe come back, if with an     *)
(* error: the redirector gives a share up after a while.                   *)
LiveSpec ==
    /\ Spec
    /\ WF_vars(Monitor) /\ WF_vars(Detector) /\ WF_vars(Tick)

-----------------------------------------------------------------------------
(* Properties.                                                             *)

(* An outage is declared only after FailureThreshold checks in a row have  *)
(* failed: not after failures between which a check succeeded, and not     *)
(* for a probe of the resume detector (RecordSuccess resets failures).     *)
OpensOnlyAfterOutage ==
    [][state = "closed" /\ state' = "open" => streak' = FailureThreshold]_vars

(* A share that stays away is known to be away, and the status says so     *)
(* whatever clears the warning meanwhile; a share that stays is found      *)
(* again, and neither "lost" nor "checking" stays in the status.  The      *)
(* warning "not ready" of a resume can stay: see the README.               *)
StaysAway == <>[]~reachable
StaysThere == <>[]reachable

StatusFollowsShare ==
    /\ StaysAway => <>[](state # "closed" /\ warning # "none")
    /\ StaysThere => <>[](state = "closed" /\ warning \in {"none", "not ready"})
=============================================================================
