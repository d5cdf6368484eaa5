--------------------------- MODULE CircuitBreaker ---------------------------
(***************************************************************************)
(* The circuit breaker of one channel (CircuitBreaker.hpp) as the worker   *)
(* threads of that channel use it through ProviderRouter::send.            *)
(*                                                                         *)
(* Every method of the breaker holds mu_ for its whole body, so each is    *)
(* one atomic step.  The call to the provider between allowRequest() and   *)
(* onSuccess()/onFailure() holds no lock: calls of different threads       *)
(* overlap, and a call admitted in one state of the breaker may report     *)
(* its result in another.                                                  *)
(***************************************************************************)
EXTENDS Integers

CONSTANTS
  Threads,           \* the worker threads that share the breaker
  FailureThreshold,  \* config.cbFailureThreshold
  OpenDuration,      \* config.cbOpenDurationMs, in clock ticks
  Outcomes           \* how a provider call may end, a subset of AllOutcomes

AllOutcomes == {"success", "transient", "permanent"}

ASSUME BreakerAssumption ==
  /\ FailureThreshold \in Nat
  /\ OpenDuration \in Nat
  /\ Outcomes \subseteq AllOutcomes

VARIABLES
  state,          \* state_
  failureCount,   \* failureCount_
  probeInFlight,  \* probeInFlight_
  elapsed,        \* steady_clock::now() - openedAt_, saturating at OpenDuration
  call,           \* where each thread is in ProviderRouter::send
  halfOpenCalls,  \* history: calls admitted in the present half-open period
  unreported      \* history: a call, of this period or late, ended in it without a report

breakerVars == <<state, failureCount, probeInFlight, elapsed>>
history == <<halfOpenCalls, unreported>>
vars == <<state, failureCount, probeInFlight, elapsed, call, halfOpenCalls, unreported>>

Init ==
  /\ state = "Closed"
  /\ failureCount = 0
  /\ probeInFlight = FALSE
  /\ elapsed = 0
  /\ call = [t \in Threads |-> "idle"]
  /\ halfOpenCalls = 0
  /\ unreported = FALSE

-----------------------------------------------------------------------------
(* allowRequest().  The first call after openDuration_ moves the breaker   *)
(* to HalfOpen and does not set probeInFlight_; a later call in HalfOpen   *)
(* sets it.                                                                *)

PassClosed ==
  /\ state = "Closed"
  /\ UNCHANGED <<breakerVars, history>>

PassAfterOpen ==
  /\ state = "Open"
  /\ elapsed >= OpenDuration
  /\ state' = "HalfOpen"
  /\ halfOpenCalls' = 1
  /\ unreported' = FALSE
  /\ UNCHANGED <<failureCount, probeInFlight, elapsed>>

PassProbeUnflagged ==
  /\ state = "HalfOpen"
  /\ ~probeInFlight
  /\ halfOpenCalls' = halfOpenCalls + 1
  /\ UNCHANGED <<breakerVars, unreported>>

PassProbe ==
  /\ state = "HalfOpen"
  /\ ~probeInFlight
  /\ probeInFlight' = TRUE
  /\ halfOpenCalls' = halfOpenCalls + 1
  /\ UNCHANGED <<state, failureCount, elapsed, unreported>>

\* It returns true, or false.
Pass == PassClosed \/ PassAfterOpen \/ PassProbe

Refuse ==
  /\ \/ state = "Open" /\ elapsed < OpenDuration
     \/ state = "HalfOpen" /\ probeInFlight
  /\ UNCHANGED <<breakerVars, history>>

-----------------------------------------------------------------------------
(* onSuccess() and onFailure(): neither asks in which state of the breaker *)
(* the reported call was admitted.                                         *)

OnSuccess ==
  /\ failureCount' = 0
  /\ probeInFlight' = FALSE
  /\ state' = "Closed"
  /\ halfOpenCalls' = 0
  /\ unreported' = FALSE
  /\ UNCHANGED elapsed

Trip ==
  /\ state' = "Open"
  /\ elapsed' = 0
  /\ failureCount' = 0
  /\ halfOpenCalls' = 0
  /\ unreported' = FALSE

CountFailure ==
  /\ failureCount' = failureCount + 1
  /\ UNCHANGED <<state, elapsed, history>>

OnFailureBeyondThreshold ==
  /\ probeInFlight' = FALSE
  /\ IF state = "HalfOpen" \/ failureCount + 1 > FailureThreshold
     THEN Trip
     ELSE CountFailure

OnFailureOnlyCounts ==
  IF failureCount + 1 >= FailureThreshold
  THEN Trip /\ probeInFlight' = FALSE
  ELSE CountFailure /\ UNCHANGED probeInFlight

OnFailure ==
  /\ probeInFlight' = FALSE
  /\ IF state = "HalfOpen" \/ failureCount + 1 >= FailureThreshold
     THEN Trip
     ELSE CountFailure

-----------------------------------------------------------------------------
(* ProviderRouter::send, which asks, calls the provider and reports.       *)

AllowRequest(t) ==
  /\ call[t] = "idle"
  /\ \/ Pass /\ call' = [call EXCEPT ![t] = "calling"]
     \/ Refuse /\ call' = [call EXCEPT ![t] = "refused"]

Return(t) == call' = [call EXCEPT ![t] = "idle"]

ReportSuccess(t) ==
  /\ call[t] = "calling" /\ "success" \in Outcomes
  /\ OnSuccess
  /\ Return(t)

ReportTransient(t) ==
  /\ call[t] = "calling" /\ "transient" \in Outcomes
  /\ OnFailure
  /\ Return(t)

\* A permanent failure is rethrown without any call to the breaker, by a call of
\* this half-open period or a late one of an earlier period.
NoReport ==
  /\ unreported' = (state = "HalfOpen")
  /\ UNCHANGED <<breakerVars, halfOpenCalls>>

ReportPermanent(t) ==
  /\ call[t] = "calling" /\ "permanent" \in Outcomes
  /\ NoReport
  /\ Return(t)

\* The transient ProviderException of a refused request reaches the caller.
FailFast(t) ==
  /\ call[t] = "refused"
  /\ Return(t)
  /\ UNCHANGED <<breakerVars, history>>

\* The clock.  Only an open breaker reads it.
Advance ==
  /\ state = "Open"
  /\ elapsed < OpenDuration
  /\ elapsed' = elapsed + 1
  /\ UNCHANGED <<state, failureCount, probeInFlight, history>>

Tick == Advance /\ UNCHANGED call

\* The process ends in whatever state and is started again with a new breaker.
Renew ==
  /\ state' = "Closed" /\ failureCount' = 0 /\ probeInFlight' = FALSE
  /\ elapsed' = 0
  /\ halfOpenCalls' = 0 /\ unreported' = FALSE

Restart == Renew /\ call' = [t \in Threads |-> "idle"]

Report(t) == ReportSuccess(t) \/ ReportTransient(t) \/ ReportPermanent(t)

Next ==
  \/ Tick \/ Restart
  \/ \E t \in Threads : AllowRequest(t) \/ Report(t) \/ FailFast(t)

Spec == Init /\ [][Next]_vars

(* A provider call returns (the mock providers sleep and return, a real    *)
(* one has a timeout), a thread leaves send(), the clock advances, and     *)
(* messages keep arriving, so that a thread in idle asks again.            *)
FairSpec ==
  /\ Spec
  /\ WF_vars(Tick)
  /\ \A t \in Threads :
       WF_vars(AllowRequest(t)) /\ WF_vars(Report(t)) /\ WF_vars(FailFast(t))

-----------------------------------------------------------------------------
(* Properties.                                                             *)

RangesOK ==
  /\ state \in {"Closed", "Open", "HalfOpen"}
  /\ failureCount \in Nat
  /\ failureCount = 0 \/ failureCount < FailureThreshold
  /\ elapsed \in 0..OpenDuration
  /\ call \in [Threads -> {"idle", "calling", "refused"}]
  /\ halfOpenCalls \in Nat

\* The range of every variable.  The failure counter never rests at the
\* threshold: reaching it trips the breaker, and trip() resets it, also when
\* the failure is a late one reported to a breaker that is already open.
TypeOK == RangesOK /\ probeInFlight \in BOOLEAN /\ unreported \in BOOLEAN

\* Whatever calls of earlier periods report late, and in whatever order, one
\* half-open period lets at most two calls through to the provider: the one
\* that ends the open period and the one that sets probeInFlight_.
AtMostTwoHalfOpenCalls ==
  /\ halfOpenCalls <= 2
  /\ state = "HalfOpen" => halfOpenCalls >= 1
  /\ probeInFlight <=> halfOpenCalls = 2

InFlight == {t \in Threads : call[t] = "calling"}

\* A half-open breaker is waiting for somebody, a call that will report back
\* and move it on, unless a call failed permanently in this half-open period and
\* reported to nobody.  The exemption takes in a late call of an earlier period.
HalfOpenHasCaller == state = "HalfOpen" /\ ~unreported => InFlight # {}

ProviderIsTested == state = "Closed" \/ InFlight # {}

\* The breaker never shuts a channel off for good, unless it lost a report in
\* its half-open period: again and again it is closed or has a call in flight.
KeepsTestingReported == []<>(ProviderIsTested \/ unreported)

\* "before a single probe call is allowed through to test recovery": whatever
\* the provider answers, the breaker comes back to testing it.
KeepsTestingProvider == []<>ProviderIsTested
=============================================================================
