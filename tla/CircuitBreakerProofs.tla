------------------------ MODULE CircuitBreakerProofs ------------------------
(***************************************************************************)
(* The safety properties of CircuitBreaker, for any number of threads, any *)
(* threshold and any open duration.                                        *)
(***************************************************************************)
EXTENDS CircuitBreaker, TLAPS

LEMMA RangesStep == RangesOK /\ [Next]_vars => RangesOK'
<1> SUFFICES ASSUME RangesOK, [Next]_vars PROVE RangesOK'
  OBVIOUS
<1> USE BreakerAssumption DEF BreakerAssumption, RangesOK
<1>1. CASE Tick
  BY <1>1 DEF Tick, Advance, history
<1>2. ASSUME NEW t \in Threads, AllowRequest(t) PROVE RangesOK'
  BY <1>2 DEF AllowRequest, Pass, PassClosed, PassAfterOpen, PassProbe, Refuse,
              breakerVars, history
<1>3. ASSUME NEW t \in Threads, ReportSuccess(t) PROVE RangesOK'
  BY <1>3 DEF ReportSuccess, OnSuccess, Return
<1>4. ASSUME NEW t \in Threads, ReportTransient(t) PROVE RangesOK'
  BY <1>4 DEF ReportTransient, OnFailure, Trip, CountFailure, history, Return
<1>5. ASSUME NEW t \in Threads, ReportPermanent(t) \/ FailFast(t) PROVE RangesOK'
  BY <1>5 DEF ReportPermanent, NoReport, FailFast, Return, breakerVars, history
<1>6. CASE Restart
  BY <1>6 DEF Restart, Renew
<1>7. CASE UNCHANGED vars
  BY <1>7 DEF vars
<1> QED
  BY <1>1, <1>2, <1>3, <1>4, <1>5, <1>6, <1>7 DEF Next, Report

LEMMA FlagStep == probeInFlight \in BOOLEAN /\ [Next]_vars => probeInFlight' \in BOOLEAN
  BY Zenon DEF Next, vars, breakerVars, Tick, Advance, Restart, Renew, AllowRequest, Pass,
               PassClosed, PassAfterOpen, PassProbe, Refuse, NoReport, Report, FailFast, ReportSuccess,
               ReportTransient, ReportPermanent, OnSuccess, OnFailure

LEMMA UnreportedStep == unreported \in BOOLEAN /\ [Next]_vars => unreported' \in BOOLEAN
  BY Zenon DEF Next, vars, history, Tick, Advance, Restart, Renew, AllowRequest, Pass,
               PassClosed, PassAfterOpen, PassProbe, Refuse, NoReport, Report, FailFast, ReportSuccess, ReportTransient,
               ReportPermanent, OnSuccess, OnFailure, Trip, CountFailure

(* The range of every variable is an invariant: in particular no           *)
(* interleaving of late failures leaves the failure counter at or above    *)
(* the threshold that onFailure() compares it with.                        *)
THEOREM TypeCorrect == Spec => []TypeOK
<1>1. Init => RangesOK
  BY BreakerAssumption DEF BreakerAssumption, Init, RangesOK
<1>2. Init => probeInFlight \in BOOLEAN /\ unreported \in BOOLEAN
  BY DEF Init
<1>3. RangesOK /\ [Next]_vars => RangesOK'
  BY RangesStep
<1>4. probeInFlight \in BOOLEAN /\ [Next]_vars => (probeInFlight \in BOOLEAN)'
  BY FlagStep
<1>5. unreported \in BOOLEAN /\ [Next]_vars => (unreported \in BOOLEAN)'
  BY UnreportedStep
<1> QED
  BY <1>1, <1>2, <1>3, <1>4, <1>5, PTL DEF Spec, TypeOK

(* One half-open period never lets more than two calls through, whatever   *)
(* calls admitted earlier report in the meantime.  With it: the probe flag *)
(* is set exactly when both have been let through.                         *)
THEOREM HalfOpenBounded == Spec => []AtMostTwoHalfOpenCalls
<1> DEFINE Inv == AtMostTwoHalfOpenCalls
                  /\ (state # "HalfOpen" => halfOpenCalls = 0)
<1>1. Init => Inv
  BY DEF Init, AtMostTwoHalfOpenCalls
<1>2. TypeOK /\ Inv /\ [Next]_vars => Inv'
  <2> SUFFICES ASSUME TypeOK, Inv, [Next]_vars PROVE Inv'
    OBVIOUS
  <2> USE DEF TypeOK, RangesOK, AtMostTwoHalfOpenCalls
  <2>1. CASE Tick
    BY <2>1 DEF Tick, Advance, history
  <2>2. ASSUME NEW t \in Threads, AllowRequest(t) PROVE Inv'
    <3>1. CASE PassClosed \/ PassAfterOpen \/ Refuse
      BY <3>1 DEF PassClosed, PassAfterOpen, Refuse, breakerVars, history
    <3>2. CASE PassProbe
      <4>1. state = "HalfOpen" /\ state' = "HalfOpen" /\ probeInFlight' = TRUE
        BY <3>2 DEF PassProbe
      <4>2. halfOpenCalls = 1
        BY <3>2, <4>1 DEF PassProbe
      <4>3. halfOpenCalls' = 2
        BY <3>2, <4>2 DEF PassProbe
      <4> QED
        BY <4>1, <4>3
    <3> QED
      BY <2>2, <3>1, <3>2 DEF AllowRequest, Pass
  <2>3. ASSUME NEW t \in Threads, ReportSuccess(t) PROVE Inv'
    BY <2>3 DEF ReportSuccess, OnSuccess
  <2>4. ASSUME NEW t \in Threads, ReportTransient(t) PROVE Inv'
    BY <2>4 DEF ReportTransient, OnFailure, Trip, CountFailure, history
  <2>5. ASSUME NEW t \in Threads, ReportPermanent(t) \/ FailFast(t) PROVE Inv'
    BY <2>5 DEF ReportPermanent, NoReport, FailFast, breakerVars, history
  <2>6. CASE Restart
    BY <2>6 DEF Restart, Renew
  <2>7. CASE UNCHANGED vars
    BY <2>7 DEF vars
  <2> QED
    BY <2>1, <2>2, <2>3, <2>4, <2>5, <2>6, <2>7 DEF Next, Report
<1>3. Inv => AtMostTwoHalfOpenCalls
  OBVIOUS
<1> QED
  BY <1>1, <1>2, <1>3, TypeCorrect, PTL DEF Spec

(* A half-open breaker always has a call out that will report to it, unless *)
(* a call failed permanently meanwhile: send() passes such a failure on      *)
(* without a report, and that is the only way a half-open breaker is left    *)
(* alone.                                                                    *)
THEOREM HalfOpenIsTended == Spec => []HalfOpenHasCaller
<1>1. Init => HalfOpenHasCaller
  BY DEF Init, HalfOpenHasCaller
<1>2. TypeOK /\ HalfOpenHasCaller /\ [Next]_vars => HalfOpenHasCaller'
  <2> SUFFICES ASSUME TypeOK, HalfOpenHasCaller, [Next]_vars,
                      (state = "HalfOpen")', (~unreported)'
               PROVE  \E t \in Threads : call'[t] = "calling"
    BY DEF HalfOpenHasCaller, InFlight
  <2> USE DEF TypeOK, RangesOK
  <2>1. ASSUME state = "HalfOpen", ~unreported
        PROVE  \E t \in Threads : call[t] = "calling"
    BY <2>1 DEF HalfOpenHasCaller, InFlight
  <2>2. CASE Tick
    BY <2>2 DEF Tick, Advance
  <2>3. ASSUME NEW t \in Threads, AllowRequest(t)
        PROVE  \E u \in Threads : call'[u] = "calling"
    <3>1. CASE call' = [call EXCEPT ![t] = "calling"]
      BY <3>1
    <3>2. CASE Refuse /\ call' = [call EXCEPT ![t] = "refused"]
      BY <3>2, <2>1, <2>3 DEF Refuse, AllowRequest, breakerVars, history
    <3> QED
      BY <2>3, <3>1, <3>2 DEF AllowRequest
  <2>4. ASSUME NEW t \in Threads, Report(t)
        PROVE  \E u \in Threads : call'[u] = "calling"
    BY <2>4 DEF Report, ReportSuccess, ReportTransient, ReportPermanent, NoReport,
                OnSuccess, OnFailure, Trip, CountFailure, breakerVars, history
  <2>5. ASSUME NEW t \in Threads, FailFast(t)
        PROVE  \E u \in Threads : call'[u] = "calling"
    BY <2>1, <2>5 DEF FailFast, Return, breakerVars, history
  <2>6. CASE Restart
    BY <2>6 DEF Restart, Renew
  <2>7. CASE UNCHANGED vars
    BY <2>1, <2>7 DEF vars
  <2> QED
    BY <2>2, <2>3, <2>4, <2>5, <2>6, <2>7 DEF Next
<1> QED
  BY <1>1, <1>2, TypeCorrect, PTL DEF Spec
=============================================================================
