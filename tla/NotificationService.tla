------------------------ MODULE NotificationService ------------------------
(***************************************************************************)
(* The workers of one channel with the circuit breaker they share.         *)
(* WorkerPool gives every thread the same ProviderRouter, which has a      *)
(* breaker for each channel, and channels share neither queues nor         *)
(* threads, so that the system is one such composition for each of them.   *)
(*                                                                         *)
(* Where Delivery has send() end as it likes in one step, here are the     *)
(* statements of ProviderRouter::send: allowRequest(), the provider call,  *)
(* onSuccess() or onFailure(), the return or the exception that onMessage  *)
(* catches.  Other threads, the breaker's clock, lost connections and a    *)
(* crash come between any two of them.  CircuitBreaker gives the bodies of *)
(* the breaker's methods; that they are called in the order it assumes is  *)
(* not built in.                                                           *)
(***************************************************************************)
EXTENDS Delivery

CONSTANTS FailureThreshold, OpenDuration

\* One channel: the breaker that router_->send() looks up by the row's channel
\* is the one of the worker, whose queue the message came from.
ASSUME ServiceAssumption ==
  /\ \A v, w \in Workers : WorkerChannel[v] = WorkerChannel[w]
  /\ FailureThreshold \in Nat /\ OpenDuration \in Nat

VARIABLES state, failureCount, probeInFlight, elapsed, halfOpenCalls, unreported

breaker == <<state, failureCount, probeInFlight, elapsed, halfOpenCalls, unreported>>
serviceVars == <<vars, breaker>>

\* Where a worker is once it has called send(): before the provider call, past
\* it with what the provider did, or refused by the breaker.
RouterLabels == {"calling", "accepted", "transient", "permanent", "refused"}

\* What the breaker sees of a worker: a request it lets through is a call until
\* send() is left.
Caller(l) ==
  CASE l \in RouterLabels \ {"refused"} -> "calling"
    [] l = "refused" -> "refused"
    [] OTHER -> "idle"

\* What onMessage sees of it: send() is one statement, over for the rest of the
\* system when the provider has accepted, and for a failure when it is thrown.
Statements(l) ==
  CASE l = "accepted" -> "recordSuccess"
    [] l \in RouterLabels \ {"accepted"} -> "send"
    [] OTHER -> l

Pipeline == INSTANCE Delivery WITH pc <- [w \in Workers |-> Statements(pc[w])]

Breaker ==
  INSTANCE CircuitBreaker WITH Threads <- Workers,
                               Outcomes <- {"success", "transient", "permanent"},
                               call <- [w \in Workers |-> Caller(pc[w])]

ServiceInit ==
  /\ Init
  /\ state = "Closed" /\ failureCount = 0 /\ probeInFlight = FALSE /\ elapsed = 0
  /\ halfOpenCalls = 0 /\ unreported = FALSE

-----------------------------------------------------------------------------
(* ProviderRouter::send.                                                   *)

\* A step within send(), or out of it: nothing but the breaker changes.
RouterStep(w, from, to) == Step(w, from, to) /\ UNCHANGED <<db, broker>>

CallUnasked(w) ==
  /\ RouterStep(w, "send", "calling")
  /\ UNCHANGED <<breaker, failure, accepted>>

\* allowRequest(), with which send() begins.
Ask(w) ==
  /\ \/ Breaker!Pass /\ RouterStep(w, "send", "calling")
     \/ Breaker!Refuse /\ RouterStep(w, "send", "refused")
  /\ UNCHANGED <<failure, accepted>>

\* provider->send() returns, or throws; it holds no lock meanwhile.
ProviderAccepts(w) ==
  /\ RouterStep(w, "calling", "accepted")
  /\ accepted' = [accepted EXCEPT ![cur[w].n] = @ + 1]
  /\ UNCHANGED <<breaker, failure>>

ProviderThrows(w, f) ==
  /\ RouterStep(w, "calling", f)
  /\ UNCHANGED <<breaker, failure, accepted>>

ReturnSuccess(w) ==
  /\ RouterStep(w, "accepted", "recordSuccess")
  /\ Breaker!OnSuccess
  /\ UNCHANGED <<failure, accepted>>

\* The exception reaches the catch block of onMessage.
Throw(w, from, f) ==
  /\ RouterStep(w, from, "countFailure")
  /\ failure' = [failure EXCEPT ![w] = f]
  /\ UNCHANGED accepted

RethrowTransient(w) == Throw(w, "transient", "transient") /\ Breaker!OnFailure

RethrowPermanent(w) == Throw(w, "permanent", "permanent") /\ Breaker!NoReport

RefusedAndDropped(w) ==
  /\ RouterStep(w, "refused", "ack")
  /\ UNCHANGED <<breaker, failure, accepted>>

ThrowRefused(w) == Throw(w, "refused", "transient") /\ UNCHANGED breaker

Send(w) ==
  \/ Ask(w)
  \/ ProviderAccepts(w) \/ \E f \in {"transient", "permanent"} : ProviderThrows(w, f)
  \/ ReturnSuccess(w) \/ RethrowTransient(w) \/ RethrowPermanent(w) \/ ThrowRefused(w)

\* The statements of onMessage before and after send().
Handle(w) ==
  /\ \/ Find(w) \/ MarkProcessing(w)
     \/ RecordSuccess(w) \/ MarkSent(w) \/ CountSuccess(w)
     \/ CountFailure(w) \/ RecordRetry(w) \/ PublishRetry(w)
     \/ RecordDead(w) \/ PublishDlq(w) \/ MarkDead(w)
     \/ Ack(w)
  /\ UNCHANGED breaker

-----------------------------------------------------------------------------
(* What does not touch the breaker, its clock, and the restart that makes  *)
(* a new one.                                                              *)

Request ==
  /\ \E n \in Notifications, c \in Channels : Post(n, c)
  /\ UNCHANGED breaker

Broken ==
  /\ Forget \/ \E w \in Workers : LoseConnection(w)
  /\ UNCHANGED breaker

Restart == Crash /\ Breaker!Renew

Queues ==
  /\ \/ \E n \in Notifications : Publish(n)
     \/ \E m \in Messages : Expire(m)
     \/ \E w \in Workers, m \in Messages :
          Deliver(w, m) \/ Requeue(w, m) \/ Receive(w, m)
     \/ \E w \in Workers : ReadFrame(w)
  /\ UNCHANGED breaker

Tick == Breaker!Advance /\ UNCHANGED vars

Running == Queues \/ Tick \/ \E w \in Workers : Send(w) \/ Handle(w)

ServiceNext == Request \/ Broken \/ Restart \/ Running

ServiceSpec == ServiceInit /\ [][ServiceNext]_serviceVars

(* Threads, broker and clock never all rest while one of them can take a   *)
(* step, and no provider call takes for ever.  The bounds leave only       *)
(* finitely many Running steps to take, so that no finer fairness is       *)
(* needed.  Requests and faults are not owed to anybody.                   *)
FairServiceSpec == ServiceSpec /\ WF_serviceVars(Running)

-----------------------------------------------------------------------------
(* Properties.                                                             *)

\* onMessage with the router's statements in place of one send() does what
\* Delivery says: each message that enters send() leaves it by success after an
\* acceptance of its own, or by one failure, of which a refusal is one.
ImplementsDelivery == Pipeline!Spec

\* The threads use the breaker as CircuitBreaker has it used: each asks before it
\* calls the provider, and reports once or, after a permanent failure, not at
\* all, also when connections break and the process dies in between.
ImplementsBreaker == Breaker!Spec
=============================================================================
