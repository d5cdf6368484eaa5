--------------------- MODULE NotificationServiceProofs ---------------------
(***************************************************************************)
(* The threads of a channel, statement by statement inside send(), keep to *)
(* what Delivery and CircuitBreaker assume of them, for any number of      *)
(* workers and notifications; so that what DeliveryProofs and              *)
(* CircuitBreakerProofs show of each part holds of the service.            *)
(***************************************************************************)
EXTENDS NotificationService, TLAPS

AllLabels == Labels \cup RouterLabels
PcOK == pc \in [Workers -> AllLabels]

\* How onMessage and how the breaker see the threads.
statement == [w \in Workers |-> Statements(pc[w])]
caller == [w \in Workers |-> Caller(pc[w])]

-----------------------------------------------------------------------------
(* What the two views make of a label.                                     *)
LEMMA Views ==
  /\ \A l \in Labels : Statements(l) = l /\ Caller(l) = "idle"
  /\ Statements("calling") = "send" /\ Caller("calling") = "calling"
  /\ Statements("accepted") = "recordSuccess" /\ Caller("accepted") = "calling"
  /\ \A f \in {"transient", "permanent"} : Statements(f) = "send" /\ Caller(f) = "calling"
  /\ Statements("refused") = "send" /\ Caller("refused") = "refused"
  BY DEF Labels, RouterLabels, Statements, Caller

(* A thread that goes to l is seen to go where l is seen.                  *)
LEMMA Goes ==
  ASSUME PcOK, NEW w \in Workers, NEW l, Goto(w, l)
  PROVE  /\ statement' = [statement EXCEPT ![w] = Statements(l)]
         /\ caller' = [caller EXCEPT ![w] = Caller(l)]
<1>1. \A v \in Workers : pc'[v] = IF v = w THEN l ELSE pc[v]
  BY DEF Goto, PcOK
<1>2. \A v \in Workers : Statements(pc'[v]) = IF v = w THEN Statements(l) ELSE Statements(pc[v])
  BY <1>1
<1>3. \A v \in Workers : Caller(pc'[v]) = IF v = w THEN Caller(l) ELSE Caller(pc[v])
  BY <1>1
<1>4. statement' = [v \in Workers |-> Statements(pc'[v])] /\ caller' = [v \in Workers |-> Caller(pc'[v])]
  BY DEF statement, caller
<1> QED
  BY <1>2, <1>3, <1>4 DEF statement, caller

(* and one that is seen to stay does not move at all.                      *)
LEMMA Stays ==
  ASSUME PcOK, NEW w \in Workers, NEW l, Goto(w, l)
  PROVE  /\ Statements(pc[w]) = Statements(l) => UNCHANGED statement
         /\ Caller(pc[w]) = Caller(l) => UNCHANGED caller
<1>1. /\ statement' = [statement EXCEPT ![w] = Statements(l)]
      /\ caller' = [caller EXCEPT ![w] = Caller(l)]
  BY Goes
<1> QED
  BY <1>1 DEF statement, caller

-----------------------------------------------------------------------------
(* Threads are at the labels there are.                                    *)

LEMMA HandleGoes ==
  ASSUME NEW w \in Workers, Handle(w)
  PROVE  pc[w] \in Labels /\ \E l \in Labels : Goto(w, l)
<1>1. CASE Find(w)
  BY <1>1 DEF Find, Statement, Step, Labels
<1>2. CASE MarkProcessing(w) \/ RecordSuccess(w) \/ MarkSent(w) \/ CountSuccess(w)
  BY <1>2 DEF MarkProcessing, RecordSuccess, MarkSent, CountSuccess, Statement, Step, Labels
<1>3. CASE CountFailure(w)
  BY <1>3 DEF CountFailure, Statement, Step, Labels
<1>4. CASE RecordRetry(w) \/ PublishRetry(w) \/ RecordDead(w) \/ PublishDlq(w) \/ MarkDead(w)
  BY <1>4 DEF RecordRetry, PublishRetry, RecordDead, PublishDlq, MarkDead, Statement, Step, Labels
<1>5. CASE Ack(w)
  BY <1>5 DEF Ack, Labels
<1> QED
  BY <1>1, <1>2, <1>3, <1>4, <1>5 DEF Handle

LEMMA SendGoes ==
  ASSUME NEW w \in Workers, Send(w)
  PROVE  \E l \in AllLabels : Goto(w, l)
  BY DEF Send, Ask, ProviderAccepts, ProviderThrows, ReturnSuccess, RethrowTransient,
         RethrowPermanent, ThrowRefused, Throw, RouterStep, Step, AllLabels, Labels, RouterLabels

\* What neither moves a thread nor reaches the breaker.
Elsewhere ==
  \/ \E n \in Notifications, c \in Channels : Post(n, c)
  \/ \E n \in Notifications : Publish(n)
  \/ \E m \in Messages : Expire(m)
  \/ \E w \in Workers, m \in Messages : Deliver(w, m) \/ Requeue(w, m)
  \/ \E w \in Workers : ReadFrame(w) \/ LoseConnection(w)
  \/ Forget

LEMMA Cases ==
  ASSUME ServiceNext
  PROVE  \/ Elsewhere /\ UNCHANGED breaker
         \/ \E w \in Workers, m \in Messages : Receive(w, m) /\ UNCHANGED breaker
         \/ \E w \in Workers : Send(w) \/ Handle(w)
         \/ Restart \/ Tick
  BY DEF ServiceNext, Request, Broken, Running, Queues, Elsewhere

LEMMA ElsewhereStays == Elsewhere => UNCHANGED pc
  BY DEF Elsewhere, Post, Publish, Expire, Deliver, Requeue, ReadFrame, LoseConnection, Forget, worker

LEMMA PcInvariant == ServiceSpec => []PcOK
<1>1. ServiceInit => PcOK
  BY DEF ServiceInit, Init, PcOK, AllLabels, Labels
<1>2. PcOK /\ [ServiceNext]_serviceVars => PcOK'
  <2> SUFFICES ASSUME PcOK, [ServiceNext]_serviceVars PROVE PcOK'
    OBVIOUS
  <2>1. ASSUME NEW w \in Workers, NEW l \in AllLabels, Goto(w, l) PROVE PcOK'
    BY <2>1 DEF Goto, PcOK
  <2>2. CASE Elsewhere \/ UNCHANGED serviceVars \/ Tick
    BY <2>2, ElsewhereStays DEF PcOK, serviceVars, vars, worker, Tick
  <2>3. ASSUME NEW w \in Workers, NEW m \in Messages, Receive(w, m) PROVE PcOK'
    BY <2>1, <2>3 DEF Receive, AllLabels, Labels
  <2>4. ASSUME NEW w \in Workers, Send(w) \/ Handle(w) PROVE PcOK'
    BY <2>1, <2>4, SendGoes, HandleGoes DEF AllLabels
  <2>5. CASE Restart
    BY <2>5 DEF Restart, Crash, PcOK, AllLabels, Labels
  <2> QED
    BY <2>2, <2>3, <2>4, <2>5, Cases
<1> QED
  BY <1>1, <1>2, PTL DEF ServiceSpec

-----------------------------------------------------------------------------
(* onMessage.                                                              *)

(* A step of onMessage that does not touch send() is the same seen from    *)
(* outside.                                                                *)
LEMMA SeenStep ==
  ASSUME PcOK, NEW w \in Workers, NEW from \in AllLabels, NEW to \in AllLabels, Step(w, from, to)
  PROVE  Pipeline!Step(w, Statements(from), Statements(to))
<1>1. statement' = [statement EXCEPT ![w] = Statements(to)] /\ statement[w] = Statements(from)
  BY Goes DEF Step, statement
<1> QED
  BY <1>1 DEF Step, Pipeline!Step, Pipeline!Goto, statement, history, Pipeline!history

LEMMA SeenStatement ==
  ASSUME PcOK, NEW w \in Workers, NEW from \in Labels, NEW to \in Labels, Statement(w, from, to)
  PROVE  Pipeline!Statement(w, from, to)
<1>1. Pipeline!Step(w, from, to)
  BY SeenStep, Views DEF Statement, AllLabels
<1> QED
  BY <1>1 DEF Statement, Pipeline!Statement, broker, Pipeline!broker

LEMMA HandleDelivers ==
  ASSUME PcOK, NEW w \in Workers, Handle(w)
  PROVE  Pipeline!OnMessage(w)
<1> USE SeenStatement DEF Pipeline!OnMessage
<1>1. CASE Find(w)
  BY <1>1 DEF Find, Pipeline!Find, Skipped, Pipeline!Skipped, db, Pipeline!db, Labels
<1>2. CASE MarkProcessing(w)
  BY <1>2 DEF MarkProcessing, Pipeline!MarkProcessing, Mark, Pipeline!Mark, Labels
<1>3. CASE RecordSuccess(w)
  BY <1>3 DEF RecordSuccess, Pipeline!RecordSuccess, Record, Pipeline!Record, Labels
<1>4. CASE MarkSent(w)
  BY <1>4 DEF MarkSent, Pipeline!MarkSent, Mark, Pipeline!Mark, Labels
<1>5. CASE CountSuccess(w)
  BY <1>5 DEF CountSuccess, Pipeline!CountSuccess, IncrementAttemptCount,
              Pipeline!IncrementAttemptCount, Labels
<1>6. CASE CountFailure(w)
  BY <1>6 DEF CountFailure, Pipeline!CountFailure, Retried, Pipeline!Retried, Exhausted,
              Pipeline!Exhausted, IncrementAttemptCount, Pipeline!IncrementAttemptCount, Labels
<1>7. CASE RecordRetry(w)
  BY <1>7 DEF RecordRetry, Pipeline!RecordRetry, Record, Pipeline!Record, Labels
<1>8. CASE PublishRetry(w)
  <2>1. Pipeline!Step(w, "publishRetry", "ack")
    BY <1>8, SeenStep, Views DEF PublishRetry, AllLabels, Labels
  <2> QED
    BY <1>8, <2>1 DEF PublishRetry, Pipeline!PublishRetry, SendFrame, Pipeline!SendFrame,
       NextAttempt, Pipeline!NextAttempt, db, Pipeline!db
<1>9. CASE RecordDead(w)
  BY <1>9 DEF RecordDead, Pipeline!RecordDead, Record, Pipeline!Record, Labels
<1>10. CASE PublishDlq(w)
  <2>1. Pipeline!Step(w, "publishDlq", "markDead")
    BY <1>10, SeenStep, Views DEF PublishDlq, AllLabels, Labels
  <2> QED
    BY <1>10, <2>1 DEF PublishDlq, Pipeline!PublishDlq, SendFrame, Pipeline!SendFrame, db, Pipeline!db
<1>11. CASE MarkDead(w)
  BY <1>11 DEF MarkDead, Pipeline!MarkDead, Mark, Pipeline!Mark, Labels
<1>12. CASE Ack(w)
  <2>1. Pipeline!Goto(w, "idle") /\ statement[w] = "ack"
    BY <1>12, Goes, Views DEF Ack, Pipeline!Goto, statement, Labels
  <2> QED
    BY <1>12, <2>1 DEF Ack, Pipeline!Ack, statement, SendFrame, Pipeline!SendFrame,
       Take, Pipeline!Take, db, Pipeline!db, history, Pipeline!history
<1> QED
  BY <1>1, <1>2, <1>3, <1>4, <1>5, <1>6, <1>7, <1>8, <1>9, <1>10, <1>11, <1>12 DEF Handle

(* Inside send() the provider's acceptance and the exception are what      *)
(* onMessage sees; the rest is not there for it.                           *)
LEMMA SendDelivers ==
  ASSUME PcOK, NEW w \in Workers, Send(w)
  PROVE  Pipeline!OnMessage(w) \/ UNCHANGED Pipeline!vars
<1>1. ASSUME NEW from \in AllLabels, NEW to \in AllLabels, RouterStep(w, from, to),
             Statements(from) = Statements(to), UNCHANGED <<failure, accepted>>
      PROVE  UNCHANGED Pipeline!vars
  <2>1. UNCHANGED statement
    BY <1>1, Stays DEF RouterStep, Step
  <2> QED
    BY <1>1, <2>1 DEF RouterStep, Step, Pipeline!vars, Pipeline!db, Pipeline!broker, Pipeline!worker,
       Pipeline!history, db, broker, history, statement
<1>2. CASE Ask(w)
  BY <1>1, <1>2, Views DEF Ask, AllLabels, Labels, RouterLabels
<1>3. CASE ProviderAccepts(w)
  <2>1. Pipeline!Step(w, "send", "recordSuccess")
    BY <1>3, SeenStep, Views DEF ProviderAccepts, RouterStep, AllLabels, RouterLabels
  <2> QED
    BY <1>3, <2>1 DEF ProviderAccepts, RouterStep, Pipeline!OnMessage, Pipeline!SendSucceeds,
       db, Pipeline!db, broker, Pipeline!broker
<1>4. ASSUME NEW f \in {"transient", "permanent"}, ProviderThrows(w, f)
      PROVE  UNCHANGED Pipeline!vars
  BY <1>1, <1>4, Views DEF ProviderThrows, AllLabels, RouterLabels
<1>5. CASE ReturnSuccess(w)
  BY <1>1, <1>5, Views DEF ReturnSuccess, AllLabels, Labels, RouterLabels
<1>6. ASSUME NEW from \in {"transient", "permanent", "refused"}, NEW f \in {"transient", "permanent"},
             Throw(w, from, f)
      PROVE  Pipeline!OnMessage(w)
  <2>1. Pipeline!Step(w, "send", "countFailure")
    BY <1>6, SeenStep, Views DEF Throw, RouterStep, AllLabels, Labels, RouterLabels
  <2>2. Pipeline!SendFails(w, f)
    BY <1>6, <2>1 DEF Throw, RouterStep, Pipeline!SendFails, db, Pipeline!db, broker, Pipeline!broker
  <2> QED
    BY <2>2 DEF Pipeline!OnMessage
<1> QED
  BY <1>2, <1>3, <1>4, <1>5, <1>6 DEF Send, RethrowTransient, RethrowPermanent, ThrowRefused

(* What does not name a label is the same in both.                          *)
LEMMA SameBroker ==
  /\ Messages = Pipeline!Messages /\ EmptyBag = Pipeline!EmptyBag
  /\ \A q, m : Put(q, m) = Pipeline!Put(q, m) /\ Take(q, m) = Pipeline!Take(q, m)
  /\ \A q : BagSize(q) = Pipeline!BagSize(q)
  /\ \A w \in Workers : UnreadAcks(w) = Pipeline!UnreadAcks(w)
  /\ \A w \in Workers : Outstanding(w) = Pipeline!Outstanding(w)
<1>1. Messages = Pipeline!Messages
  BY DEF Messages, Pipeline!Messages, Attempts, Pipeline!Attempts
<1>2. EmptyBag = Pipeline!EmptyBag
  BY <1>1 DEF EmptyBag, Pipeline!EmptyBag
<1>3. \A q, m : Put(q, m) = Pipeline!Put(q, m) /\ Take(q, m) = Pipeline!Take(q, m)
  BY DEF Put, Pipeline!Put, Take, Pipeline!Take
<1>4. \A q : BagSize(q) = Pipeline!BagSize(q)
  BY <1>1 DEF BagSize, Pipeline!BagSize, MapThenSumSet, Pipeline!MapThenSumSet,
           MapThenFoldSet, Pipeline!MapThenFoldSet
<1>5. \A w \in Workers : UnreadAcks(w) = Pipeline!UnreadAcks(w)
  BY <1>1 DEF UnreadAcks, Pipeline!UnreadAcks, AckFrame, Pipeline!AckFrame,
           Cardinality, Pipeline!Cardinality
<1>6. \A p, q : BagSum(p, q) = Pipeline!BagSum(p, q)
  BY <1>1 DEF BagSum, Pipeline!BagSum
<1>7. \A w \in Workers : Outstanding(w) = Pipeline!Outstanding(w)
  BY <1>5, <1>6 DEF Outstanding, Pipeline!Outstanding
<1> QED
  BY <1>1, <1>2, <1>3, <1>4, <1>5, <1>7

(* The threads as onMessage: a request that is let through and accepted is *)
(* one success of send(), one that fails or is refused is one failure, and *)
(* the breaker's steps in between, a break or a crash among them, are seen *)
(* of neither.                                                             *)
THEOREM DeliveryImplemented == ServiceSpec => ImplementsDelivery
<1>1. ServiceInit => Pipeline!Init
  <2> SUFFICES ASSUME ServiceInit PROVE Pipeline!Init
    OBVIOUS
  <2>1. statement = [w \in Workers |-> "idle"]
    BY Views DEF ServiceInit, Init, statement, Labels
  <2> QED
    BY <2>1, SameBroker DEF ServiceInit, Init, Pipeline!Init, statement, Pipeline!Attempts, Attempts
<1>2. PcOK /\ [ServiceNext]_serviceVars => [Pipeline!Next]_(Pipeline!vars)
  <2> SUFFICES ASSUME PcOK, [ServiceNext]_serviceVars PROVE [Pipeline!Next]_(Pipeline!vars)
    OBVIOUS
  <2>1. CASE Tick \/ UNCHANGED serviceVars
    BY <2>1 DEF Tick, serviceVars, vars, Pipeline!vars, db, Pipeline!db, broker, Pipeline!broker,
       worker, Pipeline!worker, history, Pipeline!history
  <2>2. CASE Elsewhere
    <3>1. UNCHANGED statement
      BY <2>2, ElsewhereStays DEF statement
    <3> USE <3>1, SameBroker DEF statement, db, Pipeline!db, broker, Pipeline!broker, worker,
                     Pipeline!worker, history, Pipeline!history
    <3>2. ASSUME NEW n \in Notifications, NEW c \in Channels, Post(n, c) PROVE Pipeline!Post(n, c)
      BY <3>2 DEF Post, Pipeline!Post, InsertWithOutbox, Pipeline!InsertWithOutbox
    <3>3. ASSUME NEW n \in Notifications, Publish(n) PROVE Pipeline!Publish(n)
      BY <3>3 DEF Publish, Pipeline!Publish
    <3>4. ASSUME NEW m \in Messages, Expire(m) PROVE Pipeline!Expire(m)
      BY <3>4 DEF Expire, Pipeline!Expire
    <3>5. ASSUME NEW w \in Workers, NEW m \in Messages, Deliver(w, m) PROVE Pipeline!Deliver(w, m)
      BY <3>5 DEF Deliver, Pipeline!Deliver
    <3>6. ASSUME NEW w \in Workers, NEW m \in Messages, Requeue(w, m) PROVE Pipeline!Requeue(w, m)
      BY <3>6 DEF Requeue, Pipeline!Requeue
    <3>7. ASSUME NEW w \in Workers, ReadFrame(w) PROVE Pipeline!ReadFrame(w)
      BY <3>7 DEF ReadFrame, Pipeline!ReadFrame, Route, Pipeline!Route, HasRung, Pipeline!HasRung
    <3>8. ASSUME NEW w \in Workers, LoseConnection(w) PROVE Pipeline!LoseConnection(w)
      BY <3>8 DEF LoseConnection, Pipeline!LoseConnection, BagSum, Pipeline!BagSum
    <3>9. CASE Forget
      BY <3>9 DEF Forget, Pipeline!Forget, Pipeline!Next, Pipeline!Environment
    <3> QED
      BY <2>2, <3>2, <3>3, <3>4, <3>5, <3>6, <3>7, <3>8, <3>9
         DEF Elsewhere, Pipeline!Next, Pipeline!Environment, Pipeline!System
  <2>3. ASSUME NEW w \in Workers, NEW m \in Messages, Receive(w, m) PROVE Pipeline!Next
    <3>1. statement' = [statement EXCEPT ![w] = "find"] /\ statement[w] = "idle"
      BY <2>3, Goes, Views DEF Receive, statement, Labels
    <3>2. Pipeline!Receive(w, m)
      BY <2>3, <3>1 DEF Receive, Pipeline!Receive, Pipeline!Goto, statement, db, Pipeline!db,
         broker, Pipeline!broker, history, Pipeline!history
    <3> QED
      BY <3>2, SameBroker DEF Pipeline!Next, Pipeline!System
  <2>4. ASSUME NEW w \in Workers, Send(w) \/ Handle(w) PROVE [Pipeline!Next]_(Pipeline!vars)
    BY <2>4, SendDelivers, HandleDelivers DEF Pipeline!Next, Pipeline!System
  <2>5. CASE Restart
    <3>1. statement' = [w \in Workers |-> "idle"]
      BY <2>5, Views DEF Restart, Crash, statement, Labels
    <3>2. Pipeline!Crash
      BY <2>5, <3>1, SameBroker DEF Restart, Crash, Pipeline!Crash, statement, BagSum,
         Pipeline!BagSum, db, Pipeline!db
    <3> QED
      BY <3>2 DEF Pipeline!Next, Pipeline!Environment
  <2> QED
    BY <2>1, <2>2, <2>3, <2>4, <2>5, Cases
<1> QED
  BY <1>1, <1>2, PcInvariant, PTL DEF ServiceSpec, ImplementsDelivery, Pipeline!Spec

-----------------------------------------------------------------------------
(* The breaker.                                                            *)

(* A thread asks before it calls, and what it does with the answer is a    *)
(* report, or none after a permanent failure.                              *)
LEMMA SendAsks ==
  ASSUME PcOK, NEW w \in Workers, Send(w)
  PROVE  Breaker!Next \/ UNCHANGED Breaker!vars
<1>1. ASSUME NEW from \in AllLabels, NEW to \in AllLabels, RouterStep(w, from, to)
      PROVE  /\ caller[w] = Caller(from)
             /\ caller' = [caller EXCEPT ![w] = Caller(to)]
  BY <1>1, Goes DEF RouterStep, Step, caller
<1>2. ASSUME NEW from \in AllLabels, NEW to \in AllLabels, RouterStep(w, from, to),
             Caller(from) = Caller(to), UNCHANGED breaker
      PROVE  UNCHANGED Breaker!vars
  <2>1. UNCHANGED caller
    BY <1>2, Stays DEF RouterStep, Step
  <2> QED
    BY <1>2, <2>1 DEF breaker, Breaker!vars, caller
<1>3. CASE Ask(w)
  <2>1. CASE Breaker!Pass /\ RouterStep(w, "send", "calling")
    <3>1. caller[w] = "idle" /\ caller' = [caller EXCEPT ![w] = "calling"]
      BY <1>1, <2>1, Views DEF AllLabels, Labels, RouterLabels
    <3>2. Breaker!AllowRequest(w)
      BY <2>1, <3>1 DEF Breaker!AllowRequest, caller
    <3> QED
      BY <3>2 DEF Breaker!Next
  <2>2. CASE Breaker!Refuse /\ RouterStep(w, "send", "refused")
    <3>1. caller[w] = "idle" /\ caller' = [caller EXCEPT ![w] = "refused"]
      BY <1>1, <2>2, Views DEF AllLabels, Labels, RouterLabels
    <3>2. Breaker!AllowRequest(w)
      BY <2>2, <3>1 DEF Breaker!AllowRequest, caller
    <3> QED
      BY <3>2 DEF Breaker!Next
  <2> QED
    BY <1>3, <2>1, <2>2 DEF Ask
<1>4. CASE ProviderAccepts(w) \/ \E f \in {"transient", "permanent"} : ProviderThrows(w, f)
  BY <1>2, <1>4, Views DEF ProviderAccepts, ProviderThrows, AllLabels, RouterLabels
\* Out of send(): the label of the outcome and the next one of onMessage.
<1>5. ASSUME NEW from \in {"accepted", "transient", "permanent"}, NEW to \in Labels,
             RouterStep(w, from, to)
      PROVE  caller[w] = "calling" /\ Breaker!Return(w)
  <2>1. caller[w] = "calling" /\ caller' = [caller EXCEPT ![w] = "idle"]
    BY <1>1, <1>5, Views DEF AllLabels, RouterLabels
  <2> QED
    BY <2>1 DEF Breaker!Return, caller
<1>6. CASE ReturnSuccess(w)
  <2>1. caller[w] = "calling" /\ Breaker!Return(w) /\ Breaker!OnSuccess
    BY <1>5, <1>6 DEF ReturnSuccess, Labels
  <2> QED
    BY <2>1 DEF Breaker!Next, Breaker!Report, Breaker!ReportSuccess, caller
<1>7. CASE RethrowTransient(w)
  <2>1. caller[w] = "calling" /\ Breaker!Return(w) /\ Breaker!OnFailure
    BY <1>5, <1>7 DEF RethrowTransient, Throw, Labels
  <2> QED
    BY <2>1 DEF Breaker!Next, Breaker!Report, Breaker!ReportTransient, caller
<1>8. CASE RethrowPermanent(w)
  <2>1. caller[w] = "calling" /\ Breaker!Return(w) /\ Breaker!NoReport
    BY <1>5, <1>8 DEF RethrowPermanent, Throw, Labels
  <2> QED
    BY <2>1 DEF Breaker!Next, Breaker!Report, Breaker!ReportPermanent, caller
<1>9. CASE ThrowRefused(w)
  <2>1. caller[w] = "refused" /\ caller' = [caller EXCEPT ![w] = "idle"]
    BY <1>1, <1>9, Views DEF ThrowRefused, Throw, AllLabels, Labels, RouterLabels
  <2>2. Breaker!FailFast(w)
    BY <1>9, <2>1 DEF ThrowRefused, Breaker!FailFast, Breaker!Return, caller, breaker,
       Breaker!breakerVars, Breaker!history
  <2> QED
    BY <2>2 DEF Breaker!Next
<1> QED
  BY <1>3, <1>4, <1>6, <1>7, <1>8, <1>9 DEF Send

(* The threads as callers of the breaker: whatever else they do, each asks *)
(* before it calls the provider and reports at most once, before it asks   *)
(* again or dies.                                                          *)
THEOREM BreakerImplemented == ServiceSpec => ImplementsBreaker
<1>1. ServiceInit => Breaker!Init
  BY Views DEF ServiceInit, Init, Breaker!Init, Labels
<1>2. PcOK /\ [ServiceNext]_serviceVars => [Breaker!Next]_(Breaker!vars)
  <2> SUFFICES ASSUME PcOK, [ServiceNext]_serviceVars PROVE [Breaker!Next]_(Breaker!vars)
    OBVIOUS
  <2>1. ASSUME UNCHANGED breaker, UNCHANGED caller PROVE UNCHANGED Breaker!vars
    BY <2>1 DEF breaker, Breaker!vars, caller
  <2>2. CASE Tick
    <3>1. UNCHANGED caller
      BY <2>2 DEF Tick, vars, worker, caller
    <3> QED
      BY <2>2, <3>1 DEF Tick, Breaker!Next, Breaker!Tick, caller
  <2>3. CASE (Elsewhere /\ UNCHANGED breaker) \/ UNCHANGED serviceVars
    <3>1. UNCHANGED breaker /\ UNCHANGED pc
      BY <2>3, ElsewhereStays DEF serviceVars, vars, worker
    <3> QED
      BY <2>1, <3>1 DEF caller
  <2>4. ASSUME NEW w \in Workers, NEW m \in Messages, Receive(w, m), UNCHANGED breaker
        PROVE  UNCHANGED Breaker!vars
    <3>1. Caller(pc[w]) = Caller("find") /\ Goto(w, "find")
      BY <2>4, Views DEF Receive, Labels
    <3> QED
      BY <2>1, <2>4, <3>1, Stays
  <2>5. ASSUME NEW w \in Workers, Handle(w) PROVE UNCHANGED Breaker!vars
    <3>1. PICK l \in Labels : Goto(w, l)
      BY <2>5, HandleGoes
    <3>2. Caller(pc[w]) = Caller(l) /\ UNCHANGED breaker
      BY <2>5, HandleGoes, Views DEF Handle
    <3> QED
      BY <2>1, <3>1, <3>2, Stays
  <2>6. CASE Restart
    <3>1. caller' = [w \in Workers |-> "idle"] /\ Breaker!Renew
      BY <2>6, Views DEF Restart, Crash, caller, Labels
    <3> QED
      BY <3>1 DEF Breaker!Next, Breaker!Restart, caller
  <2> QED
    BY <2>2, <2>3, <2>4, <2>5, <2>6, SendAsks, Cases
<1> QED
  BY <1>1, <1>2, PcInvariant, PTL DEF ServiceSpec, ImplementsBreaker, Breaker!Spec

-----------------------------------------------------------------------------
(* What is proved of onMessage with one step for send(), for the service.  *)

Results == INSTANCE DeliveryProofs WITH pc <- statement

(* The instance that carries the theorems has the same behaviours as the   *)
(* one the service implements.                                             *)
LEMMA SameQuantities ==
  /\ Pipeline!Messages = Results!Messages /\ Pipeline!EmptyBag = Results!EmptyBag
  /\ \A q, m : Pipeline!Put(q, m) = Results!Put(q, m) /\ Pipeline!Take(q, m) = Results!Take(q, m)
  /\ \A q : Pipeline!BagSize(q) = Results!BagSize(q)
  /\ \A w \in Workers : Pipeline!UnreadAcks(w) = Results!UnreadAcks(w)
  /\ \A w \in Workers : Pipeline!Outstanding(w) = Results!Outstanding(w)
<1>1. Results!Messages = Pipeline!Messages
  BY DEF Results!Messages, Pipeline!Messages, Results!Attempts, Pipeline!Attempts
<1>2. Results!EmptyBag = Pipeline!EmptyBag
  BY <1>1 DEF Results!EmptyBag, Pipeline!EmptyBag
<1>3. \A q, m : Results!Put(q, m) = Pipeline!Put(q, m) /\ Results!Take(q, m) = Pipeline!Take(q, m)
  BY DEF Results!Put, Pipeline!Put, Results!Take, Pipeline!Take
<1>4. \A q : Results!BagSize(q) = Pipeline!BagSize(q)
  BY <1>1 DEF Results!BagSize, Pipeline!BagSize, Results!MapThenSumSet, Pipeline!MapThenSumSet,
              Results!MapThenFoldSet, Pipeline!MapThenFoldSet
<1>5. \A w \in Workers : Results!UnreadAcks(w) = Pipeline!UnreadAcks(w)
  BY <1>1 DEF Results!UnreadAcks, Pipeline!UnreadAcks, Results!AckFrame, Pipeline!AckFrame,
              Results!Cardinality, Pipeline!Cardinality
<1>6. \A p, q : Results!BagSum(p, q) = Pipeline!BagSum(p, q)
  BY <1>1 DEF Results!BagSum, Pipeline!BagSum
<1>7. \A w \in Workers : Results!Outstanding(w) = Pipeline!Outstanding(w)
  BY <1>5, <1>6 DEF Results!Outstanding, Pipeline!Outstanding
<1> QED
  BY <1>1, <1>2, <1>3, <1>4, <1>5, <1>6, <1>7

LEMMA SamePipeline == Pipeline!Spec => Results!Spec
<1>1. Pipeline!Init => Results!Init
  BY SameQuantities DEF Pipeline!Init, Results!Init, Pipeline!Attempts, Results!Attempts, statement
<1> USE SameQuantities DEF statement, Pipeline!Step, Results!Step, Pipeline!Statement, Results!Statement,
  Pipeline!Goto, Results!Goto, Pipeline!Mark, Results!Mark, Pipeline!Record,
  Results!Record, Pipeline!IncrementAttemptCount,
  Results!IncrementAttemptCount, Pipeline!SendFrame, Results!SendFrame,
  Pipeline!NextAttempt, Results!NextAttempt, Pipeline!Skipped,
  Results!Skipped, Pipeline!Exhausted, Results!Exhausted, Pipeline!Retried,
  Results!Retried, Pipeline!db, Results!db, Pipeline!broker, Results!broker,
  Pipeline!worker, Results!worker, Pipeline!history, Results!history
<1>2. ASSUME NEW w \in Workers, Pipeline!OnMessage(w) PROVE Results!OnMessage(w)
  <2>1. ASSUME Pipeline!Find(w) PROVE Results!Find(w)
    BY <2>1 DEF Pipeline!Find, Results!Find
  <2>2. ASSUME Pipeline!MarkProcessing(w) PROVE Results!MarkProcessing(w)
    BY <2>2 DEF Pipeline!MarkProcessing, Results!MarkProcessing
  <2>3. ASSUME Pipeline!SendSucceeds(w) PROVE Results!SendSucceeds(w)
    BY <2>3 DEF Pipeline!SendSucceeds, Results!SendSucceeds
  <2>4. ASSUME Pipeline!RecordSuccess(w) PROVE Results!RecordSuccess(w)
    BY <2>4 DEF Pipeline!RecordSuccess, Results!RecordSuccess
  <2>5. ASSUME Pipeline!MarkSent(w) PROVE Results!MarkSent(w)
    BY <2>5 DEF Pipeline!MarkSent, Results!MarkSent
  <2>6. ASSUME Pipeline!CountSuccess(w) PROVE Results!CountSuccess(w)
    BY <2>6 DEF Pipeline!CountSuccess, Results!CountSuccess
  <2>7. ASSUME Pipeline!CountFailure(w) PROVE Results!CountFailure(w)
    BY <2>7 DEF Pipeline!CountFailure, Results!CountFailure
  <2>8. ASSUME Pipeline!RecordRetry(w) PROVE Results!RecordRetry(w)
    BY <2>8 DEF Pipeline!RecordRetry, Results!RecordRetry
  <2>9. ASSUME Pipeline!PublishRetry(w) PROVE Results!PublishRetry(w)
    BY <2>9 DEF Pipeline!PublishRetry, Results!PublishRetry
  <2>10. ASSUME Pipeline!RecordDead(w) PROVE Results!RecordDead(w)
    BY <2>10 DEF Pipeline!RecordDead, Results!RecordDead
  <2>11. ASSUME Pipeline!PublishDlq(w) PROVE Results!PublishDlq(w)
    BY <2>11 DEF Pipeline!PublishDlq, Results!PublishDlq
  <2>12. ASSUME Pipeline!MarkDead(w) PROVE Results!MarkDead(w)
    BY <2>12 DEF Pipeline!MarkDead, Results!MarkDead
  <2>13. ASSUME Pipeline!Ack(w) PROVE Results!Ack(w)
    BY <2>13 DEF Pipeline!Ack, Results!Ack
  <2>14. ASSUME NEW f \in {"transient", "permanent"}, Pipeline!SendFails(w, f) PROVE Results!SendFails(w, f)
    BY <2>14 DEF Pipeline!SendFails, Results!SendFails
  <2> QED
    BY <1>2, <2>1, <2>2, <2>3, <2>4, <2>5, <2>6, <2>7, <2>8, <2>9, <2>10, <2>11, <2>12, <2>13, <2>14 DEF Pipeline!OnMessage, Results!OnMessage
<1>3. ASSUME Pipeline!Environment PROVE Results!Environment
  <2>1. ASSUME NEW n \in Notifications, NEW c \in Channels, Pipeline!Post(n, c)
        PROVE  Results!Post(n, c)
    BY <2>1 DEF Pipeline!Post, Results!Post, Pipeline!InsertWithOutbox, Results!InsertWithOutbox
  <2>2. ASSUME NEW w \in Workers, Pipeline!LoseConnection(w) PROVE Results!LoseConnection(w)
    BY <2>2 DEF Pipeline!LoseConnection, Results!LoseConnection, Pipeline!BagSum, Results!BagSum
  <2>3. CASE Pipeline!Forget
    BY <2>3 DEF Pipeline!Forget, Results!Forget, Results!Environment
  <2>4. ASSUME Pipeline!Crash PROVE Results!Crash
    BY <2>4 DEF Pipeline!Crash, Results!Crash, Pipeline!BagSum, Results!BagSum
  <2> QED
    BY <1>3, <2>1, <2>2, <2>3, <2>4 DEF Pipeline!Environment, Results!Environment
<1>4. ASSUME Pipeline!System PROVE Results!System
  <2>1. ASSUME NEW n \in Notifications, Pipeline!Publish(n) PROVE Results!Publish(n)
    BY <2>1 DEF Pipeline!Publish, Results!Publish
  <2>2. ASSUME NEW m \in Pipeline!Messages, Pipeline!Expire(m) PROVE Results!Expire(m)
    BY <2>2 DEF Pipeline!Expire, Results!Expire
  <2>3. ASSUME NEW w \in Workers, NEW m \in Pipeline!Messages, Pipeline!Deliver(w, m)
        PROVE  Results!Deliver(w, m)
    BY <2>3 DEF Pipeline!Deliver, Results!Deliver
  <2>4. ASSUME NEW w \in Workers, NEW m \in Pipeline!Messages, Pipeline!Requeue(w, m)
        PROVE  Results!Requeue(w, m)
    BY <2>4 DEF Pipeline!Requeue, Results!Requeue
  <2>5. ASSUME NEW w \in Workers, NEW m \in Pipeline!Messages, Pipeline!Receive(w, m)
        PROVE  Results!Receive(w, m)
    BY <2>5 DEF Pipeline!Receive, Results!Receive
  <2>6. ASSUME NEW w \in Workers, Pipeline!ReadFrame(w) PROVE Results!ReadFrame(w)
    BY <2>6 DEF Pipeline!ReadFrame, Results!ReadFrame, Pipeline!Route, Results!Route,
                Pipeline!HasRung, Results!HasRung
  <2> QED
    BY <1>2, <1>4, <2>1, <2>2, <2>3, <2>4, <2>5, <2>6 DEF Pipeline!System, Results!System
<1>5. [Pipeline!Next]_(Pipeline!vars) => [Results!Next]_(Results!vars)
  BY <1>3, <1>4 DEF Pipeline!Next, Results!Next, Pipeline!vars, Results!vars
<1> QED
  BY <1>1, <1>5, PTL DEF Pipeline!Spec, Results!Spec

(* At-least-once of the service with its breaker: a request that is        *)
(* refused without a provider call is retried as a failed one, and no      *)
(* report, break or crash in between loses the notification.               *)
THEOREM ServiceAtLeastOnce ==
  ASSUME LadderCoversRetries
  PROVE  ServiceSpec => []NoLoss
<1>1. Results!DeliveryAssumption
  BY DeliveryAssumption, SameBroker, SameQuantities DEF DeliveryAssumption, Results!DeliveryAssumption
<1>2. Results!LadderCoversRetries
  BY DEF LadderCoversRetries, Results!LadderCoversRetries
<1>3. Results!Spec => []Results!NoLoss
  BY <1>1, <1>2, Results!AtLeastOnce
<1>4. Results!NoLoss => NoLoss
  BY SameBroker, SameQuantities
     DEF Results!NoLoss, NoLoss, Results!InBroker, InBroker, Results!InQueue, InQueue,
         Results!IsOut, IsOut, Results!Unread, Unread, Results!OnWire, OnWire
<1> QED
  BY <1>3, <1>4, DeliveryImplemented, SamePipeline, PTL DEF ImplementsDelivery

BreakerResults ==
  INSTANCE CircuitBreakerProofs WITH Threads <- Workers,
                                     Outcomes <- {"success", "transient", "permanent"},
                                     call <- caller

(* The same of the breaker.                                                *)
LEMMA SameBreaker == Breaker!Spec => BreakerResults!Spec
<1>1. Breaker!Init => BreakerResults!Init
  BY DEF Breaker!Init, BreakerResults!Init, caller
<1>2. [Breaker!Next]_(Breaker!vars) => [BreakerResults!Next]_(BreakerResults!vars)
  BY DEF caller, Breaker!Next, BreakerResults!Next, Breaker!Tick, BreakerResults!Tick,
         Breaker!Restart, BreakerResults!Restart, Breaker!AllowRequest,
         BreakerResults!AllowRequest, Breaker!Pass, BreakerResults!Pass,
         Breaker!PassClosed, BreakerResults!PassClosed, Breaker!PassAfterOpen,
         BreakerResults!PassAfterOpen, Breaker!PassProbe,
         BreakerResults!PassProbe, Breaker!Refuse, BreakerResults!Refuse,
         Breaker!Report, BreakerResults!Report, Breaker!ReportSuccess,
         BreakerResults!ReportSuccess, Breaker!ReportTransient,
         BreakerResults!ReportTransient, Breaker!ReportPermanent,
         BreakerResults!ReportPermanent, Breaker!FailFast,
         BreakerResults!FailFast, Breaker!OnSuccess, BreakerResults!OnSuccess,
         Breaker!OnFailure, BreakerResults!OnFailure, Breaker!NoReport,
         BreakerResults!NoReport, Breaker!Trip, BreakerResults!Trip,
         Breaker!CountFailure, BreakerResults!CountFailure, Breaker!Return,
         BreakerResults!Return, Breaker!Advance, BreakerResults!Advance,
         Breaker!Renew, BreakerResults!Renew, Breaker!breakerVars,
         BreakerResults!breakerVars, Breaker!history, BreakerResults!history,
         Breaker!vars, BreakerResults!vars
<1> QED
  BY <1>1, <1>2, PTL DEF Breaker!Spec, BreakerResults!Spec

(* What a half-open period lets through, in the running service: its       *)
(* threads share the breaker, and lose connections and are restarted.      *)
THEOREM ServiceHalfOpenBounded == ServiceSpec => []BreakerResults!AtMostTwoHalfOpenCalls
<1>1. BreakerResults!BreakerAssumption
  BY ServiceAssumption
     DEF ServiceAssumption, BreakerResults!BreakerAssumption, BreakerResults!AllOutcomes
<1>2. BreakerResults!Spec => []BreakerResults!AtMostTwoHalfOpenCalls
  BY <1>1, BreakerResults!HalfOpenBounded
<1> QED
  BY <1>2, SameBreaker, BreakerImplemented DEF ImplementsBreaker
=============================================================================
