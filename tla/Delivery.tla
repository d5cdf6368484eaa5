------------------------------ MODULE Delivery ------------------------------
(***************************************************************************)
(* The delivery pipeline: POST handlers that publish, the RabbitMQ queues  *)
(* of every channel (main queue, retry ladder, DLQ), the worker threads    *)
(* that consume them, and the MySQL rows all of them write.                *)
(*                                                                         *)
(* WorkerThread::onMessage is one action per database statement, provider  *)
(* call or AMQP operation: other threads, other connections and a crash of *)
(* the process come between any two of them.  An exception other than      *)
(* ProviderException leaves onMessage, the io_context and the thread, which*)
(* ends the process, so a failing database call is a Crash.                *)
(*                                                                         *)
(* Queues are bags: their order plays no part in the properties below, and *)
(* several consumers, prefetch and requeueing make it arbitrary anyway.    *)
(* The frames a worker sends are a sequence: AMQP-CPP writes them to the   *)
(* connection and returns, nothing confirms them, and what the broker has  *)
(* not read when the connection ends is lost from there on.                *)
(***************************************************************************)
EXTENDS Integers, Sequences, FiniteSets, FiniteSetsExt

CONSTANTS
  Workers,              \* all WorkerThreads of the process
  WorkerChannel,        \* channel_ of each of them
  Channels,
  Notifications,        \* idempotency keys, one notifications row each
  MaxRetries,           \* config.maxRetries
  RetryRungs,           \* config.retryDelaysMs.size()
  Prefetch,             \* the argument of setQos
  NoMessage,            \* what an idle worker is handling
  MaxPosts,             \* bound: messages of one key, published or owed
  MaxFaults             \* bound: crashes of the process and connections that break

\* One more than maxRetries allows, so that a message past the last attempt
\* can be told from one at it.
Attempts == 1..(MaxRetries + 2)

\* A message: the channel of the queue family it is in and the two fields of
\* its JSON body.  Its priority only orders a queue.
Messages == [ch : Channels, n : Notifications, attempt : Attempts]

\* What a worker sends: a message for a rung of the ladder, one for the DLQ, or
\* the ack of a delivery.
Frames == [kind : {"retry", "dlq", "ack"}, m : Messages]

ASSUME DeliveryAssumption ==
  /\ WorkerChannel \in [Workers -> Channels]
  /\ MaxRetries \in Nat /\ RetryRungs \in Nat /\ Prefetch \in Nat \ {0}
  /\ MaxPosts \in Nat /\ MaxFaults \in Nat
  /\ NoMessage \notin Messages

VARIABLES
  \* MySQL
  status,        \* notifications.status, "NONE" before the row is inserted
  channel,       \* notifications.channel
  attemptCount,  \* notifications.attempt_count
  attempts,      \* delivery_attempts.status by (notification_id, attempt_number)
  \* RabbitMQ
  main, retry, dlq,  \* the messages in q.<ch>, q.<ch>.retry.<k> and q.<ch>.dlq
  unacked,       \* delivered on a worker's open connection, ack not yet sent
  orphan,        \* unacked on a connection that is gone, not yet requeued
  conn,          \* "up" or "lost": the connection of each worker
  wire,          \* the frames sent on it that the broker has not read
  \* WorkerThread::onMessage
  pc, cur, failure,
  \* HttpServer: requests with a row whose message the broker has still to read
  owed,
  \* the provider: how often it has accepted a notification
  accepted,
  \* history and bounds
  published, redelivered, crashes, losses

db == <<status, channel, attemptCount, attempts>>
broker == <<main, retry, dlq, unacked, orphan, conn, wire>>
worker == <<pc, cur, failure>>
history == <<published, redelivered, crashes, losses>>
vars == <<db, broker, worker, owed, accepted, history>>

EmptyBag == [m \in Messages |-> 0]
Put(q, m) == [q EXCEPT ![m] = @ + 1]
Take(q, m) == [q EXCEPT ![m] = @ - 1]
BagSum(p, q) == [m \in Messages |-> p[m] + q[m]]
BagSize(q) == MapThenSumSet(LAMBDA m : q[m], {m \in Messages : q[m] > 0})

Init ==
  /\ status = [n \in Notifications |-> "NONE"]
  /\ channel = [n \in Notifications |-> "NONE"]
  /\ attemptCount = [n \in Notifications |-> 0]
  /\ attempts = [n \in Notifications |-> [k \in Attempts |-> "NONE"]]
  /\ main = EmptyBag /\ retry = EmptyBag /\ dlq = EmptyBag
  /\ unacked = [w \in Workers |-> EmptyBag]
  /\ orphan = [w \in Workers |-> EmptyBag]
  /\ conn = [w \in Workers |-> "up"]
  /\ wire = [w \in Workers |-> << >>]
  /\ pc = [w \in Workers |-> "idle"]
  /\ cur = [w \in Workers |-> NoMessage]
  /\ failure = [w \in Workers |-> "none"]
  /\ owed = [n \in Notifications |-> 0]
  /\ accepted = [n \in Notifications |-> 0]
  /\ published = [n \in Notifications |-> 0]
  /\ redelivered = [n \in Notifications |-> 0]
  /\ crashes = 0 /\ losses = 0

-----------------------------------------------------------------------------
(* HttpServer, POST /api/notifications.  insertWithOutbox returns the row  *)
(* that exists or commits a new one; the handler publishes in either case, *)
(* by the channel of the row.                                              *)

\* The row that exists, or a new one; the mutant lets the body win.
InsertOverwriting(n, c) ==
  /\ status' = [status EXCEPT ![n] = IF @ = "NONE" THEN "PENDING" ELSE @]
  /\ channel' = [channel EXCEPT ![n] = c]

InsertWithOutbox(n, c) ==
  IF status[n] = "NONE"
  THEN /\ status' = [status EXCEPT ![n] = "PENDING"]
       /\ channel' = [channel EXCEPT ![n] = c]
  ELSE UNCHANGED <<status, channel>>

\* A request that has its row may fail before it publishes, as when the commit
\* throws though MySQL has done it.
Post(n, c) ==
  /\ owed[n] + published[n] < MaxPosts
  /\ owed' \in {owed, [owed EXCEPT ![n] = @ + 1]}
  /\ InsertWithOutbox(n, c)
  /\ UNCHANGED <<attemptCount, attempts, broker, worker, accepted, history>>

\* The broker reads what a handler has published.
Publish(n) ==
  /\ owed[n] > 0
  /\ owed' = [owed EXCEPT ![n] = @ - 1]
  /\ main' = Put(main, [ch |-> channel[n], n |-> n, attempt |-> 1])
  /\ published' = [published EXCEPT ![n] = @ + 1]
  /\ UNCHANGED <<db, retry, dlq, unacked, orphan, conn, wire, worker,
                 accepted, redelivered, crashes, losses>>

\* Publishes that never reach the broker: the publisher's connection is gone,
\* or was when publish() was called, and nobody asks for the result.
Forget ==
  /\ owed' \in [Notifications -> 0..MaxPosts]
  /\ \A n \in Notifications : owed'[n] <= owed[n]
  /\ UNCHANGED <<db, broker, worker, accepted, history>>

-----------------------------------------------------------------------------
(* RabbitMQ.                                                               *)

\* The deliveries of w whose ack is on its way.
AckFrame(m) == [kind |-> "ack", m |-> m]
UnreadAcks(w) ==
  [m \in Messages |-> Cardinality({i \in DOMAIN wire[w] : wire[w][i] = AckFrame(m)})]

\* A consumer gets messages of its own channel's main queue while the broker
\* has fewer than Prefetch outstanding for it.
Deliver(w, m) ==
  /\ conn[w] = "up"
  /\ m.ch = WorkerChannel[w] /\ main[m] > 0
  /\ BagSize(unacked[w]) + BagSize(UnreadAcks(w)) < Prefetch
  /\ main' = Take(main, m)
  /\ unacked' = [unacked EXCEPT ![w] = Put(@, m)]
  /\ UNCHANGED <<db, retry, dlq, orphan, conn, wire, worker, owed, accepted, history>>

\* The default exchange routes by queue name and drops what names no queue:
\* the ladder has a rung for each configured delay and no more.
HasRung(k) == k \in 1..RetryRungs

Route(f) ==
  /\ retry' = IF f.kind = "retry" /\ HasRung(f.m.attempt - 1) THEN Put(retry, f.m) ELSE retry
  /\ dlq' = IF f.kind = "dlq" THEN Put(dlq, f.m) ELSE dlq

\* The broker reads the next frame of a worker.  With an ack it is done with a
\* delivery.
ReadFrame(w) ==
  /\ wire[w] # << >>
  /\ Route(Head(wire[w]))
  /\ wire' = [wire EXCEPT ![w] = Tail(@)]
  /\ UNCHANGED <<db, main, unacked, orphan, conn, worker, owed, accepted, history>>

\* The TTL of a retry queue runs out: the message goes back to the exchange
\* and with the routing key of its channel to the main queue.
Expire(m) ==
  /\ retry[m] > 0
  /\ retry' = Take(retry, m)
  /\ main' = Put(main, m)
  /\ UNCHANGED <<db, dlq, unacked, orphan, conn, wire, worker, owed, accepted, history>>

\* The broker notices that a connection is gone and requeues what was
\* unacknowledged on it.
Requeue(w, m) ==
  /\ orphan[w][m] > 0
  /\ orphan' = [orphan EXCEPT ![w] = Take(@, m)]
  /\ main' = Put(main, m)
  /\ redelivered' = [redelivered EXCEPT ![m.n] = @ + 1]
  /\ UNCHANGED <<db, retry, dlq, unacked, conn, wire, worker, owed, accepted,
                 published, crashes, losses>>

-----------------------------------------------------------------------------
(* Faults.                                                                 *)

\* What the broker gets back when the connection of w ends: the frames it has
\* not read are lost, acks among them.
Outstanding(w) == BagSum(unacked[w], UnreadAcks(w))

\* The connection of a worker breaks.  Nothing opens another one.  A handler
\* that is running goes on; what it publishes or acks is lost.
LoseConnection(w) ==
  /\ crashes + losses < MaxFaults /\ conn[w] = "up"
  /\ losses' = losses + 1
  /\ conn' = [conn EXCEPT ![w] = "lost"]
  /\ orphan' = [orphan EXCEPT ![w] = BagSum(@, Outstanding(w))]
  /\ unacked' = [unacked EXCEPT ![w] = EmptyBag]
  /\ wire' = [wire EXCEPT ![w] = << >>]
  /\ UNCHANGED <<db, main, retry, dlq, worker, owed, accepted, published,
                 redelivered, crashes>>

\* The process dies in any state and is started again.  The queues are
\* durable, the messages persistent; handlers that had not published are gone,
\* and with the connections every frame that was unread.
Crash ==
  /\ crashes + losses < MaxFaults
  /\ crashes' = crashes + 1
  /\ pc' = [w \in Workers |-> "idle"]
  /\ cur' = [w \in Workers |-> NoMessage]
  /\ failure' = [w \in Workers |-> "none"]
  /\ conn' = [w \in Workers |-> "up"]
  /\ orphan' = [w \in Workers |-> BagSum(orphan[w], Outstanding(w))]
  /\ unacked' = [w \in Workers |-> EmptyBag]
  /\ wire' = [w \in Workers |-> << >>]
  /\ owed' = [n \in Notifications |-> 0]
  /\ UNCHANGED <<db, main, retry, dlq, accepted, published, redelivered, losses>>

-----------------------------------------------------------------------------
(* WorkerThread::onMessage, in the order of its statements.                *)

Goto(w, l) == pc' = [pc EXCEPT ![w] = l]

Step(w, from, to) ==
  /\ pc[w] = from
  /\ Goto(w, to)
  /\ UNCHANGED <<cur, owed, history>>

\* A step that runs one statement on the database.
Statement(w, from, to) == Step(w, from, to) /\ UNCHANGED <<broker, failure, accepted>>

Receive(w, m) ==
  /\ pc[w] = "idle"
  /\ unacked[w][m] > 0
  /\ Goto(w, "find")
  /\ cur' = [cur EXCEPT ![w] = m]
  /\ UNCHANGED <<db, broker, failure, owed, accepted, history>>

SkippedWithProcessing == {"NONE", "PROCESSING", "SENT", "CANCELLED"}

\* No row, or one that is SENT or CANCELLED: the message is acked at once.
\* The copy n is not read again: a status another thread writes from here on
\* goes unnoticed.
Skipped == {"NONE", "SENT", "CANCELLED"}

Find(w) ==
  /\ Statement(w, "find", IF status[cur[w].n] \in Skipped THEN "ack" ELSE "markProcessing")
  /\ UNCHANGED db

\* The statements that write: on the row, the history and the count of the
\* message in hand.
Mark(w, s) ==
  /\ status' = [status EXCEPT ![cur[w].n] = s]
  /\ UNCHANGED <<channel, attemptCount, attempts>>

Record(w, s) ==
  /\ attempts' = [attempts EXCEPT ![cur[w].n][cur[w].attempt] = s]
  /\ UNCHANGED <<status, channel, attemptCount>>

IncrementForgotten(w) == UNCHANGED db

IncrementAttemptCount(w) ==
  /\ attemptCount' = [attemptCount EXCEPT ![cur[w].n] = @ + 1]
  /\ UNCHANGED <<status, channel, attempts>>

MarkProcessing(w) == Statement(w, "markProcessing", "send") /\ Mark(w, "PROCESSING")

\* router_->send(n) returns.  A request the breaker refuses is a transient
\* failure like any other.
SendSucceeds(w) ==
  /\ Step(w, "send", "recordSuccess")
  /\ accepted' = [accepted EXCEPT ![cur[w].n] = @ + 1]
  /\ UNCHANGED <<db, broker, failure>>

SendFails(w, f) ==
  /\ Step(w, "send", "countFailure")
  /\ failure' = [failure EXCEPT ![w] = f]
  /\ UNCHANGED <<db, broker, accepted>>

RecordSuccess(w) == Statement(w, "recordSuccess", "markSent") /\ Record(w, "SUCCESS")

MarkSentForgotten(w) == Statement(w, "markSent", "countSuccess") /\ UNCHANGED db

MarkSent(w) == Statement(w, "markSent", "countSuccess") /\ Mark(w, "SENT")

CountSuccess(w) == Statement(w, "countSuccess", "ack") /\ IncrementAttemptCount(w)

ExhaustedOffByOne(m) == m.attempt > MaxRetries + 1

Exhausted(m) == m.attempt > MaxRetries

Retried(w) == failure[w] = "transient" /\ ~Exhausted(cur[w])

CountFailureUnrecorded(w) ==
  /\ Statement(w, "countFailure", IF Retried(w) THEN "publishRetry" ELSE "recordDead")
  /\ IncrementAttemptCount(w)

CountFailure(w) ==
  /\ Statement(w, "countFailure", IF Retried(w) THEN "recordRetry" ELSE "recordDead")
  /\ IncrementAttemptCount(w)

RecordRetryWithDefaultStatus(w) ==
  Statement(w, "recordRetry", "publishRetry") /\ Record(w, "SUCCESS")

RecordRetry(w) ==
  Statement(w, "recordRetry", "publishRetry") /\ Record(w, "TRANSIENT_FAILURE")

NextAttempt(w) ==
  [ch |-> WorkerChannel[w], n |-> cur[w].n, attempt |-> cur[w].attempt + 1]

\* channel_->publish() and channel_->ack() write to the connection, if there is
\* one, and return.
SendFrame(w, k, m) ==
  wire' = IF conn[w] = "up"
          THEN [wire EXCEPT ![w] = Append(@, [kind |-> k, m |-> m])]
          ELSE wire

PublishRetryAndNow(w) ==
  /\ Step(w, "publishRetry", "ack")
  /\ SendFrame(w, "retry", NextAttempt(w)) /\ main' = Put(main, NextAttempt(w))
  /\ UNCHANGED <<db, retry, dlq, unacked, orphan, conn, failure, accepted>>

PublishRetry(w) ==
  /\ Step(w, "publishRetry", "ack")
  /\ SendFrame(w, "retry", NextAttempt(w))
  /\ UNCHANGED <<db, main, retry, dlq, unacked, orphan, conn, failure, accepted>>

RecordDeadMarksFirst(w) == Statement(w, "recordDead", "publishDlq") /\ Mark(w, "DEAD_LETTERED")

RecordDead(w) ==
  /\ Statement(w, "recordDead", "publishDlq")
  /\ Record(w, IF failure[w] = "transient" THEN "TRANSIENT_FAILURE" ELSE "PERMANENT_FAILURE")

PublishDlqToMain(w) ==
  /\ Step(w, "publishDlq", "markDead")
  /\ main' = Put(main, cur[w])
  /\ UNCHANGED <<db, retry, dlq, unacked, orphan, conn, wire, failure, accepted>>

PublishDlq(w) ==
  /\ Step(w, "publishDlq", "markDead")
  /\ SendFrame(w, "dlq", [cur[w] EXCEPT !.ch = WorkerChannel[w]])
  /\ UNCHANGED <<db, main, retry, dlq, unacked, orphan, conn, failure, accepted>>

MarkDeadDeletesRow(w) == Statement(w, "markDead", "ack") /\ Mark(w, "NONE")

MarkDead(w) == Statement(w, "markDead", "ack") /\ Mark(w, "DEAD_LETTERED")

Ack(w) ==
  /\ pc[w] = "ack"
  /\ Goto(w, "idle")
  /\ cur' = [cur EXCEPT ![w] = NoMessage]
  /\ failure' = [failure EXCEPT ![w] = "none"]
  /\ SendFrame(w, "ack", cur[w])
  /\ IF conn[w] = "up"
     THEN unacked' = [unacked EXCEPT ![w] = Take(@, cur[w])]
     ELSE UNCHANGED unacked
  /\ UNCHANGED <<db, main, retry, dlq, orphan, conn, owed, accepted, history>>

OnMessage(w) ==
  \/ Find(w) \/ MarkProcessing(w)
  \/ SendSucceeds(w) \/ \E f \in {"transient", "permanent"} : SendFails(w, f)
  \/ RecordSuccess(w) \/ MarkSent(w) \/ CountSuccess(w)
  \/ CountFailure(w) \/ RecordRetry(w) \/ PublishRetry(w)
  \/ RecordDead(w) \/ PublishDlq(w) \/ MarkDead(w)
  \/ Ack(w)

-----------------------------------------------------------------------------
Environment ==
  \/ \E n \in Notifications, c \in Channels : Post(n, c)
  \/ \E w \in Workers : LoseConnection(w)
  \/ Forget \/ Crash

System ==
  \/ \E n \in Notifications : Publish(n)
  \/ \E m \in Messages : Expire(m)
  \/ \E w \in Workers, m \in Messages :
       Deliver(w, m) \/ Requeue(w, m) \/ Receive(w, m)
  \/ \E w \in Workers : ReadFrame(w) \/ OnMessage(w)

Next == Environment \/ System

Spec == Init /\ [][Next]_vars

-----------------------------------------------------------------------------
(* Properties.                                                             *)

Statuses == {"NONE", "PENDING", "PROCESSING", "SENT", "FAILED",
             "DEAD_LETTERED", "CANCELLED"}
AttemptStatuses == {"NONE", "SUCCESS", "TRANSIENT_FAILURE", "PERMANENT_FAILURE"}
Labels == {"idle", "find", "markProcessing", "send", "recordSuccess", "markSent",
           "countSuccess", "countFailure", "recordRetry", "publishRetry",
           "recordDead", "publishDlq", "markDead", "ack"}
Bags == [Messages -> Nat]

DbOK ==
  /\ status \in [Notifications -> Statuses]
  /\ channel \in [Notifications -> Channels \cup {"NONE"}]
  /\ attemptCount \in [Notifications -> Nat]
  /\ attempts \in [Notifications -> [Attempts -> AttemptStatuses]]

BrokerOK ==
  /\ main \in Bags /\ retry \in Bags /\ dlq \in Bags
  /\ unacked \in [Workers -> Bags] /\ orphan \in [Workers -> Bags]
  /\ conn \in [Workers -> {"up", "lost"}]
  /\ wire \in [Workers -> Seq(Frames)]

WorkerOK ==
  /\ pc \in [Workers -> Labels]
  /\ cur \in [Workers -> Messages \cup {NoMessage}]
  /\ failure \in [Workers -> {"none", "transient", "permanent"}]

CountersOK ==
  /\ owed \in [Notifications -> Nat] /\ accepted \in [Notifications -> Nat]
  /\ published \in [Notifications -> Nat]
  /\ redelivered \in [Notifications -> Nat]
  /\ crashes \in Nat /\ losses \in Nat

OwedHasRow ==
  \A n \in Notifications :
    /\ owed[n] > 0 => status[n] # "NONE"
    /\ status[n] # "NONE" => channel[n] \in Channels

BusyHolds ==
  \A w \in Workers :
    pc[w] # "idle" => cur[w] \in Messages /\ (conn[w] = "up" => unacked[w][cur[w]] > 0)

\* The range of every variable, with what the code relies on when it uses one
\* without a check: a handler that publishes has a committed row with a
\* channel, a busy worker has a message, and an ack that reaches the broker
\* names a delivery that is outstanding on its connection.
TypeOK == DbOK /\ BrokerOK /\ WorkerOK /\ CountersOK /\ OwedHasRow /\ BusyHolds

\* A frame on its way that carries, or settles, a message of n.
OnWire(w, k, n) == \E i \in DOMAIN wire[w] : wire[w][i].kind = k /\ wire[w][i].m.n = n
Unread(k, n) == \E w \in Workers : OnWire(w, k, n)

\* The broker has a copy of m: in a queue, or delivered and not yet acked.
InQueue(m) == main[m] > 0 \/ retry[m] > 0 \/ dlq[m] > 0
IsOut(w, m) == orphan[w][m] > 0 \/ unacked[w][m] > 0

InBroker(n) ==
  \/ \E m \in Messages : m.n = n /\ (InQueue(m) \/ \E w \in Workers : IsOut(w, m))
  \/ Unread("ack", n)

Parked(n) == \E m \in Messages : m.n = n /\ dlq[m] > 0

\* At-least-once: whatever crashes, breaks or is redelivered, and wherever the
\* frames of a worker are cut, a published notification has been accepted by the
\* provider or has a copy in the broker.  It needs the publish before the ack on
\* one channel, and a rung of the ladder for every retry.
NoLoss == \A n \in Notifications : published[n] > 0 => accepted[n] > 0 \/ InBroker(n)

\* With its connections intact the system never leaves the row of a published
\* message behind in PENDING, PROCESSING or DEAD_LETTERED without a copy in the
\* broker, crash or not: the status a client reads is going to be corrected or is
\* final.  A row whose message was never published is StrandedByFaultOnly's.
UnsentIsInBroker ==
  losses = 0 =>
    \A n \in Notifications : published[n] > 0 => status[n] = "SENT" \/ InBroker(n)

\* What the database says of a success is true: a row that is SENT and an
\* attempt that is SUCCESS stand for a call the provider accepted.
SuccessIsReal ==
  \A n \in Notifications :
    status[n] = "SENT" \/ (\E k \in Attempts : attempts[n][k] = "SUCCESS")
      => accepted[n] > 0

\* A row that says DEAD_LETTERED has a message an operator can find in the DLQ,
\* or is going to find when the broker has read it, since the worker publishes
\* before it marks.  Only a crash of the process can cut that frame; the delivery
\* it answers is then still in the broker, and will be worked on again.
DeadLetteredIsParked ==
  losses = 0 =>
    \A n \in Notifications : status[n] = "DEAD_LETTERED" =>
      Parked(n) \/ Unread("dlq", n) \/ (crashes > 0 /\ InBroker(n))

\* Nobody works on an attempt past maxRetries + 1, and the delivery history
\* has no gap: attempt k + 1 exists only when attempt k was recorded.
LadderInOrder ==
  /\ \A w \in Workers : pc[w] # "idle" =>
       /\ cur[w].attempt <= MaxRetries + 1
       /\ cur[w].attempt > 1 => attempts[cur[w].n][cur[w].attempt - 1] # "NONE"
  /\ \A n \in Notifications, k \in Attempts : attempts[n][k] # "NONE" =>
       /\ k <= MaxRetries + 1
       /\ k > 1 => attempts[n][k - 1] # "NONE"

\* Every copy of a message is in the queues, with a worker or on the way from a
\* worker of the channel its row has, also when a repeated POST asks for another
\* channel.
RoutedToOwnChannel ==
  \A m \in Messages, w \in Workers :
    InQueue(m) \/ IsOut(w, m) \/ (\E i \in DOMAIN wire[w] : wire[w][i].m = m)
      => m.ch = channel[m.n]

\* The retry ladder by itself never sends twice: each acceptance by the
\* provider is paid for by one publish of a POST or one redelivery.
SendsArePaidFor ==
  \A n \in Notifications : accepted[n] <= published[n] + redelivered[n]

\* Only one copy of n was ever handed out by the API and the broker.
SingleCopy(n) == published[n] + redelivered[n] <= 1

\* While there is a single copy of its message, which travels the ladder, a
\* notification never leaves SENT or DEAD_LETTERED again.
TerminalIsFinal ==
  [][\A n \in Notifications :
       SingleCopy(n)' /\ status[n] \in {"SENT", "DEAD_LETTERED"}
         => status'[n] = status[n]]_vars

Recorded(n) == {k \in Attempts : attempts[n][k] # "NONE"}

\* For such a notification attempt_count is the number of rows of its delivery
\* history, whenever no handler is at work on it and none was cut short.
CountMatchesHistory ==
  \A n \in Notifications :
    /\ SingleCopy(n)
    /\ \A w \in Workers :
         pc[w] # "idle" => cur[w].n # n
    /\ crashes = 0
    => attemptCount[n] = Cardinality(Recorded(n))

\* What the proof that NoLoss holds has to know besides: where a handler is
\* says what it has found and done, which the code relies on silently.  What it
\* has to know of the frames is with the proof.

\* Past its first test a handler works on a row that exists.
RowKnown ==
  \A w \in Workers : pc[w] \notin {"idle", "find", "ack"} => status[cur[w].n] # "NONE"

\* Only an attempt that is not exhausted is retried.
RetryAllowed ==
  \A w \in Workers : pc[w] \in {"recordRetry", "publishRetry"} => ~Exhausted(cur[w])

\* The success branch runs after the provider accepted.
AcceptedFirst ==
  \A w \in Workers :
    pc[w] \in {"recordSuccess", "markSent", "countSuccess"} => accepted[cur[w].n] > 0

\* A message is published for a committed row, and no code here cancels one.
PublishedHasRow ==
  \A n \in Notifications :
    status[n] # "CANCELLED" /\ (published[n] > 0 => status[n] # "NONE")

\* The ladder has a rung for every retry that maxRetries allows.
LadderCoversRetries == MaxRetries <= RetryRungs

\* Every published notification is in the end accepted by the provider or
\* parked in a DLQ, as long as a worker of its channel keeps its connection.
EventuallySettled ==
  \A n \in Notifications : published[n] > 0 ~> (accepted[n] > 0 \/ Parked(n))

\* With connections intact the status of a published notification comes to
\* rest at SENT or DEAD_LETTERED, however many copies compete to write it.
StatusComesToRest ==
  \A n \in Notifications :
    <>[](published[n] > 0 /\ losses = 0 => status[n] \in {"SENT", "DEAD_LETTERED"})

-----------------------------------------------------------------------------
(* What comments and documents of the repository say, and the code does    *)
(* not do.                                                                 *)

\* "Submitting the same idempotency key again prevents a duplicate
\* notification": whatever is posted, the provider accepts n once.
NoDuplicateSend == \A n \in Notifications : accepted[n] <= 1
=============================================================================
