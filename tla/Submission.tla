----------------------------- MODULE Submission -----------------------------
(***************************************************************************)
(* POST /api/notifications statement by statement: insertWithOutbox, which *)
(* looks for the key and inserts in a transaction, and the publish, for    *)
(* which all HTTP threads share one AMQP channel with its io thread.       *)
(* publish() writes a message to the connection and returns; until the     *)
(* broker has read it, it ends with the connection.                        *)
(*                                                                         *)
(* A notification is named by the request whose handler made up its id.    *)
(***************************************************************************)
EXTENDS Integers, FiniteSets

CONSTANTS
  Requests,       \* POSTs that clients send, retries included
  Keys,           \* idempotency keys
  KeyOf,          \* the idempotencyKey of each request
  HttpThreads,    \* config.httpThreads
  NoRow,          \* what a request refers to before it has found a row
  MaxCrashes,     \* bound: crashes of the process
  MaxLosses       \* bound: losses of the publisher's connection by the network

ASSUME SubmissionAssumption ==
  /\ IsFiniteSet(Requests) /\ NoRow \notin Requests
  /\ KeyOf \in [Requests -> Keys]
  /\ HttpThreads \in Nat /\ MaxCrashes \in Nat /\ MaxLosses \in Nat

VARIABLES
  rows,       \* committed rows of notifications
  outbox,     \* notification_id of the committed rows of outbox_events
  pc,         \* where the handler of each request is
  saved,      \* the notification that insertWithOutbox returned to it
  answer,     \* what the client has been told
  publisher,  \* "up" or "down": the connection of the RabbitMQPublisher
  confirms,   \* confirms of the broker that the io thread has still to read
  wire,       \* requests whose message, for the saved notification, is written and unread
  sent,       \* requests whose message the broker has read
  broken,     \* history: the publisher's connection broke at some time
  crashes, losses

vars == <<rows, outbox, pc, saved, answer, publisher, confirms, wire, sent, broken,
          crashes, losses>>
db == <<rows, outbox>>
amqp == <<publisher, confirms, wire, sent, broken>>
bounds == <<crashes, losses>>

Init ==
  /\ rows = {} /\ outbox = {}
  /\ pc = [r \in Requests |-> "new"]
  /\ saved = [r \in Requests |-> NoRow]
  /\ answer = [r \in Requests |-> "none"]
  /\ publisher = "up" /\ confirms = 0
  /\ wire = {} /\ sent = {}
  /\ broken = FALSE /\ crashes = 0 /\ losses = 0

Running == {r \in Requests : pc[r] \notin {"new", "done", "gone"}}

Step(r, from, to) ==
  /\ pc[r] = from
  /\ pc' = [pc EXCEPT ![r] = to]
  /\ UNCHANGED bounds

-----------------------------------------------------------------------------
(* insertWithOutbox.                                                       *)

Receive(r) ==
  /\ Cardinality(Running) < HttpThreads
  /\ Step(r, "new", "find")
  /\ UNCHANGED <<db, saved, answer, amqp>>

FindReturnsInput(r) ==
  \/ /\ \E x \in rows : KeyOf[x] = KeyOf[r] /\ saved' = [saved EXCEPT ![r] = r]
     /\ Step(r, "find", "publish")
     /\ UNCHANGED <<db, answer, amqp>>
  \/ /\ ~\E x \in rows : KeyOf[x] = KeyOf[r]
     /\ Step(r, "find", "insert")
     /\ UNCHANGED <<db, saved, answer, amqp>>

\* findByIdempotencyKey, on a session of its own and before the transaction.
Find(r) ==
  \/ /\ \E x \in rows : KeyOf[x] = KeyOf[r] /\ saved' = [saved EXCEPT ![r] = x]
     /\ Step(r, "find", "publish")
     /\ UNCHANGED <<db, answer, amqp>>
  \/ /\ ~\E x \in rows : KeyOf[x] = KeyOf[r]
     /\ Step(r, "find", "insert")
     /\ UNCHANGED <<db, saved, answer, amqp>>

\* The key of a row that is inserted and not committed is locked.
Locked(k) ==
  \E r \in Requests : pc[r] \in {"insertOutbox", "commit"} /\ KeyOf[r] = k

\* The INSERT waits for the transaction that holds the key, and fails on
\* uq_notifications_idempotency_key if that committed.
InsertNotification(r) ==
  /\ ~Locked(KeyOf[r])
  /\ Step(r, "insert",
          IF \E x \in rows : KeyOf[x] = KeyOf[r] THEN "duplicate" ELSE "insertOutbox")
  /\ UNCHANGED <<db, saved, answer, amqp>>

InsertOutbox(r) ==
  /\ Step(r, "insertOutbox", "commit")
  /\ UNCHANGED <<db, saved, answer, amqp>>

CommitForgotten(r) ==
  /\ Step(r, "commit", "publish")
  /\ saved' = [saved EXCEPT ![r] = r]
  /\ UNCHANGED <<db, answer, amqp>>

CommitUnsaved(r) ==
  /\ Step(r, "commit", "publish")
  /\ rows' = rows \cup {r} /\ outbox' = outbox \cup {r}
  /\ UNCHANGED <<saved, answer, amqp>>

Commit(r) ==
  /\ Step(r, "commit", "publish")
  /\ rows' = rows \cup {r} /\ outbox' = outbox \cup {r}
  /\ saved' = [saved EXCEPT ![r] = r]
  /\ UNCHANGED <<answer, amqp>>

\* A statement throws: lock wait timeout, deadlock victim, lost session.  Of a
\* commit that throws nobody knows whether MySQL has done it.
SqlFails(r) ==
  /\ \E l \in {"find", "insert", "insertOutbox", "commit"} : Step(r, l, "failed")
  /\ \/ UNCHANGED db
     \/ pc[r] = "commit" /\ rows' = rows \cup {r} /\ outbox' = outbox \cup {r}
  /\ UNCHANGED <<saved, answer, amqp>>

-----------------------------------------------------------------------------
(* The publish.  channel_->publish() writes to the connection without any  *)
(* lock and reports nothing that the handler looks at.                     *)

BeginPublish(r) ==
  /\ Step(r, "publish", "publishing")
  /\ UNCHANGED <<db, saved, answer, amqp>>

EndPublish(r) ==
  /\ Step(r, "publishing", "respond")
  /\ wire' = IF publisher = "up" THEN wire \cup {r} ELSE wire
  /\ UNCHANGED <<db, saved, answer, publisher, confirms, sent, broken>>

\* The broker reads a message and writes its confirm.
ReadMessage(r) ==
  /\ r \in wire
  /\ wire' = wire \ {r} /\ sent' = sent \cup {r} /\ confirms' = confirms + 1
  /\ UNCHANGED <<db, pc, saved, answer, publisher, broken, bounds>>

\* Somebody else is in the same AMQP objects, which are not thread-safe: a
\* second handler, or the io thread with a confirm.
Shared(r) ==
  \/ confirms > 0
  \/ \E q \in Requests : q # r /\ pc[q] = "publishing"

\* The connection ends, and with it what nobody has read.
Break == publisher' = "down" /\ broken' = TRUE /\ confirms' = 0 /\ wire' = {}

\* The outcome of that race other than success: frames are garbled and the
\* broker closes the connection.
Garble(r) ==
  /\ publisher = "up" /\ Shared(r)
  /\ Step(r, "publishing", "respond")
  /\ Break
  /\ UNCHANGED <<db, saved, answer, sent>>

ReadConfirm ==
  /\ confirms > 0
  /\ confirms' = confirms - 1
  /\ UNCHANGED <<db, pc, saved, answer, publisher, wire, sent, broken, bounds>>

\* Nothing opens another connection.
LosePublisher ==
  /\ losses < MaxLosses /\ publisher = "up"
  /\ losses' = losses + 1
  /\ Break
  /\ UNCHANGED <<db, pc, saved, answer, sent, crashes>>

-----------------------------------------------------------------------------
Answer(r, a) == answer' = [answer EXCEPT ![r] = a]

RespondBeforePublish(r) ==
  /\ \/ Step(r, "respond", "done") \/ Step(r, "publish", "done")
  /\ Answer(r, "accepted")
  /\ UNCHANGED <<db, saved, amqp>>

\* 202 with the notification.
Respond(r) ==
  /\ Step(r, "respond", "done")
  /\ Answer(r, "accepted")
  /\ UNCHANGED <<db, saved, amqp>>

\* Any exception is a 400.
Refuse(r) ==
  /\ \E l \in {"duplicate", "failed"} : Step(r, l, "done") /\ Answer(r, l)
  /\ UNCHANGED <<db, saved, amqp>>

\* The process dies and is started again: MySQL rolls back what was not
\* committed, clients that had no answer get none, and messages that the broker
\* has not read are gone, also those of clients that were told 202.
Crash ==
  /\ crashes < MaxCrashes
  /\ crashes' = crashes + 1
  /\ pc' = [r \in Requests |-> IF r \in Running THEN "gone" ELSE pc[r]]
  /\ publisher' = "up" /\ confirms' = 0 /\ wire' = {}
  /\ UNCHANGED <<db, saved, answer, sent, broken, losses>>

Handle(r) ==
  \/ Find(r) \/ InsertNotification(r) \/ InsertOutbox(r) \/ Commit(r) \/ SqlFails(r)
  \/ BeginPublish(r) \/ EndPublish(r) \/ Garble(r) \/ Respond(r) \/ Refuse(r)

Next ==
  \/ \E r \in Requests : Receive(r) \/ Handle(r) \/ ReadMessage(r)
  \/ ReadConfirm \/ LosePublisher \/ Crash

Spec == Init /\ [][Next]_vars

-----------------------------------------------------------------------------
(* Properties.                                                             *)

Labels == {"new", "find", "insert", "insertOutbox", "commit", "publish", "publishing",
           "respond", "duplicate", "failed", "done", "gone"}

\* The range of every variable; a handler that publishes or answers 202 has a
\* notification.
TypeOK ==
  /\ rows \subseteq Requests /\ outbox \subseteq Requests
  /\ pc \in [Requests -> Labels]
  /\ saved \in [Requests -> Requests \cup {NoRow}]
  /\ answer \in [Requests -> {"none", "accepted", "duplicate", "failed"}]
  /\ publisher \in {"up", "down"} /\ confirms \in Nat
  /\ wire \subseteq Requests /\ sent \subseteq Requests
  /\ broken \in BOOLEAN /\ crashes \in Nat /\ losses \in Nat
  /\ \A r \in Requests :
       pc[r] \in {"publish", "publishing", "respond"} \/ answer[r] = "accepted"
         => saved[r] # NoRow

\* However requests for one key race, all that are answered 202 are told the
\* same notification, it exists, and it is theirs.
AnswersAgree ==
  \A r \in Requests :
    saved[r] # NoRow =>
      /\ saved[r] \in rows /\ KeyOf[saved[r]] = KeyOf[r]
      /\ \A q \in Requests :
           saved[q] # NoRow /\ KeyOf[q] = KeyOf[r] => saved[q] = saved[r]

Publishing(x) ==
  \E r \in Requests : pc[r] \in {"publish", "publishing"} /\ saved[r] = x

\* A notification whose message is not in the broker or on the way to it has a
\* handler that is about to publish it, or a fault left it behind: a crash, the
\* publisher's connection, or a commit that threw.
StrandedByFaultOnly ==
  \A x \in rows :
    \/ Publishing(x) \/ \E r \in sent \cup wire : saved[r] = x
    \/ crashes > 0 \/ broken
    \/ pc[x] = "failed" \/ answer[x] = "failed"

\* What the rest of the system sees of the handlers, key by key: whether there is
\* a row, how many requests with a row have a message the broker has still to read,
\* and how many messages it has read.
KeyRows == {KeyOf[x] : x \in rows}
Owing(k) ==
  {r \in Requests : KeyOf[r] = k /\ (pc[r] \in {"publish", "publishing"} \/ r \in wire)}
Owed == [k \in Keys |-> Cardinality(Owing(k))]
Published == [k \in Keys |-> Cardinality({r \in sent : KeyOf[r] = k})]

\* Delivery without workers and with rows of one channel: its main queue holds
\* what was published, and nothing else has happened.
Copies == [ch : {"any"}, n : Keys, attempt : 1..2]
ByKey(v) == [k \in Keys |-> v]
ByWorker(v) == [w \in {} |-> v]

Pipeline ==
  INSTANCE Delivery WITH
    Workers <- {}, WorkerChannel <- ByWorker("any"), Channels <- {"any"},
    Notifications <- Keys, NoMessage <- "none",
    MaxRetries <- 0, RetryRungs <- 0, Prefetch <- 1,
    MaxPosts <- Cardinality(Requests), MaxFaults <- MaxCrashes,
    status <- [k \in Keys |-> IF k \in KeyRows THEN "PENDING" ELSE "NONE"],
    channel <- [k \in Keys |-> IF k \in KeyRows THEN "any" ELSE "NONE"],
    attemptCount <- ByKey(0), attempts <- ByKey([i \in 1..2 |-> "NONE"]),
    main <- [m \in Copies |-> IF m.attempt = 1 THEN Published[m.n] ELSE 0],
    retry <- [m \in Copies |-> 0], dlq <- [m \in Copies |-> 0],
    unacked <- ByWorker(0), orphan <- ByWorker(0), conn <- ByWorker("up"),
    wire <- ByWorker(<< >>),
    pc <- ByWorker("idle"), cur <- ByWorker("none"), failure <- ByWorker("none"),
    owed <- Owed, published <- Published,
    accepted <- ByKey(0), redelivered <- ByKey(0), losses <- 0

\* The handlers do nothing that Post, Publish, Forget and Crash of Delivery do not
\* stand for, whatever races, throws, is cut or crashes: a message only for a
\* committed row, at most one for each request, and no row that goes away.
ImplementsDelivery == Pipeline!Spec

-----------------------------------------------------------------------------
(* What comments and documents of the repository say, and the code does    *)
(* not do.                                                                 *)

\* "The endpoint returns 202 Accepted after persistence and publish succeed": the
\* message is in the broker, or on a connection to it that nothing has cut.
AcceptedIsQueued ==
  \A r \in Requests : answer[r] = "accepted" => r \in sent \cup wire
=============================================================================
