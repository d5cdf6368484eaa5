# Verification of the Distributed Notification Delivery System

TLA+ modules, TLC configurations and TLAPS proofs for the notification service
in `src/`: a single C++ process that accepts notifications over HTTP, stores
them in MySQL, publishes them to RabbitMQ and delivers them from worker threads
through (mock) providers, with a retry ladder, dead-letter queues and a circuit
breaker per channel. Paths below are relative to `src/`.

## 1. The system

| Part | Code | State | Operations | Talks to |
|---|---|---|---|---|
| HTTP API | `src/HttpServer.cpp` | none of its own; `httpThreads` threads block in `accept` and handle one connection each | POST: parse, `insertWithOutbox`, publish, 202; two GETs; any exception is a 400 | pool, repositories, publisher |
| Repositories | `src/NotificationRepository.cpp`, `src/DeliveryAttemptRepository.cpp` | tables `notifications`, `outbox_events`, `delivery_attempts` | insert in a transaction, find, mark status, count, record attempt (upsert) | pool, MySQL |
| Connection pool | `src/Database.cpp` | queue of idle sessions, mutex, condition variable | `acquire` blocks, the handle's destructor releases | every HTTP and worker thread |
| Publisher | `src/RabbitMQPublisher.cpp` | one AMQP connection and channel, an io thread | publish without mandatory flag, confirms nobody waits for | shared by all HTTP threads |
| Topology | `src/RabbitMQTopology.cpp` | names only | per channel a main queue, a rung `q.<ch>.retry.<k>` per configured delay with TTL and dead-letter exchange, a DLQ | broker |
| Workers | `src/Worker.cpp` | one AMQP connection, prefetch and thread each | `onMessage`: find, mark, send, record, mark, count, republish or park, ack | repositories, router, broker |
| Router and breaker | `src/ProviderRouter.cpp`, `include/notification/CircuitBreaker.hpp` | Closed/Open/HalfOpen, failure counter, probe flag, time of opening | `allowRequest`, `onSuccess`, `onFailure` under a mutex; the provider is called outside it | workers of one channel |
| Providers | `src/MockProviders.cpp` | none | succeed, fail transiently, fail permanently | router |
| Lifecycle | `src/main.cpp` | shutdown flag | start pool, publisher, topology, workers, HTTP; poll the flag; stop HTTP, then workers | all |
| Dashboard | `frontend/src/App.tsx` | form, list, detail, `sending`, health light, error banner | submit, reload, open a detail, check health, dismiss | HTTP API |
| Outbox | `sql/schema.sql` | `outbox_events` | rows are written, nothing reads them in this build (`docs/ARCHITECTURE.md:88-95`) | – |

What is hard, and what makes each part correct:

* **Delivery.** Several threads run `onMessage` for copies of one message at
  once: a repeated POST publishes again, the broker redelivers after a crash or
  a lost connection, and nothing locks the row between two statements. Correct
  means: a published notification is never lost; what the row and the delivery
  history claim of a success is true; a dead-lettered row has a parked message;
  attempts climb the ladder without gaps; every message ends and every status
  comes to rest; a client that is told an outcome is told the attempt it comes
  from.
* **Circuit breaker.** Calls are admitted in one state and report in another,
  late and out of order, or not at all (a permanent failure). Correct means: a
  half-open period lets few calls through, the breaker never waits for nobody,
  and a message it refuses is retried or parked and never dropped.
* **Connection pool.** `insertWithOutbox` holds one session and acquires a
  second. Correct means: no session has two users, no wake-up is lost, not
  everybody waits for everybody.
* **Submission.** Two inserts of one new key race; commit and publish are not
  atomic; one AMQP channel has several users. Correct means: one row per key,
  and a 202 that means what the documents say.
* **Topology and lifecycle.** Sleeps instead of confirmation between declaring
  and consuming; a `stop()` that has to end threads blocked in `accept`.
* **Dashboard.** Overlapping requests whose answers arrive in any order.

## 2. Modules

| Module | Models | Theorems |
|---|---|---|
| `Lifecycle` | `main()`: declaring the queues, consumers, accept loops, stop, crash and restart | `LifecycleProofs` |
| `Submission` | the POST handler with its transaction and the shared publisher | `SubmissionProofs` |
| `Delivery` | queues, workers, the frames between them, database rows, crashes, lost connections | `DeliveryProofs` |
| `CircuitBreaker` | the breaker and `ProviderRouter::send` | `CircuitBreakerProofs` |
| `NotificationService` | composition: the workers of a channel, statement by statement inside `send()`, and the breaker they share | `NotificationServiceProofs` |
| `Queries` | composition: GET of one notification beside the workers | `QueriesProofs`, also what is proved of `Delivery` by counting copies |
| `ConnectionPool` | the pool of MySQL sessions and its users | `ConnectionPoolProofs` |
| `Dashboard` | the page of `App.tsx` | `DashboardProofs` |
| `MC...` | instances for TLC | |

How they fit: `Delivery` is the abstract specification of two others. Its
`Post`, `Publish` and `Forget` stand for all that the API does, and `Submission`,
the handlers statement by statement, implements it: the handlers do nothing that
`Delivery` leaves out. Its `SendSucceeds` and `SendFails` stand for a whole call
of `send()`, and `NotificationService`, which runs the statements of that call
against the methods of `CircuitBreaker`, implements it as well; and it implements
`CircuitBreaker`, so that what holds of either holds of the service. `Lifecycle`
establishes that the queues exist where `Delivery` publishes to them. `Queries`
sets a reader beside `Delivery`. `ConnectionPool` is the layer below every
database statement of `Submission` and `Delivery`, `Dashboard` the client above
`Submission`.

Operators named after another one with a suffix (`MarkSentForgotten`,
`IncrementForgotten`, ...) stand directly before it. They are faulty variants
of that operator, the way a slip in the code would make it, and are not used by
`Next`: each property below has one that breaks it, which shows that the
property depends on the code and not on the shape of the model.

### CircuitBreaker

Every method of the breaker holds `mu_` for its whole body, so it is one step:
`AllowRequest`, `OnSuccess`, `OnFailure`. `call[t]` is where a worker thread is
in `ProviderRouter::send`: before `allowRequest`, in the provider call, or
refused and about to throw. The provider call holds no lock, so any number of
other steps come between admission and report. `elapsed` is
`now() - openedAt_`, saturating at `OpenDuration`, since the code only compares
the two; `Tick` lets it grow. `halfOpenCalls` and `unreported` are history
variables: the calls admitted in the present half-open period, and whether one
of them ended in a permanent failure that reached no method of the breaker.
The breaker is a member of the router and not stored: `Restart` is a new process
with a new breaker and no calls out.

### Delivery

Each statement of `onMessage` that touches the database, the provider or the
broker is one action, guarded by the label `pc[w]` at which the code stands.
`cur[w]` is the message with its attempt number. The status a worker read in
`Find` is not read again, as in the code, which is how a row can be overwritten
by a competing copy.

* `main`, `retry`, `dlq` are the queues as bags of messages with the channel of
  their family; the attempt number decides the rung. Order, priority and the
  head-of-line effect of per-queue TTLs are not modelled: several consumers,
  prefetch and requeueing make the order arbitrary, and no property depends
  on it.
* `unacked[w]` are deliveries outstanding on an open connection. When the
  connection breaks or the process dies they become `orphan[w]`, and the broker
  requeues them one at a time.
* A publish or an ack is written to the connection and not confirmed
  (`src/Worker.cpp:139`, `:151`, `:158`). `wire[w]` is the sequence of frames
  that the broker has not read; `ReadFrame` takes the first and routes it. When
  the connection breaks or the process dies, the rest is lost: a retry, a parked
  message, an ack. A fault that comes after the broker has read some of them is
  the same fault after some more `ReadFrame`s. A delivery whose ack is unread
  still counts against the prefetch and is requeued if the ack is cut.
* A worker whose connection is gone finishes the message in its hands
  (database writes still work, publishes and acks go nowhere) and gets no other:
  the code has no reconnection (`src/Worker.cpp:60-66`). What was prefetched
  and not started is dropped with the connection; the broker requeues it.
* A database exception leaves `onMessage`, the thread function and so ends the
  process; it is an instance of `Crash`. Crash and restart are one action;
  what was in memory is gone, MySQL and the durable queues stay. A graceful
  stop of the workers is a crash with idle workers.
* `send()` succeeds or fails as it likes here; when the breaker refuses a call is
  in `NotificationService`. A permanent failure goes to `DEAD_LETTERED`; the
  code never writes `FAILED` or `CANCELLED`, so no state with them is reachable.
* `Post` is the committed transaction of `insertWithOutbox`, or its answer for
  an existing key; it may leave nothing to publish, as when the commit throws and
  has happened. `owed[n]` counts the requests from there to the broker reading
  their message (`Publish`), and `Forget` is any of them failing: on a connection
  that is gone, or cut with it.
* The branch of `onMessage` for a body that is not JSON is left out: nothing in
  the program writes one.
* All queues exist from the start; `Lifecycle` is about how they come to.

`accepted`, `published`, `redelivered` count what the provider, the API and the
broker did; `crashes` and `losses` count the faults of the run, which `MaxFaults`
bounds, and `MaxPosts` bounds the messages of a key that are published or owed.

### NotificationService

The router is one object for all workers, with a breaker per channel; channels
share neither queues nor workers, so that one channel stands for each. In place
of `Delivery`'s one step, `send()` is the statements of
`src/ProviderRouter.cpp:16-35`: `Ask` is `allowRequest()`, which lets a request
through or refuses it; `ProviderAccepts` and `ProviderThrows` are the call, which
holds no lock; `ReturnSuccess`, `RethrowTransient` and `RethrowPermanent` are what
the router does with its result, the last without a word to the breaker; and
`ThrowRefused` is the exception for a refused request, which goes down the branch
of a transient failure. The actions call `CircuitBreaker`'s methods as operators
on the breaker's variables only (`Pass`, `Refuse`, `OnSuccess`, `OnFailure`),
which ask nothing of the thread that calls them. That a thread asks before it
calls and reports once is therefore a property of the labels, and a router that
skipped a step would break it.

Two views of a worker's label carry the refinements. For `Delivery` a worker is
at `send` until the provider has accepted or an exception has reached `onMessage`
(`Statements`); for `CircuitBreaker` it is a call from admission to leaving
`send()` (`Caller`). So the acceptance is a step of `Delivery` and a stutter of
the breaker, the report the reverse. A crash or a lost connection comes between
any two of the statements. `Restart` is the crash of `Delivery` with the
breaker's; requests, queues and lost connections leave the breaker alone.

### Queries

The handler of GET reads the row (`FindById`), then the delivery history
(`FindByNotificationId`), each with a statement and a session of its own; the
workers come in between. `found` is what the handler carries from the first to
the second, reduced to whether the status is one a client takes for final. An
identifier without a row is a 404, and the list is one SELECT; neither has two
steps.

### Submission

A handler is at a label of `insertWithOutbox` or of the publish; each statement
is a step. A notification is named by the request whose handler made up its
identifier, so that "the same notification" is equality.

* `Find` runs before the transaction and on another session, which is the race:
  two handlers of one new key both find nothing. `InsertNotification` waits for
  a transaction that holds the key (`Locked`) and fails on the unique key when
  that committed.
* `SqlFails` is any statement that throws. When the commit throws, MySQL may or
  may not have done it.
* `BeginPublish` and `EndPublish` bracket `channel_->publish()`, which has no
  lock and only writes to the connection: the message is then in `wire`, and in
  `sent` when the broker has read it (`ReadMessage`), with a confirm on its way
  back. `ReadConfirm` is the io thread in the same objects. If two are in them
  at once the build may do anything; `Garble` is the outcome that matters,
  frames the broker answers by closing the connection. A lost connection is not
  reopened, takes what is unread with it, and `publish()` reports nothing.
* `Crash` includes the restart; clients without an answer get none, and messages
  the broker has not read are lost, also those of clients that were told 202.
* `Pipeline` is the view of `Delivery` on the handlers: an instance without
  workers, in which a key is a notification, a request is owed from its row until
  the broker has read its message, and the main queue holds what was read. Which
  channel a row names plays no part in a POST, so that all rows have the same.

### ConnectionPool

`acquire()` holds `mu_` up to the wait and `release()` around the push; these are
single steps. `notify_one()` follows the unlock and is a step of its own. A
thread's unit of work takes one session, or, in an HTTP thread, one more while
it holds the first (`nests`). Which handle is the outer one makes no difference
to the pool, so a thread's sessions are a set. Queries and their exceptions are
the same step: the handle's destructor releases in both cases.

### Lifecycle

`main` is where `main()` stands, `wire` the frames of the publisher's channel
that the broker has not read. The fixed sleeps after declaring and consuming
wait for nothing and are left out, so that a slow broker is one of the
behaviours. What is read of a dead process's frames is read before those of the
next. The exchange and its bindings count as one with the main queue's
declaration; a retry queue or DLQ is reached through the default exchange.
`httpThreads` comes from a file nobody checks, and `Boot` chooses any number of
threads up to `HttpThreads`. A signal before the handler is installed is a
crash. `close()` on the acceptor wakes no thread that blocks in `accept`, which
is what POSIX gives the blocking call. `WorkerPool::stop()` stops and joins the
workers one after the other: those whose turn has not come go on consuming. A
crash comes at any point of a process that another one follows. The loss of a
worker's connection is in `Delivery`.

### Dashboard

A step is what the page runs between two awaits. `loads` are the calls of
`loadNotifications()`, one by the page at a time and one for each run of
`submit()`; each is answered with the version of the list that the server had
then, and stored when its answer is taken, in any order. `health` and `error`
are the light in the header and the banner: a reload that fails sets both, every
other failure the banner, `CheckHealth` the light; `Dismiss` closes the banner.
`sending`, `submitSuccess` and `showComposer` are the states of those names; the submit
button looks at the first two, and `submit()` does not set `sending`. `ofForm`,
`accepted` and `strays` are history: the runs that the form on the screen has
started, whether one was accepted, and whether it was opened over a run of an
earlier form; they go when the form does. `details` counts the requests of
`openDetail()` that are out; any number of them up to a bound may be, and they
are answered in any order. One record is open at a time, and which one is left
out: an answer that comes late replaces it.

## 3. What the runs check

| Run | Instance | Shows |
|---|---|---|
| `breaker` | 3 threads, threshold 3, restarts | ranges; at most two calls per half-open period; a half-open breaker has a caller out; with reports it keeps testing the provider |
| `breaker_wedge` | 2 threads | **violated**: a flagged probe that fails permanently leaves the breaker refusing for ever |
| `delivery_copies` | 2 workers, 2 POSTs of a key for any of 2 channels, a crash or a lost connection that cuts the frames | the row and the queues agree however copies race; a dead-lettered row has its message in the DLQ, on the way to it or redelivered |
| `delivery_faults` | 2 workers, ladder of 2 rungs, a crash or a lost connection that cuts the frames, a client that reads | nothing lost, successes real, ladder without gaps, counter equal to history, terminal states final; the answer to a GET shows the attempt its outcome comes from |
| `service_live` | 2 workers behind a breaker of threshold 2, ladder of 1 rung, a crash or a lost connection | every notification settles and its status comes to rest, also when the breaker refuses calls; `send()` statement by statement implements what `Delivery` has in its place, and uses the breaker as `CircuitBreaker` assumes |
| `delivery_duplicate` | 2 POSTs | **violated**: a repeated key is sent twice |
| `pool` | 3 sessions, 2 HTTP threads, 2 workers | sessions exclusive, no lost wake-up, nobody waits for ever |
| `submission` | 3 POSTs of a key and one of another on 3 threads, a crash, a lost publisher | one notification per key; a row without a message has a fault behind it; the handlers implement `Delivery` |
| `submission_queued` | 2 POSTs of a key on 2 threads | **violated**: a 202 without a message |
| `lifecycle` | 2 starts, 0 or 1 HTTP thread, 2 workers of the channel declared last, one retry rung | messages always find their queues and ladder, a restart is staffed, a signal ends a process that has no HTTP threads |
| `lifecycle_stop` | 1 start, 1 HTTP thread | **violated**: `httpServer.stop()` never returns |
| `dashboard` | a request of the page, 2 runs of `submit()`, 2 requests for a record, a change at the server, a failure | the form tells the truth and has the timer that closes it; the list, the light and the banner come to agree with the server |

**Bounds.** Two workers are enough for two copies to race, and a third would
only repeat one of the two roles; with two rungs a message is at the first, at
an inner and at the last attempt. `MaxFaults` = 1: a crash of the process or the
loss of a worker's connection, between any two actions; the actions after the
fault are those of a fresh system with what the fault left behind. What a
sequence of faults can add is more copies of a message, and the second POST
brings these already. The theorems of section 5 state every safety property for
any number of faults of both kinds, workers, requests and copies, any ladder
and any prefetch. Two POSTs of one key (possibly for different channels) are the
shortest history with two copies at attempt 1. The service run has one POST: its
second copy comes from the redelivery after the fault, and two failures, of two
workers or of one after the other, open the breaker while the message has an
attempt left. A prefetch of 1 where the code asks for 10 (`src/Worker.cpp:54`)
leaves the copies a worker does not have in hand in the queue, from where either
worker may take them; a prefetched copy can only wait for the worker it was
delivered to, which is one of these orders, or be requeued when its connection
ends. `delivery_duplicate` has a prefetch of 2, and the theorems any. The reader
of `delivery_faults` adds two steps that come anywhere.

| Run | Distinct states |
|---|---|
| `breaker` | 580 |
| `delivery_copies` | 578,660 |
| `delivery_faults` | 467,256 |
| `service_live` | 80,591 |
| `submission` | 148,855 |
| `lifecycle` | 486,379 |
| `dashboard` | 533,184 |

Three threads for the breaker are the probe admitted by the clock, the flagged
one and a caller from an earlier period. The notifications share no state but
the workers, so one key suffices for properties quantified over keys.
Three sessions for two HTTP threads are the least with which the nested acquire
cannot block; with two workers beside them every session can be out and every
role waits for another. Three POSTs of one key are a winner, a loser inside the
race and a late one that finds the row; the other key publishes on the channel
they share. Two starts are a first one and one after a crash half-way through
the declarations. The workers are of the last channel, whose queue is missing
longest, and of the channels only that order tells them apart; with two of them
one is stopped and joined while the other goes on consuming. Two runs
of `submit()` are one of the form on the screen and one of an earlier form, and
two requests for a record can be answered in either order.
`Attempts` reaches one past the last legal attempt so that a wrong one can be
represented. `SYMMETRY` permutes workers, and in `submission` the requests of one
key, in the safety runs only; the liveness runs do without.

**Deadlock** is checked for the breaker and the pool. In the others it is not:
when the bounded requests are used up and the queues are drained the system
rests, as the real one does without traffic.

**Fairness.** `FairServiceSpec` has weak fairness of `Running`: broker, threads
and the breaker's clock do not all rest while one of them can take a step. The
bounds leave finitely many such steps to take, so that this is as strong as
fairness per thread, and not more than an operating system and a running broker
give; a provider call that never returned would break it. Requests, crashes and
losses get none. The breaker has weak fairness of each thread's next step (a provider call
returns, `send()` returns, messages keep coming) and of the clock. In the pool a
thread that can take its next step does (mutexes are handed on, queries end);
new units of work and spurious wake-ups are owed to nobody, and `AcquireReturns`
speaks of behaviours in which units cease to begin, since the condition variable
is not fair. In `Lifecycle` `main()` and the workers have weak fairness; connections,
failures of `accept`, signals, starts and losses have none. `FairApiSpec` adds
that the broker reads and a handler ends: `StopEndsAcceptors` is checked with it,
and fails with it, not for the lack of it; the passing properties are checked
without. In `Dashboard` requests are answered or fail (browsers time out)
and timers fire. `Submission` has safety properties only.

**Limits of the liveness properties.** `StopEndsWorkers` speaks of a process
without HTTP threads, a configuration the code accepts: with one, `main()` waits
for it and never gets to the workers, which is the run `lifecycle_stop`. What it
shows is that the workers, stopped and joined one after the other, never hold
up the end, whatever state the signal finds them in. `StatusComesToRest` speaks of runs
without a lost connection: a worker that lost its own may still overwrite a
status when its message has been redelivered and settled elsewhere.
`EventuallySettled` is checked with a second worker of the channel that stays
connected: a lone worker that loses its connection is never replaced, and its
queue is not consumed until the process restarts. Neither contradicts
`breaker_wedge`: a breaker that refuses for ever is a failure of every attempt,
and the message ends in the DLQ without having been tried.

## 4. Disagreements between the code and its documents

With a run that shows them:

* `breaker_wedge`: `src/ProviderRouter.cpp:30-34` does not report permanent
  failures; the breaker can stay half open and refuse for ever, where
  `CircuitBreaker.hpp:13-14` has it test recovery.
* `delivery_duplicate`: `README.md:294` says a repeated key prevents a duplicate
  notification; `src/HttpServer.cpp:142-153` publishes it again.
* `submission_queued`: `README.md:274` says 202 means persisted and published,
  `RabbitMQPublisher.hpp:16-19` that what is not thread-safe is not shared; the
  HTTP threads share one channel without a lock and ignore what becomes of it
  (`src/RabbitMQPublisher.cpp:58-64`). One client is enough to be told 202 for a
  message that neither the broker nor the connection has. A crash would do the
  same to a message that is written and unread; the run needs none.
* `lifecycle_stop`: the comment at `src/HttpServer.cpp:106` expects `accept` to
  return `operation_aborted` when the acceptor is closed. It does not: a blocked
  thread stays blocked and any other goes round on `bad_descriptor`, so that
  with an HTTP thread the process ends only by a second, harder signal.

Read in the code, and allowed by the models as they are:

* `CircuitBreaker.hpp:13-14,30,35` promises one probe; the call that moves the breaker
  to HalfOpen does not set `probeInFlight_`, so there can be two, and not more
  (`AtMostTwoHalfOpenCalls`). No run has one probe as its property: the passing
  bound of two and `breaker_wedge` are the two sides of it.
* `CircuitBreaker.hpp:12-14` promises fail-fast for `openDuration`; a late
  success closes the breaker at once (`:41-46`).
* `DeliveryAttemptRepository.hpp:10-14` says a second `record()` is a no-op;
  `src/DeliveryAttemptRepository.cpp:11` overwrites.
* `README.md:86` sends exhausted messages to the DLQ; with fewer delays than
  `maxRetries` the broker drops the retry and the worker acks
  (`src/Worker.cpp:134-139`). Hence `LadderCoversRetries` in `AtLeastOnce`.
* `NotificationRepository.hpp:23` returns the existing row for a known key; the
  loser of a race for a new key gets a 400 (`src/NotificationRepository.cpp:41-70`),
  and the row only when it asks again.
* `Database.hpp:38-39` offers a blocking pool; with `httpThreads >= dbPoolSize`
  the nested acquire (`src/NotificationRepository.cpp:41`) can block all
  handlers for ever. Hence `EnoughSessions` in `NoDeadlock`; the shipped
  configuration (4 and 8) satisfies it.
* `sql/schema.sql:43-46` has states of an outbox event that no code writes.
* On the first start a consumer may be refused, since nothing waits for the
  declarations (`src/RabbitMQPublisher.cpp:52-54`), and stays idle until a
  restart. Hence `found` in `RestartIsStaffed`.
* `App.tsx:102`: `openDetail` sets `sending` and leaves it set, which disables
  the submit button. `App.tsx:114-141`: a form opened over a run of an earlier
  one shows that run's success and is closed by its timer; two clicks before the
  first answer post twice, with keys of their own.

## 5. What is proved

All theorems hold for every value of the constants that meets the named
assumptions of the modules, so for any number of threads, keys, crashes, losses
and requests.

`CircuitBreakerProofs`: `TypeCorrect`, `HalfOpenBounded`, `HalfOpenIsTended`.
The bound of two calls is inductive only together with the
fact that `halfOpenCalls` is 0 outside HalfOpen.

`DeliveryProofs`:

* `TypeCorrect`. Besides ranges, `TypeOK` says what the code uses without a
  check: `BusyHolds` (a busy worker with a connection holds the delivery it
  will ack, which is why an ack never underflows) and `OwedHasRow`.
* `SuccessReal`. `AcceptedFirst` carries the provider's answer over the three
  statements of the success branch.
* `WireInvariant` is what the frames on a connection need: they come in pairs, a
  message and the ack of the delivery it replaces, and the last message is
  without its ack only while its handler is on the way to it (`InOrder`); a retry
  is for a rung that `maxRetries` allows; a handler about to mark a row
  DEAD_LETTERED on an intact connection has its message in the DLQ or on the
  wire; a lost connection holds nothing. So a message on the wire always has a
  delivery that the broker gets back when the connection is cut
  (`FrameIsOutstanding`), and no cut can take a message and leave its ack.
* `AtLeastOnce`: `LadderCoversRetries` implies `[]NoLoss`. `NoLoss` alone is
  not inductive. A worker about to ack holds a delivery that must not count, and
  neither must a delivery whose ack is unread: `Safe` counts the copies that are
  held by anything else (`Held`) and the messages on the wire, and is stronger
  than `InBroker` (`SafeIsInBroker`). A handler may begin to settle only for a
  reason that `Find` (the row is SENT and the success is real, or the row exists),
  `PublishRetry` (the retry is on the wire and has a rung), `MarkSent`
  (`AcceptedFirst`) and `MarkDead` (parked or on the wire) each supply. The lemmas
  `DeliverKeeps`, `RequeueKeeps`, `ExpireKeeps`, `ReadKeeps`, `FaultKeeps`,
  `AckKeeps` and `HandlerKeeps` say that every other step keeps a safe
  notification safe; in `FaultKeeps` a message cut from the wire is replaced by
  the delivery that comes back. `KeptOrSettled` says that a handler gives up a
  notification only when it found it finished or has marked it SENT.
  `LadderCoversRetries` is a condition on the configuration, which the shipped
  one meets.
* `UnsentFindable`, under the same condition and from the same invariant
  (`Accounted`), for the rows instead of the provider. A status leaves SENT only
  by the hand of a worker that holds a copy of its own (`MarkProcessing`) or has
  one in the DLQ or on the wire (`MarkDead`).
* `DeadLetteredFindable`, under the same condition. Without a crash the frame of
  a parked message is never cut and nothing consumes a DLQ (`ParkedOrOnItsWay`);
  after a crash `Accounted` has the delivery it answered back in the broker.
* `RoutingCorrect` and `LadderClimbed`. `CopiesOutside` and `CopiesOnMessage` say
  where copies come from: they move, or a POST adds a first attempt for its row,
  or a handler adds the next one of what it holds, while that is not exhausted.
  The first theorem adds that a row keeps its channel (`RowsStay`), the second
  that a handler records its attempt before it publishes the next
  (`HandlerRecords`) and that records stay.

`SubmissionProofs`: `TypeCorrect`, `OneNotification`, `StrandedNeedsFault`,
`DeliveryImplemented`. The invariant is `KeysUnique` (a key has one row, and no
row while a transaction inserts one) with `SavedRow` (what a handler was given is
a committed row of its key, and its message is written at most once).
`DeliveryImplemented` maps the handlers to the counters of `Delivery`; the lemmas
`OwesMore`, `OwesLess` and `SentMore` do the counting, for any number of requests
and threads, and `GivenUp` shows that whatever a broken connection, a garbled
frame or a crash takes is a `Forget` or a `Crash` there. A commit is a `Post`,
also one that throws after MySQL has done it; a handler that finds its key is a
`Post` for a row that exists; `ReadMessage` is the `Publish`. This is the
direction that justifies `Delivery`: everything the handlers may do is among what
it checks the workers against. `StrandedNeedsFault` rests on what a handler has
done when it answers (`AnsweredIsDone`) and on a connection that is up unless it
broke.

`NotificationServiceProofs`: `DeliveryImplemented`, `BreakerImplemented`,
`ServiceAtLeastOnce`, `ServiceHalfOpenBounded`. The invariant is `PcOK`, that
threads are at the labels there are, and the mappings are the two views of a
label. `Goes` and `Stays` say what a move of a thread is in each view. Of
`Delivery`'s actions, `Find` to `Ack` are themselves under the view
(`HandleDelivers`), `ProviderAccepts` is `SendSucceeds`, a `Throw` is `SendFails`,
and the rest of `send()` is invisible (`SendDelivers`); a crash and a lost
connection in mid-call map to the same fault (`SameBroker`). Of the breaker's,
`Ask` admits or refuses a thread that is idle, a `Return` or `Rethrow` is the
report of one that is calling, and `ThrowRefused` lets go one that is refused
(`SendAsks`). `ServiceAtLeastOnce` and `ServiceHalfOpenBounded` then state for the
service one theorem of `DeliveryProofs` and one of `CircuitBreakerProofs`, the
modules taken as instances under the two views; others follow in the same way.

`ConnectionPoolProofs`: `TypeCorrect`, `SessionsSafe`, `NoWakeupLost`,
`NoDeadlock`. `WakeupsCover` counts idle sessions against threads on their way
and is inductive with the ranges: a release adds a session and a notification,
an acquire removes a session and at most one woken thread. `NoDeadlock` is by
pigeonhole (`EverySessionHasAWaiter`): if all waited, each session would be held
by an HTTP thread of its own, but `EnoughSessions` has more sessions than those.

`LifecycleProofs`: `TypeCorrect`, `AllRoutable`, `LadderFirst`. The invariant
says that what a message on the wire or in a queue needs is declared or ahead of
it on the same channel: `Declarations` names every queue (`DeclaresAll`), a cut
takes no declaration from what stays (`CutKeeps`), and handlers run only after
`main()` has declared (`HandlersAfterDeclare`, `DeclarationsSent`).

`DashboardProofs`: `TypeCorrect`, `ConfirmationTrue`, `ConfirmationTimed`. A run
that awaits the list was accepted (`LoadingIsAccepted`), and without strays every
run under way belongs to the form on the screen (`OwnRuns`).

`QueriesProofs`: `SendsPaidFor`, `TerminalFinal`, `CountMatches`,
`DetailExplained`. What these have in common is that they count the copies of a
message.

* *Counting.* A bag is counted as the finite set of its `Tokens`, so that the
  library's facts on cardinality apply. A copy is *work* while it is in a main
  or retry queue, on the wire to a rung (`Delayed`), delivered and not begun
  (`waiting`), or in the hands of a handler at one of a set of labels. Deliveries
  on a broken connection, those whose ack is unread and parked copies are none.
  `Paid` is the number of publishes and redeliveries. `CoveredStep` says of every
  step that work grows by no more than what is paid: the broker moves copies, a
  handler that publishes a retry gives up its own, a cut takes retries and gives
  nothing, and an ack takes the delivery of the handler that leaves.
* *Three sets of labels.* `Unsent` (the provider may still be called), `Undecided`
  (the outcome is not in the row) and `Unfinished` (something is left to write).
  None is entered but by `Receive` (`LabelsForward`). An acceptance leaves the
  first, an outcome the second: `SendsBacked` and `OutcomesBacked` are inductive
  and give `SendsPaidFor` at once.
* *A single copy.* With one publish or redelivery an outcome leaves nobody
  `Undecided` (`NobodyAfter`), hence `TerminalFinal`; and a handler at work is
  alone, with nothing waiting behind it (`Alone`).
* `CountMatches`. On the success branch a handler records before it counts, on
  the failure branch it counts before it records, and the next attempt is read
  from the message. `Keeps` says for each label how far the three are apart,
  `InStep` that they agree when nobody is at work and that a copy that waits has
  the number of the next attempt. `Alone` is what makes it inductive: with two
  copies a record of one may fall between record and count of the other.
* `DetailExplained`. The outcome in the row of a single copy has its attempt in
  the history (`OutcomesExplained`), and neither changes between the reader's
  two statements (`OutcomeHolds`). `QueriesRefines` carries the invariants of
  `Delivery` over to the composition.

**Only model-checked:** all liveness (`KeepsTestingReported`, `EventuallySettled`,
`StatusComesToRest`, `AcquireReturns`, `RestartIsStaffed`, `StopEndsWorkers`,
`EventuallyFresh`), since fairness and ENABLED are out of the prover's reach. Every
safety property of a passing run is a theorem. Nothing here needs induction over
data or a recursive operator.

## 6. Not modelled, and what is left

What could still be added:

1. MySQL sessions that the server has closed, which the pool hands out again
   (`src/Database.cpp:23`); the pool model knows sessions, not their connections.
2. A restart with another number of retry delays. In `Lifecycle` the ladder is a
   constant; a changed TTL, which the broker refuses for a queue that exists, is a
   publisher's channel that closes (`LosePublisher`).
3. The branch of `onMessage` for a body that is not JSON (`src/Worker.cpp:81-85`),
   which nothing in the program publishes, and a client that connects and sends
   nothing (`src/HttpServer.cpp:119`, no timeout), which takes a thread for ever.
   The second is in the models only as a handler without fairness.

Not planned: configuration parsing, logging, identifiers, enumerations and plain
data, JSON and SQL row conversion, the texts of the dashboard, the build. They
keep no protocol state.
