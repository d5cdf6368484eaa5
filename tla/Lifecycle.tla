----------------------------- MODULE Lifecycle -----------------------------
(***************************************************************************)
(* The start and the end of the process (main.cpp): declaring the queues   *)
(* over the publisher's channel, consumers that start without waiting for  *)
(* the broker, the accept loops, and the stop of both kinds of threads.    *)
(*                                                                         *)
(* Nothing waits for an answer of the broker but for a fixed time, which   *)
(* says nothing of what the broker has done: the waits are left out.  One  *)
(* channel is read in order; that is all that orders the declarations      *)
(* before the messages of the API.                                         *)
(***************************************************************************)
EXTENDS FiniteSets, Integers, Sequences

CONSTANTS
  HttpThreads,    \* the most that config.httpThreads may ask for
  Workers,        \* the threads of the WorkerPool
  WorkerChannel,  \* the channel of each
  RetryRungs,     \* config.retryDelaysMs.size()
  MaxBoots,       \* bound: starts of the process
  MaxPosts        \* bound: messages published by handlers

Channels == {"email", "sms", "push"}

ASSUME LifecycleAssumption ==
  /\ IsFiniteSet(Workers) /\ WorkerChannel \in [Workers -> Channels]
  /\ RetryRungs \in Nat /\ MaxBoots \in Nat /\ MaxPosts \in Nat

\* <<c, 0>> is the main queue of c, <<c, k>> its retry queue k, the last its DLQ.
QueueNames == Channels \X (0 .. RetryRungs + 1)
MainQueue(c) == <<c, 0>>
MainQueues == Channels \X {0}

Declare(q) == [op |-> "declare", queue |-> q]
Publish(c) == [op |-> "publish", queue |-> MainQueue(c)]
Frames == {Declare(q) : q \in QueueNames} \cup {Publish(c) : c \in Channels}

VARIABLES
  main,       \* where main() is; "down" without a process
  serving,    \* the http threads that this configuration asks for
  shutdown,   \* g_shutdown
  publisher,  \* the channel of the RabbitMQPublisher: "open" or "broken"
  wire,       \* its frames that the broker has not read yet
  declared,   \* durable queues the broker has
  found,      \* it had all main queues when the process started
  inQueue,    \* number of messages in each queue
  dropped,    \* messages the broker had no queue for
  acceptor,   \* acceptor_ is open
  http,       \* where each http thread is in acceptLoop()
  worker,     \* the state of each consumer
  stopping,   \* workers whose io_context was stopped
  boots, posts

vars == <<main, serving, shutdown, publisher, wire, declared, found, inQueue,
          dropped, acceptor, http, worker, stopping, boots, posts>>

process == <<serving, found, boots>>
broker == <<declared, inQueue, dropped>>
threads == <<http, worker, stopping>>

Init ==
  /\ main = "down" /\ serving = {} /\ shutdown = FALSE
  /\ publisher = "broken" /\ wire = <<>>
  /\ declared = {} /\ found = FALSE
  /\ inQueue = [q \in QueueNames |-> 0] /\ dropped = 0
  /\ acceptor = FALSE
  /\ http = [t \in HttpThreads |-> "none"]
  /\ worker = [w \in Workers |-> "none"]
  /\ stopping = {} /\ boots = 0 /\ posts = 0

-----------------------------------------------------------------------------
(* main() up to "service ready".  httpThreads comes from a file and is not *)
(* checked; 0 gives a process without an API.                              *)

Boot ==
  /\ main = "down" /\ boots < MaxBoots
  /\ main' = "constructed" /\ boots' = boots + 1
  /\ serving' \in SUBSET HttpThreads
  /\ found' = (MainQueues \subseteq declared)
  /\ publisher' = "open"
  /\ UNCHANGED <<shutdown, wire, broker, acceptor, threads, posts>>

\* declareAll() for one channel and for all of them.
FamilyWithoutDlq(c) ==
  <<Declare(MainQueue(c))>> \o [k \in 1 .. RetryRungs |-> Declare(<<c, k>>)]

Family(c) ==
  <<Declare(MainQueue(c))>> \o [k \in 1 .. RetryRungs + 1 |-> Declare(<<c, k>>)]
Declarations == Family("email") \o Family("sms") \o Family("push")

\* A broken channel takes frames and sends nothing.
Send(s) == wire' = IF publisher = "open" THEN wire \o s ELSE wire

DeclareTopologyOnce ==
  /\ main = "constructed" /\ main' = "declared"
  /\ Send(IF declared = {} THEN Declarations ELSE <<>>)
  /\ UNCHANGED <<process, shutdown, publisher, broker, acceptor, threads, posts>>

DeclareTopology ==
  /\ main = "constructed" /\ main' = "declared"
  /\ Send(Declarations)
  /\ UNCHANGED <<process, shutdown, publisher, broker, acceptor, threads, posts>>

StartWorkersOfFirst ==
  /\ main = "declared" /\ main' = "staffed"
  /\ worker' = [w \in Workers |-> IF WorkerChannel[w] = "email" THEN "asking" ELSE "none"]
  /\ UNCHANGED <<process, shutdown, publisher, wire, broker, acceptor, http, stopping, posts>>

StartWorkers ==
  /\ main = "declared" /\ main' = "staffed"
  /\ worker' = [w \in Workers |-> "asking"]
  /\ UNCHANGED <<process, shutdown, publisher, wire, broker, acceptor, http, stopping, posts>>

StartHttp ==
  /\ main = "staffed" /\ main' = "ready"
  /\ acceptor' = TRUE
  /\ http' = [t \in HttpThreads |-> IF t \in serving THEN "loop" ELSE "none"]
  /\ UNCHANGED <<process, shutdown, publisher, wire, broker, worker, stopping, posts>>

-----------------------------------------------------------------------------
(* The broker.                                                             *)

\* A message for a queue, or for an exchange without that queue, is dropped.
Route(q, queues) ==
  IF q \in declared
  THEN inQueue' = [queues EXCEPT ![q] = @ + 1] /\ UNCHANGED dropped
  ELSE inQueue' = queues /\ dropped' = dropped + 1

ReadFrame ==
  /\ wire # <<>> /\ wire' = Tail(wire)
  /\ LET f == Head(wire)
     IN IF f.op = "declare"
        THEN declared' = declared \cup {f.queue} /\ UNCHANGED <<inQueue, dropped>>
        ELSE Route(f.queue, inQueue) /\ UNCHANGED declared
  /\ UNCHANGED <<main, process, shutdown, publisher, acceptor, threads, posts>>

Take(q) == [inQueue EXCEPT ![q] = @ - 1]

\* A rung hands its messages back to the exchange when their time is over.
Expire(c, k) ==
  /\ inQueue[<<c, k>>] > 0
  /\ Route(MainQueue(c), Take(<<c, k>>))
  /\ UNCHANGED <<main, process, shutdown, publisher, wire, declared, acceptor, threads, posts>>

\* What is left of the frames when their connection ends.
Cut == \E k \in 0 .. Len(wire) : wire' = SubSeq(wire, 1, k)

LosePublisher ==
  /\ main # "down" /\ publisher = "open"
  /\ publisher' = "broken" /\ Cut
  /\ UNCHANGED <<main, process, shutdown, broker, acceptor, threads, posts>>

-----------------------------------------------------------------------------
(* WorkerThread::run().                                                    *)

Own(w) == MainQueue(WorkerChannel[w])

SetWorker(w, s) ==
  /\ worker' = [worker EXCEPT ![w] = s]
  /\ UNCHANGED <<main, process, shutdown, publisher, wire, declared, acceptor, http, posts>>

\* A refused consumer has no channel any more; its thread stays in run().
AnswerConsume(w) ==
  /\ worker[w] = "asking"
  /\ SetWorker(w, IF Own(w) \in declared THEN "idle" ELSE "refused")
  /\ UNCHANGED <<inQueue, dropped, stopping>>

\* onMessage() runs to its end in the io_context's thread; deliveries that
\* came with one read count as one.
Deliver(w) ==
  /\ worker[w] = "idle" /\ w \notin stopping
  /\ inQueue[Own(w)] > 0
  /\ inQueue' = Take(Own(w))
  /\ SetWorker(w, "busy")
  /\ UNCHANGED <<dropped, stopping>>

\* The message is done with, or goes to a rung or to the DLQ.
Settle(w) ==
  /\ worker[w] = "busy"
  /\ SetWorker(w, "idle")
  /\ \/ UNCHANGED <<inQueue, dropped>>
     \/ \E k \in 1 .. RetryRungs + 1 : Route(<<WorkerChannel[w], k>>, inQueue)
  /\ UNCHANGED stopping

EndWorkerOnceConsuming(w) ==
  /\ w \in stopping /\ worker[w] = "idle"
  /\ SetWorker(w, "ended")
  /\ UNCHANGED <<inQueue, dropped, stopping>>

EndWorker(w) ==
  /\ w \in stopping /\ worker[w] \in {"asking", "idle", "refused"}
  /\ SetWorker(w, "ended")
  /\ UNCHANGED <<inQueue, dropped, stopping>>

-----------------------------------------------------------------------------
(* HttpServer::acceptLoop().                                               *)

SetHttp(t, s) ==
  /\ http' = [http EXCEPT ![t] = s]
  /\ UNCHANGED <<main, process, shutdown, publisher, broker, acceptor, worker, stopping>>

\* On a closed acceptor accept() fails at once, on an open one it blocks.
EnterAccept(t) ==
  /\ http[t] = "loop"
  /\ SetHttp(t, IF acceptor THEN "blocked" ELSE "bad_descriptor")
  /\ UNCHANGED <<wire, posts>>

\* close() wakes nobody: a thread already blocked still gets a connection.
Accept(t) ==
  /\ http[t] = "blocked"
  /\ SetHttp(t, "handling")
  /\ UNCHANGED <<wire, posts>>

AcceptFails(t) ==
  /\ http[t] = "blocked"
  /\ SetHttp(t, "too_many_files")
  /\ UNCHANGED <<wire, posts>>

\* Only operation_aborted leaves the loop.
GoRound(t) ==
  /\ http[t] \in {"bad_descriptor", "too_many_files"}
  /\ SetHttp(t, IF http[t] = "operation_aborted" THEN "ended" ELSE "loop")
  /\ UNCHANGED <<wire, posts>>

HandlePost(t, c) ==
  /\ http[t] = "handling" /\ posts < MaxPosts
  /\ posts' = posts + 1
  /\ Send(<<Publish(c)>>)
  /\ SetHttp(t, "loop")

HandleOther(t) ==
  /\ http[t] = "handling"
  /\ SetHttp(t, "loop")
  /\ UNCHANGED <<wire, posts>>

-----------------------------------------------------------------------------
(* The end of the process.                                                 *)

Signal ==
  /\ main # "down" /\ ~shutdown
  /\ shutdown' = TRUE
  /\ UNCHANGED <<main, process, publisher, wire, broker, acceptor, threads, posts>>

StopHttpKeepsAcceptor ==
  /\ main = "ready" /\ shutdown
  /\ main' = "joinHttp"
  /\ UNCHANGED <<process, shutdown, publisher, wire, broker, acceptor, threads, posts>>

\* The loop of main() sees the flag: httpServer.stop().
StopHttp ==
  /\ main = "ready" /\ shutdown
  /\ main' = "joinHttp" /\ acceptor' = FALSE
  /\ UNCHANGED <<process, shutdown, publisher, wire, broker, threads, posts>>

JoinHttp ==
  /\ main = "joinHttp" /\ \A t \in serving : http[t] = "ended"
  /\ main' = "joinWorkers"
  /\ UNCHANGED <<process, shutdown, publisher, wire, broker, acceptor, threads, posts>>

\* WorkerPool::stop() stops and joins them one after the other.
StopWorker(w) ==
  /\ main = "joinWorkers"
  /\ w \notin stopping /\ \A v \in stopping : worker[v] = "ended"
  /\ stopping' = stopping \cup {w}
  /\ UNCHANGED <<main, process, shutdown, publisher, wire, broker, acceptor, http, worker, posts>>

\* What goes with the process.  The broker requeues what was unacknowledged.
Gone ==
  /\ main' = "down" /\ shutdown' = FALSE
  /\ publisher' = "broken" /\ acceptor' = FALSE
  /\ http' = [t \in HttpThreads |-> "none"]
  /\ worker' = [w \in Workers |-> "none"]
  /\ stopping' = {}
  /\ inQueue' = [q \in QueueNames |->
       inQueue[q] + Cardinality({w \in Workers : worker[w] = "busy" /\ Own(w) = q})]
  /\ Cut
  /\ UNCHANGED <<process, declared, dropped, posts>>

Exit ==
  /\ main = "joinWorkers" /\ \A w \in Workers : worker[w] = "ended"
  /\ Gone

\* Any state but those of the last process that is started: nothing comes after
\* them.
Crash == main # "down" /\ boots < MaxBoots /\ Gone

-----------------------------------------------------------------------------
MainStep ==
  \/ DeclareTopology \/ StartWorkers \/ StartHttp
  \/ StopHttp \/ JoinHttp \/ Exit
  \/ \E w \in Workers : StopWorker(w)

WorkerStep(w) == AnswerConsume(w) \/ Deliver(w) \/ Settle(w) \/ EndWorker(w)

HttpStep(t) ==
  EnterAccept(t) \/ GoRound(t) \/ HandleOther(t) \/ \E c \in Channels : HandlePost(t, c)

Next ==
  \/ Boot \/ MainStep
  \/ ReadFrame
  \/ \E c \in Channels, k \in 1 .. RetryRungs : Expire(c, k)
  \/ LosePublisher
  \/ \E w \in Workers : WorkerStep(w)
  \/ \E t \in HttpThreads : HttpStep(t) \/ Accept(t) \/ AcceptFails(t)
  \/ Signal \/ Crash

Spec == Init /\ [][Next]_vars

\* Threads that can run do so, and the broker answers a consume; nothing is
\* owed by operators or faults.
FairSpec ==
  /\ Spec
  /\ WF_vars(MainStep)
  /\ \A w \in Workers : WF_vars(WorkerStep(w))

\* That the broker reads and a handler ends besides, with a client that sends
\* its request, is there for StopEndsAcceptors, which fails even so.
FairApiSpec ==
  FairSpec /\ WF_vars(ReadFrame) /\ \A t \in HttpThreads : WF_vars(HttpStep(t))

-----------------------------------------------------------------------------
(* Properties.                                                             *)

\* Types, and that only a ready process has an open acceptor.
TypeOK ==
  /\ main \in {"down", "constructed", "declared", "staffed", "ready", "joinHttp", "joinWorkers"}
  /\ serving \subseteq HttpThreads /\ shutdown \in BOOLEAN
  /\ publisher \in {"open", "broken"}
  /\ wire \in Seq(Frames)
  /\ declared \subseteq QueueNames /\ found \in BOOLEAN
  /\ inQueue \in [QueueNames -> Nat] /\ dropped \in Nat
  /\ acceptor \in BOOLEAN /\ (acceptor <=> main = "ready")
  /\ http \in [HttpThreads -> {"none", "loop", "blocked", "handling",
                               "bad_descriptor", "too_many_files", "ended"}]
  /\ worker \in [Workers -> {"none", "asking", "idle", "busy", "refused", "ended"}]
  /\ stopping \subseteq Workers
  /\ boots \in 0 .. MaxBoots /\ posts \in 0 .. MaxPosts

\* No message that reached the broker is dropped for want of a queue, though
\* declareTopologyBlocking() waits for no answer and a process may die half-way
\* through the declarations (RabbitMQPublisher.cpp:50-56).
NothingUnroutable == dropped = 0

\* As long as a message is in a queue or a worker has one, all the rungs and
\* DLQs are there, which onMessage() publishes to without a check.
LadderBeforeMessages ==
  \/ declared = QueueNames
  \/ /\ \A q \in QueueNames : inQueue[q] = 0
     /\ \A w \in Workers : worker[w] # "busy"

\* After the first start of the broker's queues, each process gets all its
\* consumers (Worker.cpp:56-63): the race of consume and declare is over.
RestartIsStaffed ==
  (main = "ready" /\ found)
    ~> (main # "ready" \/ \A w \in Workers : worker[w] \in {"idle", "busy"})

\* A signal ends a process without http threads, whatever its workers are doing:
\* they are stopped and joined one after the other, and those whose turn has not
\* come go on consuming (main.cpp:47-53, Worker.cpp:34-39, 178-180).  With an
\* http thread main() does not get that far, see StopEndsAcceptors.
StopEndsWorkers == (shutdown /\ serving = {}) ~> main = "down"

\* httpServer.stop() returns, as the comment "acceptor closed during shutdown"
\* at the only way out of the accept loop has it (HttpServer.cpp:106).
StopEndsAcceptors == main = "joinHttp" ~> main # "joinHttp"
=============================================================================
