--------------------------- MODULE ConnectionPool ---------------------------
(***************************************************************************)
(* The pool of MySQL sessions (Database.cpp) and the units of work that    *)
(* the HTTP threads and the worker threads do with it.                     *)
(*                                                                         *)
(* mu_ is held inside acquire() up to the wait and inside release() around *)
(* the push: each of these is one step.  notify_one() comes after the      *)
(* unlock and is a step of its own.  A session goes back when its handle   *)
(* leaves scope, whether the query returned or threw.                      *)
(***************************************************************************)
EXTENDS FiniteSets, Integers

CONSTANTS
  Sessions,       \* what the constructor put into the pool
  HttpThreads,    \* threads that run HttpServer::acceptLoop
  WorkerThreads   \* threads that run WorkerThread::run

Threads == HttpThreads \cup WorkerThreads

ASSUME PoolAssumption ==
  /\ IsFiniteSet(Sessions) /\ IsFiniteSet(HttpThreads) /\ IsFiniteSet(WorkerThreads)
  /\ HttpThreads \cap WorkerThreads = {}

VARIABLES
  available,  \* available_: its order plays no part
  held,       \* the sessions whose handles a thread owns
  pc,         \* where a thread is in acquire(), its query or release()
  nests       \* the unit of work has still to acquire a second session

vars == <<available, held, pc, nests>>

Init ==
  /\ available = Sessions
  /\ held = [t \in Threads |-> {}]
  /\ pc = [t \in Threads |-> "idle"]
  /\ nests = [t \in Threads |-> FALSE]

Goto(t, l) == pc' = [pc EXCEPT ![t] = l]

-----------------------------------------------------------------------------
(* Every method of the repositories acquires one session; insertWithOutbox *)
(* keeps it while findByIdempotencyKey acquires another.                   *)

BeginNestedAnywhere(t) ==
  /\ pc[t] = "idle"
  /\ Goto(t, "acquire")
  /\ nests' = [nests EXCEPT ![t] = TRUE]
  /\ UNCHANGED <<available, held>>

BeginUnit(t) ==
  /\ pc[t] = "idle"
  /\ Goto(t, "acquire")
  /\ \/ UNCHANGED nests
     \/ t \in HttpThreads /\ nests' = [nests EXCEPT ![t] = TRUE]
  /\ UNCHANGED <<available, held>>

TakeFrontOnly(t, s) ==
  /\ held' = [held EXCEPT ![t] = @ \cup {s}]
  /\ UNCHANGED available

Pop(t, s) ==
  /\ held' = [held EXCEPT ![t] = @ \cup {s}]
  /\ available' = available \ {s}

\* cv_.wait() with its predicate, on entry and after every wake-up.
Acquire(t) ==
  /\ pc[t] \in {"acquire", "woken"}
  /\ IF available = {}
     THEN Goto(t, "waiting") /\ UNCHANGED <<available, held>>
     ELSE Goto(t, "use") /\ \E s \in available : Pop(t, s)
  /\ UNCHANGED nests

\* A condition variable may wake a thread that nobody notified.
WakeSpuriously(t) ==
  /\ pc[t] = "waiting"
  /\ Goto(t, "woken")
  /\ UNCHANGED <<available, held, nests>>

AcquireSecond(t) ==
  /\ pc[t] = "use" /\ nests[t]
  /\ Goto(t, "acquire")
  /\ nests' = [nests EXCEPT ![t] = FALSE]
  /\ UNCHANGED <<available, held>>

ReleaseNotifyingIfEmpty(t) ==
  /\ pc[t] = "use" /\ ~nests[t]
  /\ \E s \in held[t] :
       /\ held' = [held EXCEPT ![t] = @ \ {s}]
       /\ available' = available \cup {s}
       /\ Goto(t, IF available = {} THEN "notify" ELSE IF held[t] = {s} THEN "idle" ELSE "use")
  /\ UNCHANGED nests

\* The handle of the last query leaves scope.
Release(t) ==
  /\ pc[t] = "use" /\ ~nests[t]
  /\ \E s \in held[t] :
       /\ held' = [held EXCEPT ![t] = @ \ {s}]
       /\ available' = available \cup {s}
  /\ Goto(t, "notify")
  /\ UNCHANGED nests

Waiting == {t \in Threads : pc[t] = "waiting"}

NotifyAndFinish(t) ==
  /\ pc[t] = "notify"
  /\ LET next == [pc EXCEPT ![t] = "idle"]
     IN  IF Waiting = {}
         THEN pc' = next
         ELSE \E u \in Waiting : pc' = [next EXCEPT ![u] = "woken"]
  /\ UNCHANGED <<available, held, nests>>

\* notify_one(), after which the thread is in the outer call or done.
Notify(t) ==
  /\ pc[t] = "notify"
  /\ LET next == [pc EXCEPT ![t] = IF held[t] = {} THEN "idle" ELSE "use"]
     IN  IF Waiting = {}
         THEN pc' = next
         ELSE \E u \in Waiting : pc' = [next EXCEPT ![u] = "woken"]
  /\ UNCHANGED <<available, held, nests>>

Advance(t) == Acquire(t) \/ AcquireSecond(t) \/ Release(t) \/ Notify(t)

Next == \E t \in Threads : BeginUnit(t) \/ WakeSpuriously(t) \/ Advance(t)

Spec == Init /\ [][Next]_vars

(* A thread that can take its next step does: it gets mu_, its query ends. *)
(* Requests and spurious wake-ups are not owed to anybody.                 *)
FairSpec == Spec /\ \A t \in Threads : WF_vars(Advance(t))

-----------------------------------------------------------------------------
(* Properties.                                                             *)

RangesOK ==
  /\ available \subseteq Sessions
  /\ held \in [Threads -> SUBSET Sessions]
  /\ pc \in [Threads -> {"idle", "acquire", "waiting", "woken", "use", "notify"}]
  /\ nests \in [Threads -> BOOLEAN]

\* A thread that wants a session has none, or is an HTTP thread in the nested
\* call with exactly the one of the outer call.
HandlesOK ==
  \A t \in Threads :
    LET hasOne == \E s \in Sessions : held[t] = {s}
    IN  /\ nests[t] => t \in HttpThreads /\ pc[t] \in {"acquire", "waiting", "woken", "use"}
        /\ pc[t] = "idle" => held[t] = {}
        /\ pc[t] \in {"acquire", "waiting", "woken"} =>
             held[t] = {} \/ (t \in HttpThreads /\ ~nests[t] /\ hasOne)
        /\ pc[t] = "use" => held[t] # {} /\ (nests[t] => hasOne)

\* The range of every variable, and which handles a thread owns at each place
\* in the code.
TypeOK == RangesOK /\ HandlesOK

\* "mysqlx::Session is not thread-safe": every session is in the pool or in
\* the hands of exactly one thread, and none gets lost.
SessionsPartitioned ==
  /\ Sessions = available \cup UNION {held[t] : t \in Threads}
  /\ \A t \in Threads : held[t] \cap available = {}
  /\ \A t, u \in Threads : t # u => held[t] \cap held[u] = {}

Signalled == {t \in Threads : pc[t] \in {"woken", "notify"}}

\* No wake-up is lost, although threads that were not asleep get in first and
\* notify_one() is called outside the lock: while somebody waits, every idle
\* session has a thread on its way to it or a notification still to come.
WakeupsCover == Waiting # {} => Cardinality(available) <= Cardinality(Signalled)

\* Not everybody waits: if a thread waits for a session, another one is in a
\* step that needs none.
NotAllWait ==
  Waiting # {} => \E t \in Threads : pc[t] \in {"acquire", "woken", "use", "notify"}

\* There are more sessions than threads that hold one while they wait.
EnoughSessions == Cardinality(Sessions) > Cardinality(HttpThreads)

BeginsUnit == \E t \in Threads : BeginUnit(t)

\* Once traffic ceases everybody who waits for a session gets one.
AcquireReturns ==
  \A t \in Threads :
    []<><<BeginsUnit>>_vars \/ (pc[t] = "waiting" ~> pc[t] = "use")
=============================================================================
