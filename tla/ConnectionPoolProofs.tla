------------------------ MODULE ConnectionPoolProofs ------------------------
(***************************************************************************)
(* Proofs about ConnectionPool, for any sessions and threads.              *)
(***************************************************************************)
EXTENDS ConnectionPool, FiniteSetTheorems, TLAPS

-----------------------------------------------------------------------------
(* The types, and the handles a thread owns at each place in the code.     *)

LEMMA RangesInit == Init => RangesOK
  BY DEF Init, RangesOK

LEMMA RangesNext == RangesOK /\ [Next]_vars => RangesOK'
<1> SUFFICES ASSUME RangesOK, [Next]_vars PROVE RangesOK'
  OBVIOUS
<1>1. CASE UNCHANGED vars
  BY <1>1 DEF vars, RangesOK
<1>2. ASSUME NEW t \in Threads, BeginUnit(t) PROVE RangesOK'
  BY <1>2 DEF BeginUnit, Goto, RangesOK
<1>3. ASSUME NEW t \in Threads, WakeSpuriously(t) PROVE RangesOK'
  BY <1>3 DEF WakeSpuriously, Goto, RangesOK
<1>4. ASSUME NEW t \in Threads, Acquire(t) PROVE RangesOK'
  BY <1>4 DEF Acquire, Pop, Goto, RangesOK
<1>5. ASSUME NEW t \in Threads, AcquireSecond(t) PROVE RangesOK'
  BY <1>5 DEF AcquireSecond, Goto, RangesOK
<1>6. ASSUME NEW t \in Threads, Release(t) PROVE RangesOK'
  BY <1>6 DEF Release, Goto, RangesOK
<1>7. ASSUME NEW t \in Threads, Notify(t) PROVE RangesOK'
  BY <1>7 DEF Notify, Waiting, RangesOK
<1> QED
  BY <1>1, <1>2, <1>3, <1>4, <1>5, <1>6, <1>7 DEF Next, Advance

LEMMA HandlesNext == RangesOK /\ HandlesOK /\ [Next]_vars => HandlesOK'
<1> SUFFICES ASSUME RangesOK, HandlesOK, [Next]_vars PROVE HandlesOK'
  OBVIOUS
<1>1. CASE UNCHANGED vars
  BY <1>1 DEF vars, HandlesOK
<1>2. ASSUME NEW t \in Threads, BeginUnit(t) PROVE HandlesOK'
  BY <1>2 DEF BeginUnit, Goto, RangesOK, HandlesOK
<1>3. ASSUME NEW t \in Threads, WakeSpuriously(t) PROVE HandlesOK'
  BY <1>3 DEF WakeSpuriously, Goto, RangesOK, HandlesOK
<1>4. ASSUME NEW t \in Threads, Acquire(t) PROVE HandlesOK'
  BY <1>4 DEF Acquire, Pop, Goto, RangesOK, HandlesOK
<1>5. ASSUME NEW t \in Threads, AcquireSecond(t) PROVE HandlesOK'
  BY <1>5 DEF AcquireSecond, Goto, RangesOK, HandlesOK
<1>6. ASSUME NEW t \in Threads, Release(t) PROVE HandlesOK'
  BY <1>6 DEF Release, Goto, RangesOK, HandlesOK
<1>7. ASSUME NEW t \in Threads, Notify(t) PROVE HandlesOK'
  BY <1>7 DEF Notify, Waiting, RangesOK, HandlesOK
<1> QED
  BY <1>1, <1>2, <1>3, <1>4, <1>5, <1>6, <1>7 DEF Next, Advance

(* Every variable keeps its range, and only an HTTP thread holds a session *)
(* while it waits for one, and then exactly one.                           *)
THEOREM TypeCorrect == Spec => []TypeOK
<1>1. Init => HandlesOK
  BY DEF Init, HandlesOK
<1> QED
  BY <1>1, RangesInit, RangesNext, HandlesNext, PTL DEF Spec, TypeOK

-----------------------------------------------------------------------------
(* A session is never in two hands and never lost.                         *)
THEOREM SessionsSafe == Spec => []SessionsPartitioned
<1>1. Init => SessionsPartitioned
  BY DEF Init, SessionsPartitioned
<1>2. RangesOK /\ SessionsPartitioned /\ [Next]_vars => SessionsPartitioned'
  <2> SUFFICES ASSUME RangesOK, SessionsPartitioned, [Next]_vars
               PROVE  SessionsPartitioned'
    OBVIOUS
  <2>1. CASE UNCHANGED <<available, held>>
    BY <2>1 DEF SessionsPartitioned
  <2>2. ASSUME NEW t \in Threads, NEW s \in available, Pop(t, s)
        PROVE  SessionsPartitioned'
    BY <2>2 DEF Pop, RangesOK, SessionsPartitioned
  <2>3. ASSUME NEW t \in Threads, Release(t) PROVE SessionsPartitioned'
    BY <2>3 DEF Release, RangesOK, SessionsPartitioned
  <2> QED
    BY <2>1, <2>2, <2>3 DEF Next, Advance, BeginUnit, WakeSpuriously, Acquire,
       AcquireSecond, Notify, vars
<1> QED
  BY <1>1, <1>2, RangesInit, RangesNext, PTL DEF Spec

-----------------------------------------------------------------------------
(* No wake-up is lost.                                                     *)

LEMMA Finite ==
  ASSUME NEW S, S \in SUBSET Sessions \/ S \in SUBSET Threads
  PROVE  IsFiniteSet(S) /\ Cardinality(S) \in Nat
<1>1. IsFiniteSet(Threads)
  BY PoolAssumption, FS_Union DEF PoolAssumption, Threads
<1> QED
  BY <1>1, PoolAssumption, FS_Subset, FS_CardinalityType DEF PoolAssumption

LEMMA AddedAtMostOne ==
  ASSUME NEW S, NEW x, IsFiniteSet(S), Cardinality(S) \in Nat
  PROVE  /\ Cardinality(S \cup {x}) >= Cardinality(S)
         /\ Cardinality(S \cup {x}) <= Cardinality(S) + 1
<1>1. CASE x \in S
  BY <1>1, FS_AddElement
<1>2. CASE x \notin S
  BY <1>2, FS_AddElement
<1> QED
  BY <1>1, <1>2

LEMMA RemovedAtMostOne ==
  ASSUME NEW S, NEW x, IsFiniteSet(S), Cardinality(S) \in Nat
  PROVE  Cardinality(S \ {x}) >= Cardinality(S) - 1
<1>1. CASE x \in S
  BY <1>1, FS_RemoveElement
<1>2. CASE x \notin S
  BY <1>2, FS_RemoveElement
<1> QED
  BY <1>1, <1>2

(* While somebody waits, every idle session has a thread or a notification *)
(* on its way to it.                                                       *)
THEOREM NoWakeupLost == Spec => []WakeupsCover
<1>1. Init => WakeupsCover
  BY DEF Init, WakeupsCover, Waiting
<1>2. RangesOK /\ WakeupsCover /\ [Next]_vars => WakeupsCover'
  <2> SUFFICES ASSUME RangesOK, WakeupsCover, [Next]_vars PROVE WakeupsCover'
    OBVIOUS
  <2>0. RangesOK'
    BY RangesNext
  <2> DEFINE A == Cardinality(available)
             N == Cardinality(Signalled)
  <2>a. /\ IsFiniteSet(available) /\ IsFiniteSet(Signalled)
        /\ A \in Nat /\ N \in Nat /\ A' \in Nat /\ N' \in Nat
    <3>1. available \in SUBSET Sessions /\ available' \in SUBSET Sessions
      BY <2>0 DEF RangesOK
    <3>2. Signalled \in SUBSET Threads /\ Signalled' \in SUBSET Threads
      BY DEF Signalled
    <3> QED
      BY <3>1, <3>2, Finite
  <2>1. CASE UNCHANGED <<available, pc>>
    BY <2>1 DEF WakeupsCover, Waiting, Signalled
  <2>2. ASSUME NEW t \in Threads, BeginUnit(t) \/ AcquireSecond(t) PROVE WakeupsCover'
    <3>1. Waiting' = Waiting /\ Signalled' = Signalled /\ UNCHANGED available
      BY <2>2 DEF BeginUnit, AcquireSecond, Goto, Waiting, Signalled, RangesOK
    <3> QED
      BY <3>1 DEF WakeupsCover
  <2>3. ASSUME NEW t \in Threads, WakeSpuriously(t) PROVE WakeupsCover'
    <3>1. Signalled' = Signalled \cup {t} /\ UNCHANGED available /\ Waiting # {}
      BY <2>3 DEF WakeSpuriously, Goto, Waiting, Signalled, RangesOK
    <3>2. N' >= N
      BY <2>a, <3>1, AddedAtMostOne
    <3> QED
      BY <2>a, <3>1, <3>2 DEF WakeupsCover
  <2>4. ASSUME NEW t \in Threads, Acquire(t), available = {} PROVE WakeupsCover'
    <3>1. A' = 0
      BY <2>4, FS_EmptySet DEF Acquire
    <3> QED
      BY <2>a, <3>1 DEF WakeupsCover
  <2>5. ASSUME NEW t \in Threads, Acquire(t), available # {} PROVE WakeupsCover'
    <3>1. PICK s \in available : available' = available \ {s}
      BY <2>5 DEF Acquire, Pop
    <3>2. A' = A - 1
      BY <2>a, <3>1, FS_RemoveElement
    <3>3. Waiting' = Waiting /\ Signalled' = Signalled \ {t}
      BY <2>5 DEF Acquire, Goto, Waiting, Signalled, RangesOK
    <3>4. N' >= N - 1
      BY <2>a, <3>3, RemovedAtMostOne
    <3> QED
      BY <2>a, <3>2, <3>3, <3>4 DEF WakeupsCover
  <2>6. ASSUME NEW t \in Threads, Release(t) PROVE WakeupsCover'
    <3>1. PICK s \in held[t] : available' = available \cup {s}
      BY <2>6 DEF Release
    <3>2. A' <= A + 1
      BY <2>a, <3>1, AddedAtMostOne
    <3>3. Waiting' = Waiting /\ Signalled' = Signalled \cup {t} /\ t \notin Signalled
      BY <2>6 DEF Release, Goto, Waiting, Signalled, RangesOK
    <3>4. N' = N + 1
      BY <2>a, <3>3, FS_AddElement
    <3> QED
      BY <2>a, <3>2, <3>3, <3>4 DEF WakeupsCover
  <2>7. ASSUME NEW t \in Threads, Notify(t) PROVE WakeupsCover'
    <3>1. CASE Waiting = {}
      <4>1. Waiting' = {}
        BY <2>7, <3>1 DEF Notify, Waiting, RangesOK
      <4> QED
        BY <4>1 DEF WakeupsCover
    <3>2. CASE Waiting # {}
      <4>1. PICK u \in Waiting :
              pc' = [[pc EXCEPT ![t] = IF held[t] = {} THEN "idle" ELSE "use"]
                       EXCEPT ![u] = "woken"]
        BY <2>7, <3>2 DEF Notify
      <4>2. u \in Threads /\ u # t /\ pc[u] = "waiting" /\ pc[t] = "notify"
        BY <2>7 DEF Waiting, Notify
      <4>3. Signalled' = (Signalled \ {t}) \cup {u} /\ t \in Signalled /\ u \notin Signalled
        BY <4>1, <4>2 DEF Signalled, RangesOK
      <4>4. N' = N
        <5>1. IsFiniteSet(Signalled \ {t}) /\ Cardinality(Signalled \ {t}) = N - 1
          BY <2>a, <4>3, FS_RemoveElement
        <5>2. u \notin Signalled \ {t}
          BY <4>3
        <5>3. Cardinality((Signalled \ {t}) \cup {u}) = N - 1 + 1
          BY <5>1, <5>2, FS_AddElement
        <5> QED
          BY <2>a, <4>3, <5>3
      <4> QED
        BY <2>7, <3>2, <4>4 DEF WakeupsCover, Notify
    <3> QED
      BY <3>1, <3>2
  <2> QED
    BY <2>1, <2>2, <2>3, <2>4, <2>5, <2>6, <2>7 DEF Next, Advance, vars
<1> QED
  BY <1>1, <1>2, RangesInit, RangesNext, PTL DEF Spec

-----------------------------------------------------------------------------
(* No deadlock.  If every thread is idle or waits, no session is idle,     *)
(* since no wake-up was lost; so each is held by an HTTP thread that holds *)
(* no other, and there are not more sessions than HTTP threads.            *)

LEMMA EverySessionHasAWaiter ==
  ASSUME TypeOK, SessionsPartitioned, available = {},
         \A t \in Threads : pc[t] \in {"idle", "waiting"},
         NEW s \in Sessions
  PROVE  \E t \in HttpThreads : held[t] = {s}
<1>1. PICK t \in Threads : s \in held[t]
  BY DEF SessionsPartitioned
<1> QED
  BY <1>1 DEF TypeOK, HandlesOK

(* With more sessions than HTTP threads the nested acquire cannot make     *)
(* everybody wait for everybody.                                           *)
THEOREM NoDeadlock ==
  ASSUME EnoughSessions
  PROVE  Spec => []NotAllWait
<1>1. TypeOK /\ SessionsPartitioned /\ WakeupsCover => NotAllWait
  <2> SUFFICES ASSUME TypeOK, SessionsPartitioned, WakeupsCover, Waiting # {},
                      \A t \in Threads : pc[t] \notin {"acquire", "woken", "use", "notify"}
               PROVE  FALSE
    BY DEF NotAllWait
  <2>1. \A t \in Threads : pc[t] \in {"idle", "waiting"}
    BY DEF TypeOK, RangesOK
  <2>2. available = {}
    <3>1. Cardinality(Signalled) = 0
      BY FS_EmptySet DEF Signalled
    <3>2. IsFiniteSet(available) /\ Cardinality(available) \in Nat
      BY Finite DEF TypeOK, RangesOK
    <3> QED
      BY <3>1, <3>2, FS_EmptySet DEF WakeupsCover
  <2> DEFINE holder == [s \in Sessions |-> CHOOSE t \in HttpThreads : held[t] = {s}]
  <2>3. \A s \in Sessions : holder[s] \in HttpThreads /\ held[holder[s]] = {s}
    BY <2>1, <2>2, EverySessionHasAWaiter
  <2>4. holder \in [Sessions -> HttpThreads]
    BY <2>3
  <2>5. Cardinality(HttpThreads) < Cardinality(Sessions)
    BY PoolAssumption, FS_CardinalityType DEF EnoughSessions, PoolAssumption
  <2> HIDE DEF holder
  <2>6. \E r, s \in Sessions : r # s /\ holder[r] = holder[s]
    BY <2>4, <2>5, PoolAssumption, FS_PigeonHole DEF PoolAssumption
  <2> QED
    BY <2>3, <2>6
<1> QED
  BY <1>1, TypeCorrect, SessionsSafe, NoWakeupLost, PTL
=============================================================================
