---------------------------- MODULE QueriesProofs ----------------------------
(***************************************************************************)
(* What is proved by counting the copies of a message, and what a client   *)
(* of GET is told of a notification that has only one.                     *)
(*                                                                         *)
(* A copy is work to do as long as it waits in a main or retry queue or is *)
(* on its way to a rung, was delivered and not begun, or is in the hands   *)
(* of a handler that has not done with it what is counted.  Only a publish *)
(* of the API and a redelivery by the broker add to the work; every other  *)
(* step moves it or uses it up.                                            *)
(***************************************************************************)
EXTENDS Queries, DeliveryProofs

\* A set with f[x] elements for each x of S, so that a bag is counted by
\* Cardinality.
Tokens(f, S) == UNION {{x} \X (1 .. f[x]) : x \in S}

Of(n) == {m \in Messages : m.n = n}

\* The deliveries of a message to a worker that no handler has begun.
waiting ==
  [x \in Workers \X Messages |->
     unacked[x[1]][x[2]] - (IF pc[x[1]] # "idle" /\ cur[x[1]] = x[2] THEN 1 ELSE 0)]

AtWork(n, L) == {w \in Workers : pc[w] \in L /\ cur[w].n = n}

Queued(n) == Tokens(main, Of(n))

\* The retries in the ladder, and those the broker has not read.
IsRetry(f, n) == f.kind = "retry" /\ f.m.n = n
Sent(n) == UNION {{w} \X {i \in DOMAIN wire[w] : IsRetry(wire[w][i], n)} : w \in Workers}
Delayed(n) == ({"rung"} \X Tokens(retry, Of(n))) \cup ({"wire"} \X Sent(n))

Prefetched(n) == Tokens(waiting, Workers \X Of(n))

\* The work there is for n, when a handler counts while it is at a label of L.
Work(n, L) ==
  Cardinality(Queued(n)) + Cardinality(Delayed(n)) + Cardinality(Prefetched(n))
    + Cardinality(AtWork(n, L))

Countable(n, L) ==
  /\ IsFiniteSet(Queued(n)) /\ IsFiniteSet(Delayed(n))
  /\ IsFiniteSet(Prefetched(n)) /\ IsFiniteSet(AtWork(n, L))

\* What has brought work for n into the system.
Paid(n) == published[n] + redelivered[n]

\* A handler that may still call the provider, or have another one call it.
Unsent == {"find", "markProcessing", "send", "countFailure", "recordRetry", "publishRetry"}

\* A handler that has not left the outcome in the row.
Undecided == Labels \ {"idle", "countSuccess", "ack"}

\* A handler that has something to write.
Unfinished == Labels \ {"idle", "ack"}

Final(n) == status[n] \in {"SENT", "DEAD_LETTERED"}

\* Every acceptance and every copy that may become one is paid for.
SendsBacked ==
  \A n \in Notifications : Countable(n, Unsent) /\ accepted[n] + Work(n, Unsent) <= Paid(n)

\* A final status has used up a copy.
OutcomesBacked ==
  \A n \in Notifications :
    Countable(n, Undecided) /\ (IF Final(n) THEN 1 ELSE 0) + Work(n, Undecided) <= Paid(n)

HandlersBacked ==
  \A n \in Notifications : Countable(n, Unfinished) /\ Work(n, Unfinished) <= Paid(n)

\* What is in a queue, with a worker or was redelivered has been published.
Sourced ==
  /\ \A m \in Messages : Present(m) => published[m.n] > 0
  /\ \A w \in Workers : pc[w] # "idle" => published[cur[w].n] > 0
  /\ \A n \in Notifications : redelivered[n] > 0 => published[n] > 0

\* A copy of m that no handler has begun is on its way to one.
OnItsWay(w, m) == \E i \in DOMAIN wire[w] : wire[w][i] = Frame("retry", m)
Waits(m) ==
  \/ main[m] > 0 \/ retry[m] > 0
  \/ \E w \in Workers : waiting[<<w, m>>] > 0 \/ OnItsWay(w, m)

\* The history of a single copy keeps step with attempt_count: a handler records
\* before it counts on success, and counts before it records on failure.
Keeps(n, w) ==
  /\ pc[w] \in {"find", "markProcessing", "send", "recordSuccess", "countFailure"} =>
       cur[w].attempt = attemptCount[n] + 1 /\ Recorded(n) = 1 .. attemptCount[n]
  /\ pc[w] \in {"markSent", "countSuccess"} =>
       cur[w].attempt = attemptCount[n] + 1 /\ Recorded(n) = 1 .. (attemptCount[n] + 1)
  /\ pc[w] \in {"recordRetry", "recordDead"} =>
       cur[w].attempt = attemptCount[n] /\ Recorded(n) = 1 .. (attemptCount[n] - 1)
  /\ pc[w] = "publishRetry" =>
       cur[w].attempt = attemptCount[n] /\ Recorded(n) = 1 .. attemptCount[n]
  /\ pc[w] \in {"publishDlq", "markDead"} => Recorded(n) = 1 .. attemptCount[n]

InStep(n) ==
  /\ published[n] = 0 => attemptCount[n] = 0
  /\ \A m \in Of(n) : Waits(m) => m.attempt = attemptCount[n] + 1
  /\ \A w \in AtWork(n, Unfinished) : Keeps(n, w)
  /\ AtWork(n, Unfinished) = {} => Recorded(n) = 1 .. attemptCount[n]

CountsInStep == \A n \in Notifications : SingleCopy(n) /\ crashes = 0 => InStep(n)

Failures == {"TRANSIENT_FAILURE", "PERMANENT_FAILURE"}

\* The outcome in the row of a single copy is in its history before.
Explained(n) ==
  /\ status[n] = "SENT" => \E k \in Attempts : attempts[n][k] = "SUCCESS"
  /\ status[n] = "DEAD_LETTERED" => \E k \in Attempts : attempts[n][k] \in Failures
  /\ \A w \in AtWork(n, {"markSent"}) : attempts[n][cur[w].attempt] = "SUCCESS"
  /\ \A w \in AtWork(n, {"publishDlq", "markDead"}) : attempts[n][cur[w].attempt] \in Failures

OutcomesExplained == \A n \in Notifications : SingleCopy(n) => Explained(n)

\* The outcome a handler of GET has read is still in the row.
OutcomeHolds ==
  found # NoRow /\ found.outcome # "open" /\ SingleCopy(found.n) => status[found.n] = found.outcome

-----------------------------------------------------------------------------
(* Counting.                                                               *)

(* What is in a set of tokens.                                             *)
LEMMA TokensMember ==
  ASSUME NEW f, NEW S, NEW t
  PROVE  t \in Tokens(f, S) <=> \E x \in S : \E i \in 1 .. f[x] : t = <<x, i>>
  BY DEF Tokens

(* A count that grows nowhere, or to nothing, has no more tokens.          *)
LEMMA TokensFewer ==
  ASSUME NEW f, NEW g, NEW S, IsFiniteSet(Tokens(f, S)),
         \A x \in S : f[x] \in Int /\ g[x] \in Int /\ (g[x] <= f[x] \/ g[x] <= 0)
  PROVE  IsFiniteSet(Tokens(g, S)) /\ Cardinality(Tokens(g, S)) <= Cardinality(Tokens(f, S))
<1>1. \A x \in S : \A i \in 1 .. g[x] : i \in 1 .. f[x]
  OBVIOUS
<1>2. Tokens(g, S) \subseteq Tokens(f, S)
  BY <1>1, TokensMember
<1> QED
  BY <1>2, FS_Subset

(* One more of one thing is one more token at most.                        *)
LEMMA TokensMore ==
  ASSUME NEW f, NEW g, NEW S, NEW a, IsFiniteSet(Tokens(f, S)),
         \A x \in S : f[x] \in Int /\ g[x] \in Int /\ g[x] <= f[x] + (IF x = a THEN 1 ELSE 0)
  PROVE  /\ IsFiniteSet(Tokens(g, S))
         /\ Cardinality(Tokens(g, S)) <= Cardinality(Tokens(f, S)) + 1
<1> DEFINE t == <<a, f[a] + 1>>
<1>1. \A x \in S : \A i \in 1 .. g[x] : i \in 1 .. f[x] \/ (x = a /\ i = f[a] + 1)
  OBVIOUS
<1>2. Tokens(g, S) \subseteq Tokens(f, S) \cup {t}
  BY <1>1, TokensMember
<1> HIDE DEF t
<1>3. /\ IsFiniteSet(Tokens(f, S) \cup {t})
      /\ \/ Cardinality(Tokens(f, S) \cup {t}) = Cardinality(Tokens(f, S))
         \/ Cardinality(Tokens(f, S) \cup {t}) = Cardinality(Tokens(f, S)) + 1
  BY FS_AddElement
<1>4. /\ IsFiniteSet(Tokens(g, S))
      /\ Cardinality(Tokens(g, S)) <= Cardinality(Tokens(f, S) \cup {t})
  BY <1>2, <1>3, FS_Subset
<1>5. Cardinality(Tokens(f, S)) \in Nat /\ Cardinality(Tokens(f, S) \cup {t}) \in Nat
      /\ Cardinality(Tokens(g, S)) \in Nat
  BY <1>3, <1>4, FS_CardinalityType
<1> QED
  BY <1>3, <1>4, <1>5

(* One less of a thing that is there is one token less.                    *)
LEMMA TokensLess ==
  ASSUME NEW f, NEW g, NEW S, NEW a \in S, f[a] >= 1, IsFiniteSet(Tokens(f, S)),
         \A x \in S : f[x] \in Int /\ g[x] \in Int /\ g[x] <= f[x] - (IF x = a THEN 1 ELSE 0)
  PROVE  /\ IsFiniteSet(Tokens(g, S))
         /\ Cardinality(Tokens(g, S)) <= Cardinality(Tokens(f, S)) - 1
<1> DEFINE t == <<a, f[a]>>
<1>1. t \in Tokens(f, S)
  BY TokensMember
<1>2. \A x \in S : \A i \in 1 .. g[x] : i \in 1 .. f[x] /\ ~(x = a /\ i = f[a])
  OBVIOUS
<1>3. Tokens(g, S) \subseteq Tokens(f, S) \ {t}
  BY <1>2, TokensMember
<1>4. /\ IsFiniteSet(Tokens(f, S) \ {t})
      /\ Cardinality(Tokens(f, S) \ {t}) = Cardinality(Tokens(f, S)) - 1
  BY <1>1, FS_RemoveElement
<1>5. /\ IsFiniteSet(Tokens(g, S))
      /\ Cardinality(Tokens(g, S)) <= Cardinality(Tokens(f, S) \ {t})
  BY <1>3, <1>4, FS_Subset
<1> QED
  BY <1>4, <1>5

(* No tokens, none of anything.                                            *)
LEMMA TokensNone ==
  ASSUME NEW f, NEW S, IsFiniteSet(Tokens(f, S)), Cardinality(Tokens(f, S)) = 0,
         NEW x \in S, f[x] \in Int
  PROVE  ~(f[x] > 0)
<1>1. Tokens(f, S) = {}
  BY FS_EmptySet
<1>2. f[x] > 0 => <<x, 1>> \in Tokens(f, S)
  BY TokensMember
<1> QED
  BY <1>1, <1>2

(* Putting a copy of m into a queue.                                       *)
LEMMA PutCounts ==
  ASSUME NEW q \in Bags, NEW m \in Messages, NEW n, IsFiniteSet(Tokens(q, Of(n)))
  PROVE  /\ IsFiniteSet(Tokens(Put(q, m), Of(n)))
         /\ Cardinality(Tokens(Put(q, m), Of(n)))
              <= Cardinality(Tokens(q, Of(n))) + (IF m.n = n THEN 1 ELSE 0)
<1>1. \A k \in Of(n) : k \in Messages /\ k.n = n /\ q[k] \in Int /\ Put(q, m)[k] \in Int
  BY PutOne DEF Of, Bags
<1>2. CASE m.n = n
  <2>1. \A k \in Of(n) : Put(q, m)[k] <= q[k] + (IF k = m THEN 1 ELSE 0)
    BY <1>1, PutOne
  <2> QED
    BY <1>1, <1>2, <2>1, TokensMore
<1>3. CASE m.n # n
  <2>1. \A k \in Of(n) : Put(q, m)[k] <= q[k]
    BY <1>1, <1>3, PutOne
  <2>2. Cardinality(Tokens(q, Of(n))) \in Nat /\ Cardinality(Tokens(Put(q, m), Of(n))) \in Nat
    BY <1>1, <2>1, TokensFewer, FS_CardinalityType
  <2> QED
    BY <1>1, <1>3, <2>1, <2>2, TokensFewer
<1> QED
  BY <1>2, <1>3

(* Taking one out.                                                         *)
LEMMA TakeCounts ==
  ASSUME NEW q \in Bags, NEW m \in Messages, q[m] > 0, NEW n, IsFiniteSet(Tokens(q, Of(n)))
  PROVE  /\ IsFiniteSet(Tokens(Take(q, m), Of(n)))
         /\ Cardinality(Tokens(Take(q, m), Of(n)))
              <= Cardinality(Tokens(q, Of(n))) - (IF m.n = n THEN 1 ELSE 0)
<1>1. \A k \in Of(n) : k \in Messages /\ k.n = n /\ q[k] \in Int /\ Take(q, m)[k] \in Int
  BY TakeOne DEF Of, Bags
<1>2. CASE m.n = n
  <2>1. \A k \in Of(n) : Take(q, m)[k] <= q[k] - (IF k = m THEN 1 ELSE 0)
    BY <1>1, TakeOne
  <2>2. m \in Of(n) /\ q[m] >= 1
    BY <1>2 DEF Of, Bags
  <2> QED
    BY <1>1, <1>2, <2>1, <2>2, TokensLess
<1>3. CASE m.n # n
  <2>1. \A k \in Of(n) : Take(q, m)[k] <= q[k]
    BY <1>1, <1>3, TakeOne
  <2>2. Cardinality(Tokens(q, Of(n))) \in Nat /\ Cardinality(Tokens(Take(q, m), Of(n))) \in Nat
    BY <1>1, <2>1, TokensFewer, FS_CardinalityType
  <2> QED
    BY <1>1, <1>3, <2>1, <2>2, TokensFewer
<1> QED
  BY <1>2, <1>3

(* What is in the set of retries.                                          *)
LEMMA DelayedMember ==
  ASSUME NEW n, NEW t
  PROVE  /\ t \in Delayed(n) <=>
              \/ \E m \in Of(n) : \E i \in 1 .. retry[m] : t = <<"rung", <<m, i>>>>
              \/ \E w \in Workers : \E i \in DOMAIN wire[w] :
                   IsRetry(wire[w][i], n) /\ t = <<"wire", <<w, i>>>>
         /\ t \in Delayed(n)' <=>
              \/ \E m \in Of(n) : \E i \in 1 .. retry'[m] : t = <<"rung", <<m, i>>>>
              \/ \E w \in Workers : \E i \in DOMAIN wire'[w] :
                   IsRetry(wire'[w][i], n) /\ t = <<"wire", <<w, i>>>>
<1>1. \A x : x \in Tokens(retry, Of(n)) <=> \E m \in Of(n) : \E i \in 1 .. retry[m] : x = <<m, i>>
  BY TokensMember
<1>2. \A x : x \in Tokens(retry', Of(n)) <=> \E m \in Of(n) : \E i \in 1 .. retry'[m] : x = <<m, i>>
  BY TokensMember
<1>3. Delayed(n)' = ({"rung"} \X Tokens(retry', Of(n))) \cup ({"wire"} \X Sent(n)')
  BY DEF Delayed, Tokens, Of
<1>4. \A x : x \in Sent(n) <=>
        \E w \in Workers : \E i \in DOMAIN wire[w] : IsRetry(wire[w][i], n) /\ x = <<w, i>>
  BY DEF Sent
<1>5. \A x : x \in Sent(n)' <=>
        \E w \in Workers : \E i \in DOMAIN wire'[w] : IsRetry(wire'[w][i], n) /\ x = <<w, i>>
  BY DEF Sent, IsRetry
<1>6. t \in Delayed(n) <=>
        (\E x \in Tokens(retry, Of(n)) : t = <<"rung", x>>) \/ \E x \in Sent(n) : t = <<"wire", x>>
  BY DEF Delayed
<1>7. t \in Delayed(n)' <=>
        (\E x \in Tokens(retry', Of(n)) : t = <<"rung", x>>) \/ \E x \in Sent(n)' : t = <<"wire", x>>
  BY <1>3
<1> QED
  BY <1>1, <1>2, <1>4, <1>5, <1>6, <1>7

(* A step that adds neither.                                               *)
LEMMA DelayedFewer ==
  ASSUME TypeInv, TypeInv', NEW n \in Notifications, IsFiniteSet(Delayed(n)), UNCHANGED retry,
         \A v \in Workers : \A i \in DOMAIN wire'[v] : IsRetry(wire'[v][i], n) =>
           i \in DOMAIN wire[v] /\ IsRetry(wire[v][i], n)
  PROVE  IsFiniteSet(Delayed(n)') /\ Cardinality(Delayed(n)') <= Cardinality(Delayed(n))
<1>1. Delayed(n)' \subseteq Delayed(n)
  BY DelayedMember
<1> QED
  BY <1>1, FS_Subset

(* A retry leaves its rung.                                                *)
LEMMA ExpireCounts ==
  ASSUME TypeInv, NEW m \in Messages, Expire(m), NEW n, IsFiniteSet(Delayed(n))
  PROVE  /\ IsFiniteSet(Delayed(n)')
         /\ Cardinality(Delayed(n)') <= Cardinality(Delayed(n)) - (IF m.n = n THEN 1 ELSE 0)
<1>1. /\ retry \in Bags /\ retry[m] > 0 /\ retry' = Take(retry, m) /\ UNCHANGED wire
  BY DEF Expire, TypeInv, TypeOK, BrokerOK
<1>2. /\ retry[m] \in Nat /\ retry'[m] = retry[m] - 1
      /\ \A k \in Of(n) : k # m => retry'[k] = retry[k]
  BY <1>1, TakeOne DEF Bags, Of
<1>3. \A k \in Of(n) : \A i \in 1 .. retry'[k] : i \in 1 .. retry[k] /\ ~(k = m /\ i = retry[m])
  BY <1>2
<1>4. Delayed(n)' \subseteq Delayed(n) \ {<<"rung", <<m, retry[m]>>>>}
  <2> SUFFICES ASSUME NEW t \in Delayed(n)'
               PROVE  t \in Delayed(n) /\ t # <<"rung", <<m, retry[m]>>>>
    OBVIOUS
  <2>1. CASE \E k \in Of(n) : \E i \in 1 .. retry'[k] : t = <<"rung", <<k, i>>>>
    BY <1>3, <2>1, DelayedMember
  <2>2. CASE \E w \in Workers : \E i \in DOMAIN wire'[w] :
               IsRetry(wire'[w][i], n) /\ t = <<"wire", <<w, i>>>>
    BY <1>1, <2>2, DelayedMember
  <2> QED
    BY <2>1, <2>2, DelayedMember
<1>5. CASE m.n = n
  <2>1. <<"rung", <<m, retry[m]>>>> \in Delayed(n)
    <3>1. m \in Of(n) /\ retry[m] \in 1 .. retry[m]
      BY <1>1, <1>2, <1>5 DEF Of
    <3> QED
      BY <3>1, DelayedMember
  <2>2. /\ IsFiniteSet(Delayed(n) \ {<<"rung", <<m, retry[m]>>>>})
        /\ Cardinality(Delayed(n) \ {<<"rung", <<m, retry[m]>>>>}) = Cardinality(Delayed(n)) - 1
    BY <2>1, FS_RemoveElement
  <2> QED
    BY <1>4, <1>5, <2>2, FS_Subset
<1>6. CASE m.n # n
  <2>1. IsFiniteSet(Delayed(n)') /\ Cardinality(Delayed(n)') <= Cardinality(Delayed(n))
    BY <1>4, FS_Subset
  <2>2. Cardinality(Delayed(n)) \in Nat
    BY FS_CardinalityType
  <2> QED
    BY <1>6, <2>1, <2>2
<1> QED
  BY <1>5, <1>6

(* The broker reads a frame: a retry moves to its rung, where there is one,*)
(* and all behind it move up.                                              *)
LEMMA ReadCounts ==
  ASSUME TypeInv, NEW w \in Workers, ReadFrame(w), NEW n \in Notifications, IsFiniteSet(Delayed(n))
  PROVE  IsFiniteSet(Delayed(n)') /\ Cardinality(Delayed(n)') <= Cardinality(Delayed(n))
<1> DEFINE m == Head(wire[w]).m
           was(t) == IF t[1] = "wire" /\ t[2][1] = w THEN <<"wire", <<w, t[2][2] + 1>>>>
                     ELSE IF t = <<"rung", <<m, retry[m] + 1>>>> THEN <<"wire", <<w, 1>>>>
                     ELSE t
           f == [t \in Delayed(n)' |-> was(t)]
<1>1. BrokerOK /\ retry \in Bags
  BY DEF TypeInv, TypeOK, BrokerOK
<1>2. /\ 1 \in DOMAIN wire[w] /\ Head(wire[w]) = wire[w][1]
      /\ \A v \in Workers : v # w => wire'[v] = wire[v]
      /\ Len(wire[w]) \in Nat /\ DOMAIN wire'[w] = 1 .. (Len(wire[w]) - 1)
      /\ \A i \in DOMAIN wire'[w] : i + 1 \in DOMAIN wire[w] /\ wire'[w][i] = wire[w][i + 1]
  BY <1>1, ReadFacts
<1>3. m \in Messages
  BY <1>1, <1>2, WireFrames
<1>4. UNCHANGED retry \/ (Head(wire[w]).kind = "retry" /\ retry' = Put(retry, m))
  BY DEF ReadFrame, Route
<1> HIDE DEF m
<1>5. \A k \in Of(n) : retry[k] \in Nat /\ retry'[k] \in Nat
  BY <1>1, <1>3, <1>4, PutOne DEF Bags, Of
<1>6. \A k \in Of(n) : \A i \in 1 .. retry'[k] :
        \/ i \in 1 .. retry[k] /\ ~(k = m /\ i = retry[m] + 1)
        \/ k = m /\ i = retry[m] + 1 /\ Head(wire[w]).kind = "retry"
  <2>1. CASE UNCHANGED retry
    BY <1>5, <2>1
  <2>2. CASE Head(wire[w]).kind = "retry" /\ retry' = Put(retry, m)
    <3>1. retry'[m] = retry[m] + 1 /\ \A k \in Of(n) : k # m => retry'[k] = retry[k]
      BY <1>1, <1>3, <2>2, PutOne DEF Of
    <3> QED
      BY <1>5, <2>2, <3>1
  <2> QED
    BY <1>4, <2>1, <2>2
\* Where each token was before.
<1>7. ASSUME NEW t \in Delayed(n)'
      PROVE  /\ was(t) \in Delayed(n)
             /\ \/ \E k \in Of(n) : \E i \in 1 .. retry[k] : t = <<"rung", <<k, i>>>> /\ was(t) = t
                \/ t = <<"rung", <<m, retry[m] + 1>>>> /\ was(t) = <<"wire", <<w, 1>>>>
                \/ \E v \in Workers : \E i \in DOMAIN wire[v] :
                     v # w /\ t = <<"wire", <<v, i>>>> /\ was(t) = t
                \/ \E i \in DOMAIN wire'[w] :
                     t = <<"wire", <<w, i>>>> /\ was(t) = <<"wire", <<w, i + 1>>>>
  <2>1. ASSUME NEW k \in Of(n), NEW i \in 1 .. retry'[k], t = <<"rung", <<k, i>>>>
        PROVE  \/ i \in 1 .. retry[k] /\ was(t) = t /\ t \in Delayed(n)
               \/ /\ t = <<"rung", <<m, retry[m] + 1>>>> /\ was(t) = <<"wire", <<w, 1>>>>
                  /\ was(t) \in Delayed(n)
    <3>1. t[1] = "rung"
      BY <2>1
    <3>2. CASE i \in 1 .. retry[k] /\ ~(k = m /\ i = retry[m] + 1)
      <4>1. t # <<"rung", <<m, retry[m] + 1>>>>
        BY <2>1, <3>2
      <4> QED
        BY <2>1, <3>1, <3>2, <4>1, DelayedMember
    <3>3. CASE k = m /\ i = retry[m] + 1 /\ Head(wire[w]).kind = "retry"
      <4>1. IsRetry(wire[w][1], n)
        BY <1>2, <3>3 DEF IsRetry, Of, m
      <4>2. <<"wire", <<w, 1>>>> \in Delayed(n)
        BY <1>2, <4>1, DelayedMember
      <4> QED
        BY <2>1, <3>1, <3>3, <4>2
    <3> QED
      BY <1>6, <3>2, <3>3
  <2>2. ASSUME NEW v \in Workers, v # w, NEW i \in DOMAIN wire'[v], IsRetry(wire'[v][i], n),
               t = <<"wire", <<v, i>>>>
        PROVE  i \in DOMAIN wire[v] /\ was(t) = t /\ t \in Delayed(n)
    <3>1. t[1] = "wire" /\ t[2][1] # w /\ t # <<"rung", <<m, retry[m] + 1>>>>
      BY <2>2
    <3> QED
      BY <1>2, <2>2, <3>1, DelayedMember
  <2>3. ASSUME NEW i \in DOMAIN wire'[w], IsRetry(wire'[w][i], n), t = <<"wire", <<w, i>>>>
        PROVE  was(t) = <<"wire", <<w, i + 1>>>> /\ was(t) \in Delayed(n)
    <3>1. was(t) = <<"wire", <<w, i + 1>>>>
      BY <2>3
    <3>2. <<"wire", <<w, i + 1>>>> \in Delayed(n)
      BY <1>2, <2>3, DelayedMember
    <3> QED
      BY <3>1, <3>2
  <2> HIDE DEF was
  <2> QED
    BY <2>1, <2>2, <2>3, DelayedMember
<1>8. ASSUME NEW t \in Delayed(n)', NEW u \in Delayed(n)', was(t) = was(u)
      PROVE  t = u
  <2> DEFINE Rung(x) == \E k \in Of(n) : \E i \in 1 .. retry[k] : x = <<"rung", <<k, i>>>> /\ was(x) = x
             New(x) == x = <<"rung", <<m, retry[m] + 1>>>> /\ was(x) = <<"wire", <<w, 1>>>>
             Other(x) == \E v \in Workers : \E i \in DOMAIN wire[v] :
                           v # w /\ x = <<"wire", <<v, i>>>> /\ was(x) = x
             Own(x) == \E i \in DOMAIN wire'[w] :
                         x = <<"wire", <<w, i>>>> /\ was(x) = <<"wire", <<w, i + 1>>>>
  <2> HIDE DEF was
  <2>1. /\ Rung(t) \/ New(t) \/ Other(t) \/ Own(t)
        /\ Rung(u) \/ New(u) \/ Other(u) \/ Own(u)
    BY <1>7
  <2>2. \A i \in DOMAIN wire'[w] : i \in Nat /\ i + 1 # 1
    BY <1>2
  <2>3. CASE Rung(t) \/ Other(t)
    BY <1>8, <2>1, <2>3
  <2>4. CASE New(t)
    BY <1>8, <2>1, <2>2, <2>4
  <2>5. CASE Own(t)
    BY <1>8, <2>1, <2>2, <2>5
  <2> QED
    BY <2>1, <2>3, <2>4, <2>5
<1> HIDE DEF was
<1>9. f \in Injection(Delayed(n)', Delayed(n))
  BY <1>7, <1>8 DEF Injection, IsInjective
<1> HIDE DEF f
<1> QED
  BY <1>9, FS_Injection

(* What is written on an intact connection is on its way.                  *)
LEMMA SendCounts ==
  ASSUME TypeInv, NEW w \in Workers, NEW k \in {"retry", "dlq", "ack"}, NEW m \in Messages,
         SendFrame(w, k, m), UNCHANGED retry, NEW n \in Notifications, IsFiniteSet(Delayed(n))
  PROVE  /\ IsFiniteSet(Delayed(n)')
         /\ Cardinality(Delayed(n)') <=
              Cardinality(Delayed(n)) + (IF k = "retry" /\ m.n = n THEN 1 ELSE 0)
<1> DEFINE new == <<"wire", <<w, Len(wire[w]) + 1>>>>
<1>1. BrokerOK
  BY DEF TypeInv, TypeOK
<1>2. \A v \in Workers : \A i \in DOMAIN wire'[v] :
        \/ i \in DOMAIN wire[v] /\ wire'[v][i] = wire[v][i]
        \/ /\ v = w /\ i = Len(wire[w]) + 1
           /\ wire'[v][i].kind = k /\ wire'[v][i].m = m
  <2>1. /\ conn[w] # "up" => wire' = wire
        /\ \A v \in Workers : v # w => wire'[v] = wire[v]
        /\ conn[w] = "up" => wire'[w] = Append(wire[w], Frame(k, m))
    BY <1>1, SendFacts
  <2>2. /\ Frame(k, m) \in Frames /\ Frame(k, m).kind = k /\ Frame(k, m).m = m
        /\ wire[w] \in Seq(Frames)
    BY <1>1, FrameFields, WireFrames
  <2> DEFINE s == Append(wire[w], Frame(k, m))
  <2>3. /\ DOMAIN wire[w] = 1 .. Len(wire[w]) /\ DOMAIN s = 1 .. (Len(wire[w]) + 1)
        /\ Len(wire[w]) \in Nat /\ s[Len(wire[w]) + 1] = Frame(k, m)
        /\ \A i \in DOMAIN wire[w] : s[i] = wire[w][i]
    BY <2>2, AppendFacts
  <2>4. conn[w] = "up" => wire'[w] = s
    BY <2>1
  <2> HIDE DEF s
  <2>5. \A i \in DOMAIN s : \/ i \in DOMAIN wire[w] /\ s[i] = wire[w][i]
                            \/ i = Len(wire[w]) + 1 /\ s[i] = Frame(k, m)
    BY <2>3
  <2> QED
    BY <2>1, <2>2, <2>4, <2>5
<1>3. CASE k = "retry" /\ m.n = n
  <2>1. Delayed(n)' \subseteq Delayed(n) \cup {new}
    <3> SUFFICES ASSUME NEW t \in Delayed(n)' PROVE t \in Delayed(n) \/ t = new
      OBVIOUS
    <3>1. CASE \E j \in Of(n) : \E i \in 1 .. retry'[j] : t = <<"rung", <<j, i>>>>
      BY <3>1, DelayedMember
    <3>2. ASSUME NEW v \in Workers, NEW i \in DOMAIN wire'[v], IsRetry(wire'[v][i], n),
                 t = <<"wire", <<v, i>>>>
          PROVE  t \in Delayed(n) \/ t = new
      BY <1>2, <3>2, DelayedMember
    <3> QED
      BY <3>1, <3>2, DelayedMember
  <2> HIDE DEF new
  <2>2. /\ IsFiniteSet(Delayed(n) \cup {new})
        /\ \/ Cardinality(Delayed(n) \cup {new}) = Cardinality(Delayed(n))
           \/ Cardinality(Delayed(n) \cup {new}) = Cardinality(Delayed(n)) + 1
    BY FS_AddElement
  <2>3. /\ IsFiniteSet(Delayed(n)')
        /\ Cardinality(Delayed(n)') <= Cardinality(Delayed(n) \cup {new})
    BY <2>1, <2>2, FS_Subset
  <2>4. /\ Cardinality(Delayed(n)) \in Nat /\ Cardinality(Delayed(n)') \in Nat
        /\ Cardinality(Delayed(n) \cup {new}) \in Nat
    BY <2>2, <2>3, FS_CardinalityType
  <2> QED
    BY <1>3, <2>2, <2>3, <2>4
<1>4. CASE ~(k = "retry" /\ m.n = n)
  <2>1. \A v \in Workers : \A i \in DOMAIN wire'[v] : IsRetry(wire'[v][i], n) =>
          i \in DOMAIN wire[v] /\ IsRetry(wire[v][i], n)
    BY <1>2, <1>4 DEF IsRetry
  <2>2. Delayed(n)' \subseteq Delayed(n)
    BY <2>1, DelayedMember
  <2>3. /\ IsFiniteSet(Delayed(n)') /\ Cardinality(Delayed(n)') <= Cardinality(Delayed(n))
        /\ Cardinality(Delayed(n)) \in Nat
    BY <2>2, FS_Subset, FS_CardinalityType
  <2> QED
    BY <1>4, <2>3
<1> QED
  BY <1>3, <1>4

(* The deliveries not begun, as numbers.                                   *)
LEMMA WaitingValue ==
  ASSUME TypeInv, TypeInv'
  PROVE  /\ \A w \in Workers, m \in Messages :
              /\ unacked[w][m] \in Nat
              /\ waiting[<<w, m>>] \in Int
              /\ waiting[<<w, m>>]
                   = unacked[w][m] - (IF pc[w] # "idle" /\ cur[w] = m THEN 1 ELSE 0)
         /\ \A w \in Workers, m \in Messages :
              /\ unacked'[w][m] \in Nat
              /\ waiting'[<<w, m>>] \in Int
              /\ waiting'[<<w, m>>]
                   = unacked'[w][m] - (IF pc'[w] # "idle" /\ cur'[w] = m THEN 1 ELSE 0)
<1>1. /\ \A w \in Workers, m \in Messages : unacked[w][m] \in Nat
      /\ \A w \in Workers, m \in Messages : unacked'[w][m] \in Nat
  BY DEF TypeInv, TypeOK, BrokerOK, Bags
<1>2. \A w \in Workers, m \in Messages :
        waiting[<<w, m>>] = unacked[w][m] - (IF pc[w] # "idle" /\ cur[w] = m THEN 1 ELSE 0)
  BY DEF waiting
<1>3. \A w \in Workers, m \in Messages :
        waiting'[<<w, m>>] = unacked'[w][m] - (IF pc'[w] # "idle" /\ cur'[w] = m THEN 1 ELSE 0)
  BY DEF waiting
<1> QED
  BY <1>1, <1>2, <1>3

(* A step that adds no delivery that waits.                                *)
LEMMA PrefetchedFewer ==
  ASSUME TypeInv, TypeInv', NEW n \in Notifications, IsFiniteSet(Prefetched(n)),
         \A w \in Workers, m \in Messages :
           waiting'[<<w, m>>] <= waiting[<<w, m>>] \/ waiting'[<<w, m>>] <= 0
  PROVE  /\ IsFiniteSet(Prefetched(n)')
         /\ Cardinality(Prefetched(n)') <= Cardinality(Prefetched(n))
<1>1. \A w \in Workers, m \in Messages : waiting[<<w, m>>] \in Int /\ waiting'[<<w, m>>] \in Int
  BY WaitingValue
<1>2. \A x \in Workers \X Of(n) : /\ waiting[x] \in Int /\ waiting'[x] \in Int
                                  /\ waiting'[x] <= waiting[x] \/ waiting'[x] <= 0
  BY <1>1 DEF Of
<1> QED
  BY <1>2, TokensFewer DEF Prefetched

(* The work is the sum of its parts.                                       *)
LEMMA WorkSum ==
  ASSUME NEW n, NEW L, Countable(n, L),
         IsFiniteSet(Queued(n)'), IsFiniteSet(Delayed(n)'),
         IsFiniteSet(Prefetched(n)'), IsFiniteSet(AtWork(n, L)')
  PROVE  /\ Countable(n, L)' /\ Work(n, L) \in Nat /\ Work(n, L)' \in Nat
         /\ Cardinality(Queued(n)) \in Nat /\ Cardinality(Queued(n)') \in Nat
         /\ Cardinality(Delayed(n)) \in Nat /\ Cardinality(Delayed(n)') \in Nat
         /\ Cardinality(Prefetched(n)) \in Nat /\ Cardinality(Prefetched(n)') \in Nat
         /\ Cardinality(AtWork(n, L)) \in Nat /\ Cardinality(AtWork(n, L)') \in Nat
         /\ Work(n, L) = Cardinality(Queued(n)) + Cardinality(Delayed(n))
                           + Cardinality(Prefetched(n)) + Cardinality(AtWork(n, L))
         /\ Work(n, L)' = Cardinality(Queued(n)') + Cardinality(Delayed(n)')
                            + Cardinality(Prefetched(n)') + Cardinality(AtWork(n, L)')
<1>1. /\ Cardinality(Queued(n)) \in Nat /\ Cardinality(Delayed(n)) \in Nat
      /\ Cardinality(Prefetched(n)) \in Nat /\ Cardinality(AtWork(n, L)) \in Nat
  BY FS_CardinalityType DEF Countable
<1>2. /\ Cardinality(Queued(n)') \in Nat /\ Cardinality(Delayed(n)') \in Nat
      /\ Cardinality(Prefetched(n)') \in Nat /\ Cardinality(AtWork(n, L)') \in Nat
  BY FS_CardinalityType
<1>3. /\ Work(n, L) = Cardinality(Queued(n)) + Cardinality(Delayed(n))
                        + Cardinality(Prefetched(n)) + Cardinality(AtWork(n, L))
      /\ Work(n, L)' = Cardinality(Queued(n)') + Cardinality(Delayed(n)')
                         + Cardinality(Prefetched(n)') + Cardinality(AtWork(n, L)')
  BY DEF Work
<1>4. Countable(n, L)'
  BY DEF Countable
<1> QED
  BY <1>1, <1>2, <1>3, <1>4

-----------------------------------------------------------------------------
(* No step makes work that is not paid for.                                *)

\* A step that adds no more to the work for n than to what is paid.
Covered(n, L) ==
  /\ Countable(n, L)' /\ Work(n, L) \in Nat /\ Work(n, L)' \in Nat
  /\ Work(n, L)' + Paid(n) <= Work(n, L) + Paid(n)'

(* What is left alone counts as before.                                    *)
LEMMA PartsSame ==
  ASSUME NEW n, NEW L
  PROVE  /\ UNCHANGED main => UNCHANGED Queued(n)
         /\ UNCHANGED <<retry, wire>> => UNCHANGED Delayed(n)
         /\ UNCHANGED <<unacked, pc, cur>> => UNCHANGED Prefetched(n)
         /\ UNCHANGED <<pc, cur>> => UNCHANGED AtWork(n, L)
  BY DEF Queued, Delayed, Sent, Prefetched, AtWork, waiting

(* What is paid, as a number.                                              *)
LEMMA PaidNat ==
  ASSUME TypeInv, TypeInv', NEW n \in Notifications
  PROVE  /\ Paid(n) \in Nat /\ published[n] \in Nat /\ redelivered[n] \in Nat
         /\ Paid(n) = published[n] + redelivered[n]
         /\ Paid(n)' \in Nat /\ published'[n] \in Nat /\ redelivered'[n] \in Nat
         /\ Paid(n)' = published'[n] + redelivered'[n]
  BY DEF Paid, TypeInv, TypeOK, CountersOK

(* It is enough to account for the parts.                                  *)
LEMMA CoveredBySum ==
  ASSUME TypeInv, TypeInv', NEW n \in Notifications, NEW L, Countable(n, L),
         IsFiniteSet(Queued(n)'), IsFiniteSet(Delayed(n)'),
         IsFiniteSet(Prefetched(n)'), IsFiniteSet(AtWork(n, L)'),
         Cardinality(Queued(n)') + Cardinality(Delayed(n)')
           + Cardinality(Prefetched(n)') + Cardinality(AtWork(n, L)') + Paid(n)
         <= Cardinality(Queued(n)) + Cardinality(Delayed(n))
              + Cardinality(Prefetched(n)) + Cardinality(AtWork(n, L)) + Paid(n)'
  PROVE  Covered(n, L)
  BY WorkSum, PaidNat DEF Covered

(* Publishes and redeliveries pay; the broker and the faults only move.    *)
LEMMA CoveredOutside ==
  ASSUME TypeInv, TypeInv', NEW n \in Notifications, NEW L, L \subseteq Unfinished,
         Countable(n, L), (Environment \/ System) /\ ~\E w \in Workers : OnMessage(w)
  PROVE  Covered(n, L)
<1>0. /\ main \in Bags /\ unacked \in [Workers -> Bags] /\ wire \in [Workers -> Seq(Frames)]
      /\ pc \in [Workers -> Labels] /\ cur \in [Workers -> Messages \cup {NoMessage}]
      /\ published \in [Notifications -> Nat] /\ redelivered \in [Notifications -> Nat]
  BY DEF TypeInv, TypeOK, BrokerOK, WorkerOK, CountersOK
<1>1. /\ IsFiniteSet(Queued(n)) /\ Cardinality(Queued(n)) \in Nat
      /\ IsFiniteSet(Delayed(n)) /\ Cardinality(Delayed(n)) \in Nat
      /\ IsFiniteSet(Prefetched(n)) /\ Cardinality(Prefetched(n)) \in Nat
      /\ IsFiniteSet(AtWork(n, L)) /\ Cardinality(AtWork(n, L)) \in Nat
  BY FS_CardinalityType DEF Countable
<1>2. /\ Paid(n) \in Nat /\ Paid(n)' \in Nat
      /\ published[n] \in Nat /\ redelivered[n] \in Nat
      /\ Paid(n) = published[n] + redelivered[n]
      /\ Paid(n)' = published'[n] + redelivered'[n]
  BY PaidNat
\* What has to be shown of a step.
<1>3. ASSUME IsFiniteSet(Queued(n)'), IsFiniteSet(Delayed(n)'),
             IsFiniteSet(Prefetched(n)'), IsFiniteSet(AtWork(n, L)'),
             Cardinality(Queued(n)') + Cardinality(Delayed(n)')
               + Cardinality(Prefetched(n)') + Cardinality(AtWork(n, L)')
               + published[n] + redelivered[n]
             <= Cardinality(Queued(n)) + Cardinality(Delayed(n))
                  + Cardinality(Prefetched(n)) + Cardinality(AtWork(n, L))
                  + published'[n] + redelivered'[n]
      PROVE  Covered(n, L)
  <2>1. /\ Cardinality(Queued(n)') \in Nat /\ Cardinality(Delayed(n)') \in Nat
        /\ Cardinality(Prefetched(n)') \in Nat /\ Cardinality(AtWork(n, L)') \in Nat
        /\ published'[n] \in Nat /\ redelivered'[n] \in Nat
    BY <1>3, FS_CardinalityType, PaidNat
  <2>2. Cardinality(Queued(n)') + Cardinality(Delayed(n)')
          + Cardinality(Prefetched(n)') + Cardinality(AtWork(n, L)') + Paid(n)
        <= Cardinality(Queued(n)) + Cardinality(Delayed(n))
             + Cardinality(Prefetched(n)) + Cardinality(AtWork(n, L)) + Paid(n)'
    BY <1>1, <1>2, <1>3, <2>1
  <2> QED
    BY <1>3, <2>2, CoveredBySum
\* The steps that touch neither queues nor workers.
<1>4. ASSUME UNCHANGED <<main, retry, wire, unacked, pc, cur, published, redelivered>>
      PROVE  Covered(n, L)
  <2>1. UNCHANGED <<Queued(n), Delayed(n), Prefetched(n), AtWork(n, L)>>
    BY <1>4, PartsSame
  <2> QED
    BY <1>1, <1>2, <1>3, <1>4, <2>1, FS_CardinalityType
<1>5. CASE Forget \/ \E k \in Notifications, c \in Channels : Post(k, c)
  BY <1>4, <1>5 DEF Forget, Post, broker, worker, history
<1>6. ASSUME NEW k \in Notifications, Publish(k) PROVE Covered(n, L)
  <2> DEFINE m == [ch |-> channel[k], n |-> k, attempt |-> 1]
  <2>1. channel[k] \in Channels
    BY <1>6 DEF Publish, OwedHasRow, TypeInv, TypeOK
  <2>2. m \in Messages /\ m.n = k
    BY <2>1, DeliveryAssumption, MessageFields DEF DeliveryAssumption, Attempts
  <2>3. /\ main' = Put(main, m) /\ UNCHANGED <<retry, wire, unacked, pc, cur, redelivered>>
        /\ published' = [published EXCEPT ![k] = @ + 1]
    BY <1>6 DEF Publish, worker
  <2> HIDE DEF m
  <2>4. UNCHANGED <<Delayed(n), Prefetched(n), AtWork(n, L)>>
    BY <2>3, PartsSame
  <2>5. /\ IsFiniteSet(Queued(n)')
        /\ Cardinality(Queued(n)') <= Cardinality(Queued(n)) + (IF k = n THEN 1 ELSE 0)
    BY <1>0, <1>1, <2>2, <2>3, PutCounts DEF Queued
  <2>6. published'[n] = published[n] + (IF k = n THEN 1 ELSE 0)
    BY <1>0, <2>3
  <2>7. Cardinality(Queued(n)') \in Nat /\ redelivered'[n] = redelivered[n]
    BY <2>3, <2>5, FS_CardinalityType
  <2> QED
    BY <1>1, <1>2, <1>3, <2>4, <2>5, <2>6, <2>7
<1>7. ASSUME NEW w \in Workers, NEW m \in Messages, Deliver(w, m) PROVE Covered(n, L)
  <2> DEFINE one == IF m.n = n THEN 1 ELSE 0
  <2>1. /\ main' = Take(main, m) /\ main[m] > 0
        /\ unacked' = [unacked EXCEPT ![w] = Put(@, m)]
        /\ UNCHANGED <<retry, wire, pc, cur, published, redelivered>>
    BY <1>7 DEF Deliver, worker, history
  <2>2. UNCHANGED <<Delayed(n), AtWork(n, L)>>
    BY <2>1, PartsSame
  <2>3. /\ IsFiniteSet(Queued(n)')
        /\ Cardinality(Queued(n)') <= Cardinality(Queued(n)) - one
    BY <1>0, <1>1, <2>1, TakeCounts DEF Queued
  <2>4. /\ IsFiniteSet(Prefetched(n)')
        /\ Cardinality(Prefetched(n)') <= Cardinality(Prefetched(n)) + one
    <3>1. \A v \in Workers, k \in Messages :
            unacked'[v][k] <= unacked[v][k] + (IF v = w /\ k = m THEN 1 ELSE 0)
      <4>1. \A v \in Workers, k \in Messages : unacked[v][k] \in Nat
        BY <1>0 DEF Bags
      <4>2. unacked'[w] = Put(unacked[w], m) /\ \A v \in Workers : v # w => unacked'[v] = unacked[v]
        BY <1>0, <2>1
      <4>3. /\ unacked'[w][m] = unacked[w][m] + 1
            /\ \A k \in Messages : k # m => unacked'[w][k] = unacked[w][k]
        BY <1>0, <4>2, PutOne
      <4> QED
        BY <4>1, <4>2, <4>3
    <3>2. ASSUME NEW v \in Workers, NEW k \in Messages
          PROVE  /\ waiting[<<v, k>>] \in Int /\ waiting'[<<v, k>>] \in Int
                 /\ waiting'[<<v, k>>] <= waiting[<<v, k>>] + (IF v = w /\ k = m THEN 1 ELSE 0)
      <4> DEFINE busy == pc[v] # "idle" /\ cur[v] = k
      <4>1. /\ unacked[v][k] \in Nat /\ unacked'[v][k] \in Nat
            /\ waiting[<<v, k>>] \in Int /\ waiting'[<<v, k>>] \in Int
            /\ waiting[<<v, k>>] = unacked[v][k] - (IF busy THEN 1 ELSE 0)
        BY WaitingValue
      <4>2. UNCHANGED <<pc, cur>>
        BY <2>1
      <4>3. waiting'[<<v, k>>] = unacked'[v][k] - (IF busy THEN 1 ELSE 0)
        BY <4>2, WaitingValue
      <4> HIDE DEF busy
      <4> QED
        BY <3>1, <4>1, <4>3
    <3>5. CASE m.n = n
      <4>1. \A x \in Workers \X Of(n) :
              /\ waiting[x] \in Int /\ waiting'[x] \in Int
              /\ waiting'[x] <= waiting[x] + (IF x = <<w, m>> THEN 1 ELSE 0)
        BY <3>2 DEF Of
      <4> QED
        BY <1>1, <3>5, <4>1, TokensMore DEF Prefetched
    <3>6. CASE m.n # n
      <4>1. \A x \in Workers \X Of(n) :
              waiting[x] \in Int /\ waiting'[x] \in Int /\ waiting'[x] <= waiting[x]
        BY <3>2, <3>6 DEF Of
      <4> QED
        BY <1>1, <3>6, <4>1, TokensFewer DEF Prefetched
    <3> QED
      BY <3>5, <3>6
  <2>5. /\ Cardinality(Queued(n)') \in Nat /\ Cardinality(Prefetched(n)') \in Nat
        /\ UNCHANGED <<published, redelivered>>
    BY <2>1, <2>3, <2>4, FS_CardinalityType
  <2> QED
    BY <1>1, <1>2, <1>3, <2>2, <2>3, <2>4, <2>5
<1>8. ASSUME NEW m \in Messages, Expire(m) PROVE Covered(n, L)
  <2> DEFINE one == IF m.n = n THEN 1 ELSE 0
  <2>1. /\ main' = Put(main, m) /\ retry' = Take(retry, m) /\ retry[m] > 0
        /\ UNCHANGED <<unacked, pc, cur, published, redelivered>>
    BY <1>8 DEF Expire, worker, history
  <2>2. UNCHANGED <<Prefetched(n), AtWork(n, L)>>
    BY <2>1, PartsSame
  <2>3. /\ IsFiniteSet(Queued(n)')
        /\ Cardinality(Queued(n)') <= Cardinality(Queued(n)) + one
    BY <1>0, <1>1, <2>1, PutCounts DEF Queued
  <2>4. /\ IsFiniteSet(Delayed(n)')
        /\ Cardinality(Delayed(n)') <= Cardinality(Delayed(n)) - one
    BY <1>1, <1>8, ExpireCounts
  <2>5. /\ Cardinality(Queued(n)') \in Nat /\ Cardinality(Delayed(n)') \in Nat
        /\ UNCHANGED <<published, redelivered>>
    BY <2>1, <2>3, <2>4, FS_CardinalityType
  <2> QED
    BY <1>1, <1>2, <1>3, <2>2, <2>3, <2>4, <2>5
<1>9. ASSUME NEW w \in Workers, NEW m \in Messages, Requeue(w, m) PROVE Covered(n, L)
  <2> DEFINE one == IF m.n = n THEN 1 ELSE 0
  <2>1. /\ main' = Put(main, m) /\ redelivered' = [redelivered EXCEPT ![m.n] = @ + 1]
        /\ UNCHANGED <<retry, wire, unacked, pc, cur, published>>
    BY <1>9 DEF Requeue, worker
  <2>2. UNCHANGED <<Delayed(n), Prefetched(n), AtWork(n, L)>>
    BY <2>1, PartsSame
  <2>3. /\ IsFiniteSet(Queued(n)')
        /\ Cardinality(Queued(n)') <= Cardinality(Queued(n)) + one
    BY <1>0, <1>1, <2>1, PutCounts DEF Queued
  <2>4. redelivered'[n] = redelivered[n] + one
    BY <1>0, <2>1, MessageFields
  <2>5. Cardinality(Queued(n)') \in Nat /\ UNCHANGED published
    BY <2>1, <2>3, FS_CardinalityType
  <2> QED
    BY <1>1, <1>2, <1>3, <2>2, <2>3, <2>4, <2>5
<1>10. ASSUME NEW w \in Workers, NEW m \in Messages, Receive(w, m) PROVE Covered(n, L)
  <2>1. /\ pc[w] = "idle" /\ unacked[w][m] > 0
        /\ pc'[w] = "find" /\ cur'[w] = m
        /\ \A v \in Workers : v # w => UNCHANGED <<pc[v], cur[v]>>
        /\ UNCHANGED <<main, retry, wire, unacked, published, redelivered>>
    BY <1>0, <1>10 DEF Receive, Goto, broker, history
  <2>2. UNCHANGED <<Queued(n), Delayed(n)>>
    BY <2>1, PartsSame
  <2>3. \A v \in Workers, k \in Messages :
          /\ waiting[<<v, k>>] \in Int /\ unacked[v][k] \in Nat
          /\ waiting[<<v, k>>] = unacked[v][k] - (IF pc[v] # "idle" /\ cur[v] = k THEN 1 ELSE 0)
    BY WaitingValue
  <2>4. \A v \in Workers, k \in Messages :
          /\ waiting'[<<v, k>>] \in Int
          /\ waiting'[<<v, k>>] = unacked[v][k] - (IF pc'[v] # "idle" /\ cur'[v] = k THEN 1 ELSE 0)
    <3>1. UNCHANGED unacked
      BY <2>1
    <3> QED
      BY <3>1, WaitingValue
  <2>5. \A v \in Workers, k \in Messages :
          waiting'[<<v, k>>] <= waiting[<<v, k>>] - (IF v = w /\ k = m THEN 1 ELSE 0)
    <3>1. ASSUME NEW v \in Workers, NEW k \in Messages
          PROVE  waiting'[<<v, k>>] <= waiting[<<v, k>>] - (IF v = w /\ k = m THEN 1 ELSE 0)
      <4>1. CASE v = w
        BY <2>1, <2>3, <2>4, <4>1
      <4>2. CASE v # w
        BY <2>1, <2>3, <2>4, <4>2
      <4> QED
        BY <4>1, <4>2
    <3> QED
      BY <3>1
  <2>6. CASE m.n = n
    <3>1. \A x \in Workers \X Of(n) :
            /\ waiting[x] \in Int /\ waiting'[x] \in Int
            /\ waiting'[x] <= waiting[x] - (IF x = <<w, m>> THEN 1 ELSE 0)
      BY <2>3, <2>4, <2>5 DEF Of
    <3>2. <<w, m>> \in Workers \X Of(n) /\ waiting[<<w, m>>] >= 1
      BY <2>1, <2>3, <2>6 DEF Of
    <3>3. /\ IsFiniteSet(Prefetched(n)')
          /\ Cardinality(Prefetched(n)') <= Cardinality(Prefetched(n)) - 1
      BY <1>1, <3>1, <3>2, TokensLess DEF Prefetched
    <3>4. AtWork(n, L)' \subseteq AtWork(n, L) \cup {w}
      BY <2>1 DEF AtWork
    <3>5. /\ IsFiniteSet(AtWork(n, L)')
          /\ Cardinality(AtWork(n, L)') <= Cardinality(AtWork(n, L)) + 1
      <4>1. /\ IsFiniteSet(AtWork(n, L) \cup {w})
            /\ Cardinality(AtWork(n, L) \cup {w}) <= Cardinality(AtWork(n, L)) + 1
        <5>1. /\ IsFiniteSet(AtWork(n, L) \cup {w})
              /\ \/ Cardinality(AtWork(n, L) \cup {w}) = Cardinality(AtWork(n, L))
                 \/ Cardinality(AtWork(n, L) \cup {w}) = Cardinality(AtWork(n, L)) + 1
          BY <1>1, FS_AddElement
        <5> QED
          BY <1>1, <5>1
      <4>2. /\ IsFiniteSet(AtWork(n, L)')
            /\ Cardinality(AtWork(n, L)') <= Cardinality(AtWork(n, L) \cup {w})
        BY <3>4, <4>1, FS_Subset
      <4>3. Cardinality(AtWork(n, L) \cup {w}) \in Nat /\ Cardinality(AtWork(n, L)') \in Nat
        BY <4>1, <4>2, FS_CardinalityType
      <4> QED
        BY <1>1, <4>1, <4>2, <4>3
    <3>6. /\ Cardinality(Prefetched(n)') \in Nat /\ Cardinality(AtWork(n, L)') \in Nat
          /\ UNCHANGED <<published, redelivered>>
      BY <2>1, <3>3, <3>5, FS_CardinalityType
    <3> QED
      BY <1>1, <1>2, <1>3, <2>2, <3>3, <3>5, <3>6
  <2>7. CASE m.n # n
    <3>1. /\ IsFiniteSet(Prefetched(n)')
          /\ Cardinality(Prefetched(n)') <= Cardinality(Prefetched(n))
      <4>1. ASSUME NEW v \in Workers, NEW k \in Messages
            PROVE  waiting'[<<v, k>>] <= waiting[<<v, k>>]
        <5>1. /\ waiting[<<v, k>>] \in Int /\ waiting'[<<v, k>>] \in Int
              /\ waiting'[<<v, k>>] <= waiting[<<v, k>>] - (IF v = w /\ k = m THEN 1 ELSE 0)
          BY <2>3, <2>4, <2>5
        <5> QED
          BY <5>1
      <4> QED
        BY <1>1, <4>1, PrefetchedFewer
    <3>2. AtWork(n, L)' \subseteq AtWork(n, L)
      BY <2>1, <2>7 DEF AtWork
    <3>3. IsFiniteSet(AtWork(n, L)') /\ Cardinality(AtWork(n, L)') <= Cardinality(AtWork(n, L))
      BY <1>1, <3>2, FS_Subset
    <3>4. /\ Cardinality(Prefetched(n)') \in Nat /\ Cardinality(AtWork(n, L)') \in Nat
          /\ UNCHANGED <<published, redelivered>>
      BY <2>1, <3>1, <3>3, FS_CardinalityType
    <3> QED
      BY <1>1, <1>2, <1>3, <2>2, <3>1, <3>3, <3>4
  <2> QED
    BY <2>6, <2>7
<1>11. ASSUME NEW w \in Workers, LoseConnection(w) PROVE Covered(n, L)
  <2>1. /\ unacked' = [unacked EXCEPT ![w] = EmptyBag]
        /\ wire' = [wire EXCEPT ![w] = << >>]
        /\ UNCHANGED <<main, retry, pc, cur, published, redelivered>>
    BY <1>11 DEF LoseConnection, worker
  <2>2. UNCHANGED <<Queued(n), AtWork(n, L)>>
    BY <2>1, PartsSame
  <2>7. IsFiniteSet(Delayed(n)') /\ Cardinality(Delayed(n)') <= Cardinality(Delayed(n))
    <3>1. \A v \in Workers : wire'[v] = IF v = w THEN << >> ELSE wire[v]
      BY <1>0, <2>1
    <3>2. \A v \in Workers : \A i \in DOMAIN wire'[v] : i \in DOMAIN wire[v] /\ wire'[v][i] = wire[v][i]
      BY <3>1
    <3> QED
      BY <1>1, <2>1, <3>2, DelayedFewer
  <2>3. \A v \in Workers, k \in Messages : unacked'[v][k] <= unacked[v][k]
    BY <1>0, <2>1, BagFacts DEF Bags
  <2>4. \A v \in Workers, k \in Messages : waiting'[<<v, k>>] <= waiting[<<v, k>>]
    <3>1. ASSUME NEW v \in Workers, NEW k \in Messages
          PROVE  waiting'[<<v, k>>] <= waiting[<<v, k>>]
      <4> DEFINE busy == pc[v] # "idle" /\ cur[v] = k
      <4>1. /\ unacked[v][k] \in Nat /\ unacked'[v][k] \in Nat
            /\ waiting[<<v, k>>] = unacked[v][k] - (IF busy THEN 1 ELSE 0)
        BY WaitingValue
      <4>2. UNCHANGED <<pc, cur>>
        BY <2>1
      <4>3. waiting'[<<v, k>>] = unacked'[v][k] - (IF busy THEN 1 ELSE 0)
        BY <4>2, WaitingValue
      <4> HIDE DEF busy
      <4> QED
        BY <2>3, <4>1, <4>3
    <3> QED
      BY <3>1
  <2>5. IsFiniteSet(Prefetched(n)') /\ Cardinality(Prefetched(n)') <= Cardinality(Prefetched(n))
    BY <1>1, <2>4, PrefetchedFewer
  <2>6. Cardinality(Prefetched(n)') \in Nat /\ Cardinality(Delayed(n)') \in Nat
    BY <2>5, <2>7, FS_CardinalityType
  <2>8. published'[n] = published[n] /\ redelivered'[n] = redelivered[n]
    BY <2>1
  <2> QED
    BY <1>1, <1>2, <1>3, <2>2, <2>5, <2>6, <2>7, <2>8
<1>12. CASE Crash
  <2>1. /\ \A v \in Workers : pc'[v] = "idle" /\ unacked'[v] = EmptyBag /\ wire'[v] = << >>
        /\ UNCHANGED <<main, retry, published, redelivered>>
    BY <1>12 DEF Crash
  <2>2. UNCHANGED Queued(n)
    BY <2>1, PartsSame
  <2>5. IsFiniteSet(Delayed(n)') /\ Cardinality(Delayed(n)') <= Cardinality(Delayed(n))
    BY <1>1, <2>1, DelayedFewer
  <2>6. Cardinality(Delayed(n)') \in Nat
    BY <2>5, FS_CardinalityType
  <2>3. AtWork(n, L)' = {}
    BY <2>1 DEF AtWork, Unfinished
  <2>4. Prefetched(n)' = {}
    <3>1. \A x \in Workers \X Of(n) : waiting'[x] = 0
      BY <2>1, BagFacts DEF waiting, Of
    <3>2. \A t : t \notin Tokens(waiting', Workers \X Of(n))
      BY <3>1, TokensMember
    <3> QED
      BY <3>2 DEF Prefetched
  <2> QED
    BY <1>1, <1>2, <1>3, <2>1, <2>2, <2>3, <2>4, <2>5, <2>6, FS_EmptySet
<1>13. ASSUME NEW w \in Workers, ReadFrame(w) PROVE Covered(n, L)
  <2>1. UNCHANGED <<main, unacked, pc, cur, published, redelivered>>
    BY <1>13 DEF ReadFrame, worker, history
  <2>2. UNCHANGED <<Queued(n), Prefetched(n), AtWork(n, L)>>
    BY <2>1, PartsSame
  <2>3. IsFiniteSet(Delayed(n)') /\ Cardinality(Delayed(n)') <= Cardinality(Delayed(n))
    BY <1>1, <1>13, ReadCounts
  <2>4. Cardinality(Delayed(n)') \in Nat
    BY <2>3, FS_CardinalityType
  <2> QED
    BY <1>1, <1>2, <1>3, <2>1, <2>2, <2>3, <2>4
<1> QED
  BY <1>5, <1>6, <1>7, <1>8, <1>9, <1>10, <1>11, <1>12, <1>13 DEF Environment, System

\* Where a step of onMessage goes from where it stands.
Moves ==
  {<<"find", "ack">>, <<"find", "markProcessing">>, <<"markProcessing", "send">>,
   <<"send", "recordSuccess">>, <<"recordSuccess", "markSent">>, <<"markSent", "countSuccess">>,
   <<"countSuccess", "ack">>, <<"send", "countFailure">>,
   <<"countFailure", "recordRetry">>, <<"recordRetry", "publishRetry">>, <<"publishRetry", "ack">>,
   <<"countFailure", "recordDead">>, <<"recordDead", "publishDlq">>, <<"publishDlq", "markDead">>,
   <<"markDead", "ack">>, <<"ack", "idle">>}

(* A handler takes one move, and all others stay where they are.           *)
LEMMA HandlerMoves ==
  ASSUME TypeInv, NEW w \in Workers, OnMessage(w)
  PROVE  /\ <<pc[w], pc'[w]>> \in Moves
         /\ \A v \in Workers : v # w => UNCHANGED <<pc[v], cur[v]>>
         /\ pc'[w] # "idle" => UNCHANGED cur[w]
         /\ Ack(w) <=> pc[w] = "ack"
         /\ PublishRetry(w) <=> pc[w] = "publishRetry"
<1> DEFINE Moved == /\ <<pc[w], pc'[w]>> \in Moves
                    /\ Ack(w) <=> pc[w] = "ack"
                    /\ PublishRetry(w) <=> pc[w] = "publishRetry"
<1> SUFFICES Moved
  BY CopiesOnMessage
<1>1. pc \in [Workers -> Labels]
  BY DEF TypeInv, TypeOK, WorkerOK
<1>2. ASSUME NEW a, NEW b, Step(w, a, b), a \notin {"ack", "publishRetry"}, <<a, b>> \in Moves
      PROVE  Moved
  BY <1>1, <1>2 DEF Step, Goto, Ack, PublishRetry
<1>3. ASSUME NEW a, NEW b, Statement(w, a, b), a \notin {"ack", "publishRetry"}, <<a, b>> \in Moves
      PROVE  Moved
  BY <1>2, <1>3 DEF Statement
<1>4. CASE Find(w)
  <2>1. CASE status[cur[w].n] \in Skipped
    BY <1>3, <1>4, <2>1 DEF Find, Moves
  <2>2. CASE status[cur[w].n] \notin Skipped
    BY <1>3, <1>4, <2>2 DEF Find, Moves
  <2> QED
    BY <2>1, <2>2
<1>5. CASE MarkProcessing(w)
  BY <1>3, <1>5 DEF MarkProcessing, Moves
<1>6. CASE SendSucceeds(w)
  BY <1>2, <1>6 DEF SendSucceeds, Moves
<1>7. ASSUME NEW f \in {"transient", "permanent"}, SendFails(w, f) PROVE Moved
  BY <1>2, <1>7 DEF SendFails, Moves
<1>8. CASE RecordSuccess(w)
  BY <1>3, <1>8 DEF RecordSuccess, Moves
<1>9. CASE MarkSent(w)
  BY <1>3, <1>9 DEF MarkSent, Moves
<1>10. CASE CountSuccess(w)
  BY <1>3, <1>10 DEF CountSuccess, Moves
<1>11. CASE CountFailure(w)
  <2>1. CASE Retried(w)
    BY <1>3, <1>11, <2>1 DEF CountFailure, Moves
  <2>2. CASE ~Retried(w)
    BY <1>3, <1>11, <2>2 DEF CountFailure, Moves
  <2> QED
    BY <2>1, <2>2
<1>12. CASE RecordRetry(w)
  BY <1>3, <1>12 DEF RecordRetry, Moves
<1>13. CASE PublishRetry(w)
  BY <1>1, <1>13 DEF PublishRetry, Step, Goto, Moves, Ack
<1>14. CASE RecordDead(w)
  BY <1>3, <1>14 DEF RecordDead, Moves
<1>15. CASE PublishDlq(w)
  BY <1>2, <1>15 DEF PublishDlq, Moves
<1>16. CASE MarkDead(w)
  BY <1>3, <1>16 DEF MarkDead, Moves
<1>17. CASE Ack(w)
  BY <1>1, <1>17 DEF Ack, Goto, Moves, PublishRetry, Step
<1> QED
  BY <1>4, <1>5, <1>6, <1>7, <1>8, <1>9, <1>10, <1>11, <1>12, <1>13, <1>14, <1>15, <1>16, <1>17
     DEF OnMessage

(* None of the three sets of labels is entered but by Receive.             *)
LEMMA LabelsForward ==
  ASSUME TypeInv, NEW w \in Workers, OnMessage(w), NEW L \in {Unsent, Undecided, Unfinished}
  PROVE  /\ L \subseteq Unfinished /\ "publishRetry" \in L
         /\ pc'[w] \in L => pc[w] \in L
<1>1. <<pc[w], pc'[w]>> \in Moves
  BY HandlerMoves
<1>2. CASE L = Unsent
  BY <1>1, <1>2 DEF Moves, Unsent, Unfinished, Labels
<1>3. CASE L = Undecided
  BY <1>1, <1>3 DEF Moves, Undecided, Unfinished, Labels
<1>4. CASE L = Unfinished
  BY <1>1, <1>4 DEF Moves, Unfinished, Labels
<1> QED
  BY <1>2, <1>3, <1>4

(* A handler adds no delivery that waits.                                  *)
LEMMA HandlerWaiting ==
  ASSUME TypeInv, TypeInv', LostHoldsNothing, NEW w \in Workers, OnMessage(w)
  PROVE  \A v \in Workers, k \in Messages :
           waiting'[<<v, k>>] <= waiting[<<v, k>>] \/ waiting'[<<v, k>>] <= 0
<1>0. /\ unacked \in [Workers -> Bags] /\ pc \in [Workers -> Labels]
      /\ conn \in [Workers -> {"up", "lost"}]
  BY DEF TypeInv, TypeOK, BrokerOK, WorkerOK
<1>1. \A v \in Workers, k \in Messages :
        /\ unacked[v][k] \in Nat
        /\ waiting[<<v, k>>] = unacked[v][k] - (IF pc[v] # "idle" /\ cur[v] = k THEN 1 ELSE 0)
  BY WaitingValue
<1>2. \A v \in Workers, k \in Messages :
        /\ unacked'[v][k] \in Nat
        /\ waiting'[<<v, k>>] = unacked'[v][k] - (IF pc'[v] # "idle" /\ cur'[v] = k THEN 1 ELSE 0)
  BY WaitingValue
<1>3. /\ pc[w] # "idle" /\ \A v \in Workers : v # w => UNCHANGED <<pc[v], cur[v]>>
      /\ pc'[w] # "idle" => UNCHANGED cur[w]
      /\ Ack(w) <=> pc[w] = "ack"
      /\ <<pc[w], pc'[w]>> \in Moves
      /\ Ack(w) \/ UNCHANGED unacked
  BY HandlerMoves, HandlerFrame
<1>4. CASE ~Ack(w)
  <2>1. pc'[w] # "idle"
    BY <1>3, <1>4 DEF Moves
  <2>2. ASSUME NEW v \in Workers, NEW k \in Messages
        PROVE  waiting'[<<v, k>>] <= waiting[<<v, k>>]
    <3>1. UNCHANGED unacked /\ pc[w] # "idle" /\ UNCHANGED cur[w]
          /\ (v # w => UNCHANGED <<pc[v], cur[v]>>)
      BY <1>3, <1>4, <2>1
    <3>2. (pc'[v] # "idle" /\ cur'[v] = k) <=> (pc[v] # "idle" /\ cur[v] = k)
      BY <2>1, <3>1
    <3> QED
      BY <1>1, <1>2, <3>1, <3>2
  <2> QED
    BY <2>2
<1>5. CASE Ack(w)
  <2>1. pc'[w] = "idle"
    BY <1>0, <1>5 DEF Ack, Goto
  <2>2. cur[w] \in Messages
    BY <1>3, BusyMessage DEF TypeInv
  <2>3. \A v \in Workers : v # w => unacked'[v] = unacked[v]
    BY <1>0, <1>5 DEF Ack
  <2>4. CASE conn[w] = "up"
    <3>1. unacked'[w] = Take(unacked[w], cur[w]) /\ unacked[w] \in Bags /\ unacked[w][cur[w]] > 0
      BY <1>0, <1>3, <1>5, <2>4 DEF Ack, TypeInv, TypeOK, BusyHolds
    <3>2. \A k \in Messages : unacked'[w][k] = unacked[w][k] - (IF k = cur[w] THEN 1 ELSE 0)
      <4>1. /\ unacked'[w][cur[w]] = unacked[w][cur[w]] - 1
            /\ \A k \in Messages : k # cur[w] => unacked'[w][k] = unacked[w][k]
        BY <2>2, <3>1, TakeOne
      <4>2. \A k \in Messages : unacked[w][k] \in Nat
        BY <1>1
      <4>3. ASSUME NEW k \in Messages
            PROVE  unacked'[w][k] = unacked[w][k] - (IF k = cur[w] THEN 1 ELSE 0)
        BY <4>1, <4>2, <4>3
      <4> QED
        BY <4>3
    <3>3. \A k \in Messages : waiting'[<<w, k>>] <= waiting[<<w, k>>]
      BY <1>1, <1>2, <1>3, <2>1, <3>2
    <3>4. \A v \in Workers, k \in Messages : v # w => waiting'[<<v, k>>] <= waiting[<<v, k>>]
      BY <1>1, <1>2, <1>3, <2>3
    <3> QED
      BY <3>3, <3>4
  <2>5. CASE conn[w] # "up"
    <3>1. \A k \in Messages : unacked'[w][k] = 0
      BY <1>0, <1>5, <2>5 DEF Ack, LostHoldsNothing
    <3>2. \A k \in Messages : waiting'[<<w, k>>] <= 0
      BY <1>2, <2>1, <3>1
    <3>3. \A v \in Workers, k \in Messages : v # w => waiting'[<<v, k>>] <= waiting[<<v, k>>]
      BY <1>1, <1>2, <1>3, <2>3
    <3> QED
      BY <3>2, <3>3
  <2> QED
    BY <2>4, <2>5
<1> QED
  BY <1>4, <1>5

(* What a handler publishes as a retry is the next attempt.                *)
LEMMA NextIsMessage ==
  ASSUME TypeInv, NEW w \in Workers, pc[w] = "publishRetry"
  PROVE  NextAttempt(w) \in Messages /\ NextAttempt(w).n = cur[w].n
<1>1. ~Exhausted(cur[w]) /\ cur[w].attempt \in Attempts /\ cur[w].n \in Notifications
  BY BusyMessage DEF TypeInv, RetryAllowed
<1>2. cur[w].attempt + 1 \in Attempts
  BY <1>1, DeliveryAssumption DEF Exhausted, Attempts, DeliveryAssumption
<1> QED
  BY <1>1, <1>2, MessageFields, DeliveryAssumption DEF NextAttempt, DeliveryAssumption

(* No other statement sends a retry.                                       *)
LEMMA HandlerDelayed ==
  ASSUME TypeInv, NEW w \in Workers, OnMessage(w), NEW n \in Notifications, IsFiniteSet(Delayed(n))
  PROVE  /\ IsFiniteSet(Delayed(n)')
         /\ Cardinality(Delayed(n)') <=
              Cardinality(Delayed(n)) + (IF pc[w] = "publishRetry" /\ cur[w].n = n THEN 1 ELSE 0)
<1>1. /\ UNCHANGED retry /\ pc[w] # "idle" /\ cur[w] \in Messages /\ cur[w].n \in Notifications
      /\ Ack(w) \/ PublishRetry(w) \/ PublishDlq(w) \/ UNCHANGED wire
  BY HandlerFrame, BusyMessage DEF TypeInv
<1>2. Cardinality(Delayed(n)) \in Nat
  BY FS_CardinalityType
<1>3. ASSUME NEW k \in {"dlq", "ack"}, NEW m \in Messages, SendFrame(w, k, m)
      PROVE  IsFiniteSet(Delayed(n)') /\ Cardinality(Delayed(n)') <= Cardinality(Delayed(n))
  <2>1. /\ IsFiniteSet(Delayed(n)')
        /\ Cardinality(Delayed(n)') <=
             Cardinality(Delayed(n)) + (IF k = "retry" /\ m.n = n THEN 1 ELSE 0)
    BY <1>1, <1>3, SendCounts
  <2> QED
    BY <1>2, <2>1
<1>4. CASE Ack(w)
  <2>1. SendFrame(w, "ack", cur[w])
    BY <1>4 DEF Ack
  <2>2. IsFiniteSet(Delayed(n)') /\ Cardinality(Delayed(n)') <= Cardinality(Delayed(n))
    BY <1>1, <1>3, <2>1
  <2> QED
    BY <1>2, <2>2, FS_CardinalityType
<1>5. CASE PublishDlq(w)
  <2> DEFINE m == [cur[w] EXCEPT !.ch = WorkerChannel[w]]
  <2>1. m \in Messages
    BY <1>1, DeliveryAssumption DEF DeliveryAssumption, Messages
  <2>2. SendFrame(w, "dlq", m)
    BY <1>5 DEF PublishDlq
  <2> HIDE DEF m
  <2>3. IsFiniteSet(Delayed(n)') /\ Cardinality(Delayed(n)') <= Cardinality(Delayed(n))
    BY <1>3, <2>1, <2>2
  <2> QED
    BY <1>2, <2>3, FS_CardinalityType
<1>6. CASE PublishRetry(w)
  <2>1. pc[w] = "publishRetry" /\ SendFrame(w, "retry", NextAttempt(w))
    BY <1>6 DEF PublishRetry, Step
  <2>2. NextAttempt(w) \in Messages /\ NextAttempt(w).n = cur[w].n
    BY <2>1, NextIsMessage
  <2> QED
    BY <1>1, <2>1, <2>2, SendCounts
<1>7. CASE UNCHANGED wire
  <2>1. UNCHANGED Delayed(n)
    BY <1>1, <1>7, PartsSame
  <2> QED
    BY <1>2, <2>1
<1> QED
  BY <1>1, <1>4, <1>5, <1>6, <1>7

(* A handler adds no work, and uses up its copy when it leaves L without   *)
(* publishing a retry.                                                     *)
LEMMA CoveredOnMessage ==
  ASSUME TypeInv, TypeInv', LostHoldsNothing, NEW n \in Notifications,
         NEW L \in {Unsent, Undecided, Unfinished}, Countable(n, L),
         NEW w \in Workers, OnMessage(w)
  PROVE  /\ Covered(n, L) /\ UNCHANGED Paid(n)
         /\ n = cur[w].n /\ pc[w] \in L /\ pc'[w] \notin L /\ pc[w] # "publishRetry"
              => Work(n, L)' <= Work(n, L) - 1
<1>0. /\ IsFiniteSet(Queued(n)) /\ Cardinality(Queued(n)) \in Nat
      /\ IsFiniteSet(Delayed(n)) /\ Cardinality(Delayed(n)) \in Nat
      /\ IsFiniteSet(Prefetched(n)) /\ Cardinality(Prefetched(n)) \in Nat
      /\ IsFiniteSet(AtWork(n, L)) /\ Cardinality(AtWork(n, L)) \in Nat
  BY FS_CardinalityType DEF Countable
<1>1. UNCHANGED <<main, published, redelivered>>
  BY HandlerFrame DEF history
<1>2. UNCHANGED Queued(n) /\ UNCHANGED Paid(n)
  BY <1>1, PartsSame DEF Paid
<1>3. Paid(n) \in Nat
  BY PaidNat
<1>4. IsFiniteSet(Prefetched(n)') /\ Cardinality(Prefetched(n)') <= Cardinality(Prefetched(n))
  BY <1>0, HandlerWaiting, PrefetchedFewer
<1>5. Cardinality(Prefetched(n)') \in Nat
  BY <1>4, FS_CardinalityType
<1>6. /\ \A v \in Workers : v # w => UNCHANGED <<pc[v], cur[v]>>
      /\ pc'[w] # "idle" => UNCHANGED cur[w]
      /\ PublishRetry(w) <=> pc[w] = "publishRetry"
      /\ <<pc[w], pc'[w]>> \in Moves
  BY HandlerMoves
<1>7. /\ "idle" \notin L /\ "ack" \notin L /\ "publishRetry" \in L
      /\ pc'[w] \in L => pc[w] \in L
  BY LabelsForward DEF Unfinished
<1>8. AtWork(n, L)' \subseteq AtWork(n, L)
  BY <1>6, <1>7 DEF AtWork
<1>9. IsFiniteSet(AtWork(n, L)') /\ Cardinality(AtWork(n, L)') <= Cardinality(AtWork(n, L))
  BY <1>0, <1>8, FS_Subset
<1>10. Cardinality(AtWork(n, L)') \in Nat
  BY <1>9, FS_CardinalityType
\* The copy of a handler that leaves L.
<1>11. ASSUME n = cur[w].n, pc[w] \in L, pc'[w] \notin L
       PROVE  Cardinality(AtWork(n, L)') <= Cardinality(AtWork(n, L)) - 1
  <2>1. w \in AtWork(n, L) /\ AtWork(n, L)' \subseteq AtWork(n, L) \ {w}
    BY <1>6, <1>8, <1>11 DEF AtWork
  <2>2. /\ IsFiniteSet(AtWork(n, L) \ {w})
        /\ Cardinality(AtWork(n, L) \ {w}) = Cardinality(AtWork(n, L)) - 1
    BY <1>0, <2>1, FS_RemoveElement
  <2>3. Cardinality(AtWork(n, L)') <= Cardinality(AtWork(n, L) \ {w})
    BY <2>1, <2>2, FS_Subset
  <2> QED
    BY <2>2, <2>3
<1>12. /\ IsFiniteSet(Delayed(n)') /\ Cardinality(Delayed(n)') \in Nat
       /\ Cardinality(Delayed(n)') <=
            Cardinality(Delayed(n)) + (IF pc[w] = "publishRetry" /\ cur[w].n = n THEN 1 ELSE 0)
  BY <1>0, HandlerDelayed, FS_CardinalityType
<1>13. CASE pc[w] # "publishRetry"
  <2>1. Cardinality(Delayed(n)') <= Cardinality(Delayed(n))
    BY <1>0, <1>12, <1>13
  <2>2. Covered(n, L)
    BY <1>0, <1>2, <1>3, <1>4, <1>5, <1>9, <1>10, <1>12, <2>1, CoveredBySum
  <2>3. ASSUME n = cur[w].n, pc[w] \in L, pc'[w] \notin L
        PROVE  Work(n, L)' <= Work(n, L) - 1
    <3>1. Cardinality(AtWork(n, L)') <= Cardinality(AtWork(n, L)) - 1
      BY <1>11, <2>3
    <3> QED
      BY <1>0, <1>2, <1>4, <1>9, <1>12, <2>1, <3>1, WorkSum
  <2> QED
    BY <1>2, <1>13, <2>2, <2>3
<1>14. CASE pc[w] = "publishRetry"
  <2>1. pc[w] \in L /\ pc'[w] \notin L
    BY <1>6, <1>7, <1>14 DEF Moves
  <2>2. Cardinality(AtWork(n, L)')
          <= Cardinality(AtWork(n, L)) - (IF cur[w].n = n THEN 1 ELSE 0)
    BY <1>0, <1>9, <1>10, <1>11, <2>1
  <2>3. Covered(n, L)
    BY <1>0, <1>2, <1>3, <1>4, <1>5, <1>9, <1>10, <1>12, <1>14, <2>2, CoveredBySum
  <2> QED
    BY <1>2, <1>14, <2>3
<1> QED
  BY <1>13, <1>14

(* Every step of the system is covered.                                    *)
LEMMA CoveredStep ==
  ASSUME TypeInv, TypeInv', LostHoldsNothing, [Next]_vars, NEW n \in Notifications,
         NEW L \in {Unsent, Undecided, Unfinished}, Countable(n, L)
  PROVE  Covered(n, L)
<1>1. ASSUME NEW w \in Workers, OnMessage(w) PROVE Covered(n, L)
  BY <1>1, CoveredOnMessage
<1>2. CASE Next /\ ~\E w \in Workers : OnMessage(w)
  <2>1. L \subseteq Unfinished
    BY DEF Unsent, Undecided, Unfinished, Labels
  <2> QED
    BY <1>2, <2>1, CoveredOutside DEF Next
<1>3. CASE UNCHANGED vars
  <2>1. UNCHANGED <<main, retry, wire, unacked, pc, cur, published, redelivered>>
    BY <1>3 DEF vars, broker, worker, history
  <2>2. UNCHANGED <<Queued(n), Delayed(n), Prefetched(n), AtWork(n, L)>>
    BY <2>1, PartsSame
  <2>3. UNCHANGED Paid(n)
    BY <2>1 DEF Paid
  <2>4. /\ IsFiniteSet(Queued(n)) /\ Cardinality(Queued(n)) \in Nat
        /\ IsFiniteSet(Delayed(n)) /\ Cardinality(Delayed(n)) \in Nat
        /\ IsFiniteSet(Prefetched(n)) /\ Cardinality(Prefetched(n)) \in Nat
        /\ IsFiniteSet(AtWork(n, L)) /\ Cardinality(AtWork(n, L)) \in Nat
        /\ Paid(n) \in Nat
    BY FS_CardinalityType, PaidNat DEF Countable
  <2> QED
    BY <2>2, <2>3, <2>4, CoveredBySum
<1> QED
  BY <1>1, <1>2, <1>3

(* At first there is no work and nothing is paid.                          *)
LEMMA CoveredInit ==
  ASSUME Init, NEW n \in Notifications, NEW L, "idle" \notin L
  PROVE  Countable(n, L) /\ Work(n, L) = 0 /\ Paid(n) = 0
<1>1. \A m \in Messages : main[m] = 0 /\ retry[m] = 0
  BY BagFacts DEF Init
<1>2. \A x \in Workers \X Of(n) : waiting[x] = 0
  BY BagFacts DEF Init, waiting, Of
<1>3. \A t : t \notin Tokens(main, Of(n)) /\ t \notin Tokens(waiting, Workers \X Of(n))
  BY <1>1, <1>2, TokensMember DEF Of
<1>7. \A t : t \notin Delayed(n)
  <2>1. \A m \in Of(n) : retry[m] = 0
    BY <1>1 DEF Of
  <2>2. \A w \in Workers : wire[w] = << >>
    BY DEF Init
  <2> QED
    BY <2>1, <2>2, DelayedMember
<1>4. Queued(n) = {} /\ Delayed(n) = {} /\ Prefetched(n) = {}
  BY <1>3, <1>7 DEF Queued, Prefetched
<1>5. AtWork(n, L) = {}
  BY DEF AtWork, Init
<1>6. Paid(n) = 0
  BY DEF Paid, Init
<1> QED
  BY <1>4, <1>5, <1>6, FS_EmptySet DEF Countable, Work

-----------------------------------------------------------------------------
(* A send uses up the copy it was made for, and a handler that has sent    *)
(* does not publish a retry: what is sent was paid for by a publish of the *)
(* API or by a redelivery, whatever crashes or breaks.                     *)
LEMMA SendsInvariant == Spec => []SendsBacked
<1>1. Init => SendsBacked
  <2> SUFFICES ASSUME Init, NEW n \in Notifications
               PROVE  Countable(n, Unsent) /\ accepted[n] + Work(n, Unsent) <= Paid(n)
    BY DEF SendsBacked
  <2>1. Countable(n, Unsent) /\ Work(n, Unsent) = 0 /\ Paid(n) = 0
    BY CoveredInit DEF Unsent
  <2>2. accepted[n] = 0
    BY DEF Init
  <2> QED
    BY <2>1, <2>2
<1>2. TypeInv /\ TypeInv' /\ LostHoldsNothing /\ SendsBacked /\ [Next]_vars => SendsBacked'
  <2> SUFFICES ASSUME TypeInv, TypeInv', LostHoldsNothing, SendsBacked, [Next]_vars,
                      NEW n \in Notifications
               PROVE  Countable(n, Unsent)' /\ accepted'[n] + Work(n, Unsent)' <= Paid(n)'
    BY DEF SendsBacked
  <2>1. Countable(n, Unsent) /\ accepted[n] + Work(n, Unsent) <= Paid(n)
    BY DEF SendsBacked
  <2>2. /\ Countable(n, Unsent)' /\ Work(n, Unsent) \in Nat /\ Work(n, Unsent)' \in Nat
        /\ Work(n, Unsent)' + Paid(n) <= Work(n, Unsent) + Paid(n)'
    BY <2>1, CoveredStep DEF Covered
  <2>3. accepted \in [Notifications -> Nat] /\ Paid(n) \in Nat /\ Paid(n)' \in Nat
    BY PaidNat DEF TypeInv, TypeOK, CountersOK
  <2>4. ASSUME NEW w \in Workers, SendSucceeds(w), cur[w].n = n
        PROVE  accepted'[n] + Work(n, Unsent)' <= Paid(n)'
    <3>1. /\ pc[w] = "send" /\ pc'[w] = "recordSuccess" /\ OnMessage(w)
          /\ accepted'[n] = accepted[n] + 1
      BY <2>3, <2>4 DEF SendSucceeds, Step, Goto, OnMessage, TypeInv, TypeOK, WorkerOK
    <3>2. Work(n, Unsent)' <= Work(n, Unsent) - 1 /\ UNCHANGED Paid(n)
      BY <2>1, <2>4, <3>1, CoveredOnMessage DEF Unsent
    <3> QED
      BY <2>1, <2>2, <2>3, <3>1, <3>2
  <2>5. CASE ~\E w \in Workers : SendSucceeds(w) /\ cur[w].n = n
    <3>1. accepted'[n] = accepted[n]
      <4>1. CASE \E w \in Workers : SendSucceeds(w)
        BY <2>3, <2>5, <4>1 DEF SendSucceeds
      <4>2. CASE ~\E w \in Workers : SendSucceeds(w)
        BY <4>2, HandlerFrame DEF Next, Environment, System, Post, Forget, LoseConnection, Crash,
           Publish, Expire, Deliver, Requeue, Receive, ReadFrame, vars
      <4> QED
        BY <4>1, <4>2
    <3> QED
      BY <2>1, <2>2, <2>3, <3>1
  <2> QED
    BY <2>2, <2>4, <2>5
<1> QED
  BY <1>1, <1>2, TypeInvariant, LostInvariant, PTL DEF Spec

(* Each acceptance by the provider is paid for by one publish of the API   *)
(* or one redelivery by the broker: the ladder by itself never sends twice.*)
THEOREM SendsPaidFor == Spec => []SendsArePaidFor
<1>1. TypeInv /\ SendsBacked => SendsArePaidFor
  <2> SUFFICES ASSUME TypeInv, SendsBacked, NEW n \in Notifications
               PROVE  accepted[n] <= published[n] + redelivered[n]
    BY DEF SendsArePaidFor
  <2>1. Countable(n, Unsent) /\ accepted[n] + Work(n, Unsent) <= published[n] + redelivered[n]
    BY DEF SendsBacked, Paid
  <2>2. /\ Cardinality(Queued(n)) \in Nat /\ Cardinality(Delayed(n)) \in Nat
        /\ Cardinality(Prefetched(n)) \in Nat /\ Cardinality(AtWork(n, Unsent)) \in Nat
    BY <2>1, FS_CardinalityType DEF Countable
  <2>3. Work(n, Unsent) \in Nat
    BY <2>2 DEF Work
  <2>4. accepted[n] \in Nat /\ published[n] \in Nat /\ redelivered[n] \in Nat
    BY DEF TypeInv, TypeOK, CountersOK
  <2> QED
    BY <2>1, <2>3, <2>4
<1> QED
  BY <1>1, TypeInvariant, SendsInvariant, PTL

-----------------------------------------------------------------------------
\* The steps that write a status, with what they write.
MarkSteps == {<<"markProcessing", "send", "PROCESSING">>, <<"markSent", "countSuccess", "SENT">>,
              <<"markDead", "ack", "DEAD_LETTERED">>}

(* Only these and the insertion of the row change a status.                *)
LEMMA StatusWriters ==
  ASSUME TypeInv, [Next]_vars, NEW n \in Notifications, status'[n] # status[n]
  PROVE  \/ status[n] = "NONE" /\ status'[n] = "PENDING"
         \/ \E w \in Workers :
              OnMessage(w) /\ cur[w].n = n /\ <<pc[w], pc'[w], status'[n]>> \in MarkSteps
<1>1. status \in [Notifications -> Statuses] /\ pc \in [Workers -> Labels]
  BY DEF TypeInv, TypeOK, DbOK, WorkerOK
<1>2. ASSUME NEW w \in Workers, OnMessage(w)
      PROVE  cur[w].n = n /\ <<pc[w], pc'[w], status'[n]>> \in MarkSteps
  <2>1. CASE MarkProcessing(w)
    BY <1>1, <2>1 DEF MarkProcessing, Statement, Step, Goto, Mark, MarkSteps
  <2>2. CASE MarkSent(w)
    BY <1>1, <2>2 DEF MarkSent, Statement, Step, Goto, Mark, MarkSteps
  <2>3. CASE MarkDead(w)
    BY <1>1, <2>3 DEF MarkDead, Statement, Step, Goto, Mark, MarkSteps
  <2> QED
    BY <1>2, <2>1, <2>2, <2>3, HandlerFrame
<1>3. ASSUME NEW k \in Notifications, NEW c \in Channels, Post(k, c)
      PROVE  status[n] = "NONE" /\ status'[n] = "PENDING"
  BY <1>1, <1>3 DEF Post, InsertWithOutbox
<1>4. (\E w \in Workers : OnMessage(w)) \/ \E k \in Notifications, c \in Channels : Post(k, c)
  BY DEF Next, Environment, System, Forget, LoseConnection, Crash, Publish, Expire, Deliver,
     Requeue, Receive, ReadFrame, vars, db
<1> QED
  BY <1>2, <1>3, <1>4

(* A status that is final has used up a copy, too.                         *)
LEMMA OutcomesInvariant == Spec => []OutcomesBacked
<1>1. Init => OutcomesBacked
  <2> SUFFICES ASSUME Init, NEW n \in Notifications
               PROVE  /\ Countable(n, Undecided)
                      /\ (IF Final(n) THEN 1 ELSE 0) + Work(n, Undecided) <= Paid(n)
    BY DEF OutcomesBacked
  <2>1. Countable(n, Undecided) /\ Work(n, Undecided) = 0 /\ Paid(n) = 0
    BY CoveredInit DEF Undecided
  <2>2. ~Final(n)
    BY DEF Init, Final
  <2> QED
    BY <2>1, <2>2
<1>2. TypeInv /\ TypeInv' /\ LostHoldsNothing /\ OutcomesBacked /\ [Next]_vars => OutcomesBacked'
  <2> SUFFICES ASSUME TypeInv, TypeInv', LostHoldsNothing, OutcomesBacked, [Next]_vars,
                      NEW n \in Notifications
               PROVE  /\ Countable(n, Undecided)'
                      /\ (IF Final(n)' THEN 1 ELSE 0) + Work(n, Undecided)' <= Paid(n)'
    BY DEF OutcomesBacked
  <2>1. Countable(n, Undecided) /\ (IF Final(n) THEN 1 ELSE 0) + Work(n, Undecided) <= Paid(n)
    BY DEF OutcomesBacked
  <2>2. /\ Countable(n, Undecided)' /\ Work(n, Undecided) \in Nat /\ Work(n, Undecided)' \in Nat
        /\ Work(n, Undecided)' + Paid(n) <= Work(n, Undecided) + Paid(n)'
    BY <2>1, CoveredStep DEF Covered
  <2>3. Paid(n) \in Nat /\ Paid(n)' \in Nat
    BY PaidNat
  <2>4. CASE Final(n)' => Final(n)
    BY <2>1, <2>2, <2>3, <2>4
  <2>5. CASE Final(n)' /\ ~Final(n)
    <3>1. PICK w \in Workers :
            OnMessage(w) /\ cur[w].n = n /\ <<pc[w], pc'[w], status'[n]>> \in MarkSteps
      BY <2>5, StatusWriters DEF Final
    <3>2. pc[w] \in Undecided /\ pc'[w] \notin Undecided /\ pc[w] # "publishRetry"
      BY <2>5, <3>1 DEF MarkSteps, Final, Undecided, Labels
    <3>3. Work(n, Undecided)' <= Work(n, Undecided) - 1 /\ UNCHANGED Paid(n)
      BY <2>1, <3>1, <3>2, CoveredOnMessage
    <3> QED
      BY <2>1, <2>2, <2>3, <2>5, <3>3
  <2> QED
    BY <2>4, <2>5
<1> QED
  BY <1>1, <1>2, TypeInvariant, LostInvariant, PTL DEF Spec

(* The count of copies never falls, so that a single copy was one before.  *)
LEMMA PaidGrows ==
  ASSUME TypeInv, TypeInv', [Next]_vars, NEW n \in Notifications
  PROVE  /\ Paid(n) <= Paid(n)' /\ (SingleCopy(n)' => SingleCopy(n))
         /\ published[n] <= published'[n]
<1>1. published \in [Notifications -> Nat] /\ redelivered \in [Notifications -> Nat]
  BY DEF TypeInv, TypeOK, CountersOK
<1>2. published[n] <= published'[n] /\ redelivered[n] <= redelivered'[n]
  <2>1. ASSUME NEW k \in Notifications, Publish(k)
        PROVE  published[n] <= published'[n] /\ redelivered[n] <= redelivered'[n]
    BY <1>1, <2>1 DEF Publish
  <2>2. ASSUME NEW w \in Workers, NEW m \in Messages, Requeue(w, m)
        PROVE  published[n] <= published'[n] /\ redelivered[n] <= redelivered'[n]
    BY <1>1, <2>2, MessageFields DEF Requeue
  <2>3. CASE UNCHANGED <<published, redelivered>>
    BY <1>1, <2>3
  <2> QED
    BY <2>1, <2>2, <2>3, HandlerFrame
       DEF Next, Environment, System, Post, Forget, LoseConnection, Crash, Expire, Deliver,
           Receive, ReadFrame, vars, history
<1> QED
  BY <1>1, <1>2, PaidNat DEF SingleCopy

(* An outcome leaves nobody behind who could write another one.            *)
LEMMA NobodyAfter ==
  ASSUME TypeInv, OutcomesBacked, NEW n \in Notifications, SingleCopy(n), Final(n)
  PROVE  AtWork(n, Undecided) = {}
<1>1. Countable(n, Undecided) /\ 1 + Work(n, Undecided) <= published[n] + redelivered[n]
  BY DEF OutcomesBacked, Paid
<1>2. /\ published[n] \in Nat /\ redelivered[n] \in Nat /\ published[n] + redelivered[n] <= 1
  BY DEF TypeInv, TypeOK, CountersOK, SingleCopy
<1>3. /\ Cardinality(Queued(n)) \in Nat /\ Cardinality(Delayed(n)) \in Nat
      /\ Cardinality(Prefetched(n)) \in Nat /\ Cardinality(AtWork(n, Undecided)) \in Nat
  BY <1>1, FS_CardinalityType DEF Countable
<1>4. Cardinality(AtWork(n, Undecided)) = 0
  <2>1. Work(n, Undecided) = Cardinality(Queued(n)) + Cardinality(Delayed(n))
                              + Cardinality(Prefetched(n)) + Cardinality(AtWork(n, Undecided))
    BY DEF Work
  <2>2. Cardinality(Queued(n)) + Cardinality(Delayed(n))
          + Cardinality(Prefetched(n)) + Cardinality(AtWork(n, Undecided)) <= 0
    BY <1>1, <1>2, <1>3, <2>1
  <2> QED
    BY <1>3, <2>2
<1> QED
  BY <1>1, <1>4, FS_EmptySet DEF Countable

(* While there is a single copy of its message, a notification never       *)
(* leaves SENT or DEAD_LETTERED: the copy is used up, and nobody is left   *)
(* who could mark the row.                                                 *)
LEMMA FinalStays ==
  ASSUME TypeInv, TypeInv', OutcomesBacked, [Next]_vars, NEW n \in Notifications,
         SingleCopy(n)', Final(n)
  PROVE  status'[n] = status[n]
<1> SUFFICES ASSUME status'[n] # status[n] PROVE FALSE
  OBVIOUS
<1>1. PICK w \in Workers :
        OnMessage(w) /\ cur[w].n = n /\ <<pc[w], pc'[w], status'[n]>> \in MarkSteps
  BY StatusWriters DEF Final
<1>2. w \in AtWork(n, Undecided)
  BY <1>1 DEF AtWork, MarkSteps, Undecided, Labels
<1> QED
  BY <1>2, PaidGrows, NobodyAfter

(* An outcome in the row of a notification with a single copy is never     *)
(* written over.                                                           *)
THEOREM TerminalFinal == Spec => TerminalIsFinal
<1>1. TypeInv /\ TypeInv' /\ OutcomesBacked /\ [Next]_vars
      => [\A n \in Notifications :
            SingleCopy(n)' /\ status[n] \in {"SENT", "DEAD_LETTERED"}
              => status'[n] = status[n]]_vars
  BY FinalStays DEF Final
<1> QED
  BY <1>1, TypeInvariant, OutcomesInvariant, PTL DEF Spec, TerminalIsFinal

-----------------------------------------------------------------------------
(* One copy.                                                               *)

(* What is unfinished is paid for.                                         *)
LEMMA HandlersInvariant == Spec => []HandlersBacked
<1>1. Init => HandlersBacked
  <2> SUFFICES ASSUME Init, NEW n \in Notifications
               PROVE  Countable(n, Unfinished) /\ Work(n, Unfinished) <= Paid(n)
    BY DEF HandlersBacked
  <2>1. Countable(n, Unfinished) /\ Work(n, Unfinished) = 0 /\ Paid(n) = 0
    BY CoveredInit DEF Unfinished
  <2> QED
    BY <2>1
<1>2. TypeInv /\ TypeInv' /\ LostHoldsNothing /\ HandlersBacked /\ [Next]_vars => HandlersBacked'
  <2> SUFFICES ASSUME TypeInv, TypeInv', LostHoldsNothing, HandlersBacked, [Next]_vars,
                      NEW n \in Notifications
               PROVE  Countable(n, Unfinished)' /\ Work(n, Unfinished)' <= Paid(n)'
    BY DEF HandlersBacked
  <2>1. Countable(n, Unfinished) /\ Work(n, Unfinished) <= Paid(n)
    BY DEF HandlersBacked
  <2>2. /\ Countable(n, Unfinished)' /\ Work(n, Unfinished) \in Nat /\ Work(n, Unfinished)' \in Nat
        /\ Work(n, Unfinished)' + Paid(n) <= Work(n, Unfinished) + Paid(n)'
    BY <2>1, CoveredStep DEF Covered
  <2>3. Paid(n) \in Nat /\ Paid(n)' \in Nat
    BY PaidNat
  <2> QED
    BY <2>1, <2>2, <2>3
<1> QED
  BY <1>1, <1>2, TypeInvariant, LostInvariant, PTL DEF Spec

(* A handler that has something to write for a single copy is alone: no    *)
(* other one has, and nothing waits.                                       *)
LEMMA Alone ==
  ASSUME TypeInv, HandlersBacked, NEW n \in Notifications, SingleCopy(n),
         NEW w \in AtWork(n, Unfinished)
  PROVE  /\ \A v \in AtWork(n, Unfinished) : v = w
         /\ \A m \in Of(n) : ~Waits(m)
<1>1. Countable(n, Unfinished) /\ Work(n, Unfinished) <= published[n] + redelivered[n]
  BY DEF HandlersBacked, Paid
<1>2. /\ published[n] \in Nat /\ redelivered[n] \in Nat /\ published[n] + redelivered[n] <= 1
  BY DEF TypeInv, TypeOK, CountersOK, SingleCopy
<1>3. /\ IsFiniteSet(Queued(n)) /\ Cardinality(Queued(n)) \in Nat
      /\ IsFiniteSet(Delayed(n)) /\ Cardinality(Delayed(n)) \in Nat
      /\ IsFiniteSet(Prefetched(n)) /\ Cardinality(Prefetched(n)) \in Nat
      /\ IsFiniteSet(AtWork(n, Unfinished)) /\ Cardinality(AtWork(n, Unfinished)) \in Nat
  BY <1>1, FS_CardinalityType DEF Countable
<1>4. /\ IsFiniteSet(AtWork(n, Unfinished) \ {w})
      /\ Cardinality(AtWork(n, Unfinished) \ {w}) = Cardinality(AtWork(n, Unfinished)) - 1
  BY <1>3, FS_RemoveElement
<1>5. Cardinality(AtWork(n, Unfinished) \ {w}) \in Nat
  BY <1>4, FS_CardinalityType
<1>6. /\ Cardinality(Queued(n)) = 0 /\ Cardinality(Delayed(n)) = 0
      /\ Cardinality(Prefetched(n)) = 0 /\ Cardinality(AtWork(n, Unfinished) \ {w}) = 0
  <2>1. Work(n, Unfinished) = Cardinality(Queued(n)) + Cardinality(Delayed(n))
                               + Cardinality(Prefetched(n)) + Cardinality(AtWork(n, Unfinished))
    BY DEF Work
  <2>2. Cardinality(Queued(n)) + Cardinality(Delayed(n))
          + Cardinality(Prefetched(n)) + Cardinality(AtWork(n, Unfinished)) <= 1
    BY <1>1, <1>2, <1>3, <2>1
  <2>3. Cardinality(AtWork(n, Unfinished)) >= 1
    <3>1. Cardinality(AtWork(n, Unfinished)) - 1 \in Nat
      BY <1>4, <1>5
    <3> QED
      BY <1>3, <3>1
  <2>4. /\ Cardinality(Queued(n)) = 0 /\ Cardinality(Delayed(n)) = 0
        /\ Cardinality(Prefetched(n)) = 0 /\ Cardinality(AtWork(n, Unfinished)) = 1
    BY <1>3, <2>2, <2>3
  <2> QED
    BY <1>4, <2>4
<1>7. AtWork(n, Unfinished) \ {w} = {}
  BY <1>4, <1>6, FS_EmptySet
<1>8. /\ \A m \in Of(n) : main[m] \in Int /\ retry[m] \in Int
      /\ \A x \in Workers \X Of(n) : waiting[x] \in Int
  BY DEF TypeInv, TypeOK, BrokerOK, Bags, Of, waiting
<1>9. \A m \in Of(n) : ~(main[m] > 0)
  BY <1>3, <1>6, <1>8, TokensNone DEF Queued
<1>11. \A m \in Of(n) : ~(retry[m] > 0) /\ \A v \in Workers : ~OnItsWay(v, m)
  <2>1. \A t : t \notin Delayed(n)
    BY <1>3, <1>6, FS_EmptySet
  <2>2. ASSUME NEW m \in Of(n), retry[m] > 0 PROVE FALSE
    <3>1. 1 \in 1 .. retry[m]
      BY <1>8, <2>2
    <3>2. <<"rung", <<m, 1>>>> \in Delayed(n)
      BY <3>1, DelayedMember
    <3> QED
      BY <2>1, <3>2
  <2>3. ASSUME NEW m \in Of(n), NEW v \in Workers, OnItsWay(v, m) PROVE FALSE
    <3>1. PICK i \in DOMAIN wire[v] : wire[v][i] = Frame("retry", m)
      BY <2>3 DEF OnItsWay
    <3>2. IsRetry(wire[v][i], n)
      BY <3>1, FrameFields DEF IsRetry, Of
    <3>3. <<"wire", <<v, i>>>> \in Delayed(n)
      BY <3>2, DelayedMember
    <3> QED
      BY <2>1, <3>3
  <2> QED
    BY <2>2, <2>3
<1>10. \A v \in Workers, m \in Of(n) : ~(waiting[<<v, m>>] > 0)
  <2>1. ASSUME NEW x \in Workers \X Of(n) PROVE ~(waiting[x] > 0)
    BY <1>3, <1>6, <1>8, TokensNone DEF Prefetched
  <2> QED
    BY <2>1
<1> QED
  BY <1>7, <1>9, <1>10, <1>11 DEF Waits

(* What has been published stays published, and a copy has its publish.    *)
LEMMA SourcedInvariant == Spec => []Sourced
<1>1. Init /\ Routed => Sourced
  BY DEF Init, Routed, RowOf, Sourced
<1>2. TypeInv /\ TypeInv' /\ Sourced /\ Routed' /\ [Next]_vars => Sourced'
  <2> SUFFICES ASSUME TypeInv, TypeInv', Sourced, Routed', [Next]_vars PROVE Sourced'
    OBVIOUS
  <2>1. ASSUME NEW n \in Notifications, published[n] > 0 PROVE published'[n] > 0
    BY <2>1, PaidGrows DEF TypeInv, TypeOK, CountersOK
  <2>2. ASSUME NEW n \in Notifications, redelivered'[n] > 0 PROVE published'[n] > 0
    <3>1. ASSUME NEW w \in Workers, NEW m \in Messages, Requeue(w, m)
          PROVE  published[n] > 0
      <4>1. published[m.n] > 0
        BY <3>1 DEF Requeue, Sourced, Present
      <4>2. redelivered'[n] = redelivered[n] \/ n = m.n
        BY <3>1, MessageFields DEF Requeue, TypeInv, TypeOK, CountersOK
      <4> QED
        BY <2>2, <4>1, <4>2 DEF Sourced
    <3>2. CASE UNCHANGED redelivered
      BY <2>1, <2>2, <3>2 DEF Sourced
    <3> QED
      BY <2>1, <3>1, <3>2, HandlerFrame
         DEF Next, Environment, System, Post, Forget, LoseConnection, Crash, Publish, Expire, Deliver,
             Receive, ReadFrame, vars, history
  <2>3. /\ \A m \in Messages : Present(m)' => published'[m.n] > 0
        /\ \A w \in Workers : pc'[w] # "idle" => published'[cur'[w].n] > 0
    BY DEF Routed, RowOf
  <2> QED
    BY <2>2, <2>3 DEF Sourced
<1> QED
  BY <1>1, <1>2, TypeInvariant, RoutedInvariant, PTL DEF Spec

-----------------------------------------------------------------------------
(* What the statement at each label does to the count and the history.     *)
LEMMA HandlerWrites ==
  ASSUME NEW w \in Workers, OnMessage(w)
  PROVE  \/ /\ pc[w] \in {"countSuccess", "countFailure"}
            /\ IncrementAttemptCount(w)
         \/ pc[w] = "recordSuccess" /\ Record(w, "SUCCESS")
         \/ pc[w] \in {"recordRetry", "recordDead"} /\ \E s \in Failures : Record(w, s)
         \/ /\ pc[w] \notin {"countSuccess", "countFailure", "recordSuccess", "recordRetry", "recordDead"}
            /\ UNCHANGED <<attemptCount, attempts>>
<1>1. CASE CountSuccess(w) \/ CountFailure(w)
  BY <1>1 DEF CountSuccess, CountFailure, Statement, Step
<1>2. CASE RecordSuccess(w)
  BY <1>2 DEF RecordSuccess, Statement, Step
<1>3. CASE RecordRetry(w)
  BY <1>3 DEF RecordRetry, Statement, Step, Failures
<1>4. CASE RecordDead(w)
  BY <1>4 DEF RecordDead, Statement, Step, Failures
<1>5. CASE ~(CountSuccess(w) \/ CountFailure(w) \/ RecordSuccess(w) \/ RecordRetry(w) \/ RecordDead(w))
  BY <1>5 DEF OnMessage, Find, MarkProcessing, SendSucceeds, SendFails, MarkSent,
     PublishRetry, PublishDlq, MarkDead, Ack, Statement, Step, Mark, db
<1> QED
  BY <1>1, <1>2, <1>3, <1>4, <1>5

(* Outside onMessage only a publish or a redelivery makes a copy wait.     *)
LEMMA WaitsOutside ==
  ASSUME TypeInv, TypeInv', (Environment \/ System) /\ ~\E w \in Workers : OnMessage(w),
         NEW n \in Notifications, NEW k \in Of(n), Waits(k)'
  PROVE  \/ Waits(k)
         \/ Publish(n) /\ k.attempt = 1
         \/ \E w \in Workers, m \in Messages : Requeue(w, m) /\ m.n = n
<1>0. /\ BrokerOK /\ main \in Bags /\ retry \in Bags /\ unacked \in [Workers -> Bags]
      /\ pc \in [Workers -> Labels] /\ cur \in [Workers -> Messages \cup {NoMessage}]
      /\ k \in Messages /\ k.n = n
  BY DEF TypeInv, TypeOK, BrokerOK, WorkerOK, Of
<1>1. \A v \in Workers :
        /\ unacked[v][k] \in Nat
        /\ waiting[<<v, k>>] = unacked[v][k] - (IF pc[v] # "idle" /\ cur[v] = k THEN 1 ELSE 0)
        /\ unacked'[v][k] \in Nat
        /\ waiting'[<<v, k>>] = unacked'[v][k] - (IF pc'[v] # "idle" /\ cur'[v] = k THEN 1 ELSE 0)
  BY <1>0, WaitingValue
<1>2. ASSUME UNCHANGED <<pc, cur>>, NEW v \in Workers,
             unacked'[v][k] <= unacked[v][k]
      PROVE  waiting'[<<v, k>>] <= waiting[<<v, k>>]
  <2> DEFINE busy == pc[v] # "idle" /\ cur[v] = k
  <2>1. /\ unacked[v][k] \in Nat /\ unacked'[v][k] \in Nat
        /\ waiting[<<v, k>>] = unacked[v][k] - (IF busy THEN 1 ELSE 0)
    BY <1>1
  <2>2. waiting'[<<v, k>>] = unacked'[v][k] - (IF busy THEN 1 ELSE 0)
    BY <1>1, <1>2
  <2> HIDE DEF busy
  <2> QED
    BY <1>2, <2>1, <2>2
<1>3. ASSUME main'[k] > 0 => main[k] > 0 \/ retry[k] > 0, retry'[k] > 0 => retry[k] > 0,
             \A v \in Workers : waiting'[<<v, k>>] > 0 => waiting[<<v, k>>] > 0 \/ main[k] > 0,
             \A v \in Workers : OnItsWay(v, k)' => OnItsWay(v, k)
      PROVE  Waits(k)
  BY <1>3 DEF Waits
<1>4. \A v \in Workers : waiting[<<v, k>>] \in Int /\ waiting'[<<v, k>>] \in Int
  BY <1>1
<1>14. ASSUME \A v \in Workers : wire'[v] \in {wire[v], << >>}
       PROVE  \A v \in Workers : OnItsWay(v, k)' => OnItsWay(v, k)
  BY <1>14 DEF OnItsWay
<1>5. ASSUME UNCHANGED <<main, retry, wire, unacked, pc, cur>> PROVE Waits(k)
  <2>1. UNCHANGED waiting
    BY <1>5 DEF waiting
  <2> QED
    BY <1>3, <1>5, <1>14, <2>1
<1>6. CASE Forget \/ \E i \in Notifications, c \in Channels : Post(i, c)
  BY <1>5, <1>6 DEF Forget, Post, broker, worker
<1>7. ASSUME NEW i \in Notifications, Publish(i)
      PROVE  Waits(k) \/ (Publish(n) /\ k.attempt = 1)
  <2> DEFINE m == [ch |-> channel[i], n |-> i, attempt |-> 1]
  <2>1. channel[i] \in Channels
    BY <1>7 DEF Publish, OwedHasRow, TypeInv, TypeOK
  <2>2. m \in Messages /\ m.n = i /\ m.attempt = 1
    BY <2>1, DeliveryAssumption, MessageFields DEF DeliveryAssumption, Attempts
  <2>3. main' = Put(main, m) /\ UNCHANGED <<retry, wire, unacked, pc, cur>>
    BY <1>7 DEF Publish, worker
  <2>4. UNCHANGED waiting
    BY <2>3 DEF waiting
  <2> HIDE DEF m
  <2>5. CASE k = m
    BY <1>0, <1>7, <2>2, <2>5
  <2>6. CASE k # m
    BY <1>0, <1>3, <1>14, <2>2, <2>3, <2>4, <2>6, PutPresent
  <2> QED
    BY <2>5, <2>6
<1>8. ASSUME NEW w \in Workers, NEW m \in Messages, Deliver(w, m) PROVE Waits(k)
  <2>1. /\ main' = Take(main, m) /\ main[m] > 0 /\ unacked' = [unacked EXCEPT ![w] = Put(@, m)]
        /\ UNCHANGED <<retry, wire, pc, cur>>
    BY <1>8 DEF Deliver, worker
  <2>2. main'[k] > 0 => main[k] > 0
    BY <1>0, <2>1, TakePresent
  <2>3. ASSUME NEW v \in Workers, waiting'[<<v, k>>] > 0
        PROVE  waiting[<<v, k>>] > 0 \/ main[k] > 0
    <3>1. CASE k = m
      BY <2>1, <3>1
    <3>2. CASE k # m
      <4>1. unacked[w] \in Bags /\ Put(unacked[w], m)[k] = unacked[w][k]
        BY <1>0, <3>2, PutOne
      <4>2. unacked'[v][k] <= unacked[v][k]
        <5>1. unacked'[v] = IF v = w THEN Put(unacked[w], m) ELSE unacked[v]
          BY <1>0, <2>1
        <5>2. unacked'[v][k] = unacked[v][k] /\ unacked[v][k] \in Nat
          BY <1>1, <4>1, <5>1
        <5> QED
          BY <5>2
      <4> QED
        BY <1>2, <1>4, <2>1, <2>3, <4>2
    <3> QED
      BY <3>1, <3>2
  <2> QED
    BY <1>3, <1>14, <2>1, <2>2, <2>3
<1>9. ASSUME NEW m \in Messages, Expire(m) PROVE Waits(k)
  <2>1. /\ main' = Put(main, m) /\ retry' = Take(retry, m) /\ retry[m] > 0
        /\ UNCHANGED <<wire, unacked, pc, cur>>
    BY <1>9 DEF Expire, worker
  <2>2. UNCHANGED waiting
    BY <2>1 DEF waiting
  <2>3. /\ main'[k] > 0 => main[k] > 0 \/ retry[k] > 0
        /\ retry'[k] > 0 => retry[k] > 0
    BY <1>0, <2>1, PutPresent, TakePresent
  <2> QED
    BY <1>3, <1>14, <2>1, <2>2, <2>3
<1>10. ASSUME NEW w \in Workers, NEW m \in Messages, Requeue(w, m) PROVE m.n = n \/ Waits(k)
  <2>1. main' = Put(main, m) /\ UNCHANGED <<retry, wire, unacked, pc, cur>>
    BY <1>10 DEF Requeue, worker
  <2>2. UNCHANGED waiting
    BY <2>1 DEF waiting
  <2>3. m.n # n => k # m
    BY <1>0
  <2> QED
    BY <1>0, <1>3, <1>14, <2>1, <2>2, <2>3, PutPresent
<1>11. ASSUME NEW w \in Workers, NEW m \in Messages, Receive(w, m) PROVE Waits(k)
  <2>1. /\ pc[w] = "idle" /\ \A v \in Workers : v # w => UNCHANGED <<pc[v], cur[v]>>
        /\ UNCHANGED <<main, retry, wire, unacked>>
    BY <1>0, <1>11 DEF Receive, Goto, broker
  <2>2. ASSUME NEW v \in Workers PROVE waiting'[<<v, k>>] <= waiting[<<v, k>>]
    <3>1. CASE v = w
      BY <1>1, <2>1, <3>1
    <3>2. CASE v # w
      BY <1>1, <2>1, <3>2
    <3> QED
      BY <3>1, <3>2
  <2>3. \A v \in Workers : waiting'[<<v, k>>] > 0 => waiting[<<v, k>>] > 0
    BY <1>4, <2>2
  <2> QED
    BY <1>3, <1>14, <2>1, <2>3
<1>12. ASSUME NEW w \in Workers, LoseConnection(w) PROVE Waits(k)
  <2>1. /\ unacked' = [unacked EXCEPT ![w] = EmptyBag] /\ UNCHANGED <<main, retry, pc, cur>>
        /\ \A v \in Workers : wire'[v] \in {wire[v], << >>}
    BY <1>0, <1>12 DEF LoseConnection, worker, BrokerOK
  <2>2. \A v \in Workers : unacked'[v][k] <= unacked[v][k]
    <3>1. EmptyBag[k] = 0 /\ \A v \in Workers : unacked'[v] = unacked[v] \/ unacked'[v] = EmptyBag
      BY <1>0, <2>1, BagFacts
    <3>2. \A v \in Workers : unacked[v][k] \in Nat
      BY <1>1
    <3> QED
      BY <3>1, <3>2
  <2>3. \A v \in Workers : waiting'[<<v, k>>] > 0 => waiting[<<v, k>>] > 0
    BY <1>2, <1>4, <2>1, <2>2
  <2> QED
    BY <1>3, <1>14, <2>1, <2>3
<1>13. CASE Crash
  <2>1. /\ UNCHANGED <<main, retry>>
        /\ \A v \in Workers : unacked'[v] = EmptyBag /\ pc'[v] = "idle" /\ wire'[v] = << >>
    BY <1>13 DEF Crash
  <2>2. \A v \in Workers : waiting'[<<v, k>>] = 0
    BY <1>0, <1>1, <2>1, BagFacts
  <2> QED
    BY <1>3, <1>14, <2>1, <2>2
\* A frame that is read was on its way before.
<1>15. ASSUME NEW w \in Workers, ReadFrame(w) PROVE Waits(k)
  <2>1. /\ UNCHANGED <<main, unacked, pc, cur>>
        /\ \/ UNCHANGED retry
           \/ Head(wire[w]).kind = "retry" /\ retry' = Put(retry, Head(wire[w]).m)
    BY <1>15 DEF ReadFrame, Route, worker
  <2>2. UNCHANGED waiting
    BY <2>1 DEF waiting
  <2>3. /\ 1 \in DOMAIN wire[w] /\ Head(wire[w]) = wire[w][1]
        /\ \A v \in Workers : v # w => wire'[v] = wire[v]
        /\ \A i \in DOMAIN wire'[w] : i + 1 \in DOMAIN wire[w] /\ wire'[w][i] = wire[w][i + 1]
    BY <1>0, <1>15, ReadFacts
  <2>4. \A v \in Workers : OnItsWay(v, k)' => OnItsWay(v, k)
    BY <2>3 DEF OnItsWay
  <2>5. CASE retry'[k] > 0 => retry[k] > 0
    BY <1>3, <2>1, <2>2, <2>4, <2>5
  <2>6. CASE retry'[k] > 0 /\ ~(retry[k] > 0)
    <3>1. /\ Head(wire[w]).kind = "retry" /\ retry' = Put(retry, Head(wire[w]).m)
          /\ wire[w][1] \in Frames /\ wire[w][1].m \in Messages
      BY <1>0, <2>1, <2>3, <2>6, WireFrames
    <3>2. wire[w][1].m = k /\ wire[w][1].kind = "retry"
      BY <1>0, <2>3, <2>6, <3>1, PutPresent
    <3>3. wire[w][1] = Frame("retry", k)
      BY <3>1, <3>2 DEF Frame, Frames
    <3> QED
      BY <2>3, <3>3 DEF Waits, OnItsWay
  <2> QED
    BY <2>5, <2>6
<1> QED
  BY <1>6, <1>7, <1>8, <1>9, <1>10, <1>11, <1>12, <1>13, <1>15 DEF Environment, System

(* A step that is not about n leaves its history in step.                  *)
LEMMA InStepFrame ==
  ASSUME NEW n \in Notifications, InStep(n),
         UNCHANGED <<attemptCount[n], attempts[n]>>,
         published'[n] = 0 => published[n] = 0,
         \A m \in Of(n) : Waits(m)' => Waits(m),
         AtWork(n, Unfinished)' = AtWork(n, Unfinished),
         \A w \in AtWork(n, Unfinished) : UNCHANGED <<pc[w], cur[w]>>
  PROVE  InStep(n)'
<1>1. UNCHANGED Recorded(n)
  BY DEF Recorded
<1>2. ASSUME NEW w \in AtWork(n, Unfinished) PROVE Keeps(n, w)'
  <2>1. Keeps(n, w)
    BY DEF InStep
  <2> QED
    BY <1>1, <2>1 DEF Keeps
<1>3. AtWork(n, Unfinished)' = {} => Recorded(n)' = 1 .. attemptCount'[n]
  BY <1>1 DEF InStep
<1>4. \A w \in AtWork(n, Unfinished)' : Keeps(n, w)'
  BY <1>2
<1>5. published'[n] = 0 => attemptCount'[n] = 0
  BY DEF InStep
<1>6. \A m \in Of(n) : Waits(m)' => m.attempt = attemptCount'[n] + 1
  BY DEF InStep
<1>7. UNCHANGED Of(n)
  BY DEF Of
<1> QED
  BY <1>3, <1>4, <1>5, <1>6, <1>7 DEF InStep

(* The first copy starts at the first attempt, any later one begins where  *)
(* the count stands.                                                       *)
LEMMA InStepOutside ==
  ASSUME TypeInv, TypeInv', Sourced, HandlersBacked,
         (Environment \/ System) /\ ~\E w \in Workers : OnMessage(w),
         NEW n \in Notifications, SingleCopy(n), SingleCopy(n)', crashes \in Nat, crashes' = 0,
         InStep(n)
  PROVE  InStep(n)'
<1>0. /\ pc \in [Workers -> Labels] /\ cur \in [Workers -> Messages \cup {NoMessage}]
      /\ published \in [Notifications -> Nat] /\ redelivered \in [Notifications -> Nat]
      /\ Paid(n)' <= 1 /\ attemptCount[n] \in Nat
  BY DEF TypeInv, TypeOK, DbOK, WorkerOK, CountersOK, SingleCopy, Paid
<1>1. ~Crash
  BY DEF Crash
<1>2. UNCHANGED attempts /\ UNCHANGED attemptCount
  BY CopiesOutside DEF Environment, System, Post, Forget, LoseConnection, Crash, Publish, Expire,
     Deliver, Requeue, Receive, ReadFrame, db
<1>3. UNCHANGED Recorded(n)
  BY <1>2 DEF Recorded
<1>4. ~\E w \in Workers, m \in Messages : Requeue(w, m) /\ m.n = n
  <2> SUFFICES ASSUME NEW w \in Workers, NEW m \in Messages, Requeue(w, m), m.n = n PROVE FALSE
    OBVIOUS
  <2>1. published[n] > 0 /\ published'[n] = published[n] /\ redelivered'[n] = redelivered[n] + 1
    BY <1>0 DEF Requeue, Sourced, Present
  <2> QED
    BY <1>0, <2>1 DEF Paid
<1>5. CASE Publish(n)
  <2>1. published[n] = 0
    BY <1>0, <1>5 DEF Paid, Publish
  <2>2. /\ AtWork(n, Unfinished) = {} /\ \A w \in Workers : UNCHANGED <<pc[w], cur[w]>>
        /\ published'[n] # 0
    BY <1>0, <1>5, <2>1 DEF Sourced, AtWork, Unfinished, Publish, worker
  <2>3. AtWork(n, Unfinished)' = {}
    BY <2>2 DEF AtWork
  <2>4. Recorded(n)' = 1 .. attemptCount'[n] /\ attemptCount'[n] = 0
    BY <1>2, <1>3, <2>1, <2>2 DEF InStep
  <2>5. ASSUME NEW m \in Of(n), Waits(m)' PROVE m.attempt = 1
    <3>1. ~Present(m) /\ m \in Messages
      BY <1>0, <2>1 DEF Sourced, Of
    <3>2. ASSUME NEW w \in Workers PROVE ~(waiting[<<w, m>>] > 0)
      <4>1. ~(unacked[w][m] > 0) /\ unacked[w][m] \in Nat
        BY <3>1, WaitingValue DEF Present
      <4>2. waiting[<<w, m>>] = unacked[w][m] - (IF pc[w] # "idle" /\ cur[w] = m THEN 1 ELSE 0)
        BY <3>1, WaitingValue
      <4> QED
        BY <4>1, <4>2
    <3>4. \A w \in Workers : ~OnItsWay(w, m)
      BY <3>1, FrameFields DEF Present, Carried, OnItsWay
    <3>3. ~Waits(m)
      BY <3>1, <3>2, <3>4 DEF Waits, Present
    <3> QED
      BY <1>4, <2>5, <3>3, WaitsOutside
  <2>6. \A m \in Of(n) : Waits(m)' => m.attempt = attemptCount'[n] + 1
    BY <2>4, <2>5
  <2>7. UNCHANGED Of(n)
    BY DEF Of
  <2> QED
    BY <2>2, <2>3, <2>4, <2>6, <2>7 DEF InStep
<1>6. ~Publish(n) => \A m \in Of(n) : Waits(m)' => Waits(m)
  BY <1>4, WaitsOutside
<1>7. published'[n] = 0 => published[n] = 0
  <2>1. ASSUME NEW k \in Notifications, Publish(k) PROVE published'[n] = 0 => published[n] = 0
    BY <1>0, <2>1 DEF Publish
  <2>2. UNCHANGED published \/ \E k \in Notifications : Publish(k)
    BY DEF Environment, System, Post, Forget, LoseConnection, Crash, Expire, Deliver, Requeue, Receive,
       ReadFrame, history
  <2> QED
    BY <2>1, <2>2
<1>8. ASSUME NEW w \in Workers, NEW m \in Messages, Receive(w, m), m.n = n
      PROVE  InStep(n)'
  <2>1. /\ pc[w] = "idle" /\ unacked[w][m] > 0 /\ pc'[w] = "find" /\ cur'[w] = m
        /\ \A v \in Workers : v # w => UNCHANGED <<pc[v], cur[v]>>
        /\ UNCHANGED published
    BY <1>0, <1>8 DEF Receive, Goto, history
  <2>2. Waits(m) /\ m \in Of(n)
    <3>1. waiting[<<w, m>>] > 0
      BY <2>1, WaitingValue
    <3> QED
      BY <1>8, <3>1 DEF Waits, Of
  <2>3. AtWork(n, Unfinished) = {}
    BY <2>2, Alone
  <2>4. AtWork(n, Unfinished)' = {w}
    BY <1>8, <2>1, <2>3 DEF AtWork, Unfinished, Labels
  <2>5. Recorded(n)' = 1 .. attemptCount'[n] /\ m.attempt = attemptCount'[n] + 1
    BY <1>2, <1>3, <2>2, <2>3 DEF InStep
  <2>6. Keeps(n, w)'
    BY <2>1, <2>5 DEF Keeps
  <2>7. ~Publish(n)
    BY <1>0, <2>1 DEF Publish
  <2>8. \A k \in Of(n) : Waits(k)' => k.attempt = attemptCount'[n] + 1
    BY <1>2, <1>6, <2>7 DEF InStep
  <2>9. published'[n] = 0 => attemptCount'[n] = 0
    BY <1>2, <1>7 DEF InStep
  <2>10. UNCHANGED Of(n)
    BY DEF Of
  <2> QED
    BY <2>4, <2>6, <2>8, <2>9, <2>10 DEF InStep
<1>9. CASE ~Publish(n) /\ ~\E w \in Workers, m \in Messages : Receive(w, m) /\ m.n = n
  <2>1. \A w \in Workers :
          \/ UNCHANGED <<pc[w], cur[w]>>
          \/ pc[w] = "idle" /\ cur'[w] \in Messages /\ cur'[w].n # n
    <3>1. ASSUME NEW v \in Workers, NEW m \in Messages, Receive(v, m)
          PROVE  \A w \in Workers :
                   \/ UNCHANGED <<pc[w], cur[w]>>
                   \/ pc[w] = "idle" /\ cur'[w] \in Messages /\ cur'[w].n # n
      <4>1. m.n # n
        BY <1>9, <3>1
      <4> QED
        BY <1>0, <3>1, <4>1 DEF Receive, Goto
    <3>2. UNCHANGED <<pc, cur>> \/ \E v \in Workers, m \in Messages : Receive(v, m)
      BY <1>1 DEF Environment, System, Post, Forget, LoseConnection, Publish, Expire, Deliver, Requeue,
         ReadFrame, worker
    <3> QED
      BY <3>1, <3>2
  <2>2. /\ AtWork(n, Unfinished)' = AtWork(n, Unfinished)
        /\ \A w \in AtWork(n, Unfinished) : UNCHANGED <<pc[w], cur[w]>>
    BY <2>1 DEF AtWork, Unfinished
  <2>3. \A m \in Of(n) : Waits(m)' => Waits(m)
    BY <1>6, <1>9
  <2> QED
    BY <1>2, <1>7, <2>2, <2>3, InStepFrame
<1> QED
  BY <1>5, <1>8, <1>9

(* A handler publishes the next attempt and makes nothing else wait.       *)
LEMMA WaitsOnMessage ==
  ASSUME TypeInv, TypeInv', LostHoldsNothing, NEW w \in Workers, OnMessage(w),
         NEW k \in Messages, Waits(k)'
  PROVE  Waits(k) \/ (pc[w] = "publishRetry" /\ k = NextAttempt(w))
<1>0. BrokerOK
  BY DEF TypeInv, TypeOK
<1>1. \A v \in Workers : waiting[<<v, k>>] \in Int /\ waiting'[<<v, k>>] \in Int
  BY WaitingValue
<1>2. \A v \in Workers : waiting'[<<v, k>>] > 0 => waiting[<<v, k>>] > 0
  BY <1>1, HandlerWaiting
<1>3. UNCHANGED <<main, retry>> /\ (Ack(w) \/ PublishRetry(w) \/ PublishDlq(w) \/ UNCHANGED wire)
      /\ cur[w] \in Messages
  BY HandlerFrame, BusyMessage DEF TypeInv
<1>4. CASE \A v \in Workers : OnItsWay(v, k)' => OnItsWay(v, k)
  BY <1>2, <1>3, <1>4 DEF Waits
<1>5. ASSUME NEW v \in Workers, OnItsWay(v, k)', ~OnItsWay(v, k)
      PROVE  pc[w] = "publishRetry" /\ k = NextAttempt(w)
  <2>1. PICK i \in DOMAIN wire'[v] : wire'[v][i] = Frame("retry", k)
    BY <1>5 DEF OnItsWay, Frame
  <2>2. ~(i \in DOMAIN wire[v] /\ wire'[v][i] = wire[v][i])
    BY <1>5, <2>1 DEF OnItsWay
  <2>3. ASSUME NEW c \in {"retry", "dlq", "ack"}, NEW m \in Messages, SendFrame(w, c, m)
        PROVE  c = "retry" /\ m = k
    <3>1. Frame("retry", k) = Frame(c, m)
      BY <1>0, <2>1, <2>2, <2>3, SendFacts
    <3> QED
      BY <3>1, FrameFields
  <2>4. ~Ack(w)
    BY <1>3, <2>3 DEF Ack
  <2>5. ~PublishDlq(w)
    <3>1. [cur[w] EXCEPT !.ch = WorkerChannel[w]] \in Messages
      BY <1>3, DeliveryAssumption DEF DeliveryAssumption, Messages
    <3> QED
      BY <2>3, <3>1 DEF PublishDlq
  <2>6. wire' # wire
    BY <2>1, <2>2
  <2>7. PublishRetry(w) /\ pc[w] = "publishRetry"
    BY <1>3, <2>4, <2>5, <2>6 DEF PublishRetry, Step
  <2>8. NextAttempt(w) \in Messages
    BY <2>7, NextIsMessage
  <2> QED
    BY <2>3, <2>7, <2>8 DEF PublishRetry
<1> QED
  BY <1>4, <1>5

(* The handler of a single copy keeps its history in step.                 *)
LEMMA InStepOwn ==
  ASSUME TypeInv, TypeInv', LostHoldsNothing, HandlersBacked, Sourced,
         NEW w \in Workers, OnMessage(w), pc[w] # "ack",
         NEW n \in Notifications, cur[w].n = n, SingleCopy(n), InStep(n)
  PROVE  InStep(n)'
<1> DEFINE k == cur[w].attempt
           c == attemptCount[n]
<1>0. /\ attempts \in [Notifications -> [Attempts -> AttemptStatuses]]
      /\ attemptCount \in [Notifications -> Nat] /\ pc \in [Workers -> Labels]
      /\ pc[w] # "idle" /\ k \in Attempts
  BY HandlerFrame, BusyMessage DEF TypeInv, TypeOK, DbOK, WorkerOK
<1>1. w \in AtWork(n, Unfinished)
  BY <1>0 DEF AtWork, Unfinished
<1>2. Keeps(n, w)
  BY <1>1 DEF InStep
<1>3. /\ \A v \in AtWork(n, Unfinished) : v = w
      /\ \A m \in Of(n) : ~Waits(m)
  BY <1>1, Alone
<1>4. /\ <<pc[w], pc'[w]>> \in Moves /\ UNCHANGED cur[w]
      /\ \A v \in Workers : v # w => UNCHANGED <<pc[v], cur[v]>>
  <2>1. <<pc[w], pc'[w]>> \in Moves /\ (pc'[w] # "idle" => UNCHANGED cur[w])
        /\ \A v \in Workers : v # w => UNCHANGED <<pc[v], cur[v]>>
    BY HandlerMoves
  <2> QED
    BY <2>1 DEF Moves
<1>5. AtWork(n, Unfinished)' \subseteq {w}
  BY <1>3, <1>4 DEF AtWork
<1>6. published'[n] # 0
  <2>1. published[n] > 0 /\ UNCHANGED published
    BY <1>0, HandlerFrame DEF Sourced, history
  <2>2. published[n] \in Nat
    BY DEF TypeInv, TypeOK, CountersOK
  <2> QED
    BY <2>1, <2>2
\* What is recorded and counted after the step.
<1>7. /\ pc[w] \in {"countSuccess", "countFailure"} =>
           attemptCount'[n] = c + 1 /\ UNCHANGED Recorded(n)
      /\ pc[w] \in {"recordSuccess", "recordRetry", "recordDead"} =>
           attemptCount'[n] = c /\ Recorded(n)' = Recorded(n) \cup {k}
      /\ pc[w] \notin {"countSuccess", "countFailure", "recordSuccess", "recordRetry", "recordDead"} =>
           attemptCount'[n] = c /\ UNCHANGED Recorded(n)
  <2>1. ASSUME IncrementAttemptCount(w) PROVE attemptCount'[n] = c + 1 /\ UNCHANGED Recorded(n)
    BY <1>0, <2>1 DEF IncrementAttemptCount, Recorded
  <2>2. ASSUME NEW s \in {"SUCCESS"} \cup Failures, Record(w, s)
        PROVE  attemptCount'[n] = c /\ Recorded(n)' = Recorded(n) \cup {k}
    <3>1. /\ UNCHANGED attemptCount
          /\ attempts'[n] = [attempts[n] EXCEPT ![k] = s] /\ s # "NONE"
      BY <1>0, <2>2 DEF Record, Failures
    <3> QED
      BY <1>0, <3>1 DEF Recorded
  <2>3. ASSUME UNCHANGED <<attemptCount, attempts>>
        PROVE  attemptCount'[n] = c /\ UNCHANGED Recorded(n)
    BY <2>3 DEF Recorded
  <2> QED
    BY <2>1, <2>2, <2>3, HandlerWrites
<1>8. k \in Nat /\ k >= 1 /\ c \in Nat
  BY <1>0 DEF Attempts
<1>9. /\ pc'[w] \in Unfinished => Keeps(n, w)'
      /\ pc'[w] = "ack" => Recorded(n)' = 1 .. attemptCount'[n]
  <2> DEFINE R == Recorded(n)
             S == Recorded(n)'
             d == attemptCount'[n]
  <2>1. UNCHANGED cur[w] /\ cur'[w].attempt = k
    BY <1>4
  <2>2. CASE pc[w] \in {"find", "markProcessing", "send"}
    <3>1. k = c + 1 /\ R = 1 .. c /\ d = c /\ S = R
      BY <1>2, <1>7, <2>2 DEF Keeps
    <3>2. pc'[w] \in {"markProcessing", "send", "recordSuccess", "countFailure", "ack"}
      BY <1>4, <2>2 DEF Moves
    <3> QED
      BY <2>1, <3>1, <3>2 DEF Keeps
  <2>3. CASE pc[w] = "recordSuccess"
    <3>1. k = c + 1 /\ R = 1 .. c /\ d = c /\ S = R \cup {k}
      BY <1>2, <1>7, <2>3 DEF Keeps
    <3>2. S = 1 .. (d + 1)
      BY <1>8, <3>1
    <3>3. pc'[w] = "markSent"
      BY <1>4, <2>3 DEF Moves
    <3> QED
      BY <2>1, <3>1, <3>2, <3>3 DEF Keeps
  <2>4. CASE pc[w] = "markSent"
    <3>1. k = c + 1 /\ R = 1 .. (c + 1) /\ d = c /\ S = R
      BY <1>2, <1>7, <2>4 DEF Keeps
    <3>2. pc'[w] = "countSuccess"
      BY <1>4, <2>4 DEF Moves
    <3> QED
      BY <2>1, <3>1, <3>2 DEF Keeps
  <2>5. CASE pc[w] = "countSuccess"
    <3>1. R = 1 .. (c + 1) /\ d = c + 1 /\ S = R
      BY <1>2, <1>7, <2>5 DEF Keeps
    <3>2. pc'[w] = "ack"
      BY <1>4, <2>5 DEF Moves
    <3> QED
      BY <3>1, <3>2 DEF Unfinished
  <2>6. CASE pc[w] = "countFailure"
    <3>1. k = c + 1 /\ R = 1 .. c /\ d = c + 1 /\ S = R
      BY <1>2, <1>7, <2>6 DEF Keeps
    <3>2. k = d /\ S = 1 .. (d - 1)
      BY <1>8, <3>1
    <3>3. pc'[w] \in {"recordRetry", "recordDead"}
      BY <1>4, <2>6 DEF Moves
    <3> QED
      BY <2>1, <3>2, <3>3 DEF Keeps
  <2>7. CASE pc[w] \in {"recordRetry", "recordDead"}
    <3>1. k = c /\ R = 1 .. (c - 1) /\ d = c /\ S = R \cup {k}
      BY <1>2, <1>7, <2>7 DEF Keeps
    <3>2. k = d /\ S = 1 .. d
      BY <1>8, <3>1
    <3>3. pc'[w] \in {"publishRetry", "publishDlq"}
      BY <1>4, <2>7 DEF Moves
    <3> QED
      BY <2>1, <3>2, <3>3 DEF Keeps
  <2>8. CASE pc[w] \in {"publishRetry", "publishDlq", "markDead"}
    <3>1. R = 1 .. c /\ d = c /\ S = R
      BY <1>2, <1>7, <2>8 DEF Keeps
    <3>2. pc'[w] \in {"ack", "markDead"}
      BY <1>4, <2>8 DEF Moves
    <3> QED
      BY <3>1, <3>2 DEF Keeps, Unfinished
  <2> QED
    BY <1>0, <2>2, <2>3, <2>4, <2>5, <2>6, <2>7, <2>8 DEF Labels
<1>10. ASSUME NEW m \in Of(n), Waits(m)' PROVE m.attempt = attemptCount'[n] + 1
  <2>1. pc[w] = "publishRetry" /\ m = NextAttempt(w)
    BY <1>3, <1>10, WaitsOnMessage DEF Of
  <2>2. k = c /\ attemptCount'[n] = c
    BY <1>2, <1>7, <2>1 DEF Keeps
  <2> QED
    BY <2>1, <2>2 DEF NextAttempt
<1>11. pc'[w] \in Unfinished \/ pc'[w] = "ack"
  BY <1>4 DEF Moves, Unfinished, Labels
<1>12. AtWork(n, Unfinished)' = {} => Recorded(n)' = 1 .. attemptCount'[n]
  <2>1. pc'[w] \in Unfinished => w \in AtWork(n, Unfinished)'
    BY <1>4 DEF AtWork
  <2> QED
    BY <1>9, <1>11, <2>1
<1>13. \A v \in AtWork(n, Unfinished)' : Keeps(n, v)'
  <2>1. \A v \in AtWork(n, Unfinished)' : v = w /\ pc'[v] \in Unfinished
    BY <1>5 DEF AtWork
  <2> QED
    BY <1>9, <2>1
<1>14. UNCHANGED Of(n)
  BY DEF Of
<1> HIDE DEF k, c
<1> QED
  BY <1>6, <1>10, <1>12, <1>13, <1>14 DEF InStep

(* While no handler was cut short, the count and the history of a single   *)
(* copy keep step.                                                         *)
LEMMA CountsInvariant == Spec => []CountsInStep
<1>1. Init => CountsInStep
  <2> SUFFICES ASSUME Init, NEW n \in Notifications PROVE InStep(n)
    BY DEF CountsInStep
  <2>1. \A m \in Of(n) : ~Waits(m)
    <3>1. \A m \in Messages : main[m] = 0 /\ retry[m] = 0
      BY BagFacts DEF Init
    <3>2. \A w \in Workers, m \in Messages : waiting[<<w, m>>] = 0
      BY BagFacts DEF Init, waiting
    <3>3. ASSUME NEW m \in Of(n)
          PROVE  /\ ~(main[m] > 0) /\ ~(retry[m] > 0)
                 /\ \A w \in Workers : ~(waiting[<<w, m>>] > 0) /\ ~OnItsWay(w, m)
      BY <3>1, <3>2 DEF Of, Init, OnItsWay
    <3> QED
      BY <3>3 DEF Waits
  <2>2. AtWork(n, Unfinished) = {}
    BY DEF Init, AtWork, Unfinished
  <2>3. attemptCount[n] = 0 /\ Recorded(n) = {}
    BY DEF Init, Recorded
  <2> QED
    BY <2>1, <2>2, <2>3 DEF InStep
<1>2. /\ TypeInv /\ TypeInv' /\ LostHoldsNothing /\ HandlersBacked /\ Sourced
      /\ CountsInStep /\ [Next]_vars
      => CountsInStep'
  <2> SUFFICES ASSUME TypeInv, TypeInv', LostHoldsNothing, HandlersBacked, Sourced,
                      CountsInStep, [Next]_vars,
                      NEW n \in Notifications, SingleCopy(n)', crashes' = 0
               PROVE  InStep(n)'
    BY DEF CountsInStep
  <2>1. SingleCopy(n)
    BY PaidGrows
  <2>2. crashes \in Nat /\ crashes = 0
    <3>1. crashes \in Nat
      BY DEF TypeInv, TypeOK, CountersOK
    <3>2. crashes' = crashes \/ crashes' = crashes + 1
      BY HandlerFrame DEF Next, Environment, System, Post, Forget, LoseConnection, Crash, Publish,
         Expire, Deliver, Requeue, Receive, ReadFrame, vars, history
    <3> QED
      BY <3>1, <3>2
  <2>3. InStep(n)
    BY <2>1, <2>2 DEF CountsInStep
  <2>4. CASE Next /\ ~\E w \in Workers : OnMessage(w)
    BY <2>1, <2>2, <2>3, <2>4, InStepOutside DEF Next
  <2>5. ASSUME NEW w \in Workers, OnMessage(w), pc[w] # "ack", cur[w].n = n
        PROVE  InStep(n)'
    BY <2>1, <2>3, <2>5, InStepOwn
  <2>6. ASSUME NEW w \in Workers, OnMessage(w), pc[w] = "ack" \/ cur[w].n # n
        PROVE  InStep(n)'
    <3>1. attempts \in [Notifications -> [Attempts -> AttemptStatuses]]
          /\ attemptCount \in [Notifications -> Nat] /\ cur[w].n \in Notifications
      BY <2>6, HandlerFrame, BusyMessage DEF TypeInv, TypeOK, DbOK
    <3>2. UNCHANGED <<attemptCount[n], attempts[n]>>
      <4>1. CASE pc[w] = "ack"
        BY <2>6, <4>1, HandlerWrites
      <4>2. ASSUME cur[w].n # n, IncrementAttemptCount(w) \/ \E s : Record(w, s)
            PROVE  UNCHANGED <<attemptCount[n], attempts[n]>>
        BY <3>1, <4>2 DEF IncrementAttemptCount, Record
      <4>3. \/ IncrementAttemptCount(w)
            \/ \E s : Record(w, s)
            \/ UNCHANGED <<attemptCount, attempts>>
        BY <2>6, HandlerWrites
      <4> QED
        BY <2>6, <4>1, <4>2, <4>3
    <3>3. /\ \A v \in Workers : v # w => UNCHANGED <<pc[v], cur[v]>>
          /\ pc'[w] # "idle" => UNCHANGED cur[w]
          /\ <<pc[w], pc'[w]>> \in Moves /\ UNCHANGED published
      BY <2>6, HandlerMoves, HandlerFrame DEF history
    <3>4. w \notin AtWork(n, Unfinished) /\ w \notin AtWork(n, Unfinished)'
      BY <2>6, <3>3 DEF AtWork, Unfinished, Moves
    <3>5. /\ AtWork(n, Unfinished)' = AtWork(n, Unfinished)
          /\ \A v \in AtWork(n, Unfinished) : UNCHANGED <<pc[v], cur[v]>>
      BY <3>3, <3>4 DEF AtWork
    <3>6. ASSUME NEW m \in Of(n), Waits(m)' PROVE Waits(m)
      <4>1. m \in Messages /\ m.n = n
        BY DEF Of
      <4>2. ~(pc[w] = "publishRetry" /\ m = NextAttempt(w))
        BY <2>6, <4>1 DEF NextAttempt
      <4> QED
        BY <2>6, <3>6, <4>1, <4>2, WaitsOnMessage
    <3> QED
      BY <2>3, <3>2, <3>3, <3>5, <3>6, InStepFrame
  <2>7. CASE UNCHANGED vars
    <3>1. /\ UNCHANGED <<attemptCount, attempts, published, main, retry, wire, unacked, pc, cur>>
      BY <2>7 DEF vars, db, broker, worker, history
    <3>2. \A m \in Of(n) : Waits(m)' => Waits(m)
      BY <3>1 DEF Waits, waiting, OnItsWay
    <3>3. UNCHANGED AtWork(n, Unfinished)
      BY <3>1 DEF AtWork
    <3> QED
      BY <2>3, <3>1, <3>2, <3>3, InStepFrame
  <2> QED
    BY <2>4, <2>5, <2>6, <2>7
<1> QED
  BY <1>1, <1>2, TypeInvariant, LostInvariant, HandlersInvariant, SourcedInvariant, PTL DEF Spec

(* When nobody works on a notification of a single copy and no handler was *)
(* cut short, attempt_count is the number of rows of its history.          *)
THEOREM CountMatches == Spec => []CountMatchesHistory
<1>1. TypeInv /\ CountsInStep => CountMatchesHistory
  <2> SUFFICES ASSUME TypeInv, CountsInStep, NEW n \in Notifications, SingleCopy(n),
                      \A w \in Workers : pc[w] # "idle" => cur[w].n # n,
                      crashes = 0
               PROVE  attemptCount[n] = Cardinality(Recorded(n))
    BY DEF CountMatchesHistory
  <2>1. AtWork(n, Unfinished) = {}
    BY DEF AtWork, Unfinished
  <2>2. Recorded(n) = 1 .. attemptCount[n]
    BY <2>1 DEF CountsInStep, InStep
  <2>3. attemptCount[n] \in Nat
    BY DEF TypeInv, TypeOK, DbOK
  <2>4. Cardinality(1 .. attemptCount[n]) = IF 1 > attemptCount[n] THEN 0 ELSE attemptCount[n] - 1 + 1
    BY <2>3, FS_Interval
  <2> QED
    BY <2>2, <2>3, <2>4
<1> QED
  BY <1>1, TypeInvariant, CountsInvariant, PTL

-----------------------------------------------------------------------------
(* What explains an outcome.                                               *)

(* Only a handler of n that records writes its history.                    *)
LEMMA HistoryWriters ==
  ASSUME TypeInv, [Next]_vars, NEW n \in Notifications, attempts'[n] # attempts[n]
  PROVE  \E w \in Workers :
           OnMessage(w) /\ cur[w].n = n /\ pc[w] \in {"recordSuccess", "recordRetry", "recordDead"}
<1>1. PICK w \in Workers : OnMessage(w)
  <2>1. ~UNCHANGED vars
    BY DEF vars, db
  <2> QED
    BY <2>1, CopiesOutside DEF Next
<1>2. cur[w].n = n
  BY <1>1, HandlerRecords, HandlerWrites, BusyMessage, HandlerFrame
     DEF Record, IncrementAttemptCount, TypeInv, TypeOK, DbOK
<1> QED
  BY <1>1, <1>2, HandlerWrites DEF IncrementAttemptCount

(* A recorder leaves its result behind.                                    *)
LEMMA RecordedResult ==
  ASSUME TypeInv, NEW w \in Workers, OnMessage(w)
  PROVE  /\ pc[w] = "recordSuccess" => attempts'[cur[w].n][cur[w].attempt] = "SUCCESS"
         /\ pc[w] = "recordDead" => attempts'[cur[w].n][cur[w].attempt] \in Failures
<1>1. /\ attempts \in [Notifications -> [Attempts -> AttemptStatuses]]
      /\ cur[w].n \in Notifications /\ cur[w].attempt \in Attempts
  BY HandlerFrame, BusyMessage DEF TypeInv, TypeOK, DbOK
<1>2. ASSUME NEW s, Record(w, s) PROVE attempts'[cur[w].n][cur[w].attempt] = s
  BY <1>1, <1>2 DEF Record
<1>3. /\ pc[w] = "recordSuccess" => Record(w, "SUCCESS")
      /\ pc[w] = "recordDead" => \E s \in Failures : Record(w, s)
  BY HandlerWrites
<1> QED
  BY <1>2, <1>3

(* Who arrives where the outcome is marked has recorded it.                *)
LEMMA Arrives ==
  ASSUME TypeInv, TypeInv', HandlersBacked, [Next]_vars, NEW n \in Notifications,
         SingleCopy(n), Explained(n), NEW v \in Workers, pc'[v] # "idle", cur'[v].n = n
  PROVE  /\ pc'[v] = "markSent" => attempts'[n][cur'[v].attempt] = "SUCCESS"
         /\ pc'[v] \in {"publishDlq", "markDead"} => attempts'[n][cur'[v].attempt] \in Failures
<1> SUFFICES ASSUME pc'[v] \in {"markSent", "publishDlq", "markDead"}
             PROVE  /\ pc'[v] = "markSent" => attempts'[n][cur'[v].attempt] = "SUCCESS"
                    /\ pc'[v] \in {"publishDlq", "markDead"}
                         => attempts'[n][cur'[v].attempt] \in Failures
  OBVIOUS
<1>1. ASSUME UNCHANGED <<pc[v], cur[v], attempts[n]>>
      PROVE  /\ pc'[v] = "markSent" => attempts'[n][cur'[v].attempt] = "SUCCESS"
             /\ pc'[v] \in {"publishDlq", "markDead"} => attempts'[n][cur'[v].attempt] \in Failures
  BY <1>1 DEF Explained, AtWork
<1>2. ASSUME UNCHANGED <<pc[v], cur[v]>>, NEW w \in Workers, w # v, OnMessage(w)
      PROVE  UNCHANGED attempts[n]
  <2> SUFFICES ASSUME attempts'[n] # attempts[n] PROVE FALSE
    OBVIOUS
  <2>1. PICK x \in Workers :
          OnMessage(x) /\ cur[x].n = n /\ pc[x] \in {"recordSuccess", "recordRetry", "recordDead"}
    BY HistoryWriters
  <2>2. x \in AtWork(n, Unfinished) /\ v \in AtWork(n, Unfinished)
    BY <1>2, <2>1 DEF AtWork, Unfinished, Labels
  <2>3. x = v
    BY <2>2, Alone
  <2> QED
    BY <1>2, <2>1, <2>3
<1>3. ASSUME OnMessage(v)
      PROVE  /\ pc'[v] = "markSent" => attempts'[n][cur'[v].attempt] = "SUCCESS"
             /\ pc'[v] \in {"publishDlq", "markDead"} => attempts'[n][cur'[v].attempt] \in Failures
  <2>1. <<pc[v], pc'[v]>> \in Moves /\ UNCHANGED cur[v] /\ pc[v] # "idle"
    BY <1>3, HandlerMoves, HandlerFrame
  <2>2. CASE pc'[v] = "markSent"
    <3>1. pc[v] = "recordSuccess"
      BY <2>1, <2>2 DEF Moves
    <3> QED
      BY <1>3, <2>1, <2>2, <3>1, RecordedResult
  <2>3. CASE pc'[v] = "publishDlq"
    <3>1. pc[v] = "recordDead"
      BY <2>1, <2>3 DEF Moves
    <3> QED
      BY <1>3, <2>1, <2>3, <3>1, RecordedResult
  <2>4. CASE pc'[v] = "markDead"
    <3>1. pc[v] = "publishDlq"
      BY <2>1, <2>4 DEF Moves
    <3>2. attempts[n][cur[v].attempt] \in Failures
      BY <2>1, <3>1 DEF Explained, AtWork
    <3>3. UNCHANGED attempts
      BY <1>3, <3>1, HandlerWrites
    <3> QED
      BY <2>1, <2>4, <3>2, <3>3
  <2> QED
    BY <2>2, <2>3, <2>4
<1>4. CASE \E w \in Workers : OnMessage(w)
  <2>1. PICK w \in Workers : OnMessage(w)
    BY <1>4
  <2>2. CASE w = v
    BY <1>3, <2>1, <2>2
  <2>3. CASE w # v
    <3>1. UNCHANGED <<pc[v], cur[v]>>
      BY <2>1, <2>3, HandlerMoves
    <3> QED
      BY <1>1, <1>2, <2>1, <2>3, <3>1
  <2> QED
    BY <2>2, <2>3
<1>5. CASE Next /\ ~\E w \in Workers : OnMessage(w)
  <2>1. CopiesMove /\ UNCHANGED attempts
    BY <1>5, CopiesOutside DEF Next
  <2>2. UNCHANGED <<pc[v], cur[v]>>
    BY <2>1 DEF CopiesMove
  <2> QED
    BY <1>1, <2>1, <2>2
<1>6. CASE UNCHANGED vars
  BY <1>1, <1>6 DEF vars, db, worker
<1> QED
  BY <1>4, <1>5, <1>6

(* What the row of a single copy says of its outcome is in the history.    *)
LEMMA ExplainedInvariant == Spec => []OutcomesExplained
<1>1. Init => OutcomesExplained
  BY DEF Init, OutcomesExplained, Explained, AtWork
<1>2. /\ TypeInv /\ TypeInv' /\ OutcomesBacked /\ HandlersBacked /\ OutcomesExplained /\ [Next]_vars
      => OutcomesExplained'
  <2> SUFFICES ASSUME TypeInv, TypeInv', OutcomesBacked, HandlersBacked, OutcomesExplained,
                      [Next]_vars, NEW n \in Notifications, SingleCopy(n)'
               PROVE  Explained(n)'
    BY DEF OutcomesExplained
  <2>1. SingleCopy(n) /\ Explained(n)
    BY PaidGrows DEF OutcomesExplained
  <2>2. ASSUME Final(n) PROVE UNCHANGED attempts[n]
    <3> SUFFICES ASSUME attempts'[n] # attempts[n] PROVE FALSE
      OBVIOUS
    <3>1. PICK w \in Workers :
            OnMessage(w) /\ cur[w].n = n /\ pc[w] \in {"recordSuccess", "recordRetry", "recordDead"}
      BY HistoryWriters
    <3>2. w \in AtWork(n, Undecided)
      BY <3>1 DEF AtWork, Undecided, Labels
    <3> QED
      BY <2>1, <2>2, <3>2, NobodyAfter
  <2>3. ASSUME status'[n] = "SENT" PROVE \E k \in Attempts : attempts'[n][k] = "SUCCESS"
    <3>1. CASE status[n] = "SENT"
      BY <2>1, <2>2, <3>1 DEF Explained, Final
    <3>2. CASE status[n] # "SENT"
      <4>1. PICK w \in Workers :
              OnMessage(w) /\ cur[w].n = n /\ <<pc[w], pc'[w], status'[n]>> \in MarkSteps
        BY <2>3, <3>2, StatusWriters
      <4>2. pc[w] = "markSent"
        BY <2>3, <4>1 DEF MarkSteps
      <4>3. attempts[n][cur[w].attempt] = "SUCCESS" /\ cur[w].attempt \in Attempts
        BY <2>1, <4>1, <4>2, BusyMessage DEF Explained, AtWork, TypeInv
      <4>4. UNCHANGED attempts
        BY <4>1, <4>2, HandlerWrites
      <4> QED
        BY <4>3, <4>4
    <3> QED
      BY <3>1, <3>2
  <2>4. ASSUME status'[n] = "DEAD_LETTERED" PROVE \E k \in Attempts : attempts'[n][k] \in Failures
    <3>1. CASE status[n] = "DEAD_LETTERED"
      BY <2>1, <2>2, <3>1 DEF Explained, Final
    <3>2. CASE status[n] # "DEAD_LETTERED"
      <4>1. PICK w \in Workers :
              OnMessage(w) /\ cur[w].n = n /\ <<pc[w], pc'[w], status'[n]>> \in MarkSteps
        BY <2>4, <3>2, StatusWriters
      <4>2. pc[w] = "markDead"
        BY <2>4, <4>1 DEF MarkSteps
      <4>3. attempts[n][cur[w].attempt] \in Failures /\ cur[w].attempt \in Attempts
        BY <2>1, <4>1, <4>2, BusyMessage DEF Explained, AtWork, TypeInv
      <4>4. UNCHANGED attempts
        BY <4>1, <4>2, HandlerWrites
      <4> QED
        BY <4>3, <4>4
    <3> QED
      BY <3>1, <3>2
  <2>5. ASSUME NEW v \in Workers, pc'[v] # "idle", cur'[v].n = n
        PROVE  /\ pc'[v] = "markSent" => attempts'[n][cur'[v].attempt] = "SUCCESS"
               /\ pc'[v] \in {"publishDlq", "markDead"} => attempts'[n][cur'[v].attempt] \in Failures
    BY <2>1, <2>5, Arrives
  <2> QED
    BY <2>3, <2>4, <2>5 DEF Explained, AtWork
<1> QED
  BY <1>1, <1>2, TypeInvariant, OutcomesInvariant, HandlersInvariant, PTL DEF Spec

-----------------------------------------------------------------------------
(* GET /api/notifications/{id}.                                            *)

FoundOK ==
  found = NoRow \/ found \in [n : Notifications, outcome : {"SENT", "DEAD_LETTERED", "open"}]

(* Handlers that read leave the pipeline as it is.                         *)
LEMMA QueriesStep ==
  ASSUME [QueriesNext]_queryVars
  PROVE  /\ [Next]_vars
         /\ \/ found' \in {found, NoRow}
            \/ \E n \in Notifications : FindById(n)
  BY DEF QueriesNext, Pipeline, FindById, FindByNotificationId, queryVars

(* The pipeline does not notice a reader.                                  *)
LEMMA QueriesRefines == QueriesSpec => Spec
<1>1. QueriesInit => Init
  BY DEF QueriesInit
<1>2. [QueriesNext]_queryVars => [Next]_vars
  BY QueriesStep
<1> QED
  BY <1>1, <1>2, PTL DEF QueriesSpec, Spec

(* What a handler has read stays true for a single copy.                   *)
LEMMA OutcomeInvariant == QueriesSpec => [](FoundOK /\ OutcomeHolds)
<1>1. QueriesInit => FoundOK /\ OutcomeHolds
  BY DEF QueriesInit, FoundOK, OutcomeHolds
<1>2. /\ TypeInv /\ TypeInv' /\ OutcomesBacked
      /\ FoundOK /\ OutcomeHolds /\ [QueriesNext]_queryVars
      => (FoundOK /\ OutcomeHolds)'
  <2> SUFFICES ASSUME TypeInv, TypeInv', OutcomesBacked, FoundOK, OutcomeHolds,
                      [QueriesNext]_queryVars
               PROVE  FoundOK' /\ OutcomeHolds'
    OBVIOUS
  <2>1. [Next]_vars
    BY QueriesStep
  <2>2. CASE found' = NoRow
    BY <2>2 DEF FoundOK, OutcomeHolds
  <2>3. CASE found' = found /\ found # NoRow
    <3>1. FoundOK'
      BY <2>3 DEF FoundOK
    <3>2. ASSUME NEW n \in Notifications, n = found.n, found.outcome # "open", SingleCopy(n)'
          PROVE  status'[n] = found.outcome
      <4>1. found.outcome \in {"SENT", "DEAD_LETTERED"}
        BY <2>3, <3>2 DEF FoundOK
      <4>2. SingleCopy(n)
        BY <2>1, <3>2, PaidGrows
      <4>3. status[n] = found.outcome
        BY <2>3, <3>2, <4>2 DEF OutcomeHolds
      <4> QED
        BY <2>1, <3>2, <4>1, <4>3, FinalStays DEF Final
    <3>3. found.n \in Notifications
      BY <2>3 DEF FoundOK
    <3>4. ASSUME SingleCopy(found.n)', found.outcome # "open" PROVE status'[found.n] = found.outcome
      BY <2>3, <3>2, <3>3, <3>4 DEF SingleCopy
    <3> QED
      BY <2>3, <3>1, <3>4 DEF OutcomeHolds
  <2>4. ASSUME NEW n \in Notifications, FindById(n) PROVE FoundOK' /\ OutcomeHolds'
    <3>1. found' = [n |-> n, outcome |-> Outcome(status[n])] /\ UNCHANGED status
      BY <2>4 DEF FindById, vars, db
    <3>2. Outcome(status[n]) \in {"SENT", "DEAD_LETTERED", "open"}
      BY DEF Outcome
    <3>3. Outcome(status[n]) # "open" => status[n] = Outcome(status[n])
      BY DEF Outcome
    <3> QED
      BY <3>1, <3>2, <3>3 DEF FoundOK, OutcomeHolds
  <2> QED
    BY <2>2, <2>3, <2>4, QueriesStep
<1> QED
  BY <1>1, <1>2, QueriesRefines, TypeInvariant, OutcomesInvariant, PTL DEF QueriesSpec

(* A client that is told the outcome of a single copy is also shown the    *)
(* attempt it comes from: the outcome is in the row only after the attempt *)
(* is in the history, and neither is written over between the two reads.   *)
THEOREM DetailExplained == QueriesSpec => DetailExplainsOutcome
<1>1. FoundOK /\ OutcomeHolds /\ OutcomesExplained
      => [FindByNotificationId /\ SingleCopy(found.n) =>
            /\ Body.outcome = "SENT" => Shows({"SUCCESS"})
            /\ Body.outcome = "DEAD_LETTERED" =>
                 Shows({"TRANSIENT_FAILURE", "PERMANENT_FAILURE"})]_queryVars
  <2> SUFFICES ASSUME FoundOK, OutcomeHolds, OutcomesExplained,
                      FindByNotificationId, SingleCopy(found.n)
               PROVE  /\ Body.outcome = "SENT" => Shows({"SUCCESS"})
                      /\ Body.outcome = "DEAD_LETTERED" =>
                           Shows({"TRANSIENT_FAILURE", "PERMANENT_FAILURE"})
    OBVIOUS
  <2>1. found # NoRow /\ found.n \in Notifications
    BY DEF FindByNotificationId, FoundOK
  <2>2. /\ found.outcome # "open" => status[found.n] = found.outcome
        /\ Explained(found.n) /\ Body.outcome = found.outcome
    BY <2>1 DEF OutcomeHolds, OutcomesExplained, Body
  <2>3. ASSUME NEW R, NEW k \in Attempts, attempts[found.n][k] \in R, "NONE" \notin R
        PROVE  Shows(R)
    <3>1. k \in Recorded(found.n)
      BY <2>3 DEF Recorded
    <3>2. <<k, attempts[found.n][k]>> \in Body.deliveryAttempts
      BY <3>1 DEF Body
    <3> QED
      BY <2>3, <3>2 DEF Shows
  <2>4. ASSUME Body.outcome = "SENT" PROVE Shows({"SUCCESS"})
    BY <2>2, <2>3, <2>4 DEF Explained
  <2>5. ASSUME Body.outcome = "DEAD_LETTERED"
        PROVE  Shows({"TRANSIENT_FAILURE", "PERMANENT_FAILURE"})
    BY <2>2, <2>3, <2>5 DEF Explained, Failures
  <2> QED
    BY <2>4, <2>5
<1> QED
  BY <1>1, OutcomeInvariant, QueriesRefines, ExplainedInvariant, PTL DEF DetailExplainsOutcome
=============================================================================
