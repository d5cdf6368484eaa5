-------------------------- MODULE LifecycleProofs --------------------------
(* What Lifecycle promises for any threads, ladder, starts and messages.   *)
EXTENDS Lifecycle, SequenceTheorems, FiniteSetTheorems, TLAPS

-----------------------------------------------------------------------------
(* The inductive invariant: a message in the channel has every declaration *)
(* that is still missing before it.                                        *)

Ahead(q, s, i) == \E j \in 1 .. i : s[j] = Declare(q)

Behind(s, D) ==
  \A i \in 1 .. Len(s) :
    s[i].op = "publish" => \A q \in QueueNames : q \in D \/ Ahead(q, s, i - 1)

Up == {"declared", "staffed", "ready", "joinHttp", "joinWorkers"}

\* Once main() has declared, an open channel carries what is still missing.
DeclarationsSent ==
  main \in Up /\ publisher = "open" =>
    \A q \in QueueNames : q \in declared \/ Ahead(q, wire, Len(wire))

\* Handlers run only in a process that has declared.
HandlersAfterDeclare == \A t \in HttpThreads : http[t] # "none" => main \in Up

IndInv ==
  /\ TypeOK
  /\ Behind(wire, declared)
  /\ DeclarationsSent
  /\ HandlersAfterDeclare
  /\ LadderBeforeMessages
  /\ NothingUnroutable

-----------------------------------------------------------------------------
(* Frames and sequences of them.                                           *)

LEMMA FrameFacts ==
  /\ \A q \in QueueNames : Declare(q) \in Frames /\ Declare(q).op = "declare"
                           /\ Declare(q).queue = q
  /\ \A c \in Channels : Publish(c) \in Frames /\ Publish(c).op = "publish"
                         /\ MainQueue(c) \in QueueNames
  /\ \A f \in Frames : /\ f.op = "declare" => \E q \in QueueNames : f = Declare(q)
                       /\ f.op # "declare" => f.op = "publish" /\ f.queue \in QueueNames
<1>1. \A c \in Channels : MainQueue(c) \in QueueNames
  BY LifecycleAssumption DEF QueueNames, MainQueue
<1>2. \A q \in QueueNames : Declare(q) \in Frames /\ Declare(q).op = "declare"
                           /\ Declare(q).queue = q
  BY DEF Declare, Frames
<1>3. \A c \in Channels : Publish(c) \in Frames /\ Publish(c).op = "publish"
                          /\ Publish(c).queue = MainQueue(c)
  BY DEF Publish, Frames
<1>4. ASSUME NEW f \in Frames
      PROVE  /\ f.op = "declare" => \E q \in QueueNames : f = Declare(q)
             /\ f.op # "declare" => f.op = "publish" /\ f.queue \in QueueNames
  <2>1. CASE \E q \in QueueNames : f = Declare(q)
    BY <2>1, <1>2
  <2>2. CASE \E c \in Channels : f = Publish(c)
    BY <2>2, <1>1, <1>3
  <2> QED BY <2>1, <2>2 DEF Frames
<1> QED BY <1>1, <1>2, <1>3, <1>4

\* What is cut off the end of a channel takes no declaration from what stays.
LEMMA CutKeeps ==
  ASSUME NEW s \in Seq(Frames), NEW D, NEW k \in 0 .. Len(s), Behind(s, D)
  PROVE  SubSeq(s, 1, k) \in Seq(Frames) /\ Behind(SubSeq(s, 1, k), D)
<1> DEFINE r == SubSeq(s, 1, k)
<1>1. r \in Seq(Frames) /\ Len(r) = k /\ \A i \in 1 .. k : r[i] = s[i]
  OBVIOUS
<1> HIDE DEF r
<1>2. Behind(r, D)
  BY <1>1 DEF Behind, Ahead
<1> QED BY <1>1, <1>2 DEF r

\* A frame that was read counts as declared, if it was a declaration.
LEMMA TailKeeps ==
  ASSUME NEW s \in Seq(Frames), s # <<>>, NEW D, NEW E, D \subseteq E,
         \A q \in QueueNames : Head(s) = Declare(q) => q \in E, Behind(s, D)
  PROVE  /\ Tail(s) \in Seq(Frames) /\ Behind(Tail(s), E)
         /\ \A q \in QueueNames : Ahead(q, s, Len(s)) => q \in E \/ Ahead(q, Tail(s), Len(Tail(s)))
<1> DEFINE r == Tail(s)
<1>1. r \in Seq(Frames) /\ Len(r) = Len(s) - 1 /\ Head(s) = s[1]
      /\ \A i \in 1 .. Len(r) : r[i] = s[i + 1]
  OBVIOUS
<1>2. Len(s) \in Nat /\ Len(r) \in Nat
  OBVIOUS
<1> HIDE DEF r
<1>3. ASSUME NEW q \in QueueNames, NEW n \in 0 .. Len(r), Ahead(q, s, n + 1)
      PROVE  q \in E \/ Ahead(q, r, n)
  <2> PICK j \in 1 .. n + 1 : s[j] = Declare(q)
    BY <1>3 DEF Ahead
  <2>1. CASE j = 1
    BY <2>1, <1>1
  <2>2. CASE j # 1
    <3>1. j - 1 \in 1 .. n /\ r[j - 1] = s[j]
      BY <2>2, <1>1, <1>2
    <3> QED BY <3>1 DEF Ahead
  <2> QED BY <2>1, <2>2
<1>4. Behind(r, E)
  <2> SUFFICES ASSUME NEW i \in 1 .. Len(r), r[i].op = "publish", NEW q \in QueueNames
               PROVE  q \in E \/ Ahead(q, r, i - 1)
    BY DEF Behind
  <2>1. s[i + 1].op = "publish" /\ i + 1 \in 1 .. Len(s) /\ i + 1 - 1 = i
    BY <1>1, <1>2
  <2>2. q \in D \/ Ahead(q, s, i)
    BY <2>1 DEF Behind
  <2>3. i - 1 \in 0 .. Len(r) /\ (i - 1) + 1 = i
    BY <1>2
  <2> QED BY <2>2, <2>3, <1>3
<1>5. \A q \in QueueNames : Ahead(q, s, Len(s)) => q \in E \/ Ahead(q, r, Len(r))
  <2>1. Len(r) \in 0 .. Len(r) /\ Len(r) + 1 = Len(s)
    BY <1>1, <1>2
  <2> QED BY <2>1, <1>3
<1> QED BY <1>1, <1>4, <1>5 DEF r

\* Nothing is missing when the first frame is a message.
LEMMA HeadIsBehind ==
  ASSUME NEW s \in Seq(Frames), s # <<>>, NEW D, Behind(s, D), Head(s).op = "publish"
  PROVE  QueueNames \subseteq D
<1>1. 1 \in 1 .. Len(s) /\ s[1].op = "publish"
  OBVIOUS
<1> QED BY <1>1 DEF Behind, Ahead

LEMMA AppendKeeps ==
  ASSUME NEW s \in Seq(Frames), NEW e \in Seq(Frames), NEW D, Behind(s, D),
         \/ \A i \in 1 .. Len(e) : e[i].op = "declare"
         \/ \A q \in QueueNames : q \in D \/ Ahead(q, s, Len(s))
  PROVE  /\ s \o e \in Seq(Frames) /\ Behind(s \o e, D)
         /\ \A q : Ahead(q, s, Len(s)) \/ Ahead(q, e, Len(e)) => Ahead(q, s \o e, Len(s \o e))
<1> DEFINE r == s \o e
<1>1. /\ r \in Seq(Frames) /\ Len(r) = Len(s) + Len(e)
      /\ \A i \in 1 .. Len(s) : r[i] = s[i]
      /\ \A i \in 1 .. Len(e) : r[Len(s) + i] = e[i]
  OBVIOUS
<1>2. Len(s) \in Nat /\ Len(e) \in Nat
  OBVIOUS
<1> HIDE DEF r
<1>3. ASSUME NEW q, NEW n \in 0 .. Len(s), Ahead(q, s, n)
      PROVE  Ahead(q, r, n)
  <2> PICK j \in 1 .. n : s[j] = Declare(q)
    BY <1>3 DEF Ahead
  <2>1. j \in 1 .. Len(s) /\ r[j] = s[j]
    BY <1>1, <1>2
  <2> QED BY <2>1 DEF Ahead
<1>4. Behind(r, D)
  <2> SUFFICES ASSUME NEW i \in 1 .. Len(r), r[i].op = "publish", NEW q \in QueueNames
               PROVE  q \in D \/ Ahead(q, r, i - 1)
    BY DEF Behind
  <2>1. CASE i <= Len(s)
    <3>1. i \in 1 .. Len(s) /\ i - 1 \in 0 .. Len(s) /\ s[i].op = "publish"
      BY <2>1, <1>1, <1>2
    <3>2. q \in D \/ Ahead(q, s, i - 1)
      BY <3>1 DEF Behind
    <3> QED BY <3>1, <3>2, <1>3
  <2>2. CASE i > Len(s)
    <3>0. i - Len(s) \in 1 .. Len(e) /\ Len(s) + (i - Len(s)) = i
      BY <2>2, <1>1, <1>2
    <3>1. e[i - Len(s)].op = "publish"
      BY <3>0, <1>1
    <3>2. q \in D \/ Ahead(q, s, Len(s))
      BY <3>0, <3>1
    <3>3. ASSUME NEW j \in 1 .. Len(s), s[j] = Declare(q)
          PROVE  j \in 1 .. i - 1 /\ r[j] = Declare(q)
      BY <3>3, <2>2, <1>1, <1>2
    <3>4. Ahead(q, s, Len(s)) => Ahead(q, r, i - 1)
      BY <3>3 DEF Ahead
    <3> QED BY <3>2, <3>4
  <2> QED BY <2>1, <2>2, <1>1, <1>2
<1>5. ASSUME NEW q, Ahead(q, s, Len(s)) \/ Ahead(q, e, Len(e))
      PROVE  Ahead(q, r, Len(r))
  <2>1. CASE Ahead(q, s, Len(s))
    BY <2>1, <1>1, <1>2 DEF Ahead
  <2>2. CASE Ahead(q, e, Len(e))
    <3> PICK j \in 1 .. Len(e) : e[j] = Declare(q)
      BY <2>2 DEF Ahead
    <3>1. Len(s) + j \in 1 .. Len(r) /\ r[Len(s) + j] = Declare(q)
      BY <1>1, <1>2
    <3> QED BY <3>1 DEF Ahead
  <2> QED BY <1>5, <2>1, <2>2
<1> QED BY <1>1, <1>4, <1>5 DEF r

LEMMA FamilyDeclares ==
  ASSUME NEW c \in Channels
  PROVE  /\ Family(c) \in Seq(Frames)
         /\ \A i \in 1 .. Len(Family(c)) : Family(c)[i].op = "declare"
         /\ \A k \in 0 .. RetryRungs + 1 : Ahead(<<c, k>>, Family(c), Len(Family(c)))
<1> DEFINE m == <<Declare(MainQueue(c))>>
           f == [k \in 1 .. RetryRungs + 1 |-> Declare(<<c, k>>)]
<1>1. RetryRungs \in Nat
  BY LifecycleAssumption
<1>2. \A k \in 0 .. RetryRungs + 1 : <<c, k>> \in QueueNames
  BY DEF QueueNames
<1>3. \A k \in 0 .. RetryRungs + 1 :
        Declare(<<c, k>>) \in Frames /\ Declare(<<c, k>>).op = "declare"
  BY <1>2, FrameFacts
<1>4. MainQueue(c) = <<c, 0>>
  BY DEF MainQueue
<1>5. m \in Seq(Frames) /\ Len(m) = 1 /\ m[1] = Declare(<<c, 0>>)
  <2>1. Declare(<<c, 0>>) \in Frames
    BY <1>1, <1>3
  <2> QED BY <2>1, <1>4
<1>6. f \in Seq(Frames) /\ Len(f) = RetryRungs + 1
      /\ \A k \in 1 .. RetryRungs + 1 : f[k] = Declare(<<c, k>>)
  BY <1>1, <1>3
<1>7. Family(c) = m \o f
  BY DEF Family
<1> HIDE DEF m, f
<1>8. /\ m \o f \in Seq(Frames) /\ Len(m \o f) = RetryRungs + 2
      /\ \A i \in 1 .. RetryRungs + 2 : (m \o f)[i] = Declare(<<c, i - 1>>)
  <2> DEFINE r == m \o f
  <2>1. /\ r \in Seq(Frames) /\ Len(r) = Len(m) + Len(f)
        /\ \A i \in 1 .. Len(m) : r[i] = m[i]
        /\ \A i \in 1 .. Len(f) : r[Len(m) + i] = f[i]
    <3>1. m \in Seq(Frames) /\ f \in Seq(Frames)
      BY <1>5, <1>6
    <3> QED BY <3>1
  <2> HIDE DEF r
  <2>2. Len(r) = RetryRungs + 2 /\ r[1] = Declare(<<c, 0>>)
    BY <2>1, <1>1, <1>5, <1>6
  <2>3. ASSUME NEW i \in 1 .. RetryRungs + 2
        PROVE  r[i] = Declare(<<c, i - 1>>)
    <3>1. CASE i = 1
      BY <3>1, <2>2
    <3>2. CASE i # 1
      <4>1. i - 1 \in 1 .. RetryRungs + 1 /\ 1 + (i - 1) = i
        BY <3>2, <1>1
      <4>2. r[1 + (i - 1)] = f[i - 1]
        BY <4>1, <2>1, <1>5, <1>6
      <4> QED BY <4>1, <4>2, <1>6
    <3> QED BY <3>1, <3>2
  <2> QED BY <2>1, <2>2, <2>3 DEF r
<1>9. ASSUME NEW k \in 0 .. RetryRungs + 1
      PROVE  Ahead(<<c, k>>, m \o f, RetryRungs + 2)
  <2>1. k + 1 \in 1 .. RetryRungs + 2 /\ (k + 1) - 1 = k
    BY <1>1
  <2>2. (m \o f)[k + 1] = Declare(<<c, k>>)
    BY <2>1, <1>8
  <2> QED BY <2>1, <2>2 DEF Ahead
<1>10. ASSUME NEW i \in 1 .. RetryRungs + 2
       PROVE  (m \o f)[i].op = "declare"
  <2>1. i - 1 \in 0 .. RetryRungs + 1
    BY <1>1
  <2> QED BY <2>1, <1>3, <1>8
<1> QED BY <1>7, <1>8, <1>9, <1>10

LEMMA BothDeclare ==
  ASSUME NEW s \in Seq(Frames), NEW e \in Seq(Frames),
         \A i \in 1 .. Len(s) : s[i].op = "declare",
         \A i \in 1 .. Len(e) : e[i].op = "declare"
  PROVE  /\ s \o e \in Seq(Frames)
         /\ \A i \in 1 .. Len(s \o e) : (s \o e)[i].op = "declare"
         /\ \A q : Ahead(q, s, Len(s)) \/ Ahead(q, e, Len(e)) => Ahead(q, s \o e, Len(s \o e))
<1>1. Behind(s, QueueNames)
  BY DEF Behind
<1>2. /\ s \o e \in Seq(Frames)
      /\ \A q : Ahead(q, s, Len(s)) \/ Ahead(q, e, Len(e)) => Ahead(q, s \o e, Len(s \o e))
  BY <1>1, AppendKeeps
<1>3. ASSUME NEW i \in 1 .. Len(s \o e)
      PROVE  (s \o e)[i].op = "declare"
  <2>1. CASE i <= Len(s)
    BY <2>1
  <2>2. CASE i > Len(s)
    <3>1. i - Len(s) \in 1 .. Len(e) /\ (s \o e)[i] = e[i - Len(s)]
      BY <2>2
    <3> QED BY <3>1
  <2> QED BY <2>1, <2>2
<1> QED BY <1>2, <1>3

\* declareAll() declares every queue and sends nothing else.
LEMMA DeclaresAll ==
  /\ Declarations \in Seq(Frames)
  /\ \A i \in 1 .. Len(Declarations) : Declarations[i].op = "declare"
  /\ \A q \in QueueNames : Ahead(q, Declarations, Len(Declarations))
<1> DEFINE a == Family("email")
           b == Family("sms")
           d == Family("push")
<1>0. "email" \in Channels /\ "sms" \in Channels /\ "push" \in Channels
  BY DEF Channels
<1>1. /\ a \in Seq(Frames) /\ \A i \in 1 .. Len(a) : a[i].op = "declare"
      /\ \A k \in 0 .. RetryRungs + 1 : Ahead(<<"email", k>>, a, Len(a))
  BY <1>0, FamilyDeclares
<1>2. /\ b \in Seq(Frames) /\ \A i \in 1 .. Len(b) : b[i].op = "declare"
      /\ \A k \in 0 .. RetryRungs + 1 : Ahead(<<"sms", k>>, b, Len(b))
  BY <1>0, FamilyDeclares
<1>3. /\ d \in Seq(Frames) /\ \A i \in 1 .. Len(d) : d[i].op = "declare"
      /\ \A k \in 0 .. RetryRungs + 1 : Ahead(<<"push", k>>, d, Len(d))
  BY <1>0, FamilyDeclares
<1>4. Declarations = (a \o b) \o d
  <2>1. Declarations = a \o b \o d
    BY DEF Declarations
  <2> QED BY <2>1
<1> HIDE DEF a, b, d
<1>5. /\ a \o b \in Seq(Frames) /\ \A i \in 1 .. Len(a \o b) : (a \o b)[i].op = "declare"
      /\ \A q : Ahead(q, a, Len(a)) \/ Ahead(q, b, Len(b)) => Ahead(q, a \o b, Len(a \o b))
  BY <1>1, <1>2, BothDeclare
<1> DEFINE ab == a \o b
<1>6. /\ ab \in Seq(Frames) /\ \A i \in 1 .. Len(ab) : ab[i].op = "declare"
      /\ \A q : Ahead(q, a, Len(a)) \/ Ahead(q, b, Len(b)) => Ahead(q, ab, Len(ab))
  BY <1>5
<1> HIDE DEF ab
<1>7. /\ ab \o d \in Seq(Frames) /\ \A i \in 1 .. Len(ab \o d) : (ab \o d)[i].op = "declare"
      /\ \A q : Ahead(q, ab, Len(ab)) \/ Ahead(q, d, Len(d)) => Ahead(q, ab \o d, Len(ab \o d))
  BY <1>3, <1>6, BothDeclare
<1>8. Declarations = ab \o d
  BY <1>4 DEF ab
<1>9. ASSUME NEW q \in QueueNames
      PROVE  Ahead(q, ab \o d, Len(ab \o d))
  <2>1. PICK c \in Channels, k \in 0 .. RetryRungs + 1 : q = <<c, k>>
    BY DEF QueueNames
  <2>2. CASE c = "email"
    BY <2>1, <2>2, <1>1, <1>6, <1>7
  <2>3. CASE c = "sms"
    BY <2>1, <2>3, <1>2, <1>6, <1>7
  <2>4. CASE c = "push"
    BY <2>1, <2>4, <1>3, <1>7
  <2> QED BY <2>2, <2>3, <2>4 DEF Channels
<1> QED BY <1>7, <1>8, <1>9

-----------------------------------------------------------------------------
(* The invariant is inductive.                                             *)

LEMMA InitOK == Init => IndInv
<1> SUFFICES ASSUME Init PROVE IndInv
  OBVIOUS
<1>1. TypeOK
  <2>1. wire \in Seq(Frames) /\ inQueue \in [QueueNames -> Nat]
    BY DEF Init
  <2>2. /\ http \in [HttpThreads -> {"none", "loop", "blocked", "handling",
                                   "bad_descriptor", "too_many_files", "ended"}]
        /\ worker \in [Workers -> {"none", "asking", "idle", "busy", "refused", "ended"}]
    BY DEF Init
  <2>3. boots \in 0 .. MaxBoots /\ posts \in 0 .. MaxPosts /\ dropped \in Nat
    BY LifecycleAssumption DEF Init
  <2>4. acceptor \in BOOLEAN /\ (acceptor <=> main = "ready")
    BY DEF Init
  <2> QED BY <2>1, <2>2, <2>3, <2>4 DEF Init, TypeOK
<1>2. Behind(wire, declared)
  BY DEF Init, Behind
<1> QED
  BY <1>1, <1>2 DEF Init, IndInv, DeclarationsSent, Up, HandlersAfterDeclare,
                    LadderBeforeMessages, NothingUnroutable

LEMMA RouteFacts ==
  ASSUME NEW q \in QueueNames, NEW qs \in [QueueNames -> Nat], dropped \in Nat, Route(q, qs)
  PROVE  /\ inQueue' \in [QueueNames -> Nat] /\ dropped' \in Nat
         /\ q \in declared => dropped' = dropped
BY DEF Route

LEMMA TakeFacts ==
  ASSUME NEW q \in QueueNames, inQueue \in [QueueNames -> Nat], inQueue[q] > 0
  PROVE  Take(q) \in [QueueNames -> Nat]
BY DEF Take

LEMMA CutFacts ==
  ASSUME wire \in Seq(Frames), Behind(wire, declared), Cut
  PROVE  wire' \in Seq(Frames) /\ Behind(wire', declared)
BY CutKeeps DEF Cut

LEMMA StepOK == IndInv /\ [Next]_vars => IndInv'
<1> SUFFICES ASSUME IndInv, [Next]_vars PROVE IndInv'
  OBVIOUS
<1> USE LifecycleAssumption
<1>a. /\ TypeOK /\ Behind(wire, declared) /\ DeclarationsSent
      /\ HandlersAfterDeclare /\ LadderBeforeMessages /\ NothingUnroutable
  BY DEF IndInv
<1>q. \A c \in Channels : /\ MainQueue(c) \in QueueNames
                           /\ \A k \in 1 .. RetryRungs + 1 : <<c, k>> \in QueueNames
  BY FrameFacts DEF QueueNames
<1>w. \A w \in Workers : WorkerChannel[w] \in Channels /\ Own(w) \in QueueNames
  BY <1>q DEF Own
<1>1. CASE Boot
  <2>1. TypeOK'
    BY <1>a, <1>1 DEF TypeOK, Boot, broker, threads
  <2>2. wire' = wire /\ declared' = declared /\ inQueue' = inQueue /\ worker' = worker
        /\ dropped' = dropped /\ http' = http /\ main = "down" /\ main' = "constructed"
    BY <1>1 DEF Boot, broker, threads
  <2> QED BY <1>a, <2>1, <2>2 DEF IndInv, DeclarationsSent, Up, HandlersAfterDeclare,
                                  LadderBeforeMessages, NothingUnroutable
<1>2. CASE DeclareTopology
  <2>1. CASE publisher = "open"
    <3>1. wire' = wire \o Declarations
      BY <1>2, <2>1 DEF DeclareTopology, Send
    <3>2. /\ wire' \in Seq(Frames) /\ Behind(wire', declared)
          /\ \A q \in QueueNames : Ahead(q, wire', Len(wire'))
      BY <1>a, <3>1, DeclaresAll, AppendKeeps DEF TypeOK
    <3>3. TypeOK'
      BY <1>a, <1>2, <3>2 DEF TypeOK, DeclareTopology, process, broker, threads
    <3> QED BY <1>a, <1>2, <3>2, <3>3
            DEF IndInv, DeclareTopology, process, broker, threads, DeclarationsSent, Up,
                HandlersAfterDeclare, LadderBeforeMessages, NothingUnroutable
  <2>2. CASE publisher # "open"
    <3>1. wire' = wire
      BY <1>2, <2>2 DEF DeclareTopology, Send
    <3>2. TypeOK'
      BY <1>a, <1>2, <3>1 DEF TypeOK, DeclareTopology, process, broker, threads
    <3> QED BY <1>a, <1>2, <2>2, <3>1, <3>2
            DEF IndInv, DeclareTopology, process, broker, threads, DeclarationsSent, Up,
                HandlersAfterDeclare, LadderBeforeMessages, NothingUnroutable
  <2> QED BY <2>1, <2>2
<1>3. CASE StartWorkers
  <2>1. TypeOK'
    BY <1>a, <1>3 DEF TypeOK, StartWorkers, process, broker
  <2> QED BY <1>a, <1>3, <2>1 DEF IndInv, StartWorkers, process, broker, DeclarationsSent, Up,
                HandlersAfterDeclare, LadderBeforeMessages, NothingUnroutable
<1>4. CASE StartHttp
  <2>1. TypeOK'
    BY <1>a, <1>4 DEF TypeOK, StartHttp, process, broker
  <2> QED BY <1>a, <1>4, <2>1 DEF IndInv, StartHttp, process, broker, DeclarationsSent, Up,
                HandlersAfterDeclare, LadderBeforeMessages, NothingUnroutable
<1>5. CASE StopHttp
  <2>1. TypeOK'
    BY <1>a, <1>5 DEF TypeOK, StopHttp, process, broker, threads
  <2> QED BY <1>a, <1>5, <2>1 DEF IndInv, StopHttp, process, broker, threads, DeclarationsSent, Up,
                HandlersAfterDeclare, LadderBeforeMessages, NothingUnroutable
<1>6. CASE JoinHttp
  <2>1. TypeOK'
    BY <1>a, <1>6 DEF TypeOK, JoinHttp, process, broker, threads
  <2> QED BY <1>a, <1>6, <2>1 DEF IndInv, JoinHttp, process, broker, threads, DeclarationsSent, Up,
                HandlersAfterDeclare, LadderBeforeMessages, NothingUnroutable
<1>7. ASSUME NEW w \in Workers, StopWorker(w) PROVE IndInv'
  <2>1. TypeOK'
    BY <1>a, <1>7 DEF TypeOK, StopWorker, process, broker
  <2> QED BY <1>a, <1>7, <2>1 DEF IndInv, StopWorker, process, broker, DeclarationsSent, Up,
                HandlersAfterDeclare, LadderBeforeMessages, NothingUnroutable
<1>8. CASE Gone
  <2>0. wire' \in Seq(Frames) /\ Behind(wire', declared)
    BY <1>a, <1>8, CutFacts DEF TypeOK, Gone
  <2> DEFINE B(q) == {w \in Workers : worker[w] = "busy" /\ Own(w) = q}
  <2>1. \A q : IsFiniteSet(B(q)) /\ Cardinality(B(q)) \in Nat
    BY FS_Subset, FS_CardinalityType
  <2>2. inQueue' = [q \in QueueNames |-> inQueue[q] + Cardinality(B(q))]
    BY <1>8 DEF Gone
  <2> HIDE DEF B
  <2>3. inQueue' \in [QueueNames -> Nat]
    BY <1>a, <2>1, <2>2 DEF TypeOK
  <2>4. TypeOK'
    BY <1>a, <1>8, <2>0, <2>3 DEF TypeOK, Gone, process
  <2>5. LadderBeforeMessages'
    <3>1. CASE declared = QueueNames
      BY <1>8, <3>1 DEF Gone, LadderBeforeMessages
    <3>2. CASE declared # QueueNames
      <4>1. \A q : B(q) = {}
        BY <1>a, <3>2 DEF LadderBeforeMessages, B
      <4>2. \A q \in QueueNames : Cardinality(B(q)) = 0 /\ inQueue[q] = 0
        BY <1>a, <3>2, <4>1, FS_EmptySet DEF LadderBeforeMessages
      <4>3. \A q \in QueueNames : inQueue'[q] = 0
        BY <2>2, <4>2
      <4> QED BY <1>8, <4>3 DEF Gone, LadderBeforeMessages
    <3> QED BY <3>1, <3>2
  <2> QED BY <1>a, <1>8, <2>0, <2>4, <2>5
          DEF IndInv, Gone, process, DeclarationsSent, Up, HandlersAfterDeclare, NothingUnroutable
<1>9. CASE ReadFrame
  <2> DEFINE f == Head(wire)
  <2>0. wire # <<>> /\ wire' = Tail(wire) /\ f \in Frames /\ wire \in Seq(Frames)
    BY <1>a, <1>9 DEF ReadFrame, TypeOK
  <2>1. CASE f.op = "declare"
    <3>1. declared' = declared \cup {f.queue} /\ UNCHANGED <<inQueue, dropped>>
      BY <1>9, <2>1 DEF ReadFrame
    <3>2. PICK p \in QueueNames : f = Declare(p) /\ f.queue = p
      BY <2>0, <2>1, FrameFacts
    <3>3. \A q \in QueueNames : f = Declare(q) => q \in declared'
      BY <3>1, <3>2, FrameFacts
    <3> HIDE DEF f
    <3>4. /\ wire' \in Seq(Frames) /\ Behind(wire', declared')
          /\ \A q \in QueueNames : Ahead(q, wire, Len(wire))
                => q \in declared' \/ Ahead(q, wire', Len(wire'))
      <4>1. declared \subseteq declared'
        BY <3>1
      <4> QED BY <1>a, <2>0, <3>3, <4>1, TailKeeps DEF f
    <3>5. TypeOK'
      BY <1>a, <1>9, <3>1, <3>2, <3>4 DEF TypeOK, ReadFrame, process, threads
    <3>6. DeclarationsSent'
      BY <1>a, <1>9, <3>1, <3>4 DEF DeclarationsSent, ReadFrame
    <3>7. LadderBeforeMessages'
      BY <1>a, <1>9, <3>1, <3>2 DEF LadderBeforeMessages, ReadFrame, threads
    <3> QED BY <1>a, <1>9, <3>1, <3>4, <3>5, <3>6, <3>7
            DEF IndInv, ReadFrame, threads, HandlersAfterDeclare, NothingUnroutable
  <2>2. CASE f.op # "declare"
    <3>1. Route(f.queue, inQueue) /\ UNCHANGED declared
      BY <1>9, <2>2 DEF ReadFrame
    <3>2. f.op = "publish" /\ f.queue \in QueueNames
      BY <2>0, <2>2, FrameFacts
    <3>3. declared = QueueNames
      BY <1>a, <2>0, <3>2, HeadIsBehind DEF TypeOK
    <3>4. inQueue' \in [QueueNames -> Nat] /\ dropped' \in Nat /\ dropped' = dropped
      BY <1>a, <3>1, <3>2, <3>3, RouteFacts DEF TypeOK
    <3>5. \A q \in QueueNames : f = Declare(q) => q \in declared
      BY <3>3
    <3>6. wire' \in Seq(Frames) /\ Behind(wire', declared)
      BY <1>a, <2>0, <3>5, TailKeeps
    <3>7. TypeOK'
      BY <1>a, <1>9, <3>1, <3>4, <3>6 DEF TypeOK, ReadFrame, process, threads
    <3> QED BY <1>a, <1>9, <3>1, <3>3, <3>4, <3>6, <3>7
            DEF IndInv, ReadFrame, threads, DeclarationsSent, HandlersAfterDeclare,
                LadderBeforeMessages, NothingUnroutable
  <2> QED BY <2>1, <2>2
<1>10. ASSUME NEW c \in Channels, NEW k \in 1 .. RetryRungs, Expire(c, k) PROVE IndInv'
  <2>0. <<c, k>> \in QueueNames
    BY <1>q
  <2>1. inQueue[<<c, k>>] > 0 /\ Route(MainQueue(c), Take(<<c, k>>))
    BY <1>10 DEF Expire
  <2>2. declared = QueueNames
    BY <1>a, <2>0, <2>1 DEF LadderBeforeMessages
  <2>3. Take(<<c, k>>) \in [QueueNames -> Nat]
    BY <1>a, <2>0, <2>1, TakeFacts DEF TypeOK
  <2>4. inQueue' \in [QueueNames -> Nat] /\ dropped' \in Nat /\ dropped' = dropped
    BY <1>a, <1>q, <2>1, <2>2, <2>3, RouteFacts DEF TypeOK
  <2>5. TypeOK'
    BY <1>a, <1>10, <2>4 DEF TypeOK, Expire, process, threads
  <2> QED BY <1>a, <1>10, <2>2, <2>4, <2>5
          DEF IndInv, Expire, process, threads, DeclarationsSent, HandlersAfterDeclare,
              LadderBeforeMessages, NothingUnroutable
<1>11. CASE LosePublisher
  <2>1. wire' \in Seq(Frames) /\ Behind(wire', declared)
    BY <1>a, <1>11, CutFacts DEF TypeOK, LosePublisher
  <2>2. TypeOK'
    BY <1>a, <1>11, <2>1 DEF TypeOK, LosePublisher, process, broker, threads
  <2> QED BY <1>a, <1>11, <2>1, <2>2
          DEF IndInv, LosePublisher, broker, threads, DeclarationsSent, HandlersAfterDeclare,
              LadderBeforeMessages, NothingUnroutable
<1>12. ASSUME NEW w \in Workers, WorkerStep(w) PROVE IndInv'
  <2>1. CASE AnswerConsume(w)
    <3>1. TypeOK'
      BY <1>a, <2>1 DEF TypeOK, AnswerConsume, SetWorker, process
    <3> QED BY <1>a, <2>1, <3>1
            DEF TypeOK, IndInv, AnswerConsume, SetWorker, DeclarationsSent, HandlersAfterDeclare,
                LadderBeforeMessages, NothingUnroutable
  <2>2. CASE Deliver(w)
    <3>1. inQueue[Own(w)] > 0 /\ inQueue' = Take(Own(w))
      BY <2>2 DEF Deliver
    <3>2. inQueue' \in [QueueNames -> Nat] /\ declared = QueueNames
      BY <1>a, <1>w, <3>1, TakeFacts DEF TypeOK, LadderBeforeMessages
    <3>3. TypeOK'
      BY <1>a, <2>2, <3>2 DEF TypeOK, Deliver, SetWorker, process
    <3> QED BY <1>a, <2>2, <3>2, <3>3
            DEF IndInv, Deliver, SetWorker, DeclarationsSent, HandlersAfterDeclare,
                LadderBeforeMessages, NothingUnroutable
  <2>3. CASE Settle(w)
    <3>1. declared = QueueNames
      BY <1>a, <2>3 DEF LadderBeforeMessages, Settle
    <3>2. inQueue' \in [QueueNames -> Nat] /\ dropped' \in Nat /\ dropped' = dropped
      <4>1. CASE UNCHANGED <<inQueue, dropped>>
        BY <1>a, <4>1 DEF TypeOK
      <4>2. CASE \E k \in 1 .. RetryRungs + 1 : Route(<<WorkerChannel[w], k>>, inQueue)
        <5> PICK k \in 1 .. RetryRungs + 1 : Route(<<WorkerChannel[w], k>>, inQueue)
          BY <4>2
        <5>1. <<WorkerChannel[w], k>> \in QueueNames
          BY <1>q, <1>w
        <5> QED BY <1>a, <3>1, <5>1, RouteFacts DEF TypeOK
      <4> QED BY <2>3, <4>1, <4>2 DEF Settle
    <3>3. TypeOK'
      BY <1>a, <2>3, <3>2 DEF TypeOK, Settle, SetWorker, process
    <3> QED BY <1>a, <2>3, <3>1, <3>2, <3>3
            DEF IndInv, Settle, SetWorker, DeclarationsSent, HandlersAfterDeclare,
                LadderBeforeMessages, NothingUnroutable
  <2>4. CASE EndWorker(w)
    <3>1. TypeOK'
      BY <1>a, <2>4 DEF TypeOK, EndWorker, SetWorker, process
    <3> QED BY <1>a, <2>4, <3>1
            DEF TypeOK, IndInv, EndWorker, SetWorker, DeclarationsSent, HandlersAfterDeclare,
                LadderBeforeMessages, NothingUnroutable
  <2> QED BY <1>12, <2>1, <2>2, <2>3, <2>4 DEF WorkerStep
<1>13. ASSUME NEW t \in HttpThreads, NEW s, SetHttp(t, s), http[t] # "none",
              s \in {"loop", "blocked", "handling", "bad_descriptor", "too_many_files", "ended"},
              wire' \in Seq(Frames), Behind(wire', declared),
              \A q \in QueueNames : Ahead(q, wire, Len(wire)) => Ahead(q, wire', Len(wire')),
              posts' \in 0 .. MaxPosts
       PROVE  IndInv'
  <2>1. TypeOK'
    BY <1>a, <1>13 DEF TypeOK, SetHttp, process, broker
  <2>2. HandlersAfterDeclare'
    BY <1>a, <1>13 DEF TypeOK, HandlersAfterDeclare, SetHttp
  <2> QED BY <1>a, <1>13, <2>1, <2>2
          DEF IndInv, SetHttp, broker, DeclarationsSent, LadderBeforeMessages, NothingUnroutable
<1>14. ASSUME NEW t \in HttpThreads, HttpStep(t) \/ Accept(t) \/ AcceptFails(t) PROVE IndInv'
  <2>0. wire \in Seq(Frames) /\ posts \in 0 .. MaxPosts
    BY <1>a DEF TypeOK
  <2>1. CASE EnterAccept(t)
    <3>1. http[t] # "none" /\ UNCHANGED <<wire, posts>>
          /\ \E s \in {"blocked", "bad_descriptor"} : SetHttp(t, s)
      BY <2>1 DEF EnterAccept
    <3> QED BY <1>a, <2>0, <3>1, <1>13
  <2>2. CASE GoRound(t)
    <3>1. http[t] # "none" /\ UNCHANGED <<wire, posts>>
          /\ \E s \in {"ended", "loop"} : SetHttp(t, s)
      BY <2>2 DEF GoRound
    <3> QED BY <1>a, <2>0, <3>1, <1>13
  <2>3. CASE HandleOther(t) \/ Accept(t) \/ AcceptFails(t)
    <3>1. http[t] # "none" /\ UNCHANGED <<wire, posts>>
          /\ \E s \in {"loop", "handling", "too_many_files"} : SetHttp(t, s)
      BY <2>3 DEF HandleOther, Accept, AcceptFails
    <3> QED BY <1>a, <2>0, <3>1, <1>13
  <2>4. ASSUME NEW c \in Channels, HandlePost(t, c) PROVE IndInv'
    <3>1. http[t] # "none" /\ SetHttp(t, "loop") /\ posts' \in 0 .. MaxPosts
          /\ Send(<<Publish(c)>>)
      BY <2>0, <2>4 DEF HandlePost
    <3>2. CASE publisher # "open"
      <4>1. wire' = wire
        BY <3>1, <3>2 DEF Send
      <4> QED BY <1>a, <2>0, <3>1, <4>1, <1>13
    <3>3. CASE publisher = "open"
      <4>1. wire' = wire \o <<Publish(c)>> /\ <<Publish(c)>> \in Seq(Frames)
        <5>1. Publish(c) \in Frames
          BY FrameFacts
        <5> QED BY <5>1, <3>1, <3>3 DEF Send
      <4>2. \A q \in QueueNames : q \in declared \/ Ahead(q, wire, Len(wire))
        BY <1>a, <3>1, <3>3 DEF HandlersAfterDeclare, DeclarationsSent
      <4>3. /\ wire' \in Seq(Frames) /\ Behind(wire', declared)
            /\ \A q \in QueueNames : Ahead(q, wire, Len(wire)) => Ahead(q, wire', Len(wire'))
        BY <1>a, <2>0, <4>1, <4>2, AppendKeeps
      <4> QED BY <3>1, <4>3, <1>13
    <3> QED BY <3>2, <3>3
  <2> QED BY <1>14, <2>1, <2>2, <2>3, <2>4 DEF HttpStep
<1>15. CASE Signal
  <2>1. TypeOK'
    BY <1>a, <1>15 DEF TypeOK, Signal, process, broker, threads
  <2> QED BY <1>a, <1>15, <2>1
          DEF IndInv, Signal, broker, threads, DeclarationsSent, HandlersAfterDeclare,
              LadderBeforeMessages, NothingUnroutable
<1>16. CASE UNCHANGED vars
  <2>1. TypeOK'
    BY <1>a, <1>16 DEF TypeOK, vars
  <2> QED BY <1>a, <1>16, <2>1
          DEF IndInv, vars, DeclarationsSent, HandlersAfterDeclare,
              LadderBeforeMessages, NothingUnroutable
<1> QED
  BY <1>1, <1>2, <1>3, <1>4, <1>5, <1>6, <1>7, <1>8, <1>9, <1>10, <1>11, <1>12, <1>14, <1>15, <1>16
  DEF Next, MainStep, Exit, Crash

THEOREM Inductive == Spec => []IndInv
BY InitOK, StepOK, PTL DEF Spec

-----------------------------------------------------------------------------
(* The theorems.                                                           *)

\* Every variable keeps its range, and only a ready process listens (main.cpp,
\* HttpServer.cpp:66-92).
THEOREM TypeCorrect == Spec => []TypeOK
<1>1. IndInv => TypeOK
  BY DEF IndInv
<1> QED BY <1>1, Inductive, PTL

\* The broker drops no message for want of a queue, however slow it declares and
\* wherever the process died before: one channel carries the declarations and
\* the messages (RabbitMQPublisher.cpp:50-64).
THEOREM AllRoutable == Spec => []NothingUnroutable
<1>1. IndInv => NothingUnroutable
  BY DEF IndInv
<1> QED BY <1>1, Inductive, PTL

\* While there is a message, the rungs and DLQs that onMessage() publishes to
\* without a check are there (Worker.cpp:132-151, RabbitMQTopology.cpp:37-68).
THEOREM LadderFirst == Spec => []LadderBeforeMessages
<1>1. IndInv => LadderBeforeMessages
  BY DEF IndInv
<1> QED BY <1>1, Inductive, PTL
=============================================================================
