--------------------------- MODULE DeliveryProofs ---------------------------
(***************************************************************************)
(* Safety of Delivery for any number of workers, channels, notifications,  *)
(* messages in flight, crashes and lost connections.                       *)
(***************************************************************************)
EXTENDS Delivery, FiniteSetTheorems, TLAPS

-----------------------------------------------------------------------------
(* Messages and bags.                                                      *)

(* A message has a channel, a notification and an attempt, and the three   *)
(* are one of the messages.                                                *)
LEMMA MessageFields ==
  /\ \A m \in Messages : m.ch \in Channels /\ m.n \in Notifications /\ m.attempt \in Attempts
  /\ \A c \in Channels, n \in Notifications, k \in Attempts :
       [ch |-> c, n |-> n, attempt |-> k] \in Messages
  BY DEF Messages

(* Publishing adds one copy of one message to a queue.                     *)
LEMMA PutOne ==
  ASSUME NEW q \in Bags, NEW m \in Messages
  PROVE  /\ Put(q, m) \in Bags
         /\ Put(q, m)[m] = q[m] + 1
         /\ \A k \in Messages : Put(q, m)[k] >= q[k]
         /\ \A k \in Messages : k # m => Put(q, m)[k] = q[k]
  BY DEF Put, Bags

(* Delivering or acking takes one copy of a message that is there.         *)
LEMMA TakeOne ==
  ASSUME NEW q \in Bags, NEW m \in Messages, q[m] > 0
  PROVE  /\ Take(q, m) \in Bags
         /\ Take(q, m)[m] = q[m] - 1
         /\ \A k \in Messages : k # m => Take(q, m)[k] = q[k]
  BY DEF Take, Bags

(* Requeueing a connection's deliveries keeps every one of them.           *)
LEMMA BagFacts ==
  /\ EmptyBag \in Bags
  /\ \A m \in Messages : EmptyBag[m] = 0
  /\ \A p \in Bags, q \in Bags :
       /\ BagSum(p, q) \in Bags
       /\ \A m \in Messages : BagSum(p, q)[m] = p[m] + q[m]
  BY DEF EmptyBag, BagSum, Bags

-----------------------------------------------------------------------------
(* The frames on a connection.                                             *)

Frame(k, m) == [kind |-> k, m |-> m]

LEMMA FrameFields ==
  /\ \A f \in Frames : f.kind \in {"retry", "dlq", "ack"} /\ f.m \in Messages
  /\ \A k \in {"retry", "dlq", "ack"}, m \in Messages :
       Frame(k, m) \in Frames /\ Frame(k, m).kind = k /\ Frame(k, m).m = m
  BY DEF Frames, Frame

(* One is written behind the others,                                       *)
LEMMA AppendFacts ==
  ASSUME NEW s \in Seq(Frames), NEW f \in Frames
  PROVE  /\ Append(s, f) \in Seq(Frames)
         /\ DOMAIN s = 1..Len(s) /\ DOMAIN Append(s, f) = 1..(Len(s) + 1)
         /\ Len(Append(s, f)) = Len(s) + 1
         /\ Append(s, f)[Len(s) + 1] = f
         /\ \A i \in DOMAIN s : Append(s, f)[i] = s[i]
  OBVIOUS

(* and the first is read.                                                  *)
LEMMA TailFacts ==
  ASSUME NEW s \in Seq(Frames), s # << >>
  PROVE  /\ Len(s) \in Nat \ {0} /\ DOMAIN s = 1..Len(s)
         /\ Head(s) = s[1] /\ Head(s) \in Frames
         /\ Tail(s) \in Seq(Frames) /\ Len(Tail(s)) = Len(s) - 1
         /\ DOMAIN Tail(s) = 1..(Len(s) - 1)
         /\ \A i \in 1..(Len(s) - 1) : Tail(s)[i] = s[i + 1]
  OBVIOUS

LEMMA WireFrames ==
  ASSUME BrokerOK, NEW w \in Workers
  PROVE  /\ wire[w] \in Seq(Frames) /\ DOMAIN wire[w] = 1..Len(wire[w]) /\ Len(wire[w]) \in Nat
         /\ \A i \in DOMAIN wire[w] :
              wire[w][i] \in Frames /\ wire[w][i].m \in Messages
              /\ wire[w][i].kind \in {"retry", "dlq", "ack"}
<1>1. wire[w] \in Seq(Frames)
  BY DEF BrokerOK
<1>2. /\ DOMAIN wire[w] = 1..Len(wire[w]) /\ Len(wire[w]) \in Nat
      /\ \A i \in DOMAIN wire[w] : wire[w][i] \in Frames
  BY <1>1
<1> QED
  BY <1>1, <1>2, FrameFields

(* A worker that sends a frame on an open connection adds it to the others.*)
LEMMA SendFacts ==
  ASSUME BrokerOK, NEW w \in Workers, NEW k \in {"retry", "dlq", "ack"}, NEW m \in Messages,
         SendFrame(w, k, m)
  PROVE  /\ wire' \in [Workers -> Seq(Frames)]
         /\ conn[w] # "up" => wire' = wire
         /\ \A v \in Workers : v # w => wire'[v] = wire[v]
         /\ conn[w] = "up" => wire'[w] = Append(wire[w], Frame(k, m))
         /\ \A v \in Workers : \A i \in DOMAIN wire'[v] :
              \/ i \in DOMAIN wire[v] /\ wire'[v][i] = wire[v][i]
              \/ v = w /\ wire'[v][i] = Frame(k, m)
         /\ \A v \in Workers : \A i \in DOMAIN wire[v] :
              i \in DOMAIN wire'[v] /\ wire'[v][i] = wire[v][i]
         /\ conn[w] = "up" => \E i \in DOMAIN wire'[w] : wire'[w][i] = Frame(k, m)
<1>1. wire \in [Workers -> Seq(Frames)] /\ Frame(k, m) \in Frames
  BY FrameFields DEF BrokerOK
<1>2. CASE conn[w] = "up"
  <2>1. wire' = [wire EXCEPT ![w] = Append(wire[w], Frame(k, m))]
    BY <1>2 DEF SendFrame, Frame
  <2> DEFINE L == Len(wire[w])
  <2>2. /\ Append(wire[w], Frame(k, m)) \in Seq(Frames)
        /\ L \in Nat /\ DOMAIN wire[w] = 1..L
        /\ DOMAIN Append(wire[w], Frame(k, m)) = 1..(L + 1)
        /\ Append(wire[w], Frame(k, m))[L + 1] = Frame(k, m)
        /\ \A i \in DOMAIN wire[w] : Append(wire[w], Frame(k, m))[i] = wire[w][i]
    BY <1>1, AppendFacts
  <2>3. wire'[w] = Append(wire[w], Frame(k, m)) /\ \A v \in Workers : v # w => wire'[v] = wire[v]
    BY <1>1, <2>1
  <2> HIDE DEF L
  <2>4. 1..(L + 1) = 1..L \cup {L + 1}
    BY <2>2
  <2>5. wire' \in [Workers -> Seq(Frames)]
    BY <1>1, <2>1, <2>2
  <2>6. \A i \in DOMAIN wire'[w] :
          (i \in DOMAIN wire[w] /\ wire'[w][i] = wire[w][i]) \/ wire'[w][i] = Frame(k, m)
    BY <2>2, <2>3, <2>4
  <2>7. \A i \in DOMAIN wire[w] : i \in DOMAIN wire'[w] /\ wire'[w][i] = wire[w][i]
    BY <2>2, <2>3, <2>4
  <2>8. L + 1 \in DOMAIN wire'[w] /\ wire'[w][L + 1] = Frame(k, m)
    BY <2>2, <2>3, <2>4
  <2> QED
    BY <1>2, <2>3, <2>5, <2>6, <2>7, <2>8
<1>3. CASE conn[w] # "up"
  BY <1>1, <1>3 DEF SendFrame
<1> QED
  BY <1>2, <1>3

(* The broker takes the first frame and leaves the others in their order.  *)
LEMMA ReadFacts ==
  ASSUME BrokerOK, NEW w \in Workers, ReadFrame(w)
  PROVE  /\ wire' \in [Workers -> Seq(Frames)]
         /\ 1 \in DOMAIN wire[w] /\ Head(wire[w]) = wire[w][1]
         /\ \A v \in Workers : v # w => wire'[v] = wire[v]
         /\ Len(wire[w]) \in Nat \ {0} /\ Len(wire'[w]) = Len(wire[w]) - 1
         /\ DOMAIN wire'[w] = 1..(Len(wire[w]) - 1)
         /\ \A i \in DOMAIN wire'[w] : i + 1 \in DOMAIN wire[w] /\ wire'[w][i] = wire[w][i + 1]
         /\ \A i \in DOMAIN wire[w] :
              i # 1 => i - 1 \in DOMAIN wire'[w] /\ wire'[w][i - 1] = wire[w][i]
<1>1. wire \in [Workers -> Seq(Frames)] /\ wire[w] # << >>
      /\ wire' = [wire EXCEPT ![w] = Tail(wire[w])]
  BY DEF BrokerOK, ReadFrame
<1>2. /\ Len(wire[w]) \in Nat \ {0} /\ DOMAIN wire[w] = 1..Len(wire[w])
      /\ Head(wire[w]) = wire[w][1]
      /\ Tail(wire[w]) \in Seq(Frames) /\ Len(Tail(wire[w])) = Len(wire[w]) - 1
      /\ DOMAIN Tail(wire[w]) = 1..(Len(wire[w]) - 1)
      /\ \A i \in 1..(Len(wire[w]) - 1) : Tail(wire[w])[i] = wire[w][i + 1]
  BY <1>1, TailFacts
<1>3. wire'[w] = Tail(wire[w]) /\ \A v \in Workers : v # w => wire'[v] = wire[v]
  BY <1>1
<1>4. wire' \in [Workers -> Seq(Frames)]
  BY <1>1, <1>2
<1>5. \A i \in 1..Len(wire[w]) : i # 1 => i - 1 \in 1..(Len(wire[w]) - 1) /\ (i - 1) + 1 = i
  BY <1>2
<1> QED
  BY <1>2, <1>3, <1>4, <1>5

(* What the broker gets back when a connection ends are deliveries, those  *)
(* included whose ack is on the wire.                                      *)
LEMMA OutstandingFacts ==
  ASSUME BrokerOK, NEW w \in Workers
  PROVE  /\ UnreadAcks(w) \in Bags /\ Outstanding(w) \in Bags
         /\ \A m \in Messages :
              /\ Outstanding(w)[m] = unacked[w][m] + UnreadAcks(w)[m]
              /\ Outstanding(w)[m] > 0 <=>
                   unacked[w][m] > 0 \/ \E i \in DOMAIN wire[w] : wire[w][i] = Frame("ack", m)
<1> DEFINE A(m) == {i \in DOMAIN wire[w] : wire[w][i] = Frame("ack", m)}
<1>1. ASSUME NEW m \in Messages
      PROVE  /\ UnreadAcks(w)[m] = Cardinality(A(m)) /\ Cardinality(A(m)) \in Nat
             /\ Cardinality(A(m)) > 0 <=> \E i \in DOMAIN wire[w] : wire[w][i] = Frame("ack", m)
  <2>1. IsFiniteSet(DOMAIN wire[w])
    BY WireFrames, FS_Interval
  <2>2. IsFiniteSet(A(m))
    BY <2>1, FS_Subset
  <2>3. Cardinality(A(m)) \in Nat /\ (Cardinality(A(m)) = 0 <=> A(m) = {})
    BY <2>2, FS_CardinalityType, FS_EmptySet
  <2>4. UnreadAcks(w)[m] = Cardinality(A(m))
    BY DEF UnreadAcks, AckFrame, Frame
  <2>5. A(m) = {} <=> ~\E i \in DOMAIN wire[w] : wire[w][i] = Frame("ack", m)
    OBVIOUS
  <2> HIDE DEF A
  <2> QED
    BY <2>3, <2>4, <2>5
<1>2. UnreadAcks(w) \in Bags
  BY <1>1 DEF UnreadAcks, AckFrame, Frame, Bags
<1>3. unacked[w] \in Bags
  BY DEF BrokerOK
<1>4. Outstanding(w) \in Bags /\ \A m \in Messages :
        Outstanding(w)[m] = unacked[w][m] + UnreadAcks(w)[m]
  BY <1>2, <1>3, BagFacts DEF Outstanding
<1> HIDE DEF A
<1>5. ASSUME NEW m \in Messages
      PROVE  Outstanding(w)[m] > 0 <=>
               unacked[w][m] > 0 \/ \E i \in DOMAIN wire[w] : wire[w][i] = Frame("ack", m)
  <2>1. unacked[w][m] \in Nat
    BY <1>3 DEF Bags
  <2> QED
    BY <1>1, <1>4, <2>1
<1> QED
  BY <1>2, <1>4, <1>5

-----------------------------------------------------------------------------
(* Type correctness.                                                       *)

TypeInv == TypeOK /\ RowKnown /\ RetryAllowed

LEMMA TypeInit == Init => TypeInv
  BY DeliveryAssumption, BagFacts DEF DeliveryAssumption, Init, TypeInv, TypeOK, DbOK,
     BrokerOK, WorkerOK, CountersOK, OwedHasRow, BusyHolds,
     RowKnown, RetryAllowed, Statuses, AttemptStatuses, Labels

(* A handler with a message has one with a notification and an attempt.    *)
LEMMA BusyMessage ==
  ASSUME TypeOK, NEW w \in Workers, pc[w] # "idle"
  PROVE  cur[w] \in Messages /\ cur[w].n \in Notifications /\ cur[w].attempt \in Attempts
  BY MessageFields DEF TypeOK, BusyHolds

LEMMA TypePost ==
  ASSUME TypeInv, NEW n \in Notifications, NEW c \in Channels, Post(n, c)
  PROVE  TypeInv'
<1> USE DEF TypeInv, TypeOK
<1>1. DbOK'
  BY DEF Post, InsertWithOutbox, DbOK, Statuses
<1>2. CountersOK' /\ OwedHasRow'
  <2>1. owed' \in [Notifications -> Nat] /\ \A k \in Notifications : k # n => owed'[k] = owed[k]
    BY DEF Post, CountersOK
  <2>2. /\ status'[n] # "NONE" /\ channel'[n] \in Channels
        /\ \A k \in Notifications : k # n => UNCHANGED <<status[k], channel[k]>>
    BY DEF Post, InsertWithOutbox, DbOK, OwedHasRow
  <2> QED
    BY <2>1, <2>2 DEF Post, CountersOK, OwedHasRow, history
<1>3. BrokerOK' /\ WorkerOK' /\ BusyHolds' /\ RetryAllowed'
  BY DEF Post, BrokerOK, WorkerOK, BusyHolds, RetryAllowed, Exhausted, broker, worker
<1>4. RowKnown'
  BY BusyMessage DEF Post, InsertWithOutbox, RowKnown, DbOK, worker
<1> QED
  BY <1>1, <1>2, <1>3, <1>4

LEMMA TypePublish ==
  ASSUME TypeInv, NEW n \in Notifications, Publish(n)
  PROVE  TypeInv'
<1> DEFINE m == [ch |-> channel[n], n |-> n, attempt |-> 1]
<1> USE DEF TypeInv, TypeOK
<1>1. m \in Messages
  BY DeliveryAssumption, MessageFields DEF DeliveryAssumption, Publish, OwedHasRow, Attempts
<1>2. BrokerOK'
  BY <1>1, PutOne DEF Publish, BrokerOK
<1>3. CountersOK' /\ OwedHasRow'
  BY DEF Publish, CountersOK, OwedHasRow, db
<1>4. DbOK' /\ WorkerOK' /\ BusyHolds' /\ RetryAllowed' /\ RowKnown'
  BY DEF Publish, DbOK, WorkerOK, BusyHolds, RetryAllowed, RowKnown, Exhausted, db, worker
<1> QED
  BY <1>2, <1>3, <1>4

LEMMA TypeForget ==
  ASSUME TypeInv, Forget
  PROVE  TypeInv'
<1> USE DEF TypeInv, TypeOK
<1>1. CountersOK' /\ OwedHasRow'
  <2>1. MaxPosts \in Nat
    BY DeliveryAssumption DEF DeliveryAssumption
  <2>2. \A n \in Notifications : owed'[n] > 0 => owed[n] > 0
    BY DEF Forget, CountersOK
  <2> QED
    BY <2>1, <2>2 DEF Forget, CountersOK, OwedHasRow, db, history
<1>2. DbOK' /\ BrokerOK' /\ WorkerOK' /\ BusyHolds' /\ RetryAllowed' /\ RowKnown'
  BY DEF Forget, DbOK, BrokerOK, WorkerOK, BusyHolds, RetryAllowed, RowKnown, Exhausted,
         db, broker, worker
<1> QED
  BY <1>1, <1>2

LEMMA TypeReadFrame ==
  ASSUME TypeInv, NEW w \in Workers, ReadFrame(w)
  PROVE  TypeInv'
<1> USE DEF TypeInv, TypeOK
<1>1. BrokerOK'
  <2>1. wire' \in [Workers -> Seq(Frames)] /\ Head(wire[w]).m \in Messages
    BY ReadFacts, WireFrames
  <2>2. retry' \in Bags /\ dlq' \in Bags
    BY <2>1, PutOne DEF ReadFrame, Route, BrokerOK
  <2> QED
    BY <2>1, <2>2 DEF ReadFrame, BrokerOK
<1>2. DbOK' /\ WorkerOK' /\ CountersOK' /\ OwedHasRow' /\ BusyHolds' /\ RetryAllowed' /\ RowKnown'
  BY DEF ReadFrame, DbOK, WorkerOK, CountersOK, OwedHasRow, BusyHolds, RetryAllowed, RowKnown,
         Exhausted, db, worker, history
<1> QED
  BY <1>1, <1>2

LEMMA TypeDeliver ==
  ASSUME TypeInv, NEW w \in Workers, NEW m \in Messages, Deliver(w, m)
  PROVE  TypeInv'
<1> USE DEF TypeInv, TypeOK
<1>1. main' \in Bags
  BY TakeOne DEF Deliver, BrokerOK
<1>2. /\ unacked' \in [Workers -> Bags]
      /\ \A v \in Workers, k \in Messages : unacked'[v][k] >= unacked[v][k]
  <2>1. unacked' = [unacked EXCEPT ![w] = Put(unacked[w], m)] /\ unacked[w] \in Bags
    BY DEF Deliver, BrokerOK
  <2>2. Put(unacked[w], m) \in Bags /\ \A k \in Messages : Put(unacked[w], m)[k] >= unacked[w][k]
    BY <2>1, PutOne
  <2> QED
    BY <2>1, <2>2 DEF BrokerOK, Bags
<1>3. BrokerOK'
  BY <1>1, <1>2 DEF Deliver, BrokerOK
<1>4. BusyHolds'
  BY <1>2 DEF Deliver, BusyHolds, BrokerOK, Bags, worker
<1>5. DbOK' /\ WorkerOK' /\ CountersOK' /\ OwedHasRow' /\ RetryAllowed' /\ RowKnown'
  BY DEF Deliver, DbOK, WorkerOK, CountersOK, OwedHasRow, RetryAllowed, RowKnown,
         Exhausted, db, worker, history
<1> QED
  BY <1>3, <1>4, <1>5

LEMMA TypeExpire ==
  ASSUME TypeInv, NEW m \in Messages, Expire(m)
  PROVE  TypeInv'
<1> USE DEF TypeInv, TypeOK
<1>1. BrokerOK'
  BY PutOne, TakeOne DEF Expire, BrokerOK
<1>2. DbOK' /\ WorkerOK' /\ CountersOK' /\ OwedHasRow' /\ BusyHolds' /\ RetryAllowed' /\ RowKnown'
  BY DEF Expire, DbOK, WorkerOK, CountersOK, OwedHasRow, BusyHolds, RetryAllowed, RowKnown,
         Exhausted, db, worker, history
<1> QED
  BY <1>1, <1>2

LEMMA TypeRequeue ==
  ASSUME TypeInv, NEW w \in Workers, NEW m \in Messages, Requeue(w, m)
  PROVE  TypeInv'
<1> USE DEF TypeInv, TypeOK
<1>1. BrokerOK'
  BY PutOne, TakeOne DEF Requeue, BrokerOK
<1>2. CountersOK'
  BY MessageFields DEF Requeue, CountersOK
<1>3. DbOK' /\ WorkerOK' /\ OwedHasRow' /\ BusyHolds' /\ RetryAllowed' /\ RowKnown'
  BY DEF Requeue, DbOK, WorkerOK, OwedHasRow, BusyHolds, RetryAllowed, RowKnown,
         Exhausted, db, worker
<1> QED
  BY <1>1, <1>2, <1>3

LEMMA TypeLoseConnection ==
  ASSUME TypeInv, NEW w \in Workers, LoseConnection(w)
  PROVE  TypeInv'
<1> USE DEF TypeInv, TypeOK
<1>1. BrokerOK'
  <2>1. orphan[w] \in Bags /\ Outstanding(w) \in Bags
    BY OutstandingFacts DEF BrokerOK
  <2>2. BagSum(orphan[w], Outstanding(w)) \in Bags /\ EmptyBag \in Bags
    BY <2>1, BagFacts
  <2>3. orphan' \in [Workers -> Bags] /\ unacked' \in [Workers -> Bags]
    BY <2>2 DEF LoseConnection, BrokerOK
  <2>4. wire' \in [Workers -> Seq(Frames)]
    BY DEF LoseConnection, BrokerOK
  <2> QED
    BY <2>3, <2>4 DEF LoseConnection, BrokerOK
<1>2. BusyHolds'
  BY DEF LoseConnection, BusyHolds, BrokerOK, worker
<1>3. CountersOK'
  BY DEF LoseConnection, CountersOK
<1>4. DbOK' /\ WorkerOK' /\ OwedHasRow' /\ RetryAllowed' /\ RowKnown'
  BY DEF LoseConnection, DbOK, WorkerOK, OwedHasRow, RetryAllowed, RowKnown,
         Exhausted, db, worker
<1> QED
  BY <1>1, <1>2, <1>3, <1>4

LEMMA TypeCrash ==
  ASSUME TypeInv, Crash
  PROVE  TypeInv'
<1> USE DEF TypeInv, TypeOK
<1>1. BrokerOK'
  <2>1. \A w \in Workers : orphan[w] \in Bags /\ Outstanding(w) \in Bags
    BY OutstandingFacts DEF BrokerOK
  <2>2. EmptyBag \in Bags /\ \A w \in Workers : BagSum(orphan[w], Outstanding(w)) \in Bags
    BY <2>1, BagFacts
  <2> QED
    BY <2>2 DEF Crash, BrokerOK
<1>2. CountersOK' /\ OwedHasRow'
  BY DEF Crash, CountersOK, OwedHasRow, db
<1>3. WorkerOK' /\ BusyHolds' /\ RetryAllowed' /\ RowKnown'
  BY DEF Crash, WorkerOK, BusyHolds, RetryAllowed, RowKnown, Labels
<1>4. DbOK'
  BY DEF Crash, DbOK, db
<1> QED
  BY <1>1, <1>2, <1>3, <1>4

LEMMA TypeReceive ==
  ASSUME TypeInv, NEW w \in Workers, NEW m \in Messages, Receive(w, m)
  PROVE  TypeInv'
<1> USE DEF TypeInv, TypeOK
<1>1. WorkerOK'
  BY DEF Receive, Goto, WorkerOK, Labels
<1>2. BusyHolds'
  BY DEF Receive, Goto, BusyHolds, WorkerOK, broker
<1>3. RetryAllowed' /\ RowKnown'
  BY DEF Receive, Goto, RetryAllowed, RowKnown, Exhausted, WorkerOK, db
<1>4. DbOK' /\ BrokerOK' /\ CountersOK' /\ OwedHasRow'
  BY DEF Receive, DbOK, BrokerOK, CountersOK, OwedHasRow, db, broker, history
<1> QED
  BY <1>1, <1>2, <1>3, <1>4

LEMMA TypeAck ==
  ASSUME TypeInv, NEW w \in Workers, Ack(w)
  PROVE  TypeInv'
<1> USE DEF TypeInv, TypeOK
<1>1. cur[w] \in Messages
  BY BusyMessage DEF Ack
<1>2. BrokerOK'
  <2>0. wire' \in [Workers -> Seq(Frames)]
    BY <1>1, SendFacts DEF Ack
  <2>1. CASE conn[w] = "up"
    <3>1. unacked[w] \in Bags /\ unacked[w][cur[w]] > 0
      BY <2>1 DEF Ack, BusyHolds, BrokerOK
    <3>2. Take(unacked[w], cur[w]) \in Bags
      BY <3>1, <1>1, TakeOne
    <3> QED
      BY <2>0, <2>1, <3>2 DEF Ack, BrokerOK
  <2> QED
    BY <2>0, <2>1 DEF Ack, BrokerOK
<1>3. WorkerOK'
  BY DEF Ack, Goto, WorkerOK, Labels
<1>4. BusyHolds'
  BY DEF Ack, Goto, BusyHolds, WorkerOK, BrokerOK
<1>5. RetryAllowed' /\ RowKnown'
  BY DEF Ack, Goto, RetryAllowed, RowKnown, Exhausted, WorkerOK, db
<1>6. DbOK' /\ CountersOK' /\ OwedHasRow'
  BY DEF Ack, DbOK, CountersOK, OwedHasRow, db, history
<1> QED
  BY <1>2, <1>3, <1>4, <1>5, <1>6

(* The steps of onMessage between the receipt and the ack: they write at   *)
(* most the row and the history of the message in hand, and send a frame.  *)
LEMMA TypeHandlerStep ==
  ASSUME TypeInv, NEW w \in Workers, NEW from \in Labels \ {"idle"},
         NEW to \in Labels \ {"idle"},
         Step(w, from, to),
         DbOK', failure' \in [Workers -> {"none", "transient", "permanent"}],
         accepted' \in [Notifications -> Nat],
         wire' \in [Workers -> Seq(Frames)],
         UNCHANGED <<channel, main, retry, dlq, unacked, orphan, conn>>,
         \A n \in Notifications : (status[n] = "NONE") <=> (status'[n] = "NONE"),
         to \notin {"find", "ack"} => status[cur[w].n] # "NONE",
         to \in {"recordRetry", "publishRetry"} => ~Exhausted(cur[w])
  PROVE  TypeInv'
<1> USE DEF TypeInv, TypeOK
<1>1. WorkerOK'
  BY DEF Statement, Step, Goto, WorkerOK
<1>2. BrokerOK'
  BY DEF BrokerOK
<1>3. CountersOK' /\ OwedHasRow'
  BY DEF Statement, Step, CountersOK, OwedHasRow, history
<1>4. BusyHolds'
  BY DEF Statement, Step, Goto, BusyHolds, WorkerOK
<1>5. RetryAllowed'
  BY DEF Statement, Step, Goto, RetryAllowed, Exhausted, WorkerOK
<1>6. RowKnown'
  BY BusyMessage DEF Statement, Step, Goto, RowKnown, WorkerOK
<1> QED
  BY <1>1, <1>2, <1>3, <1>4, <1>5, <1>6

(* Statements on the database: they neither make nor unmake a row.         *)
SameRows ==
  /\ UNCHANGED channel
  /\ \A n \in Notifications : (status[n] = "NONE") <=> (status'[n] = "NONE")

LEMMA TypeStatement ==
  ASSUME TypeInv, NEW w \in Workers, NEW from \in Labels \ {"idle"},
         NEW to \in Labels \ {"idle"},
         Statement(w, from, to), DbOK', SameRows,
         to \notin {"find", "ack"} => status[cur[w].n] # "NONE",
         to \in {"recordRetry", "publishRetry"} => ~Exhausted(cur[w])
  PROVE  TypeInv'
<1>1. failure \in [Workers -> {"none", "transient", "permanent"}]
      /\ accepted \in [Notifications -> Nat] /\ wire \in [Workers -> Seq(Frames)]
  BY DEF TypeInv, TypeOK, WorkerOK, CountersOK, BrokerOK
<1> QED
  BY <1>1, TypeHandlerStep DEF Statement, SameRows, broker

(* Writing a status, a history entry or the count keeps the types of the   *)
(* database.                                                               *)
LEMMA MarkTyped ==
  ASSUME TypeInv, NEW w \in Workers, pc[w] # "idle", status[cur[w].n] # "NONE",
         NEW s \in Statuses \ {"NONE"}, Mark(w, s)
  PROVE  DbOK' /\ SameRows
  BY BusyMessage DEF Mark, SameRows, TypeInv, TypeOK, DbOK

LEMMA RecordTyped ==
  ASSUME TypeInv, NEW w \in Workers, pc[w] # "idle", NEW s \in AttemptStatuses, Record(w, s)
  PROVE  DbOK' /\ SameRows
  BY BusyMessage DEF Record, SameRows, TypeInv, TypeOK, DbOK

LEMMA CountTyped ==
  ASSUME TypeInv, NEW w \in Workers, pc[w] # "idle", IncrementAttemptCount(w)
  PROVE  DbOK' /\ SameRows
  BY BusyMessage DEF IncrementAttemptCount, SameRows, TypeInv, TypeOK, DbOK

(* What the steps of onMessage touch, each in its own way.                 *)
LEMMA HandlerFrame ==
  ASSUME NEW w \in Workers, OnMessage(w)
  PROVE  /\ pc[w] # "idle" /\ UNCHANGED <<channel, main, retry, dlq, orphan, conn, owed, history>>
         /\ Ack(w) \/ UNCHANGED <<cur, unacked>>
         /\ Ack(w) \/ PublishRetry(w) \/ PublishDlq(w) \/ UNCHANGED wire
         /\ SendSucceeds(w) \/ UNCHANGED accepted
         /\ MarkProcessing(w) \/ MarkSent(w) \/ MarkDead(w) \/ UNCHANGED status
<1> USE DEF Step, db, broker
<1>1. CASE Find(w)
  BY <1>1 DEF Find, Statement
<1>2. CASE MarkProcessing(w) \/ MarkSent(w) \/ MarkDead(w)
  BY <1>2 DEF MarkProcessing, MarkSent, MarkDead, Statement, Mark
<1>3. CASE RecordSuccess(w) \/ RecordRetry(w) \/ RecordDead(w)
  BY <1>3 DEF RecordSuccess, RecordRetry, RecordDead, Statement, Record
<1>4. CASE CountSuccess(w) \/ CountFailure(w)
  BY <1>4 DEF CountSuccess, CountFailure, Statement, IncrementAttemptCount
<1>5. CASE SendSucceeds(w)
  BY <1>5 DEF SendSucceeds
<1>6. ASSUME NEW f \in {"transient", "permanent"}, SendFails(w, f)
      PROVE  /\ pc[w] # "idle"
             /\ UNCHANGED <<db, broker, owed, history, accepted, cur>>
  BY <1>6 DEF SendFails
<1>7. CASE PublishRetry(w) \/ PublishDlq(w)
  BY <1>7 DEF PublishRetry, PublishDlq
<1>8. CASE Ack(w)
  BY <1>8 DEF Ack
<1> QED
  BY <1>1, <1>2, <1>3, <1>4, <1>5, <1>6, <1>7, <1>8 DEF OnMessage

LEMMA TypeOnMessage ==
  ASSUME TypeInv, NEW w \in Workers, OnMessage(w)
  PROVE  TypeInv'
<1> USE DEF Labels
<1>1. failure \in [Workers -> {"none", "transient", "permanent"}]
      /\ accepted \in [Notifications -> Nat] /\ wire \in [Workers -> Seq(Frames)]
      /\ DbOK /\ BrokerOK
  BY DEF TypeInv, TypeOK, WorkerOK, CountersOK, BrokerOK
<1>2. pc[w] # "idle"
  BY HandlerFrame
<1>3. pc[w] \notin {"idle", "find", "ack"} => status[cur[w].n] # "NONE"
  BY DEF TypeInv, RowKnown
<1>4. pc[w] \in {"recordRetry", "publishRetry"} => ~Exhausted(cur[w])
  BY DEF TypeInv, RetryAllowed
<1>5. CASE Find(w)
  <2>1. DbOK' /\ SameRows
    BY <1>1, <1>5 DEF Find, DbOK, SameRows, db
  <2>2. CASE status[cur[w].n] \in Skipped
    BY <1>5, <2>1, <2>2, TypeStatement DEF Find
  <2>3. CASE status[cur[w].n] \notin Skipped
    BY <1>5, <2>1, <2>3, TypeStatement DEF Find, Skipped
  <2> QED
    BY <2>2, <2>3
<1>6. CASE MarkProcessing(w)
  <2>1. status[cur[w].n] # "NONE"
    BY <1>3, <1>6 DEF MarkProcessing, Statement, Step
  <2>2. DbOK' /\ SameRows
    BY <1>2, <1>6, <2>1, MarkTyped DEF MarkProcessing, Statuses
  <2> QED
    BY <1>6, <2>1, <2>2, TypeStatement DEF MarkProcessing
<1>7. CASE SendSucceeds(w)
  <2>1. accepted' \in [Notifications -> Nat]
    BY <1>1, <1>2, <1>7, BusyMessage DEF SendSucceeds, TypeInv
  <2> QED
    BY <1>1, <1>3, <1>7, <2>1, TypeHandlerStep DEF SendSucceeds, Step, db, broker, DbOK
<1>8. ASSUME NEW f \in {"transient", "permanent"}, SendFails(w, f)
      PROVE  TypeInv'
  BY <1>1, <1>3, <1>8, TypeHandlerStep DEF SendFails, Step, db, broker, DbOK
<1>9. CASE RecordSuccess(w)
  <2>1. status[cur[w].n] # "NONE"
    BY <1>3, <1>9 DEF RecordSuccess, Statement, Step
  <2>2. DbOK' /\ SameRows
    BY <1>2, <1>9, RecordTyped DEF RecordSuccess, AttemptStatuses
  <2> QED
    BY <1>9, <2>1, <2>2, TypeStatement DEF RecordSuccess
<1>10. CASE MarkSent(w)
  <2>1. status[cur[w].n] # "NONE"
    BY <1>3, <1>10 DEF MarkSent, Statement, Step
  <2>2. DbOK' /\ SameRows
    BY <1>2, <1>10, <2>1, MarkTyped DEF MarkSent, Statuses
  <2> QED
    BY <1>10, <2>1, <2>2, TypeStatement DEF MarkSent
<1>11. CASE CountSuccess(w)
  <2>1. DbOK' /\ SameRows
    BY <1>2, <1>11, CountTyped DEF CountSuccess
  <2> QED
    BY <1>11, <2>1, TypeStatement DEF CountSuccess
<1>12. CASE CountFailure(w)
  <2>1. status[cur[w].n] # "NONE"
    BY <1>3, <1>12 DEF CountFailure, Statement, Step
  <2>2. DbOK' /\ SameRows
    BY <1>2, <1>12, CountTyped DEF CountFailure
  <2>3. CASE Retried(w)
    BY <1>12, <2>1, <2>2, <2>3, TypeStatement DEF CountFailure, Retried
  <2>4. CASE ~Retried(w)
    BY <1>12, <2>1, <2>2, <2>4, TypeStatement DEF CountFailure
  <2> QED
    BY <2>3, <2>4
<1>13. CASE RecordRetry(w)
  <2>1. status[cur[w].n] # "NONE" /\ ~Exhausted(cur[w])
    BY <1>3, <1>4, <1>13 DEF RecordRetry, Statement, Step
  <2>2. DbOK' /\ SameRows
    BY <1>2, <1>13, RecordTyped DEF RecordRetry, AttemptStatuses
  <2> QED
    BY <1>13, <2>1, <2>2, TypeStatement DEF RecordRetry
<1>14. CASE PublishRetry(w)
  <2>1. pc[w] = "publishRetry" /\ cur[w].n \in Notifications /\ cur[w].attempt \in Attempts
    BY <1>2, <1>14, BusyMessage DEF PublishRetry, Step, TypeInv
  <2>2. cur[w].attempt + 1 \in Attempts
    BY <1>4, <2>1, DeliveryAssumption DEF Exhausted, Attempts, DeliveryAssumption
  <2>3. NextAttempt(w) \in Messages
    BY <2>1, <2>2, MessageFields, DeliveryAssumption DEF NextAttempt, DeliveryAssumption
  <2>4. wire' \in [Workers -> Seq(Frames)]
    BY <1>1, <1>14, <2>3, SendFacts DEF PublishRetry
  <2> QED
    BY <1>1, <1>14, <2>4, TypeHandlerStep DEF PublishRetry, db, DbOK
<1>15. CASE RecordDead(w)
  <2>1. status[cur[w].n] # "NONE"
    BY <1>3, <1>15 DEF RecordDead, Statement, Step
  <2>2. DbOK' /\ SameRows
    BY <1>2, <1>15, RecordTyped DEF RecordDead, AttemptStatuses
  <2> QED
    BY <1>15, <2>1, <2>2, TypeStatement DEF RecordDead
<1>16. CASE PublishDlq(w)
  <2>1. cur[w] \in Messages
    BY <1>2, BusyMessage DEF TypeInv
  <2>2. [cur[w] EXCEPT !.ch = WorkerChannel[w]] \in Messages
    BY <2>1, DeliveryAssumption DEF Messages, DeliveryAssumption
  <2>3. wire' \in [Workers -> Seq(Frames)]
    BY <1>1, <1>16, <2>2, SendFacts DEF PublishDlq
  <2> QED
    BY <1>1, <1>3, <1>16, <2>3, TypeHandlerStep DEF PublishDlq, Step, db, DbOK
<1>17. CASE MarkDead(w)
  <2>1. status[cur[w].n] # "NONE"
    BY <1>3, <1>17 DEF MarkDead, Statement, Step
  <2>2. DbOK' /\ SameRows
    BY <1>2, <1>17, <2>1, MarkTyped DEF MarkDead, Statuses
  <2> QED
    BY <1>17, <2>2, TypeStatement DEF MarkDead
<1>18. CASE Ack(w)
  BY <1>18, TypeAck
<1> QED
  BY <1>5, <1>6, <1>7, <1>8, <1>9, <1>10, <1>11, <1>12, <1>13, <1>14, <1>15, <1>16, <1>17,
     <1>18 DEF OnMessage

LEMMA TypeInvariant == Spec => []TypeInv
<1>1. TypeInv /\ [Next]_vars => TypeInv'
  <2> SUFFICES ASSUME TypeInv, [Next]_vars PROVE TypeInv'
    OBVIOUS
  <2>1. CASE Environment
    BY <2>1, TypePost, TypeForget, TypeLoseConnection, TypeCrash DEF Environment
  <2>2. CASE System
    BY <2>2, TypePublish, TypeExpire, TypeDeliver, TypeReadFrame, TypeRequeue, TypeReceive,
       TypeOnMessage DEF System
  <2>3. CASE UNCHANGED vars
    BY <2>3 DEF vars, db, broker, worker, history, TypeInv, TypeOK, DbOK, BrokerOK,
       WorkerOK, CountersOK, OwedHasRow, BusyHolds, RowKnown, RetryAllowed, Exhausted
  <2> QED
    BY <2>1, <2>2, <2>3 DEF Next
<1> QED
  BY TypeInit, <1>1, PTL DEF Spec

(* Every variable keeps its range; what the code uses without a check is   *)
(* there: a row and a channel for a handler that publishes, a message for  *)
(* a busy worker, and an outstanding delivery for an ack.                  *)
THEOREM TypeCorrect == Spec => []TypeOK
  BY TypeInvariant, PTL DEF TypeInv

-----------------------------------------------------------------------------
(* What the database says of a success is true.                            *)

SuccessInv == AcceptedFirst /\ SuccessIsReal

(* Steps that leave the database, the acceptances and every handler of the *)
(* success branch alone.                                                   *)
LEMMA SuccessFrame ==
  ASSUME SuccessInv, UNCHANGED <<status, attempts, accepted>>,
         \A w \in Workers :
           \/ UNCHANGED <<pc[w], cur[w]>>
           \/ pc'[w] \notin {"recordSuccess", "markSent", "countSuccess"}
  PROVE  SuccessInv'
  BY DEF SuccessInv, AcceptedFirst, SuccessIsReal

LEMMA SuccessOutside ==
  ASSUME TypeInv, SuccessInv,
         \/ \E n \in Notifications : Publish(n)
         \/ \E m \in Messages : Expire(m)
         \/ \E w \in Workers, m \in Messages : Deliver(w, m) \/ Requeue(w, m) \/ Receive(w, m)
         \/ \E w \in Workers : ReadFrame(w) \/ LoseConnection(w) \/ Ack(w)
         \/ Forget \/ Crash
  PROVE  SuccessInv'
<1>1. UNCHANGED <<status, attempts, accepted>>
  BY DEF Publish, Expire, Deliver, Requeue, Receive, ReadFrame, LoseConnection, Ack, Forget,
     Crash, db
<1>2. ASSUME NEW w \in Workers, NEW m \in Messages, Receive(w, m)
      PROVE  pc'[w] = "find" /\ \A v \in Workers : v # w => UNCHANGED <<pc[v], cur[v]>>
  BY <1>2 DEF Receive, Goto, TypeInv, TypeOK, WorkerOK
<1>3. ASSUME NEW w \in Workers, Ack(w)
      PROVE  pc'[w] = "idle" /\ \A v \in Workers : v # w => UNCHANGED <<pc[v], cur[v]>>
  BY <1>3 DEF Ack, Goto, TypeInv, TypeOK, WorkerOK
<1>4. Crash => \A w \in Workers : pc'[w] = "idle"
  BY DEF Crash
<1>5. CASE \E w \in Workers, m \in Messages : Receive(w, m)
  BY <1>1, <1>2, <1>5, SuccessFrame
<1>6. CASE \E w \in Workers : Ack(w)
  BY <1>1, <1>3, <1>6, SuccessFrame
<1>7. CASE UNCHANGED <<pc, cur>>
  BY <1>1, <1>7, SuccessFrame
<1> QED
  BY <1>1, <1>4, <1>5, <1>6, <1>7, SuccessFrame
     DEF Publish, Expire, Deliver, Requeue, ReadFrame, LoseConnection, Forget, worker

LEMMA SuccessPost ==
  ASSUME TypeInv, SuccessInv, NEW n \in Notifications, NEW c \in Channels, Post(n, c)
  PROVE  SuccessInv'
  BY DEF Post, InsertWithOutbox, worker, SuccessInv, AcceptedFirst, SuccessIsReal, TypeInv,
         TypeOK, DbOK

LEMMA SuccessOnMessage ==
  ASSUME TypeInv, SuccessInv, NEW w \in Workers, OnMessage(w), ~Ack(w)
  PROVE  SuccessInv'
<1> DEFINE n == cur[w].n
<1>1. /\ pc[w] # "idle" /\ UNCHANGED cur
      /\ n \in Notifications /\ cur[w].attempt \in Attempts
  BY HandlerFrame, BusyMessage DEF TypeInv
<1>2. /\ status \in [Notifications -> Statuses]
      /\ attempts \in [Notifications -> [Attempts -> AttemptStatuses]]
      /\ accepted \in [Notifications -> Nat]
      /\ pc \in [Workers -> Labels]
  BY DEF TypeInv, TypeOK, DbOK, CountersOK, WorkerOK
<1> HIDE DEF n
<1>3. CASE \/ Find(w) \/ CountSuccess(w) \/ CountFailure(w) \/ PublishRetry(w) \/ PublishDlq(w)
           \/ \E f \in {"transient", "permanent"} : SendFails(w, f)
  <2>1. UNCHANGED <<status, attempts, accepted>>
    BY <1>3 DEF Find, CountSuccess, CountFailure, PublishRetry, PublishDlq, SendFails,
       Statement, IncrementAttemptCount, db
  <2>2. /\ pc'[w] \notin {"recordSuccess", "markSent", "countSuccess"}
        /\ \A v \in Workers : v # w => pc'[v] = pc[v]
    BY <1>2, <1>3 DEF Find, CountSuccess, CountFailure, PublishRetry, PublishDlq, SendFails,
       Statement, Step, Goto
  <2> QED
    BY <1>1, <2>1, <2>2, SuccessFrame
<1>4. CASE SendSucceeds(w)
  <2>1. /\ \A k \in Notifications : accepted'[k] >= accepted[k] /\ accepted'[n] > 0
        /\ UNCHANGED <<status, attempts>>
    BY <1>1, <1>2, <1>4 DEF SendSucceeds, db, n
  <2>2. \A v \in Workers : v # w => pc'[v] = pc[v]
    BY <1>2, <1>4 DEF SendSucceeds, Step, Goto
  <2>3. \A k \in Notifications : accepted[k] > 0 => accepted'[k] > 0
    <3>1. \A k \in Notifications : accepted[k] \in Nat
      BY <1>2
    <3>2. \A k \in Notifications : k = n \/ accepted'[k] = accepted[k]
      BY <1>1, <1>2, <1>4 DEF SendSucceeds, n
    <3> QED
      BY <2>1, <3>1, <3>2
  <2>4. AcceptedFirst'
    BY <1>1, <2>1, <2>2, <2>3, BusyMessage DEF SuccessInv, AcceptedFirst, TypeInv, n
  <2>5. SuccessIsReal'
    BY <2>1, <2>3 DEF SuccessInv, SuccessIsReal
  <2> QED
    BY <2>4, <2>5 DEF SuccessInv
<1>5. ASSUME RecordSuccess(w) \/ MarkSent(w) PROVE SuccessInv'
  <2>1. pc[w] \in {"recordSuccess", "markSent"} /\ UNCHANGED accepted
    BY <1>5 DEF RecordSuccess, MarkSent, Statement, Step
  <2>2. accepted[n] > 0
    BY <2>1 DEF SuccessInv, AcceptedFirst, n
  <2>3. \A v \in Workers : v # w => pc'[v] = pc[v]
    BY <1>2, <1>5 DEF RecordSuccess, MarkSent, Statement, Step, Goto
  <2>4. AcceptedFirst'
    BY <1>1, <2>1, <2>2, <2>3 DEF SuccessInv, AcceptedFirst, n
  <2>5. \A k \in Notifications : k # n => status'[k] = status[k] /\ attempts'[k] = attempts[k]
    BY <1>1, <1>2, <1>5 DEF RecordSuccess, MarkSent, Record, Mark, n
  <2>6. SuccessIsReal'
    BY <2>1, <2>2, <2>5 DEF SuccessInv, SuccessIsReal
  <2> QED
    BY <2>4, <2>6 DEF SuccessInv
<1>6. ASSUME MarkProcessing(w) \/ MarkDead(w) \/ RecordRetry(w) \/ RecordDead(w)
      PROVE  SuccessInv'
  <2>1. /\ pc'[w] \notin {"recordSuccess", "markSent", "countSuccess"}
        /\ \A v \in Workers : v # w => pc'[v] = pc[v]
        /\ UNCHANGED accepted
    BY <1>2, <1>6 DEF MarkProcessing, MarkDead, RecordRetry, RecordDead, Statement, Step, Goto
  <2>2. AcceptedFirst'
    BY <1>1, <2>1 DEF SuccessInv, AcceptedFirst
  <2>3. \A k \in Notifications : status'[k] = "SENT" => status[k] = "SENT"
    BY <1>1, <1>2, <1>6 DEF MarkProcessing, MarkDead, RecordRetry, RecordDead, Record, Mark, n
  <2>4. \A k \in Notifications, a \in Attempts :
          attempts'[k][a] = "SUCCESS" => attempts[k][a] = "SUCCESS"
    <3>1. CASE MarkProcessing(w) \/ MarkDead(w)
      BY <3>1 DEF MarkProcessing, MarkDead, Mark
    <3>2. ASSUME NEW s \in {"TRANSIENT_FAILURE", "PERMANENT_FAILURE"}, Record(w, s)
          PROVE  \A k \in Notifications, a \in Attempts :
                   attempts'[k][a] = "SUCCESS" => attempts[k][a] = "SUCCESS"
      BY <1>1, <1>2, <3>2 DEF Record, n
    <3>3. RecordRetry(w) \/ RecordDead(w)
          => \E s \in {"TRANSIENT_FAILURE", "PERMANENT_FAILURE"} : Record(w, s)
      BY DEF RecordRetry, RecordDead
    <3> QED
      BY <1>6, <3>1, <3>2, <3>3
  <2>5. SuccessIsReal'
    BY <2>1, <2>3, <2>4 DEF SuccessInv, SuccessIsReal
  <2> QED
    BY <2>2, <2>5 DEF SuccessInv
<1> QED
  BY <1>3, <1>4, <1>5, <1>6 DEF OnMessage

LEMMA SuccessInvariant == Spec => []SuccessInv
<1>1. Init => SuccessInv
  BY DEF Init, SuccessInv, AcceptedFirst, SuccessIsReal
<1>2. TypeInv /\ SuccessInv /\ [Next]_vars => SuccessInv'
  <2> SUFFICES ASSUME TypeInv, SuccessInv, [Next]_vars PROVE SuccessInv'
    OBVIOUS
  <2>1. CASE UNCHANGED vars
    BY <2>1, SuccessFrame DEF vars, db, worker
  <2>2. CASE Next
    BY <2>2, SuccessOutside, SuccessPost, SuccessOnMessage DEF Next, Environment, System
  <2> QED
    BY <2>1, <2>2
<1> QED
  BY <1>1, <1>2, TypeInvariant, PTL DEF Spec

(* A row that is SENT and an attempt that is SUCCESS stand for a call the  *)
(* provider accepted, whatever crashed, was lost or ran concurrently.      *)
THEOREM SuccessReal == Spec => []SuccessIsReal
  BY SuccessInvariant, PTL DEF SuccessInv

-----------------------------------------------------------------------------
(* Where copies of messages come from.                                     *)

Carried(w, m) == \E i \in DOMAIN wire[w] : wire[w][i].m = m

Present(m) ==
  \/ main[m] > 0 \/ retry[m] > 0 \/ dlq[m] > 0
  \/ \E w \in Workers : orphan[w][m] > 0 \/ unacked[w][m] > 0 \/ Carried(w, m)

\* Publishing m to a queue, and moving a copy of m from one place to another.
LEMMA PutPresent ==
  ASSUME NEW q \in Bags, NEW m \in Messages, NEW k \in Messages, Put(q, m)[k] > 0
  PROVE  q[k] > 0 \/ k = m
  BY PutOne

LEMMA TakePresent ==
  ASSUME NEW q \in Bags, NEW m \in Messages, q[m] > 0, NEW k \in Messages, Take(q, m)[k] > 0
  PROVE  q[k] > 0
  BY TakeOne

\* Outside onMessage copies move, a POST adds a first attempt for its row, and a
\* worker takes up only what was delivered to it.
CopiesMove ==
  /\ \A k \in Messages : Present(k)' =>
       \/ Present(k)
       \/ status[k.n] # "NONE" /\ k.ch = channel[k.n] /\ k.attempt = 1 /\ published'[k.n] > 0
  /\ \A w \in Workers, k \in Messages :
       unacked'[w][k] > 0 => unacked[w][k] > 0 \/ k.ch = WorkerChannel[w]
  /\ \A w \in Workers : pc'[w] # "idle" =>
       \/ UNCHANGED <<pc[w], cur[w]>>
       \/ pc'[w] = "find" /\ \E m \in Messages : cur'[w] = m /\ unacked[w][m] > 0

LEMMA CopiesOutside ==
  ASSUME TypeInv, (Environment \/ System) /\ ~\E w \in Workers : OnMessage(w)
  PROVE  CopiesMove /\ UNCHANGED attempts
<1>0. /\ main \in Bags /\ retry \in Bags /\ dlq \in Bags /\ BrokerOK
      /\ \A w \in Workers : orphan[w] \in Bags /\ unacked[w] \in Bags
      /\ orphan \in [Workers -> Bags] /\ unacked \in [Workers -> Bags]
      /\ wire \in [Workers -> Seq(Frames)]
  BY DEF TypeInv, TypeOK, BrokerOK
<1>a. UNCHANGED wire => \A w, m : Carried(w, m)' <=> Carried(w, m)
  BY DEF Carried
<1>1. ASSUME Forget \/ \E n \in Notifications, c \in Channels : Post(n, c) PROVE CopiesMove
  <2>1. UNCHANGED <<broker, worker>>
    BY <1>1 DEF Forget, Post
  <2>2. \A m \in Messages : Present(m)' <=> Present(m)
    BY <1>a, <2>1 DEF Present, broker
  <2> QED
    BY <2>1, <2>2 DEF CopiesMove, broker, worker
<1>2. ASSUME NEW n \in Notifications, Publish(n) PROVE CopiesMove
  <2> DEFINE m == [ch |-> channel[n], n |-> n, attempt |-> 1]
  <2>1. status[n] # "NONE" /\ channel[n] \in Channels
    BY <1>2 DEF Publish, OwedHasRow, TypeInv, TypeOK
  <2>2. m \in Messages /\ m.n = n /\ m.ch = channel[n] /\ m.attempt = 1
    BY <2>1, DeliveryAssumption, MessageFields DEF DeliveryAssumption, Attempts
  <2>3. /\ main' = Put(main, m) /\ UNCHANGED <<retry, dlq, orphan, unacked, wire, pc, cur>>
        /\ published'[n] > 0
    BY <1>2 DEF Publish, worker, TypeInv, TypeOK, CountersOK
  <2> HIDE DEF m
  <2>4. \A k \in Messages : Present(k)' => Present(k) \/ k = m
    BY <1>0, <1>a, <2>2, <2>3, PutPresent DEF Present
  <2> QED
    BY <2>1, <2>2, <2>3, <2>4 DEF CopiesMove
\* The steps that only move copies.
<1>3. ASSUME \A k \in Messages : Present(k)' => Present(k),
             \A w \in Workers, k \in Messages :
               unacked'[w][k] > 0 => unacked[w][k] > 0 \/ k.ch = WorkerChannel[w],
             UNCHANGED <<pc, cur>>
      PROVE  CopiesMove
  BY <1>3 DEF CopiesMove
<1>4. ASSUME NEW w \in Workers, NEW m \in Messages, Deliver(w, m) PROVE CopiesMove
  <2>1. main' = Take(main, m) /\ main[m] > 0 /\ UNCHANGED <<retry, dlq, orphan, wire, pc, cur>>
    BY <1>4 DEF Deliver, worker
  <2>2. /\ unacked'[w] = Put(unacked[w], m) /\ m.ch = WorkerChannel[w]
        /\ \A v \in Workers : v # w => unacked'[v] = unacked[v]
    BY <1>0, <1>4 DEF Deliver
  <2>3. \A k \in Messages : Present(k)' => Present(k)
    BY <1>0, <1>a, <2>1, <2>2, PutPresent, TakePresent DEF Present
  <2>4. \A v \in Workers, k \in Messages :
          unacked'[v][k] > 0 => unacked[v][k] > 0 \/ k.ch = WorkerChannel[v]
    BY <1>0, <2>2, PutPresent
  <2> QED
    BY <1>3, <2>1, <2>3, <2>4
<1>5. ASSUME NEW m \in Messages, Expire(m) PROVE CopiesMove
  <2>1. /\ main' = Put(main, m) /\ retry' = Take(retry, m) /\ retry[m] > 0
        /\ UNCHANGED <<dlq, orphan, unacked, wire, pc, cur>>
    BY <1>5 DEF Expire, worker
  <2>2. \A k \in Messages : Present(k)' => Present(k)
    BY <1>0, <1>a, <2>1, PutPresent, TakePresent DEF Present
  <2> QED
    BY <1>3, <2>1, <2>2
<1>6. ASSUME NEW w \in Workers, NEW m \in Messages, Requeue(w, m) PROVE CopiesMove
  <2>1. /\ main' = Put(main, m) /\ orphan[w][m] > 0 /\ orphan'[w] = Take(orphan[w], m)
        /\ \A v \in Workers : v # w => orphan'[v] = orphan[v]
        /\ UNCHANGED <<retry, dlq, unacked, wire, pc, cur>>
    BY <1>0, <1>6 DEF Requeue, worker
  <2>2. ASSUME NEW v \in Workers, NEW k \in Messages, orphan'[v][k] > 0
        PROVE  orphan[v][k] > 0
    <3>1. CASE v = w
      BY <1>0, <2>1, <2>2, <3>1, TakePresent
    <3> QED
      BY <2>1, <2>2, <3>1
  <2>3. \A k \in Messages : main'[k] > 0 => main[k] > 0 \/ k = m
    BY <1>0, <2>1, PutPresent
  <2>4. \A k \in Messages : Present(k)' => Present(k)
    BY <1>a, <2>1, <2>2, <2>3 DEF Present
  <2> QED
    BY <1>3, <2>1, <2>4
\* What a connection gives back had been delivered on it, or has its ack there.
<1>7. ASSUME NEW w \in Workers, NEW k \in Messages, BagSum(orphan[w], Outstanding(w))[k] > 0
      PROVE  Present(k)
  <2>1. /\ Outstanding(w) \in Bags
        /\ Outstanding(w)[k] > 0 <=>
             unacked[w][k] > 0 \/ \E i \in DOMAIN wire[w] : wire[w][i] = Frame("ack", k)
    BY <1>0, OutstandingFacts
  <2>2. orphan[w][k] > 0 \/ Outstanding(w)[k] > 0
    <3>1. orphan[w] \in Bags
      BY <1>0
    <3>2. BagSum(orphan[w], Outstanding(w))[k] = orphan[w][k] + Outstanding(w)[k]
      BY <2>1, <3>1, BagFacts
    <3>3. orphan[w][k] \in Nat /\ Outstanding(w)[k] \in Nat
      BY <2>1, <3>1 DEF Bags
    <3> QED
      BY <1>7, <3>2, <3>3
  <2> QED
    BY <2>1, <2>2 DEF Present, Carried, Frame
<1>8. ASSUME NEW w \in Workers, LoseConnection(w) PROVE CopiesMove
  <2>1. /\ orphan'[w] = BagSum(orphan[w], Outstanding(w)) /\ unacked'[w] = EmptyBag
        /\ wire'[w] = << >>
        /\ \A v \in Workers : v # w => UNCHANGED <<orphan[v], unacked[v], wire[v]>>
        /\ UNCHANGED <<main, retry, dlq, pc, cur>>
    BY <1>0, <1>8 DEF LoseConnection, worker
  <2>2. \A v \in Workers, k \in Messages : unacked'[v][k] > 0 => unacked[v][k] > 0
    BY <1>0, <2>1, BagFacts
  <2>3. \A v \in Workers, k \in Messages : Carried(v, k)' => Carried(v, k)
    <3>1. \A v \in Workers : \A i \in DOMAIN wire'[v] : v # w
      BY <2>1
    <3> QED
      BY <2>1, <3>1 DEF Carried
  <2>4. \A k \in Messages : Present(k)' => Present(k)
    <3>1. \A v \in Workers, k \in Messages : orphan'[v][k] > 0 => Present(k)
      BY <1>7, <2>1 DEF Present
    <3> QED
      BY <2>1, <2>2, <2>3, <3>1 DEF Present
  <2> QED
    BY <1>3, <2>1, <2>2, <2>4
<1>9. ASSUME Crash PROVE CopiesMove
  <2>1. /\ \A v \in Workers : /\ orphan'[v] = BagSum(orphan[v], Outstanding(v))
                              /\ unacked'[v] = EmptyBag /\ pc'[v] = "idle" /\ wire'[v] = << >>
        /\ UNCHANGED <<main, retry, dlq>>
    BY <1>9 DEF Crash
  <2>2. \A v \in Workers, k \in Messages : ~(unacked'[v][k] > 0)
    BY <2>1, BagFacts
  <2>3. \A v \in Workers, k \in Messages : ~Carried(v, k)'
    BY <2>1 DEF Carried
  <2>4. \A k \in Messages : Present(k)' => Present(k)
    BY <1>7, <2>1, <2>2, <2>3 DEF Present
  <2> QED
    BY <2>1, <2>2, <2>4 DEF CopiesMove
<1>10. ASSUME NEW w \in Workers, NEW m \in Messages, Receive(w, m) PROVE CopiesMove
  <2>1. /\ UNCHANGED <<main, retry, dlq, orphan, unacked, wire>>
        /\ unacked[w][m] > 0 /\ cur'[w] = m /\ pc'[w] = "find"
        /\ \A v \in Workers : v # w => UNCHANGED <<pc[v], cur[v]>>
    BY <1>10 DEF Receive, Goto, broker, TypeInv, TypeOK, WorkerOK
  <2> QED
    BY <1>a, <2>1 DEF CopiesMove, Present
<1>11. ASSUME NEW w \in Workers, ReadFrame(w) PROVE CopiesMove
  <2> DEFINE f == wire[w][1]
  <2>1. /\ \A v \in Workers : \A i \in DOMAIN wire'[v] : \E j \in DOMAIN wire[v] : wire'[v][i] = wire[v][j]
        /\ 1 \in DOMAIN wire[w] /\ Head(wire[w]) = f
    <3>1. /\ 1 \in DOMAIN wire[w] /\ Head(wire[w]) = f
          /\ \A v \in Workers : v # w => wire'[v] = wire[v]
          /\ \A i \in DOMAIN wire'[w] : i + 1 \in DOMAIN wire[w] /\ wire'[w][i] = wire[w][i + 1]
      BY <1>0, <1>11, ReadFacts
    <3> QED
      BY <3>1
  <2>2. f.m \in Messages
    BY <1>0, <2>1, WireFrames
  <2>3. /\ UNCHANGED <<main, orphan, unacked, pc, cur>>
        /\ retry' = retry \/ retry' = Put(retry, f.m)
        /\ dlq' = dlq \/ dlq' = Put(dlq, f.m)
    BY <1>11, <2>1 DEF ReadFrame, Route, worker
  <2>4. Present(f.m)
    BY <2>1 DEF Present, Carried
  <2> HIDE DEF f
  <2>5. \A k \in Messages : retry'[k] > 0 \/ dlq'[k] > 0 => Present(k)
    BY <1>0, <2>2, <2>3, <2>4, PutPresent DEF Present
  <2>6. \A k \in Messages : Present(k)' => Present(k)
    <3>1. \A v \in Workers, k \in Messages : Carried(v, k)' => Carried(v, k)
      BY <2>1 DEF Carried
    <3> QED
      BY <2>3, <2>5, <3>1 DEF Present
  <2> QED
    BY <1>3, <2>3, <2>6
<1>12. UNCHANGED attempts
  BY DEF Environment, System, Post, InsertWithOutbox, Publish, Deliver, Expire, Requeue,
     LoseConnection, Forget, Crash, Receive, ReadFrame, db
<1> QED
  BY <1>1, <1>2, <1>4, <1>5, <1>6, <1>8, <1>9, <1>10, <1>11, <1>12 DEF Environment, System

\* A copy that a handler adds is of the message in its hands: the next attempt,
\* while that is not exhausted, or the same in a DLQ.
Republished(w, k) ==
  /\ k.n = cur[w].n /\ k.ch = WorkerChannel[w]
  /\ \/ k.attempt = cur[w].attempt
     \/ PublishRetry(w) /\ ~Exhausted(cur[w]) /\ k.attempt = cur[w].attempt + 1

LEMMA CopiesOnMessage ==
  ASSUME TypeInv, NEW w \in Workers, OnMessage(w)
  PROVE  /\ \A k \in Messages : Present(k)' => Present(k) \/ Republished(w, k)
         /\ \A v \in Workers, k \in Messages : unacked'[v][k] > 0 => unacked[v][k] > 0
         /\ \A v \in Workers : v # w => UNCHANGED <<pc[v], cur[v]>>
         /\ pc'[w] # "idle" => UNCHANGED cur[w]
<1>0. /\ BrokerOK /\ unacked \in [Workers -> Bags]
      /\ pc \in [Workers -> Labels] /\ cur \in [Workers -> Messages \cup {NoMessage}]
  BY DEF TypeInv, TypeOK, BrokerOK, WorkerOK
<1>1. /\ pc[w] # "idle" /\ UNCHANGED <<main, retry, dlq, orphan>>
      /\ cur[w] \in Messages /\ cur[w].n \in Notifications
  BY HandlerFrame, BusyMessage DEF TypeInv
<1>2. CASE Ack(w)
  <2>1. /\ pc'[w] = "idle" /\ \A v \in Workers : v # w => UNCHANGED <<pc[v], cur[v], unacked[v]>>
    BY <1>0, <1>2 DEF Ack, Goto
  <2>2. \A k \in Messages : unacked'[w][k] > 0 => unacked[w][k] > 0
    <3>1. CASE conn[w] = "up"
      <4>1. unacked[w][cur[w]] > 0 /\ unacked'[w] = Take(unacked[w], cur[w])
        BY <1>0, <1>1, <1>2, <3>1 DEF Ack, TypeInv, TypeOK, BusyHolds
      <4> QED
        BY <1>0, <1>1, <4>1, TakePresent
    <3>2. CASE conn[w] # "up"
      BY <1>2, <3>2 DEF Ack
    <3> QED
      BY <3>1, <3>2
  <2>3. \A v \in Workers, k \in Messages : unacked'[v][k] > 0 => unacked[v][k] > 0
    BY <2>1, <2>2
  <2>4. \A k \in Messages, v \in Workers : Carried(v, k)' => Present(k)
    <3>1. CASE conn[w] = "up"
      <4>1. /\ Present(cur[w]) /\ Frame("ack", cur[w]).m = cur[w]
        BY <1>1, <3>1 DEF Present, TypeInv, TypeOK, BusyHolds, Frame
      <4>2. \A v \in Workers : \A i \in DOMAIN wire'[v] :
              \/ i \in DOMAIN wire[v] /\ wire'[v][i] = wire[v][i]
              \/ wire'[v][i] = Frame("ack", cur[w])
        BY <1>0, <1>1, <1>2, SendFacts DEF Ack
      <4> QED
        BY <4>1, <4>2 DEF Present, Carried
    <3>2. CASE conn[w] # "up"
      <4>1. wire' = wire
        BY <1>2, <3>2 DEF Ack, SendFrame
      <4> QED
        BY <4>1 DEF Present, Carried
    <3> QED
      BY <3>1, <3>2
  <2>5. \A k \in Messages : Present(k)' => Present(k)
    BY <1>1, <2>3, <2>4 DEF Present
  <2> QED
    BY <2>1, <2>3, <2>5
<1>3. ASSUME ~Ack(w), NEW m \in Messages, Republished(w, m),
             \A v \in Workers : \A i \in DOMAIN wire'[v] :
               \/ i \in DOMAIN wire[v] /\ wire'[v][i] = wire[v][i]
               \/ wire'[v][i].m = m
      PROVE  /\ \A k \in Messages : Present(k)' => Present(k) \/ Republished(w, k)
             /\ \A v \in Workers, k \in Messages : unacked'[v][k] > 0 => unacked[v][k] > 0
             /\ \A v \in Workers : v # w => UNCHANGED <<pc[v], cur[v]>>
             /\ pc'[w] # "idle" => UNCHANGED cur[w]
  <2>1. UNCHANGED <<cur, unacked>>
    BY <1>3, HandlerFrame
  <2>2. \A v \in Workers : v # w => pc'[v] = pc[v]
    <3>1. ASSUME NEW l, Goto(w, l) PROVE \A v \in Workers : v # w => pc'[v] = pc[v]
      BY <1>0, <3>1 DEF Goto
    <3>2. Find(w) \/ MarkProcessing(w) \/ SendSucceeds(w) => \E l : Goto(w, l)
      BY DEF Find, MarkProcessing, SendSucceeds, Statement, Step
    <3>3. (\E f \in {"transient", "permanent"} : SendFails(w, f)) => \E l : Goto(w, l)
      BY DEF SendFails, Step
    <3>4. RecordSuccess(w) \/ MarkSent(w) \/ CountSuccess(w) \/ CountFailure(w) => \E l : Goto(w, l)
      BY DEF RecordSuccess, MarkSent, CountSuccess, CountFailure, Statement, Step
    <3>5. RecordRetry(w) \/ PublishRetry(w) \/ RecordDead(w) => \E l : Goto(w, l)
      BY DEF RecordRetry, PublishRetry, RecordDead, Statement, Step
    <3>6. PublishDlq(w) \/ MarkDead(w) => \E l : Goto(w, l)
      BY DEF PublishDlq, MarkDead, Statement, Step
    <3> QED
      BY <1>3, <3>1, <3>2, <3>3, <3>4, <3>5, <3>6 DEF OnMessage
  <2>3. \A k \in Messages : Present(k)' => Present(k) \/ k = m
    <3>1. \A v \in Workers, k \in Messages : Carried(v, k)' => Carried(v, k) \/ k = m
      BY <1>3 DEF Carried
    <3> QED
      BY <1>1, <2>1, <3>1 DEF Present
  <2> QED
    BY <1>3, <2>1, <2>2, <2>3
<1>4. CASE PublishRetry(w)
  <2>1. ~Exhausted(cur[w]) /\ cur[w].attempt \in Attempts /\ cur[w].attempt + 1 \in Attempts
    <3>1. cur[w].attempt \in Attempts /\ ~Exhausted(cur[w])
      BY <1>1, <1>4, MessageFields DEF PublishRetry, Step, TypeInv, RetryAllowed
    <3> QED
      BY <3>1, DeliveryAssumption DEF Exhausted, Attempts, DeliveryAssumption
  <2>2. NextAttempt(w) \in Messages /\ Republished(w, NextAttempt(w))
    BY <1>1, <1>4, <2>1, MessageFields, DeliveryAssumption
       DEF NextAttempt, Republished, DeliveryAssumption
  <2>3. ~Ack(w)
    BY <1>4 DEF PublishRetry, Ack, Step
  <2>4. \A v \in Workers : \A i \in DOMAIN wire'[v] :
          \/ i \in DOMAIN wire[v] /\ wire'[v][i] = wire[v][i]
          \/ wire'[v][i] = Frame("retry", NextAttempt(w))
    BY <1>0, <1>4, <2>2, SendFacts DEF PublishRetry
  <2> QED
    BY <1>3, <2>2, <2>3, <2>4, FrameFields
<1>5. [cur[w] EXCEPT !.ch = WorkerChannel[w]] \in Messages
      /\ Republished(w, [cur[w] EXCEPT !.ch = WorkerChannel[w]])
  BY <1>1, DeliveryAssumption DEF Messages, DeliveryAssumption, Republished
<1>6. CASE PublishDlq(w)
  <2> DEFINE d == [cur[w] EXCEPT !.ch = WorkerChannel[w]]
  <2>1. ~Ack(w)
    BY <1>6 DEF PublishDlq, Ack, Step
  <2>2. \A v \in Workers : \A i \in DOMAIN wire'[v] :
          \/ i \in DOMAIN wire[v] /\ wire'[v][i] = wire[v][i]
          \/ wire'[v][i] = Frame("dlq", d)
    BY <1>0, <1>5, <1>6, SendFacts DEF PublishDlq
  <2> HIDE DEF d
  <2>3. d \in Messages /\ Republished(w, d)
    BY <1>5 DEF d
  <2> QED
    BY <1>3, <2>1, <2>2, <2>3, FrameFields
<1>7. CASE ~Ack(w) /\ ~PublishRetry(w) /\ ~PublishDlq(w)
  <2>1. UNCHANGED wire
    BY <1>7, HandlerFrame
  <2> QED
    BY <1>3, <1>5, <1>7, <2>1
<1> QED
  BY <1>2, <1>4, <1>6, <1>7

-----------------------------------------------------------------------------
(* Every copy of a message belongs to the channel of its row.              *)

\* There is a row of channel c for the notification n, and it was published.
RowOf(n, c) == status[n] # "NONE" /\ channel[n] = c /\ published[n] > 0

Routed ==
  /\ \A m \in Messages : Present(m) => RowOf(m.n, m.ch)
  /\ \A w \in Workers, m \in Messages : unacked[w][m] > 0 => m.ch = WorkerChannel[w]
  /\ \A w \in Workers : pc[w] # "idle" => RowOf(cur[w].n, WorkerChannel[w])

LEMMA RowsStay ==
  ASSUME TypeInv, [Next]_vars, NEW n \in Notifications, NEW c \in Channels, RowOf(n, c)
  PROVE  RowOf(n, c)'
<1>0. published'[n] > 0
  <2>1. ASSUME NEW k \in Notifications, Publish(k) PROVE published'[n] > 0
    BY <2>1 DEF Publish, RowOf, TypeInv, TypeOK, CountersOK
  <2>2. CASE UNCHANGED published
    BY <2>2 DEF RowOf
  <2> QED
    BY <2>1, <2>2, HandlerFrame DEF Next, Environment, System, Post, Forget, LoseConnection, Crash,
       Expire, Deliver, Requeue, Receive, ReadFrame, vars, history
<1>1. ASSUME NEW k \in Notifications, NEW d \in Channels, Post(k, d) PROVE RowOf(n, c)'
  BY <1>0, <1>1 DEF Post, InsertWithOutbox, RowOf, TypeInv, TypeOK, DbOK
<1>2. ASSUME NEW w \in Workers, OnMessage(w) PROVE RowOf(n, c)'
  <2>1. CASE MarkProcessing(w) \/ MarkSent(w) \/ MarkDead(w)
    <3>1. cur[w].n \in Notifications
      BY <1>2, HandlerFrame, BusyMessage DEF TypeInv
    <3> QED
      BY <1>0, <2>1, <3>1
         DEF MarkProcessing, MarkSent, MarkDead, Mark, RowOf, TypeInv, TypeOK, DbOK
  <2> QED
    BY <1>0, <1>2, <2>1, HandlerFrame DEF RowOf
<1>3. CASE UNCHANGED db
  BY <1>0, <1>3 DEF RowOf, db
<1> QED
  BY <1>1, <1>2, <1>3 DEF Next, Environment, System, Forget, LoseConnection, Crash, Publish,
     Expire, Deliver, Requeue, Receive, ReadFrame, vars

LEMMA RoutedInvariant == Spec => []Routed
<1>1. TypeInv /\ Init => Routed
  <2> SUFFICES ASSUME Init PROVE Routed
    OBVIOUS
  <2>1. \A m \in Messages : ~Present(m)
    BY BagFacts DEF Init, Present, Carried
  <2> QED
    BY <2>1, BagFacts DEF Init, Routed
<1>2. TypeInv /\ Routed /\ [Next]_vars => Routed'
  <2> SUFFICES ASSUME TypeInv, Routed, [Next]_vars PROVE Routed'
    OBVIOUS
  <2>0. \A w \in Workers : WorkerChannel[w] \in Channels
    BY DeliveryAssumption DEF DeliveryAssumption
  <2>1. CASE UNCHANGED vars
    BY <2>1 DEF vars, db, broker, worker, history, Routed, Present, Carried, RowOf
  <2>2. CASE (Environment \/ System) /\ ~\E w \in Workers : OnMessage(w)
    <3>1. CopiesMove
      BY <2>2, CopiesOutside
    <3>2. ASSUME NEW m \in Messages, Present(m)' PROVE RowOf(m.n, m.ch)'
      <4>1. CASE Present(m)
        BY <4>1, RowsStay, MessageFields DEF Routed
      <4>2. CASE status[m.n] # "NONE" /\ m.ch = channel[m.n] /\ published'[m.n] > 0
        <5>1. m.n \in Notifications /\ m.ch \in Channels
          BY MessageFields
        <5>2. status'[m.n] # "NONE" /\ channel'[m.n] = m.ch
          BY <2>2, <4>2, <5>1 DEF Environment, System, Post, InsertWithOutbox, Forget, LoseConnection,
             Crash, Publish, Expire, Deliver, Requeue, Receive, ReadFrame, db, TypeInv, TypeOK, DbOK
        <5> QED
          BY <4>2, <5>2 DEF RowOf
      <4> QED
        BY <3>1, <3>2, <4>1, <4>2 DEF CopiesMove
    <3>3. ASSUME NEW w \in Workers, pc'[w] # "idle" PROVE RowOf(cur[w].n, WorkerChannel[w])'
      <4>1. CASE UNCHANGED <<pc[w], cur[w]>>
        <5>1. RowOf(cur[w].n, WorkerChannel[w]) /\ cur[w].n \in Notifications
          BY <3>3, <4>1, BusyMessage DEF Routed, TypeInv
        <5> QED
          BY <2>0, <4>1, <5>1, RowsStay DEF RowOf
      <4>2. ASSUME NEW m \in Messages, cur'[w] = m, unacked[w][m] > 0
            PROVE  RowOf(cur[w].n, WorkerChannel[w])'
        <5>1. RowOf(m.n, WorkerChannel[w]) /\ m.n \in Notifications
          BY <4>2, MessageFields DEF Routed, Present
        <5> QED
          BY <2>0, <4>2, <5>1, RowsStay DEF RowOf
      <4> QED
        BY <3>1, <3>3, <4>1, <4>2 DEF CopiesMove
    <3> QED
      BY <3>1, <3>2, <3>3 DEF CopiesMove, Routed
  <2>3. ASSUME NEW w \in Workers, OnMessage(w) PROVE Routed'
    <3>1. /\ \A k \in Messages : Present(k)' => Present(k) \/ Republished(w, k)
          /\ \A v \in Workers, k \in Messages : unacked'[v][k] > 0 => unacked[v][k] > 0
          /\ \A v \in Workers : v # w => UNCHANGED <<pc[v], cur[v]>>
          /\ pc'[w] # "idle" => UNCHANGED cur[w]
          /\ pc[w] # "idle" /\ cur[w].n \in Notifications
      BY <2>3, CopiesOnMessage, HandlerFrame, BusyMessage DEF TypeInv
    <3>2. \A m \in Messages : Present(m)' => RowOf(m.n, m.ch)
      BY <3>1 DEF Routed, Republished
    <3>3. \A m \in Messages : Present(m)' => RowOf(m.n, m.ch)'
      BY <3>2, RowsStay, MessageFields
    <3>4. ASSUME NEW v \in Workers, pc'[v] # "idle" PROVE RowOf(cur[v].n, WorkerChannel[v])'
      <4>1. pc[v] # "idle" /\ UNCHANGED cur[v]
        BY <3>1, <3>4
      <4>2. RowOf(cur[v].n, WorkerChannel[v]) /\ cur[v].n \in Notifications
        BY <4>1, BusyMessage DEF Routed, TypeInv
      <4> QED
        BY <2>0, <4>1, <4>2, RowsStay DEF RowOf
    <3> QED
      BY <3>1, <3>3, <3>4 DEF Routed
  <2> QED
    BY <2>1, <2>2, <2>3 DEF Next
<1> QED
  BY <1>1, <1>2, TypeInvariant, TypeInit, PTL DEF Spec

(* Also when a repeated POST asks for another channel, and whatever the    *)
(* workers republish, every copy of a message is in the queues or with a   *)
(* worker of the channel of its row.                                       *)
THEOREM RoutingCorrect == Spec => []RoutedToOwnChannel
<1>1. Routed => RoutedToOwnChannel
  <2> SUFFICES ASSUME Routed, NEW m \in Messages, Present(m) PROVE m.ch = channel[m.n]
    BY DEF RoutedToOwnChannel, InQueue, IsOut, Present, Carried
  <2> QED
    BY DEF Routed, RowOf
<1> QED
  BY <1>1, RoutedInvariant, PTL

-----------------------------------------------------------------------------
(* The ladder is climbed a rung at a time.                                 *)

\* Attempt k of n is legal, and the one before it is on record.
Climbed(n, k) == k <= MaxRetries + 1 /\ (k > 1 => attempts[n][k - 1] # "NONE")

Climbing ==
  /\ \A m \in Messages : Present(m) => Climbed(m.n, m.attempt)
  /\ \A w \in Workers : pc[w] # "idle" => Climbed(cur[w].n, cur[w].attempt)
  /\ \A w \in Workers : pc[w] = "publishRetry" => attempts[cur[w].n][cur[w].attempt] # "NONE"
  /\ \A n \in Notifications, k \in Attempts : attempts[n][k] # "NONE" => Climbed(n, k)

\* What a handler writes into the history is the outcome of its own attempt, and
\* it is there before a retry is published.
LEMMA HandlerRecords ==
  ASSUME TypeInv, NEW w \in Workers, OnMessage(w)
  PROVE  /\ \A n \in Notifications, k \in Attempts :
              attempts'[n][k] = attempts[n][k]
              \/ (n = cur[w].n /\ k = cur[w].attempt /\ attempts'[n][k] # "NONE")
         /\ pc'[w] = "publishRetry" => attempts'[cur[w].n][cur[w].attempt] # "NONE"
<1>1. /\ attempts \in [Notifications -> [Attempts -> AttemptStatuses]]
      /\ pc \in [Workers -> Labels]
      /\ cur[w].n \in Notifications /\ cur[w].attempt \in Attempts
  BY HandlerFrame, BusyMessage, MessageFields DEF TypeInv, TypeOK, DbOK, WorkerOK
<1>2. ASSUME NEW s, s # "NONE", Record(w, s)
      PROVE  /\ \A n \in Notifications, k \in Attempts :
                  attempts'[n][k] = attempts[n][k]
                  \/ (n = cur[w].n /\ k = cur[w].attempt /\ attempts'[n][k] # "NONE")
             /\ attempts'[cur[w].n][cur[w].attempt] # "NONE"
  BY <1>1, <1>2 DEF Record
<1>3. (RecordSuccess(w) \/ RecordRetry(w) \/ RecordDead(w)) => \E s : s # "NONE" /\ Record(w, s)
  <2>1. RecordSuccess(w) => Record(w, "SUCCESS")
    BY DEF RecordSuccess
  <2>2. RecordRetry(w) => Record(w, "TRANSIENT_FAILURE")
    BY DEF RecordRetry
  <2>3. RecordDead(w) => Record(w, "TRANSIENT_FAILURE") \/ Record(w, "PERMANENT_FAILURE")
    BY DEF RecordDead
  <2> QED
    BY <2>1, <2>2, <2>3
<1>4. CASE RecordSuccess(w) \/ RecordRetry(w) \/ RecordDead(w)
  BY <1>2, <1>3, <1>4
<1>5. CASE ~(RecordSuccess(w) \/ RecordRetry(w) \/ RecordDead(w))
  <2>1. UNCHANGED attempts
    BY <1>5 DEF OnMessage, Find, MarkProcessing, SendSucceeds, SendFails, MarkSent, CountSuccess,
       CountFailure, PublishRetry, PublishDlq, MarkDead, Ack, Statement, Mark,
       IncrementAttemptCount, db
  <2>2. pc'[w] # "publishRetry"
    <3>1. ASSUME NEW l, Goto(w, l) PROVE pc'[w] = l
      BY <1>1, <3>1 DEF Goto
    <3>2. Find(w) \/ MarkProcessing(w) \/ SendSucceeds(w)
          => \E l \in {"ack", "markProcessing", "send", "recordSuccess"} : Goto(w, l)
      BY DEF Find, MarkProcessing, SendSucceeds, Statement, Step
    <3>3. (\E f \in {"transient", "permanent"} : SendFails(w, f)) => Goto(w, "countFailure")
      BY DEF SendFails, Step
    <3>4. MarkSent(w) \/ CountSuccess(w) \/ CountFailure(w)
          => \E l \in {"countSuccess", "ack", "recordRetry", "recordDead"} : Goto(w, l)
      BY DEF MarkSent, CountSuccess, CountFailure, Statement, Step
    <3>5. PublishRetry(w) \/ PublishDlq(w) \/ MarkDead(w) \/ Ack(w)
          => \E l \in {"ack", "markDead", "idle"} : Goto(w, l)
      BY DEF PublishRetry, PublishDlq, MarkDead, Ack, Statement, Step
    <3> QED
      BY <1>5, <3>1, <3>2, <3>3, <3>4, <3>5 DEF OnMessage
  <2> QED
    BY <2>1, <2>2
<1> QED
  BY <1>4, <1>5

LEMMA ClimbingOutside ==
  ASSUME TypeInv, Climbing, (Environment \/ System) /\ ~\E w \in Workers : OnMessage(w)
  PROVE  Climbing'
<1>1. CopiesMove /\ UNCHANGED attempts
  BY CopiesOutside
<1>2. \A n, k : Climbed(n, k)' <=> Climbed(n, k)
  BY <1>1 DEF Climbed
<1>3. \A n : Climbed(n, 1)
  BY DeliveryAssumption DEF Climbed, DeliveryAssumption
<1>4. \A m \in Messages : Present(m)' => Climbed(m.n, m.attempt)'
  BY <1>1, <1>2, <1>3 DEF CopiesMove, Climbing
<1>5. ASSUME NEW w \in Workers, pc'[w] # "idle"
      PROVE  /\ Climbed(cur[w].n, cur[w].attempt)'
             /\ pc'[w] = "publishRetry" => attempts'[cur'[w].n][cur'[w].attempt] # "NONE"
  <2>1. CASE UNCHANGED <<pc[w], cur[w]>>
    BY <1>1, <1>5, <2>1 DEF Climbing, Climbed
  <2>2. ASSUME pc'[w] = "find", NEW m \in Messages, cur'[w] = m, unacked[w][m] > 0
        PROVE  /\ Climbed(cur[w].n, cur[w].attempt)'
               /\ pc'[w] # "publishRetry"
    BY <1>1, <2>2 DEF Climbing, Climbed, Present
  <2> QED
    BY <1>1, <1>5, <2>1, <2>2 DEF CopiesMove
<1>6. \A n \in Notifications, k \in Attempts : attempts'[n][k] # "NONE" => Climbed(n, k)'
  BY <1>1, <1>2 DEF Climbing
<1> QED
  BY <1>4, <1>5, <1>6 DEF Climbing

LEMMA ClimbingOnMessage ==
  ASSUME TypeInv, Climbing, NEW w \in Workers, OnMessage(w)
  PROVE  Climbing'
<1>1. /\ cur[w].n \in Notifications /\ cur[w].attempt \in Attempts /\ pc[w] # "idle"
      /\ \A v \in Workers : pc[v] # "idle" => cur[v].n \in Notifications /\ cur[v].attempt \in Attempts
  BY HandlerFrame, BusyMessage, MessageFields DEF TypeInv
<1>2. /\ \A k \in Messages : Present(k)' => Present(k) \/ Republished(w, k)
      /\ \A v \in Workers : v # w => UNCHANGED <<pc[v], cur[v]>>
      /\ pc'[w] # "idle" => UNCHANGED cur[w]
  BY CopiesOnMessage
<1>3. ASSUME NEW n \in Notifications, NEW k \in Attempts, attempts[n][k] # "NONE"
      PROVE  attempts'[n][k] # "NONE"
  BY <1>3, HandlerRecords
<1>4. ASSUME NEW n \in Notifications, NEW k \in Attempts, Climbed(n, k) PROVE Climbed(n, k)'
  <2>1. k > 1 => k - 1 \in Attempts
    BY DeliveryAssumption DEF DeliveryAssumption, Attempts
  <2> QED
    BY <1>3, <1>4, <2>1 DEF Climbed
<1>5. ASSUME NEW m \in Messages, Present(m)' PROVE Climbed(m.n, m.attempt)'
  <2>1. CASE Present(m) \/ (m.n = cur[w].n /\ m.attempt = cur[w].attempt)
    BY <1>1, <1>4, <2>1, MessageFields DEF Climbing
  <2>2. CASE PublishRetry(w) /\ ~Exhausted(cur[w]) /\ m.n = cur[w].n
             /\ m.attempt = cur[w].attempt + 1
    <3>1. attempts[m.n][cur[w].attempt] # "NONE"
      BY <2>2 DEF PublishRetry, Step, Climbing
    <3>2. attempts'[m.n][cur[w].attempt] # "NONE"
      BY <1>1, <1>3, <2>2, <3>1
    <3>3. m.attempt - 1 = cur[w].attempt /\ m.attempt <= MaxRetries + 1
      BY <1>1, <2>2, DeliveryAssumption DEF Exhausted, Attempts, DeliveryAssumption
    <3> QED
      BY <3>2, <3>3 DEF Climbed
  <2> QED
    BY <1>2, <1>5, <2>1, <2>2 DEF Republished
<1>6. ASSUME NEW v \in Workers, pc'[v] # "idle"
      PROVE  /\ Climbed(cur[v].n, cur[v].attempt)'
             /\ pc'[v] = "publishRetry" => attempts'[cur'[v].n][cur'[v].attempt] # "NONE"
  <2>1. UNCHANGED cur[v] /\ pc[v] # "idle"
    BY <1>1, <1>2, <1>6
  <2>2. Climbed(cur[v].n, cur[v].attempt) /\ cur[v].n \in Notifications /\ cur[v].attempt \in Attempts
    BY <1>1, <2>1 DEF Climbing
  <2>3. Climbed(cur[v].n, cur[v].attempt)'
    BY <1>4, <2>1, <2>2 DEF Climbed
  <2>4. CASE v = w
    BY <2>1, <2>3, <2>4, HandlerRecords
  <2>5. CASE v # w
    BY <1>2, <1>3, <2>1, <2>2, <2>3, <2>5 DEF Climbing
  <2> QED
    BY <2>4, <2>5
<1>7. ASSUME NEW n \in Notifications, NEW k \in Attempts, attempts'[n][k] # "NONE"
      PROVE  Climbed(n, k)'
  <2>1. attempts[n][k] # "NONE" \/ (n = cur[w].n /\ k = cur[w].attempt)
    BY <1>7, HandlerRecords
  <2> QED
    BY <1>1, <1>4, <2>1 DEF Climbing
<1> QED
  BY <1>5, <1>6, <1>7 DEF Climbing

(* Nobody works on an attempt past the last, and the delivery history has  *)
(* no gap, whatever crashed between recording an attempt and publishing    *)
(* the next.                                                               *)
THEOREM LadderClimbed == Spec => []LadderInOrder
<1>1. Init => Climbing
  <2> SUFFICES ASSUME Init PROVE Climbing
    OBVIOUS
  <2>1. \A m \in Messages : ~Present(m)
    BY BagFacts DEF Init, Present, Carried
  <2> QED
    BY <2>1 DEF Init, Climbing
<1>2. TypeInv /\ Climbing /\ [Next]_vars => Climbing'
  <2> SUFFICES ASSUME TypeInv, Climbing, [Next]_vars PROVE Climbing'
    OBVIOUS
  <2>1. CASE UNCHANGED vars
    BY <2>1 DEF vars, db, broker, worker, Climbing, Climbed, Present, Carried
  <2> QED
    BY <2>1, ClimbingOutside, ClimbingOnMessage DEF Next
<1>3. Climbing => LadderInOrder
  BY DEF Climbing, Climbed, LadderInOrder
<1> QED
  BY <1>1, <1>2, <1>3, TypeInvariant, PTL DEF Spec

-----------------------------------------------------------------------------
(* At-least-once.                                                          *)

(* No message is published for a row that does not exist, no row is        *)
(* cancelled, and only a row whose message was published is worked on.     *)
PublishedInv ==
  /\ PublishedHasRow
  /\ \A n \in Notifications : status[n] \notin {"NONE", "PENDING"} => published[n] > 0

LEMMA PublishedInvariant == Spec => []PublishedInv
<1>1. Init => PublishedInv
  BY DEF Init, PublishedInv, PublishedHasRow
<1>2. TypeInv /\ Routed /\ PublishedInv /\ [Next]_vars => PublishedInv'
  <2> SUFFICES ASSUME TypeInv, Routed, PublishedInv, [Next]_vars PROVE PublishedInv'
    OBVIOUS
  <2> USE DEF PublishedInv, PublishedHasRow, TypeInv, TypeOK, DbOK, CountersOK
  <2>1. ASSUME NEW n \in Notifications, NEW c \in Channels, Post(n, c)
        PROVE  PublishedInv'
    BY <2>1 DEF Post, InsertWithOutbox, history
  <2>2. ASSUME NEW n \in Notifications, Publish(n) PROVE PublishedInv'
    BY <2>2 DEF Publish, OwedHasRow, db
  <2>3. ASSUME NEW w \in Workers, OnMessage(w) PROVE PublishedInv'
    <3>1. UNCHANGED published
      BY <2>3, HandlerFrame DEF history
    <3>2. CASE UNCHANGED status
      BY <3>1, <3>2
    <3>3. CASE MarkProcessing(w) \/ MarkSent(w) \/ MarkDead(w)
      <4>1. cur[w].n \in Notifications /\ published[cur[w].n] > 0
        BY <2>3, HandlerFrame, BusyMessage DEF Routed, RowOf
      <4> QED
        BY <3>1, <3>3, <4>1 DEF MarkProcessing, MarkSent, MarkDead, Mark
    <3> QED
      BY <2>3, <3>2, <3>3, HandlerFrame
  <2>4. CASE UNCHANGED <<status, published>>
    BY <2>4
  <2> QED
    BY <2>1, <2>2, <2>3, <2>4 DEF Next, Environment, System, Forget, LoseConnection, Crash,
       Expire, Deliver, Requeue, Receive, ReadFrame, vars, db, history
<1> QED
  BY <1>1, <1>2, TypeInvariant, RoutedInvariant, PTL DEF Spec

\* The broker gets a message and then the ack it replaces, the last message of
\* a worker at most without its ack, while the handler is on its way to it.
InOrder(w) ==
  \A i \in DOMAIN wire[w] :
    wire[w][i].kind # "ack" =>
      IF i < Len(wire[w])
      THEN wire[w][i + 1].kind = "ack" /\ wire[w][i + 1].m.n = wire[w][i].m.n
      ELSE pc[w] \in {"markDead", "ack"} /\ cur[w].n = wire[w][i].m.n

\* A retry on its way is for a rung that maxRetries allows.  A worker that is
\* about to mark a row DEAD_LETTERED on an intact connection has sent the message
\* to the DLQ.  A lost connection was counted and holds neither deliveries nor
\* frames.
WireOK(w) ==
  /\ \A i \in DOMAIN wire[w] :
       wire[w][i].kind = "retry" => wire[w][i].m.attempt - 1 \in 1..MaxRetries
  /\ InOrder(w)
  /\ pc[w] = "markDead" /\ conn[w] = "up" => Parked(cur[w].n) \/ OnWire(w, "dlq", cur[w].n)
  /\ conn[w] = "lost" =>
       losses > 0 /\ wire[w] = << >> /\ \A m \in Messages : unacked[w][m] = 0

WireInv == \A w \in Workers : WireOK(w)

(* A step of others.                                                       *)
LEMMA WireUntouched ==
  ASSUME NEW w \in Workers, WireOK(w), UNCHANGED <<conn[w], wire[w], pc[w], cur[w]>>,
         \A m \in Messages : dlq[m] > 0 => dlq'[m] > 0,
         losses > 0 => losses' > 0,
         conn[w] = "up" \/ unacked'[w] = unacked[w]
  PROVE  WireOK(w)'
<1>1. InOrder(w)' /\ (OnWire(w, "dlq", cur[w].n)' <=> OnWire(w, "dlq", cur[w].n))
      /\ (Parked(cur[w].n) => Parked(cur[w].n)')
  BY DEF WireOK, InOrder, OnWire, Parked
<1> QED
  BY <1>1 DEF WireOK

(* With the first frame gone the others follow one another as before.      *)
LEMMA WireRead ==
  ASSUME TypeInv, WireInv, NEW w \in Workers, ReadFrame(w)
  PROVE  WireInv'
<1> DEFINE L == Len(wire[w])
           f == wire[w][1]
<1>1. /\ 1 \in DOMAIN wire[w] /\ Head(wire[w]) = f
      /\ \A v \in Workers : v # w => wire'[v] = wire[v]
      /\ L \in Nat \ {0} /\ Len(wire'[w]) = L - 1 /\ DOMAIN wire'[w] = 1..(L - 1)
      /\ DOMAIN wire[w] = 1..L
      /\ \A i \in DOMAIN wire'[w] : i + 1 \in DOMAIN wire[w] /\ wire'[w][i] = wire[w][i + 1]
      /\ \A i \in DOMAIN wire[w] :
           i # 1 => i - 1 \in DOMAIN wire'[w] /\ wire'[w][i - 1] = wire[w][i]
  BY ReadFacts, WireFrames DEF TypeInv, TypeOK
<1>2. f.m \in Messages
  BY <1>1, WireFrames DEF TypeInv, TypeOK
<1>3. dlq \in Bags /\ dlq' = (IF f.kind = "dlq" THEN Put(dlq, f.m) ELSE dlq)
      /\ UNCHANGED <<conn, unacked, losses, pc, cur>>
  BY <1>1 DEF ReadFrame, Route, worker, history, TypeInv, TypeOK, BrokerOK
<1> HIDE DEF f
<1>4. \A m \in Messages : dlq[m] > 0 => dlq'[m] > 0
  <2>1. \A m \in Messages : dlq[m] \in Nat
    BY <1>3 DEF Bags
  <2> QED
    BY <1>2, <1>3, <2>1, PutOne
<1>5. f.kind = "dlq" => dlq'[f.m] > 0
  <2>1. dlq[f.m] \in Nat
    BY <1>2, <1>3 DEF Bags
  <2> QED
    BY <1>2, <1>3, <2>1, PutOne
<1>6. ASSUME NEW v \in Workers, v # w PROVE WireOK(v)'
  BY <1>1, <1>3, <1>4, <1>6, WireUntouched DEF WireInv
<1>7. ASSUME NEW i \in DOMAIN wire'[w]
      PROVE  /\ i + 1 \in DOMAIN wire[w] /\ wire'[w][i] = wire[w][i + 1]
             /\ i < Len(wire'[w]) =>
                  i + 1 < L /\ i + 1 \in DOMAIN wire'[w] /\ wire'[w][i + 1] = wire[w][i + 2]
             /\ ~(i < Len(wire'[w])) => ~(i + 1 < L)
             /\ (i + 1) + 1 = i + 2
  BY <1>1, <1>7
<1> HIDE DEF L
<1>8. InOrder(w)'
  <2> SUFFICES ASSUME NEW i \in DOMAIN wire'[w], wire'[w][i].kind # "ack"
               PROVE  IF i < Len(wire'[w])
                      THEN wire'[w][i + 1].kind = "ack" /\ wire'[w][i + 1].m.n = wire'[w][i].m.n
                      ELSE pc'[w] \in {"markDead", "ack"} /\ cur'[w].n = wire'[w][i].m.n
    BY DEF InOrder
  <2>1. IF i + 1 < L
        THEN wire[w][(i + 1) + 1].kind = "ack" /\ wire[w][(i + 1) + 1].m.n = wire[w][i + 1].m.n
        ELSE pc[w] \in {"markDead", "ack"} /\ cur[w].n = wire[w][i + 1].m.n
    BY <1>7 DEF WireInv, WireOK, InOrder, L
  <2> QED
    BY <1>3, <1>7, <2>1
<1>9. ASSUME pc'[w] = "markDead", conn'[w] = "up"
      PROVE  Parked(cur[w].n)' \/ OnWire(w, "dlq", cur[w].n)'
  <2>1. Parked(cur[w].n) \/ OnWire(w, "dlq", cur[w].n)
    BY <1>3, <1>9 DEF WireInv, WireOK
  <2>2. CASE Parked(cur[w].n)
    BY <1>3, <1>4, <2>2 DEF Parked
  <2>3. ASSUME NEW i \in DOMAIN wire[w], wire[w][i].kind = "dlq", wire[w][i].m.n = cur[w].n
        PROVE  Parked(cur[w].n)' \/ OnWire(w, "dlq", cur[w].n)'
    <3>1. CASE i = 1
      BY <1>2, <1>3, <1>5, <2>3, <3>1 DEF Parked, f
    <3>2. CASE i # 1
      BY <1>1, <1>3, <2>3, <3>2 DEF OnWire
    <3> QED
      BY <3>1, <3>2
  <2> QED
    BY <2>1, <2>2, <2>3 DEF OnWire
<1>10. conn[w] = "up"
  <2>1. wire[w] # << >>
    BY DEF ReadFrame
  <2> QED
    BY <2>1 DEF WireInv, WireOK, TypeInv, TypeOK, BrokerOK
<1>11. \A i \in DOMAIN wire'[w] :
         wire'[w][i].kind = "retry" => wire'[w][i].m.attempt - 1 \in 1..MaxRetries
  BY <1>7 DEF WireInv, WireOK
<1>12. WireOK(w)'
  BY <1>3, <1>8, <1>9, <1>10, <1>11 DEF WireOK
<1> QED
  BY <1>6, <1>12 DEF WireInv

LEMMA WireOutside ==
  ASSUME TypeInv, WireInv, (Environment \/ System) /\ ~\E w \in Workers : OnMessage(w)
  PROVE  WireInv'
<1>0. losses \in Nat /\ \A w \in Workers : conn[w] \in {"up", "lost"}
  BY DEF TypeInv, TypeOK, BrokerOK, CountersOK
<1>1. CASE UNCHANGED <<conn, wire, pc, cur, dlq, losses, unacked>>
  BY <1>1, WireUntouched DEF WireInv
<1>2. ASSUME NEW w \in Workers, NEW m \in Messages, Deliver(w, m) PROVE WireInv'
  <2>1. /\ UNCHANGED <<conn, wire, pc, cur, dlq, losses>> /\ conn[w] = "up"
        /\ \A v \in Workers : v # w => unacked'[v] = unacked[v]
    BY <1>2 DEF Deliver, worker, history, TypeInv, TypeOK, BrokerOK
  <2> QED
    BY <2>1, WireUntouched DEF WireInv
<1>3. ASSUME NEW w \in Workers, LoseConnection(w) PROVE WireInv'
  <2>1. /\ conn'[w] = "lost" /\ wire'[w] = << >> /\ unacked'[w] = EmptyBag /\ losses' = losses + 1
        /\ UNCHANGED <<dlq, pc, cur>>
        /\ \A v \in Workers : v # w => UNCHANGED <<conn[v], wire[v], unacked[v]>>
    BY <1>3 DEF LoseConnection, worker, TypeInv, TypeOK, BrokerOK
  <2>2. ASSUME NEW v \in Workers, v # w PROVE WireOK(v)'
    BY <1>0, <2>1, <2>2, WireUntouched DEF WireInv
  <2>3. WireOK(w)'
    <3>1. \A i \in DOMAIN wire'[w] : FALSE
      BY <2>1
    <3>2. losses' > 0 /\ \A m \in Messages : unacked'[w][m] = 0
      BY <1>0, <2>1, BagFacts
    <3> QED
      BY <2>1, <3>1, <3>2 DEF WireOK, InOrder
  <2> QED
    BY <2>2, <2>3 DEF WireInv
<1>4. ASSUME Crash PROVE WireInv'
  <2> SUFFICES ASSUME NEW w \in Workers PROVE WireOK(w)'
    BY DEF WireInv
  <2>1. conn'[w] = "up" /\ wire'[w] = << >> /\ pc'[w] = "idle"
    BY <1>4 DEF Crash
  <2>2. \A i \in DOMAIN wire'[w] : FALSE
    BY <2>1
  <2> QED
    BY <2>1, <2>2 DEF WireOK, InOrder
\* A handler that begins has sent nothing yet.
<1>5. ASSUME NEW w \in Workers, NEW m \in Messages, Receive(w, m) PROVE WireInv'
  <2>1. /\ pc[w] = "idle" /\ pc'[w] = "find" /\ UNCHANGED <<conn, wire, dlq, losses, unacked>>
        /\ \A v \in Workers : v # w => UNCHANGED <<pc[v], cur[v]>>
    BY <1>5 DEF Receive, Goto, broker, history, TypeInv, TypeOK, WorkerOK
  <2>2. ASSUME NEW v \in Workers, v # w PROVE WireOK(v)'
    BY <2>1, <2>2, WireUntouched DEF WireInv
  <2>3. InOrder(w)'
    BY <2>1 DEF WireInv, WireOK, InOrder
  <2>4. WireOK(w)'
    BY <2>1, <2>3 DEF WireInv, WireOK
  <2> QED
    BY <2>2, <2>4 DEF WireInv
<1> QED
  BY <1>1, <1>2, <1>3, <1>4, <1>5, WireRead DEF Environment, System, Post, Forget, Publish, Expire,
     Requeue, broker, worker, history

(* A frame is written behind the ack of the last message, or is the ack.   *)
LEMMA WireSend ==
  ASSUME TypeInv, WireInv, NEW w \in Workers, NEW k \in {"retry", "dlq", "ack"},
         NEW m \in Messages, SendFrame(w, k, m),
         pc[w] \notin {"markDead", "ack"} \/ (k = "ack" /\ m.n = cur[w].n),
         k = "ack" \/ (pc'[w] \in {"markDead", "ack"} /\ cur'[w].n = m.n)
  PROVE  InOrder(w)'
<1>1. CASE conn[w] = "up"
  <2> DEFINE L == Len(wire[w])
  <2>1. /\ L \in Nat /\ DOMAIN wire[w] = 1..L /\ wire[w] \in Seq(Frames)
        /\ wire'[w] = Append(wire[w], Frame(k, m)) /\ Frame(k, m) \in Frames
    BY <1>1, SendFacts, WireFrames, FrameFields DEF TypeInv, TypeOK
  <2>2. /\ DOMAIN wire'[w] = 1..(L + 1) /\ Len(wire'[w]) = L + 1
        /\ wire'[w][L + 1] = Frame(k, m)
        /\ \A i \in 1..L : wire'[w][i] = wire[w][i]
    BY <2>1, AppendFacts
  <2>3. Frame(k, m).kind = k /\ Frame(k, m).m = m
    BY FrameFields
  <2> HIDE DEF L
  <2> SUFFICES ASSUME NEW i \in DOMAIN wire'[w], wire'[w][i].kind # "ack"
               PROVE  IF i < Len(wire'[w])
                      THEN wire'[w][i + 1].kind = "ack" /\ wire'[w][i + 1].m.n = wire'[w][i].m.n
                      ELSE pc'[w] \in {"markDead", "ack"} /\ cur'[w].n = wire'[w][i].m.n
    BY DEF InOrder
  <2>4. CASE i = L + 1
    <3>1. ~(i < Len(wire'[w])) /\ wire'[w][i] = Frame(k, m)
      BY <2>1, <2>2, <2>4
    <3> QED
      BY <2>3, <3>1
  <2>5. CASE i = L
    <3>1. i \in 1..L /\ i < Len(wire'[w]) /\ wire'[w][i] = wire[w][i]
          /\ wire'[w][i + 1] = Frame(k, m) /\ ~(i < L)
      BY <2>1, <2>2, <2>5
    <3>2. pc[w] \in {"markDead", "ack"} /\ cur[w].n = wire[w][i].m.n
      BY <2>1, <3>1 DEF WireInv, WireOK, InOrder, L
    <3> QED
      BY <2>3, <3>1, <3>2
  <2>6. CASE i < L
    <3>1. /\ i \in 1..L /\ i < Len(wire'[w]) /\ wire'[w][i] = wire[w][i]
          /\ wire'[w][i + 1] = wire[w][i + 1]
      BY <2>1, <2>2, <2>6
    <3>2. wire[w][i + 1].kind = "ack" /\ wire[w][i + 1].m.n = wire[w][i].m.n
      BY <2>1, <2>6, <3>1 DEF WireInv, WireOK, InOrder, L
    <3> QED
      BY <3>1, <3>2
  <2> QED
    BY <2>1, <2>2, <2>4, <2>5, <2>6
<1>2. CASE conn[w] # "up"
  <2>1. wire' = wire /\ wire[w] = << >>
    BY <1>2, SendFacts DEF WireInv, WireOK, TypeInv, TypeOK, BrokerOK
  <2> QED
    BY <2>1 DEF InOrder
<1> QED
  BY <1>1, <1>2

LEMMA WireOnMessage ==
  ASSUME TypeInv, WireInv, NEW w \in Workers, OnMessage(w)
  PROVE  WireInv'
<1>1. /\ pc[w] # "idle" /\ cur[w] \in Messages
      /\ UNCHANGED <<main, retry, dlq, orphan, conn, losses>>
      /\ \A v \in Workers : v # w => UNCHANGED <<pc[v], cur[v]>>
      /\ pc \in [Workers -> Labels] /\ conn[w] \in {"up", "lost"}
  BY HandlerFrame, CopiesOnMessage, BusyMessage DEF TypeInv, TypeOK, WorkerOK, BrokerOK, history
<1>2. [cur[w] EXCEPT !.ch = WorkerChannel[w]] \in Messages
      /\ [cur[w] EXCEPT !.ch = WorkerChannel[w]].n = cur[w].n
  BY <1>1, DeliveryAssumption DEF Messages, DeliveryAssumption
<1>3. PublishRetry(w) => NextAttempt(w) \in Messages /\ NextAttempt(w).n = cur[w].n
                         /\ NextAttempt(w).attempt - 1 \in 1..MaxRetries
  <2> SUFFICES ASSUME PublishRetry(w)
               PROVE  NextAttempt(w) \in Messages /\ NextAttempt(w).n = cur[w].n
                      /\ NextAttempt(w).attempt - 1 \in 1..MaxRetries
    OBVIOUS
  <2>1. pc[w] = "publishRetry" /\ cur[w].n \in Notifications /\ cur[w].attempt \in Attempts
    BY <1>1, BusyMessage DEF PublishRetry, Step, TypeInv
  <2>2. cur[w].attempt + 1 \in Attempts /\ (cur[w].attempt + 1) - 1 \in 1..MaxRetries
    BY <2>1, DeliveryAssumption
       DEF TypeInv, RetryAllowed, Exhausted, Attempts, DeliveryAssumption
  <2> QED
    BY <2>1, <2>2, MessageFields, DeliveryAssumption DEF NextAttempt, DeliveryAssumption
\* What the three steps that send do.
<1>4. ASSUME NEW k \in {"retry", "dlq", "ack"}, NEW m \in Messages, SendFrame(w, k, m),
             pc[w] \notin {"markDead", "ack"} \/ (k = "ack" /\ m.n = cur[w].n),
             k = "ack" \/ (pc'[w] \in {"markDead", "ack"} /\ cur'[w].n = m.n),
             k = "retry" => m.attempt - 1 \in 1..MaxRetries,
             pc'[w] = "markDead" => k = "dlq",
             \A v \in Workers : v # w => unacked'[v] = unacked[v],
             conn[w] = "up" \/ unacked'[w] = unacked[w]
      PROVE  WireInv'
  <2>1. InOrder(w)'
    BY <1>4, WireSend
  <2>2. /\ conn[w] # "up" => wire' = wire
        /\ \A v \in Workers : v # w => wire'[v] = wire[v]
        /\ \A i \in DOMAIN wire'[w] :
             (i \in DOMAIN wire[w] /\ wire'[w][i] = wire[w][i]) \/ wire'[w][i] = Frame(k, m)
        /\ conn[w] = "up" => \E i \in DOMAIN wire'[w] : wire'[w][i] = Frame(k, m)
    BY <1>4, SendFacts DEF TypeInv, TypeOK
  <2>3. Frame(k, m).kind = k /\ Frame(k, m).m = m
    BY FrameFields
  <2>4. \A i \in DOMAIN wire'[w] :
          wire'[w][i].kind = "retry" => wire'[w][i].m.attempt - 1 \in 1..MaxRetries
    BY <1>4, <2>2, <2>3 DEF WireInv, WireOK
  <2>5. pc'[w] = "markDead" /\ conn'[w] = "up" => OnWire(w, "dlq", cur[w].n)'
    BY <1>1, <1>4, <2>2, <2>3 DEF OnWire
  <2>6. WireOK(w)'
    BY <1>1, <1>4, <2>1, <2>2, <2>4, <2>5 DEF WireInv, WireOK
  <2>7. ASSUME NEW v \in Workers, v # w PROVE WireOK(v)'
    BY <1>1, <1>4, <2>2, <2>7, WireUntouched DEF WireInv
  <2> QED
    BY <2>6, <2>7 DEF WireInv
<1>5. CASE PublishRetry(w)
  <2>1. /\ pc[w] = "publishRetry" /\ pc'[w] = "ack" /\ UNCHANGED <<cur, unacked>>
        /\ SendFrame(w, "retry", NextAttempt(w))
    BY <1>1, <1>5 DEF PublishRetry, Step, Goto
  <2> QED
    BY <1>3, <1>4, <1>5, <2>1
<1>6. CASE PublishDlq(w)
  <2>1. /\ pc[w] = "publishDlq" /\ pc'[w] = "markDead" /\ UNCHANGED <<cur, unacked>>
        /\ SendFrame(w, "dlq", [cur[w] EXCEPT !.ch = WorkerChannel[w]])
    BY <1>1, <1>6 DEF PublishDlq, Step, Goto
  <2> QED
    BY <1>2, <1>4, <2>1
<1>7. CASE Ack(w)
  <2>1. /\ pc'[w] = "idle" /\ SendFrame(w, "ack", cur[w])
        /\ \A v \in Workers : v # w => unacked'[v] = unacked[v]
        /\ conn[w] = "up" \/ unacked'[w] = unacked[w]
    BY <1>1, <1>7 DEF Ack, Goto, TypeInv, TypeOK, BrokerOK
  <2> QED
    BY <1>1, <1>4, <2>1
\* The others send nothing, and only MarkDead comes after a message was sent.
<1>8. CASE ~PublishRetry(w) /\ ~PublishDlq(w) /\ ~Ack(w)
  <2>1. UNCHANGED <<wire, cur, unacked>>
    BY <1>8, HandlerFrame
  <2>2. /\ pc'[w] # "markDead"
        /\ pc[w] \in {"markDead", "ack"} => pc'[w] = "ack"
    BY <1>1, <1>8 DEF OnMessage, Find, MarkProcessing, SendSucceeds, SendFails, RecordSuccess,
       MarkSent, CountSuccess, CountFailure, RecordRetry, RecordDead, MarkDead, Statement, Step, Goto
  <2>3. InOrder(w)'
    BY <2>1, <2>2 DEF WireInv, WireOK, InOrder
  <2>4. WireOK(w)'
    BY <1>1, <2>1, <2>2, <2>3 DEF WireInv, WireOK
  <2>5. ASSUME NEW v \in Workers, v # w PROVE WireOK(v)'
    BY <1>1, <2>1, <2>5, WireUntouched DEF WireInv
  <2> QED
    BY <2>4, <2>5 DEF WireInv
<1> QED
  BY <1>5, <1>6, <1>7, <1>8

(* What is on a connection that breaks is known: a message at most without *)
(* its ack, whose handler still holds the delivery.                        *)
LEMMA WireInvariant == Spec => []WireInv
<1>1. Init => WireInv
  <2> SUFFICES ASSUME Init, NEW w \in Workers PROVE WireOK(w)
    BY DEF WireInv
  <2>1. wire[w] = << >> /\ pc[w] = "idle" /\ conn[w] = "up"
    BY DEF Init
  <2>2. \A i \in DOMAIN wire[w] : FALSE
    BY <2>1
  <2> QED
    BY <2>1, <2>2 DEF WireOK, InOrder
<1>2. TypeInv /\ WireInv /\ [Next]_vars => WireInv'
  <2> SUFFICES ASSUME TypeInv, WireInv, [Next]_vars PROVE WireInv'
    OBVIOUS
  <2>1. CASE UNCHANGED vars
    <3>1. UNCHANGED <<conn, wire, pc, cur, dlq, losses, unacked>>
      BY <2>1 DEF vars, broker, worker, history
    <3> QED
      BY <3>1, WireUntouched DEF WireInv
  <2> QED
    BY <2>1, WireOutside, WireOnMessage DEF Next
<1> QED
  BY <1>1, <1>2, TypeInvariant, PTL DEF Spec

LostHoldsNothing ==
  \A w \in Workers :
    conn[w] = "lost" => losses > 0 /\ \A m \in Messages : unacked[w][m] = 0

LEMMA LostInvariant == Spec => []LostHoldsNothing
<1>1. WireInv => LostHoldsNothing
  BY DEF WireInv, WireOK, LostHoldsNothing
<1> QED
  BY <1>1, WireInvariant, PTL

-----------------------------------------------------------------------------
(* A copy that the broker is going to keep.                                *)

\* The handler has begun to settle the delivery it works on.
Settling(w) == pc[w] \in {"countSuccess", "ack"}

Held(m) ==
  \/ InQueue(m)
  \/ \E w \in Workers :
       \/ orphan[w][m] > 0
       \/ unacked[w][m] > (IF Settling(w) /\ cur[w] = m THEN 1 ELSE 0)

Safe(n) == (\E m \in Messages : m.n = n /\ Held(m)) \/ Unread("retry", n) \/ Unread("dlq", n)

\* What moves copies keeps them.
LEMMA MoveKeeps ==
  ASSUME NEW p \in Bags, NEW q \in Bags, NEW m \in Messages, p[m] > 0
  PROVE  /\ \A k \in Messages : k # m => Take(p, m)[k] = p[k]
         /\ Put(q, m)[m] > 0
         /\ \A k \in Messages : q[k] > 0 => Put(q, m)[k] > 0
<1>1. \A k \in Messages : q[k] \in Nat
  BY DEF Bags
<1>2. Put(q, m)[m] = q[m] + 1 /\ \A k \in Messages : k # m => Put(q, m)[k] = q[k]
  BY PutOne
<1>3. \A k \in Messages : k # m => Take(p, m)[k] = p[k]
  BY TakeOne
<1> QED
  BY <1>1, <1>2, <1>3

LEMMA PutKeeps ==
  ASSUME NEW q \in Bags, NEW m \in Messages
  PROVE  Put(q, m)[m] > 0 /\ \A k \in Messages : q[k] > 0 => Put(q, m)[k] > 0
<1>1. \A k \in Messages : q[k] \in Nat
  BY DEF Bags
<1>2. Put(q, m)[m] = q[m] + 1 /\ \A k \in Messages : k # m => Put(q, m)[k] = q[k]
  BY PutOne
<1> QED
  BY <1>1, <1>2

(* A message whose frame is on a connection is outstanding there, too: its *)
(* ack is behind it, or the delivery it answers is still held.             *)
LEMMA FrameIsOutstanding ==
  ASSUME TypeInv, WireInv, NEW w \in Workers, NEW k \in {"retry", "dlq"}, NEW n \in Notifications,
         OnWire(w, k, n)
  PROVE  \/ OnWire(w, "ack", n) /\ \E m \in Messages : m.n = n /\ Outstanding(w)[m] > 0
         \/ \E m \in Messages : m.n = n /\ unacked[w][m] > 0 /\ Outstanding(w)[m] > 0
<1>0. BrokerOK
  BY DEF TypeInv, TypeOK
<1>1. PICK i \in DOMAIN wire[w] : wire[w][i].kind = k /\ wire[w][i].m.n = n
  BY DEF OnWire
<1>2. /\ Len(wire[w]) \in Nat /\ DOMAIN wire[w] = 1..Len(wire[w])
      /\ \A j \in DOMAIN wire[w] : wire[w][j] \in Frames /\ wire[w][j].m \in Messages
      /\ conn[w] = "up"
  <2>1. wire[w] # << >>
    BY <1>1
  <2> QED
    BY <1>0, <2>1, WireFrames DEF WireInv, WireOK, BrokerOK
<1>3. CASE i < Len(wire[w])
  <2>1. i + 1 \in DOMAIN wire[w] /\ wire[w][i + 1].kind = "ack" /\ wire[w][i + 1].m.n = n
    BY <1>1, <1>2, <1>3 DEF WireInv, WireOK, InOrder
  <2>2. wire[w][i + 1] = Frame("ack", wire[w][i + 1].m)
    BY <1>2, <2>1 DEF Frames, Frame
  <2>3. Outstanding(w)[wire[w][i + 1].m] > 0
    BY <1>0, <1>2, <2>1, <2>2, OutstandingFacts
  <2> QED
    BY <1>2, <2>1, <2>3 DEF OnWire
<1>4. CASE ~(i < Len(wire[w]))
  <2>1. pc[w] # "idle" /\ cur[w].n = n
    BY <1>1, <1>2, <1>4 DEF WireInv, WireOK, InOrder
  <2>2. cur[w] \in Messages /\ unacked[w][cur[w]] > 0
    BY <1>2, <2>1 DEF TypeInv, TypeOK, BusyHolds
  <2> QED
    BY <1>0, <2>1, <2>2, OutstandingFacts
<1> QED
  BY <1>3, <1>4

LEMMA SafeIsInBroker ==
  ASSUME TypeInv, WireInv, NEW n \in Notifications, Safe(n)
  PROVE  InBroker(n)
<1>1. ASSUME NEW m \in Messages, m.n = n, Held(m) PROVE InBroker(n)
  <2>1. ASSUME NEW w \in Workers, unacked[w][m] > (IF Settling(w) /\ cur[w] = m THEN 1 ELSE 0)
        PROVE  unacked[w][m] > 0
    <3>1. unacked[w][m] \in Nat
      BY DEF TypeInv, TypeOK, BrokerOK, Bags
    <3> QED
      BY <2>1, <3>1
  <2> QED
    BY <1>1, <2>1 DEF Held, InBroker, IsOut
<1>2. ASSUME NEW w \in Workers, NEW k \in {"retry", "dlq"}, OnWire(w, k, n) PROVE InBroker(n)
  BY <1>2, FrameIsOutstanding DEF InBroker, IsOut, Unread
<1> QED
  BY <1>1, <1>2 DEF Safe, Unread

(* A step that keeps every copy that is held, and no frame less.           *)
LEMMA KeptIsSafe ==
  ASSUME \A m \in Messages : Held(m) => Held(m)', UNCHANGED wire,
         NEW n, Safe(n)
  PROVE  Safe(n)'
  BY DEF Safe, Unread, OnWire

LEMMA DeliverKeeps ==
  ASSUME TypeInv, NEW w \in Workers, NEW m \in Messages, Deliver(w, m)
  PROVE  \A k \in Messages : Held(k) => Held(k)'
<1>1. main \in Bags /\ unacked \in [Workers -> Bags] /\ main[m] > 0
  BY DEF Deliver, TypeInv, TypeOK, BrokerOK
<1>2. /\ \A k \in Messages : k # m => main'[k] = main[k]
      /\ UNCHANGED <<retry, dlq, orphan, pc, cur>>
  BY <1>1, TakeOne DEF Deliver, worker
<1>3. /\ unacked'[w] = Put(unacked[w], m)
      /\ \A v \in Workers : v # w => unacked'[v] = unacked[v]
  BY <1>1 DEF Deliver
<1>4. /\ unacked'[w][m] = unacked[w][m] + 1
      /\ \A k \in Messages : k # m => unacked'[w][k] = unacked[w][k]
  BY <1>1, <1>3, PutOne
<1>5. unacked[w][m] \in Nat /\ (Settling(w) /\ cur[w] = m => unacked[w][m] > 0)
  BY <1>1 DEF Deliver, BusyHolds, TypeInv, TypeOK, Bags, Settling
<1>6. Held(m)'
  BY <1>2, <1>4, <1>5 DEF Held, InQueue, Settling
<1> QED
  BY <1>2, <1>3, <1>4, <1>6 DEF Held, InQueue, Settling

LEMMA RequeueKeeps ==
  ASSUME TypeInv, NEW w \in Workers, NEW m \in Messages, Requeue(w, m)
  PROVE  \A k \in Messages : Held(k) => Held(k)'
<1>1. main \in Bags /\ orphan \in [Workers -> Bags] /\ orphan[w][m] > 0
  BY DEF Requeue, TypeInv, TypeOK, BrokerOK
<1>2. main' = Put(main, m) /\ orphan'[w] = Take(orphan[w], m)
      /\ (\A v \in Workers : v # w => orphan'[v] = orphan[v])
      /\ UNCHANGED <<retry, dlq, unacked, pc, cur>>
  BY <1>1 DEF Requeue, worker
<1>3. /\ main'[m] > 0 /\ \A k \in Messages : main[k] > 0 => main'[k] > 0
      /\ \A k \in Messages : k # m => orphan'[w][k] = orphan[w][k]
  BY <1>1, <1>2, MoveKeeps
<1> QED
  BY <1>2, <1>3 DEF Held, InQueue, Settling

LEMMA ExpireKeeps ==
  ASSUME TypeInv, NEW m \in Messages, Expire(m)
  PROVE  \A k \in Messages : Held(k) => Held(k)'
<1>1. main \in Bags /\ retry \in Bags /\ retry[m] > 0
  BY DEF Expire, TypeInv, TypeOK, BrokerOK
<1>2. main' = Put(main, m) /\ retry' = Take(retry, m) /\ UNCHANGED <<dlq, unacked, orphan, pc, cur>>
  BY DEF Expire, worker
<1>3. /\ main'[m] > 0 /\ \A k \in Messages : main[k] > 0 => main'[k] > 0
      /\ \A k \in Messages : k # m => retry'[k] = retry[k]
  BY <1>1, <1>2, MoveKeeps
<1> QED
  BY <1>2, <1>3 DEF Held, InQueue, Settling

(* What the broker reads it keeps: there is a rung for every retry.        *)
LEMMA ReadKeeps ==
  ASSUME LadderCoversRetries, TypeInv, WireInv, NEW w \in Workers, ReadFrame(w),
         NEW n \in Notifications, Safe(n)
  PROVE  Safe(n)'
<1> DEFINE f == wire[w][1]
<1>1. /\ 1 \in DOMAIN wire[w] /\ Head(wire[w]) = f
      /\ \A v \in Workers : v # w => wire'[v] = wire[v]
      /\ \A i \in DOMAIN wire[w] :
           i # 1 => i - 1 \in DOMAIN wire'[w] /\ wire'[w][i - 1] = wire[w][i]
  BY ReadFacts DEF TypeInv, TypeOK
<1>2. f.m \in Messages
  BY <1>1, WireFrames DEF TypeInv, TypeOK
<1>3. /\ retry' = IF f.kind = "retry" /\ HasRung(f.m.attempt - 1) THEN Put(retry, f.m) ELSE retry
      /\ dlq' = IF f.kind = "dlq" THEN Put(dlq, f.m) ELSE dlq
      /\ UNCHANGED <<main, unacked, orphan, pc, cur>>
      /\ retry \in Bags /\ dlq \in Bags
  BY <1>1 DEF ReadFrame, Route, worker, TypeInv, TypeOK, BrokerOK
<1>4. f.kind = "retry" => f.m.attempt - 1 \in 1..MaxRetries
  BY <1>1 DEF WireInv, WireOK
<1> HIDE DEF f
<1>r. f.kind = "retry" => HasRung(f.m.attempt - 1)
  <2>1. 1..MaxRetries \subseteq 1..RetryRungs
    BY DeliveryAssumption DEF LadderCoversRetries, DeliveryAssumption
  <2> QED
    BY <1>4, <2>1 DEF HasRung
<1>5. f.kind \in {"retry", "dlq"} => \E m \in Messages : m = f.m /\ InQueue(m)'
  <2>1. f.kind \in {"retry", "dlq"} => retry'[f.m] > 0 \/ dlq'[f.m] > 0
    BY <1>2, <1>3, <1>r, PutKeeps
  <2> QED
    BY <1>2, <2>1 DEF InQueue
<1>6. \A k \in Messages : Held(k) => Held(k)'
  BY <1>2, <1>3, PutKeeps DEF Held, InQueue, Settling
<1>7. ASSUME NEW v \in Workers, NEW k \in {"retry", "dlq"}, OnWire(v, k, n) PROVE Safe(n)'
  <2>1. PICK i \in DOMAIN wire[v] : wire[v][i].kind = k /\ wire[v][i].m.n = n
    BY <1>7 DEF OnWire
  <2>2. CASE v = w /\ i = 1
    <3>1. f.kind = k /\ f.m.n = n
      BY <2>1, <2>2 DEF f
    <3> QED
      BY <1>5, <3>1 DEF Safe, Held
  <2>3. CASE v = w /\ i # 1
    <3>1. OnWire(w, k, n)'
      BY <1>1, <2>1, <2>3 DEF OnWire
    <3> QED
      BY <3>1 DEF Safe, Unread
  <2>4. CASE v # w
    <3>1. OnWire(v, k, n)'
      BY <1>1, <2>1, <2>4 DEF OnWire
    <3> QED
      BY <3>1 DEF Safe, Unread
  <2> QED
    BY <2>2, <2>3, <2>4
<1> QED
  BY <1>6, <1>7 DEF Safe, Unread

(* What was outstanding on a connection is requeued, cut frames or not.    *)
LEMMA FaultKeeps ==
  ASSUME TypeInv, WireInv, Crash \/ \E w \in Workers : LoseConnection(w),
         NEW n \in Notifications, Safe(n)
  PROVE  Safe(n)'
<1> USE DEF TypeInv, TypeOK, BrokerOK
\* The connections that end, and what becomes of the others.
<1>1. ASSUME NEW w \in Workers, orphan'[w] = BagSum(orphan[w], Outstanding(w))
      PROVE  \A m \in Messages : /\ orphan[w][m] > 0 => orphan'[w][m] > 0
                                 /\ Outstanding(w)[m] > 0 => orphan'[w][m] > 0
                                 /\ unacked[w][m] > 0 => orphan'[w][m] > 0
  <2> SUFFICES ASSUME NEW m \in Messages
               PROVE  /\ orphan[w][m] > 0 => orphan'[w][m] > 0
                      /\ Outstanding(w)[m] > 0 => orphan'[w][m] > 0
                      /\ unacked[w][m] > 0 => orphan'[w][m] > 0
    OBVIOUS
  <2>1. orphan[w] \in Bags /\ Outstanding(w) \in Bags
        /\ (unacked[w][m] > 0 => Outstanding(w)[m] > 0)
    BY OutstandingFacts
  <2>2. orphan'[w][m] = orphan[w][m] + Outstanding(w)[m]
    BY <1>1, <2>1, BagFacts
  <2>3. orphan[w][m] \in Nat /\ Outstanding(w)[m] \in Nat
    BY <2>1 DEF Bags
  <2> QED
    BY <2>1, <2>2, <2>3
<1>2. /\ UNCHANGED <<main, retry, dlq>>
      /\ \A v \in Workers :
           \/ orphan'[v] = BagSum(orphan[v], Outstanding(v))
           \/ UNCHANGED <<orphan[v], unacked[v], wire[v], pc[v], cur[v]>>
  <2>1. ASSUME Crash PROVE UNCHANGED <<main, retry, dlq>>
                           /\ \A v \in Workers : orphan'[v] = BagSum(orphan[v], Outstanding(v))
    BY <2>1 DEF Crash
  <2>2. ASSUME NEW w \in Workers, LoseConnection(w)
        PROVE  /\ UNCHANGED <<main, retry, dlq, pc, cur>>
               /\ orphan'[w] = BagSum(orphan[w], Outstanding(w))
               /\ \A v \in Workers : v # w => UNCHANGED <<orphan[v], unacked[v], wire[v]>>
    BY <2>2 DEF LoseConnection, worker
  <2> QED
    BY <2>1, <2>2
<1>3. ASSUME NEW m \in Messages, Held(m) PROVE Held(m)'
  <2>1. \A v \in Workers :
          unacked[v][m] > (IF Settling(v) /\ cur[v] = m THEN 1 ELSE 0) => unacked[v][m] > 0
    <3>1. \A v \in Workers : unacked[v][m] \in Nat
      BY DEF Bags
    <3> QED
      BY <3>1
  <2> QED
    BY <1>1, <1>2, <1>3, <2>1 DEF Held, InQueue, Settling
<1>4. ASSUME NEW v \in Workers, NEW k \in {"retry", "dlq"}, OnWire(v, k, n) PROVE Safe(n)'
  <2>1. CASE orphan'[v] = BagSum(orphan[v], Outstanding(v))
    <3>1. \E m \in Messages : m.n = n /\ Outstanding(v)[m] > 0
      BY <1>4, FrameIsOutstanding
    <3> QED
      BY <1>1, <2>1, <3>1 DEF Safe, Held
  <2>2. CASE UNCHANGED wire[v]
    <3>1. OnWire(v, k, n)'
      BY <1>4, <2>2 DEF OnWire
    <3> QED
      BY <3>1 DEF Safe, Unread
  <2> QED
    BY <1>2, <2>1, <2>2
<1> QED
  BY <1>3, <1>4 DEF Safe, Unread

\* A step of one handler on which the others hold what they held.
LEMMA HandlerKeeps ==
  ASSUME TypeInv, WireInv, NEW w \in Workers, NEW from \in Labels, NEW to \in Labels,
         Step(w, from, to), UNCHANGED <<main, retry, dlq, unacked, orphan>>,
         NEW k \in Messages, Held(k)
  PROVE  Held(k)' \/ (k = cur[w] /\ conn[w] = "up" /\ to \in {"countSuccess", "ack"}
                     /\ from \notin {"countSuccess", "ack"})
<1> USE DEF TypeInv, TypeOK, BrokerOK, WorkerOK, Bags, Settling, Step, Goto
<1>1. UNCHANGED cur /\ pc[w] = from /\ pc'[w] = to /\ \A v \in Workers : v # w => pc'[v] = pc[v]
  OBVIOUS
<1>2. CASE InQueue(k) \/ \E v \in Workers : orphan[v][k] > 0
  BY <1>2 DEF Held, InQueue
<1>3. ASSUME NEW v \in Workers, unacked[v][k] > (IF Settling(v) /\ cur[v] = k THEN 1 ELSE 0)
      PROVE  Held(k)' \/ (k = cur[w] /\ conn[w] = "up" /\ to \in {"countSuccess", "ack"}
                         /\ from \notin {"countSuccess", "ack"})
  <2>1. CASE v # w
    BY <1>1, <1>3, <2>1 DEF Held
  <2>2. CASE v = w
    BY <1>1, <1>3, <2>2 DEF Held, WireInv, WireOK
  <2> QED
    BY <2>1, <2>2
<1> QED
  BY <1>2, <1>3 DEF Held

\* A worker only adds to the frames on its connection.
FramesStay ==
  \A v \in Workers : \A i \in DOMAIN wire[v] : i \in DOMAIN wire'[v] /\ wire'[v][i] = wire[v][i]

LEMMA UnreadStays ==
  ASSUME FramesStay, NEW k, NEW n, Unread(k, n)
  PROVE  Unread(k, n)'
  BY DEF FramesStay, Unread, OnWire

(* A notification may cease to be safe only when a handler starts to       *)
(* settle it, and only on a connection that is up.                         *)
LEMMA SettleKeeps ==
  ASSUME TypeInv, WireInv, NEW w \in Workers, NEW from \in Labels, NEW to \in Labels,
         Step(w, from, to), UNCHANGED <<main, retry, dlq, unacked, orphan>>, FramesStay,
         to \in {"countSuccess", "ack"} /\ from \notin {"countSuccess", "ack"} /\ conn[w] = "up"
           => Safe(cur[w].n)',
         NEW n \in Notifications, Safe(n)
  PROVE  Safe(n)'
<1>1. CASE \E k \in Messages : k.n = n /\ Held(k)
  <2>1. PICK k \in Messages : k.n = n /\ Held(k)
    BY <1>1
  <2>2. Held(k)' \/ (k = cur[w] /\ conn[w] = "up" /\ to \in {"countSuccess", "ack"}
                    /\ from \notin {"countSuccess", "ack"})
    BY <2>1, HandlerKeeps
  <2>3. CASE Held(k)'
    BY <2>1, <2>3 DEF Safe
  <2>4. CASE k = cur[w] /\ conn[w] = "up" /\ to \in {"countSuccess", "ack"}
             /\ from \notin {"countSuccess", "ack"}
    BY <2>1, <2>4 DEF Step, Safe
  <2> QED
    BY <2>2, <2>3, <2>4
<1>2. CASE Unread("retry", n) \/ Unread("dlq", n)
  BY <1>2, UnreadStays DEF Safe
<1> QED
  BY <1>1, <1>2 DEF Safe

(* An ack takes the one delivery that was no longer counted.               *)
LEMMA AckKeeps ==
  ASSUME TypeInv, WireInv, NEW w \in Workers, Ack(w), FramesStay,
         NEW n \in Notifications, Safe(n)
  PROVE  Safe(n)'
<1> USE DEF TypeInv, TypeOK, BrokerOK, Settling
<1>1. /\ pc'[w] = "idle" /\ \A v \in Workers : v # w => UNCHANGED <<pc[v], cur[v]>>
      /\ UNCHANGED <<main, retry, dlq, orphan>>
  BY DEF Ack, Goto, WorkerOK
<1>2. \A v \in Workers : v # w => unacked'[v] = unacked[v]
  BY DEF Ack
<1>3. ASSUME NEW k \in Messages, unacked[w][k] > (IF Settling(w) /\ cur[w] = k THEN 1 ELSE 0)
      PROVE  unacked'[w][k] > 0
  <2>1. conn[w] = "up" /\ cur[w] \in Messages /\ pc[w] = "ack"
    BY <1>3, BusyMessage DEF Ack, WireInv, WireOK
  <2>2. unacked[w][cur[w]] > 0 /\ unacked' = [unacked EXCEPT ![w] = Take(@, cur[w])]
    BY <2>1 DEF Ack, BusyHolds
  <2>3. /\ unacked'[w] = Take(unacked[w], cur[w]) /\ unacked[w] \in Bags
        /\ unacked[w][k] \in Nat /\ unacked[w][k] > 0
        /\ k = cur[w] => unacked[w][k] > 1
    <3>1. unacked'[w] = Take(unacked[w], cur[w]) /\ unacked[w] \in Bags
      BY <2>2
    <3>2. unacked[w][k] \in Nat
      BY <3>1 DEF Bags
    <3>3. (k = cur[w] => unacked[w][k] > 1) /\ (k # cur[w] => unacked[w][k] > 0)
      BY <1>3, <2>1
    <3>4. unacked[w][k] > 0
      BY <3>2, <3>3
    <3> QED
      BY <3>1, <3>2, <3>3, <3>4
  <2>4. /\ Take(unacked[w], cur[w])[cur[w]] = unacked[w][cur[w]] - 1
        /\ k # cur[w] => Take(unacked[w], cur[w])[k] = unacked[w][k]
    <3> HIDE DEF TypeInv, TypeOK, BrokerOK, Settling
    <3> QED
      BY <2>1, <2>2, <2>3, TakeOne
  <2>5. CASE k = cur[w]
    <3>1. unacked'[w][k] = unacked[w][k] - 1 /\ unacked[w][k] \in Nat /\ unacked[w][k] > 1
      BY <2>3, <2>4, <2>5
    <3> QED
      BY <3>1
  <2>6. CASE k # cur[w]
    BY <2>3, <2>4, <2>6
  <2> QED
    BY <2>5, <2>6
<1>4. ASSUME NEW k \in Messages, Held(k) PROVE Held(k)'
  <2>1. CASE InQueue(k) \/ \E v \in Workers : orphan[v][k] > 0
    BY <1>1, <2>1 DEF Held, InQueue
  <2>2. ASSUME NEW v \in Workers, unacked[v][k] > (IF Settling(v) /\ cur[v] = k THEN 1 ELSE 0)
        PROVE  Held(k)'
    <3>1. CASE v = w
      BY <1>1, <1>3, <2>2, <3>1 DEF Held
    <3>2. CASE v # w
      BY <1>1, <1>2, <2>2, <3>2 DEF Held
    <3> QED
      BY <3>1, <3>2
  <2> QED
    BY <1>4, <2>1, <2>2 DEF Held
<1> QED
  BY <1>4, UnreadStays DEF Safe

LEMMA FramesStayOnMessage ==
  ASSUME TypeInv, NEW w \in Workers, OnMessage(w)
  PROVE  /\ FramesStay
         /\ PublishRetry(w) /\ conn[w] = "up" => Unread("retry", cur[w].n)'
         /\ PublishDlq(w) /\ conn[w] = "up" => Unread("dlq", cur[w].n)'
<1>0. cur[w] \in Messages /\ pc[w] # "idle" /\ BrokerOK
  BY HandlerFrame, BusyMessage DEF TypeInv, TypeOK
<1>1. ASSUME NEW k \in {"retry", "dlq", "ack"}, NEW m \in Messages, SendFrame(w, k, m)
      PROVE  FramesStay /\ (conn[w] = "up" /\ m.n = cur'[w].n => Unread(k, cur[w].n)')
  <2>1. /\ FramesStay
        /\ conn[w] = "up" => \E i \in DOMAIN wire'[w] : wire'[w][i] = Frame(k, m)
    BY <1>0, <1>1, SendFacts DEF FramesStay
  <2> QED
    BY <2>1, FrameFields DEF Unread, OnWire
<1>2. [cur[w] EXCEPT !.ch = WorkerChannel[w]] \in Messages
      /\ [cur[w] EXCEPT !.ch = WorkerChannel[w]].n = cur[w].n
  BY <1>0, DeliveryAssumption DEF Messages, DeliveryAssumption
<1>3. PublishRetry(w) => NextAttempt(w) \in Messages /\ NextAttempt(w).n = cur[w].n
  <2> SUFFICES ASSUME PublishRetry(w)
               PROVE  NextAttempt(w) \in Messages /\ NextAttempt(w).n = cur[w].n
    OBVIOUS
  <2>1. pc[w] = "publishRetry" /\ cur[w].n \in Notifications /\ cur[w].attempt \in Attempts
    BY <1>0, BusyMessage DEF PublishRetry, Step, TypeInv
  <2>2. cur[w].attempt + 1 \in Attempts
    BY <2>1, DeliveryAssumption
       DEF TypeInv, RetryAllowed, Exhausted, Attempts, DeliveryAssumption
  <2> QED
    BY <2>1, <2>2, MessageFields, DeliveryAssumption DEF NextAttempt, DeliveryAssumption
<1>4. CASE PublishRetry(w)
  <2>1. SendFrame(w, "retry", NextAttempt(w)) /\ UNCHANGED cur /\ ~PublishDlq(w)
    BY <1>4 DEF PublishRetry, PublishDlq, Step
  <2> QED
    BY <1>1, <1>3, <1>4, <2>1
<1>5. CASE PublishDlq(w)
  <2>1. SendFrame(w, "dlq", [cur[w] EXCEPT !.ch = WorkerChannel[w]]) /\ UNCHANGED cur
        /\ ~PublishRetry(w)
    BY <1>5 DEF PublishRetry, PublishDlq, Step
  <2> QED
    BY <1>1, <1>2, <1>5, <2>1
<1>6. CASE Ack(w)
  <2>1. SendFrame(w, "ack", cur[w]) /\ ~PublishRetry(w) /\ ~PublishDlq(w)
    BY <1>6 DEF Ack, PublishRetry, PublishDlq, Step
  <2> QED
    BY <1>0, <1>1, <2>1
<1>7. CASE ~PublishRetry(w) /\ ~PublishDlq(w) /\ ~Ack(w)
  BY <1>7, HandlerFrame DEF FramesStay
<1> QED
  BY <1>4, <1>5, <1>6, <1>7

(* A handler keeps every notification safe, except the one that it finds   *)
(* finished or has marked SENT.                                            *)
LEMMA KeptOrSettled ==
  ASSUME TypeInv, WireInv, NEW w \in Workers, OnMessage(w), NEW n \in Notifications, Safe(n)
  PROVE  \/ Safe(n)'
         \/ n = cur[w].n /\ (MarkSent(w) \/ (Find(w) /\ status[n] \in Skipped))
<1> USE DEF Labels
<1>0. /\ FramesStay
      /\ PublishRetry(w) /\ conn[w] = "up" => Safe(cur[w].n)'
  BY FramesStayOnMessage DEF Safe
<1>1. CASE Ack(w)
  BY <1>0, <1>1, AckKeeps
\* The two steps that let go of a message, but of no other.
<1>2. ASSUME NEW from \in Labels, NEW to \in Labels, Step(w, from, to), UNCHANGED broker, n # cur[w].n
      PROVE  Safe(n)'
  <2>1. ASSUME NEW k \in Messages, k.n = n, Held(k) PROVE Held(k)'
    BY <1>2, <2>1, HandlerKeeps DEF broker
  <2> QED
    BY <1>0, <2>1, UnreadStays DEF Safe
<1>3. CASE Find(w)
  <2>1. /\ Step(w, "find", "ack") \/ Step(w, "find", "markProcessing")
        /\ UNCHANGED broker
    BY <1>3 DEF Find, Statement
  <2>2. CASE n # cur[w].n
    BY <1>2, <2>1, <2>2
  <2>3. CASE status[cur[w].n] \notin Skipped
    BY <1>0, <1>3, <2>3, SettleKeeps DEF Find, Statement, broker
  <2> QED
    BY <1>3, <2>2, <2>3
<1>4. CASE MarkSent(w)
  BY <1>2, <1>4 DEF MarkSent, Statement
<1>5. CASE \/ MarkProcessing(w) \/ RecordSuccess(w) \/ RecordRetry(w) \/ RecordDead(w)
           \/ \E f \in {"transient", "permanent"} : SendFails(w, f)
  BY <1>0, <1>5, SettleKeeps DEF MarkProcessing, RecordSuccess, RecordRetry, RecordDead, SendFails,
     Statement, broker
<1>6. CASE SendSucceeds(w) \/ CountSuccess(w)
  BY <1>0, <1>6, SettleKeeps DEF SendSucceeds, CountSuccess, Statement, broker
<1>7. CASE CountFailure(w)
  BY <1>0, <1>7, SettleKeeps DEF CountFailure, Statement, broker
<1>8. CASE PublishRetry(w)
  BY <1>0, <1>8, SettleKeeps DEF PublishRetry
<1>9. CASE PublishDlq(w)
  BY <1>0, <1>9, SettleKeeps DEF PublishDlq
<1>10. CASE MarkDead(w)
  <2>1. UNCHANGED <<dlq, wire, cur>> /\ pc[w] = "markDead"
    BY <1>10 DEF MarkDead, Statement, Step, broker
  <2>2. conn[w] = "up" => Parked(cur[w].n) \/ OnWire(w, "dlq", cur[w].n)
    BY <2>1 DEF WireInv, WireOK
  <2>3. conn[w] = "up" => Safe(cur[w].n)'
    BY <2>1, <2>2 DEF Safe, Held, InQueue, Parked, Unread, OnWire
  <2> QED
    BY <1>0, <1>10, <2>3, SettleKeeps DEF MarkDead, Statement, broker
<1> QED
  BY <1>1, <1>3, <1>4, <1>5, <1>6, <1>7, <1>8, <1>9, <1>10 DEF OnMessage

\* What the provider accepted stays accepted.
LEMMA AcceptedStays ==
  ASSUME TypeInv, NEW w \in Workers, OnMessage(w), NEW n \in Notifications, accepted[n] > 0
  PROVE  accepted'[n] > 0
<1>1. CASE SendSucceeds(w)
  BY <1>1 DEF SendSucceeds, TypeInv, TypeOK, CountersOK
<1>2. CASE ~SendSucceeds(w)
  BY <1>2, HandlerFrame
<1> QED
  BY <1>1, <1>2

\* A published notification is safe, or the provider has accepted it and, while
\* no connection broke, its row says so.
Accounted ==
  \A n \in Notifications : published[n] > 0 =>
    \/ Safe(n)
    \/ accepted[n] > 0 /\ (losses = 0 => status[n] = "SENT")

LEMMA AccountedOnMessage ==
  ASSUME TypeInv, SuccessInv, PublishedInv, WireInv, Accounted, NEW w \in Workers, OnMessage(w)
  PROVE  Accounted'
<1> SUFFICES ASSUME NEW n \in Notifications, published[n] > 0
             PROVE  Safe(n)' \/ (accepted'[n] > 0 /\ (losses = 0 => status'[n] = "SENT"))
  BY HandlerFrame DEF Accounted, history
<1>0. /\ pc[w] # "idle" /\ cur[w] \in Messages /\ cur[w].n \in Notifications
      /\ status \in [Notifications -> Statuses] /\ FramesStay
  BY HandlerFrame, BusyMessage, FramesStayOnMessage DEF TypeInv, TypeOK, DbOK
<1>1. CASE Safe(n)
  <2>1. \/ Safe(n)'
        \/ n = cur[w].n /\ (MarkSent(w) \/ (Find(w) /\ status[n] \in Skipped))
    BY <1>1, KeptOrSettled
  <2>2. CASE Find(w) /\ status[n] \in Skipped
    <3>1. status[n] = "SENT"
      BY <2>2 DEF Skipped, PublishedInv, PublishedHasRow
    <3> QED
      BY <2>2, <3>1, AcceptedStays DEF SuccessInv, SuccessIsReal, Find, db
  <2>3. CASE MarkSent(w) /\ n = cur[w].n
    <3>1. accepted[n] > 0
      BY <2>3 DEF MarkSent, Statement, Step, SuccessInv, AcceptedFirst
    <3>2. status'[n] = "SENT"
      BY <1>0, <2>3 DEF MarkSent, Mark
    <3> QED
      BY <3>1, <3>2, AcceptedStays
  <2> QED
    BY <2>1, <2>2, <2>3
<1>2. CASE accepted[n] > 0 /\ (losses = 0 => status[n] = "SENT")
  <2>1. accepted'[n] > 0
    BY <1>2, AcceptedStays
  \* The row that is SENT gets another status: its copy is still there.
  <2>2. ASSUME losses = 0, status'[n] # "SENT" PROVE Safe(n)'
    <3>1. status[n] = "SENT" /\ conn[w] = "up"
      BY <1>2, <2>2 DEF WireInv, WireOK, TypeInv, TypeOK, BrokerOK
    <3>2. n = cur[w].n /\ (MarkProcessing(w) \/ MarkDead(w))
      BY <1>0, <2>2, <3>1, HandlerFrame DEF MarkProcessing, MarkSent, MarkDead, Mark
    <3>3. CASE MarkProcessing(w)
      <4>1. pc'[w] = "send" /\ UNCHANGED <<cur, unacked>>
        BY <3>3 DEF MarkProcessing, Statement, Step, Goto, broker, TypeInv, TypeOK, WorkerOK
      <4>2. unacked[w][cur[w]] > 0
        BY <1>0, <3>1 DEF TypeInv, TypeOK, BusyHolds
      <4>3. Held(cur[w])'
        BY <1>0, <4>1, <4>2 DEF Held, Settling
      <4> QED
        BY <1>0, <3>2, <4>1, <4>3 DEF Safe
    <3>4. CASE MarkDead(w)
      <4>1. UNCHANGED <<dlq, wire, cur>> /\ pc[w] = "markDead"
        BY <3>4 DEF MarkDead, Statement, Step, broker
      <4>2. Parked(n) \/ OnWire(w, "dlq", n)
        BY <3>1, <3>2, <4>1 DEF WireInv, WireOK
      <4> QED
        BY <4>1, <4>2 DEF Safe, Held, InQueue, Parked, Unread, OnWire
    <3> QED
      BY <3>2, <3>3, <3>4
  <2> QED
    BY <2>1, <2>2
<1> QED
  BY <1>1, <1>2 DEF Accounted

LEMMA LossesGrow ==
  ASSUME TypeInv, [Next]_vars
  PROVE  losses > 0 => losses' > 0
<1>1. UNCHANGED losses \/ \E w \in Workers : LoseConnection(w)
  BY HandlerFrame DEF Next, Environment, System, Post, Forget, Crash, Publish, Expire, Deliver,
     Requeue, Receive, ReadFrame, vars, history
<1>2. losses \in Nat
  BY DEF TypeInv, TypeOK, CountersOK
<1> QED
  BY <1>1, <1>2 DEF LoseConnection

LEMMA AccountedInvariant ==
  ASSUME LadderCoversRetries
  PROVE  Spec => []Accounted
<1>1. Init => Accounted
  BY DEF Init, Accounted
<1>2. /\ TypeInv /\ SuccessInv /\ PublishedInv /\ WireInv /\ Accounted /\ [Next]_vars
      => Accounted'
  <2> SUFFICES ASSUME TypeInv, SuccessInv, PublishedInv, WireInv, Accounted, [Next]_vars
               PROVE  Accounted'
    OBVIOUS
  <2>0. losses \in Nat /\ losses' \in Nat /\ (losses > 0 => losses' > 0)
    <3>1. losses \in Nat /\ (UNCHANGED losses \/ losses' = losses + 1)
      BY HandlerFrame DEF Next, Environment, System, Post, Forget, Crash, Publish, Expire, Deliver,
         Requeue, Receive, ReadFrame, LoseConnection, vars, history, TypeInv, TypeOK, CountersOK
    <3> QED
      BY <3>1, LossesGrow
  \* The steps outside onMessage accept nothing and unmark nothing.
  <2>1. ASSUME \A n \in Notifications : Safe(n) => Safe(n)',
               \A n \in Notifications : published'[n] = published[n] \/ Safe(n)',
               UNCHANGED accepted,
               \A n \in Notifications : status[n] = "SENT" => status'[n] = "SENT"
        PROVE  Accounted'
    BY <2>0, <2>1 DEF Accounted
  <2>2. ASSUME NEW n \in Notifications, NEW c \in Channels, Post(n, c) PROVE Accounted'
    <3>1. UNCHANGED <<main, retry, dlq, unacked, orphan, wire, pc, cur, published, accepted>>
      BY <2>2 DEF Post, broker, worker, history
    <3>2. \A k \in Notifications : status[k] = "SENT" => status'[k] = "SENT"
      BY <2>2 DEF Post, InsertWithOutbox, TypeInv, TypeOK, DbOK
    <3>3. \A k \in Messages : Held(k) => Held(k)'
      BY <3>1 DEF Held, InQueue, Settling
    <3> QED
      BY <2>1, <3>1, <3>2, <3>3, KeptIsSafe
  <2>3. CASE Forget \/ UNCHANGED vars
    <3>1. UNCHANGED <<main, retry, dlq, unacked, orphan, wire, pc, cur, published, accepted, status>>
      BY <2>3 DEF Forget, vars, db, broker, worker, history
    <3>2. \A k \in Messages : Held(k) => Held(k)'
      BY <3>1 DEF Held, InQueue, Settling
    <3> QED
      BY <2>1, <3>1, <3>2, KeptIsSafe
  <2>4. ASSUME NEW n \in Notifications, Publish(n) PROVE Accounted'
    <3> DEFINE m == [ch |-> channel[n], n |-> n, attempt |-> 1]
    <3>1. m \in Messages /\ m.n = n
      BY <2>4, DeliveryAssumption, MessageFields
         DEF Publish, OwedHasRow, TypeInv, TypeOK, DeliveryAssumption, Attempts
    <3>2. main \in Bags /\ main' = Put(main, m)
      BY <2>4 DEF Publish, TypeInv, TypeOK, BrokerOK
    <3> HIDE DEF m
    <3>3. main'[m] > 0 /\ \A k \in Messages : main[k] > 0 => main'[k] > 0
      BY <3>1, <3>2, PutKeeps
    <3>4. UNCHANGED <<retry, dlq, unacked, orphan, wire, pc, cur, accepted, status>>
          /\ \A k \in Notifications : k # n => published'[k] = published[k]
      BY <2>4 DEF Publish, worker, db, TypeInv, TypeOK, CountersOK
    <3>5. \A k \in Messages : Held(k) => Held(k)'
      BY <3>3, <3>4 DEF Held, InQueue, Settling
    <3>6. Safe(n)'
      BY <3>1, <3>3 DEF Safe, Held, InQueue
    <3> QED
      BY <2>1, <3>4, <3>5, <3>6, KeptIsSafe
  <2>5. ASSUME NEW m \in Messages, Expire(m) PROVE Accounted'
    BY <2>1, <2>5, ExpireKeeps, KeptIsSafe DEF Expire, history, db
  <2>6. ASSUME NEW w \in Workers, NEW m \in Messages, Deliver(w, m) PROVE Accounted'
    BY <2>1, <2>6, DeliverKeeps, KeptIsSafe DEF Deliver, history, db
  <2>7. ASSUME NEW w \in Workers, NEW m \in Messages, Requeue(w, m) PROVE Accounted'
    BY <2>1, <2>7, RequeueKeeps, KeptIsSafe DEF Requeue, db
  <2>8. ASSUME NEW w \in Workers, NEW m \in Messages, Receive(w, m) PROVE Accounted'
    <3>1. /\ pc[w] = "idle" /\ pc'[w] = "find"
          /\ UNCHANGED <<main, retry, dlq, unacked, orphan, wire, published, accepted, status>>
          /\ \A v \in Workers : v # w => UNCHANGED <<pc[v], cur[v]>>
      BY <2>8 DEF Receive, Goto, broker, history, db, TypeInv, TypeOK, WorkerOK
    <3>2. \A k \in Messages : Held(k) => Held(k)'
      BY <3>1 DEF Held, InQueue, Settling
    <3> QED
      BY <2>1, <3>1, <3>2, KeptIsSafe
  <2>9. ASSUME NEW w \in Workers, ReadFrame(w) PROVE Accounted'
    BY <2>1, <2>9, ReadKeeps DEF ReadFrame, history, db
  <2>10. CASE Crash \/ \E w \in Workers : LoseConnection(w)
    <3>1. UNCHANGED <<published, accepted, status>>
      BY <2>10 DEF Crash, LoseConnection, db
    <3> QED
      BY <2>1, <2>10, <3>1, FaultKeeps
  <2>11. ASSUME NEW w \in Workers, OnMessage(w) PROVE Accounted'
    BY <2>11, AccountedOnMessage
  <2> QED
    BY <2>2, <2>3, <2>4, <2>5, <2>6, <2>7, <2>8, <2>9, <2>10, <2>11 DEF Next, Environment, System
<1> QED
  BY <1>1, <1>2, TypeInvariant, SuccessInvariant, PublishedInvariant, WireInvariant, PTL DEF Spec

(* At-least-once.  If the ladder has a rung for every retry, a published   *)
(* notification has been accepted by the provider or is in the broker, for *)
(* any number of crashes and lost connections, wherever they cut the       *)
(* frames of the workers.                                                  *)
THEOREM AtLeastOnce ==
  ASSUME LadderCoversRetries
  PROVE  Spec => []NoLoss
<1>1. TypeInv /\ WireInv /\ Accounted => NoLoss
  BY SafeIsInBroker DEF Accounted, NoLoss
<1> QED
  BY <1>1, TypeInvariant, WireInvariant, AccountedInvariant, PTL

(* While connections are intact, a crash or a competing copy never leaves  *)
(* a published row in PENDING, PROCESSING or DEAD_LETTERED without a copy  *)
(* of its message, if the ladder has a rung for every retry.               *)
THEOREM UnsentFindable ==
  ASSUME LadderCoversRetries
  PROVE  Spec => []UnsentIsInBroker
<1>1. TypeInv /\ WireInv /\ Accounted => UnsentIsInBroker
  BY SafeIsInBroker DEF Accounted, UnsentIsInBroker
<1> QED
  BY <1>1, TypeInvariant, WireInvariant, AccountedInvariant, PTL

-----------------------------------------------------------------------------
(* A row that says DEAD_LETTERED.                                          *)

\* As long as the frame of a parked message is not cut, it is on its way or there.
ParkedOrOnItsWay ==
  crashes = 0 /\ losses = 0 =>
    \A n \in Notifications : status[n] = "DEAD_LETTERED" => Parked(n) \/ Unread("dlq", n)

\* Nothing here consumes a DLQ.
LEMMA ParkedStays ==
  ASSUME TypeInv, WireInv, [Next]_vars, crashes' = 0, losses' = 0,
         NEW n \in Notifications, Parked(n) \/ Unread("dlq", n)
  PROVE  Parked(n)' \/ Unread("dlq", n)'
<1>1. ASSUME NEW w \in Workers, ReadFrame(w) PROVE Parked(n)' \/ Unread("dlq", n)'
  <2> DEFINE f == wire[w][1]
  <2>1. /\ 1 \in DOMAIN wire[w] /\ Head(wire[w]) = f
        /\ \A v \in Workers : v # w => wire'[v] = wire[v]
        /\ \A i \in DOMAIN wire[w] :
             i # 1 => i - 1 \in DOMAIN wire'[w] /\ wire'[w][i - 1] = wire[w][i]
    BY <1>1, ReadFacts DEF TypeInv, TypeOK
  <2>2. f.m \in Messages
    BY <2>1, WireFrames DEF TypeInv, TypeOK
  <2>3. dlq' = (IF f.kind = "dlq" THEN Put(dlq, f.m) ELSE dlq) /\ dlq \in Bags
    BY <1>1, <2>1 DEF ReadFrame, Route, TypeInv, TypeOK, BrokerOK
  <2> HIDE DEF f
  <2>4. CASE Parked(n)
    BY <2>2, <2>3, <2>4, PutKeeps DEF Parked
  <2>5. ASSUME NEW v \in Workers, NEW i \in DOMAIN wire[v],
               wire[v][i].kind = "dlq", wire[v][i].m.n = n
        PROVE  Parked(n)' \/ Unread("dlq", n)'
    <3>1. CASE v = w /\ i = 1
      <4>1. f.kind = "dlq" /\ f.m.n = n
        BY <2>5, <3>1 DEF f
      <4> QED
        BY <2>2, <2>3, <4>1, PutKeeps DEF Parked
    <3>2. CASE v = w /\ i # 1
      BY <2>1, <2>5, <3>2 DEF Unread, OnWire
    <3>3. CASE v # w
      BY <2>1, <2>5, <3>3 DEF Unread, OnWire
    <3> QED
      BY <3>1, <3>2, <3>3
  <2> QED
    BY <2>4, <2>5 DEF Unread, OnWire
<1>2. ASSUME NEW w \in Workers, OnMessage(w) PROVE Parked(n)' \/ Unread("dlq", n)'
  <2>1. FramesStay /\ UNCHANGED dlq
    BY <1>2, FramesStayOnMessage, HandlerFrame
  <2> QED
    BY <2>1, UnreadStays DEF Parked
<1>3. CASE UNCHANGED <<dlq, wire>>
  BY <1>3 DEF Parked, Unread, OnWire
<1>4. ~Crash /\ ~\E w \in Workers : LoseConnection(w)
  <2>1. crashes \in Nat /\ losses \in Nat
    BY DEF TypeInv, TypeOK, CountersOK
  <2> QED
    BY <2>1 DEF Crash, LoseConnection
<1> QED
  BY <1>1, <1>2, <1>3, <1>4 DEF Next, Environment, System, Post, Forget, Publish, Expire, Deliver,
     Requeue, Receive, vars, broker

LEMMA ParkedInvariant == Spec => []ParkedOrOnItsWay
<1>1. Init => ParkedOrOnItsWay
  BY DEF Init, ParkedOrOnItsWay
<1>2. TypeInv /\ WireInv /\ ParkedOrOnItsWay /\ [Next]_vars => ParkedOrOnItsWay'
  <2> SUFFICES ASSUME TypeInv, WireInv, ParkedOrOnItsWay, [Next]_vars, crashes' = 0, losses' = 0,
                      NEW n \in Notifications, status'[n] = "DEAD_LETTERED"
               PROVE  Parked(n)' \/ Unread("dlq", n)'
    BY DEF ParkedOrOnItsWay
  <2>1. crashes = 0 /\ losses = 0
    <3>1. crashes \in Nat /\ losses \in Nat
      BY DEF TypeInv, TypeOK, CountersOK
    <3>2. UNCHANGED crashes \/ crashes' = crashes + 1
      BY HandlerFrame DEF Next, Environment, System, Post, Forget, Crash, Publish, Expire, Deliver,
         Requeue, Receive, ReadFrame, LoseConnection, vars, history
    <3> QED
      BY <3>1, <3>2, LossesGrow
  <2>2. CASE status[n] = "DEAD_LETTERED"
    BY <2>1, <2>2, ParkedStays DEF ParkedOrOnItsWay
  <2>3. ASSUME NEW w \in Workers, MarkDead(w), cur[w].n = n PROVE Parked(n)' \/ Unread("dlq", n)'
    <3>1. pc[w] = "markDead" /\ conn[w] = "up" /\ UNCHANGED <<dlq, wire>>
      BY <2>1, <2>3
         DEF MarkDead, Statement, Step, broker, WireInv, WireOK, TypeInv, TypeOK, BrokerOK
    <3> QED
      BY <2>3, <3>1 DEF WireInv, WireOK, Parked, Unread, OnWire
  <2>4. CASE status[n] # "DEAD_LETTERED"
    <3>1. \E w \in Workers : MarkDead(w) /\ cur[w].n = n
      <4>1. ASSUME NEW w \in Workers, OnMessage(w)
            PROVE  MarkDead(w) /\ cur[w].n = n
        <5>1. cur[w].n \in Notifications /\ status \in [Notifications -> Statuses]
          BY <4>1, HandlerFrame, BusyMessage DEF TypeInv, TypeOK, DbOK
        <5>2. MarkProcessing(w) \/ MarkSent(w) \/ MarkDead(w)
          BY <2>4, <4>1, HandlerFrame
        <5> QED
          BY <2>4, <5>1, <5>2 DEF MarkProcessing, MarkSent, MarkDead, Mark
      <4>2. \E w \in Workers : OnMessage(w)
        BY <2>4 DEF Next, Environment, System, Post, InsertWithOutbox, Forget, LoseConnection,
           Crash, Publish, Expire, Deliver, Requeue, Receive, ReadFrame, vars, db,
           TypeInv, TypeOK, DbOK
      <4> QED
        BY <4>1, <4>2
    <3> QED
      BY <2>3, <3>1
  <2> QED
    BY <2>2, <2>4
<1> QED
  BY <1>1, <1>2, TypeInvariant, WireInvariant, PTL DEF Spec

(* As long as no connection of a worker broke, a row that is DEAD_LETTERED *)
(* has its message in a DLQ or on the way to it, or, after a crash that    *)
(* cut its frame, a copy in the broker that will be worked on again.       *)
THEOREM DeadLetteredFindable ==
  ASSUME LadderCoversRetries
  PROVE  Spec => []DeadLetteredIsParked
<1>1. TypeInv /\ WireInv /\ PublishedInv /\ Accounted /\ ParkedOrOnItsWay => DeadLetteredIsParked
  <2> SUFFICES ASSUME TypeInv, WireInv, PublishedInv, Accounted, ParkedOrOnItsWay, losses = 0,
                      NEW n \in Notifications, status[n] = "DEAD_LETTERED"
               PROVE  Parked(n) \/ Unread("dlq", n) \/ (crashes > 0 /\ InBroker(n))
    BY DEF DeadLetteredIsParked
  <2>1. CASE crashes = 0
    BY <2>1 DEF ParkedOrOnItsWay
  <2>2. CASE crashes # 0
    <3>1. crashes > 0
      BY <2>2 DEF TypeInv, TypeOK, CountersOK
    <3>2. Safe(n)
      BY DEF PublishedInv, Accounted
    <3> QED
      BY <3>1, <3>2, SafeIsInBroker
  <2> QED
    BY <2>1, <2>2
<1> QED
  BY <1>1, TypeInvariant, WireInvariant, PublishedInvariant, AccountedInvariant, ParkedInvariant, PTL
=============================================================================
