-------------------------- MODULE SubmissionProofs --------------------------
(***************************************************************************)
(* Proofs about Submission, for any requests, keys, threads and faults.    *)
(***************************************************************************)
EXTENDS Submission, FiniteSetTheorems, TLAPS

-----------------------------------------------------------------------------
(* Types.                                                                  *)

LEMMA TypeInit == Init => TypeOK
<1> SUFFICES ASSUME Init PROVE TypeOK
  OBVIOUS
<1>1. broken \in BOOLEAN
  BY DEF Init
<1>2. \A r \in Requests : pc[r] = "new" /\ answer[r] = "none"
  BY DEF Init
<1> QED
  BY <1>1, <1>2 DEF Init, TypeOK, Labels

LEMMA TypeNext == TypeOK /\ [Next]_vars => TypeOK'
<1> SUFFICES ASSUME TypeOK, [Next]_vars PROVE TypeOK'
  OBVIOUS
<1> USE SubmissionAssumption DEF SubmissionAssumption, TypeOK, Labels, Step, db, amqp, bounds
<1>1. CASE UNCHANGED vars
  BY <1>1 DEF vars
<1>2. ASSUME NEW r \in Requests, Receive(r) PROVE TypeOK'
  BY <1>2 DEF Receive
<1>3. ASSUME NEW r \in Requests, Find(r) PROVE TypeOK'
  BY <1>3 DEF Find
<1>4. ASSUME NEW r \in Requests, InsertNotification(r) PROVE TypeOK'
  BY <1>4 DEF InsertNotification
<1>5. ASSUME NEW r \in Requests, InsertOutbox(r) PROVE TypeOK'
  BY <1>5 DEF InsertOutbox
<1>6. ASSUME NEW r \in Requests, Commit(r) PROVE TypeOK'
  BY <1>6 DEF Commit
<1>7. ASSUME NEW r \in Requests, SqlFails(r) PROVE TypeOK'
  BY <1>7 DEF SqlFails
<1>8. ASSUME NEW r \in Requests, BeginPublish(r) PROVE TypeOK'
  BY <1>8 DEF BeginPublish
<1>9. ASSUME NEW r \in Requests, EndPublish(r) PROVE TypeOK'
  BY <1>9 DEF EndPublish
<1>10. ASSUME NEW r \in Requests, Garble(r) PROVE TypeOK'
  BY <1>10 DEF Garble, Break
<1>11. ASSUME NEW r \in Requests, Respond(r) PROVE TypeOK'
  BY <1>11 DEF Respond, Answer
<1>12. ASSUME NEW r \in Requests, Refuse(r) PROVE TypeOK'
  BY <1>12 DEF Refuse, Answer
<1>13. CASE ReadConfirm
  BY <1>13 DEF ReadConfirm
<1>14. CASE LosePublisher
  BY <1>14 DEF LosePublisher, Break
<1>15. CASE Crash
  BY <1>15 DEF Crash, Running
<1>16. ASSUME NEW r \in Requests, ReadMessage(r) PROVE TypeOK'
  BY <1>16 DEF ReadMessage
<1> QED
  BY <1>1, <1>2, <1>3, <1>4, <1>5, <1>6, <1>7, <1>8, <1>9, <1>10, <1>11, <1>12, <1>13,
     <1>14, <1>15, <1>16 DEF Next, Handle

(* Every variable keeps its range, and a handler that publishes or answers *)
(* 202 has a notification.                                                 *)
THEOREM TypeCorrect == Spec => []TypeOK
  BY TypeInit, TypeNext, PTL DEF Spec

-----------------------------------------------------------------------------
(* One row for each key, which all its requests are given.                 *)

Inserting(r) == pc[r] \in {"insertOutbox", "commit"}

\* One row for a key, and none while a transaction is inserting one.
KeysUnique ==
  /\ \A x, y \in rows : KeyOf[x] = KeyOf[y] => x = y
  /\ \A r \in Requests : Inserting(r) =>
       /\ \A x \in rows : KeyOf[x] # KeyOf[r]
       /\ \A q \in Requests : Inserting(q) /\ KeyOf[q] = KeyOf[r] => q = r

\* What a handler was given is a committed row of its key, and its message is
\* written and read at most once and only after that.
SavedRow ==
  /\ \A r \in Requests : saved[r] # NoRow => saved[r] \in rows /\ KeyOf[saved[r]] = KeyOf[r]
  /\ \A r \in sent \cup wire : pc[r] \in {"respond", "done", "gone"} /\ saved[r] # NoRow
  /\ sent \cap wire = {}

KeyInv == TypeOK /\ KeysUnique /\ SavedRow

LEMMA KeysUniqueNext == TypeOK /\ KeysUnique /\ [Next]_vars => KeysUnique'
<1> SUFFICES ASSUME TypeOK, KeysUnique, [Next]_vars PROVE KeysUnique'
  OBVIOUS
<1> USE DEF KeysUnique, Inserting, TypeOK
\* Steps that add no row and start no insertion.
<1>1. ASSUME UNCHANGED rows, \A r \in Requests : Inserting(r)' => Inserting(r)
      PROVE  KeysUnique'
  BY <1>1
<1>2. ASSUME NEW r \in Requests, InsertNotification(r) PROVE KeysUnique'
  <2>1. CASE \E x \in rows : KeyOf[x] = KeyOf[r]
    BY <1>1, <1>2, <2>1 DEF InsertNotification, Step, db
  <2>2. CASE ~\E x \in rows : KeyOf[x] = KeyOf[r]
    <3>1. /\ UNCHANGED rows /\ \A q \in Requests : Inserting(q) => KeyOf[q] # KeyOf[r]
          /\ \A q \in Requests : q # r => pc'[q] = pc[q]
      BY <1>2 DEF InsertNotification, Step, db, Locked
    <3> QED
      BY <2>2, <3>1
  <2> QED
    BY <2>1, <2>2
\* Steps that end an insertion and may add its row.
<1>3. ASSUME NEW r \in Requests, Inserting(r), pc' = [pc EXCEPT ![r] = "publish"]
                                              \/ pc' = [pc EXCEPT ![r] = "failed"],
             rows' = rows \cup {r}
      PROVE  KeysUnique'
  BY <1>3
<1>4. ASSUME NEW r \in Requests, SqlFails(r) PROVE KeysUnique'
  BY <1>1, <1>3, <1>4 DEF SqlFails, Step, db
<1>5. ASSUME NEW r \in Requests, Commit(r) PROVE KeysUnique'
  BY <1>3, <1>5 DEF Commit, Step
<1>6. ASSUME NEW r \in Requests,
             Receive(r) \/ Find(r) \/ InsertOutbox(r) \/ BeginPublish(r) \/ EndPublish(r)
             \/ Garble(r) \/ Respond(r) \/ Refuse(r)
      PROVE  KeysUnique'
  BY <1>1, <1>6 DEF Receive, Find, InsertOutbox, BeginPublish, EndPublish, Garble, Respond,
     Refuse, Step, db
<1>7. CASE ReadConfirm \/ LosePublisher \/ Crash \/ UNCHANGED vars
  BY <1>1, <1>7 DEF ReadConfirm, LosePublisher, Crash, Running, db, vars
<1>8. ASSUME NEW r \in Requests, ReadMessage(r) PROVE KeysUnique'
  BY <1>1, <1>8 DEF ReadMessage, db
<1> QED
  BY <1>2, <1>4, <1>5, <1>6, <1>7, <1>8 DEF Next, Handle

LEMMA SavedRowNext == TypeOK /\ SavedRow /\ [Next]_vars => SavedRow'
<1> SUFFICES ASSUME TypeOK, SavedRow, [Next]_vars PROVE SavedRow'
  OBVIOUS
<1> USE DEF SavedRow, TypeOK, Step
<1>1. ASSUME NEW r \in Requests, Find(r) \/ Commit(r) PROVE SavedRow'
  BY <1>1 DEF Find, Commit, db, amqp
<1>2. ASSUME NEW r \in Requests, EndPublish(r) PROVE SavedRow'
  BY <1>2 DEF EndPublish, db
<1>3. ASSUME NEW r \in Requests, SqlFails(r) PROVE SavedRow'
  BY <1>3 DEF SqlFails, db, amqp
<1>4. ASSUME NEW r \in Requests,
             Receive(r) \/ InsertNotification(r) \/ InsertOutbox(r) \/ BeginPublish(r)
             \/ Respond(r) \/ Refuse(r)
      PROVE  SavedRow'
  BY <1>4 DEF Receive, InsertNotification, InsertOutbox, BeginPublish, Respond, Refuse,
     db, amqp
<1>5. CASE ReadConfirm \/ LosePublisher \/ UNCHANGED vars
  BY <1>5 DEF ReadConfirm, LosePublisher, Break, db, vars
<1>6. CASE Crash
  BY <1>6 DEF Crash, Running, db
<1>7. ASSUME NEW r \in Requests, Garble(r) PROVE SavedRow'
  BY <1>7 DEF Garble, Break, db
<1>8. ASSUME NEW r \in Requests, ReadMessage(r) PROVE SavedRow'
  BY <1>8 DEF ReadMessage, db
<1> QED
  BY <1>1, <1>2, <1>3, <1>4, <1>5, <1>6, <1>7, <1>8 DEF Next, Handle

LEMMA KeyInvariant == Spec => []KeyInv
<1>1. Init => KeysUnique /\ SavedRow
  BY DEF Init, KeysUnique, SavedRow, Inserting
<1> QED
  BY <1>1, TypeInit, TypeNext, KeysUniqueNext, SavedRowNext, PTL DEF Spec, KeyInv

(* However requests for one key race, crash or fail, they are all given    *)
(* the same notification, and it exists.                                   *)
THEOREM OneNotification == Spec => []AnswersAgree
<1>1. KeyInv => AnswersAgree
  BY DEF KeyInv, TypeOK, KeysUnique, SavedRow, AnswersAgree
<1> QED
  BY <1>1, KeyInvariant, PTL

-----------------------------------------------------------------------------
(* What clients are told, and what faults leave behind.                    *)

\* A row is there only when its handler is past the transaction.
RowsMade ==
  \A x \in rows : pc[x] \notin {"new", "find", "insert", "insertOutbox", "commit"}

AnsweredIsDone == \A r \in Requests : answer[r] # "none" => pc[r] = "done"

\* A connection that never broke is up.
UpUnlessBroken == ~broken => publisher = "up"

\* The actions of a handler that change neither rows nor messages.
Plain(r) ==
  Receive(r) \/ InsertNotification(r) \/ InsertOutbox(r) \/ BeginPublish(r) \/ Respond(r)
  \/ Refuse(r)

LEMMA RowsMadeNext == TypeOK /\ RowsMade /\ [Next]_vars => RowsMade'
<1> SUFFICES ASSUME TypeOK, RowsMade, [Next]_vars PROVE RowsMade'
  OBVIOUS
<1> USE DEF RowsMade, TypeOK, Step
<1>1. ASSUME NEW r \in Requests, Plain(r) PROVE RowsMade'
  BY <1>1 DEF Plain, Receive, InsertNotification, InsertOutbox, BeginPublish, Respond, Refuse, db
<1>2. ASSUME NEW r \in Requests, Find(r) \/ EndPublish(r) \/ Garble(r) PROVE RowsMade'
  BY <1>2 DEF Find, EndPublish, Garble, db
<1>3. ASSUME NEW r \in Requests, Commit(r) PROVE RowsMade'
  BY <1>3 DEF Commit
<1>4. ASSUME NEW r \in Requests, SqlFails(r) PROVE RowsMade'
  BY <1>4 DEF SqlFails, db
<1>5. ASSUME NEW r \in Requests, ReadMessage(r) PROVE RowsMade'
  BY <1>5 DEF ReadMessage, db
<1>7. CASE ReadConfirm \/ LosePublisher \/ UNCHANGED vars
  BY <1>7 DEF ReadConfirm, LosePublisher, db, vars
<1>6. CASE Crash
  BY <1>6 DEF Crash, Running, db
<1> QED
  BY <1>1, <1>2, <1>3, <1>4, <1>5, <1>6, <1>7 DEF Next, Handle, Plain

LEMMA AnsweredNext == TypeOK /\ AnsweredIsDone /\ [Next]_vars => AnsweredIsDone'
<1> SUFFICES ASSUME TypeOK, AnsweredIsDone, [Next]_vars PROVE AnsweredIsDone'
  OBVIOUS
<1> USE DEF AnsweredIsDone, TypeOK, Step
<1>1. ASSUME NEW r \in Requests,
             Receive(r) \/ Find(r) \/ InsertNotification(r) \/ InsertOutbox(r) \/ Commit(r)
             \/ SqlFails(r) \/ BeginPublish(r) \/ EndPublish(r) \/ Garble(r)
      PROVE  AnsweredIsDone'
  BY <1>1 DEF Receive, Find, InsertNotification, InsertOutbox, Commit, SqlFails, BeginPublish,
     EndPublish, Garble
<1>2. ASSUME NEW r \in Requests, Respond(r) \/ Refuse(r) PROVE AnsweredIsDone'
  BY <1>2 DEF Respond, Refuse, Answer
<1>5. ASSUME NEW r \in Requests, ReadMessage(r) PROVE AnsweredIsDone'
  BY <1>5 DEF ReadMessage
<1>3. CASE ReadConfirm \/ LosePublisher \/ UNCHANGED vars
  BY <1>3 DEF ReadConfirm, LosePublisher, vars
<1>4. CASE Crash
  BY <1>4 DEF Crash, Running
<1> QED
  BY <1>1, <1>2, <1>3, <1>4, <1>5 DEF Next, Handle

LEMMA UpNext == UpUnlessBroken /\ [Next]_vars => UpUnlessBroken'
  BY DEF UpUnlessBroken, Next, Handle, Receive, Find, InsertNotification, InsertOutbox, Commit,
     SqlFails, BeginPublish, EndPublish, Garble, Respond, Refuse, ReadMessage, ReadConfirm,
     LosePublisher, Crash, Break, amqp, vars

\* Why the message of x is not lost, or may be, without a fault of the process or
\* of the connection.
Kept(x) ==
  \/ Publishing(x) \/ \E r \in sent \cup wire : saved[r] = x
  \/ pc[x] = "failed" \/ answer[x] = "failed"

FaultInv ==
  KeyInv /\ RowsMade /\ AnsweredIsDone /\ UpUnlessBroken /\ StrandedByFaultOnly

LEMMA KeptNext ==
  ASSUME FaultInv, Next, crashes' = 0, ~broken', NEW x \in rows'
  PROVE  Kept(x)'
<1> USE DEF Kept, Publishing, Step
<1>a. TypeOK /\ SavedRow /\ RowsMade /\ AnsweredIsDone /\ UpUnlessBroken
  BY DEF FaultInv, KeyInv
<1>b. ~Crash
  BY <1>a DEF Crash, TypeOK
<1>c. crashes = 0 /\ ~broken
  BY <1>b DEF Next, Handle, Receive, Find, InsertNotification, InsertOutbox, Commit, SqlFails,
     BeginPublish, EndPublish, Garble, Respond, Refuse, ReadMessage, ReadConfirm,
     LosePublisher, Break, amqp, bounds
<1>d. \A y \in rows : y \in Requests /\ Kept(y)
  BY <1>a, <1>c DEF FaultInv, StrandedByFaultOnly, TypeOK
<1>1. ASSUME NEW r \in Requests, Receive(r) \/ InsertNotification(r) \/ InsertOutbox(r)
      PROVE  Kept(x)'
  BY <1>a, <1>d, <1>1 DEF Receive, InsertNotification, InsertOutbox, TypeOK, db, amqp
<1>2. ASSUME NEW r \in Requests, Find(r) PROVE Kept(x)'
  <2>1. r \notin sent \cup wire /\ pc[r] = "find" /\ x \in rows /\ UNCHANGED <<sent, wire, answer>>
    BY <1>a, <1>2 DEF Find, SavedRow, db, amqp
  <2>2. \A q \in Requests : q # r => pc'[q] = pc[q] /\ saved'[q] = saved[q]
    BY <1>a, <1>2 DEF Find, TypeOK
  <2> QED
    BY <1>a, <1>d, <2>1, <2>2 DEF TypeOK
<1>3. ASSUME NEW r \in Requests, Commit(r) PROVE Kept(x)'
  <2>1. /\ pc[r] = "commit" /\ r \notin sent \cup wire /\ rows' = rows \cup {r} /\ UNCHANGED <<sent, wire, answer>>
        /\ pc'[r] = "publish" /\ saved'[r] = r
    BY <1>a, <1>3 DEF Commit, SavedRow, TypeOK, amqp
  <2>2. \A q \in Requests : q # r => pc'[q] = pc[q] /\ saved'[q] = saved[q]
    BY <1>a, <1>3 DEF Commit, TypeOK
  <2>3. CASE x = r
    BY <2>1, <2>3
  <2>4. CASE x # r
    BY <1>a, <1>d, <2>1, <2>2, <2>4 DEF TypeOK
  <2> QED
    BY <2>3, <2>4
<1>4. ASSUME NEW r \in Requests, SqlFails(r) PROVE Kept(x)'
  <2>1. /\ pc[r] \in {"find", "insert", "insertOutbox", "commit"} /\ pc'[r] = "failed"
        /\ UNCHANGED <<saved, sent, wire, answer>> /\ (UNCHANGED rows \/ rows' = rows \cup {r})
        /\ \A q \in Requests : q # r => pc'[q] = pc[q]
    BY <1>a, <1>4 DEF SqlFails, TypeOK, db, amqp
  <2> QED
    BY <1>a, <1>d, <2>1 DEF TypeOK
<1>5. ASSUME NEW r \in Requests, BeginPublish(r) PROVE Kept(x)'
  <2>1. /\ pc[r] = "publish" /\ pc'[r] = "publishing" /\ UNCHANGED <<rows, saved, sent, wire, answer>>
        /\ \A q \in Requests : q # r => pc'[q] = pc[q]
    BY <1>a, <1>5 DEF BeginPublish, TypeOK, db, amqp
  <2> QED
    BY <1>a, <1>d, <2>1 DEF TypeOK
<1>6. ASSUME NEW r \in Requests, EndPublish(r) PROVE Kept(x)'
  <2>1. /\ pc[r] = "publishing" /\ wire' = wire \cup {r} /\ UNCHANGED <<rows, saved, sent, answer>>
        /\ \A q \in Requests : q # r => pc'[q] = pc[q]
    BY <1>a, <1>c, <1>6 DEF EndPublish, UpUnlessBroken, TypeOK, db
  <2> QED
    BY <1>a, <1>d, <2>1 DEF TypeOK
<1>7. ASSUME NEW r \in Requests, Garble(r) PROVE Kept(x)'
  BY <1>7 DEF Garble, Break
<1>8. ASSUME NEW r \in Requests, Respond(r) \/ Refuse(r) PROVE Kept(x)'
  <2>1. /\ pc[r] \in {"respond", "duplicate", "failed"} /\ UNCHANGED <<rows, saved, sent, wire>>
        /\ \A q \in Requests : q # r => pc'[q] = pc[q] /\ answer'[q] = answer[q]
        /\ pc[r] = "failed" => answer'[r] = "failed"
    BY <1>a, <1>8 DEF Respond, Refuse, Answer, TypeOK, db, amqp
  <2>2. answer[r] = "none"
    BY <1>a, <2>1 DEF AnsweredIsDone, TypeOK
  <2> QED
    BY <1>a, <1>d, <2>1, <2>2 DEF TypeOK
<1>9. CASE ReadConfirm \/ LosePublisher
  BY <1>d, <1>9 DEF ReadConfirm, LosePublisher, Break, db
<1>10. ASSUME NEW r \in Requests, ReadMessage(r) PROVE Kept(x)'
  <2>1. sent' \cup wire' = sent \cup wire /\ UNCHANGED <<rows, pc, saved, answer>>
    BY <1>10 DEF ReadMessage, db
  <2> QED
    BY <1>a, <1>d, <2>1 DEF TypeOK
<1> QED
  BY <1>b, <1>1, <1>2, <1>3, <1>4, <1>5, <1>6, <1>7, <1>8, <1>9, <1>10 DEF Next, Handle

LEMMA StrandedNext == FaultInv /\ [Next]_vars => StrandedByFaultOnly'
<1> SUFFICES ASSUME FaultInv, [Next]_vars PROVE StrandedByFaultOnly'
  OBVIOUS
<1>1. CASE UNCHANGED vars
  BY <1>1 DEF FaultInv, StrandedByFaultOnly, Publishing, vars
<1>2. CASE Next
  <2>1. crashes' \in Nat
    BY TypeNext DEF FaultInv, KeyInv, TypeOK
  <2>2. ASSUME NEW x \in rows', crashes' = 0, ~broken' PROVE Kept(x)'
    BY <1>2, <2>2, KeptNext
  <2> QED
    BY <2>1, <2>2 DEF StrandedByFaultOnly, Kept
<1> QED
  BY <1>1, <1>2

LEMMA FaultInvariant == Spec => []FaultInv
<1>1. Init => RowsMade /\ AnsweredIsDone /\ UpUnlessBroken /\ StrandedByFaultOnly
  BY DEF Init, RowsMade, AnsweredIsDone, UpUnlessBroken, StrandedByFaultOnly
<1>2. FaultInv /\ KeyInv' /\ [Next]_vars => FaultInv'
  BY RowsMadeNext, AnsweredNext, UpNext, StrandedNext DEF FaultInv, KeyInv
<1> QED
  BY <1>1, <1>2, KeyInvariant, PTL DEF Spec, FaultInv

\* A row without a message has a handler about to publish it or a fault behind it.
THEOREM StrandedNeedsFault == Spec => []StrandedByFaultOnly
<1>1. FaultInv => StrandedByFaultOnly
  BY DEF FaultInv
<1> QED
  BY <1>1, FaultInvariant, PTL

-----------------------------------------------------------------------------
(* The handlers implement the POST of Delivery.                            *)

\* Owing(k) and the requests of k that were read are disjoint sets of requests.
SentFor(k) == {r \in sent : KeyOf[r] = k}

LEMMA Counts ==
  ASSUME NEW S \in SUBSET Requests
  PROVE  /\ IsFiniteSet(S)
         /\ Cardinality(S) \in 0..Cardinality(Requests)
<1>1. IsFiniteSet(S) /\ Cardinality(S) <= Cardinality(Requests)
  BY SubmissionAssumption, FS_Subset DEF SubmissionAssumption
<1>2. Cardinality(S) \in Nat /\ Cardinality(Requests) \in Nat
  BY <1>1, SubmissionAssumption, FS_CardinalityType DEF SubmissionAssumption
<1> QED
  BY <1>1, <1>2

LEMMA CountsTyped ==
  TypeOK => /\ Owed \in [Keys -> 0..Cardinality(Requests)]
            /\ Published \in [Keys -> 0..Cardinality(Requests)]
<1> SUFFICES ASSUME TypeOK PROVE /\ Owed \in [Keys -> 0..Cardinality(Requests)]
                                 /\ Published \in [Keys -> 0..Cardinality(Requests)]
  OBVIOUS
<1>1. \A k \in Keys : Owing(k) \in SUBSET Requests /\ SentFor(k) \in SUBSET Requests
  BY DEF Owing, SentFor, TypeOK
<1> QED
  BY <1>1, Counts DEF Owed, Published, SentFor

\* A request that has not come to publish leaves room for its message.
LEMMA RoomToOwe ==
  ASSUME TypeOK, SavedRow, NEW r \in Requests, pc[r] \in {"find", "commit"}
  PROVE  Owed[KeyOf[r]] + Published[KeyOf[r]] < Cardinality(Requests)
<1> DEFINE k == KeyOf[r]
           O == Owing(k)
           S == SentFor(k)
<1>1. k \in Keys
  BY SubmissionAssumption DEF SubmissionAssumption
<1>2. O \in SUBSET Requests /\ S \in SUBSET Requests /\ r \notin O \cup S
  BY DEF Owing, SentFor, SavedRow, TypeOK
<1>3. O \cap S = {}
  BY DEF Owing, SentFor, SavedRow, TypeOK
<1>4. /\ IsFiniteSet(O) /\ IsFiniteSet(S) /\ IsFiniteSet(O \cup S)
      /\ Cardinality(O) \in Nat /\ Cardinality(S) \in Nat /\ Cardinality(O \cup S) \in Nat
  BY <1>2, Counts
<1>5. Cardinality(O \cup S) = Cardinality(O) + Cardinality(S)
  <2>1. Cardinality(O \cap S) = 0
    BY <1>3, FS_EmptySet
  <2>2. Cardinality(O \cup S) = Cardinality(O) + Cardinality(S) - Cardinality(O \cap S)
    BY <1>4, FS_Union
  <2> HIDE DEF O, S
  <2> QED
    BY <1>4, <2>1, <2>2
<1>6. Cardinality((O \cup S) \cup {r}) = Cardinality(O \cup S) + 1
  BY <1>2, <1>4, FS_AddElement
<1>7. Cardinality((O \cup S) \cup {r}) \in 0..Cardinality(Requests)
  BY <1>2, Counts
<1>8. Owed[k] = Cardinality(O) /\ Published[k] = Cardinality(S)
  BY <1>1 DEF Owed, Published, SentFor
<1>9. Cardinality(Requests) \in Nat
  BY SubmissionAssumption, FS_CardinalityType DEF SubmissionAssumption
<1> HIDE DEF O, S, k
<1>10. Owed[k] + Published[k] < Cardinality(Requests)
  BY <1>4, <1>5, <1>6, <1>7, <1>8, <1>9
<1> QED
  BY <1>10 DEF k

(* A handler that comes to publish owes one message more.                  *)
LEMMA OwesMore ==
  ASSUME TypeOK, SavedRow, NEW r \in Requests, pc[r] \in {"find", "commit"},
         pc' = [pc EXCEPT ![r] = "publish"], UNCHANGED wire
  PROVE  Owed' = [Owed EXCEPT ![KeyOf[r]] = @ + 1]
<1>1. KeyOf[r] \in Keys
  BY SubmissionAssumption DEF SubmissionAssumption
<1>2. Owing(KeyOf[r])' = Owing(KeyOf[r]) \cup {r} /\ r \notin Owing(KeyOf[r])
  BY DEF Owing, TypeOK, SavedRow
<1>3. \A k \in Keys : k # KeyOf[r] => Owing(k)' = Owing(k)
  BY DEF Owing, TypeOK
<1>4. IsFiniteSet(Owing(KeyOf[r]))
  BY Counts DEF Owing
<1>5. Cardinality(Owing(KeyOf[r])') = Cardinality(Owing(KeyOf[r])) + 1
  BY <1>2, <1>4, FS_AddElement
<1> QED
  BY <1>1, <1>3, <1>5 DEF Owed, Owing

(* One whose message is read owes one less.                                *)
LEMMA OwesLess ==
  ASSUME TypeOK, SavedRow, NEW r \in wire, wire' = wire \ {r}, UNCHANGED pc
  PROVE  /\ Owed' = [Owed EXCEPT ![KeyOf[r]] = @ - 1]
         /\ Owed[KeyOf[r]] > 0
<1>1. r \in Requests /\ KeyOf[r] \in Keys
  BY SubmissionAssumption DEF SubmissionAssumption, TypeOK
<1>2. Owing(KeyOf[r])' = Owing(KeyOf[r]) \ {r} /\ r \in Owing(KeyOf[r])
  BY <1>1 DEF Owing, SavedRow
<1>3. \A k \in Keys : k # KeyOf[r] => Owing(k)' = Owing(k)
  BY DEF Owing
<1>4. IsFiniteSet(Owing(KeyOf[r])) /\ Cardinality(Owing(KeyOf[r])) \in Nat
  BY Counts DEF Owing
<1>5. Cardinality(Owing(KeyOf[r])') = Cardinality(Owing(KeyOf[r])) - 1
  BY <1>2, <1>4, FS_RemoveElement
<1>6. Cardinality(Owing(KeyOf[r])) > 0
  BY <1>2, <1>4, FS_EmptySet
<1> QED
  BY <1>1, <1>3, <1>5, <1>6 DEF Owed, Owing

LEMMA SentMore ==
  ASSUME TypeOK, NEW r \in Requests, r \notin sent, sent' = sent \cup {r}
  PROVE  Published' = [Published EXCEPT ![KeyOf[r]] = @ + 1]
<1>1. KeyOf[r] \in Keys
  BY SubmissionAssumption DEF SubmissionAssumption
<1>2. SentFor(KeyOf[r])' = SentFor(KeyOf[r]) \cup {r} /\ r \notin SentFor(KeyOf[r])
  BY DEF SentFor
<1>3. \A k \in Keys : k # KeyOf[r] => SentFor(k)' = SentFor(k)
  BY DEF SentFor
<1>4. IsFiniteSet(SentFor(KeyOf[r]))
  BY Counts DEF SentFor, TypeOK
<1>5. Cardinality(SentFor(KeyOf[r])') = Cardinality(SentFor(KeyOf[r])) + 1
  BY <1>2, <1>4, FS_AddElement
<1> QED
  BY <1>1, <1>3, <1>5 DEF Published, SentFor

\* What Delivery sees of a state is made of these four, and stays when they stay.
LEMMA SameView ==
  ASSUME UNCHANGED <<KeyRows, Owed, Published, crashes>>
  PROVE  UNCHANGED Pipeline!vars
  BY DEF Pipeline!vars, Pipeline!db, Pipeline!broker, Pipeline!worker, Pipeline!history,
     ByKey, ByWorker

\* Messages that are given up are forgotten.
LEMMA GivenUp ==
  ASSUME TypeOK', UNCHANGED <<rows, sent, crashes>>,
         \A k \in Keys : Owing(k)' \subseteq Owing(k)
  PROVE  Pipeline!Forget
<1>1. UNCHANGED <<KeyRows, Published>>
  BY DEF KeyRows, Published
<1>2. \A k \in Keys : /\ Cardinality(Owing(k)') \in 0..Cardinality(Requests)
                      /\ Cardinality(Owing(k)') <= Cardinality(Owing(k))
  <2> SUFFICES ASSUME NEW k \in Keys
               PROVE  /\ Cardinality(Owing(k)') \in 0..Cardinality(Requests)
                      /\ Cardinality(Owing(k)') <= Cardinality(Owing(k))
    OBVIOUS
  <2>1. Owing(k) \in SUBSET Requests /\ Owing(k)' \in SUBSET Requests
    BY DEF Owing
  <2>2. Cardinality(Owing(k)') \in 0..Cardinality(Requests) /\ IsFiniteSet(Owing(k))
    BY <2>1, Counts
  <2> QED
    BY <2>2, FS_Subset
<1>3. /\ Owed' \in [Keys -> 0..Cardinality(Requests)]
      /\ \A k \in Keys : Owed'[k] <= Owed[k]
  BY <1>2 DEF Owed
<1> QED
  BY <1>1, <1>3 DEF Pipeline!Forget, Pipeline!db, Pipeline!broker, Pipeline!worker,
     Pipeline!history, ByKey, ByWorker

\* A request that has its row, with a message to publish or without.
LEMMA RowKept ==
  ASSUME TypeOK, NEW r \in Requests, KeyRows' = KeyRows \cup {KeyOf[r]},
         UNCHANGED <<Published, crashes>>,
         Owed[KeyOf[r]] + Published[KeyOf[r]] < Cardinality(Requests),
         \/ UNCHANGED Owed
         \/ Owed' = [Owed EXCEPT ![KeyOf[r]] = @ + 1]
  PROVE  Pipeline!Post(KeyOf[r], "any")
<1>1. KeyOf[r] \in Keys
  BY SubmissionAssumption DEF SubmissionAssumption
<1>2. Pipeline!InsertWithOutbox(KeyOf[r], "any")
  BY <1>1 DEF Pipeline!InsertWithOutbox
<1> QED
  BY <1>2 DEF Pipeline!Post, Pipeline!broker, Pipeline!worker, Pipeline!history, ByKey, ByWorker

LEMMA PipelineStep == KeyInv /\ KeyInv' /\ [Next]_vars => [Pipeline!Next]_(Pipeline!vars)
<1> SUFFICES ASSUME KeyInv, KeyInv', [Next]_vars PROVE [Pipeline!Next]_(Pipeline!vars)
  OBVIOUS
<1>0. TypeOK /\ TypeOK' /\ SavedRow
  BY DEF KeyInv
<1>a. \A r \in Requests : KeyOf[r] \in Keys
  BY SubmissionAssumption DEF SubmissionAssumption
<1>b. ASSUME NEW r \in Requests, Pipeline!Post(KeyOf[r], "any") PROVE Pipeline!Next
  BY <1>a, <1>b DEF Pipeline!Next, Pipeline!Environment
<1>c. ASSUME Pipeline!Forget PROVE Pipeline!Next
  BY <1>c DEF Pipeline!Next, Pipeline!Environment
\* Steps that neither add a row, nor come to or from a publish.
<1>1. ASSUME UNCHANGED <<rows, sent, wire, crashes>>,
             \A r \in Requests : pc'[r] \in {"publish", "publishing"}
                                 <=> pc[r] \in {"publish", "publishing"}
      PROVE  UNCHANGED Pipeline!vars
  BY <1>1, SameView DEF KeyRows, Owed, Owing, Published
<1>2. ASSUME NEW r \in Requests, Find(r) PROVE [Pipeline!Next]_(Pipeline!vars)
  <2>1. CASE \E x \in rows : KeyOf[x] = KeyOf[r]
    <3>1. /\ UNCHANGED <<rows, sent, wire, crashes>>
          /\ pc[r] = "find" /\ pc' = [pc EXCEPT ![r] = "publish"]
      BY <1>2, <2>1 DEF Find, Step, db, amqp, bounds
    <3>2. KeyRows' = KeyRows \cup {KeyOf[r]} /\ UNCHANGED Published
      BY <2>1, <3>1 DEF KeyRows, Published
    <3> QED
      BY <1>0, <1>b, <3>1, <3>2, OwesMore, RoomToOwe, RowKept
  <2>2. CASE ~\E x \in rows : KeyOf[x] = KeyOf[r]
    BY <1>0, <1>1, <1>2, <2>2 DEF Find, Step, db, amqp, bounds, TypeOK
  <2> QED
    BY <2>1, <2>2
<1>3. ASSUME NEW r \in Requests, Commit(r) PROVE [Pipeline!Next]_(Pipeline!vars)
  <2>1. /\ rows' = rows \cup {r} /\ UNCHANGED <<sent, wire, crashes>>
        /\ pc[r] = "commit" /\ pc' = [pc EXCEPT ![r] = "publish"]
    BY <1>3 DEF Commit, Step, amqp, bounds
  <2>2. KeyRows' = KeyRows \cup {KeyOf[r]} /\ UNCHANGED Published
    BY <2>1 DEF KeyRows, Published
  <2> QED
    BY <1>0, <1>b, <2>1, <2>2, OwesMore, RoomToOwe, RowKept
<1>4. ASSUME NEW r \in Requests, SqlFails(r) PROVE [Pipeline!Next]_(Pipeline!vars)
  <2>1. /\ UNCHANGED <<sent, wire, crashes>>
        /\ \A q \in Requests : pc'[q] \in {"publish", "publishing"}
                               <=> pc[q] \in {"publish", "publishing"}
    BY <1>0, <1>4 DEF SqlFails, Step, amqp, bounds, TypeOK
  <2>2. CASE UNCHANGED rows
    BY <1>1, <2>1, <2>2
  <2>3. CASE pc[r] = "commit" /\ rows' = rows \cup {r}
    <3>1. KeyRows' = KeyRows \cup {KeyOf[r]} /\ UNCHANGED <<Owed, Published>>
      BY <2>1, <2>3 DEF KeyRows, Owed, Owing, Published
    <3> QED
      BY <1>0, <1>b, <2>1, <2>3, <3>1, RoomToOwe, RowKept
  <2> QED
    BY <1>4, <2>2, <2>3 DEF SqlFails, db
\* Written, the message is still to be read; or it is given up.
<1>5. ASSUME NEW r \in Requests, EndPublish(r) PROVE [Pipeline!Next]_(Pipeline!vars)
  <2>1. /\ UNCHANGED <<rows, sent, crashes>> /\ pc[r] = "publishing"
        /\ pc' = [pc EXCEPT ![r] = "respond"]
    BY <1>5 DEF EndPublish, Step, db, bounds
  <2>2. CASE wire' = wire \cup {r}
    <3>1. \A k \in Keys : Owing(k)' = Owing(k)
      BY <1>0, <2>1, <2>2 DEF Owing, TypeOK
    <3> QED
      BY <2>1, <3>1, SameView DEF KeyRows, Owed, Published
  <2>3. CASE UNCHANGED wire
    <3>1. \A k \in Keys : Owing(k)' \subseteq Owing(k)
      BY <1>0, <2>1, <2>3 DEF Owing, TypeOK
    <3> QED
      BY <1>0, <1>c, <2>1, <3>1, GivenUp
  <2> QED
    BY <1>5, <2>2, <2>3 DEF EndPublish
<1>6. ASSUME NEW r \in Requests, ReadMessage(r) PROVE [Pipeline!Next]_(Pipeline!vars)
  <2>1. /\ r \in wire /\ r \notin sent /\ wire' = wire \ {r} /\ sent' = sent \cup {r}
        /\ UNCHANGED <<rows, pc, crashes>>
    BY <1>0, <1>6 DEF ReadMessage, SavedRow, db, bounds
  <2>2. /\ Owed' = [Owed EXCEPT ![KeyOf[r]] = @ - 1] /\ Owed[KeyOf[r]] > 0
        /\ Published' = [Published EXCEPT ![KeyOf[r]] = @ + 1]
    BY <1>0, <2>1, OwesLess, SentMore
  <2>3. UNCHANGED KeyRows /\ KeyOf[r] \in KeyRows
    BY <1>0, <2>1 DEF KeyRows, SavedRow
  <2> DEFINE k == KeyOf[r]
             M == [ch |-> "any", n |-> k, attempt |-> 1]
             Q == [m \in Copies |-> IF m.attempt = 1 THEN Published[m.n] ELSE 0]
  <2>4. k \in Keys /\ M \in Copies
    BY <1>a DEF Copies
  <2>5. Q' = [Q EXCEPT ![M] = @ + 1]
    <3>1. \A m \in Copies : m # M /\ m.attempt = 1 => m.n # k
      BY DEF Copies
    <3>2. Published \in [Keys -> 0..Cardinality(Requests)]
      BY <1>0, CountsTyped
    <3>3. \A m \in Copies : m.n \in Keys
      BY DEF Copies
    <3>4. ASSUME NEW m \in Copies
          PROVE  (IF m.attempt = 1 THEN Published'[m.n] ELSE 0) = [Q EXCEPT ![M] = @ + 1][m]
      <4>1. CASE m = M
        BY <2>2, <2>4, <3>2, <4>1
      <4>2. CASE m # M
        BY <2>2, <2>4, <3>1, <3>2, <3>3, <4>2
      <4> QED
        BY <4>1, <4>2
    <3> QED
      BY <3>4
  <2>6. Pipeline!Publish(k)
    BY <2>1, <2>2, <2>3, <2>4, <2>5 DEF Pipeline!Publish, Pipeline!Put, Pipeline!db,
       Pipeline!worker, ByKey, ByWorker
  <2> QED
    BY <2>4, <2>6 DEF Pipeline!Next, Pipeline!System
<1>7. ASSUME NEW r \in Requests, Garble(r) PROVE [Pipeline!Next]_(Pipeline!vars)
  <2>1. UNCHANGED <<rows, sent, crashes>>
    BY <1>7 DEF Garble, Step, db, bounds
  <2>2. \A k \in Keys : Owing(k)' \subseteq Owing(k)
    BY <1>0, <1>7 DEF Garble, Break, Step, Owing, TypeOK
  <2> QED
    BY <1>0, <1>c, <2>1, <2>2, GivenUp
<1>8. CASE LosePublisher
  <2>1. UNCHANGED <<rows, sent, crashes>> /\ \A k \in Keys : Owing(k)' \subseteq Owing(k)
    BY <1>8 DEF LosePublisher, Break, Owing, db
  <2> QED
    BY <1>0, <1>c, <2>1, GivenUp
<1>9. CASE Crash
  <2>1. /\ crashes < MaxCrashes /\ crashes' = crashes + 1 /\ UNCHANGED <<rows, sent>>
        /\ \A k \in Keys : Owing(k)' = {}
    BY <1>0, <1>9 DEF Crash, Running, Owing, db, TypeOK
  <2>2. Owed' = [k \in Keys |-> 0]
    BY <2>1, FS_EmptySet DEF Owed
  <2>3. UNCHANGED <<KeyRows, Published>>
    BY <2>1 DEF KeyRows, Published
  <2>4. crashes + 0 < MaxCrashes
    BY <1>0, <2>1, SubmissionAssumption DEF SubmissionAssumption, TypeOK
  <2>5. Pipeline!Crash
    BY <2>1, <2>2, <2>3, <2>4 DEF Pipeline!Crash, Pipeline!db, ByKey, ByWorker
  <2> QED
    BY <2>5 DEF Pipeline!Next, Pipeline!Environment
<1>10. ASSUME NEW r \in Requests,
              Receive(r) \/ InsertNotification(r) \/ InsertOutbox(r) \/ BeginPublish(r)
              \/ Respond(r) \/ Refuse(r)
       PROVE  UNCHANGED Pipeline!vars
  BY <1>0, <1>1, <1>10 DEF Receive, InsertNotification, InsertOutbox, BeginPublish, Respond,
     Refuse, Step, db, amqp, bounds, TypeOK
<1>11. CASE ReadConfirm \/ UNCHANGED vars
  BY <1>1, <1>11 DEF ReadConfirm, db, bounds, vars
<1> QED
  BY <1>2, <1>3, <1>4, <1>5, <1>6, <1>7, <1>8, <1>9, <1>10, <1>11 DEF Next, Handle

(* What races, throws, is cut or crashes in the handlers is in Delivery a  *)
(* Post, a Publish, a Forget, a Crash or nothing: its POST leaves out      *)
(* nothing that the handlers do.                                           *)
THEOREM DeliveryImplemented == Spec => ImplementsDelivery
<1>1. Init => Pipeline!Init
  <2> SUFFICES ASSUME Init PROVE Pipeline!Init
    OBVIOUS
  <2>1. KeyRows = {} /\ Owed = [k \in Keys |-> 0] /\ Published = [k \in Keys |-> 0]
    BY FS_EmptySet DEF Init, KeyRows, Owed, Owing, Published
  <2> QED
    BY <2>1 DEF Init, Pipeline!Init, Pipeline!EmptyBag, Pipeline!Messages, Pipeline!Attempts,
       Copies, ByKey, ByWorker
<1> QED
  BY <1>1, KeyInvariant, PipelineStep, PTL DEF Spec, ImplementsDelivery, Pipeline!Spec
=============================================================================
