------------------------------ MODULE Queries ------------------------------
(***************************************************************************)
(* GET /api/notifications/{id} beside the delivery pipeline: the handler   *)
(* reads the row, and then the delivery history with a second statement on *)
(* another session.  The workers write both, with statements of their own, *)
(* in between.                                                             *)
(*                                                                         *)
(* Handlers that read do not meet, so that one at a time stands for all.   *)
(* The list is one SELECT and an identifier without a row one answer, 404; *)
(* neither leaves anything behind.                                         *)
(***************************************************************************)
EXTENDS Delivery

CONSTANT NoRow   \* no handler is between its two statements

VARIABLE found   \* the key and the outcome of the row that findById returned to it

\* What the client can take for final; it is told the other statuses as well.
Outcome(s) == IF s \in {"SENT", "DEAD_LETTERED"} THEN s ELSE "open"

ASSUME QueriesAssumption ==
  NoRow \notin [n : Notifications, outcome : {"SENT", "DEAD_LETTERED", "open"}]

queryVars == <<vars, found>>

QueriesInit == Init /\ found = NoRow

FindById(n) ==
  /\ found = NoRow
  /\ status[n] # "NONE"
  /\ found' = [n |-> n, outcome |-> Outcome(status[n])]
  /\ UNCHANGED vars

\* The body of the answer: the row as it was, the history as it is.
Body == [outcome |-> found.outcome,
         deliveryAttempts |-> {<<k, attempts[found.n][k]>> : k \in Recorded(found.n)}]

FindByNotificationId ==
  /\ found # NoRow
  /\ found' = NoRow
  /\ UNCHANGED vars

\* A crash takes the handler with it.
Pipeline ==
  /\ Next
  /\ found' = IF crashes' # crashes THEN NoRow ELSE found

QueriesNext ==
  \/ Pipeline
  \/ \E n \in Notifications : FindById(n)
  \/ FindByNotificationId

QueriesSpec == QueriesInit /\ [][QueriesNext]_queryVars

-----------------------------------------------------------------------------
Shows(results) == \E a \in Body.deliveryAttempts : a[2] \in results

\* A client that is told an outcome is also shown the attempt it comes from,
\* though the two are written and read by separate statements: a row that is
\* SENT comes with its successful attempt, one that is DEAD_LETTERED with a
\* failed one.  For a single copy of the message: a second one may fail under
\* the same attempt number and overwrite the success.
DetailExplainsOutcome ==
  [][FindByNotificationId /\ SingleCopy(found.n) =>
       /\ Body.outcome = "SENT" => Shows({"SUCCESS"})
       /\ Body.outcome = "DEAD_LETTERED" =>
            Shows({"TRANSIENT_FAILURE", "PERMANENT_FAILURE"})]_queryVars
=============================================================================
