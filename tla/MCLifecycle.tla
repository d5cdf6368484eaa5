--------------------------- MODULE MCLifecycle ---------------------------
(* The instances of Lifecycle that TLC checks.                             *)
EXTENDS Lifecycle, TLC

\* The workers consume the queue that declareAll() reaches last.
LastChannel == [w \in Workers |-> "push"]
=============================================================================
