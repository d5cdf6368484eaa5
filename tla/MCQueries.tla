----------------------------- MODULE MCQueries -----------------------------
(* The instance of Queries that TLC checks.                                *)
EXTENDS Queries, TLC

CONSTANT email

\* Every worker consumes the e-mail queue.
AllEmail == [w \in Workers |-> email]

\* Sound for AllEmail, where the workers differ in nothing but their name.
Symmetry == Permutations(Workers)
=============================================================================
