---------------------------- MODULE MCSubmission ----------------------------
(* The instances of Submission that TLC checks.                            *)
EXTENDS Submission, TLC

CONSTANTS a, b, r1, r2, r3, r4

\* Three requests for one key, one for another.
KeyOfRequest == [r \in Requests |-> IF r = r4 THEN b ELSE a]

\* The requests for one key are interchangeable.
SameKey == Permutations({r1, r2, r3})
=============================================================================
