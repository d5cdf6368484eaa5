---------------------------- MODULE MCDelivery ----------------------------
(* The instances of Delivery that TLC checks.                              *)
EXTENDS Delivery, TLC

CONSTANTS email, sms

\* Every worker consumes the e-mail queue: the notifications of the other
\* channel only sit in theirs.
AllEmail == [w \in Workers |-> email]

\* Sound for AllEmail, where the workers differ in nothing but their name.
Symmetry == Permutations(Workers)
=============================================================================
