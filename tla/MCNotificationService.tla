----------------------- MODULE MCNotificationService -----------------------
(* The instances of NotificationService that TLC checks.                   *)
EXTENDS NotificationService, TLC

CONSTANT email

AllEmail == [w \in Workers |-> email]
=============================================================================
