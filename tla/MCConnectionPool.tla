-------------------------- MODULE MCConnectionPool --------------------------
(* The instances of ConnectionPool that TLC checks: the constants are given *)
(* in the configurations.                                                   *)
EXTENDS ConnectionPool
=============================================================================
