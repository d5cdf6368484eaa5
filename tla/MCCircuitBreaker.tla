------------------------- MODULE MCCircuitBreaker -------------------------
(* The instances of CircuitBreaker that TLC checks: the constants are given *)
(* in the configurations.                                                   *)
EXTENDS CircuitBreaker
=============================================================================
