-------------------------- MODULE MCCircuitBreaker --------------------------
(* Small instances of CircuitBreaker for TLC. *)
EXTENDS CircuitBreaker, TLC

MCDefaultOverrides == << >>

MCMultipliers == {None, 2}
=============================================================================
