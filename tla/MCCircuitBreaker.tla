-------------------------- MODULE MCCircuitBreaker --------------------------
(***************************************************************************)
(* One breaker and a few goroutines that are all alike.                    *)
(***************************************************************************)
EXTENDS CircuitBreaker, TLC

Interchangeable == Permutations(Callers)
=============================================================================
