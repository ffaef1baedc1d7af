--------------------------- MODULE MCCircuitBreaker ---------------------------
(***************************************************************************)
(* CircuitBreaker for TLC: three calls of one breaker, one of another, and *)
(* one without.                                                            *)
(***************************************************************************)
EXTENDS CircuitBreaker, TLC

CONSTANTS c1, c2, c3, c4, n1, n2

MCNameOf == c1 :> n1 @@ c2 :> n1 @@ c3 :> n1 @@ c4 :> n2
=============================================================================
