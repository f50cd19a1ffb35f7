------------------------------ MODULE MCCache ------------------------------
(***************************************************************************)
(* An instance of Cache for TLC: two requests in flight for one user, with *)
(* a clock of two ticks a second and tokens that live one and two seconds; *)
(* three calls of the rate limiter.  Requests, and calls, are              *)
(* interchangeable.                                                        *)
(***************************************************************************)
EXTENDS Cache, TLC

CacheSymmetry == Permutations(Handlers) \cup Permutations(Callers)
=============================================================================
