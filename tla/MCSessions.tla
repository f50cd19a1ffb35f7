----------------------------- MODULE MCSessions -----------------------------
(***************************************************************************)
(* Instances of Sessions for TLC: two requests in flight for one user, a   *)
(* clock of two ticks a second, tokens that live one and two seconds.      *)
(***************************************************************************)
EXTENDS Sessions, TLC

HandlerSymmetry == Permutations(Handlers)
=============================================================================
