--------------------------- MODULE MCDistributors ---------------------------
(***************************************************************************)
(* Instances of Distributors for TLC: two requests in flight, which are    *)
(* interchangeable.                                                        *)
(***************************************************************************)
EXTENDS Distributors, TLC

\* Updates of one column, and one of both.
OneOrBoth ==
    {w \in Want : (w.gstin = Null) # (w.status = Null)}
        \cup {w \in Want : w.gstin # Null /\ w.status = "ACTIVE"}

HandlerSymmetry == Permutations(Handlers)
=============================================================================
