-------------------------- MODULE MCPhotoPipeline --------------------------
(***************************************************************************)
(* Instances of PhotoPipeline for TLC: two workers, up to three messages,  *)
(* two carts.                                                              *)
(***************************************************************************)
EXTENDS PhotoPipeline, TLC

P(p) == [kind |-> "photo", photo |-> p]
Bad(k) == [kind |-> k, photo |-> 1]

MCCartOf == 1 :> "a" @@ 2 :> "a" @@ 3 :> "b" @@ 4 :> "b"
MCCorrupt == {4}

\* Two photos of one cart; a payload without its fields before a photo that
\* has no row; photos of two carts, the second unreadable, before a fatal
\* message; a fatal message at the head of the partition.
MCLogs == { <<P(1), P(2)>>,
            <<Bad("invalid"), P(3)>>,
            <<P(1), P(4), Bad("notdict")>>,
            <<Bad("undecodable"), P(1)>> }

ASSUME OrderAssumption == InOrder

CrashLogs == { <<P(1), P(2)>> }
PoisonLogs == { <<Bad("undecodable"), P(1)>>, <<Bad("notdict"), P(1)>> }

AllFaults == Faults
CrashOnly == {"crash"}
NoFaults == {}
=============================================================================
