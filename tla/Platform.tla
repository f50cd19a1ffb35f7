------------------------------ MODULE Platform ------------------------------
(***************************************************************************)
(* An API process, the processes that share demand models, and questions   *)
(* to the AI algorithms, side by side.  They share no state, so what one   *)
(* does is explored while the others are at rest: no more can be reached   *)
(* of any of them by interleaving their steps.                             *)
(***************************************************************************)
EXTENDS Backend, Forecaster, Insights

vars == <<backendVars, forecasterVars, asked>>

Init == BackendInit /\ ForecasterInit /\ InsightsInit

Next ==
    \/ ForecasterInit /\ InsightsInit /\ BackendNext /\ UNCHANGED <<forecasterVars, asked>>
    \/ BackendInit /\ InsightsInit /\ ForecasterNext /\ UNCHANGED <<backendVars, asked>>
    \/ BackendInit /\ ForecasterInit /\ InsightsNext /\ UNCHANGED <<backendVars, forecasterVars>>

\* At rest nothing of the API process that is fair is enabled.
Spec == Init /\ [][Next]_vars /\ BackendFairness

\* Every variable of the three keeps its type.
TypeOK == BackendTypeOK /\ ForecasterTypeOK
=============================================================================
