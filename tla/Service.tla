------------------------------ MODULE Service ------------------------------
(***************************************************************************)
(* The platform and the accounts of its users, side by side.  Accounts are *)
(* rows of tables that nothing of Platform reads or writes, so again what  *)
(* one does is explored while the other is at rest.                        *)
(***************************************************************************)
EXTENDS Platform, Accounts

serviceVars == <<vars, accountsVars>>

ServiceInit == Init /\ AccountsInit

ServiceNext ==
    \/ AccountsInit /\ Next /\ UNCHANGED accountsVars
    \/ Init /\ AccountsNext /\ UNCHANGED vars

\* At rest nothing that is fair is enabled, in either.
ServiceSpec ==
    ServiceInit /\ [][ServiceNext]_serviceVars /\ BackendFairness /\ Fairness
=============================================================================
