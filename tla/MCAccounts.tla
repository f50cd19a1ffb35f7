----------------------------- MODULE MCAccounts -----------------------------
(***************************************************************************)
(* Instances of Accounts for TLC: two requests in flight, one e-mail       *)
(* address and one phone number.                                           *)
(***************************************************************************)
EXTENDS Accounts
=============================================================================
