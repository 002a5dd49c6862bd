------------------------------ MODULE MCAccounts ------------------------------
(* Two accounts and two requests at a time. *)
EXTENDS Accounts
=============================================================================
