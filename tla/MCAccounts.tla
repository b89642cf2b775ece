------------------------------ MODULE MCAccounts ------------------------------
(***************************************************************************)
(* A small instance of Accounts: one phone that two people use in turn.    *)
(***************************************************************************)
EXTENDS Accounts, TLC

Phone == {"phone"}
===============================================================================
