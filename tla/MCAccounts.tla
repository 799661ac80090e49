----------------------------- MODULE MCAccounts -----------------------------
(* A small instance of Accounts for TLC.                                     *)
EXTENDS Accounts
OneLimit == [s \in Limited |-> 1]
=============================================================================
