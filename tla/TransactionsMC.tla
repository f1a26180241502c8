--------------------------- MODULE TransactionsMC ---------------------------
(* An instance of Transactions for TLC. *)
EXTENDS Transactions

CONSTANTS t1
=============================================================================
