-------------------------- MODULE SessionExpiryMC --------------------------
(* An instance of SessionExpiry for TLC. *)
EXTENDS SessionExpiry

CONSTANT o1
=============================================================================
