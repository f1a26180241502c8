------------------------------ MODULE SignInMC ------------------------------
(* An instance of SignIn for TLC. *)
EXTENDS SignIn, TLC

CONSTANTS c1, c2, c3, c4

Symmetric == Permutations(Calls)
=============================================================================
