------------------------- MODULE CredentialSignerMC -------------------------
(* An instance of CredentialSigner for TLC. *)
EXTENDS CredentialSigner, TLC

CONSTANTS tab1, tab2, c1, c2, l1, l2

Symmetric == Permutations(Calls) \cup Permutations(Loads)
=============================================================================
