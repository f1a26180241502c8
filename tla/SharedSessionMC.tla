--------------------------- MODULE SharedSessionMC ---------------------------
(* Instances of SharedSession for TLC. *)
EXTENDS SharedSession, TLC

(* Credentials are generated in no particular order, and nothing tells them *)
(* apart but their state.                                                   *)
CredSymmetry == Permutations(Creds)
=============================================================================
