---------------------------- MODULE ConnectorMC ----------------------------
(* An instance of Connector for TLC. *)
EXTENDS Connector, TLC

CONSTANTS e1, e2, sol, c1, c2

Symmetric == Permutations(Calls) \cup Permutations(Ethereum)
=============================================================================
