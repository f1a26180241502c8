-------------------------- MODULE SignedRequestsMC --------------------------
(* Instances of SignedRequests for TLC. *)
EXTENDS SignedRequests, TLC

CONSTANTS a, b, r1, r2, r3, r4, r5

(* All requests in one tab; r3 in another tab. *)
InOneTab == [r \in Reqs |-> a]
ThirdElsewhere == [r \in Reqs |-> IF r = r3 THEN b ELSE a]

(* Requests of one kind and one tab are alike; r2 is a read.     *)
RequestSymmetry == Permutations({r1, r4, r5} \cap Reqs)

(* Bound: the requests made and those given up are five together. *)
FewRequests == Cardinality({r \in Reqs : pc[r] # "idle"}) + Cardinality(aborted) <= 5
=============================================================================
