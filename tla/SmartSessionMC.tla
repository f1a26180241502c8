--------------------------- MODULE SmartSessionMC ---------------------------
(* Instances of SmartSession for TLC: three calls of any kinds.             *)
EXTENDS SmartSession, TLC

CONSTANTS c1, c2, c3

(* Calls of one mix of kinds differ in their names only; no kind is made    *)
(* three times, and only those that change most are made twice.             *)
Rank == [create |-> 1, approve |-> 2, reject |-> 3, transact |-> 4, refresh |-> 5, dismiss |-> 6,
         rotate |-> 7]
Twice == {"approve", "transact", "rotate"}
Mixes ==
  {k \in [Calls -> Kinds] :
     /\ Rank[k[c1]] <= Rank[k[c2]] /\ Rank[k[c2]] <= Rank[k[c3]]
     /\ k[c1] # k[c3]
     /\ \A c, d \in Calls : k[c] = k[d] => c = d \/ k[c] \in Twice}
=============================================================================
