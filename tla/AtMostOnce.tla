----------------------------- MODULE AtMostOnce -----------------------------
(***************************************************************************)
(* What a signed request promises its caller: WaaS runs it at most once,   *)
(* and what the caller is told is true for good. A request reported        *)
(* "unsent" (it failed and wasRequestSent is false) or "rejected" has not  *)
(* run and never will; one reported "accepted" has run; one reported       *)
(* "unknown" (it failed after it was sent) may run even later.             *)
(***************************************************************************)
EXTENDS Naturals

CONSTANT Reqs     \* the requests

VARIABLES
  runs,           \* how often WaaS has run each request
  report          \* what each caller has been told

Reports == {"pending", "accepted", "rejected", "unsent", "unknown"}

Init ==
  /\ runs = [r \in Reqs |-> 0]
  /\ report = [r \in Reqs |-> "pending"]

Run(r) ==
  /\ runs[r] = 0
  /\ report[r] \in {"pending", "unknown"}
  /\ runs' = [runs EXCEPT ![r] = 1]
  /\ UNCHANGED report

Report(r, told) ==
  /\ report[r] = "pending"
  /\ told = "accepted" => runs[r] = 1
  /\ told \in {"unsent", "rejected"} => runs[r] = 0
  /\ report' = [report EXCEPT ![r] = told]
  /\ UNCHANGED runs

Next == \E r \in Reqs : Run(r) \/ \E told \in Reports \ {"pending"} : Report(r, told)

Spec == Init /\ [][Next]_<<runs, report>>
=============================================================================
