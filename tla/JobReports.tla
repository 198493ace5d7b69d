------------------------------ MODULE JobReports ------------------------------
(***************************************************************************)
(* What tracking promises about every provisioning job, without queues,    *)
(* batches or invocations: a job that was accepted is pending until it is  *)
(* reported with one final status or dropped, and that is the end of it.   *)
(* Several jobs may come to their end in one step.                         *)
(***************************************************************************)
CONSTANT Jobs

VARIABLE report

Statuses == {"SUCCESS", "FAILURE"}
Ends == Statuses \cup {"dropped"}
Stages == {"none", "pending"} \cup Ends

Init == report = [j \in Jobs |-> "none"]

Accept(j) ==
  /\ report[j] = "none"
  /\ report' = [report EXCEPT ![j] = "pending"]

\* The jobs of S end together, each in its own way.
Close(S) ==
  /\ \A j \in S : report[j] = "pending"
  /\ \E end \in [S -> Ends] :
       report' = [j \in Jobs |-> IF j \in S THEN end[j] ELSE report[j]]

Next == \/ \E j \in Jobs : Accept(j)
        \/ \E S \in SUBSET Jobs : Close(S)

Spec == Init /\ [][Next]_report
==============================================================================
