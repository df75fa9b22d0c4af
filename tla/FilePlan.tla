------------------------------ MODULE FilePlan ------------------------------
(***************************************************************************)
(* What TableScan::plan_files promises its caller: in one step, the exact  *)
(* plan (each matching data file with the delete files that apply to it)   *)
(* or an error, and no partial plan ever.                                  *)
(***************************************************************************)
CONSTANT Plan        \* the data files to read, mapped to their delete files

VARIABLES outcome, planned

NoPlan == <<>>

Init == outcome = "pending" /\ planned = NoPlan

Succeed ==
  /\ outcome = "pending"
  /\ outcome' = "ok"
  /\ planned' = Plan

Fail ==
  /\ outcome = "pending"
  /\ outcome' = "err"
  /\ UNCHANGED planned

Next == Succeed \/ Fail

Spec == Init /\ [][Next]_<<outcome, planned>>
=============================================================================
