--------------------------- MODULE MCParallelScan ---------------------------
(* Small scans: three files of every combination of sizes, two or three     *)
(* partitions, and a dynamic filter that drops a file when it settles.      *)
EXTENDS ParallelScan, TLC

CONSTANTS f1, f2, f3

MCFiles == {f1, f2, f3}
MCRows == f1 :> 1 @@ f2 :> 2 @@ f3 :> 2
\* Every combination of sizes, equal ones included.
AllSizes == [MCFiles -> 1 .. 3]
MovingFilter == 0 :> MCFiles @@ 1 :> {f2, f3}
=============================================================================
