----------------------------- MODULE MCScanPlan -----------------------------
(* A small table for ScanPlan: two data manifests with more entries than    *)
(* the concurrency limit, one of them dead and one pruned by its partition, *)
(* and two delete manifests with a delete that applies to every partition   *)
(* and one that applies to a single partition.                              *)
EXTENDS ScanPlan, TLC

CONSTANTS a1, a2, b1, b2, x1, x2, none, east, west

MCKind == a1 :> "data" @@ a2 :> "data" @@ b1 :> "data" @@ b2 :> "data"
            @@ x1 :> "equality" @@ x2 :> "position"
MCManifestOf == a1 :> "A" @@ a2 :> "A" @@ b1 :> "B" @@ b2 :> "B" @@ x1 :> "X" @@ x2 :> "Y"
MCPartition == a1 :> east @@ a2 :> west @@ b1 :> east @@ b2 :> east
                 @@ x1 :> none @@ x2 :> east
MCSeqNum == a1 :> 1 @@ a2 :> 1 @@ b1 :> 2 @@ b2 :> 2 @@ x1 :> 2 @@ x2 :> 1
=============================================================================
