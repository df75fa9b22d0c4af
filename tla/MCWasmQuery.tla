---------------------------- MODULE MCWasmQuery ------------------------------
(***************************************************************************)
(* A data file of three bytes read by overlapping ranges, and a manifest   *)
(* read as a whole by a task of its own, with a cache smaller than the     *)
(* data file.                                                              *)
(***************************************************************************)
EXTENDS WasmQuery

MCSize == [p \in {"data", "manifest"} |-> IF p = "data" THEN 3 ELSE 2]

Part(p, l, h, s) == [path |-> p, lo |-> l, hi |-> h, whole |-> FALSE, spawned |-> s]
All(p) == [path |-> p, lo |-> 0, hi |-> MCSize[p], whole |-> TRUE, spawned |-> TRUE]

MCWants == {{Part("data", 0, 2, FALSE), All("manifest")},
            {Part("data", 0, 3, FALSE), Part("data", 1, 2, TRUE)}}

=============================================================================
