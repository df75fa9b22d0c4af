--------------------------- MODULE MCFsByteCache ---------------------------
(* A small instance of FsByteCache: a Parquet object read by two ranges,   *)
(* one a part of the other, and an empty metadata object read as a whole,  *)
(* by two tasks of one process.                                            *)
EXTENDS FsByteCache, TLC

CONSTANTS r1, r2, p1, data, empty

MCReaders == {r1, r2}
MCOneProcess == r1 :> p1 @@ r2 :> p1

MCPaths == {data, empty}
MCSize == data :> 4 @@ empty :> 0
Wide == [path |-> data, start |-> 1, end |-> 4]
Part == [path |-> data, start |-> 2, end |-> 3]
MCRanges == {Wide, Part}

=============================================================================
