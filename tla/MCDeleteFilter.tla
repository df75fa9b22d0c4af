--------------------------- MODULE MCDeleteFilter ---------------------------
EXTENDS DeleteFilter, TLC

CONSTANTS t1, t2, p1, p2, e1

\* Two data files of one partition share two positional deletes and an
\* equality delete; only the first has positions in p1.
SharedDeletes == [t \in {t1, t2} |-> {p1, p2, e1}]
SharedRefs == (p1 :> {t1}) @@ (p2 :> {t1, t2})

\* The equality delete applies to both, no positional deletes.
EqOnly == [t \in {t1, t2} |-> {e1}]
NoRefs == <<>>
=============================================================================
