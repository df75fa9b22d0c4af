----------------------------- MODULE MCReadPath ------------------------------
(***************************************************************************)
(* Tables and queries for TLC.  Strings are those of at most two           *)
(* characters over a (one byte) and é (two bytes), by rank:                *)
(*   0 ""   1 "a"   2 "aa"   3 "aé"   4 "é"   5 "éa"   6 "éé"              *)
(* A day has two seconds of three ticks, an hour three ticks, a month one  *)
(* day and a year two months.                                              *)
(***************************************************************************)
EXTENDS ReadPath

MCLowest == -11
MCHighest == 7

Texts == 0..6
MCChars == [s \in Values |-> IF s \in Texts THEN <<0, 1, 2, 2, 1, 2, 2>>[s + 1] ELSE 0]
MCBytes == [s \in Values |-> IF s \in Texts THEN <<0, 1, 2, 3, 2, 3, 4>>[s + 1] ELSE 0]
MCTake ==
    [s \in Values |-> [n \in Lengths |->
        IF s \notin Texts \/ n >= MCChars[s] THEN s
        ELSE IF n = 0 THEN 0 ELSE <<0, 1, 1, 1, 4, 4, 4>>[s + 1]]]
MCHash == [v \in Values |-> (v * v + 5) % 7]

Plain(op, lits) == Cond(op, lits, "plain")
Compare(lits) == {Plain(op, {l}) : op \in CompareOps, l \in lits}
Nulls == {Plain(op, {}) : op \in {"is_null", "not_null"}}
Lists(lits) == {Plain(op, ls) : op \in {"in", "not_in"}, ls \in {s \in SUBSET lits : Cardinality(s) \in {1, 2}}}
PrefixTests(lits) == {Plain(op, {l}) : op \in {"starts_with", "not_starts_with"}, l \in lits}
Nans == {Plain(op, {}) : op \in {"is_nan", "not_nan"}}
One(cs) == {Filter("one", c, c) : c \in cs}
Two(cs) == {Filter(con, c, d) : con \in {"and", "or"}, c, d \in cs}
Not(cs) == {Filter("not", c, c) : c \in cs}
               \cup {Filter(con, c, d) : con \in {"not_and", "not_or"}, c, d \in cs}

Table(kind, name, w, mode, cells, rows, filters) ==
    [kind |-> kind, transform |-> [name |-> name, w |-> w], mode |-> mode, cells |-> cells,
     rows |-> rows, filters |-> filters, deletes |-> {{}}, pageIndex |-> TRUE,
     oldRows |-> 0, default |-> Null]

Numbers(lits, lists) == One(Compare(lits) \cup Nulls \cup Lists(lists))
Strings(lits) == One(Compare(lits) \cup Nulls \cup Lists({0, 2, 5}) \cup PrefixTests(lits))

Times == {-8, -7, -6, -1, 0, 6}

(* Deletes and row groups: one column of zeros and ones. *)
DeleteTable(rows, indexed) ==
    [Table("int", "identity", 1, "unpartitioned", {0, 1}, rows,
           One({Plain("eq", {1})}) \cup {NoFilter})
       EXCEPT !.deletes = SUBSET (0..(rows - 1)), !.pageIndex = indexed]

StringTables ==
  <<Table("string", "truncate", 1, "fanout", {0, 2, 3, 5, Null}, 2, Strings({0, 1, 3, 4, 5})),
    Table("string", "truncate", 2, "clustered", {0, 1, 4, 5, Null}, 2, Strings({0, 1, 3, 4, 5})),
    Table("string", "identity", 1, "clustered", {1, 3, 6}, 3, Strings({1, 3, 4})),
    Table("string", "bucket", 2, "fanout", {1, 3, 5, Null}, 2, Strings({0, 1, 3, 4})),
    Table("string", "void", 1, "unpartitioned", {1, 2, 5, Null}, 3, Strings({0, 1, 4}))>>

NumberTables ==
  <<Table("int", "truncate", 2, "fanout", {-3, -2, -1, 0, 1, Null}, 2, Numbers(-4..2, {-3, 0, 1})),
    Table("int", "bucket", 3, "clustered", {-2, 0, 1, Null}, 3, Numbers({-2, 0}, {-2, 1})),
    Table("int", "identity", 1, "clustered", {0, 1, 2}, 4, One(Nulls)),
    Table("int", "void", 1, "fanout", {0, 1, Null}, 3, Numbers({0, 1}, {0, 1, 2})),
    Table("float", "identity", 1, "clustered", {0, 1, Null, NaN}, 3,
          One(Compare({0, 1, NaN}) \cup Nulls \cup Nans \cup Lists({0, 1}))),
    Table("float", "void", 1, "unpartitioned", {0, 1, Null, NaN}, 2,
          One(Compare({0, NaN}) \cup Nulls \cup Nans))>>

TimeTable(kind, name) ==
    Table(kind, name, 1, "fanout", Times \cup {Null}, 2, Numbers({-8, -7, -6, 0}, {-8, -6}))

TimeTables ==
  <<TimeTable("tstz", "year"), TimeTable("ts", "month"), TimeTable("ts", "day"),
    TimeTable("tstz", "day"), TimeTable("ts", "hour")>>

(* What conversion makes of casts, of functions and of AND, OR and NOT. *)
FormConds == {Plain("gt", {0}), Cond("eq", {2}, "cast"), Cond("eq", {1}, "opaque"),
              Plain("is_null", {})}
FormTable(mode, rows) ==
    Table("int", "identity", 1, mode, {0, 2, 3, Null}, rows, Two(FormConds) \cup Not(FormConds))

(* A file from before the column was added. *)
OldTable(default) ==
    [Table("string", "identity", 1, "fanout", {}, 0, Numbers({0, 1, 2}, {0, 1, 2}) \cup One(PrefixTests({1})))
       EXCEPT !.oldRows = 2, !.default = default, !.deletes = {{}, {1}}]

AllTables ==
    <<DeleteTable(5, TRUE), DeleteTable(3, FALSE), FormTable("unpartitioned", 3), FormTable("fanout", 2),
      OldTable(Null), OldTable(1)>> \o StringTables \o NumberTables \o TimeTables

OpaqueTables ==
    <<Table("int", "identity", 1, "unpartitioned", {0, 1, 2}, 2,
            Two({Plain("gt", {0}), Cond("eq", {1}, "opaque")}))>>

=============================================================================
