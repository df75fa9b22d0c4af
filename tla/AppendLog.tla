----------------------------- MODULE AppendLog -----------------------------
(***************************************************************************)
(* What a catalog promises to concurrent transactions: a table is the set  *)
(* of the appends and property updates committed to it, and a transaction  *)
(* takes effect in one step, at which it also succeeds, or not at all.     *)
(***************************************************************************)
CONSTANTS Names, Appenders, Setters, FilesOf, NoTable, Broken

VARIABLES
  tables,   \* [Names -> tables, NoTable, or Broken when the metadata is unreadable]
  outcome   \* [Appenders \cup Setters -> {"pending", "ok", "failed"}]

Table == [files |-> {}, appends |-> {}, props |-> {}]
Usable(n) == tables[n] \notin {NoTable, Broken}

Init ==
  /\ tables = [n \in Names |-> NoTable]
  /\ outcome = [w \in Appenders \cup Setters |-> "pending"]

Succeeds(w) == outcome[w] = "pending" /\ outcome' = [outcome EXCEPT ![w] = "ok"]

\* The files of an append are new to the table, and all of them join it.
Append(w, n) ==
  /\ Succeeds(w) /\ w \in Appenders /\ Usable(n)
  /\ FilesOf[w] \cap tables[n].files = {}
  /\ tables' = [tables EXCEPT ![n].files = @ \cup FilesOf[w], ![n].appends = @ \cup {w}]

SetProperty(w, n) ==
  /\ Succeeds(w) /\ w \in Setters /\ Usable(n)
  /\ tables' = [tables EXCEPT ![n].props = @ \cup {w}]

Fail(w) ==
  /\ outcome[w] = "pending" /\ outcome' = [outcome EXCEPT ![w] = "failed"]
  /\ UNCHANGED tables

Create(n) == tables[n] = NoTable /\ tables' = [tables EXCEPT ![n] = Table]

\* Whatever table is at the registered location, possibly nothing readable.
Register(n) ==
  /\ tables[n] = NoTable /\ tables'[n] # NoTable
  /\ tables' = [tables EXCEPT ![n] = tables'[n]]

\* Names registered at the location of the dropped one, which have its table,
\* may become unreadable with it; no other name is touched.
Drop(n) ==
  /\ tables[n] # NoTable
  /\ \E gone \in SUBSET {m \in Names \ {n} : tables[m] = tables[n]} :
       tables' = [m \in Names |-> IF m = n THEN NoTable
                                  ELSE IF m \in gone THEN Broken ELSE tables[m]]

Rename(n, m) ==
  /\ tables[n] # NoTable /\ tables[m] = NoTable
  /\ tables' = [tables EXCEPT ![m] = tables[n], ![n] = NoTable]

Next ==
  \/ \E w \in Appenders \cup Setters :
       \/ Fail(w)
       \/ \E n \in Names : Append(w, n) \/ SetProperty(w, n)
  \/ /\ \E n \in Names :
          \/ Create(n) \/ Register(n) \/ Drop(n)
          \/ \E m \in Names : Rename(n, m)
     /\ UNCHANGED outcome

Spec == Init /\ [][Next]_<<tables, outcome>>
=============================================================================
