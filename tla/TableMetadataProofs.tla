------------------------ MODULE TableMetadataProofs ------------------------
(***************************************************************************)
(* Proofs about the two halves of the metadata builder.                    *)
(*                                                                         *)
(* DefInv is an inductive invariant of TableDefinitions, for any schemas,  *)
(* partition specs and sort orders callers add and any sequence of         *)
(* updates and commits.  From it follow that -1 means what was added last, *)
(* that definitions keep their ids, that partition field ids identify, and *)
(* that what build returns can be used.                                    *)
(*                                                                         *)
(* HistInv is one of TableHistory.  A built table's log is what readers    *)
(* saw because of what holds while a commit is half applied: the log ends  *)
(* at the current snapshot after every update, an entry without its        *)
(* snapshot means that a removal was recorded, and the entries of this     *)
(* commit's own snapshots are told from the published ones.                *)
(***************************************************************************)
EXTENDS TableDefinitions, TableHistory, FiniteSetTheorems, SequenceTheorems, TLAPS

IsGreatest(m, S) == m \in S /\ \A n \in S : n <= m

(* The parts of the invariant, one for each group of the builder's fields. *)
SchemaInv ==
    /\ DOMAIN schemas \subseteq Nat /\ IsFiniteSet(DOMAIN schemas)
    /\ \A i \in DOMAIN schemas : schemas[i] \in Schemas
    /\ current_schema_id \in DOMAIN schemas
    /\ last_column_id \in Nat
    /\ \A i \in DOMAIN schemas : \A c \in schemas[i] : c.id <= last_column_id
    /\ last_added_schema_id \in DOMAIN schemas => schemas[last_added_schema_id] = asked.schema

(* A spec bound once is never changed, and the default is a copy of it. *)
SpecInv ==
    /\ DOMAIN partition_specs \subseteq Nat /\ IsFiniteSet(DOMAIN partition_specs)
    /\ \A i \in DOMAIN partition_specs : partition_specs[i] \in Seq(Bound)
    /\ default_spec \in [id : Nat, fields : Seq(Bound)]
    /\ default_spec.id \in DOMAIN partition_specs
    /\ default_spec.fields = partition_specs[default_spec.id]
    /\ last_partition_id \in Nat
    /\ last_added_spec_id \in DOMAIN partition_specs =>
            WithoutIds(partition_specs[last_added_spec_id]) = WithoutIds(asked.spec)
    /\ PartitionFieldIds

OrderInv ==
    /\ DOMAIN sort_orders \subseteq Nat /\ IsFiniteSet(DOMAIN sort_orders)
    /\ \A i \in DOMAIN sort_orders : sort_orders[i] \in Orders
    /\ default_sort_order_id \in DOMAIN sort_orders
    /\ UNSORTED_ORDER_ID \in DOMAIN sort_orders => sort_orders[UNSORTED_ORDER_ID] = << >>
    /\ last_added_order_id \in DOMAIN sort_orders => sort_orders[last_added_order_id] = asked.order

StageInv ==
    /\ format_version \in 1..3
    /\ asked \in [schema : Schemas, spec : Specs, order : Orders]
    /\ stage \in {"building", "built", "failed"}
    /\ stage = "built" => DefinitionsFit
    /\ ops \in 0..MaxOps /\ commits \in 0..MaxCommits

DefInv == SchemaInv /\ SpecInv /\ OrderInv /\ StageInv

-----------------------------------------------------------------------------
\* A finite set of numbers that is not empty has a greatest element.
LEMMA GreatestExists ==
  ASSUME NEW S, S \subseteq Nat, IsFiniteSet(S), S # {}
  PROVE  \E m : IsGreatest(m, S)
<1> DEFINE Bad == {A \in FiniteSubsetsOf(S) : A # {} /\ ~\E m : IsGreatest(m, A)}
<1> SUFFICES ASSUME ~\E m : IsGreatest(m, S) PROVE FALSE
  OBVIOUS
<1>1. S \in Bad
  BY DEF FiniteSubsetsOf
<1>2. PICK A \in Bad : \A B \in Bad : ~(<<B, A>> \in StrictSubsetOrdering(S))
  <2>1. IsWellFoundedOn(StrictSubsetOrdering(S), FiniteSubsetsOf(S))
    BY FS_StrictSubsetOrderingWellFounded
  <2>2. Bad \subseteq FiniteSubsetsOf(S) /\ Bad # {}
    BY <1>1
  <2>3. QED
    BY <2>1, <2>2, WFMin
<1>3. A \subseteq S /\ IsFiniteSet(A) /\ A # {} /\ ~\E m : IsGreatest(m, A)
  BY DEF FiniteSubsetsOf
<1>4. PICK x \in A : TRUE
  BY <1>3
<1> DEFINE B == A \ {x}
<1>5. B # {}
  <2>1. SUFFICES ASSUME B = {} PROVE FALSE
    OBVIOUS
  <2>2. A = {x} /\ x \in Nat
    BY <1>3, <1>4, <2>1
  <2>3. IsGreatest(x, A)
    BY <2>2 DEF IsGreatest
  <2>4. QED
    BY <1>3, <2>3
<1>6. \E m : IsGreatest(m, B)
  <2>1. SUFFICES ASSUME ~\E m : IsGreatest(m, B) PROVE FALSE
    OBVIOUS
  <2>2. B \in SUBSET A /\ IsFiniteSet(B)
    BY <1>3, FS_Subset
  <2>3. B \in Bad
    BY <1>3, <1>5, <2>1, <2>2 DEF FiniteSubsetsOf
  <2>4. <<B, A>> \in StrictSubsetOrdering(S)
    BY <1>3, <1>4 DEF StrictSubsetOrdering
  <2>5. QED
    BY <1>2, <2>3, <2>4
<1>7. PICK m : IsGreatest(m, B)
  BY <1>6
<1>8. m \in Nat /\ x \in Nat /\ m \in A /\ A \subseteq Nat
  BY <1>3, <1>4, <1>7 DEF IsGreatest
<1>9. IsGreatest(IF m < x THEN x ELSE m, A)
  BY <1>4, <1>7, <1>8 DEF IsGreatest
<1>10. QED
  BY <1>3, <1>9

\* What the code's max() returns on the keys of a map or the ids of a schema.
LEMMA HighestIs ==
  ASSUME NEW S, S \subseteq Nat, IsFiniteSet(S), S # {}
  PROVE  Highest(S) \in S /\ \A n \in S : n <= Highest(S)
<1>1. \E m \in S : \A n \in S : n <= m
  BY GreatestExists DEF IsGreatest
<1>2. QED
  BY <1>1 DEF Highest

\* A map's finite domain gets one more key, or loses some.
LEMMA KeysFinite ==
  ASSUME NEW D, IsFiniteSet(D), NEW k
  PROVE  IsFiniteSet(D \cup {k}) /\ \A S : IsFiniteSet(D \ S)
<1>1. \A S : D \ S \in SUBSET D
  OBVIOUS
<1>2. QED
  BY <1>1, FS_AddElement, FS_Subset

-----------------------------------------------------------------------------
\* The next id is free.
LEMMA NextIdFree ==
  ASSUME NEW S, S \subseteq Nat, IsFiniteSet(S), S # {}
  PROVE  Highest(S) + 1 \in Nat /\ Highest(S) + 1 \notin S
<1> DEFINE h == Highest(S)
<1>1. h \in S /\ \A n \in S : n <= h
  BY HighestIs
<1> HIDE DEF h
<1>2. h \in Nat /\ ~(h + 1 <= h)
  BY <1>1
<1>3. h + 1 \in Nat /\ h + 1 \notin S
  BY <1>1, <1>2
<1>4. QED
  BY <1>3 DEF h

\* reuse_or_create_new_schema_id finds the schema or a free id.
LEMMA SchemaIdFacts ==
  ASSUME SchemaInv, NEW s
  PROVE  /\ SchemaId(s) \in Nat
         /\ SameSchemas(s) # {} => SchemaId(s) \in DOMAIN schemas /\ schemas[SchemaId(s)] = s
         /\ SameSchemas(s) = {} => SchemaId(s) \notin DOMAIN schemas
<1>1. Highest(DOMAIN schemas) + 1 \in Nat /\ Highest(DOMAIN schemas) + 1 \notin DOMAIN schemas
  BY NextIdFree DEF SchemaInv
<1>2. SameSchemas(s) # {} => SchemaId(s) \in SameSchemas(s)
  BY DEF SchemaId
<1>3. SameSchemas(s) = {} => SchemaId(s) = Highest(DOMAIN schemas) + 1
  BY DEF SchemaId
<1>4. QED
  BY <1>1, <1>2, <1>3 DEF SchemaInv, SameSchemas

\* No column of a schema has a number above the highest id of the schema.
LEMMA ColumnsNumbered ==
  ASSUME NEW s \in Schemas
  PROVE  /\ Highest(Ids(s) \cup {0}) \in Nat
         /\ \A c \in s : c.id <= Highest(Ids(s) \cup {0})
<1>1. IsFiniteSet(s) /\ s \subseteq Column
  BY SchemasAssumption
<1> DEFINE idOf == [c \in s |-> c.id]
<1>2. idOf \in Surjection(s, Ids(s))
  BY DEF Ids, Surjection
<1>3. IsFiniteSet(Ids(s))
  BY <1>1, <1>2, FS_Surjection
<1>4. Ids(s) \subseteq Nat
  BY <1>1 DEF Ids, Column
<1>5. IsFiniteSet(Ids(s) \cup {0})
  BY <1>3, FS_AddElement
<1> DEFINE S == Ids(s) \cup {0}
           h == Highest(S)
<1>6. S \subseteq Nat /\ S # {} /\ IsFiniteSet(S)
  BY <1>4, <1>5
<1>7. \A c \in s : c.id \in S
  BY DEF Ids
<1> HIDE DEF S
<1>8. h \in S /\ \A n \in S : n <= h
  BY <1>6, HighestIs
<1> HIDE DEF h
<1>9. h \in Nat /\ \A c \in s : c.id <= h
  BY <1>6, <1>7, <1>8
<1>10. QED
  BY <1>9 DEF h, S

\* add_schema, once the names have passed.
LEMMA AddSchemaInv ==
  ASSUME SchemaInv, StageInv, NEW s \in Schemas,
         ReuseSchema(s) \/ CreateSchema(s), UNCHANGED current_schema_id
  PROVE  SchemaInv' /\ SameUnderId(schemas, schemas') /\ last_column_id' >= last_column_id
<1>1. asked' = [asked EXCEPT !.schema = s] /\ last_added_schema_id' = SchemaId(s)
  BY DEF ReuseSchema, CreateSchema
<1>2. asked'.schema = s
  BY <1>1 DEF StageInv
<1>3. CASE ReuseSchema(s)
  <2>1. UNCHANGED <<schemas, last_column_id>> /\ schemas[SchemaId(s)] = s
    BY <1>3, SchemaIdFacts DEF ReuseSchema
  <2>2. QED
    BY <1>1, <1>2, <2>1 DEF SchemaInv, SameUnderId
<1>4. CASE CreateSchema(s)
  <2> DEFINE k == SchemaId(s)
             h == Highest(Ids(s) \cup {0})
  <2>1. schemas' = Insert(schemas, k, s) /\ k \in Nat /\ k \notin DOMAIN schemas
    BY <1>4, SchemaIdFacts DEF CreateSchema
  <2>2. last_column_id' = Larger(last_column_id, h) /\ h \in Nat /\ \A c \in s : c.id <= h
    BY <1>4, ColumnsNumbered DEF CreateSchema
  <2>3. DOMAIN schemas \subseteq Nat /\ IsFiniteSet(DOMAIN schemas)
    BY DEF SchemaInv
  <2> HIDE DEF k, h
  <2>4. /\ DOMAIN schemas' = DOMAIN schemas \cup {k}
        /\ DOMAIN schemas' \subseteq Nat /\ IsFiniteSet(DOMAIN schemas')
        /\ schemas'[k] = s
        /\ \A i \in DOMAIN schemas : schemas'[i] = schemas[i]
    <3>1. DOMAIN schemas' = DOMAIN schemas \cup {k}
      BY <2>1 DEF Insert
    <3>2. IsFiniteSet(DOMAIN schemas')
      BY <2>3, <3>1, KeysFinite
    <3>3. QED
      BY <2>1, <2>3, <3>1, <3>2 DEF Insert
  <2>5. \A i \in DOMAIN schemas : schemas[i] \subseteq Column
    BY SchemasAssumption DEF SchemaInv
  <2>6. s \subseteq Column
    BY SchemasAssumption
  <2>7. last_column_id \in Nat /\ last_column_id' \in Nat /\ last_column_id' >= last_column_id /\ last_column_id' >= h
    BY <2>2 DEF SchemaInv, Larger
  <2>8. \A i \in DOMAIN schemas' : \A c \in schemas'[i] : c.id <= last_column_id'
    <3>1. TAKE i \in DOMAIN schemas'
    <3>2. TAKE c \in schemas'[i]
    <3>3. CASE i = k
      <4>1. c \in s /\ c.id <= h /\ c.id \in Nat
        BY <3>2, <3>3, <2>4, <2>2, <2>6 DEF Column
      <4>2. QED
        BY <4>1, <2>2, <2>7
    <3>4. CASE i # k
      <4>1. i \in DOMAIN schemas /\ c \in schemas[i] /\ c.id \in Nat /\ c.id <= last_column_id
        BY <3>1, <3>2, <3>4, <2>4, <2>5 DEF SchemaInv, Column
      <4>2. QED
        BY <4>1, <2>7
    <3>5. QED
      BY <3>3, <3>4
  <2>9. \A i \in DOMAIN schemas' : schemas'[i] \in Schemas
    BY <2>4 DEF SchemaInv
  <2>10. current_schema_id' \in DOMAIN schemas'
    BY <2>4 DEF SchemaInv
  <2>11. schemas'[last_added_schema_id'] = asked'.schema
    BY <1>1, <1>2, <2>4 DEF k
  <2>12. QED
    BY <2>4, <2>7, <2>8, <2>9, <2>10, <2>11 DEF SchemaInv, SameUnderId
<1>5. QED
  BY <1>3, <1>4

\* remove_schemas keeps the current schema.
LEMMA RemoveSchemasInv ==
  ASSUME SchemaInv, NEW S, current_schema_id \notin S,
         schemas' = Retain(schemas, DOMAIN schemas \ S),
         UNCHANGED <<current_schema_id, last_column_id, last_added_schema_id, asked>>
  PROVE  SchemaInv' /\ SameUnderId(schemas, schemas')
<1>1. /\ DOMAIN schemas' = DOMAIN schemas \ S
      /\ DOMAIN schemas' \subseteq Nat /\ IsFiniteSet(DOMAIN schemas')
      /\ \A i \in DOMAIN schemas' : schemas'[i] = schemas[i]
  <2>1. DOMAIN schemas' = DOMAIN schemas \ S
    BY DEF Retain
  <2>2. IsFiniteSet(DOMAIN schemas')
    BY <2>1, KeysFinite DEF SchemaInv
  <2>3. QED
    BY <2>1, <2>2 DEF Retain, SchemaInv
<1>2. QED
  BY <1>1 DEF SchemaInv, SameUnderId

-----------------------------------------------------------------------------
\* reuse_or_create_new_spec_id finds a compatible spec or a free id.
LEMMA SpecIdFacts ==
  ASSUME SpecInv, NEW b
  PROVE  /\ SpecId(b) \in Nat
         /\ CompatibleSpecs(b) # {} => /\ SpecId(b) \in DOMAIN partition_specs
                                      /\ WithoutIds(partition_specs[SpecId(b)]) = WithoutIds(b)
         /\ CompatibleSpecs(b) = {} => SpecId(b) \notin DOMAIN partition_specs
<1> DEFINE k == Highest(DOMAIN partition_specs) + 1
<1>1. k \in Nat /\ k \notin DOMAIN partition_specs
  BY NextIdFree DEF SpecInv
<1>2. CompatibleSpecs(b) # {} => SpecId(b) \in CompatibleSpecs(b)
  BY DEF SpecId
<1>3. CompatibleSpecs(b) = {} => SpecId(b) = k
  BY DEF SpecId
<1> HIDE DEF k
<1>4. QED
  BY <1>1, <1>2, <1>3 DEF SpecInv, CompatibleSpecs

\* Numbering changes the ids of a spec's fields and nothing else.
LEMMA NumberedFacts ==
  ASSUME NEW u \in Seq(Field), NEW ids, NEW N, N \subseteq Nat \cup {None},
         \A i \in DOMAIN u : ids[i] \in N
  PROVE  LET b == Numbered(u, ids)
         IN  /\ DOMAIN b = DOMAIN u /\ WithoutIds(b) = WithoutIds(u)
             /\ \A i \in DOMAIN u : Pair(b[i]) = Pair(u[i]) /\ b[i].fid = ids[i]
             /\ b \in Seq([source : Nat, transform : STRING, name : STRING, fid : N])
<1> DEFINE b == Numbered(u, ids)
           R == [source : Nat, transform : STRING, name : STRING, fid : N]
<1>1. DOMAIN u = 1..Len(u) /\ Len(u) \in Nat /\ \A i \in DOMAIN u : u[i] \in Field
  OBVIOUS
<1>2. \A i \in DOMAIN u : u[i].source \in Nat /\ u[i].transform \in STRING /\ u[i].name \in STRING
  BY <1>1 DEF Field
<1>3. b = [i \in DOMAIN u |-> [source |-> u[i].source, transform |-> u[i].transform,
                                name |-> u[i].name, fid |-> ids[i]]]
  BY DEF Numbered
<1> HIDE DEF b
<1>4. /\ DOMAIN b = DOMAIN u
      /\ \A i \in DOMAIN u : /\ b[i].source = u[i].source /\ b[i].transform = u[i].transform
                              /\ b[i].name = u[i].name /\ b[i].fid = ids[i] /\ b[i] \in R
  BY <1>2, <1>3
<1>5. b \in [1..Len(u) -> R]
  <2>1. b = [i \in 1..Len(u) |-> b[i]]
    BY <1>1, <1>3
  <2>2. QED
    BY <1>1, <1>4, <2>1
<1>6. b \in Seq(R)
  <2> HIDE DEF R
  <2>1. QED
    BY <1>1, <1>5
<1>7. WithoutIds(b) = WithoutIds(u)
  BY <1>4 DEF WithoutIds
<1>8. \A i \in DOMAIN u : Pair(b[i]) = Pair(u[i])
  BY <1>4 DEF Pair
<1>9. QED
  BY <1>4, <1>6, <1>7, <1>8 DEF b

\* Every field of every spec is a bound one.
LEMMA FieldsBound ==
  ASSUME SpecInv
  PROVE  AllFields \subseteq Bound
<1>1. SUFFICES ASSUME NEW f \in AllFields PROVE f \in Bound
  OBVIOUS
<1>2. PICK i \in DOMAIN partition_specs : \E j \in DOMAIN partition_specs[i] : f = partition_specs[i][j]
  BY <1>1 DEF AllFields
<1>3. PICK j \in DOMAIN partition_specs[i] : f = partition_specs[i][j]
  BY <1>2
<1> DEFINE b == partition_specs[i]
<1>4. b \in Seq(Bound) /\ j \in DOMAIN b /\ f = b[j]
  BY <1>2, <1>3 DEF SpecInv
<1> HIDE DEF b
<1>5. QED
  BY <1>4

\* reuse_partition_field_ids leaves a caller's id, and otherwise borrows one of
\* an equivalent field, if there is any.
LEMMA LentFacts ==
  ASSUME SpecInv, NEW u \in Specs, NEW w \in Lent(u)
  PROVE  /\ w \in Seq(Field) /\ DOMAIN w = DOMAIN u /\ WithoutIds(w) = WithoutIds(u)
         /\ \A i \in DOMAIN u :
              /\ Pair(w[i]) = Pair(u[i])
              /\ u[i].fid # None => w[i].fid = u[i].fid
              /\ u[i].fid = None =>
                   \/ \E g \in AllFields : Pair(g) = Pair(u[i]) /\ w[i].fid = g.fid
                   \/ w[i].fid = None /\ Equivalents(u[i]) = {}
<1>1. PICK ids : w = Numbered(u, ids) /\ \A i \in DOMAIN u : ids[i] \in LentIds(u[i])
  BY DEF Lent
<1>2. u \in Seq(Field) /\ \A i \in DOMAIN u : u[i] \in Field
  BY SpecsAssumption
<1>3. ASSUME NEW i \in DOMAIN u
      PROVE  /\ u[i].fid # None => ids[i] = u[i].fid
             /\ u[i].fid = None =>
                  \/ \E g \in AllFields : Pair(g) = Pair(u[i]) /\ ids[i] = g.fid
                  \/ ids[i] = None /\ Equivalents(u[i]) = {}
  BY <1>1 DEF LentIds, Equivalents
<1> DEFINE N == Nat \cup {None}
<1>4. \A i \in DOMAIN u : ids[i] \in N
  <2>1. TAKE i \in DOMAIN u
  <2>2. u[i].fid \in N
    BY <1>2 DEF Field
  <2>3. \A g \in AllFields : g.fid \in N
    BY FieldsBound DEF Bound
  <2>4. QED
    BY <1>3, <2>2, <2>3
<1>5. /\ DOMAIN w = DOMAIN u /\ WithoutIds(w) = WithoutIds(u)
      /\ \A i \in DOMAIN u : Pair(w[i]) = Pair(u[i]) /\ w[i].fid = ids[i]
      /\ w \in Seq([source : Nat, transform : STRING, name : STRING, fid : N])
  BY <1>1, <1>2, <1>4, NumberedFacts
<1>6. w \in Seq(Field)
  BY <1>5 DEF Field
<1>7. QED
  BY <1>3, <1>5, <1>6

\* set_field_ids keeps the ids there are; another one is above those of the
\* table and of the fields before it, and none that a field brings.
LEMMA BoundFacts ==
  ASSUME SpecInv, NEW w \in Seq(Field), NEW b \in SetFieldIds(w)
  PROVE  /\ b \in Seq(Bound) /\ DOMAIN b = DOMAIN w /\ WithoutIds(b) = WithoutIds(w)
         /\ \A i \in DOMAIN w :
              /\ Pair(b[i]) = Pair(w[i]) /\ b[i].fid \in Nat
              /\ w[i].fid # None => b[i].fid = w[i].fid
              /\ w[i].fid = None =>
                   /\ b[i].fid > last_partition_id /\ b[i].fid \notin Supplied(w)
                   /\ \A j \in DOMAIN w : j < i => b[j].fid < b[i].fid
<1>1. PICK ids :
        /\ b = Numbered(w, ids)
        /\ \A i \in DOMAIN w : ids[i] \in Supplied(w) \cup (last_partition_id + 1 .. MaxFieldId)
        /\ \A i \in DOMAIN w : IF w[i].fid # None THEN ids[i] = w[i].fid
                                                  ELSE IsNext(ids[i], Candidates(w, ids, i))
  BY DEF SetFieldIds
<1>2. last_partition_id \in Nat /\ MaxFieldId \in Nat
  BY BoundsAssumption DEF SpecInv
<1>3. Supplied(w) \subseteq Nat
  <2>1. \A i \in DOMAIN w : w[i] \in Field
    OBVIOUS
  <2>2. QED
    BY <2>1 DEF Supplied, Fids, Field
<1>4. \A i \in DOMAIN w : ids[i] \in Nat
  BY <1>1, <1>2, <1>3
<1>5. /\ DOMAIN b = DOMAIN w /\ WithoutIds(b) = WithoutIds(w)
      /\ \A i \in DOMAIN w : Pair(b[i]) = Pair(w[i]) /\ b[i].fid = ids[i]
      /\ b \in Seq([source : Nat, transform : STRING, name : STRING, fid : Nat])
  BY <1>1, <1>4, NumberedFacts
<1>6. b \in Seq(Bound)
  BY <1>5 DEF Bound
<1>7. ASSUME NEW i \in DOMAIN w, w[i].fid = None
      PROVE  /\ ids[i] > last_partition_id /\ ids[i] \notin Supplied(w)
             /\ \A j \in DOMAIN w : j < i => ids[j] < ids[i]
  <2>1. ids[i] \in Candidates(w, ids, i)
    BY <1>1, <1>7 DEF IsNext
  <2>2. QED
    BY <1>2, <2>1 DEF Candidates
<1>8. QED
  BY <1>1, <1>4, <1>5, <1>6, <1>7

\* No two fields of a bound spec share an id: borrowed and supplied ids were
\* compared, and numbering goes up and skips them.
LEMMA BoundIdsUnique ==
  ASSUME SpecInv, NEW w \in Seq(Field), IdsUnique(w), NEW b \in SetFieldIds(w)
  PROVE  \A i, j \in DOMAIN w : i < j => b[i].fid # b[j].fid
<1>1. SUFFICES ASSUME NEW i \in DOMAIN w, NEW j \in DOMAIN w, i < j
      PROVE  b[i].fid # b[j].fid
  OBVIOUS
<1>2. i \in Nat /\ j \in Nat
  OBVIOUS
<1>3. b[i].fid \in Nat /\ b[j].fid \in Nat
  BY BoundFacts
<1>4. CASE w[j].fid = None
  <2>1. b[i].fid < b[j].fid
    BY <1>1, <1>4, BoundFacts
  <2>2. QED
    BY <1>3, <2>1
<1>5. CASE w[j].fid # None /\ w[i].fid = None
  <2>1. b[i].fid \notin Supplied(w) /\ b[j].fid = w[j].fid
    BY <1>5, BoundFacts
  <2>2. w[j].fid \in Supplied(w)
    BY <1>5 DEF Supplied, Fids
  <2>3. QED
    BY <2>1, <2>2
<1>6. CASE w[j].fid # None /\ w[i].fid # None
  <2>1. b[i].fid = w[i].fid /\ b[j].fid = w[j].fid
    BY <1>6, BoundFacts
  <2>2. w[i].fid # w[j].fid
    BY <1>1, <1>2, <1>6 DEF IdsUnique
  <2>3. QED
    BY <2>1, <2>2
<1>7. QED
  BY <1>4, <1>5, <1>6

\* Where no caller contradicted the table, the id of a bound field and that of
\* an old one agree when they partition by the same.
LEMMA BoundAgainstOld ==
  ASSUME SpecInv, NEW u \in Specs, NEW w \in Lent(u), NEW b \in SetFieldIds(w),
         NEW i \in DOMAIN u, NEW f \in AllFields,
         ~Contradicts(u[i]), Pair(u[i]) \notin disputed, Pair(f) \notin disputed
  PROVE  b[i].fid = f.fid <=> Pair(b[i]) = Pair(f)
<1>1. /\ w \in Seq(Field) /\ DOMAIN w = DOMAIN u
      /\ Pair(w[i]) = Pair(u[i])
      /\ u[i].fid # None => w[i].fid = u[i].fid
      /\ u[i].fid = None =>
            \/ \E g \in AllFields : Pair(g) = Pair(u[i]) /\ w[i].fid = g.fid
            \/ w[i].fid = None /\ Equivalents(u[i]) = {}
  BY LentFacts
<1>2. /\ Pair(b[i]) = Pair(w[i]) /\ b[i].fid \in Nat
      /\ w[i].fid # None => b[i].fid = w[i].fid
      /\ w[i].fid = None => b[i].fid > last_partition_id
  BY <1>1, BoundFacts
<1>3. f.fid \in Nat /\ f.fid <= last_partition_id /\ last_partition_id \in Nat
  BY FieldsBound DEF Bound, SpecInv, PartitionFieldIds
<1>4. None \notin Nat
  BY DEF None
<1>5. CASE u[i].fid # None
  BY <1>1, <1>2, <1>5 DEF Contradicts
<1>6. CASE u[i].fid = None /\ \E g \in AllFields : Pair(g) = Pair(u[i]) /\ w[i].fid = g.fid
  <2>1. PICK g \in AllFields : Pair(g) = Pair(u[i]) /\ w[i].fid = g.fid
    BY <1>6
  <2>2. g.fid \in Nat
    BY FieldsBound DEF Bound
  <2>3. b[i].fid = g.fid
    BY <1>2, <1>4, <2>1, <2>2
  <2>4. g.fid = f.fid <=> Pair(g) = Pair(f)
    <3>1. {Pair(g), Pair(f)} \cap disputed = {}
      BY <2>1
    <3>2. QED
      BY <3>1 DEF SpecInv, PartitionFieldIds
  <2>5. QED
    BY <1>1, <1>2, <2>1, <2>3, <2>4
<1>7. CASE w[i].fid = None /\ Equivalents(u[i]) = {}
  <2>1. b[i].fid # f.fid
    BY <1>2, <1>3, <1>7
  <2>2. Pair(f) # Pair(u[i])
    BY <1>7 DEF Equivalents
  <2>3. QED
    BY <1>1, <1>2, <2>1, <2>2
<1>8. QED
  BY <1>1, <1>5, <1>6, <1>7

\* set_field_ids leaves last_partition_id at or above every id of the spec.
LEMMA FidsBelow ==
  ASSUME NEW b \in Seq(Bound)
  PROVE  LET h == Highest(Fids(b) \cup {UNPARTITIONED_LAST_ASSIGNED_ID})
         IN  h \in Nat /\ \A i \in DOMAIN b : b[i].fid <= h
<1> DEFINE S == Fids(b) \cup {UNPARTITIONED_LAST_ASSIGNED_ID}
           fidOf == [i \in DOMAIN b |-> b[i].fid]
<1>1. DOMAIN b = 1..Len(b) /\ Len(b) \in Nat
  OBVIOUS
<1>2. IsFiniteSet(DOMAIN b)
  BY <1>1, FS_Interval
<1>3. fidOf \in Surjection(DOMAIN b, Fids(b))
  BY DEF Fids, Surjection
<1>4. IsFiniteSet(Fids(b))
  BY <1>2, <1>3, FS_Surjection
<1>5. \A i \in DOMAIN b : b[i] \in Bound
  OBVIOUS
<1>6. Fids(b) \subseteq Nat
  BY <1>5 DEF Fids, Bound
<1>7. S \subseteq Nat /\ S # {} /\ IsFiniteSet(S) /\ \A i \in DOMAIN b : b[i].fid \in S
  <2>1. IsFiniteSet(S)
    BY <1>4, KeysFinite
  <2>2. S \subseteq Nat /\ S # {}
    BY <1>6 DEF UNPARTITIONED_LAST_ASSIGNED_ID
  <2>3. \A i \in DOMAIN b : b[i].fid \in S
    BY DEF Fids
  <2>4. QED
    BY <2>1, <2>2, <2>3
<1> DEFINE h == Highest(S)
<1> HIDE DEF S
<1>8. h \in S /\ \A n \in S : n <= h
  BY <1>7, HighestIs
<1> HIDE DEF h
<1>9. h \in Nat /\ \A i \in DOMAIN b : b[i].fid <= h
  BY <1>7, <1>8
<1>10. QED
  BY <1>9 DEF h, S

\* add_partition_spec of a spec that is new.
LEMMA CreateSpecInv ==
  ASSUME SpecInv, StageInv, NEW u \in Specs, NEW w \in Lent(u), NEW b \in SetFieldIds(w),
         NoRedundantPartitions(w), IdsUnique(w), CreateSpec(u, b), ~Unnumberable(b),
         last_added_spec_id' = SpecId(b), asked' = [asked EXCEPT !.spec = u],
         UNCHANGED <<default_spec, format_version>>
  PROVE  /\ SpecInv' /\ SameUnderId(partition_specs, partition_specs')
         /\ last_partition_id' >= last_partition_id
<1> DEFINE k == SpecId(b)
           h == Highest(Fids(b) \cup {UNPARTITIONED_LAST_ASSIGNED_ID})
<1>1. partition_specs' = Insert(partition_specs, k, b) /\ last_partition_id' = Larger(last_partition_id, h)
  BY DEF CreateSpec
<1>2. k \in Nat /\ k \notin DOMAIN partition_specs
  BY SpecIdFacts DEF CreateSpec
<1>w. w \in Seq(Field) /\ DOMAIN w = DOMAIN u /\ WithoutIds(w) = WithoutIds(u)
  BY LentFacts
<1>3. b \in Seq(Bound) /\ DOMAIN b = DOMAIN u /\ WithoutIds(b) = WithoutIds(u)
  BY <1>w, BoundFacts
<1>4. h \in Nat /\ \A i \in DOMAIN b : b[i].fid <= h
  BY <1>3, FidsBelow
<1>d. /\ disputed \subseteq disputed'
      /\ \A i \in DOMAIN u : Pair(u[i]) \notin disputed' => ~Contradicts(u[i])
  BY DEF CreateSpec
<1>p. \A i \in DOMAIN u : Pair(b[i]) = Pair(u[i]) /\ Pair(w[i]) = Pair(u[i])
  <2>1. \A i \in DOMAIN u : Pair(w[i]) = Pair(u[i])
    BY LentFacts
  <2>2. \A i \in DOMAIN w : Pair(b[i]) = Pair(w[i])
    BY <1>w, BoundFacts
  <2>3. QED
    BY <1>w, <2>1, <2>2
<1>5. \A i \in DOMAIN u : \A f \in AllFields : Pair(b[i]) \notin disputed' /\ Pair(f) \notin disputed' =>
         (b[i].fid = f.fid <=> Pair(b[i]) = Pair(f))
  <2>1. TAKE i \in DOMAIN u
  <2>2. TAKE f \in AllFields
  <2>3. HAVE Pair(b[i]) \notin disputed' /\ Pair(f) \notin disputed'
  <2>4. ~Contradicts(u[i]) /\ Pair(u[i]) \notin disputed /\ Pair(f) \notin disputed
    BY <1>d, <1>p, <2>3
  <2>5. QED
    BY <2>4, BoundAgainstOld
<1>6. \A i, j \in DOMAIN u : i < j => b[i].fid # b[j].fid /\ Pair(b[i]) # Pair(b[j])
  <2>1. TAKE i, j \in DOMAIN u
  <2>2. HAVE i < j
  <2>3. i \in Nat /\ j \in Nat /\ i # j
    BY <1>w, <2>2
  <2>4. b[i].fid # b[j].fid
    BY <1>w, <2>2, BoundIdsUnique
  <2>5. Pair(w[i]) # Pair(w[j])
    BY <1>w, <2>3 DEF NoRedundantPartitions
  <2>6. QED
    BY <1>p, <2>4, <2>5
<1>7. format_version = 1 => HasSequentialIds(b)
  BY DEF CreateSpec, Unnumberable
<1>8. last_added_spec_id' = k
  OBVIOUS
<1> HIDE DEF k, h
<1>9. /\ DOMAIN partition_specs' = DOMAIN partition_specs \cup {k}
      /\ DOMAIN partition_specs' \subseteq Nat /\ IsFiniteSet(DOMAIN partition_specs')
      /\ partition_specs'[k] = b
      /\ \A i \in DOMAIN partition_specs : partition_specs'[i] = partition_specs[i]
  <2>1. DOMAIN partition_specs' = DOMAIN partition_specs \cup {k}
    BY <1>1 DEF Insert
  <2>0. IsFiniteSet(DOMAIN partition_specs)
    BY DEF SpecInv
  <2>2. IsFiniteSet(DOMAIN partition_specs')
    BY <2>0, <2>1, KeysFinite
  <2>3. partition_specs'[k] = b
    BY <1>1 DEF Insert
  <2>4. \A i \in DOMAIN partition_specs : partition_specs'[i] = partition_specs[i]
    BY <1>1, <1>2 DEF Insert
  <2>5. DOMAIN partition_specs' \subseteq Nat
    BY <1>2, <2>1 DEF SpecInv
  <2>6. QED
    BY <2>1, <2>2, <2>3, <2>4, <2>5
<1>10. /\ last_partition_id \in Nat /\ last_partition_id' \in Nat
       /\ last_partition_id' >= last_partition_id /\ last_partition_id' >= h
  BY <1>1, <1>4 DEF SpecInv, Larger
<1>11. \A f \in AllFields' : f \in AllFields \/ \E i \in DOMAIN b : f = b[i]
  <2>1. TAKE f \in AllFields'
  <2>2. PICK i \in DOMAIN partition_specs' : \E j \in DOMAIN partition_specs'[i] : f = partition_specs'[i][j]
    BY <2>1 DEF AllFields
  <2>3. CASE i = k
    BY <1>9, <2>2, <2>3
  <2>4. CASE i # k
    <3>1. i \in DOMAIN partition_specs /\ partition_specs'[i] = partition_specs[i]
      BY <1>9, <2>2, <2>4
    <3>2. QED
      BY <2>2, <3>1 DEF AllFields
  <2>5. QED
    BY <2>3, <2>4
<1>12. AllFields \subseteq Bound
  BY FieldsBound
<1>13. \A i, j \in DOMAIN b : (b[i].fid = b[j].fid <=> Pair(b[i]) = Pair(b[j])) /\ (b[i].fid = b[j].fid => i = j)
  <2>1. TAKE i, j \in DOMAIN b
  <2>2. i \in Nat /\ j \in Nat
    BY <1>3
  <2>3. CASE i = j
    BY <2>3
  <2>4. CASE i < j
    BY <1>3, <1>6, <2>4
  <2>5. CASE j < i
    BY <1>3, <1>6, <2>5
  <2>6. QED
    BY <2>2, <2>3, <2>4, <2>5
<1>14. \A f, g \in AllFields' : {Pair(f), Pair(g)} \cap disputed' = {} =>
          (f.fid = g.fid <=> Pair(f) = Pair(g))
  <2>1. TAKE f, g \in AllFields'
  <2>0. HAVE {Pair(f), Pair(g)} \cap disputed' = {}
  <2>a. Pair(f) \notin disputed' /\ Pair(g) \notin disputed'
    BY <2>0
  <2>2. CASE f \in AllFields /\ g \in AllFields
    <3>1. {Pair(f), Pair(g)} \cap disputed = {}
      BY <1>d, <2>a
    <3>2. QED
      BY <2>2, <3>1 DEF SpecInv, PartitionFieldIds
  <2>3. CASE f \in AllFields /\ \E i \in DOMAIN b : g = b[i]
    BY <1>3, <1>5, <2>a, <2>3
  <2>4. CASE g \in AllFields /\ \E i \in DOMAIN b : f = b[i]
    BY <1>3, <1>5, <2>a, <2>4
  <2>5. CASE (\E i \in DOMAIN b : f = b[i]) /\ \E j \in DOMAIN b : g = b[j]
    BY <1>13, <2>5
  <2>6. QED
    BY <1>11, <2>1, <2>2, <2>3, <2>4, <2>5
<1>15. \A f \in AllFields' : f.fid <= last_partition_id'
  <2>1. TAKE f \in AllFields'
  <2>2. CASE f \in AllFields
    <3>1. f.fid \in Nat /\ f.fid <= last_partition_id
      BY <1>12, <2>2 DEF SpecInv, PartitionFieldIds, Bound
    <3>2. QED
      BY <1>10, <3>1
  <2>3. CASE \E i \in DOMAIN b : f = b[i]
    <3>1. PICK i \in DOMAIN b : f = b[i]
      BY <2>3
    <3>2. f \in Bound /\ f.fid <= h
      BY <1>3, <1>4, <3>1
    <3>3. f.fid \in Nat
      BY <3>2 DEF Bound
    <3>4. QED
      BY <1>4, <1>10, <3>2, <3>3
  <2>4. QED
    BY <1>11, <2>1, <2>2, <2>3
<1>16. format_version' = 1 => \A i \in DOMAIN partition_specs' : HasSequentialIds(partition_specs'[i])
  BY <1>7, <1>9 DEF SpecInv, PartitionFieldIds
<1>17. PartitionFieldIds'
  <2>1. IdsUnique(b)
    BY <1>13 DEF IdsUnique
  <2>2. \A i \in DOMAIN partition_specs : IdsUnique(partition_specs[i])
    BY DEF SpecInv, PartitionFieldIds
  <2>3. \A i \in DOMAIN partition_specs' : IdsUnique(partition_specs'[i])
    BY <1>9, <2>1, <2>2
  <2>4. QED
    BY <1>14, <1>15, <1>16, <2>3 DEF PartitionFieldIds
<1>18. \A i \in DOMAIN partition_specs' : partition_specs'[i] \in Seq(Bound)
  BY <1>3, <1>9 DEF SpecInv
<1>19. WithoutIds(partition_specs'[last_added_spec_id']) = WithoutIds(asked'.spec)
  <2>1. asked'.spec = u
    BY DEF StageInv
  <2>2. partition_specs'[last_added_spec_id'] = b
    BY <1>8, <1>9
  <2>3. QED
    BY <1>3, <2>1, <2>2
<1>20. /\ default_spec' \in [id : Nat, fields : Seq(Bound)]
       /\ default_spec'.id \in DOMAIN partition_specs'
       /\ default_spec'.fields = partition_specs'[default_spec'.id]
  BY <1>9 DEF SpecInv
<1>21. SameUnderId(partition_specs, partition_specs')
  BY <1>9 DEF SameUnderId
<1>22. (WithoutIds(partition_specs[last_added_spec_id]) = WithoutIds(asked.spec))'
  BY <1>19 DEF WithoutIds
<1>23. QED
  BY <1>9, <1>10, <1>17, <1>18, <1>20, <1>21, <1>22 DEF SpecInv

\* add_partition_spec of a spec the table has, or may have once more.
LEMMA AddSpecInv ==
  ASSUME SpecInv, StageInv, NEW u \in Specs, NEW w \in Lent(u), NEW b \in SetFieldIds(w),
         NoRedundantPartitions(w), IdsUnique(w),
         ReuseSpec(b) \/ CreateSpec(u, b), ~Unnumberable(b),
         last_added_spec_id' = SpecId(b), asked' = [asked EXCEPT !.spec = u],
         UNCHANGED <<default_spec, format_version>>
  PROVE  /\ SpecInv' /\ SameUnderId(partition_specs, partition_specs')
         /\ last_partition_id' >= last_partition_id
<1>1. CASE ReuseSpec(b)
  <2>1. UNCHANGED <<partition_specs, last_partition_id, disputed>>
    BY <1>1 DEF ReuseSpec
  <2>2. asked'.spec = u
    BY DEF StageInv
  <2>3. WithoutIds(partition_specs[SpecId(b)]) = WithoutIds(u)
    <3>1. w \in Seq(Field) /\ WithoutIds(w) = WithoutIds(u)
      BY LentFacts
    <3>2. WithoutIds(b) = WithoutIds(w)
      BY <3>1, BoundFacts
    <3>3. QED
      BY <1>1, <3>1, <3>2, SpecIdFacts DEF ReuseSpec
  <2>4. (WithoutIds(partition_specs[last_added_spec_id]) = WithoutIds(asked.spec))'
    BY <2>1, <2>2, <2>3 DEF WithoutIds
  <2>5. PartitionFieldIds'
    <3>1. AllFields' = AllFields
      BY <2>1 DEF AllFields
    <3>2. QED
      BY <2>1, <3>1 DEF SpecInv, PartitionFieldIds, HasSequentialIds, IdsUnique
  <2>6. QED
    BY <2>1, <2>4, <2>5 DEF SpecInv, SameUnderId
<1>2. CASE CreateSpec(u, b)
  BY <1>2, CreateSpecInv
<1>3. QED
  BY <1>1, <1>2

\* remove_partition_specs keeps the default spec and the fields of the others.
LEMMA RemoveSpecsInv ==
  ASSUME SpecInv, NEW S, default_spec.id \notin S,
         partition_specs' = Retain(partition_specs, DOMAIN partition_specs \ S),
         UNCHANGED <<default_spec, last_partition_id, disputed, last_added_spec_id, format_version, asked>>
  PROVE  SpecInv' /\ SameUnderId(partition_specs, partition_specs')
<1>1. DOMAIN partition_specs' = DOMAIN partition_specs \ S
  BY DEF Retain
<1>2. IsFiniteSet(DOMAIN partition_specs)
  BY DEF SpecInv
<1>3. IsFiniteSet(DOMAIN partition_specs')
  BY <1>1, <1>2, KeysFinite
<1>4. \A i \in DOMAIN partition_specs' : partition_specs'[i] = partition_specs[i]
  BY DEF Retain
<1>5. AllFields' \subseteq AllFields
  BY <1>1, <1>4 DEF AllFields
<1>6. PartitionFieldIds'
  <2>1. \A f, g \in AllFields' : {Pair(f), Pair(g)} \cap disputed' = {} =>
           (f.fid = g.fid <=> Pair(f) = Pair(g))
    BY <1>5 DEF SpecInv, PartitionFieldIds
  <2>0. \A i \in DOMAIN partition_specs' : IdsUnique(partition_specs'[i])
    BY <1>1, <1>4 DEF SpecInv, PartitionFieldIds
  <2>2. \A f \in AllFields' : f.fid <= last_partition_id'
    BY <1>5 DEF SpecInv, PartitionFieldIds
  <2>3. format_version' = 1 => \A i \in DOMAIN partition_specs' : HasSequentialIds(partition_specs'[i])
    BY <1>1, <1>4 DEF SpecInv, PartitionFieldIds
  <2>4. QED
    BY <2>0, <2>1, <2>2, <2>3 DEF PartitionFieldIds
<1>7. last_added_spec_id' \in DOMAIN partition_specs' =>
         (WithoutIds(partition_specs[last_added_spec_id]) = WithoutIds(asked.spec))'
  BY <1>1, <1>4 DEF SpecInv, WithoutIds
<1>8. QED
  BY <1>1, <1>3, <1>4, <1>6, <1>7 DEF SpecInv, SameUnderId

-----------------------------------------------------------------------------
\* reuse_or_create_new_sort_id: id 0 is the unsorted order's and no other's.
LEMMA OrderIdFacts ==
  ASSUME OrderInv, NEW o
  PROVE  /\ OrderId(o) \in Nat
         /\ OrderId(o) \in DOMAIN sort_orders => sort_orders[OrderId(o)] = o
         /\ OrderId(o) = UNSORTED_ORDER_ID => o = << >> \/ OrderId(o) \in DOMAIN sort_orders
<1> DEFINE S == DOMAIN sort_orders \cup {UNSORTED_ORDER_ID}
           k == Highest(S) + 1
<1>1. S \subseteq Nat /\ S # {} /\ 0 \in S /\ DOMAIN sort_orders \subseteq S
  BY DEF OrderInv, UNSORTED_ORDER_ID
<1>2. IsFiniteSet(DOMAIN sort_orders)
  BY DEF OrderInv
<1>3. IsFiniteSet(S)
  BY <1>2, KeysFinite
<1> HIDE DEF S
<1>4. k \in Nat /\ k \notin S
  BY <1>1, <1>3, NextIdFree
<1>5. OrderId(o) = IF o = << >> THEN UNSORTED_ORDER_ID
                   ELSE IF EqualOrders(o) # {} THEN CHOOSE i \in EqualOrders(o) : TRUE
                   ELSE k
  BY DEF OrderId, S
<1> HIDE DEF k
<1>6. CASE o = << >>
  BY <1>5, <1>6 DEF OrderInv, UNSORTED_ORDER_ID
<1>7. CASE o # << >> /\ EqualOrders(o) # {}
  <2>1. OrderId(o) \in EqualOrders(o)
    BY <1>5, <1>7
  <2>2. QED
    BY <2>1 DEF EqualOrders, OrderInv
<1>8. CASE o # << >> /\ EqualOrders(o) = {}
  <2>1. OrderId(o) = k
    BY <1>5, <1>8
  <2>2. QED
    BY <1>1, <1>4, <2>1 DEF UNSORTED_ORDER_ID
<1>9. QED
  BY <1>6, <1>7, <1>8

\* add_sort_order
LEMMA AddOrderInv ==
  ASSUME OrderInv, StageInv, NEW o \in Orders,
         \/ OrderId(o) \in DOMAIN sort_orders /\ UNCHANGED sort_orders
         \/ /\ OrderId(o) \notin DOMAIN sort_orders
            /\ sort_orders' = Insert(sort_orders, OrderId(o), o),
         last_added_order_id' = OrderId(o), asked' = [asked EXCEPT !.order = o],
         UNCHANGED default_sort_order_id
  PROVE  OrderInv' /\ SameUnderId(sort_orders, sort_orders')
<1> DEFINE k == OrderId(o)
<1>1. asked'.order = o
  BY DEF StageInv
<1>2. /\ k \in Nat
      /\ k \in DOMAIN sort_orders => sort_orders[k] = o
      /\ k = UNSORTED_ORDER_ID => o = << >> \/ k \in DOMAIN sort_orders
      /\ last_added_order_id' = k
  BY OrderIdFacts
<1>3. \/ k \in DOMAIN sort_orders /\ UNCHANGED sort_orders
      \/ k \notin DOMAIN sort_orders /\ sort_orders' = Insert(sort_orders, k, o)
  OBVIOUS
<1> HIDE DEF k
<1>4. CASE k \in DOMAIN sort_orders /\ UNCHANGED sort_orders
  BY <1>1, <1>2, <1>4 DEF OrderInv, SameUnderId
<1>5. CASE k \notin DOMAIN sort_orders /\ sort_orders' = Insert(sort_orders, k, o)
  <2>1. DOMAIN sort_orders' = DOMAIN sort_orders \cup {k}
    BY <1>5 DEF Insert
  <2>2. IsFiniteSet(DOMAIN sort_orders)
    BY DEF OrderInv
  <2>3. IsFiniteSet(DOMAIN sort_orders')
    BY <2>1, <2>2, KeysFinite
  <2>4. sort_orders'[k] = o /\ \A i \in DOMAIN sort_orders : sort_orders'[i] = sort_orders[i]
    BY <1>5 DEF Insert
  <2>5. QED
    BY <1>1, <1>2, <1>5, <2>1, <2>3, <2>4 DEF OrderInv, SameUnderId
<1>6. QED
  BY <1>3, <1>4, <1>5

-----------------------------------------------------------------------------
(* What a step may never do to the definitions: the action of              *)
(* DefinitionsKept.                                                        *)
KeptStep ==
    /\ SameUnderId(schemas, schemas')
    /\ SameUnderId(partition_specs, partition_specs')
    /\ SameUnderId(sort_orders, sort_orders')
    /\ last_column_id' >= last_column_id
    /\ last_partition_id' >= last_partition_id
    /\ format_version' >= format_version

\* A step that leaves the schemas alone,
LEMMA SchemaFrame ==
  ASSUME SchemaInv, UNCHANGED schemaVars, asked'.schema = asked.schema
  PROVE  SchemaInv' /\ SameUnderId(schemas, schemas') /\ last_column_id' >= last_column_id
BY DEF SchemaInv, schemaVars, SameUnderId

\* the partition specs, but maybe not the default,
LEMMA SpecFrame ==
  ASSUME SpecInv, UNCHANGED <<partition_specs, last_partition_id, disputed, last_added_spec_id>>,
         asked'.spec = asked.spec, format_version' = 1 => format_version = 1,
         default_spec' = default_spec \/
            \E id \in DOMAIN partition_specs : default_spec' = [id |-> id, fields |-> partition_specs[id]]
  PROVE  /\ SpecInv' /\ SameUnderId(partition_specs, partition_specs')
         /\ last_partition_id' >= last_partition_id
<1>1. AllFields' = AllFields
  BY DEF AllFields
<1>2. PartitionFieldIds'
  BY <1>1 DEF SpecInv, PartitionFieldIds, HasSequentialIds, IdsUnique
<1>3. last_added_spec_id' \in DOMAIN partition_specs' =>
         (WithoutIds(partition_specs[last_added_spec_id]) = WithoutIds(asked.spec))'
  BY DEF SpecInv, WithoutIds
<1>4. /\ default_spec' \in [id : Nat, fields : Seq(Bound)]
      /\ default_spec'.id \in DOMAIN partition_specs'
      /\ default_spec'.fields = partition_specs'[default_spec'.id]
  <2>1. CASE default_spec' = default_spec
    BY <2>1 DEF SpecInv
  <2>2. CASE \E id \in DOMAIN partition_specs : default_spec' = [id |-> id, fields |-> partition_specs[id]]
    <3>1. PICK id \in DOMAIN partition_specs : default_spec' = [id |-> id, fields |-> partition_specs[id]]
      BY <2>2
    <3>2. id \in Nat /\ partition_specs[id] \in Seq(Bound)
      BY <3>1 DEF SpecInv
    <3>3. QED
      BY <3>1, <3>2
  <2>3. QED
    BY <2>1, <2>2
<1>5. QED
  BY <1>2, <1>3, <1>4 DEF SpecInv, SameUnderId

\* the sort orders, but maybe not the default.
LEMMA OrderFrame ==
  ASSUME OrderInv, UNCHANGED <<sort_orders, last_added_order_id>>, asked'.order = asked.order,
         default_sort_order_id' \in DOMAIN sort_orders
  PROVE  OrderInv' /\ SameUnderId(sort_orders, sort_orders')
BY DEF OrderInv, SameUnderId

\* What an update does to the stage.
LEMMA StageStep ==
  ASSUME StageInv, Update, stage' \in {"building", "failed"},
         asked' \in [schema : Schemas, spec : Specs, order : Orders], format_version' \in 1..3
  PROVE  StageInv'
BY BoundsAssumption DEF StageInv, Update

\* The first error drops the builder and leaves every definition.
LEMMA ErrorStep ==
  ASSUME DefInv, Update, Error
  PROVE  DefInv' /\ KeptStep
<1>1. stage' \in {"building", "failed"} /\ UNCHANGED <<format_version, schemaVars, specVars, orderVars, asked>>
  BY DEF Error
<1>2. SchemaInv' /\ SameUnderId(schemas, schemas') /\ last_column_id' >= last_column_id
  BY <1>1, SchemaFrame DEF DefInv
<1>3. SpecInv' /\ SameUnderId(partition_specs, partition_specs') /\ last_partition_id' >= last_partition_id
  BY <1>1, SpecFrame DEF DefInv, specVars
<1>4. OrderInv' /\ SameUnderId(sort_orders, sort_orders')
  <2>1. default_sort_order_id' \in DOMAIN sort_orders
    BY <1>1 DEF DefInv, OrderInv, orderVars
  <2>2. QED
    BY <1>1, <2>1, OrderFrame DEF DefInv, orderVars
<1>5. StageInv'
  BY <1>1, StageStep DEF DefInv, StageInv
<1>6. format_version' >= format_version
  BY <1>1 DEF DefInv, StageInv
<1>7. QED
  BY <1>2, <1>3, <1>4, <1>5, <1>6 DEF DefInv, KeptStep

\* add_schema, set_current_schema and remove_schemas.
LEMMA SchemaSteps ==
  ASSUME DefInv,
         \/ \E s \in Schemas : AddSchema(s)
         \/ \E id : SetCurrentSchema(id)
         \/ \E S : RemoveSchemas(S)
  PROVE  DefInv' /\ KeptStep
<1>0. SchemaInv /\ SpecInv /\ OrderInv /\ StageInv
  BY DEF DefInv
<1>1. Update
  BY DEF AddSchema, SetCurrentSchema, RemoveSchemas
<1>2. CASE Error
  BY <1>1, <1>2, ErrorStep
<1>3. ASSUME NEW s \in Schemas, AddSchema(s), ~Error
      PROVE  /\ SchemaInv' /\ SameUnderId(schemas, schemas') /\ last_column_id' >= last_column_id
             /\ UNCHANGED <<stage, format_version, specVars, orderVars>>
             /\ asked'.spec = asked.spec /\ asked'.order = asked.order
             /\ asked' \in [schema : Schemas, spec : Specs, order : Orders]
  <2>1. /\ ReuseSchema(s) \/ CreateSchema(s)
        /\ UNCHANGED <<current_schema_id, stage, format_version, specVars, orderVars>>
    BY <1>3 DEF AddSchema, Done
  <2>2. SchemaInv' /\ SameUnderId(schemas, schemas') /\ last_column_id' >= last_column_id
    BY <1>0, <2>1, AddSchemaInv
  <2>3. asked' = [asked EXCEPT !.schema = s]
    BY <2>1 DEF ReuseSchema, CreateSchema
  <2>4. QED
    BY <1>0, <2>1, <2>2, <2>3 DEF StageInv
<1>4. ASSUME NEW id, SetCurrentSchema(id), ~Error
      PROVE  /\ SchemaInv' /\ SameUnderId(schemas, schemas') /\ last_column_id' >= last_column_id
             /\ UNCHANGED <<stage, format_version, specVars, orderVars, asked>>
  <2>1. /\ UNCHANGED <<stage, schemas, last_column_id, last_added_schema_id, format_version,
                        specVars, orderVars, asked>>
        /\ current_schema_id' \in DOMAIN schemas
    BY <1>4 DEF SetCurrentSchema, Done
  <2>2. QED
    BY <1>0, <2>1 DEF SchemaInv, SameUnderId
<1>5. ASSUME NEW S, RemoveSchemas(S), ~Error
      PROVE  /\ SchemaInv' /\ SameUnderId(schemas, schemas') /\ last_column_id' >= last_column_id
             /\ UNCHANGED <<stage, format_version, specVars, orderVars, asked>>
  <2>1. /\ UNCHANGED <<stage, current_schema_id, last_column_id, last_added_schema_id,
                        format_version, specVars, orderVars, asked>>
        /\ current_schema_id \notin S /\ schemas' = Retain(schemas, DOMAIN schemas \ S)
    BY <1>5 DEF RemoveSchemas, Done
  <2>2. SchemaInv' /\ SameUnderId(schemas, schemas')
    BY <1>0, <2>1, RemoveSchemasInv
  <2>3. last_column_id' >= last_column_id
    BY <1>0, <2>1 DEF SchemaInv
  <2>4. QED
    BY <2>1, <2>2, <2>3
<1>6. CASE ~Error
  <2>1. /\ SchemaInv' /\ SameUnderId(schemas, schemas') /\ last_column_id' >= last_column_id
        /\ UNCHANGED <<stage, format_version, specVars, orderVars>>
        /\ asked'.spec = asked.spec /\ asked'.order = asked.order
        /\ asked' \in [schema : Schemas, spec : Specs, order : Orders]
    <3>1. CASE \E s \in Schemas : AddSchema(s)
      BY <1>3, <1>6, <3>1
    <3>2. CASE \E id : SetCurrentSchema(id)
      BY <1>0, <1>4, <1>6, <3>2 DEF StageInv
    <3>3. CASE \E S : RemoveSchemas(S)
      BY <1>0, <1>5, <1>6, <3>3 DEF StageInv
    <3>4. QED
      BY <3>1, <3>2, <3>3
  <2>2. SpecInv' /\ SameUnderId(partition_specs, partition_specs') /\ last_partition_id' >= last_partition_id
    BY <1>0, <2>1, SpecFrame DEF specVars
  <2>3. OrderInv' /\ SameUnderId(sort_orders, sort_orders')
    <3>1. default_sort_order_id' \in DOMAIN sort_orders
      BY <1>0, <2>1 DEF OrderInv, orderVars
    <3>2. QED
      BY <1>0, <2>1, <3>1, OrderFrame DEF orderVars
  <2>4. stage' \in {"building", "failed"} /\ format_version' \in 1..3 /\ format_version' >= format_version
    BY <1>0, <1>1, <2>1 DEF StageInv, Update
  <2>5. StageInv'
    BY <1>0, <1>1, <2>1, <2>4, StageStep
  <2>6. QED
    BY <2>1, <2>2, <2>3, <2>4, <2>5 DEF DefInv, KeptStep
<1>7. QED
  BY <1>2, <1>6

\* add_partition_spec, set_default_partition_spec and remove_partition_specs.
LEMMA SpecSteps ==
  ASSUME DefInv,
         \/ \E u \in Specs : AddPartitionSpec(u)
         \/ \E id : SetDefaultPartitionSpec(id)
         \/ \E S : RemovePartitionSpecs(S)
  PROVE  DefInv' /\ KeptStep
<1>0. SchemaInv /\ SpecInv /\ OrderInv /\ StageInv
  BY DEF DefInv
<1>1. Update
  BY DEF AddPartitionSpec, SetDefaultPartitionSpec, RemovePartitionSpecs
<1>2. CASE Error
  BY <1>1, <1>2, ErrorStep
<1>3. ASSUME NEW u \in Specs, AddPartitionSpec(u), ~Error
      PROVE  /\ SpecInv' /\ SameUnderId(partition_specs, partition_specs')
             /\ last_partition_id' >= last_partition_id
             /\ UNCHANGED <<stage, format_version, schemaVars, orderVars>>
             /\ asked'.schema = asked.schema /\ asked'.order = asked.order
             /\ asked' \in [schema : Schemas, spec : Specs, order : Orders]
  <2>w. PICK w \in Lent(u) :
        /\ NoRedundantPartitions(w) /\ IdsUnique(w)
        /\ \E b \in SetFieldIds(w) :
              /\ ~Unnumberable(b)
              /\ ReuseSpec(b) \/ CreateSpec(u, b)
              /\ last_added_spec_id' = SpecId(b)
              /\ asked' = [asked EXCEPT !.spec = u]
              /\ UNCHANGED <<stage, default_spec, format_version, schemaVars, orderVars>>
    BY <1>3 DEF AddPartitionSpec, SpecBinds, Done
  <2>1. PICK b \in SetFieldIds(w) :
        /\ ~Unnumberable(b)
        /\ ReuseSpec(b) \/ CreateSpec(u, b)
        /\ last_added_spec_id' = SpecId(b)
        /\ asked' = [asked EXCEPT !.spec = u]
        /\ UNCHANGED <<stage, default_spec, format_version, schemaVars, orderVars>>
    BY <2>w
  <2>2. /\ SpecInv' /\ SameUnderId(partition_specs, partition_specs')
        /\ last_partition_id' >= last_partition_id
    BY <1>0, <2>w, <2>1, AddSpecInv
  <2>3. QED
    BY <1>0, <2>1, <2>2 DEF StageInv
<1>4. ASSUME NEW id, SetDefaultPartitionSpec(id), ~Error
      PROVE  /\ SpecInv' /\ SameUnderId(partition_specs, partition_specs')
             /\ last_partition_id' >= last_partition_id
             /\ UNCHANGED <<stage, format_version, schemaVars, orderVars, asked>>
  <2>1. /\ UNCHANGED <<stage, partition_specs, last_partition_id, disputed, last_added_spec_id,
                        format_version, schemaVars, orderVars, asked>>
        /\ \/ default_spec' = default_spec
           \/ \E i \in DOMAIN partition_specs : default_spec' = [id |-> i, fields |-> partition_specs[i]]
    BY <1>4 DEF SetDefaultPartitionSpec, Done
  <2>2. QED
    BY <1>0, <2>1, SpecFrame
<1>5. ASSUME NEW S, RemovePartitionSpecs(S), ~Error
      PROVE  /\ SpecInv' /\ SameUnderId(partition_specs, partition_specs')
             /\ last_partition_id' >= last_partition_id
             /\ UNCHANGED <<stage, format_version, schemaVars, orderVars, asked>>
  <2>1. /\ UNCHANGED <<stage, default_spec, last_partition_id, disputed, last_added_spec_id,
                        format_version, schemaVars, orderVars, asked>>
        /\ default_spec.id \notin S
        /\ partition_specs' = Retain(partition_specs, DOMAIN partition_specs \ S)
    BY <1>5 DEF RemovePartitionSpecs, Done
  <2>2. SpecInv' /\ SameUnderId(partition_specs, partition_specs')
    BY <1>0, <2>1, RemoveSpecsInv
  <2>3. last_partition_id' >= last_partition_id
    BY <1>0, <2>1 DEF SpecInv
  <2>4. QED
    BY <2>1, <2>2, <2>3
<1>6. CASE ~Error
  <2>1. /\ SpecInv' /\ SameUnderId(partition_specs, partition_specs')
        /\ last_partition_id' >= last_partition_id
        /\ UNCHANGED <<stage, format_version, schemaVars, orderVars>>
        /\ asked'.schema = asked.schema /\ asked'.order = asked.order
        /\ asked' \in [schema : Schemas, spec : Specs, order : Orders]
    <3>1. CASE \E u \in Specs : AddPartitionSpec(u)
      BY <1>3, <1>6, <3>1
    <3>2. CASE \E id : SetDefaultPartitionSpec(id)
      BY <1>0, <1>4, <1>6, <3>2 DEF StageInv
    <3>3. CASE \E S : RemovePartitionSpecs(S)
      BY <1>0, <1>5, <1>6, <3>3 DEF StageInv
    <3>4. QED
      BY <3>1, <3>2, <3>3
  <2>2. SchemaInv' /\ SameUnderId(schemas, schemas') /\ last_column_id' >= last_column_id
    BY <1>0, <2>1, SchemaFrame
  <2>3. OrderInv' /\ SameUnderId(sort_orders, sort_orders')
    <3>1. default_sort_order_id' \in DOMAIN sort_orders
      BY <1>0, <2>1 DEF OrderInv, orderVars
    <3>2. QED
      BY <1>0, <2>1, <3>1, OrderFrame DEF orderVars
  <2>4. stage' \in {"building", "failed"} /\ format_version' \in 1..3 /\ format_version' >= format_version
    BY <1>0, <1>1, <2>1 DEF StageInv, Update
  <2>5. StageInv'
    BY <1>0, <1>1, <2>1, <2>4, StageStep
  <2>6. QED
    BY <2>1, <2>2, <2>3, <2>4, <2>5 DEF DefInv, KeptStep
<1>7. QED
  BY <1>2, <1>6

\* add_sort_order, set_default_sort_order and upgrade_format_version.
LEMMA OrderSteps ==
  ASSUME DefInv,
         \/ \E o \in Orders : AddSortOrder(o)
         \/ \E id : SetDefaultSortOrder(id)
         \/ \E v \in 1..3 : UpgradeFormatVersion(v)
  PROVE  DefInv' /\ KeptStep
<1>0. SchemaInv /\ SpecInv /\ OrderInv /\ StageInv
  BY DEF DefInv
<1>1. Update
  BY DEF AddSortOrder, SetDefaultSortOrder, UpgradeFormatVersion
<1>2. CASE Error
  BY <1>1, <1>2, ErrorStep
<1> DEFINE Rest ==
       /\ OrderInv' /\ SameUnderId(sort_orders, sort_orders')
       /\ UNCHANGED <<stage, schemaVars, specVars>>
       /\ format_version' \in 1..3 /\ format_version' >= format_version
       /\ asked'.schema = asked.schema /\ asked'.spec = asked.spec
       /\ asked' \in [schema : Schemas, spec : Specs, order : Orders]
<1>3. ASSUME NEW o \in Orders, AddSortOrder(o), ~Error
      PROVE  Rest
  <2>1. /\ \/ OrderId(o) \in DOMAIN sort_orders /\ UNCHANGED sort_orders
           \/ /\ OrderId(o) \notin DOMAIN sort_orders
              /\ sort_orders' = Insert(sort_orders, OrderId(o), o)
        /\ last_added_order_id' = OrderId(o)
        /\ asked' = [asked EXCEPT !.order = o]
        /\ UNCHANGED <<stage, default_sort_order_id, format_version, schemaVars, specVars>>
    BY <1>3 DEF AddSortOrder, Done
  <2>2. OrderInv' /\ SameUnderId(sort_orders, sort_orders')
    BY <1>0, <2>1, AddOrderInv
  <2>3. QED
    BY <1>0, <2>1, <2>2 DEF StageInv
<1>4. ASSUME NEW id, SetDefaultSortOrder(id), ~Error
      PROVE  Rest
  <2>1. /\ UNCHANGED <<stage, sort_orders, last_added_order_id, format_version, schemaVars, specVars, asked>>
        /\ default_sort_order_id' \in DOMAIN sort_orders
    BY <1>4 DEF SetDefaultSortOrder, Done
  <2>2. OrderInv' /\ SameUnderId(sort_orders, sort_orders')
    BY <1>0, <2>1, OrderFrame
  <2>3. QED
    BY <1>0, <2>1, <2>2 DEF StageInv
<1>5. ASSUME NEW v \in 1..3, UpgradeFormatVersion(v), ~Error
      PROVE  Rest
  <2>1. /\ v >= format_version /\ format_version' = v
        /\ UNCHANGED <<stage, schemaVars, specVars, orderVars, asked>>
    BY <1>5 DEF UpgradeFormatVersion, Done
  <2>2. default_sort_order_id' \in DOMAIN sort_orders
    BY <1>0, <2>1 DEF OrderInv, orderVars
  <2>3. OrderInv' /\ SameUnderId(sort_orders, sort_orders')
    BY <1>0, <2>1, <2>2, OrderFrame DEF orderVars
  <2>4. QED
    BY <1>0, <2>1, <2>3 DEF StageInv
<1>6. CASE ~Error
  <2>1. Rest
    BY <1>3, <1>4, <1>5, <1>6
  <2>2. SchemaInv' /\ SameUnderId(schemas, schemas') /\ last_column_id' >= last_column_id
    BY <1>0, <2>1, SchemaFrame
  <2>3. format_version' = 1 => format_version = 1
    BY <1>0, <2>1 DEF StageInv
  <2>4. SpecInv' /\ SameUnderId(partition_specs, partition_specs') /\ last_partition_id' >= last_partition_id
    BY <1>0, <2>1, <2>3, SpecFrame DEF specVars
  <2>5. stage' \in {"building", "failed"}
    BY <1>1, <2>1 DEF Update
  <2>6. StageInv'
    BY <1>0, <1>1, <2>1, <2>5, StageStep
  <2>7. QED
    BY <2>1, <2>2, <2>4, <2>6 DEF DefInv, KeptStep
<1>7. QED
  BY <1>2, <1>6

-----------------------------------------------------------------------------
\* build publishes the definitions as they are: the default spec is there.
LEMMA BuildStep ==
  ASSUME DefInv, BuildDefinitions
  PROVE  DefInv' /\ KeptStep
<1>0. SchemaInv /\ SpecInv /\ OrderInv /\ StageInv
  BY DEF DefInv
<1>1. /\ UNCHANGED <<format_version, schemaVars, specVars, orderVars, asked, ops, commits>>
      /\ stage' = "failed" \/ (stage' = "built" /\ DefinitionsFit)
  BY <1>0 DEF BuildDefinitions, Error, SpecInv, specVars
<1>2. SchemaInv' /\ SameUnderId(schemas, schemas') /\ last_column_id' >= last_column_id
  BY <1>0, <1>1, SchemaFrame
<1>3. SpecInv' /\ SameUnderId(partition_specs, partition_specs') /\ last_partition_id' >= last_partition_id
  BY <1>0, <1>1, SpecFrame DEF specVars
<1>4. OrderInv' /\ SameUnderId(sort_orders, sort_orders')
  <2>1. default_sort_order_id' \in DOMAIN sort_orders
    BY <1>0, <1>1 DEF OrderInv, orderVars
  <2>2. QED
    BY <1>0, <1>1, <2>1, OrderFrame DEF orderVars
<1>5. DefinitionsFit => DefinitionsFit'
  BY <1>1 DEF DefinitionsFit, CurrentSchema, SpecBinds, NamesUnique, NoRedundantPartitions, IdsUnique,
              NameFits, SourceFits, OrderBinds, schemaVars, specVars, orderVars
<1>6. StageInv'
  BY <1>0, <1>1, <1>5 DEF StageInv
<1>7. format_version' >= format_version
  BY <1>0, <1>1 DEF StageInv
<1>8. QED
  BY <1>2, <1>3, <1>4, <1>6, <1>7 DEF DefInv, KeptStep

\* The next builder forgets what was added last.
LEMMA BeginStep ==
  ASSUME DefInv, BeginDefinitions
  PROVE  DefInv' /\ KeptStep
<1>0. SchemaInv /\ SpecInv /\ OrderInv /\ StageInv
  BY DEF DefInv
<1>1. None \notin Nat
  BY DEF None
<1>2. SchemaInv' /\ SameUnderId(schemas, schemas') /\ last_column_id' >= last_column_id
  BY <1>0, <1>1 DEF BeginDefinitions, SchemaInv, SameUnderId
<1>3. SpecInv' /\ SameUnderId(partition_specs, partition_specs') /\ last_partition_id' >= last_partition_id
  <2>1. AllFields' = AllFields
    BY DEF BeginDefinitions, AllFields
  <2>2. PartitionFieldIds'
    BY <1>0, <2>1 DEF BeginDefinitions, SpecInv, PartitionFieldIds, HasSequentialIds, IdsUnique
  <2>3. last_added_spec_id' \notin DOMAIN partition_specs'
    BY <1>0, <1>1 DEF BeginDefinitions, SpecInv
  <2>4. QED
    BY <1>0, <2>2, <2>3 DEF BeginDefinitions, SpecInv, SameUnderId
<1>4. OrderInv' /\ SameUnderId(sort_orders, sort_orders')
  BY <1>0, <1>1 DEF BeginDefinitions, OrderInv, SameUnderId
<1>5. StageInv' /\ format_version' >= format_version
  BY <1>0, BoundsAssumption DEF BeginDefinitions, StageInv
<1>6. QED
  BY <1>2, <1>3, <1>4, <1>5 DEF DefInv, KeptStep

\* Every step keeps the invariant and every definition.
LEMMA NextStep ==
  ASSUME DefInv, NextDefinitions
  PROVE  DefInv' /\ KeptStep
<1>1. CASE ApplyDefinition
  BY <1>1, SchemaSteps, SpecSteps, OrderSteps DEF ApplyDefinition
<1>2. CASE BuildDefinitions
  BY <1>2, BuildStep
<1>3. CASE BeginDefinitions
  BY <1>3, BeginStep
<1>4. QED
  BY <1>1, <1>2, <1>3 DEF NextDefinitions

-----------------------------------------------------------------------------
\* A new table's spec is numbered from 1000 on.
LEMMA FreshSpecFacts ==
  ASSUME NEW u \in Specs
  PROVE  LET b == FreshSpec(u)
         IN  /\ b \in Seq(Bound) /\ WithoutIds(b) = WithoutIds(u)
             /\ DOMAIN b = 1..Len(u) /\ Len(u) \in Nat
             /\ \A i \in DOMAIN b : b[i].fid = UNPARTITIONED_LAST_ASSIGNED_ID + i
<1> DEFINE ids == [i \in DOMAIN u |-> UNPARTITIONED_LAST_ASSIGNED_ID + i]
           b == Numbered(u, ids)
<1>1. u \in Seq(Field) /\ DOMAIN u = 1..Len(u) /\ Len(u) \in Nat
  BY SpecsAssumption
<1>2. \A i \in DOMAIN u : ids[i] \in Nat /\ ids[i] = UNPARTITIONED_LAST_ASSIGNED_ID + i
  BY <1>1 DEF UNPARTITIONED_LAST_ASSIGNED_ID
<1> HIDE DEF ids
<1>3. /\ DOMAIN b = DOMAIN u /\ WithoutIds(b) = WithoutIds(u)
      /\ \A i \in DOMAIN u : b[i].fid = ids[i]
      /\ b \in Seq([source : Nat, transform : STRING, name : STRING, fid : Nat])
  BY <1>1, <1>2, NumberedFacts
<1>4. FreshSpec(u) = b
  BY DEF FreshSpec, ids
<1> HIDE DEF b
<1>5. QED
  BY <1>1, <1>2, <1>3, <1>4 DEF Bound

\* A table as TableMetadataBuilder::new creates it.
LEMMA InitInv ==
  ASSUME InitDefinitions
  PROVE  DefInv
<1>1. PICK s \in Schemas, u \in Specs, o \in Orders, v \in 1..3 :
        /\ SpecBinds(FreshSpec(u), s)
        /\ format_version = v
        /\ schemas = [i \in {0} |-> s]
        /\ current_schema_id = 0
        /\ last_column_id = Highest(Ids(s) \cup {0})
        /\ last_added_schema_id = 0
        /\ partition_specs = [i \in {0} |-> FreshSpec(u)]
        /\ default_spec = [id |-> 0, fields |-> FreshSpec(u)]
        /\ last_partition_id = UNPARTITIONED_LAST_ASSIGNED_ID + Len(u)
        /\ disputed = {}
        /\ last_added_spec_id = 0
        /\ sort_orders = [i \in {IF o = << >> THEN UNSORTED_ORDER_ID ELSE 1} |-> o]
        /\ default_sort_order_id = IF o = << >> THEN UNSORTED_ORDER_ID ELSE 1
        /\ last_added_order_id = IF o = << >> THEN UNSORTED_ORDER_ID ELSE 1
        /\ asked = [schema |-> s, spec |-> u, order |-> o]
        /\ stage = "building"
        /\ ops = 0
        /\ commits = 0
  BY DEF InitDefinitions
<1>2. \A k : IsFiniteSet({k})
  BY FS_Singleton
<1>3. SchemaInv
  <2>1. DOMAIN schemas = {0} /\ schemas[0] = s
    BY <1>1
  <2>2. IsFiniteSet(DOMAIN schemas)
    BY <1>2, <2>1
  <2>3. last_column_id \in Nat /\ \A c \in s : c.id <= last_column_id
    BY <1>1, ColumnsNumbered
  <2>4. asked.schema = s
    BY <1>1
  <2>5. current_schema_id = 0 /\ last_added_schema_id = 0
    BY <1>1
  <2>6. \A i \in DOMAIN schemas : schemas[i] \in Schemas /\ \A c \in schemas[i] : c.id <= last_column_id
    BY <2>1, <2>3
  <2>7. QED
    BY <2>1, <2>2, <2>3, <2>4, <2>5, <2>6 DEF SchemaInv
<1>4. SpecInv
  <2> DEFINE b == FreshSpec(u)
  <2>1. /\ b \in Seq(Bound) /\ WithoutIds(b) = WithoutIds(u)
        /\ DOMAIN b = 1..Len(u) /\ Len(u) \in Nat
        /\ \A i \in DOMAIN b : b[i].fid = UNPARTITIONED_LAST_ASSIGNED_ID + i
    BY FreshSpecFacts
  <2>0. NoRedundantPartitions(b) /\ IdsUnique(b)
    BY <1>1 DEF SpecBinds
  <2>2. partition_specs = [i \in {0} |-> b] /\ default_spec = [id |-> 0, fields |-> b]
    BY <1>1
  <2> HIDE DEF b
  <2>3. DOMAIN partition_specs = {0} /\ partition_specs[0] = b
    BY <2>2
  <2>4. IsFiniteSet(DOMAIN partition_specs)
    BY <1>2, <2>3
  <2>5. default_spec \in [id : Nat, fields : Seq(Bound)] /\ default_spec.id = 0 /\ default_spec.fields = b
    BY <2>1, <2>2
  <2>6. last_partition_id \in Nat
    BY <1>1, <2>1 DEF UNPARTITIONED_LAST_ASSIGNED_ID
  <2>7. \A f \in AllFields : \E i \in 1..Len(u) : f = b[i]
    BY <2>1, <2>3 DEF AllFields
  <2>8. \A i, j \in 1..Len(u) : b[i].fid = b[j].fid <=> Pair(b[i]) = Pair(b[j])
    <3>1. TAKE i, j \in 1..Len(u)
    <3>2. CASE i = j
      BY <3>2
    <3>3. CASE i # j
      <4>1. b[i].fid # b[j].fid
        BY <2>1, <3>3 DEF UNPARTITIONED_LAST_ASSIGNED_ID
      <4>2. Pair(b[i]) # Pair(b[j])
        BY <2>0, <2>1, <3>3 DEF NoRedundantPartitions
      <4>3. QED
        BY <4>1, <4>2
    <3>4. QED
      BY <3>2, <3>3
  <2>9. \A i \in 1..Len(u) : b[i].fid <= last_partition_id
    BY <1>1, <2>1 DEF UNPARTITIONED_LAST_ASSIGNED_ID
  <2>10. HasSequentialIds(b)
    BY <2>1 DEF HasSequentialIds
  <2>11. PartitionFieldIds
    <3>1. \A f, g \in AllFields : f.fid = g.fid <=> Pair(f) = Pair(g)
      BY <2>7, <2>8
    <3>2. \A f \in AllFields : f.fid <= last_partition_id
      BY <2>7, <2>9
    <3>3. QED
      BY <2>0, <2>3, <2>10, <3>1, <3>2 DEF PartitionFieldIds
  <2>12. last_added_spec_id = 0 /\ asked.spec = u
    BY <1>1
  <2>13. QED
    BY <2>1, <2>3, <2>4, <2>5, <2>6, <2>11, <2>12 DEF SpecInv
<1>5. OrderInv
  <2> DEFINE k == IF o = << >> THEN UNSORTED_ORDER_ID ELSE 1
  <2>1. /\ sort_orders = [i \in {k} |-> o] /\ default_sort_order_id = k /\ last_added_order_id = k
        /\ k \in Nat /\ (k = UNSORTED_ORDER_ID => o = << >>) /\ asked.order = o
    BY <1>1 DEF UNSORTED_ORDER_ID
  <2> HIDE DEF k
  <2>2. DOMAIN sort_orders = {k} /\ sort_orders[k] = o
    BY <2>1
  <2>3. IsFiniteSet(DOMAIN sort_orders)
    BY <1>2, <2>2
  <2>4. QED
    BY <2>1, <2>2, <2>3 DEF OrderInv
<1>6. StageInv
  BY <1>1, BoundsAssumption DEF StageInv
<1>7. QED
  BY <1>3, <1>4, <1>5, <1>6 DEF DefInv

\* A step that changes nothing keeps the invariant too.
LEMMA StutterInv ==
  ASSUME DefInv, UNCHANGED defVars
  PROVE  DefInv'
<1>0. SchemaInv /\ SpecInv /\ OrderInv /\ StageInv
  BY DEF DefInv
<1>1. UNCHANGED <<format_version, schemaVars, specVars, orderVars, asked, stage, ops, commits>>
  BY DEF defVars
<1>2. SchemaInv'
  BY <1>0, <1>1, SchemaFrame
<1>3. SpecInv'
  BY <1>0, <1>1, SpecFrame DEF specVars
<1>4. default_sort_order_id' \in DOMAIN sort_orders
  BY <1>0, <1>1 DEF OrderInv, orderVars
<1>5. OrderInv'
  BY <1>0, <1>1, <1>4, OrderFrame DEF orderVars
<1>6. DefinitionsFit => DefinitionsFit'
  BY <1>1 DEF DefinitionsFit, CurrentSchema, SpecBinds, NamesUnique, NoRedundantPartitions, IdsUnique,
              NameFits, SourceFits, OrderBinds, schemaVars, specVars, orderVars
<1>7. StageInv'
  BY <1>0, <1>1, <1>6 DEF StageInv
<1>8. QED
  BY <1>2, <1>3, <1>5, <1>7 DEF DefInv

\* DefInv holds in every reachable state of the builder.
THEOREM DefInvariant == SpecDefinitions => []DefInv
<1>1. InitDefinitions => DefInv
  BY InitInv
<1>2. DefInv /\ [NextDefinitions]_defVars => DefInv'
  BY NextStep, StutterInv
<1>3. QED
  BY <1>1, <1>2, PTL DEF SpecDefinitions

\* The builder's fields have their types, and the ids of the current schema,
\* the default spec and the default order resolve after every update, for any
\* schemas, specs and orders (table_metadata_builder.rs, TableUpdate::apply).
THEOREM DefinitionsTypeCorrect == SpecDefinitions => []DefinitionsTypeOK
<1>1. DefInv => DefinitionsTypeOK
  BY DEF DefInv, SchemaInv, SpecInv, OrderInv, StageInv, DefinitionsTypeOK
<1>2. QED
  BY <1>1, DefInvariant, PTL

\* Whatever was added, found or removed before, the id that -1 stands for is
\* that of the definition last passed to add_schema, add_partition_spec or
\* add_sort_order, as long as it exists.
THEOREM LastAddedMeansAsked == SpecDefinitions => []LastAddedAsAsked
<1>1. DefInv => LastAddedAsAsked
  BY DEF DefInv, SchemaInv, SpecInv, OrderInv, LastAddedAsAsked
<1>2. QED
  BY <1>1, DefInvariant, PTL

\* A spec build accepted reads columns the schema has.
LEMMA BoundSources ==
  ASSUME NEW u, NEW s, SpecBinds(u, s)
  PROVE  \A i \in DOMAIN u : u[i].source \in Ids(s) /\ NameFits(u[i], s)
BY DEF SpecBinds, SourceFits, Ids

\* What build returns can be used by readers and writers: the default spec is
\* the spec under its id, spec and order fit the current schema, and new
\* columns will be numbered above all old ones.
THEOREM BuiltIsUsable == SpecDefinitions => []BuiltUsable
<1>1. ASSUME DefInv PROVE BuiltUsable
  <2>1. SUFFICES ASSUME stage = "built"
        PROVE  /\ partition_specs[default_spec.id] = default_spec.fields
               /\ \A i \in DOMAIN default_spec.fields :
                     /\ default_spec.fields[i].source \in Ids(CurrentSchema)
                     /\ NameFits(default_spec.fields[i], CurrentSchema)
               /\ OrderBinds(sort_orders[default_sort_order_id], CurrentSchema)
               /\ \A i \in DOMAIN schemas : \A c \in schemas[i] : c.id <= last_column_id
    BY DEF BuiltUsable
  <2>2. /\ SpecBinds(default_spec.fields, CurrentSchema)
        /\ OrderBinds(sort_orders[default_sort_order_id], CurrentSchema)
    BY <1>1, <2>1 DEF DefInv, StageInv, DefinitionsFit
  <2>3. \A i \in DOMAIN default_spec.fields :
           /\ default_spec.fields[i].source \in Ids(CurrentSchema)
           /\ NameFits(default_spec.fields[i], CurrentSchema)
    BY <2>2, BoundSources
  <2>4. /\ partition_specs[default_spec.id] = default_spec.fields
        /\ \A i \in DOMAIN schemas : \A c \in schemas[i] : c.id <= last_column_id
    BY <1>1 DEF DefInv, SchemaInv, SpecInv
  <2>5. QED
    BY <2>2, <2>3, <2>4
<1>2. QED
  BY <1>1, DefInvariant, PTL

\* A spec never has an id twice, and over all specs of a table an id means one
\* source and transform and they one id, whatever specs were added and removed
\* in between and whatever ids callers supplied, except where a supplied id
\* contradicted the fields the table had (reuse_partition_field_ids,
\* set_field_ids, add_partition_spec).
THEOREM FieldIdsIdentify == SpecDefinitions => []PartitionFieldIds
<1>1. DefInv => PartitionFieldIds
  BY DEF DefInv, SpecInv
<1>2. QED
  BY <1>1, DefInvariant, PTL

\* No update, build or next commit changes a schema, spec or order under its
\* id or lowers a counter.
THEOREM DefinitionsNeverChange == SpecDefinitions => DefinitionsKept
<1>1. DefInv /\ [NextDefinitions]_defVars => [KeptStep]_defVars
  BY NextStep
<1>2. SpecDefinitions => [][KeptStep]_defVars
  BY <1>1, DefInvariant, PTL DEF SpecDefinitions
<1>3. QED
  BY <1>2 DEF DefinitionsKept, KeptStep

-----------------------------------------------------------------------------
(* The snapshots, their log and their row ids. *)
(* Row ids are given out in order, and none before v3. *)
RowInv ==
    /\ RowIdsDisjoint
    /\ version < 3 => \A i \in DOMAIN snapshots : snapshots[i].first = NoRow

(* What holds of the log in the midst of a commit.  Pushes are told apart; *)
(* the last one is the current snapshot's, if there is one; only a removal *)
(* leaves an entry without its snapshot.                                   *)
LogShape ==
    /\ \A d, e \in snapshot_log : d.n = e.n => d = e
    /\ current_snapshot_id # NoSnapshot =>
          \E e \in snapshot_log : IsLast(e, snapshot_log) /\ e.id = current_snapshot_id
    /\ ~removedAny => \A e \in snapshot_log : e.id \in DOMAIN snapshots

(* What earlier commits published is there from the first entry on, and is *)
(* not of this commit; what this commit logged of its own is on main.      *)
LogPast ==
    /\ \A p \in published : (\E e \in snapshot_log : e.n <= p.n) =>
          \E e \in snapshot_log : e.n = p.n /\ e.id = p.id
    /\ phase = "building" => \A p \in published : p.id \notin added
    /\ phase = "building" => \A e \in snapshot_log : e.own =>
          (\E p \in published : p.id = e.id) \/ e.id \in added \cap mainSet

HistInv == HistoryTypeOK /\ RowInv /\ LogShape /\ LogPast /\ LogIsHistory

-----------------------------------------------------------------------------
\* A snapshot that add_snapshot takes.
LEMMA SendableFacts ==
  ASSUME HistoryTypeOK, NEW s \in Sendable
  PROVE  /\ s \in Snapshot
         /\ s.ts <= clock + Skew
         /\ s.rows \in Nat
         /\ s.first = NoRow \/ (version >= 3 /\ s.first \in Nat /\ s.first <= next_row_id)
BY HistoryAssumption DEF Sendable, Snapshot, HistoryTypeOK, NoRow

\* In the steps of a builder every log invariant about built tables is void.
LEMMA NotBuilt ==
  ASSUME phase' # "built"
  PROVE  LogIsHistory'
BY DEF LogIsHistory, HistoryGapFree, NoPhantomHistory, LogFollowsMain

-----------------------------------------------------------------------------
\* An update that is refused leaves everything but the phase.
LEMMA RejectStep ==
  ASSUME HistInv, Reject, UNCHANGED timeVars, updates' \in 0..MaxUpdates, UNCHANGED builds
  PROVE  HistInv'
<1>1. UNCHANGED <<tableVars, changeVars, ghostVars>> /\ phase' = "failed"
  BY DEF Reject
<1>2. HistoryTypeOK'
  BY <1>1 DEF HistInv, HistoryTypeOK, tableVars, changeVars, ghostVars, timeVars
<1>3. RowInv'
  BY <1>1 DEF HistInv, RowInv, RowIdsDisjoint, tableVars
<1>4. LogShape'
  BY <1>1 DEF HistInv, LogShape, IsLast, tableVars, changeVars
<1>5. LogPast'
  BY <1>1 DEF HistInv, LogPast, tableVars, changeVars, ghostVars
<1>6. LogIsHistory'
  BY <1>1, NotBuilt
<1>7. QED
  BY <1>2, <1>3, <1>4, <1>5, <1>6 DEF HistInv

\* add_snapshot gives the rows the ids from next_row_id on.
LEMMA TakeRows ==
  ASSUME HistInv, NEW id \in SnapshotIds, NEW s \in Sendable,
         id \notin used, ~Refused(s), TakeSnapshot(id, s)
  PROVE  RowInv' /\ next_row_id' \in 0..MaxRowId
<1>1. /\ DOMAIN snapshots' = DOMAIN snapshots \cup {id} /\ snapshots'[id] = s
      /\ \A i \in DOMAIN snapshots : snapshots'[i] = snapshots[i]
      /\ id \notin DOMAIN snapshots
  BY DEF TakeSnapshot, PutAt, HistInv, HistoryTypeOK
<1>2. /\ s \in Snapshot /\ s.rows \in Nat
      /\ s.first = NoRow \/ (version >= 3 /\ s.first \in Nat /\ s.first <= next_row_id)
  BY SendableFacts DEF HistInv
<1>3. version' = version /\ version \in 1..3 /\ next_row_id \in 0..MaxRowId /\ MaxRowId \in Nat
  BY HistoryAssumption DEF TakeSnapshot, HistInv, HistoryTypeOK
<1>4. \A i \in DOMAIN snapshots : snapshots[i].rows \in Nat /\ snapshots[i].first \in Nat \cup {NoRow}
  BY DEF HistInv, HistoryTypeOK, Snapshot
<1>5. \A i \in DOMAIN snapshots : snapshots[i].first # NoRow =>
         snapshots[i].first + snapshots[i].rows <= next_row_id
  BY DEF HistInv, RowInv, RowIdsDisjoint
<1>6. CASE version >= 3
  <2>1. s.first # NoRow /\ s.first = next_row_id /\ next_row_id' = next_row_id + s.rows
        /\ next_row_id' \in 0..MaxRowId
    BY <1>2, <1>3, <1>6 DEF TakeSnapshot, Refused, RowIdsTaken, NoRow
  <2>2. \A i \in DOMAIN snapshots' : snapshots'[i].first # NoRow =>
           snapshots'[i].first + snapshots'[i].rows <= next_row_id'
    <3>1. TAKE i \in DOMAIN snapshots'
    <3>2. CASE i = id
      BY <1>1, <1>2, <1>3, <2>1, <3>2
    <3>3. CASE i # id
      BY <1>1, <1>2, <1>3, <1>4, <1>5, <2>1, <3>3
    <3>4. QED
      BY <3>2, <3>3
  <2>3. \A a, b \in DOMAIN snapshots' :
           snapshots'[a].first # NoRow /\ snapshots'[b].first # NoRow /\ a # b =>
              \/ snapshots'[a].first + snapshots'[a].rows <= snapshots'[b].first
              \/ snapshots'[b].first + snapshots'[b].rows <= snapshots'[a].first
    <3>1. TAKE a, b \in DOMAIN snapshots'
    <3>2. CASE a # id /\ b # id
      BY <1>1, <3>2 DEF HistInv, RowInv, RowIdsDisjoint
    <3>3. CASE a = id /\ b # id
      BY <1>1, <1>5, <2>1, <3>3
    <3>4. CASE a # id /\ b = id
      BY <1>1, <1>5, <2>1, <3>4
    <3>5. QED
      BY <3>2, <3>3, <3>4
  <2>4. RowIdsDisjoint'
    BY <2>2, <2>3 DEF RowIdsDisjoint
  <2>5. QED
    BY <1>3, <1>6, <2>1, <2>4 DEF RowInv
<1>7. CASE version < 3
  <2>1. s.first = NoRow /\ next_row_id' = next_row_id
    BY <1>2, <1>3, <1>7 DEF TakeSnapshot
  <2>2. \A i \in DOMAIN snapshots' : snapshots'[i].first = NoRow
    BY <1>1, <1>7, <2>1 DEF HistInv, RowInv
  <2>3. QED
    BY <1>3, <2>1, <2>2 DEF RowInv, RowIdsDisjoint
<1>8. QED
  BY <1>3, <1>6, <1>7

\* What the two updates that add a snapshot do to log, current snapshot and main.
TakeLog(id, s) ==
    \/ UNCHANGED <<current_snapshot_id, snapshot_log, mainSet, pushes>>
    \/ LogOwn(id, s)

\* add_snapshot, alone or within set_branch_snapshot.
LEMMA TakeStep ==
  ASSUME HistInv, Receive, NEW id \in SnapshotIds, NEW s \in Sendable,
         id \notin used, ~Refused(s), TakeSnapshot(id, s), TakeLog(id, s),
         refs' = refs \/ \E r \in Refs : refs' = PutAt(refs, r, id)
  PROVE  HistInv'
<1>1. /\ DOMAIN snapshots' = DOMAIN snapshots \cup {id} /\ snapshots'[id] = s
      /\ \A i \in DOMAIN snapshots : snapshots'[i] = snapshots[i]
      /\ id \notin DOMAIN snapshots
  BY DEF TakeSnapshot, PutAt, HistInv, HistoryTypeOK
<1>2. s \in Snapshot /\ s.seq \in Nat /\ s.ts \in Nat
  BY SendableFacts DEF HistInv, Snapshot
<1>3. /\ phase = "building" /\ phase' = "building"
      /\ UNCHANGED <<version, removedAny, published, timeVars, builds>>
      /\ updates' \in 0..MaxUpdates
      /\ last_sequence_number' = s.seq /\ builder_ms' = s.ts
      /\ added' = added \cup {id} /\ used' = used \cup {id}
  BY HistoryAssumption DEF Receive, TakeSnapshot, HistInv, HistoryTypeOK
<1>4. RowInv' /\ next_row_id' \in 0..MaxRowId
  BY TakeRows
<1> DEFINE new == [n |-> pushes + 1, id |-> id, ts |-> s.ts, own |-> TRUE]
<1>5. \/ UNCHANGED <<current_snapshot_id, snapshot_log, mainSet, pushes>>
      \/ /\ current_snapshot_id' = id /\ pushes' = pushes + 1
         /\ snapshot_log' = snapshot_log \cup {new} /\ mainSet' = mainSet \cup {id}
  BY DEF TakeLog, LogOwn
<1>6. new.n = pushes + 1 /\ new.id = id /\ new.ts = s.ts /\ new.own = TRUE
  OBVIOUS
<1>7. pushes \in Nat => new \in [n : 1..(pushes + 1), id : {id}, ts : Nat, own : BOOLEAN]
  BY <1>2
<1> HIDE DEF new
<1>8. HistoryTypeOK'
  <2>1. DOMAIN refs' \subseteq Refs /\ \A r \in DOMAIN refs' : refs'[r] \in DOMAIN snapshots'
    <3>1. CASE refs' = refs
      BY <1>1, <3>1 DEF HistInv, HistoryTypeOK
    <3>2. CASE \E r \in Refs : refs' = PutAt(refs, r, id)
      BY <1>1, <3>2 DEF HistInv, HistoryTypeOK, PutAt
    <3>3. QED
      BY <3>1, <3>2
  <2>2. snapshot_log' \subseteq [n : 1..pushes', id : used', ts : Nat, own : BOOLEAN] /\ pushes' \in Nat
    BY <1>3, <1>5, <1>7 DEF HistInv, HistoryTypeOK
  <2>3. DOMAIN snapshots' \subseteq used' /\ \A i \in DOMAIN snapshots' : snapshots'[i] \in Snapshot
    BY <1>1, <1>2, <1>3 DEF HistInv, HistoryTypeOK
  <2>4. /\ current_snapshot_id' \in SnapshotIds \cup {NoSnapshot}
        /\ added' \subseteq used' /\ mainSet' \subseteq used' /\ used' \subseteq SnapshotIds
    BY <1>3, <1>5 DEF HistInv, HistoryTypeOK
  <2>5. published' \subseteq [n : 1..pushes', id : used']
    BY <1>3, <1>5 DEF HistInv, HistoryTypeOK
  <2>6. QED
    BY <1>2, <1>3, <1>4, <2>1, <2>2, <2>3, <2>4, <2>5 DEF HistInv, HistoryTypeOK, timeVars
<1>9. /\ \A e \in snapshot_log : e.n \in 1..pushes /\ e.id \in used
      /\ \A p \in published : p.n \in 1..pushes /\ p.id \in used
      /\ pushes \in Nat
  BY DEF HistInv, HistoryTypeOK
<1>10. LogShape'
  <2>1. CASE UNCHANGED <<current_snapshot_id, snapshot_log, mainSet, pushes>>
    BY <1>1, <1>3, <2>1 DEF HistInv, LogShape, IsLast
  <2>2. CASE /\ current_snapshot_id' = id /\ pushes' = pushes + 1
             /\ snapshot_log' = snapshot_log \cup {new} /\ mainSet' = mainSet \cup {id}
    <3>1. \A d, e \in snapshot_log' : d.n = e.n => d = e
      BY <1>6, <1>9, <2>2 DEF HistInv, LogShape
    <3>2. IsLast(new, snapshot_log') /\ new.id = current_snapshot_id'
      BY <1>6, <1>9, <2>2 DEF IsLast
    <3>3. ~removedAny' => \A e \in snapshot_log' : e.id \in DOMAIN snapshots'
      BY <1>1, <1>3, <1>6, <2>2 DEF HistInv, LogShape
    <3>4. \E e \in snapshot_log' : IsLast(e, snapshot_log') /\ e.id = current_snapshot_id'
      BY <2>2, <3>2
    <3>5. QED
      BY <3>1, <3>3, <3>4 DEF LogShape, IsLast
  <2>3. QED
    BY <1>5, <2>1, <2>2
<1>11. LogPast'
  <2>1. \A p \in published' : (\E e \in snapshot_log' : e.n <= p.n) =>
           \E e \in snapshot_log' : e.n = p.n /\ e.id = p.id
    BY <1>3, <1>5, <1>6, <1>9 DEF HistInv, LogPast
  <2>2. \A p \in published' : p.id \notin added'
    BY <1>3, <1>9 DEF HistInv, LogPast
  <2>3. \A e \in snapshot_log' : e.own =>
          (\E p \in published' : p.id = e.id) \/ e.id \in added' \cap mainSet'
    BY <1>3, <1>5, <1>6 DEF HistInv, LogPast
  <2>4. QED
    BY <2>1, <2>2, <2>3 DEF LogPast
<1>12. LogIsHistory'
  BY <1>3, NotBuilt
<1>13. QED
  BY <1>4, <1>8, <1>10, <1>11, <1>12 DEF HistInv

\* remove_snapshots leaves the log with entries of snapshots that are gone,
\* and says so.
LEMMA RemoveStep ==
  ASSUME HistInv, NEW S, RemoveSnapshots(S)
  PROVE  HistInv'
<1>1. /\ DOMAIN snapshots' = DOMAIN snapshots \ S
      /\ \A i \in DOMAIN snapshots' : snapshots'[i] = snapshots[i]
  BY DEF RemoveSnapshots, KeepAt
<1>2. /\ DOMAIN refs' \subseteq DOMAIN refs
      /\ \A r \in DOMAIN refs' : refs'[r] = refs[r] /\ refs'[r] \in DOMAIN snapshots'
  BY <1>1 DEF RemoveSnapshots, KeepAt
<1>3. /\ phase = "building" /\ phase' = "building" /\ updates' \in 0..MaxUpdates
      /\ UNCHANGED <<version, current_snapshot_id, snapshot_log, last_sequence_number,
                     next_row_id, builder_ms, added, mainSet, ghostVars, timeVars, builds>>
  BY HistoryAssumption DEF RemoveSnapshots, Receive, HistInv, HistoryTypeOK
<1>4. removedAny' \in BOOLEAN /\ (~removedAny' => ~removedAny /\ DOMAIN snapshots' = DOMAIN snapshots)
  BY <1>1 DEF RemoveSnapshots, HistInv, HistoryTypeOK
<1>5. HistoryTypeOK'
  BY <1>1, <1>2, <1>3, <1>4 DEF HistInv, HistoryTypeOK, ghostVars, timeVars
<1>6. RowInv'
  BY <1>1, <1>3 DEF HistInv, RowInv, RowIdsDisjoint
<1>7. LogShape'
  BY <1>3, <1>4 DEF HistInv, LogShape, IsLast
<1>8. LogPast'
  BY <1>3 DEF HistInv, LogPast, ghostVars
<1>9. LogIsHistory'
  BY <1>3, NotBuilt
<1>10. QED
  BY <1>5, <1>6, <1>7, <1>8, <1>9 DEF HistInv

\* set_ref moves a branch to a snapshot the table has, and logs main's moves.
LEMMA SetRefStep ==
  ASSUME HistInv, NEW r \in Refs, NEW id, SetRef(r, id)
  PROVE  HistInv'
<1>1. /\ phase = "building" /\ updates' \in 0..MaxUpdates /\ UNCHANGED <<timeVars, builds>>
  BY HistoryAssumption DEF SetRef, Receive, HistInv, HistoryTypeOK
<1>2. CASE UNCHANGED <<tableVars, changeVars, ghostVars, phase>>
  <2>1. HistoryTypeOK'
    BY <1>1, <1>2 DEF HistInv, HistoryTypeOK, tableVars, changeVars, ghostVars, timeVars
  <2>2. RowInv'
    BY <1>2 DEF HistInv, RowInv, RowIdsDisjoint, tableVars
  <2>3. LogShape'
    BY <1>2 DEF HistInv, LogShape, IsLast, tableVars, changeVars
  <2>4. LogPast'
    BY <1>2 DEF HistInv, LogPast, tableVars, changeVars, ghostVars
  <2>5. LogIsHistory'
    BY <1>1, <1>2, NotBuilt
  <2>6. QED
    BY <2>1, <2>2, <2>3, <2>4, <2>5 DEF HistInv
<1>3. CASE Reject
  BY <1>1, <1>3, RejectStep
<1>4. CASE /\ id \in DOMAIN snapshots
           /\ IF r = MAIN_BRANCH THEN LogMain(id) ELSE MoveBranch(id)
           /\ refs' = PutAt(refs, r, id)
           /\ UNCHANGED <<version, snapshots, last_sequence_number, next_row_id, added,
                          removedAny, used, published, phase>>
  <2> DEFINE new == [n |-> pushes + 1, id |-> id, ts |-> LogTime(id), own |-> id \in added]
  <2>1. \/ UNCHANGED <<current_snapshot_id, snapshot_log, mainSet, pushes>>
        \/ /\ current_snapshot_id' = id /\ pushes' = pushes + 1
           /\ snapshot_log' = snapshot_log \cup {new} /\ mainSet' = mainSet \cup {id}
    BY <1>4 DEF LogMain, MoveBranch
  <2>2. LogTime(id) \in Nat /\ builder_ms' \in Nat \cup {NoTime} /\ id \in used /\ id \in SnapshotIds
    <3>1. snapshots[id].ts \in Nat /\ id \in used /\ id \in SnapshotIds
      BY <1>4 DEF HistInv, HistoryTypeOK, Snapshot
    <3>2. RefTime(id) \in Nat \cup {NoTime} /\ clock \in Nat
      BY <3>1 DEF RefTime, HistInv, HistoryTypeOK
    <3>3. LogTime(id) \in Nat
      BY <3>2 DEF LogTime, NoTime
    <3>4. QED
      BY <1>4, <3>1, <3>2, <3>3 DEF LogMain, MoveBranch
  <2>3. /\ new.n = pushes + 1 /\ new.id = id /\ new.own = (id \in added)
        /\ pushes \in Nat => new \in [n : 1..(pushes + 1), id : {id}, ts : Nat, own : BOOLEAN]
    BY <2>2
  <2> HIDE DEF new
  <2>4. DOMAIN refs' \subseteq Refs /\ \A q \in DOMAIN refs' : refs'[q] \in DOMAIN snapshots'
    BY <1>4 DEF HistInv, HistoryTypeOK, PutAt
  <2>5. HistoryTypeOK'
    <3>1. snapshot_log' \subseteq [n : 1..pushes', id : used', ts : Nat, own : BOOLEAN] /\ pushes' \in Nat
      BY <1>4, <2>1, <2>2, <2>3 DEF HistInv, HistoryTypeOK
    <3>2. /\ current_snapshot_id' \in SnapshotIds \cup {NoSnapshot} /\ mainSet' \subseteq used'
          /\ published' \subseteq [n : 1..pushes', id : used']
      BY <1>4, <2>1, <2>2 DEF HistInv, HistoryTypeOK
    <3>3. QED
      BY <1>1, <1>4, <2>2, <2>4, <3>1, <3>2 DEF HistInv, HistoryTypeOK, timeVars
  <2>6. RowInv'
    BY <1>4 DEF HistInv, RowInv, RowIdsDisjoint
  <2>7. /\ \A e \in snapshot_log : e.n \in 1..pushes /\ e.id \in used
        /\ \A p \in published : p.n \in 1..pushes /\ p.id \in used
        /\ pushes \in Nat
    BY DEF HistInv, HistoryTypeOK
  <2>8. LogShape'
    <3>1. CASE UNCHANGED <<current_snapshot_id, snapshot_log, mainSet, pushes>>
      BY <1>4, <3>1 DEF HistInv, LogShape, IsLast
    <3>2. CASE /\ current_snapshot_id' = id /\ pushes' = pushes + 1
               /\ snapshot_log' = snapshot_log \cup {new} /\ mainSet' = mainSet \cup {id}
      <4>1. \A d, e \in snapshot_log' : d.n = e.n => d = e
        BY <2>3, <2>7, <3>2 DEF HistInv, LogShape
      <4>2. IsLast(new, snapshot_log') /\ new.id = current_snapshot_id'
        BY <2>3, <2>7, <3>2 DEF IsLast
      <4>3. ~removedAny' => \A e \in snapshot_log' : e.id \in DOMAIN snapshots'
        BY <1>4, <2>3, <3>2 DEF HistInv, LogShape
      <4>4. \E e \in snapshot_log' : IsLast(e, snapshot_log') /\ e.id = current_snapshot_id'
        BY <3>2, <4>2
      <4>5. QED
        BY <4>1, <4>3, <4>4 DEF LogShape, IsLast
    <3>3. QED
      BY <2>1, <3>1, <3>2
  <2>9. LogPast'
    <3>1. \A p \in published' : (\E e \in snapshot_log' : e.n <= p.n) =>
             \E e \in snapshot_log' : e.n = p.n /\ e.id = p.id
      BY <1>4, <2>1, <2>3, <2>7 DEF HistInv, LogPast
    <3>2. \A p \in published' : p.id \notin added'
      BY <1>1, <1>4 DEF HistInv, LogPast
    <3>3. \A e \in snapshot_log' : e.own =>
            (\E p \in published' : p.id = e.id) \/ e.id \in added' \cap mainSet'
      <4>1. \A e \in snapshot_log : e.own =>
              (\E p \in published : p.id = e.id) \/ e.id \in added \cap mainSet
        BY <1>1 DEF HistInv, LogPast
      <4>2. published' = published /\ added' = added /\ mainSet \subseteq mainSet'
        BY <1>4, <2>1
      <4>3. SUFFICES ASSUME NEW e \in snapshot_log', e.own
                     PROVE  (\E p \in published : p.id = e.id) \/ e.id \in added \cap mainSet'
        BY <4>2
      <4>4. CASE e \in snapshot_log
        BY <4>1, <4>2, <4>3, <4>4
      <4>5. CASE e = new /\ mainSet' = mainSet \cup {id}
        <5>1. id \in added
          BY <2>3, <4>3, <4>5, Zenon
        <5>2. QED
          BY <2>3, <4>5, <5>1
      <4>6. QED
        BY <2>1, <4>4, <4>5
    <3>4. QED
      BY <3>1, <3>2, <3>3 DEF LogPast
  <2>10. LogIsHistory'
    BY <1>1, <1>4, NotBuilt
  <2>11. QED
    BY <2>5, <2>6, <2>8, <2>9, <2>10 DEF HistInv
<1>5. QED
  BY <1>2, <1>3, <1>4 DEF SetRef

\* remove_ref: without main there is no current snapshot.
LEMMA RemoveRefStep ==
  ASSUME HistInv, NEW r, RemoveRef(r)
  PROVE  HistInv'
<1>1. /\ phase = "building" /\ phase' = "building" /\ updates' \in 0..MaxUpdates
      /\ UNCHANGED <<version, snapshots, snapshot_log, last_sequence_number, next_row_id,
                     changeVars, ghostVars, timeVars, builds>>
      /\ current_snapshot_id' \in {current_snapshot_id, NoSnapshot}
      /\ DOMAIN refs' \subseteq DOMAIN refs /\ \A q \in DOMAIN refs' : refs'[q] = refs[q]
  BY HistoryAssumption DEF RemoveRef, Receive, KeepAt, HistInv, HistoryTypeOK
<1>2. HistoryTypeOK'
  BY <1>1 DEF HistInv, HistoryTypeOK, changeVars, ghostVars, timeVars
<1>3. RowInv'
  BY <1>1 DEF HistInv, RowInv, RowIdsDisjoint
<1>4. LogShape'
  BY <1>1 DEF HistInv, LogShape, IsLast, changeVars
<1>5. LogPast'
  BY <1>1 DEF HistInv, LogPast, changeVars, ghostVars
<1>6. LogIsHistory'
  BY <1>1, NotBuilt
<1>7. QED
  BY <1>2, <1>3, <1>4, <1>5, <1>6 DEF HistInv

\* upgrade_format_version restarts the row ids while no snapshot has any.
LEMMA UpgradeStep ==
  ASSUME HistInv, NEW v \in 1..3, Upgrade(v)
  PROVE  HistInv'
<1>1. /\ phase = "building" /\ updates' \in 0..MaxUpdates /\ UNCHANGED <<timeVars, builds>>
  BY HistoryAssumption DEF Upgrade, Receive, HistInv, HistoryTypeOK
<1>2. CASE Reject
  BY <1>1, <1>2, RejectStep
<1>3. CASE /\ v >= version /\ version' = v
           /\ next_row_id' = IF v = 3 /\ version # 3 THEN 0 ELSE next_row_id
           /\ UNCHANGED <<snapshots, current_snapshot_id, refs, snapshot_log,
                          last_sequence_number, changeVars, ghostVars, phase>>
  <2>1. HistoryTypeOK'
    BY <1>1, <1>3, HistoryAssumption DEF HistInv, HistoryTypeOK, changeVars, ghostVars, timeVars
  <2>2. RowInv'
    <3>1. CASE v = 3 /\ version # 3
      <4>1. \A i \in DOMAIN snapshots : snapshots[i].first = NoRow
        BY <3>1 DEF HistInv, RowInv, HistoryTypeOK
      <4>2. QED
        BY <1>3, <3>1, <4>1 DEF RowInv, RowIdsDisjoint
    <3>2. CASE ~(v = 3 /\ version # 3)
      BY <1>3, <3>2 DEF HistInv, HistoryTypeOK, RowInv, RowIdsDisjoint
    <3>3. QED
      BY <3>1, <3>2
  <2>3. LogShape'
    BY <1>3 DEF HistInv, LogShape, IsLast, changeVars
  <2>4. LogPast'
    BY <1>3 DEF HistInv, LogPast, changeVars, ghostVars
  <2>5. LogIsHistory'
    BY <1>1, <1>3, NotBuilt
  <2>6. QED
    BY <2>1, <2>2, <2>3, <2>4, <2>5 DEF HistInv
<1>4. QED
  BY <1>2, <1>3 DEF Upgrade

-----------------------------------------------------------------------------
\* What build does when its checks pass.
Publish ==
    /\ BuildPasses
    /\ phase' = "built"
    /\ snapshot_log' = LogUpdated
    /\ refs' = RefsConstructed
    /\ last_updated_ms' = UpdatedMs
    /\ metadata_log' = IF builds = 0 THEN metadata_log
                       ELSE Expired(Append(metadata_log, last_updated_ms))
    /\ published' = published \cup PublishedNow
    /\ UNCHANGED <<version, snapshots, current_snapshot_id, last_sequence_number,
                   next_row_id, changeVars, clock, used, pushes, updates, builds>>

\* expire_metadata_log keeps the end of the log.
LEMMA ExpiredFacts ==
  ASSUME NEW ml \in Seq(Nat), ml # << >>
  PROVE  /\ Expired(ml) \in Seq(Nat) /\ Len(Expired(ml)) \in 1..Len(ml)
         /\ \A i \in 1..Len(Expired(ml)) :
               Expired(ml)[i] = ml[Len(ml) - Len(Expired(ml)) + i]
<1> DEFINE lo == Later(0, Len(ml) - MaxLog) + 1
<1>1. Len(ml) \in Nat \ {0} /\ MaxLog \in Nat \ {0}
  BY HistoryAssumption
<1>2. lo \in 1..Len(ml)
  BY <1>1 DEF Later
<1> HIDE DEF lo
<1>3. Expired(ml) = SubSeq(ml, lo, Len(ml))
  BY DEF Expired, lo
<1>4. SubSeq(ml, lo, Len(ml)) \in Seq(Nat)
      /\ Len(SubSeq(ml, lo, Len(ml))) = Len(ml) - lo + 1
      /\ \A i \in 1..(Len(ml) - lo + 1) : SubSeq(ml, lo, Len(ml))[i] = ml[lo + i - 1]
  BY <1>1, <1>2, SubSeqProperties
<1>5. QED
  BY <1>1, <1>2, <1>3, <1>4

\* The references of the built table, with main put back.
LEMMA RefsFacts ==
  ASSUME HistInv, Publish
  PROVE  /\ DOMAIN refs' \subseteq Refs /\ \A r \in DOMAIN refs' : refs'[r] \in DOMAIN snapshots'
         /\ current_snapshot_id # NoSnapshot =>
               MAIN_BRANCH \in DOMAIN refs' /\ refs'[MAIN_BRANCH] = current_snapshot_id
         /\ MAIN_BRANCH \in DOMAIN refs' => current_snapshot_id # NoSnapshot
<1>1. /\ CurrentExists(current_snapshot_id)
      /\ RefsValid(current_snapshot_id, refs') /\ refs' = RefsConstructed /\ snapshots' = snapshots
  BY DEF Publish, BuildPasses, Normalizes
<1>2. /\ DOMAIN refs \subseteq Refs /\ DOMAIN snapshots \subseteq SnapshotIds
      /\ NoSnapshot \notin SnapshotIds /\ MAIN_BRANCH \in Refs
  BY HistoryAssumption DEF HistInv, HistoryTypeOK
<1>3. \A r \in DOMAIN refs' : refs'[r] \in DOMAIN snapshots'
  BY <1>1 DEF RefsValid
<1>4. CASE current_snapshot_id # NoSnapshot /\ MAIN_BRANCH \notin DOMAIN refs
  <2>1. refs' = PutAt(refs, MAIN_BRANCH, current_snapshot_id)
    BY <1>1, <1>4 DEF RefsConstructed
  <2>2. DOMAIN refs' = DOMAIN refs \cup {MAIN_BRANCH} /\ refs'[MAIN_BRANCH] = current_snapshot_id
    BY <2>1 DEF PutAt
  <2>3. QED
    BY <1>2, <1>3, <1>4, <2>2
<1>5. CASE ~(current_snapshot_id # NoSnapshot /\ MAIN_BRANCH \notin DOMAIN refs)
  <2>1. refs' = refs
    BY <1>1, <1>5 DEF RefsConstructed
  <2>2. MAIN_BRANCH \in DOMAIN refs => refs[MAIN_BRANCH] = current_snapshot_id
    BY <1>1, <2>1 DEF RefsValid
  <2>3. MAIN_BRANCH \in DOMAIN refs => current_snapshot_id # NoSnapshot
    BY <1>1, <1>2, <1>3, <2>1, <2>2
  <2>4. QED
    BY <1>2, <1>3, <1>5, <2>1, <2>2, <2>3
<1>6. QED
  BY <1>4, <1>5

\* update_snapshot_log: the pruned log ends at the current snapshot, names only
\* snapshots the table has, and keeps whatever follows an entry it keeps, the
\* intermediate snapshots excepted.
LEMMA LogUpdatedFacts ==
  ASSUME HistInv, BuildPasses
  PROVE  /\ LogUpdated \subseteq snapshot_log
         /\ current_snapshot_id # NoSnapshot =>
               \E e \in LogUpdated : IsLast(e, LogUpdated) /\ e.id = current_snapshot_id
         /\ \A e \in LogUpdated : e.id \in DOMAIN snapshots /\ e.id \notin Intermediate
         /\ \A e \in LogUpdated, f \in snapshot_log :
               e.n < f.n /\ f.id \notin Intermediate => f \in LogUpdated
<1>1. CASE Intermediate = {} /\ ~removedAny
  <2>1. LogUpdated = snapshot_log
    BY <1>1 DEF LogUpdated
  <2>2. QED
    BY <1>1, <2>1 DEF HistInv, LogShape
<1>2. CASE ~(Intermediate = {} /\ ~removedAny)
  <2>1. LogUpdated = {e \in snapshot_log :
            /\ e.id \in DOMAIN snapshots
            /\ e.id \notin Intermediate
            /\ removedAny => ~\E d \in snapshot_log :
                                 d.n > e.n /\ d.id \notin DOMAIN snapshots}
    BY <1>2 DEF LogUpdated
  <2>2. current_snapshot_id # NoSnapshot =>
               \E e \in LogUpdated : IsLast(e, LogUpdated) /\ e.id = current_snapshot_id
    BY <1>2 DEF BuildPasses, LogEndsCurrent
  <2>3. ASSUME NEW e \in LogUpdated, NEW f \in snapshot_log, e.n < f.n, f.id \notin Intermediate
        PROVE  f \in LogUpdated
    <3>1. e \in snapshot_log /\ \A d \in snapshot_log : d.n \in Nat
      BY <2>1, <2>3 DEF HistInv, HistoryTypeOK
    <3>2. CASE removedAny
      BY <2>1, <2>3, <3>1, <3>2
    <3>3. CASE ~removedAny
      BY <2>1, <2>3, <3>3 DEF HistInv, LogShape
    <3>4. QED
      BY <3>2, <3>3
  <2>4. QED
    BY <2>1, <2>2, <2>3
<1>3. QED
  BY <1>1, <1>2

\* A build that passes.
LEMMA PublishLog ==
  ASSUME HistInv, Publish, phase = "building"
  PROVE  LogShape' /\ LogPast' /\ LogIsHistory'
<1>1. /\ snapshot_log' = LogUpdated /\ phase' = "built" /\ BuildPasses
      /\ published' = published \cup PublishedNow
      /\ UNCHANGED <<snapshots, current_snapshot_id, removedAny, added, mainSet>>
  BY DEF Publish, changeVars
<1>2. /\ LogUpdated \subseteq snapshot_log
      /\ current_snapshot_id # NoSnapshot =>
            \E e \in LogUpdated : IsLast(e, LogUpdated) /\ e.id = current_snapshot_id
      /\ \A e \in LogUpdated : e.id \in DOMAIN snapshots /\ e.id \notin Intermediate
      /\ \A e \in LogUpdated, f \in snapshot_log :
            e.n < f.n /\ f.id \notin Intermediate => f \in LogUpdated
  BY <1>1, LogUpdatedFacts
<1>3. /\ \A e \in snapshot_log : e.n \in Nat /\ e.id \in SnapshotIds
      /\ \A p \in published : p.n \in Nat
      /\ NoSnapshot \notin SnapshotIds
  BY HistoryAssumption DEF HistInv, HistoryTypeOK
<1>4. \A p \in PublishedNow : \E x \in LogUpdated :
         p.n = x.n /\ p.id = x.id /\ x.id = current_snapshot_id
  BY DEF PublishedNow
<1>5. \A x \in LogUpdated : IsLast(x, LogUpdated) /\ x.id = current_snapshot_id =>
         \E p \in PublishedNow : p.id = x.id
  <2>1. SUFFICES ASSUME NEW x \in LogUpdated, IsLast(x, LogUpdated), x.id = current_snapshot_id
                 PROVE  \E p \in PublishedNow : p.id = x.id
    OBVIOUS
  <2>2. [n |-> x.n, id |-> x.id] \in PublishedNow
    BY <2>1 DEF PublishedNow
  <2>3. QED
    BY <2>2
<1>6. \A p \in published' : (\E e \in snapshot_log' : e.n <= p.n) =>
         \E e \in snapshot_log' : e.n = p.n /\ e.id = p.id
  <2>1. SUFFICES ASSUME NEW p \in published, NEW e \in LogUpdated, e.n <= p.n
                 PROVE  \E f \in LogUpdated : f.n = p.n /\ f.id = p.id
    BY <1>1, <1>4
  <2>2. PICK f \in snapshot_log : f.n = p.n /\ f.id = p.id
    BY <1>2, <2>1 DEF HistInv, LogPast
  <2>3. CASE e.n = p.n
    BY <1>2, <2>1, <2>2, <2>3 DEF HistInv, LogShape
  <2>4. CASE e.n < p.n
    <3>1. f.id \notin Intermediate
      BY <2>2 DEF HistInv, LogPast, Intermediate
    <3>2. QED
      BY <1>2, <2>2, <2>4, <3>1
  <2>5. QED
    BY <1>2, <1>3, <2>1, <2>3, <2>4
<1>7. \A e \in snapshot_log' : e.own => \E p \in published' : p.id = e.id
  <2>1. SUFFICES ASSUME NEW e \in LogUpdated, e.own
                 PROVE  \E p \in published \cup PublishedNow : p.id = e.id
    BY <1>1
  <2>2. CASE \E p \in published : p.id = e.id
    BY <2>2
  <2>3. CASE e.id \in added \cap mainSet
    <3>1. e.id = current_snapshot_id /\ e.id # NoSnapshot
      BY <1>2, <1>3, <2>1, <2>3 DEF Intermediate
    <3>2. PICK x \in LogUpdated : IsLast(x, LogUpdated) /\ x.id = current_snapshot_id
      BY <1>2, <3>1
    <3>3. QED
      BY <1>5, <3>1, <3>2
  <2>4. (\E p \in published : p.id = e.id) \/ e.id \in added \cap mainSet
    BY <1>2, <2>1 DEF HistInv, LogPast
  <2>5. QED
    BY <2>2, <2>3, <2>4
<1>8. LogShape'
  BY <1>1, <1>2 DEF HistInv, LogShape, IsLast
<1>9. LogPast'
  BY <1>1, <1>6 DEF LogPast
<1>10. LogFollowsMain'
  <2>1. /\ current_snapshot_id' # NoSnapshot =>
              MAIN_BRANCH \in DOMAIN refs' /\ refs'[MAIN_BRANCH] = current_snapshot_id'
        /\ MAIN_BRANCH \in DOMAIN refs' => current_snapshot_id' # NoSnapshot
    BY <1>1, RefsFacts
  <2>2. current_snapshot_id' # NoSnapshot => \E e \in snapshot_log' :
           IsLast(e, snapshot_log') /\ e.id = current_snapshot_id'
    BY <1>1, <1>2
  <2>3. \A e \in snapshot_log' : e.id \in DOMAIN snapshots'
    BY <1>1, <1>2
  <2>4. QED
    BY <2>1, <2>2, <2>3 DEF LogFollowsMain, IsLast
<1>11. QED
  BY <1>6, <1>7, <1>8, <1>9, <1>10 DEF LogIsHistory, HistoryGapFree, NoPhantomHistory

\* build: a commit is published as checked, or fails.
LEMMA HistoryBuildStep ==
  ASSUME HistInv, BuildHistory
  PROVE  HistInv'
<1>1. CASE Reject /\ UNCHANGED <<timeVars, updates, builds>>
  <2>1. updates' \in 0..MaxUpdates
    BY <1>1 DEF HistInv, HistoryTypeOK
  <2>2. QED
    BY <1>1, <2>1, RejectStep
<1>2. CASE Publish /\ phase = "building"
  <2>1. LogShape' /\ LogPast' /\ LogIsHistory'
    BY <1>2, PublishLog
  <2>2. RowInv'
    BY <1>2 DEF Publish, HistInv, RowInv, RowIdsDisjoint
  <2>3. DOMAIN refs' \subseteq Refs /\ \A r \in DOMAIN refs' : refs'[r] \in DOMAIN snapshots'
    BY <1>2, RefsFacts
  <2>4. snapshot_log' \subseteq snapshot_log
    BY <1>2, LogUpdatedFacts DEF Publish
  <2>5. published' \subseteq [n : 1..pushes, id : used]
    <3>1. \A e \in LogUpdated : e.n \in 1..pushes /\ e.id \in used
      BY <1>2, <2>4 DEF Publish, HistInv, HistoryTypeOK
    <3>2. PublishedNow \subseteq [n : 1..pushes, id : used]
      BY <3>1 DEF PublishedNow
    <3>3. QED
      BY <1>2, <3>2 DEF Publish, HistInv, HistoryTypeOK
  <2>6. UpdatedMs \in Nat
    BY DEF UpdatedMs, HistInv, HistoryTypeOK
  <2>7. metadata_log' \in Seq(Nat)
    <3>1. metadata_log \in Seq(Nat) /\ last_updated_ms \in Nat
      BY DEF HistInv, HistoryTypeOK
    <3>2. /\ Append(metadata_log, last_updated_ms) \in Seq(Nat)
          /\ Append(metadata_log, last_updated_ms) # << >>
      BY <3>1, AppendProperties
    <3>3. Expired(Append(metadata_log, last_updated_ms)) \in Seq(Nat)
      BY <3>2, ExpiredFacts
    <3>4. QED
      BY <1>2, <3>1, <3>3 DEF Publish
  <2>8. HistoryTypeOK'
    BY <1>2, <2>3, <2>4, <2>5, <2>6, <2>7 DEF Publish, HistInv, HistoryTypeOK, changeVars
  <2>9. QED
    BY <2>1, <2>2, <2>8 DEF HistInv
<1>3. QED
  BY <1>1, <1>2 DEF BuildHistory, Publish

\* new_from_metadata: what the published table promises is what the next
\* builder starts from.
LEMMA HistoryBeginStep ==
  ASSUME HistInv, BeginHistory
  PROVE  HistInv'
<1>1. /\ phase = "built" /\ phase' = "building" /\ builds' \in 0..MaxBuilds
      /\ builder_ms' = NoTime /\ added' = {} /\ mainSet' = {} /\ removedAny' = FALSE
      /\ UNCHANGED <<tableVars, timeVars, ghostVars, updates>>
  BY HistoryAssumption DEF BeginHistory, HistInv, HistoryTypeOK
<1>2. HistoryTypeOK'
  BY <1>1 DEF HistInv, HistoryTypeOK, tableVars, timeVars, ghostVars
<1>3. RowInv'
  BY <1>1 DEF HistInv, RowInv, RowIdsDisjoint, tableVars
<1>4. \A e \in snapshot_log : e.id \in DOMAIN snapshots
  BY <1>1 DEF HistInv, LogIsHistory, LogFollowsMain
<1>5. LogShape'
  BY <1>1, <1>4 DEF HistInv, LogShape, IsLast, tableVars
<1>6. \A e \in snapshot_log : e.own => \E p \in published : p.id = e.id
  BY <1>1 DEF HistInv, LogIsHistory, NoPhantomHistory
<1>7. LogPast'
  BY <1>1, <1>6 DEF HistInv, LogPast, tableVars, ghostVars
<1>8. QED
  BY <1>1, <1>2, <1>3, <1>5, <1>7, NotBuilt DEF HistInv

\* Time alone, or nothing, changes.
LEMMA TickStep ==
  ASSUME HistInv, Tick \/ UNCHANGED histVars
  PROVE  HistInv'
<1>1. /\ UNCHANGED <<tableVars, changeVars, last_updated_ms, metadata_log, ghostVars,
                     phase, updates, builds>>
      /\ clock' \in 0..MaxTime
  BY HistoryAssumption DEF Tick, histVars, timeVars, HistInv, HistoryTypeOK
<1>2. HistoryTypeOK'
  BY <1>1 DEF HistInv, HistoryTypeOK, tableVars, changeVars, ghostVars
<1>3. RowInv'
  BY <1>1 DEF HistInv, RowInv, RowIdsDisjoint, tableVars
<1>4. LogShape'
  BY <1>1 DEF HistInv, LogShape, IsLast, tableVars, changeVars
<1>5. LogPast'
  BY <1>1 DEF HistInv, LogPast, tableVars, changeVars, ghostVars
<1>6. LogIsHistory'
  BY <1>1 DEF HistInv, LogIsHistory, HistoryGapFree, NoPhantomHistory, LogFollowsMain,
              IsLast, tableVars, ghostVars
<1>7. QED
  BY <1>2, <1>3, <1>4, <1>5, <1>6 DEF HistInv

\* new
LEMMA InitStep == InitHistory => HistInv
<1>1. SUFFICES ASSUME InitHistory PROVE HistInv
  OBVIOUS
<1>2. HistoryTypeOK
  <2>1. DOMAIN snapshots = {} /\ DOMAIN refs = {} /\ metadata_log \in Seq(Nat)
    BY <1>1 DEF InitHistory
  <2>2. /\ version \in 1..3 /\ next_row_id \in 0..MaxRowId /\ clock \in 0..MaxTime
        /\ updates \in 0..MaxUpdates /\ builds \in 0..MaxBuilds
    BY <1>1, HistoryAssumption DEF InitHistory
  <2>3. QED
    BY <1>1, <2>1, <2>2 DEF InitHistory, HistoryTypeOK
<1>3. RowInv /\ LogShape /\ LogPast
  BY <1>1 DEF InitHistory, RowInv, RowIdsDisjoint, LogShape, LogPast
<1>4. LogIsHistory
  BY <1>1 DEF InitHistory, LogIsHistory, HistoryGapFree, NoPhantomHistory, LogFollowsMain
<1>5. QED
  BY <1>2, <1>3, <1>4 DEF HistInv

\* Every step.
LEMMA HistoryNextStep ==
  ASSUME HistInv, [NextHistory]_histVars
  PROVE  HistInv'
<1>1. ASSUME NEW id \in SnapshotIds, NEW s \in Sendable, AddSnapshot(id, s)
      PROVE  HistInv'
  <2>1. CASE Receive /\ Reject
    <3>1. UNCHANGED <<timeVars, builds>> /\ updates' \in 0..MaxUpdates
      BY <2>1, HistoryAssumption DEF Receive, HistInv, HistoryTypeOK
    <3>2. QED
      BY <2>1, <3>1, RejectStep
  <2>2. CASE ~Refused(s) /\ TakeSnapshot(id, s)
             /\ UNCHANGED <<current_snapshot_id, refs, snapshot_log, mainSet, pushes>>
    <3>1. TakeLog(id, s) /\ refs' = refs
      BY <2>2 DEF TakeLog
    <3>2. QED
      BY <1>1, <2>2, <3>1, TakeStep DEF AddSnapshot
  <2>3. QED
    BY <1>1, <2>1, <2>2 DEF AddSnapshot
<1>2. ASSUME NEW r \in Refs, NEW id \in SnapshotIds, NEW s \in Sendable,
             SetBranchSnapshot(r, id, s)
      PROVE  HistInv'
  <2>1. CASE Receive /\ Reject
    <3>1. UNCHANGED <<timeVars, builds>> /\ updates' \in 0..MaxUpdates
      BY <2>1, HistoryAssumption DEF Receive, HistInv, HistoryTypeOK
    <3>2. QED
      BY <2>1, <3>1, RejectStep
  <2>2. CASE ~Refused(s) /\ TakeSnapshot(id, s) /\ refs' = PutAt(refs, r, id)
             /\ (LogOwn(id, s) \/ UNCHANGED <<current_snapshot_id, snapshot_log, mainSet, pushes>>)
    <3>1. TakeLog(id, s) /\ \E q \in Refs : refs' = PutAt(refs, q, id)
      BY <2>2 DEF TakeLog
    <3>2. QED
      BY <1>2, <2>2, <3>1, TakeStep DEF SetBranchSnapshot
  <2>3. QED
    BY <1>2, <2>1, <2>2 DEF SetBranchSnapshot
<1>3. CASE \E id \in DOMAIN snapshots : RemoveSnapshots({id})
  BY <1>3, RemoveStep
<1>4. CASE \E r \in Refs, id \in used : SetRef(r, id)
  BY <1>4, SetRefStep
<1>5. CASE \E r \in Refs : RemoveRef(r)
  BY <1>5, RemoveRefStep
<1>6. CASE \E v \in 1..3 : Upgrade(v)
  BY <1>6, UpgradeStep
<1>7. CASE BuildHistory \/ BeginHistory
  BY <1>7, HistoryBuildStep, HistoryBeginStep
<1>8. CASE Tick \/ UNCHANGED histVars
  BY <1>8, TickStep
<1>9. QED
  BY <1>1, <1>2, <1>3, <1>4, <1>5, <1>6, <1>7, <1>8 DEF NextHistory, ApplyHistory

-----------------------------------------------------------------------------
(* The builder keeps every reference on a snapshot it has, after every     *)
(* update of every commit (table_metadata_builder.rs).                     *)
THEOREM HistoryType == SpecHistory => []HistoryTypeOK
<1>1. HistInv => HistoryTypeOK
  BY DEF HistInv
<1>2. QED
  BY <1>1, InitStep, HistoryNextStep, PTL DEF SpecHistory

(* update_snapshot_log leaves time travel the history readers saw: without *)
(* gaps, without snapshots that were never current, ending at main.        *)
THEOREM LogIsAlwaysHistory == SpecHistory => []LogIsHistory
<1>1. HistInv => LogIsHistory
  BY DEF HistInv
<1>2. QED
  BY <1>1, InitStep, HistoryNextStep, PTL DEF SpecHistory

(* add_snapshot never gives a row id out twice, across upgrades to v3 and  *)
(* removals of snapshots.                                                  *)
THEOREM RowIdsAlwaysDisjoint == SpecHistory => []RowIdsDisjoint
<1>1. HistInv => RowIdsDisjoint
  BY DEF HistInv, RowInv
<1>2. QED
  BY <1>1, InitStep, HistoryNextStep, PTL DEF SpecHistory

-----------------------------------------------------------------------------
(* Times.  No time of the table is further ahead of the clock than writers' *)
(* clocks are, and the times a commit may publish are not behind the last   *)
(* update by more than the tolerance.                                       *)
TimeBound ==
    /\ last_updated_ms <= clock + Skew
    /\ builder_ms <= clock + Skew
    /\ \A i \in DOMAIN snapshots : snapshots[i].ts <= clock + Skew

TimeAhead ==
    phase = "building" =>
        /\ builder_ms # NoTime => builder_ms - last_updated_ms >= -Tolerance
        /\ \A i \in added \cap DOMAIN snapshots :
              snapshots[i].ts - last_updated_ms >= -Tolerance

TimeInv ==
    /\ TimeBound /\ TimeAhead
    /\ MetadataLogChronological(metadata_log, last_updated_ms)
    /\ ReadsBack

\* An update of the builder, or its refusal: the file's own times stay.
LEMMA BuilderTimes ==
  ASSUME TimeInv, UNCHANGED timeVars, phase' # "built", TimeBound', TimeAhead'
  PROVE  TimeInv'
BY DEF TimeInv, timeVars, MetadataLogChronological, ReadsBack

\* The types that the comparisons of times need.
LEMMA TimeTypes ==
  ASSUME HistInv
  PROVE  /\ last_updated_ms \in Nat /\ clock \in Nat /\ builder_ms \in Nat \cup {NoTime}
         /\ \A i \in DOMAIN snapshots : snapshots[i].ts \in Nat
         /\ Tolerance \in Nat /\ Skew \in Nat /\ NoTime = -1
BY HistoryAssumption DEF HistInv, HistoryTypeOK, Snapshot, NoTime

\* Steps that leave the snapshots and the builder's time, or drop snapshots.
LEMMA KeepTimes ==
  ASSUME HistInv, TimeInv, UNCHANGED <<timeVars, builder_ms, added>>, phase' # "built",
         phase' = "building" => phase = "building",
         DOMAIN snapshots' \subseteq DOMAIN snapshots,
         \A i \in DOMAIN snapshots' : snapshots'[i] = snapshots[i]
  PROVE  TimeInv'
<1>1. TimeBound' /\ TimeAhead'
  BY DEF TimeInv, TimeBound, TimeAhead, timeVars
<1>2. QED
  BY <1>1, BuilderTimes

\* add_snapshot refuses a time that is behind the last update.
LEMMA TakeTimes ==
  ASSUME HistInv, TimeInv, Receive, NEW id, NEW s \in Sendable, ~Refused(s), TakeSnapshot(id, s)
  PROVE  TimeInv'
<1>1. s.ts \in Nat /\ s.ts <= clock + Skew
  BY SendableFacts DEF HistInv, Snapshot
<1>2. s.ts - last_updated_ms >= -Tolerance
  BY <1>1, TimeTypes DEF Refused, BeforeUpdate, Later
<1>3. /\ UNCHANGED timeVars /\ phase' = "building" /\ phase = "building" /\ builder_ms' = s.ts
      /\ added' = added \cup {id}
      /\ DOMAIN snapshots' = DOMAIN snapshots \cup {id} /\ snapshots'[id] = s
      /\ \A i \in DOMAIN snapshots : i # id => snapshots'[i] = snapshots[i]
  BY DEF Receive, TakeSnapshot, PutAt
<1>4. TimeBound'
  BY <1>1, <1>3 DEF TimeInv, TimeBound, timeVars
<1>5. TimeAhead'
  BY <1>2, <1>3 DEF TimeInv, TimeAhead, timeVars
<1>6. QED
  BY <1>3, <1>4, <1>5, BuilderTimes

\* set_ref takes the builder's time from the snapshot, the builder or the clock.
LEMMA SetRefTimes ==
  ASSUME HistInv, TimeInv, Skew <= Tolerance, NEW r, NEW id, SetRef(r, id)
  PROVE  TimeInv'
<1>1. phase = "building" /\ UNCHANGED timeVars
  BY DEF SetRef, Receive
<1>2. CASE UNCHANGED <<tableVars, changeVars, ghostVars, phase>>
  BY <1>1, <1>2, KeepTimes DEF tableVars, changeVars
<1>3. CASE Reject
  BY <1>1, <1>3, KeepTimes DEF Reject, tableVars, changeVars
<1>4. CASE /\ id \in DOMAIN snapshots
           /\ IF r = MAIN_BRANCH THEN LogMain(id) ELSE MoveBranch(id)
           /\ UNCHANGED <<snapshots, added, phase>>
  <2>1. builder_ms' = RefTime(id) \/ builder_ms' = LogTime(id)
    BY <1>4 DEF LogMain, MoveBranch
  <2>2. /\ RefTime(id) <= clock + Skew
        /\ RefTime(id) # NoTime => RefTime(id) - last_updated_ms >= -Tolerance
    BY <1>1, <1>4, TimeTypes DEF RefTime, TimeInv, TimeBound, TimeAhead
  <2>3. clock <= clock + Skew /\ clock - last_updated_ms >= -Tolerance
    BY TimeTypes DEF TimeInv, TimeBound
  <2>4. /\ builder_ms' <= clock + Skew
        /\ builder_ms' # NoTime => builder_ms' - last_updated_ms >= -Tolerance
    BY <2>1, <2>2, <2>3 DEF LogTime
  <2>5. TimeBound' /\ TimeAhead'
    BY <1>1, <1>4, <2>4 DEF TimeInv, TimeBound, TimeAhead, timeVars
  <2>6. QED
    BY <1>1, <1>4, <2>5, BuilderTimes
<1>5. QED
  BY <1>2, <1>3, <1>4 DEF SetRef

\* build: the time it publishes is not behind the file that joins the log.
LEMMA PublishTimes ==
  ASSUME HistInv, TimeInv, Skew <= Tolerance, phase = "building", Publish
  PROVE  TimeInv'
<1>1. /\ UpdatedMs \in Nat /\ UpdatedMs <= clock + Skew
      /\ UpdatedMs - last_updated_ms >= -Tolerance
  BY TimeTypes DEF UpdatedMs, TimeInv, TimeBound, TimeAhead
<1>2. /\ phase' = "built" /\ last_updated_ms' = UpdatedMs
      /\ UNCHANGED <<snapshots, current_snapshot_id, version, last_sequence_number,
                     clock, builder_ms>>
      /\ snapshot_log' = LogUpdated /\ refs' = RefsConstructed
      /\ Normalizes(current_snapshot_id, RefsConstructed, LogUpdated, metadata_log, UpdatedMs)
  BY DEF Publish, BuildPasses, changeVars
<1>3. TimeBound' /\ TimeAhead'
  BY <1>1, <1>2 DEF TimeInv, TimeBound, TimeAhead
<1>4. MetadataLogChronological(metadata_log', UpdatedMs)
  <2>1. CASE metadata_log' = metadata_log
    BY <1>2, <2>1 DEF Normalizes
  <2>2. CASE metadata_log' = Expired(Append(metadata_log, last_updated_ms))
    <3> DEFINE al == Append(metadata_log, last_updated_ms)
               ex == Expired(al)
    <3>1. metadata_log \in Seq(Nat) /\ last_updated_ms \in Nat
      BY DEF HistInv, HistoryTypeOK
    <3>2. /\ al \in Seq(Nat) /\ al # << >> /\ Len(al) = Len(metadata_log) + 1
          /\ al[Len(al)] = last_updated_ms
          /\ \A i \in 1..Len(metadata_log) : al[i] = metadata_log[i]
      BY <3>1, AppendProperties
    <3> HIDE DEF al
    <3>3. /\ ex \in Seq(Nat) /\ Len(ex) \in 1..Len(al)
          /\ \A i \in 1..Len(ex) : ex[i] = al[Len(al) - Len(ex) + i]
      BY <3>2, ExpiredFacts
    <3> HIDE DEF ex
    <3>4. \A i \in 1..Len(al) - 1 : al[i + 1] - al[i] >= -Tolerance
      <4>1. TAKE i \in 1..Len(al) - 1
      <4>2. Len(metadata_log) \in Nat
        BY <3>1
      <4>3. CASE i = Len(metadata_log)
        <5>1. al[i] = metadata_log[Len(metadata_log)] /\ al[i + 1] = last_updated_ms
              /\ metadata_log # << >>
          BY <3>1, <3>2, <4>2, <4>3
        <5>2. QED
          BY <5>1 DEF TimeInv, MetadataLogChronological
      <4>4. CASE i \in 1..Len(metadata_log) - 1
        BY <3>2, <4>2, <4>4 DEF TimeInv, MetadataLogChronological
      <4>5. QED
        BY <3>2, <4>2, <4>3, <4>4
    <3>5. \A i \in 1..Len(ex) - 1 : ex[i + 1] - ex[i] >= -Tolerance
      <4>1. TAKE i \in 1..Len(ex) - 1
      <4>2. DEFINE j == Len(al) - Len(ex) + i
      <4>3. j \in 1..Len(al) - 1 /\ Len(al) - Len(ex) + (i + 1) = j + 1
            /\ i \in 1..Len(ex) /\ i + 1 \in 1..Len(ex)
        BY <3>2, <3>3
      <4>4. ex[i] = al[j] /\ ex[i + 1] = al[j + 1]
        BY <3>3, <4>3
      <4>5. QED
        BY <3>4, <4>3, <4>4
    <3>6. ex[Len(ex)] = last_updated_ms
      <4>1. Len(al) \in Nat /\ Len(ex) \in Nat /\ Len(ex) \in 1..Len(ex)
            /\ Len(al) - Len(ex) + Len(ex) = Len(al)
        BY <3>2, <3>3
      <4>2. QED
        BY <3>2, <3>3, <4>1
    <3>7. metadata_log' = ex
      BY <2>2 DEF ex, al
    <3>8. QED
      BY <1>1, <3>5, <3>6, <3>7 DEF MetadataLogChronological
  <2>3. QED
    BY <2>1, <2>2 DEF Publish
<1>5. ReadsBack'
  <2>1. /\ CurrentExists(current_snapshot_id)' /\ SequenceNumbersValid'
    BY <1>2 DEF Normalizes, CurrentExists, SequenceNumbersValid
  <2>2. RefsValid(current_snapshot_id, refs)'
    BY <1>2 DEF Normalizes, RefsValid
  <2>3. LogChronological(snapshot_log, last_updated_ms)'
    BY <1>2 DEF Normalizes, LogChronological, Adjacent, IsLast
  <2>4. MetadataLogChronological(metadata_log, last_updated_ms)'
    BY <1>2, <1>4 DEF MetadataLogChronological
  <2>5. QED
    BY <2>1, <2>2, <2>3, <2>4 DEF ReadsBack, Normalizes
<1>6. QED
  BY <1>2, <1>3, <1>4, <1>5 DEF TimeInv, MetadataLogChronological

\* Every step keeps the times in order.
LEMMA NextTimes ==
  ASSUME HistInv, TimeInv, Skew <= Tolerance, [NextHistory]_histVars
  PROVE  TimeInv'
<1>1. ASSUME Receive, Reject
      PROVE  TimeInv'
  BY <1>1, KeepTimes DEF Receive, Reject, tableVars, changeVars
<1>2. ASSUME NEW id \in SnapshotIds, NEW s \in Sendable, AddSnapshot(id, s)
      PROVE  TimeInv'
  BY <1>1, <1>2, TakeTimes DEF AddSnapshot
<1>3. ASSUME NEW r \in Refs, NEW id \in SnapshotIds, NEW s \in Sendable,
             SetBranchSnapshot(r, id, s)
      PROVE  TimeInv'
  BY <1>1, <1>3, TakeTimes DEF SetBranchSnapshot
<1>4. ASSUME NEW id \in DOMAIN snapshots, RemoveSnapshots({id})
      PROVE  TimeInv'
  <2>1. /\ DOMAIN snapshots' \subseteq DOMAIN snapshots
        /\ \A i \in DOMAIN snapshots' : snapshots'[i] = snapshots[i]
    BY <1>4 DEF RemoveSnapshots, KeepAt
  <2>2. UNCHANGED <<timeVars, builder_ms, added, phase>> /\ phase = "building"
    BY <1>4 DEF RemoveSnapshots, Receive
  <2>3. QED
    BY <2>1, <2>2, KeepTimes
<1>5. ASSUME NEW r \in Refs, NEW id \in used, SetRef(r, id)
      PROVE  TimeInv'
  BY <1>5, SetRefTimes
<1>6. ASSUME NEW r \in Refs, RemoveRef(r)
      PROVE  TimeInv'
  BY <1>6, KeepTimes DEF RemoveRef, Receive, changeVars
<1>7. ASSUME NEW v \in 1..3, Upgrade(v)
      PROVE  TimeInv'
  <2>1. CASE Reject
    BY <1>1, <1>7, <2>1 DEF Upgrade
  <2>2. CASE UNCHANGED <<snapshots, changeVars, phase>>
    BY <1>7, <2>2, KeepTimes DEF Upgrade, Receive, changeVars
  <2>3. QED
    BY <1>7, <2>1, <2>2 DEF Upgrade
<1>8. CASE BuildHistory
  <2>1. CASE Reject /\ UNCHANGED timeVars
    BY <2>1, KeepTimes DEF Reject, tableVars, changeVars
  <2>2. CASE Publish /\ phase = "building"
    BY <2>2, PublishTimes
  <2>3. QED
    BY <1>8, <2>1, <2>2 DEF BuildHistory, Publish
<1>9. CASE BeginHistory
  <2>1. /\ UNCHANGED timeVars /\ phase' = "building" /\ snapshots' = snapshots
        /\ builder_ms' = NoTime /\ added' = {}
    BY <1>9 DEF BeginHistory, tableVars
  <2>2. TimeBound' /\ TimeAhead'
    BY <2>1, TimeTypes DEF TimeInv, TimeBound, TimeAhead, timeVars
  <2>3. QED
    BY <2>1, <2>2, BuilderTimes
<1>10. CASE Tick \/ UNCHANGED histVars
  <2>1. /\ UNCHANGED <<tableVars, changeVars, last_updated_ms, metadata_log, phase>>
        /\ clock' = clock \/ clock' = clock + 1
    BY <1>10 DEF Tick, histVars, timeVars
  <2>2. TimeBound'
    BY <2>1, TimeTypes DEF TimeInv, TimeBound, tableVars, changeVars
  <2>3. TimeAhead'
    BY <2>1 DEF TimeInv, TimeAhead, tableVars, changeVars
  <2>4. MetadataLogChronological(metadata_log, last_updated_ms)'
    BY <2>1 DEF TimeInv, MetadataLogChronological
  <2>5. ReadsBack'
    BY <2>1 DEF TimeInv, ReadsBack, Normalizes, CurrentExists, RefsValid, LogChronological,
                Adjacent, IsLast, MetadataLogChronological, SequenceNumbersValid, tableVars
  <2>6. QED
    BY <2>2, <2>3, <2>4, <2>5 DEF TimeInv
<1>11. QED
  BY <1>2, <1>3, <1>4, <1>5, <1>6, <1>7, <1>8, <1>9, <1>10 DEF NextHistory, ApplyHistory

(* Whatever build publishes passes the checks that loading it runs, if the *)
(* clocks of writers run ahead of this one by no more than the tolerance   *)
(* of those checks (ONE_MINUTE_MS, table_metadata.rs).  Without that       *)
(* premise the time of a commit that adds no snapshot may be too far       *)
(* behind the file it replaces.                                            *)
THEOREM AlwaysReadsBack ==
  ASSUME Skew <= Tolerance
  PROVE  SpecHistory => []ReadsBack
<1>1. InitHistory => HistInv /\ TimeInv
  <2>1. SUFFICES ASSUME InitHistory PROVE TimeInv
    BY InitStep
  <2>2. DOMAIN snapshots = {} /\ metadata_log = << >> /\ phase = "building"
        /\ last_updated_ms = 0 /\ clock = 0 /\ builder_ms = -1 /\ added = {}
    BY <2>1 DEF InitHistory, NoTime
  <2>3. TimeBound /\ TimeAhead /\ ReadsBack
    BY <2>2, HistoryAssumption DEF TimeBound, TimeAhead, ReadsBack, NoTime
  <2>4. MetadataLogChronological(metadata_log, last_updated_ms)
    BY <2>2 DEF MetadataLogChronological
  <2>5. QED
    BY <2>3, <2>4 DEF TimeInv
<1>2. HistInv /\ TimeInv /\ [NextHistory]_histVars => HistInv' /\ TimeInv'
  BY HistoryNextStep, NextTimes
<1>3. TimeInv => ReadsBack
  BY DEF TimeInv
<1>4. QED
  BY <1>1, <1>2, <1>3, PTL DEF SpecHistory

=============================================================================
