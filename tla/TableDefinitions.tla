-------------------------- MODULE TableDefinitions --------------------------
(***************************************************************************)
(* The half of TableMetadataBuilder (spec/table_metadata_builder.rs) that  *)
(* keeps a table's definitions: its schemas, its partition specs and its   *)
(* sort orders, each kept by id for ever-older data files and snapshots,   *)
(* the current or default one of each, and the proxy id -1 that means the  *)
(* one added last in this builder.  One builder serves one commit: it is   *)
(* made from the table's metadata, receives the commit's updates one by    *)
(* one, and either builds the next metadata or is dropped at the first     *)
(* error, which leaves the table as it was.  The snapshots and references  *)
(* of the same builder are in TableHistory.                                *)
(***************************************************************************)
EXTENDS Integers, FiniteSets, Sequences

CONSTANTS
    Schemas,     \* the schemas callers add: sets of columns
    Specs,       \* the unbound partition specs callers add: sequences of fields
    MaxFieldId,  \* the greatest partition field id, i32::MAX
    Orders,      \* the sort orders callers add: sequences of column ids
    MaxOps,      \* bound: updates applied to the table, over all commits
    MaxCommits   \* bound: commits after the table's creation

(***************************************************************************)
(* A column is [id, name, primitive]; "primitive" stands for a type that   *)
(* every transform accepts.  A field of an unbound spec is [source,        *)
(* transform, name, fid]; the partition field id fid is the caller's       *)
(* choice or None, and a bound field always has one.                       *)
(***************************************************************************)
None == -2                       \* Option::None, of field ids and last_added_*

Column == [id : Nat, name : STRING, primitive : BOOLEAN]
Field  == [source : Nat, transform : STRING, name : STRING, fid : Nat \cup {None}]
Bound  == [source : Nat, transform : STRING, name : STRING, fid : Nat]

ASSUME SchemasAssumption ==
    /\ \A s \in Schemas : IsFiniteSet(s) /\ s \subseteq Column
    /\ \A s \in Schemas : \A c, d \in s : c.id = d.id \/ c.name = d.name => c = d

ASSUME SpecsAssumption ==
    \A u \in Specs : u \in Seq(Field)

ASSUME OrdersAssumption ==
    \A o \in Orders : o \in Seq(Nat)

ASSUME BoundsAssumption ==
    MaxOps \in Nat /\ MaxCommits \in Nat /\ MaxFieldId \in Nat

LAST_ADDED == -1

UNSORTED_ORDER_ID == 0
UNPARTITIONED_LAST_ASSIGNED_ID == 999

VARIABLES
    format_version,
    schemas,              \* id |-> schema
    current_schema_id,
    last_column_id,
    partition_specs,      \* id |-> bound fields
    default_spec,         \* [id, fields]: the builder keeps a copy, not only the id
    last_partition_id,
    disputed,             \* history: what a caller numbered against the table
    sort_orders,          \* id |-> column ids
    default_sort_order_id,
    last_added_schema_id,
    last_added_spec_id,
    last_added_order_id,
    asked,                \* history: the contents last passed to each add_*
    stage,                \* "building" | "built" | "failed"
    ops,                  \* history: updates applied
    commits               \* history: commits begun

schemaVars == <<schemas, current_schema_id, last_column_id, last_added_schema_id>>
specVars   == <<partition_specs, default_spec, last_partition_id, disputed, last_added_spec_id>>
orderVars  == <<sort_orders, default_sort_order_id, last_added_order_id>>
defVars    == <<format_version, schemaVars, specVars, orderVars, asked, stage, ops, commits>>

-----------------------------------------------------------------------------
(* Maps of the metadata: HashMap insert and retain. *)
Insert(f, k, v) == [i \in DOMAIN f \cup {k} |-> IF i = k THEN v ELSE f[i]]
Retain(f, S)    == [i \in DOMAIN f \cap S |-> f[i]]

Highest(S) == CHOOSE m \in S : \A n \in S : n <= m
Larger(a, b) == IF a > b THEN a ELSE b

Ids(s)   == {c.id : c \in s}
Names(s) == {c.name : c \in s}

AllFields == UNION {{partition_specs[i][j] : j \in DOMAIN partition_specs[i]}
                        : i \in DOMAIN partition_specs}

CurrentSchema == schemas[current_schema_id]

-----------------------------------------------------------------------------
(* validate_schema_field_names: a schema may not introduce a name that a   *)
(* partition field already has.                                            *)
SchemaNameConflict(s) ==
    /\ schemas # << >>
    /\ \E n \in Names(s) : /\ \E f \in AllFields : f.name = n
                           /\ \A i \in DOMAIN schemas : n \notin Names(schemas[i])

(* What a partition field partitions by. *)
Pair(f) == <<f.source, f.transform>>

(* PartitionSpecBuilder.add_unbound_field for every field of u: names,     *)
(* transforms of a source and the ids there are unique, no name of another *)
(* column taken, and a source column of a type the transform accepts.      *)
NamesUnique(u) ==
    \A i, j \in DOMAIN u : u[i].name = u[j].name => i = j
NoRedundantPartitions(u) ==
    \A i, j \in DOMAIN u : Pair(u[i]) = Pair(u[j]) => i = j
IdsUnique(u) ==
    \A i, j \in DOMAIN u : u[i].fid = u[j].fid /\ u[i].fid # None => i = j
NameFits(f, s) ==
    \A c \in s : c.name = f.name => f.transform = "identity" /\ c.id = f.source
SourceFits(f, s) ==
    \E c \in s : c.id = f.source /\ (f.transform = "void" \/ c.primitive)

SpecBinds(u, s) ==
    /\ NamesUnique(u)
    /\ NoRedundantPartitions(u)
    /\ IdsUnique(u)
    /\ \A i \in DOMAIN u : NameFits(u[i], s) /\ SourceFits(u[i], s)

(* SortOrderBuilder.check_compatibility. *)
OrderBinds(o, s) ==
    \A i \in DOMAIN o : \E c \in s : c.id = o[i] /\ c.primitive

Fids(u) == {u[i].fid : i \in DOMAIN u}
Supplied(u) == Fids(u) \ {None}

Numbered(u, ids) == [i \in DOMAIN u |->
    [source |-> u[i].source, transform |-> u[i].transform, name |-> u[i].name, fid |-> ids[i]]]

(* reuse_partition_field_ids: a field without an id borrows that of an     *)
(* equivalent field of an existing spec; of several the map keeps any one. *)
(* A caller's id stays.                                                    *)
Equivalents(f) == {g \in AllFields : Pair(g) = Pair(f)}

LentIds(f) == IF f.fid = None /\ Equivalents(f) # {} THEN {g.fid : g \in Equivalents(f)}
                                                   ELSE {f.fid}

(* Mutant: equivalent fields are not looked up. *)
LentToNobody(u) == {u}

Lent(u) ==
    {Numbered(u, ids) : ids \in {l \in [DOMAIN u -> UNION {LentIds(u[i]) : i \in DOMAIN u}] :
                                    \A i \in DOMAIN u : l[i] \in LentIds(u[i])}}

(* set_field_ids: the fields still without an id are numbered on from      *)
(* last_partition_id and from the ids of the fields before them, skipping  *)
(* the ids that later fields bring.  No numbering is left when the counter *)
(* overflows.                                                              *)
Candidates(u, ids, i) ==
    {n \in last_partition_id + 1 .. MaxFieldId :
        n \notin Supplied(u) /\ \A j \in DOMAIN u : j < i => ids[j] < n}

IsNext(n, S) == n \in S /\ \A m \in S : n <= m

SetFieldIds(u) ==
    {Numbered(u, ids) : ids \in
        {l \in [DOMAIN u -> Supplied(u) \cup (last_partition_id + 1 .. MaxFieldId)] :
            \A i \in DOMAIN u : IF u[i].fid # None THEN l[i] = u[i].fid
                                                   ELSE IsNext(l[i], Candidates(u, l, i))}}

HasSequentialIds(b) ==
    \A i \in DOMAIN b : b[i].fid = UNPARTITIONED_LAST_ASSIGNED_ID + i

(* is_compatible_with: equal but for the field ids. *)
WithoutIds(b) == [i \in DOMAIN b |->
    [source |-> b[i].source, transform |-> b[i].transform, name |-> b[i].name]]

(* A caller's id contradicts the table: an old field has it and partitions *)
(* by something else, or partitions by the same and has another.           *)
Contradicts(f) ==
    /\ f.fid # None
    /\ \E g \in AllFields : g.fid = f.fid <=> Pair(g) # Pair(f)

-----------------------------------------------------------------------------
(* An update is applied to a builder that has not failed; the first error  *)
(* drops the builder.                                                      *)
Update ==
    /\ stage = "building"
    /\ ops < MaxOps
    /\ ops' = ops + 1
    /\ UNCHANGED commits

Error ==
    /\ stage' = "failed"
    /\ UNCHANGED <<format_version, schemaVars, specVars, orderVars, asked>>

Done == UNCHANGED stage

(* reuse_or_create_new_schema_id *)
SameSchemas(s) == {i \in DOMAIN schemas : schemas[i] = s}

(* Mutant: the number of schemas serves as the next id. *)
SchemaIdByCount(s) == IF SameSchemas(s) # {} THEN CHOOSE i \in SameSchemas(s) : TRUE
                                             ELSE Cardinality(DOMAIN schemas)

SchemaId(s) == IF SameSchemas(s) # {} THEN CHOOSE i \in SameSchemas(s) : TRUE
                                      ELSE Highest(DOMAIN schemas) + 1

(* Mutant: a schema found among the old ones is not remembered as the last added. *)
ReuseSchemaSilently(s) ==
    /\ SameSchemas(s) # {}
    /\ asked' = [asked EXCEPT !.schema = s]
    /\ UNCHANGED <<schemas, last_column_id, last_added_schema_id>>

ReuseSchema(s) ==
    /\ SameSchemas(s) # {}
    /\ last_added_schema_id' = SchemaId(s)
    /\ asked' = [asked EXCEPT !.schema = s]
    /\ UNCHANGED <<schemas, last_column_id>>

CreateSchema(s) ==
    /\ SameSchemas(s) = {}
    /\ schemas' = Insert(schemas, SchemaId(s), s)
    /\ last_column_id' = Larger(last_column_id, Highest(Ids(s) \cup {0}))
    /\ last_added_schema_id' = SchemaId(s)
    /\ asked' = [asked EXCEPT !.schema = s]

(* add_schema *)
AddSchema(s) ==
    /\ Update
    /\ \/ SchemaNameConflict(s) /\ Error
       \/ /\ ~SchemaNameConflict(s)
          /\ ReuseSchema(s) \/ CreateSchema(s)
          /\ Done
          /\ UNCHANGED <<current_schema_id, format_version, specVars, orderVars>>

(* set_current_schema: -1 is the schema added last in this builder. *)
SetCurrentSchema(id) ==
    LET target == IF id = LAST_ADDED THEN last_added_schema_id ELSE id
    IN  /\ Update
        /\ \/ target \notin DOMAIN schemas /\ Error
           \/ /\ target \in DOMAIN schemas
              /\ current_schema_id' = target
              /\ Done
              /\ UNCHANGED <<schemas, last_column_id, last_added_schema_id,
                             format_version, specVars, orderVars, asked>>

(* Mutant: the current schema may be removed too. *)
RemoveAnySchemas(S) ==
    /\ Update
    /\ schemas' = Retain(schemas, DOMAIN schemas \ S)
    /\ Done
    /\ UNCHANGED <<current_schema_id, last_column_id, last_added_schema_id,
                   format_version, specVars, orderVars, asked>>

(* remove_schemas: everything but the current schema may go. *)
RemoveSchemas(S) ==
    /\ Update
    /\ \/ current_schema_id \in S /\ Error
       \/ /\ current_schema_id \notin S
          /\ schemas' = Retain(schemas, DOMAIN schemas \ S)
          /\ Done
          /\ UNCHANGED <<current_schema_id, last_column_id, last_added_schema_id,
                         format_version, specVars, orderVars, asked>>

-----------------------------------------------------------------------------
(* reuse_or_create_new_spec_id, of a bound spec. *)
CompatibleSpecs(b) == {i \in DOMAIN partition_specs : WithoutIds(partition_specs[i]) = WithoutIds(b)}
SpecId(b) == IF CompatibleSpecs(b) # {} THEN CHOOSE i \in CompatibleSpecs(b) : TRUE
                                        ELSE Highest(DOMAIN partition_specs) + 1

(* A v1 table numbers the fields of every spec from 1000 on. *)
Unnumberable(b) ==
    /\ CompatibleSpecs(b) = {}
    /\ format_version = 1
    /\ ~HasSequentialIds(b)

(* The table's spec stays as it is, and so do its ids. *)
ReuseSpec(b) ==
    /\ CompatibleSpecs(b) # {}
    /\ UNCHANGED <<partition_specs, last_partition_id, disputed>>

CreateSpec(u, b) ==
    /\ CompatibleSpecs(b) = {}
    /\ partition_specs' = Insert(partition_specs, SpecId(b), b)
    /\ last_partition_id' = Larger(last_partition_id,
            Highest(Fids(b) \cup {UNPARTITIONED_LAST_ASSIGNED_ID}))
    /\ disputed' = disputed \cup {Pair(u[i]) : i \in {j \in DOMAIN u : Contradicts(u[j])}}

(* add_partition_spec: bound eagerly to the current schema.  w is the spec *)
(* with its borrowed ids, b the bound one.                                 *)
AddPartitionSpec(u) ==
    /\ Update
    /\ \E w \in Lent(u) :
          \/ ~SpecBinds(w, CurrentSchema) /\ Error
          \/ SpecBinds(w, CurrentSchema) /\ SetFieldIds(w) = {} /\ Error
          \/ /\ SpecBinds(w, CurrentSchema)
             /\ \E b \in SetFieldIds(w) :
                   \/ Unnumberable(b) /\ Error
                   \/ /\ ~Unnumberable(b)
                      /\ ReuseSpec(b) \/ CreateSpec(u, b)
                      /\ last_added_spec_id' = SpecId(b)
                      /\ asked' = [asked EXCEPT !.spec = u]
                      /\ Done
                      /\ UNCHANGED <<default_spec, format_version, schemaVars, orderVars>>

(* set_default_partition_spec: computing the partition type needs every    *)
(* source column in the current schema, unless the default already has the *)
(* id, when nothing is looked up at all.                                   *)
SpecTypable(b) == \A i \in DOMAIN b : b[i].source \in Ids(CurrentSchema)

SetDefaultPartitionSpec(id) ==
    LET target == IF id = LAST_ADDED THEN last_added_spec_id ELSE id
        fails  == /\ target # default_spec.id
                  /\ ~(target \in DOMAIN partition_specs /\ SpecTypable(partition_specs[target]))
    IN  /\ Update
        /\ \/ fails /\ Error
           \/ /\ ~fails
              /\ default_spec' = IF target = default_spec.id THEN default_spec
                                 ELSE [id |-> target, fields |-> partition_specs[target]]
              /\ Done
              /\ UNCHANGED <<partition_specs, last_partition_id, disputed, last_added_spec_id,
                             format_version, schemaVars, orderVars, asked>>

(* remove_partition_specs: everything but the default spec may go. *)
RemovePartitionSpecs(S) ==
    /\ Update
    /\ \/ default_spec.id \in S /\ Error
       \/ /\ default_spec.id \notin S
          /\ partition_specs' = Retain(partition_specs, DOMAIN partition_specs \ S)
          /\ Done
          /\ UNCHANGED <<default_spec, last_partition_id, disputed, last_added_spec_id,
                         format_version, schemaVars, orderVars, asked>>

-----------------------------------------------------------------------------
(* reuse_or_create_new_sort_id: the unsorted order is always order 0. *)
EqualOrders(o) == {i \in DOMAIN sort_orders : sort_orders[i] = o}
OrderId(o) == IF o = << >> THEN UNSORTED_ORDER_ID
              ELSE IF EqualOrders(o) # {} THEN CHOOSE i \in EqualOrders(o) : TRUE
              ELSE Highest(DOMAIN sort_orders \cup {UNSORTED_ORDER_ID}) + 1

(* add_sort_order: a known order is taken as it is, a new one is bound to  *)
(* the current schema.                                                     *)
AddSortOrder(o) ==
    /\ Update
    /\ \/ OrderId(o) \notin DOMAIN sort_orders /\ ~OrderBinds(o, CurrentSchema) /\ Error
       \/ /\ \/ OrderId(o) \in DOMAIN sort_orders /\ UNCHANGED sort_orders
             \/ /\ OrderId(o) \notin DOMAIN sort_orders
                /\ OrderBinds(o, CurrentSchema)
                /\ sort_orders' = Insert(sort_orders, OrderId(o), o)
          /\ last_added_order_id' = OrderId(o)
          /\ asked' = [asked EXCEPT !.order = o]
          /\ Done
          /\ UNCHANGED <<default_sort_order_id, format_version, schemaVars, specVars>>

(* set_default_sort_order *)
SetDefaultSortOrder(id) ==
    LET target == IF id = LAST_ADDED THEN last_added_order_id ELSE id
    IN  /\ Update
        /\ \/ target \notin DOMAIN sort_orders /\ Error
           \/ /\ target \in DOMAIN sort_orders
              /\ default_sort_order_id' = target
              /\ Done
              /\ UNCHANGED <<sort_orders, last_added_order_id, format_version,
                             schemaVars, specVars, asked>>

(* upgrade_format_version: never down. *)
UpgradeFormatVersion(v) ==
    /\ Update
    /\ \/ v < format_version /\ Error
       \/ /\ v >= format_version
          /\ format_version' = v
          /\ Done
          /\ UNCHANGED <<schemaVars, specVars, orderVars, asked>>

-----------------------------------------------------------------------------
(* build: the definitions were changed one by one, so whether the current  *)
(* schema still carries the default spec and the default order is only     *)
(* known now.  try_normalize adds a missing default spec and wants order 0 *)
(* to be unsorted.                                                         *)
(* Mutant: the default sort order is not checked again. *)
DefinitionsFitButOrder ==
    /\ current_schema_id \in DOMAIN schemas
    /\ default_sort_order_id \in DOMAIN sort_orders
    /\ SpecBinds(default_spec.fields, CurrentSchema)

DefinitionsFit ==
    /\ current_schema_id \in DOMAIN schemas
    /\ default_sort_order_id \in DOMAIN sort_orders
    /\ SpecBinds(default_spec.fields, CurrentSchema)
    /\ OrderBinds(sort_orders[default_sort_order_id], CurrentSchema)
    /\ UNSORTED_ORDER_ID \in DOMAIN sort_orders => sort_orders[UNSORTED_ORDER_ID] = << >>

BuildDefinitions ==
    /\ stage = "building"
    /\ \/ ~DefinitionsFit /\ Error
       \/ /\ DefinitionsFit
          /\ partition_specs' =
                IF default_spec.id \in DOMAIN partition_specs THEN partition_specs
                ELSE Insert(partition_specs, default_spec.id, default_spec.fields)
          /\ stage' = "built"
          /\ UNCHANGED <<format_version, schemaVars, default_spec, last_partition_id,
                         disputed, last_added_spec_id, orderVars, asked>>
    /\ UNCHANGED <<ops, commits>>

(* new_from_metadata: the next commit's builder knows nothing of what was  *)
(* added last.                                                             *)
BeginDefinitions ==
    /\ stage = "built"
    /\ commits < MaxCommits
    /\ commits' = commits + 1
    /\ stage' = "building"
    /\ last_added_schema_id' = None
    /\ last_added_spec_id' = None
    /\ last_added_order_id' = None
    /\ UNCHANGED <<format_version, schemas, current_schema_id, last_column_id,
                   partition_specs, default_spec, last_partition_id, disputed, sort_orders,
                   default_sort_order_id, asked, ops>>

(* new: add_current_schema, add_default_partition_spec and                 *)
(* add_default_sort_order on an empty builder, whose schema (like the spec *)
(* and the order bound to it) reassign_ids numbered afresh; ids the caller *)
(* gave the spec's fields are dropped.                                     *)
FreshSpec(u) == Numbered(u, [i \in DOMAIN u |-> UNPARTITIONED_LAST_ASSIGNED_ID + i])

InitDefinitions ==
    \E s \in Schemas, u \in Specs, o \in Orders, v \in 1..3 :
        /\ SpecBinds(FreshSpec(u), s)
        /\ OrderBinds(o, s)
        /\ format_version = v
        /\ schemas = [i \in {0} |-> s]
        /\ current_schema_id = 0
        /\ last_column_id = Highest(Ids(s) \cup {0})
        /\ last_added_schema_id = 0
        /\ partition_specs = [i \in {0} |-> FreshSpec(u)]
        /\ default_spec = [id |-> 0, fields |-> FreshSpec(u)]
        /\ last_partition_id = UNPARTITIONED_LAST_ASSIGNED_ID + Len(u)
        /\ disputed = {}
        /\ last_added_spec_id = 0
        /\ sort_orders = [i \in {IF o = << >> THEN UNSORTED_ORDER_ID ELSE 1} |-> o]
        /\ default_sort_order_id = IF o = << >> THEN UNSORTED_ORDER_ID ELSE 1
        /\ last_added_order_id = IF o = << >> THEN UNSORTED_ORDER_ID ELSE 1
        /\ asked = [schema |-> s, spec |-> u, order |-> o]
        /\ stage = "building"
        /\ ops = 0
        /\ commits = 0

(* TableUpdate::apply, the definitions' variants; ids may be unknown ones. *)
ApplyDefinition ==
    \/ \E s \in Schemas : AddSchema(s)
    \/ \E id \in DOMAIN schemas \cup {LAST_ADDED, MaxOps} : SetCurrentSchema(id)
    \/ \E id \in DOMAIN schemas : RemoveSchemas({id})
    \/ \E u \in Specs : AddPartitionSpec(u)
    \/ \E id \in DOMAIN partition_specs \cup {LAST_ADDED, MaxOps} : SetDefaultPartitionSpec(id)
    \/ \E id \in DOMAIN partition_specs : RemovePartitionSpecs({id})
    \/ \E o \in Orders : AddSortOrder(o)
    \/ \E id \in DOMAIN sort_orders \cup {LAST_ADDED, MaxOps} : SetDefaultSortOrder(id)
    \/ \E v \in 1..3 : UpgradeFormatVersion(v)

NextDefinitions == ApplyDefinition \/ BuildDefinitions \/ BeginDefinitions

SpecDefinitions == InitDefinitions /\ [][NextDefinitions]_defVars

-----------------------------------------------------------------------------
(* Types; the builder's ids of current and default definitions resolve at  *)
(* every moment of its life, also between two updates.                     *)
DefinitionsTypeOK ==
    /\ format_version \in 1..3
    /\ DOMAIN schemas \subseteq Nat /\ \A i \in DOMAIN schemas : schemas[i] \in Schemas
    /\ current_schema_id \in DOMAIN schemas
    /\ last_column_id \in Nat
    /\ DOMAIN partition_specs \subseteq Nat
    /\ \A i \in DOMAIN partition_specs : partition_specs[i] \in Seq(Bound)
    /\ default_spec.id \in DOMAIN partition_specs
    /\ last_partition_id \in Nat
    /\ DOMAIN sort_orders \subseteq Nat /\ \A i \in DOMAIN sort_orders : sort_orders[i] \in Orders
    /\ default_sort_order_id \in DOMAIN sort_orders
    /\ asked.schema \in Schemas /\ asked.spec \in Specs /\ asked.order \in Orders
    /\ stage \in {"building", "built", "failed"}
    /\ ops \in 0..MaxOps /\ commits \in 0..MaxCommits

(* Id -1 means what the caller added last: while the definition it stands  *)
(* for exists, it is the one last passed to add_schema, add_partition_spec *)
(* or add_sort_order, whether that was new or found among the old ones and *)
(* whatever was removed since (table_metadata_builder.rs).                 *)
LastAddedAsAsked ==
    /\ last_added_schema_id \in DOMAIN schemas =>
            schemas[last_added_schema_id] = asked.schema
    /\ last_added_spec_id \in DOMAIN partition_specs =>
            WithoutIds(partition_specs[last_added_spec_id]) = WithoutIds(asked.spec)
    /\ last_added_order_id \in DOMAIN sort_orders =>
            sort_orders[last_added_order_id] = asked.order

(* What build publishes can be used: the copy of the default spec is the   *)
(* spec under its id, spec and order read columns of the current schema    *)
(* that exist and sort, no partition field takes another column's name,    *)
(* and no column of any schema is numbered above last_column_id, from      *)
(* which the next column is numbered.                                      *)
BuiltUsable ==
    stage = "built" =>
        /\ partition_specs[default_spec.id] = default_spec.fields
        /\ \A i \in DOMAIN default_spec.fields :
              /\ default_spec.fields[i].source \in Ids(CurrentSchema)
              /\ NameFits(default_spec.fields[i], CurrentSchema)
        /\ OrderBinds(sort_orders[default_sort_order_id], CurrentSchema)
        /\ \A i \in DOMAIN schemas : \A c \in schemas[i] : c.id <= last_column_id

(* Partition field ids identify: no spec has an id twice, none is above    *)
(* last_partition_id, a v1 table's specs are numbered from 1000 on, and    *)
(* over all specs of the table two fields have the same id exactly when    *)
(* they have the same source and transform (what projects a partition      *)
(* value of an old file onto a new spec), unless a caller once chose an id *)
(* against the table's for one of the two (reuse_partition_field_ids,      *)
(* set_field_ids).                                                         *)
PartitionFieldIds ==
    /\ \A i \in DOMAIN partition_specs : IdsUnique(partition_specs[i])
    /\ \A f, g \in AllFields : {Pair(f), Pair(g)} \cap disputed = {} =>
          (f.fid = g.fid <=> Pair(f) = Pair(g))
    /\ \A f \in AllFields : f.fid <= last_partition_id
    /\ format_version = 1 =>
          \A i \in DOMAIN partition_specs : HasSequentialIds(partition_specs[i])

(* A definition never changes under its id, whose files and snapshots refer *)
(* to it, and the counters that number new ones never fall.                *)
SameUnderId(f, g) == \A i \in DOMAIN f \cap DOMAIN g : f[i] = g[i]

DefinitionsKept ==
    [][/\ SameUnderId(schemas, schemas')
       /\ SameUnderId(partition_specs, partition_specs')
       /\ SameUnderId(sort_orders, sort_orders')
       /\ last_column_id' >= last_column_id
       /\ last_partition_id' >= last_partition_id
       /\ format_version' >= format_version]_defVars

=============================================================================
