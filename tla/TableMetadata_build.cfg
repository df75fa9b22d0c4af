SPECIFICATION MCSpec
CONSTANTS
  s1 = s1
  s2 = s2
  NoSnapshot = NoSnapshot
  Schemas <- MCSchemas
  Specs <- MCSpecs
  MaxFieldId = 1002
  Orders <- MCOrders
  MaxOps = 4
  MaxCommits = 2
  SnapshotIds <- MCSnapshotIds
  Refs = {"main", "b"}
  Tolerance = 1
  Skew = 1
  MaxTime = 1
  MaxRowId = 2
  MaxLog = 1
  MaxUpdates = 4
  MaxBuilds = 2
SYMMETRY Perms
INVARIANTS
  DefinitionsTypeOK
  LastAddedAsAsked
  BuiltUsable
  PartitionFieldIds
  HistoryTypeOK
  LogIsHistory
  ReadsBack
  RowIdsDisjoint
PROPERTIES
  DefinitionsKept
CHECK_DEADLOCK FALSE
