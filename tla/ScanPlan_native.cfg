SPECIFICATION FairSpec
CONSTANTS
  a1 = a1
  a2 = a2
  b1 = b1
  b2 = b2
  x1 = x1
  x2 = x2
  none = none
  east = east
  west = west
  Unpartitioned = none
  IndexBuffer = 1
  Manifests = {"A", "B", "X", "Y"}
  Entries = {a1, a2, b1, b2, x1, x2}
  ManifestOf <- MCManifestOf
  Kind <- MCKind
  Partition <- MCPartition
  SeqNum <- MCSeqNum
  Alive = {a1, a2, b1, x1, x2}
  PassPartitions = {none, east}
  PassMetrics = {a1, a2, b1, b2}
  Limit = 2
PROPERTY PlanEnds
CHECK_DEADLOCK FALSE
