SPECIFICATION ScanSpec
CONSTANTS
  f1 = f1
  f2 = f2
  f3 = f3
  NoLimit = NoLimit
  Files <- MCFiles
  Rows <- MCRows
  DefaultMinSize = 4
  FileSizes <- AllSizes
  Levels = {0, 1}
  Passes <- MovingFilter
  MaxPartitions = 2
  Limits = {NoLimit}
  MinSizes = {1}
INVARIANT DisjointSubsets
CHECK_DEADLOCK FALSE
