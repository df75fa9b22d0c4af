SPECIFICATION FairSpec
CONSTANTS
  r1 = r1
  r2 = r2
  p1 = p1
  data = data
  empty = empty
  NoBytes = NoBytes
  Readers <- MCReaders
  Processes = {p1}
  ProcessOf <- MCOneProcess
  Paths <- MCPaths
  Size <- MCSize
  Requests <- MCRanges
  WholePaths = {empty}
INVARIANTS
  TornOnlyAfterOverlap
  IndexExact
  ReadExactOrOverlap
PROPERTY
  TornHeals
