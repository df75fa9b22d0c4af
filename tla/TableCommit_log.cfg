SPECIFICATION Spec
CONSTANTS
  t1 = t1
  t2 = t2
  i1 = i1
  i2 = i2
  i3 = i3
  s1 = s1
  f1 = f1
  f2 = f2
  g1 = g1
  other = other
  NoTable = NoTable
  Broken = Broken
  NoSnapshot = NoSnapshot
  Names = {t1, t2}
  Appenders = {i1, i2, i3}
  Setters = {s1}
  DataFiles = {f1, f2, g1}
  Others = {other}
  FilesOf <- MCFilesOf
  Target <- MCTarget
  External <- MCExternal
  MaxRetries = 1
  MaxTables = 2
INVARIANTS
  TypeOK
  EachFileOnce
  LinearHistory
PROPERTIES
  ImplementsAppendLog
CONSTRAINT WorkBound
SYMMETRY MCSymmetry
