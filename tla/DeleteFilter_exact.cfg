SPECIFICATION FairSpec
CONSTANTS
  t1 = t1
  t2 = t2
  p1 = p1
  p2 = p2
  e1 = e1
  Tasks = {t1, t2}
  PosDeletes = {p1, p2}
  EqDeletes = {e1}
  DeletesOf <- SharedDeletes
  Refs <- SharedRefs
  Limit = 2
INVARIANTS
  DeletesApplied
  LoadsOnce
  PredicatePresent

PROPERTY EndsUnlessOvertaken
CHECK_DEADLOCK FALSE
