\* Lists of up to four nodes over two data pointers, which may repeat.
SPECIFICATION Spec
CONSTANTS
  Node = {n1, n2, n3, n4}
  Data = {d1, d2}
  NULL = NULL
  Freed = Freed
  Stale = Stale
INVARIANTS TypeOK NeverFaults WellLinked
PROPERTY ImplementsList
