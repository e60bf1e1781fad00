SPECIFICATION Spec
CONSTANTS
  t1 = t1
  t2 = t2
  t3 = t3
  NoThread = NoThread
  Thread = {t1, t2, t3}
  Maker = t1
  Udi = {1, 2}
  TOTAL_DOMAIN = 5
  Calls <- CallsInOrder
  Kinds = {"EXECUTION", "DATA"}
  Ends = {"destroy"}
  MayFault = TRUE
  MaxCalls = 3
  MaxMade = 2
INVARIANTS TypeOK HeapExclusive UsesOwnersHeap FreedWhereAllocated HeapsOwned
PROPERTY CallsEnd
CHECK_DEADLOCK FALSE
