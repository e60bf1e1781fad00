SPECIFICATION Spec
CONSTANTS
  TOTAL_DOMAIN = 4
  DOMAIN_NO_MAP <- MinusOne
  NUM_PKEYS = 5
  u1 = u1
  u2 = u2
  u3 = u3
  Udi = {u1, u2}
  Features <- ExecAndData
  Options = {"NO_HEAP_MERGE", "HEAP_MERGE"}
  Access = {0}
  MaxRegions = 4
  MaxCache = 3
INVARIANT EntersOwnStack
