SPECIFICATION Spec
CONSTANTS
  TOTAL_DOMAIN = 5
  DOMAIN_NO_MAP <- MinusOne
  NUM_PKEYS = 6
  u1 = u1
  u2 = u2
  u3 = u3
  Udi = {u1}
  Features <- NonIsolated
  Options = {"NO_HEAP_MERGE"}
  Access = {2}
  MaxRegions = 4
  MaxCache = 4
INVARIANT SlotFound
