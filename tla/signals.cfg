SPECIFICATION Spec
CONSTANTS
  TOTAL_DOMAIN = 4
  Udi = {1, 2}
  MaxKeys = 4
  MaxFaults = 2
INVARIANTS TypeOK SegvDeliverable HeapSelected ChainApart
PROPERTY RewindStackSpec
CHECK_DEADLOCK FALSE
