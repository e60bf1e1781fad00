SPECIFICATION Spec
CONSTANTS
  SL_INDEX_COUNT_LOG2 = 2
  FL_INDEX_MAX = 5
  TLSF_SIZE = 2
  TOTAL_DOMAIN = 3
  MonitorSize = 12
  SDRAD_DEFAULT_HEAP_SIZE = 40
  SDRAD_DEFAULT_DATA_DOMAIN_SIZE = 32
  SDRAD_TLSF_MAX_HEAP_SIZE = 26
  NodeSize = 4
  EntrySize = 8
  Sizes = {1, 5, 9}
  Aligns = {4}
  Kinds = {}
  Options = {}
  Calls <- LibcCalls
  LastFirst = TRUE
  MaxWords = 100
  MaxDomains = 0
  MaxListed = 0
  MaxChunks = 4
INVARIANTS
  TypeOK
  CallsReturn
  ListsExact
  HeapsChecked
  RefusedOnlyIfFull
PROPERTIES
  AllocatorSpec
