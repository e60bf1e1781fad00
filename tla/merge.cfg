SPECIFICATION Spec
CONSTANTS
  SL_INDEX_COUNT_LOG2 = 2
  FL_INDEX_MAX = 6
  TLSF_SIZE = 2
  TOTAL_DOMAIN = 6
  MonitorSize = 60
  SDRAD_DEFAULT_HEAP_SIZE = 16
  SDRAD_DEFAULT_DATA_DOMAIN_SIZE = 32
  SDRAD_TLSF_MAX_HEAP_SIZE = 14
  NodeSize = 4
  EntrySize = 8
  Sizes = {3, 5}
  Aligns = {}
  Kinds = {"DATA"}
  Options = {"HEAP_MERGE"}
  Calls = {"malloc", "free", "sdrad_malloc", "sdrad_free"}
  LastFirst = TRUE
  MaxWords = 300
  MaxDomains = 3
  MaxListed = 1
  MaxChunks = 3
INVARIANTS
  AssertsHold
CHECK_DEADLOCK FALSE
