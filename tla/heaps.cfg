SPECIFICATION Spec
CONSTANTS
  SL_INDEX_COUNT_LOG2 = 2
  FL_INDEX_MAX = 6
  TLSF_SIZE = 2
  TOTAL_DOMAIN = 6
  MonitorSize = 60
  SDRAD_DEFAULT_HEAP_SIZE = 16
  SDRAD_DEFAULT_DATA_DOMAIN_SIZE = 16
  SDRAD_TLSF_MAX_HEAP_SIZE = 10
  NodeSize = 4
  EntrySize = 8
  Sizes = {3, 6}
  Aligns = {4}
  Kinds = {"EXECUTION", "DATA"}
  Options = {"NO_HEAP_MERGE"}
  Calls <- DomainCalls
  LastFirst = TRUE
  MaxWords = 300
  MaxDomains = 3
  MaxListed = 1
  MaxChunks = 2
INVARIANTS
  CallsReturn
  HeapsApart
  NoResidue
  MonitorBlocksKept
PROPERTIES
  AllocatorSpec
CHECK_DEADLOCK FALSE
