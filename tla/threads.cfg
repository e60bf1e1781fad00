SPECIFICATION Spec
CONSTANTS
  TOTAL_DOMAIN = 7
  DOMAIN_NO_MAP <- MinusOne
  NUM_PKEYS = 3
  NUM_OF_THREADS = 5
  p1 = p1
  p2 = p2
  p3 = p3
  p4 = p4
  Thread <- Five
  Tid = {p1, p2, p3, p4}
  Creators = {0}
  Requesters = {0}
  MaxRequests = 2
  Detached = {}
  MayFail = TRUE
INVARIANTS
  TypeOK
  FindsItself
  DomainsDistinct
  SlotsAccounted
SYMMETRY SymTid
