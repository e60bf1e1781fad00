SPECIFICATION Spec
CONSTANTS
  TOTAL_DOMAIN = 4
  DOMAIN_NO_MAP <- MinusOne
  NUM_PKEYS = 3
  NUM_OF_THREADS = 4
  p1 = p1
  p2 = p2
  p3 = p3
  p4 = p4
  Thread <- Four
  Tid = {p1, p2, p3, p4}
  Creators = {0, 1}
  Requesters = {0, 2}
  MaxRequests = 1
  Detached = {2}
  MayFail = FALSE
INVARIANT RightRoutine
PROPERTY CreateReturns
