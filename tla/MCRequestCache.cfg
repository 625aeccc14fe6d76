SPECIFICATION Spec
CONSTANTS
  a = a
  b = b
  c = c
  d = d
  Ids <- MCIds
  Capacity = 3
  InProgress = 2
  MaxAge = 1
  Ttl = 2
  MaxNow = 3
  MaxExtra = 1
SYMMETRY Alike
INVARIANTS
  CacheTypeOK
  RunningIsActive
  AnswersAgree
  RememberedLongEnough
CHECK_DEADLOCK FALSE
