SPECIFICATION Spec
CONSTANTS
  page = page
  a = a
  b = b
  NoData = NoData
  Key <- MCKey
  Data <- MCData
  Size <- MCSize
  Capacity = 2
  max_size = 2
  MAX_FILE_SIZE = 1
  Paths = {page}
  Clients = {a, b}
  Wants = {{"zstd", "br"}, {"br"}, {}}
  Version = {0, 1, 2}
  SECOND = 2
  MaxTime = 2
INVARIANTS
  ServedFresh
  NotModifiedIsCurrent
SYMMETRY ClientSymmetry
CHECK_DEADLOCK FALSE
