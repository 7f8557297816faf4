SPECIFICATION Spec
CONSTANTS
  alice = alice
  bob = bob
  red = red
  blue = blue
  key = key
  s1 = s1
  c1 = c1
  c2 = c2
  c3 = c3
  NoKey = NoKey
  NoAuth = NoAuth
  Malformed = Malformed
  NoHash = NoHash
  Uids = {alice, bob}
  Channels = {red}
  Keys = {key}
  MLES_KEY = NoKey
  Bytes <- MCBytes
  concat <- MCconcat
  Spellings = {s1}
  Conn = {c1, c2}
  Limit = 2
  TASK_BUF = 1
  WS_BUF = 1
  CLEANUP = 0
  MaxTime = 0
  MaxMissed = 2
  Client <- Announced
INVARIANTS
  TripletDistributed
CHECK_DEADLOCK FALSE
