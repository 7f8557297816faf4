SPECIFICATION FairSpec
CONSTANTS
  c1 = c1
  c2 = c2
  c3 = c3
  c4 = c4
  c5 = c5
  NoConn = NoConn
  Conn = {c1, c2, c3, c4, c5}
  Addr <- MixedSources
  TLS = TRUE
  rate_limit = TRUE
  max_per_key = 2
  filelimit = 1
INVARIANTS
  TypeOK
  CountsExact
  PerSourceCap
  PermitsConserved
PROPERTIES
  NoneHeldUp
CHECK_DEADLOCK FALSE
