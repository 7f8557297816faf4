SPECIFICATION Spec
CONSTANTS
  p = p
  q = q
  small = small
  other = other
  large = large
  huge = huge
  NoData = NoData
  Key <- MCKey
  Data = {small, other, large, huge}
  Size <- MCSize
  Capacity = 2
  max_size = 5
  MAX_FILE_SIZE = 6
INVARIANTS
  SizeBound
PROPERTIES
  IsForgetfulMap
