SPECIFICATION Spec
CONSTANTS
  p1 = p1
  p2 = p2
  short = short
  other = other
  long = long
  Paths = {p1, p2}
  Sources = {short, other, long}
  Tokens <- MCTokens
  Nothing = Nothing
  Pieces = {1, 2}
  MAX_TOKENS = 2
  CACHE_MAX = 1
  OutputSize = 3
  MaxSteps = 4
  MaxDefined = 1
SYMMETRY MCSymmetry
INVARIANTS
  TypeOK
  CacheBindsPath
  NothingIsLeft
  OutputWithinBuffer
