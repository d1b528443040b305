SPECIFICATION Spec
CONSTANTS
  p1 = p1
  p2 = p2
  short = short
  other = other
  long = long
  Paths = {p1}
  Sources = {short, long}
  Tokens <- MCTokens
  Nothing = Nothing
  Pieces = {0, 1, 2}
  MAX_TOKENS = 2
  CACHE_MAX = 1
  OutputSize = 4
  MaxSteps = 4
  MaxDefined = 3
INVARIANT
  ClosuresKeepTheirScope
