SPECIFICATION Spec
CONSTANTS
  p1 = p1
  p2 = p2
  short = short
  other = other
  long = long
  Paths = {p1}
  Sources = {short, other}
  Tokens <- MCTokens
  Nothing = Nothing
  Pieces = {1}
  MAX_TOKENS = 2
  CACHE_MAX = 1
  OutputSize = 3
  MaxSteps = 1
  MaxDefined = 1
PROPERTY
  RunsWhatTheFileHolds
