SPECIFICATION Spec
CONSTANTS
  Meant <- MCMeant
  AnyTokens <- MCAnyTokens
  AnyTexts <- MCAnyTexts
  Digits = {"1"}
  Letters = {"i", "f"}
  MAX_TOKENS = 3
  TEXT_SIZE = 4
  OBJ_MAX_PROPS = 2
  JSON_SIZE = 16
  CONCAT_LEFT = 5
  CONCAT_MAX = 10
  PRINT_SIZE = 8
  PRINT_LEFT = 2
CHECK_DEADLOCK FALSE
INVARIANTS
  TypeOK
  TokensOfTheText
  ParsesWhatIsMeant
  NothingPassedOver
  RunsAsJavaScript
