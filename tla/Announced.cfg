SPECIFICATION MainSpec
CONSTANTS
  Texts <- MCTexts
  Atoi <- MCAtoi
  MaxArgs = 2
CHECK_DEADLOCK FALSE
INVARIANT
  ServesAllThatIsAnnounced
