SPECIFICATION PartsSpec
CONSTANTS
  Texts <- MCTexts
  Atoi <- MCAtoi
  MaxArgs = 4
  Pieces = {0, 1, 7, 55, 64, 73}
  Longest = 200
  ByteBits = 1
  Bytes = 2
  BN_MAX_WORDS = 8
  Operands <- MCOperands
  BLOCK_TYPE = 1
  MIN_PADDING = 1
  DECRYPTED_SIZE = 6
  PT_MAX = 1
  KeyFiles <- MCKeyFiles
  DER_MAX = 300
  VER_MAX = 8
  INT_MAX = 256
  sha256 <- MCsha256
  ByteXor <- MCByteXor
  DIGEST_SIZE = 3
  BLOCK_SIZE = 4
  SEED_SIZE = 6
  MASTER_SIZE = 5
  MAC_SIZE = 3
  KEY_SIZE = 2
  IV_SIZE = 2
  MasterLabel <- MCMasterLabel
  KeyLabel <- MCKeyLabel
  PrfCalls <- MCPrfCalls
  Sessions <- MCSessions
CHECK_DEADLOCK FALSE
INVARIANTS
  MainTypeOK
  SettingsAsGiven
  HashTypeOK
  DigestOfWholeMessage
  NothingLost
  TypeOK
  RemainderOfWhatCameDown
  PowerOfTheBitsSeen
  PaddingDecides
  KeyAsWritten
  PrfAsInRfc
