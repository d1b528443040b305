SPECIFICATION Safety
CONSTANTS
  Messages = {0, 1, 4}
  BufLen = 8
  Payloads = {1, 4, 8, 16}
  Header = 2
  Iv = 2
  Mac = 3
  Block = 3
  MaxPad = 7
  Field = 16
  MaxRecordSize = 4
  MaxFragment = 12
  MaxRecords = 3
INVARIANT PlaintextWithinLimit
CHECK_DEADLOCK FALSE
