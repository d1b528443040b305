SPECIFICATION Spec
CONSTANTS
  Messages = {0, 1, 4}
  BufLen = 3
  Payloads = {0, 1, 4}
  Header = 2
  Iv = 2
  Mac = 3
  Block = 3
  MaxPad = 7
  Field = 16
  MaxRecordSize = 4
  MaxFragment = 12
  MaxRecords = 2
INVARIANTS
  TypeOK
  ReadsWhatWasWritten
  FailsOnlyAtTheEnd
PROPERTY EveryRecordIsRead
CHECK_DEADLOCK FALSE
