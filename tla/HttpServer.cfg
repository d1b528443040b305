SPECIFICATION Safety
CONSTANTS
  c1 = c1  c2 = c2
  Clients = {c1, c2}
  Backlog = 2
  SockBuf = 2
  Zero = Zero
  IndexByte = IndexByte
  RecvCap = 4
  SendCap = 3
  FileCap = 3
  LineMax = 2
  HeaderMax = 1
  StaticLen = 1
  Requests <- MCRequests
  IndexSizes = {0, 1, 2}
  IndexMax = 1
  IndexHeader = 1
  StackGarbage <- MCStackGarbage
SYMMETRY MCSymmetry
INVARIANTS
  TypeOK
  BuffersCleanBetweenClients
  OneOpenDescriptor
  WholeResponseOrNothing
  WipeFailsUnroutedOnly
CHECK_DEADLOCK FALSE
