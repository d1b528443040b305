SPECIFICATION Spec
CONSTANTS
  c1 = c1  c2 = c2
  Clients = {c1, c2}
  Backlog = 2
  SockBuf = 1
  Zero = Zero
  IndexByte = IndexByte
  RecvCap = 4
  SendCap = 2
  FileCap = 3
  LineMax = 2
  HeaderMax = 1
  StaticLen = 1
  Requests <- MCRoutes
  IndexSizes = {1}
  IndexMax = 1
  IndexHeader = 1
  StackGarbage = {1, 4}
INVARIANT
  OwnBytesOnly
PROPERTIES
  RefinesRequestService
  EveryClientIsDismissed
CHECK_DEADLOCK FALSE
