SPECIFICATION Spec
CONSTANTS
  Last = 2
  Seconds = {t1, t2}
  Blank = Blank
INVARIANTS
  TypeOK
  EndsAgree
  OnlyTheKeyStays
  ProtectedOnce
PROPERTIES
  RefinesSecureExchange
  EveryConnectionIsClosed
CHECK_DEADLOCK FALSE
