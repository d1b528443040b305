SPECIFICATION Spec
CONSTANTS
  Names <- MCNames
  Exprs <- MCExprs
  Height <- MCHeight
  Conds <- MCConds
  Bodies <- MCBodies
  Scopes <- MCScopes
  Junk <- MCJunk
  MaxTurns = 3
  JIT_CODE_SIZE = 110
  Slots = 3
  LastRegister = 2
CHECK_DEADLOCK FALSE
INVARIANT
  TypeOK
PROPERTY
  RefinesWhileLoop
