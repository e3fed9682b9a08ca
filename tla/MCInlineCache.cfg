\* One LOAD_VAR under every history of the environments it may read.
CONSTANTS
  x = x
  y = y
  nil = nil
  v = v
  none = none
  loadX = loadX
  Sym <- Symbols
  Val <- Values
  Nil <- nil
  Unbound <- none
  Site <- Sites
  SiteSym <- SymbolOf
  MaxEnvs = 4
  MaxShapes = 5
SPECIFICATION IcSpec
INVARIANTS TransitionsSound SlotsBacked CacheNotAhead HitReadsOwnBinding
PROPERTIES ShapesOnlyAdvance WrongOnlyOutOfScope
CHECK_DEADLOCK FALSE
