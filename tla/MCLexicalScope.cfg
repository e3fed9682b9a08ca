\* Two activations of f, one after or inside the other.
CONSTANTS
  x = x
  y = y
  nil = nil
  v = v
  none = none
  top = top
  f = f
  loadInF = loadInF
  Sym <- Symbols
  Val <- Values
  Nil <- nil
  Unbound <- none
  Fn <- Functions
  Top <- top
  Encl <- EnclosedBy
  Params <- ParamsOf
  Site <- Sites
  SiteSym <- SymbolOf
  SiteFn <- FunctionOf
  MaxEnvs = 5
  MaxShapes = 6
SPECIFICATION ScopeSpec
PROPERTIES GlobalNamesCurrent
CHECK_DEADLOCK FALSE
