\* The same programs: does a name mean its binding in the activation that reads it?
CONSTANTS
  x = x
  y = y
  nil = nil
  v = v
  none = none
  top = top
  f = f
  loadInF = loadInF
  Sym <- Symbols
  Val <- Values
  Nil <- nil
  Unbound <- none
  Fn <- Functions
  Top <- top
  Encl <- EnclosedBy
  Params <- ParamsOf
  Site <- Sites
  SiteSym <- SymbolOf
  SiteFn <- FunctionOf
  MaxEnvs = 5
  MaxShapes = 6
SPECIFICATION ScopeSpec
PROPERTIES LexicalScoping
CHECK_DEADLOCK FALSE
