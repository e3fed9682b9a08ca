\* What compiled programs do: two symbols, two values, one call environment.
CONSTANTS
  x = x
  y = y
  nil = nil
  v = v
  none = none
  Sym <- Sym2
  Val <- Values
  Nil <- nil
  Unbound <- none
  MaxEnvs = 4
  MaxShapes = 20
SPECIFICATION EnvSpec
INVARIANTS TypeOK SlotsDense SlotsBound ShapesInterned
PROPERTIES ImplementsScopeChain AssignmentsImplementChain
