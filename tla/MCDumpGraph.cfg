CONSTANTS
  Programs <- MCPrograms
  Styles <- MCStyles
  MaxPasses = 40
  IntBits = 8
SPECIFICATION Spec
CHECK_DEADLOCK FALSE
INVARIANTS
  ParsesBack
  GraphClosed
  GraphRight
  PassesKeepMeaning
PROPERTIES
  NothingUseless
  PassesEnd
