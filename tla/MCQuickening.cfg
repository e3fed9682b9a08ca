\* Integers have three bits; everything else has its size.
SPECIFICATION Spec
CONSTANTS
  Operands <- MCOperands
  Ops <- MCOps
  IntBits = 3
INVARIANTS
  QuickeningTypeOK
  VariantsAgree
  SpecialisedExactly
  BatchIdle
