\* Three frames, and an arena that two frames of sum beside the program fill.
CONSTANTS
  main = main
  sum = sum
  one = one
  nil = nil
  num = num
  Fn <- Functions
  Main <- main
  Data <- Plain
  Nil <- nil
  nparams <- ParamsOf
  nregs <- RegsOf
  CodeLen <- LengthOf
  FrameCapacity = 3
  ArenaSize = 6
SPECIFICATION CallSpec
INVARIANTS CallTypeOK StackDiscipline LocalsCurrent
PROPERTIES ImplementsActivations
CHECK_DEADLOCK FALSE
