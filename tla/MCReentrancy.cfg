\* A program that applies a closure to the elements of a vector.
CONSTANTS
  main = main
  square = square
  nil = nil
  sapply = sapply
  Fn <- Functions
  Main <- main
  Data <- Plain
  Nil <- nil
  Apply <- sapply
  nparams <- ParamsOf
  nregs <- RegsOf
  CodeLen <- LengthOf
  FrameCapacity = 3
  ArenaSize = 6
SPECIFICATION ReSpec
PROPERTIES OuterRegistersIntact
CHECK_DEADLOCK FALSE
