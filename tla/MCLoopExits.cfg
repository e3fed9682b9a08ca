\* The same programs: those that leave loops by break, or go on by next.
CONSTANTS
  Cap = 5
  Programs <- All
  Fuel = 12
  MaxEnvs = 14
SPECIFICATION FairCodeSpec
PROPERTIES LoopExitsEnd
CHECK_DEADLOCK FALSE
