\* Small programs, executed and compared with what they mean.
CONSTANTS
  Cap = 5
  Programs <- All
  Fuel = 12
  MaxEnvs = 14
SPECIFICATION FairCodeSpec
INVARIANTS CodeTypeOK CodeFits LoweredRight
PROPERTIES ProgramsEnd
CHECK_DEADLOCK FALSE
