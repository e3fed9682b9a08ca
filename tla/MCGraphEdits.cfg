\* Three nodes beside the start and the end, with up to two inputs.
CONSTANTS
  Kind <- Kinds
  MaxNodes = 5
  MaxInputs = 2
SPECIFICATION Spec
INVARIANTS UsesMirrorInputs
PROPERTIES ImplementsDataFlow
CHECK_DEADLOCK FALSE
