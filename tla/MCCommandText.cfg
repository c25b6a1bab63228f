SPECIFICATION Spec
CONSTANTS
  Letters = {"p"}
  Inputs = {"in", "both"}
  Outputs = {"both", "out"}
  Paths <- MCPaths
  MaxLength = 4
CHECK_DEADLOCK FALSE
INVARIANTS
  ArgumentsAsIntended
  NothingLost
