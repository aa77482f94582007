SPECIFICATION Spec
CONSTANTS
  Directories <- MCDirectories
  Names <- MCNames
  Folded <- MCFolded
  Configurations <- MCConfigurations
  Disks <- MCDisks
  OutputNames = {"x.go", "X.go"}
  SqlNames = {"s.sql", "q.sql"}
  Disturbances = {"remove", "create", "move", "relink"}
  Troubled <- MCTroubled
  Links = {"l"}
  MaxDisturbances = 2
CHECK_DEADLOCK FALSE
INVARIANTS
  AcceptedIsSafe
  StableInputsSelected
  RefusedForCause
