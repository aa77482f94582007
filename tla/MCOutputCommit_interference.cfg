\* One run at a time is not enough to disturb a commit: two runs of which
\* the second may start at any moment, with every call failing except remove,
\* and one change by another program at any point.
CONSTANTS
  r1 = r1
  r2 = r2
  Runs = {r1, r2}
  N = 2
  Capture = 0
  Modes = {"0644", "0600"}
  DefaultMode = "0644"
  CaptureMode = "0600"
  Faults = {"mkdir", "create", "fill", "sync", "lstat", "rename", "crash", "power"}
  Interference = {"edit", "delete", "link", "retarget"}
  MaxInterference = 1
SPECIFICATION Spec
SYMMETRY Interchangeable
INVARIANTS
  TypeOK
  OnlyCompleteOutputs
  NoStrayTemps
  PlannedPlacesOnly
PROPERTIES
  InstallsAfterAllStaged
CHECK_DEADLOCK FALSE
