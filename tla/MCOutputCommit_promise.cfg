\* Every call can fail, runs are killed and power is lost, other programs edit
\* files but exchange no directory: two runs, each complete or alone.
CONSTANTS
  r1 = r1
  r2 = r2
  Runs = {r1, r2}
  N = 2
  Capture = 0
  Modes = {"0644", "0600"}
  DefaultMode = "0644"
  CaptureMode = "0600"
  Faults = {"create", "fill", "rename", "remove", "power"}
  Interference = {"edit"}
  MaxInterference = 1
SPECIFICATION FairSpec
PROPERTIES
  SoloRunInstallsOneGeneration
  PreservesMode
  ImplementsFileInstall
  StartedRunEnds
CHECK_DEADLOCK FALSE
