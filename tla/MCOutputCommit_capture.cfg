\* One run that replaces a generated output and an existing capture file.
CONSTANTS
  r1 = r1
  r2 = r2
  Runs = {r1}
  N = 2
  Capture = 2
  Modes = {"0644", "0600"}
  DefaultMode = "0644"
  CaptureMode = "0600"
  Faults = {}
  Interference = {}
  MaxInterference = 0
SPECIFICATION Spec
PROPERTIES
  PreservesMode
CHECK_DEADLOCK FALSE
