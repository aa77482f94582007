\* Two overlapping sessions, three in all, that call for captures, replays and
\* checks of two packages; one change of an input or of the server.
CONSTANTS
  s1 = s1
  s2 = s2
  Sessions = {s1, s2}
  N = 2
  Offline = {}
  Configs = {"c"}
  Schemas = {"schema"}
  Texts <- MCTexts
  External <- MCExternal
  Parameterised = {"param"}
  Options <- MCOptions
  Tables = {"t"}
  MaxVersion = 2
  MaxSessions = 3
  MaxChanges = 1
SPECIFICATION Spec
SYMMETRY Interchangeable
INVARIANTS
  TypeOK
  OneServerVersion

  
CHECK_DEADLOCK FALSE
