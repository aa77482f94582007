\* A capture during which an input is edited, or the server changes, and a
\* replay after it.
CONSTANTS
  s1 = s1
  s2 = s2
  Sessions = {s1}
  N = 2
  Offline = {}
  Configs = {"c"}
  Schemas = {"schema"}
  Texts <- MCTexts
  External <- MCExternal
  Parameterised = {"param"}
  Options <- MCOptions
  Tables = {"t"}
  MaxVersion = 2
  MaxSessions = 2
  MaxChanges = 1
SPECIFICATION Spec
PROPERTIES
  ReplayReproduces
CHECK_DEADLOCK FALSE
