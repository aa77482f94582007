\* Captures and replays of an offline package between two server packages, with
\* examples by bare query name, one after the other; two changes.
CONSTANTS
  s1 = s1
  s2 = s2
  Sessions = {s1}
  N = 3
  Offline = {2}
  Configs = {"c"}
  Schemas = {"schema"}
  Texts <- MCTexts
  External <- MCExternal
  Parameterised = {"param"}
  Options <- MCMixedOptions
  Tables = {"t"}
  MaxVersion = 2
  MaxSessions = 3
  MaxChanges = 2
SPECIFICATION Spec
PROPERTIES
  FreshContractsAccepted
  ExamplesUsedOnce
CHECK_DEADLOCK FALSE
