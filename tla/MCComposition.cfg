SPECIFICATION Spec
CONSTANTS
  Queries <- MCQueries
  None = "none"
  ColumnType <- MCColumnType
  Unknown = "unknown"
  Doubtful = {"events"}
  Catalog = {"events", "archive", "other", "early", "lost"}
  ExternalTables = {"keys"}
  MaxVersion = 2
CHECK_DEADLOCK FALSE
INVARIANTS
  EveryCallHasItsVariant
  SignatureFitsEveryVariant
  OwnersFollowTheBlocks
  RefusedExactlyForCause
