SPECIFICATION BootSpec
CONSTANTS
    User = {"ops", "admin"}
    VM = {"v1", "v2"}
    Source = {"shared", "answers", "v1", "v2"}
    Specs <- TwoVMs
    OwnSource <- OwnSources
    Documents <- SourceContents
    MaxDisturbances = 0
INVARIANTS
    InlineDataKept
CHECK_DEADLOCK FALSE
