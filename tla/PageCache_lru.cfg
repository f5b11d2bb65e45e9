SPECIFICATION Spec
CONSTANTS
    NumPages = 2
    MaxPageId = 3
    Files = {f}
    None = None
    Sanitized = TRUE
    WriteFails = FALSE
PROPERTY EvictsLeastRecent
CHECK_DEADLOCK FALSE
