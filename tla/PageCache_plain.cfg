SPECIFICATION Spec
CONSTANTS
    NumPages = 3
    MaxPageId = 4
    Files = {f, g}
    None = None
    Sanitized = FALSE
    WriteFails = TRUE
INVARIANTS TypeOK HitIsLatest FramesDisjoint OneFrameLost
PROPERTY EvictsOwnEntry
CHECK_DEADLOCK FALSE
