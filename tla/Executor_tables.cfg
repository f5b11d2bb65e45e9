SPECIFICATION ExecSpec
CONSTANTS
    Tables = {A, B}
    MaxFd = 7
    None = None
    MaxInserted = 1
SYMMETRY TableSymmetry
INVARIANTS ExecTypeOK HandlesReachOwnFile MapReachesOwnFile SelectsOwnRows ReadsOwnOrLoadedLast
PROPERTIES OpenedSoundWhileDbOpen FailureKeepsTables
CHECK_DEADLOCK FALSE
