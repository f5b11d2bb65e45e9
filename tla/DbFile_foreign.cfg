SPECIFICATION Spec
CONSTANTS
    Tables = {A, B, C}
    MaxFd = 8
    None = None
INVARIANT NoForeignFile
CHECK_DEADLOCK FALSE
