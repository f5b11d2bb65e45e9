\* One run of the loader with deletions, on disks that do what they are told.
SPECIFICATION LoaderSpec
CONSTANTS
    SlotsPerPage = 2
    ScanPages = 3
    MaxPage = 4
    MaxRecords = 8
    Rows = {r1, r2}
    Free = Free
    Torn = Torn
    Faults = {}
    Reruns = FALSE
INVARIANTS LoaderTypeOK CountExact 
PROPERTY StoresRows
CHECK_DEADLOCK FALSE
