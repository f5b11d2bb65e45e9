\* A table with a cache that other clients use too, deletions and restarts.
SPECIFICATION CachedSpec
CONSTANTS
    SlotsPerPage = 1
    ScanPages = 3
    MaxPage = 3
    MaxRecords = 2
    Rows = {r1, r2}
    Free = Free
    Torn = Torn
    Faults = {}
    NumPages = 2
    MaxPageId = 2
    Own = own
    Other = other
    None = None
    WriteFails = FALSE
SYMMETRY RowSymmetry
INVARIANTS CachedTypeOK FirstPageKept TableScanComplete  CachedRowReadBack
CHECK_DEADLOCK FALSE
