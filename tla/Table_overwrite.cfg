\* A table without a cache, with the code's one slot to a page.
SPECIFICATION TableSpec
CONSTANTS
    SlotsPerPage = 1
    ScanPages = 4
    MaxPage = 4
    MaxRecords = 4
    Rows = {r1, r2}
    Free = Free
    Torn = Torn
    Faults = {}
INVARIANT AckedRowsReadBack
CHECK_DEADLOCK FALSE
