\* Every legal call on one heap file, with writes that fail or are cut short.
SPECIFICATION Spec
CONSTANTS
    SlotsPerPage = 2
    ScanPages = 3
    MaxPage = 3
    MaxRecords = 2
    Rows = {r1, r2}
    Free = Free
    Torn = Torn
    Faults = {"fail", "short"}
INVARIANT TypeOK
PROPERTY RowsLostOnlyAtOverflow
CHECK_DEADLOCK FALSE
