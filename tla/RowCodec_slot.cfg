\* Inserts, short writes, deletions, reads and copies of rows in one slot.
SPECIFICATION Spec
CONSTANTS
    SlotSize = 12
    ByteRange = 4
    LenRange = 10
    Data <- MCData
    Rows <- MCRows
    MaxInserts = 3
INVARIANTS TypeOK WrittenColumnsReadBack ShortOnlyWhenFull MisreadOnlyWhenTorn StoredUnlessTooLarge
