\* A query without a limit.
SPECIFICATION Spec
CONSTANTS
    Plans <- MCPlans
    Tables = {"s", "t"}
    Schema <- MCSchema
    Contents <- MCContents
    BatchSize = 2
    NaiveRows = 1
    IntLimit = 4
    MaxRows = 9
PROPERTY SelectsEnd
