\* Every plan of the shapes the parser builds, over tables of up to two rows and
\* batches of two pairs.
SPECIFICATION Spec
CONSTANTS
    Plans <- MCPlans
    Tables = {"s", "t"}
    Schema <- MCSchema
    Contents <- MCContents
    BatchSize = 2
    NaiveRows = 1
    IntLimit = 4
    MaxRows = 9
INVARIANTS TypeOK AnswersExact OnlyMeantRows NoPullAfterEnd
PROPERTY EndingPlansEnd
