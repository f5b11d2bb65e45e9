\* All queries of the bounds in MCParser, written in several styles, whole and cut off.
\* The compilation of a query ends.
SPECIFICATION Spec
CONSTANTS
    Queries <- MCQueries
    StatementText <- TextOfStatement
    WholeStyles <- MCWholeStyles
    CutStyles <- MCCutStyles
    Digits <- MCDigits
    Capitals <- MCCapitals
    Spelling <- MCSpelling
INVARIANTS TypeOK TokensRight ReadRight SupportedAccepted NothingLeftOut
CHECK_DEADLOCK FALSE
