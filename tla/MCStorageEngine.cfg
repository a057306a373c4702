CONSTANTS
    typeNames <- MCTypeNames
    Creates <- MCCreates
    Inserts <- MCInserts
    Selects <- MCSelects
    MaxRows = 2
    Evaluate <- execute
    ColumnsOf <- retriveColumns
    UsesOperators <- HasOperators

SPECIFICATION Spec
INVARIANTS
    TypeOK
    SelectsReturnWhatWasInserted
    UndefinedHasACause
PROPERTY OnlyInsertsAppend

\* Undefined behaviour ends a behaviour.
CHECK_DEADLOCK FALSE
