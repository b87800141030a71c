CONSTANTS
    Keys <- MCKeys
    InputDocs <- MCInputDocs
    InputOverrides <- MCInputOverrides
SPECIFICATION Spec
CHECK_DEADLOCK FALSE
INVARIANTS
    OperationsNeverMerged
