CONSTANTS
    Labels <- MCLabels
    Inputs <- MalformedInputs
INIT Init
NEXT Next
CHECK_DEADLOCK FALSE
INVARIANT URLPartsRedacted
