CONSTANTS
    Labels <- MCLabels
    Inputs <- WellFormedInputs
INIT Init
NEXT Next
CHECK_DEADLOCK FALSE
INVARIANTS
    URLPartsRedacted
    SubdomainsRedacted
