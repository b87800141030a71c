CONSTANTS
    Labels <- MCLabels
    Inputs <- ShortNameInputs
INIT Init
NEXT Next
CHECK_DEADLOCK FALSE
INVARIANT HostRedacted
