CONSTANTS
    Labels <- MCLabels
    Inputs <- EmailInputs
INIT Init
NEXT Next
CHECK_DEADLOCK FALSE
INVARIANT EmailLocalPartRedacted
