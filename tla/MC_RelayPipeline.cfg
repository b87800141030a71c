CONSTANTS
    u1 = u1
    r1 = r1
    r2 = r2
    c1 = c1
    c2 = c2
    c3 = c3
    Users <- MCUsers
    Reqs <- MCReqs
    Owner <- MCOwner
    Channels <- MCChannels
    Pinned <- MCPinned
    AutoBan <- MCAutoBan
    SpecificChannel = {}
    RetryTimes = 2
    InitQuota = 3
    PreQuotas = {0, 2}
    Costs = {1, 3}
    HelperErrors <- MCHelperErrors
    ErrorLogEnabled = TRUE
SPECIFICATION Spec
CHECK_DEADLOCK FALSE
INVARIANTS
    TypeOK
    NoHeldQuotaAfterExit
    QuotaConservation
    AutoDisableOnlyCulprits
PROPERTIES
    RequestsSettle
    QuotaLedgerSpec
