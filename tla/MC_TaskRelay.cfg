CONSTANTS
    c1 = c1
    c2 = c2
    c3 = c3
    c4 = c4
    Channels <- MCChannels
    Pinned = c1
    RetryTimes = 3
    TaskErrors <- MCTaskErrors
SPECIFICATION Spec
CHECK_DEADLOCK FALSE
INVARIANTS
    TypeOK
    NoSubmissionAfterSuccess
    UseChannelListsSubmissions
