SPECIFICATION FairSpec
CONSTANTS
    MaxOpens = 1
    MaxOptions = 2
PROPERTY OpenReturns
CHECK_DEADLOCK FALSE
