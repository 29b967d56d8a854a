SPECIFICATION LiveSpec
CONSTANTS
    FailureThreshold = 3
    OpenTimeout = 2
    MaxGap = 2
    MaxSwitches = 3
    MaxSleeps = 2
    MaxOthers = 2
INVARIANT TypeOK
PROPERTIES OpensOnlyAfterOutage StatusFollowsShare
CHECK_DEADLOCK TRUE
