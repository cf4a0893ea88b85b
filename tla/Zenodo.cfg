SPECIFICATION FairSpec
CONSTANTS
    Versions = {1, 2}
    Parts = {1, 2}
    MaxFailures = 2
    Environments <- MCEnvironments
INVARIANTS TypeOK OneRecordPerRelease PublishedIsComplete DoneIsArchived
PROPERTIES RetryArchives
CHECK_DEADLOCK FALSE
