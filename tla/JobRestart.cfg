SPECIFICATION FairSpec
CONSTANTS
    Jobs = {j1}
    Elements = {e1}
    Requests = {r1, r2}
    Boot = boot
    NoJob = NoJob
    NoElement = NoElement
    MayDisconnect = TRUE
    MaxCrashes = 1
CHECK_DEADLOCK FALSE
INVARIANTS
    TypeOK
    ActiveRowsAttended
PROPERTIES
    StartupLeavesNoActiveRow
    JobsOpenAndCloseOnce
    JobsAnnounced
