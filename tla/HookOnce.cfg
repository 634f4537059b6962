SPECIFICATION Spec
CONSTANTS
    Jobs = {j1}
    Elements = {e1}
    Requests = {r1}
    Boot = boot
    NoJob = NoJob
    NoElement = NoElement
    MayDisconnect = FALSE
    MaxCrashes = 0
CHECK_DEADLOCK FALSE
INVARIANT HookFiresOnce
