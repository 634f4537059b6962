SPECIFICATION Spec
CONSTANTS
    Jobs = {j1, j2}
    Elements = {e1}
    Requests = {r1, r2}
    Boot = boot
    NoJob = NoJob
    NoElement = NoElement
    MayDisconnect = FALSE
    MaxCrashes = 0
SYMMETRY Symmetry
CHECK_DEADLOCK FALSE
INVARIANTS
    TerminalRowsBeingPruned
    NoLostHook
    ImageOfCompletedJob
PROPERTY
    RowNeverReborn
