SPECIFICATION PipelineSpec
CONSTANTS
    Times = {1}
    NoTime = 0
    MaxRev = 1
    MaxOps = 2
    Timeouts = TRUE
    AllowCancel = FALSE
    RequestCap = 1
    FifoCap = 1
    LaneCap = 1
    ControlCap = 1
    Callers = {"start", "stop", "settings", "maintenance", "writerFails"}
    Deaths = TRUE
INVARIANTS
    NoProtocolViolation
PROPERTIES
    BoundaryOrder
    OperationsComplete
