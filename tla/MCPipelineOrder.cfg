SPECIFICATION PipelineSpec
CONSTANTS
    Times = {1}
    NoTime = 0
    MaxRev = 1
    MaxOps = 3
    Timeouts = TRUE
    AllowCancel = TRUE
    RequestCap = 1
    FifoCap = 1
    LaneCap = 2
    ControlCap = 1
    Callers = {"start", "resume", "pause", "settings", "lock", "monitor", "writerFails"}
    Deaths = FALSE
INVARIANTS
    PipelineTypeOK
    RevisionsInStep
    InjectedBarrierIsSomewhere
PROPERTIES
    BoundaryOrder
