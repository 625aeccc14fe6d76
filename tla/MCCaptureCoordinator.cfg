SPECIFICATION Spec
CONSTANTS
    Times = {1, 2}
    NoTime = 0
    MaxRev = 1
    MaxOps = 3
    Timeouts = TRUE
    AllowCancel = TRUE
INVARIANTS
    RunningMeansGateOpen
    RunningUsesAppliedSettings
    QuietCloseIsRecorded
    IdleGateIsSettled
PROPERTIES
    FaultIsFinal
    OneBoundaryPerActivation
    DeadTaskStopsCapture
