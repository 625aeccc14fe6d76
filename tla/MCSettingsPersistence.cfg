SPECIFICATION Spec
CONSTANTS
    Bodies = {"default", "login", "unfit"}
    DefaultBody = "default"
    LoginBodies = {"login"}
    UnfitBodies = {"unfit"}
    MaxRev = 2
    MaxEvents = 2
INVARIANTS
    NeverBlockedByItself
    EngineMatchesDatabase
    RunKeyHonest
PROPERTIES
    LkgKept
    ForwardFileIsApplied
