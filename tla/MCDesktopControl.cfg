SPECIFICATION Spec
CONSTANTS
    window = window
    tray = tray
    Clients <- MCClients
    MaxOps = 3
    MaxLaunched = 3
SYMMETRY Alike
INVARIANT StaysQuiet
PROPERTY StopIsProven
CHECK_DEADLOCK FALSE
