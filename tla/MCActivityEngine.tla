--------------------------- MODULE MCActivityEngine ---------------------------
EXTENDS ActivityEngine

Kind(a, st) == [app |-> a, state |-> st]
CONSTANTS editor, browser

MCApps == {editor, browser}
MCKinds == {Kind(editor, "active"), Kind(editor, "idle"), Kind(browser, "active"),
            Kind(browser, "unknown")}
MCMasks == {"capture_error"}
MCLifecycle == {"capture_paused", "session_locked"}
MCJumps == {-2}
=============================================================================
