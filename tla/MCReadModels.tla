----------------------------- MODULE MCReadModels -----------------------------
EXTENDS ReadModels

Kind(a, st) == [app |-> a, state |-> st]
CONSTANTS editor, browser

MCApps == {editor, browser}
MCAppId == [a \in MCApps |-> IF a = editor THEN 1 ELSE 2]
MCKinds == {Kind(editor, "active"), Kind(browser, "active"), Kind(editor, "idle")}
MCJumps == {-2}
=============================================================================
