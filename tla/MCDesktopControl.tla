--------------------------- MODULE MCDesktopControl ---------------------------
EXTENDS DesktopControl, TLC

CONSTANTS window, tray

MCClients == {window, tray}
Alike == Permutations(MCClients)
=============================================================================
