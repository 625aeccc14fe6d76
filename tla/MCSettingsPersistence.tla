------------------------ MODULE MCSettingsPersistence ------------------------
(* Settings persistence on small bodies: the default, one with the login   *)
(* start, and one that parses but does not validate.                       *)
EXTENDS SettingsPersistence
=============================================================================
