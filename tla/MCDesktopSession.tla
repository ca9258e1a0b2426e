--------------------------- MODULE MCDesktopSession ---------------------------
(* Instances of the desktop client and the runner for TLC.                  *)
EXTENDS DesktopSession
=============================================================================
