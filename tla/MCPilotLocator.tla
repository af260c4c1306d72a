--------------------------- MODULE MCPilotLocator ---------------------------
(* PilotLocator with the GPS driver under it, as TLC checks them: the *)
(* constants are in MCPilotLocator.cfg.                               *)
EXTENDS PilotLocator
=============================================================================
