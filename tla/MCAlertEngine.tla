--------------------------- MODULE MCAlertEngine ---------------------------
(* AlertEngine as TLC checks it: the constants are in MCAlertEngine.cfg.   *)
EXTENDS AlertEngine
=============================================================================
