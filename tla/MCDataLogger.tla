---------------------------- MODULE MCDataLogger ----------------------------
(* DataLogger as TLC checks it: the constants are in MCDataLogger.cfg.     *)
EXTENDS DataLogger
=============================================================================
