----------------------------- MODULE MCHwManager -----------------------------
(* HwManager as TLC checks it: the constants are in MCHwManager.cfg.       *)
EXTENDS HwManager
=============================================================================
