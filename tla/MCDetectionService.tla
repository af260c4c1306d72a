------------------------- MODULE MCDetectionService -------------------------
(* DetectionService as TLC checks it: the constants are in                 *)
(* MCDetectionService.cfg.                                                 *)
EXTENDS DetectionService
=============================================================================
