----------------------------- MODULE MCPipeline -----------------------------
(* Pipeline as TLC checks it: the constants are in MCPipeline.cfg.         *)
EXTENDS Pipeline
=============================================================================
