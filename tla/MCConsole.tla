----------------------------- MODULE MCConsole -----------------------------
(* Console as TLC checks it: the constants are in MCConsole.cfg.           *)
EXTENDS Console

MCSent == {[kind |-> "sync"], [kind |-> "shortcut", key |-> "6"],
           [kind |-> "shortcut", key |-> "2"],
           [kind |-> "simulation", enabled |-> TRUE, scenario |-> "SPARSE"],
           [kind |-> "simulation", enabled |-> FALSE, scenario |-> "none"]}
=============================================================================
