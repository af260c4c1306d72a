------------------------- MODULE MCAircraftRegistry -------------------------
(* AircraftRegistry as TLC checks it: two slots and three aircraft, so that *)
(* the table fills and evicts.                                             *)
EXTENDS AircraftRegistry
=============================================================================
