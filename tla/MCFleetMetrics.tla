--------------------------- MODULE MCFleetMetrics ---------------------------
(* Small instances of FleetMetrics. *)
EXTENDS FleetMetrics, TLC

CONSTANTS i1, i2, h1, h2
=============================================================================
