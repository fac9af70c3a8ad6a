--------------------------- MODULE MCPowerManager ---------------------------
(* A short hold, a driver that keeps two statuses, and every fault.        *)
EXTENDS PowerManager
=============================================================================
