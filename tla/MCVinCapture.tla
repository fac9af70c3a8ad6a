---------------------------- MODULE MCVinCapture ----------------------------
(* Model values for TLC are in the configuration.                          *)
EXTENDS VinCapture
=============================================================================
