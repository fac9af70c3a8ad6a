---------------------------- MODULE MCSerialEcho ----------------------------
(* Patterns longer than the driver's buffer, in several loops.             *)
EXTENDS SerialEcho
=============================================================================
