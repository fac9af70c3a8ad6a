--------------------------- MODULE MCAACRecorder ----------------------------
(* Short inputs, with and without a rest after the last whole frame.       *)
EXTENDS AACRecorder

AllFaults == {"fopen", "malloc", "open", "init", "read", "encode", "write"}
=============================================================================
