---------------------------- MODULE MCAACPlayer -----------------------------
(* The faults of the player for TLC, and the symmetry of its threads: what *)
(* a thread does, and what is said of it, is the same for all of its kind.  *)
EXTENDS AACPlayer, TLC

FileFaults == {"fopen", "init", "decode", "realloc", "dsp", "blksize", "write"}

AllFaults == FileFaults \cup {"thread"}

ThreadSymmetry == Permutations(DecThreads) \cup Permutations(PlayThreads)
=============================================================================
