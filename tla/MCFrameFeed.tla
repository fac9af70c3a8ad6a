---------------------------- MODULE MCFrameFeed -----------------------------
(* FrameFeed on a ring of a few slots.                                     *)
EXTENDS FrameFeed
=============================================================================
