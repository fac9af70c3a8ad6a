---------------------------- MODULE FrameStream -----------------------------
(***************************************************************************)
(* What the decoded-frame ring promises to the listener: the samples come  *)
(* out of the device in the order they were decoded, none skipped, none    *)
(* repeated, and at most Capacity units of them are ever waiting.          *)
(***************************************************************************)
EXTENDS Naturals, Sequences

CONSTANT Capacity

VARIABLES
  decoded,   (* how many units of samples have been decoded *)
  played     (* the units heard so far                      *)

streamVars == <<decoded, played>>

Init ==
  /\ decoded = 0
  /\ played = <<>>

(* The n units that follow those of s. *)
Following(s, n) == [i \in 1 .. n |-> Len(s) + i]

Decode(n) ==
  /\ decoded + n - Len(played) <= Capacity
  /\ decoded' = decoded + n
  /\ UNCHANGED played

Play(n) ==
  /\ Len(played) + n <= decoded
  /\ played' = played \o Following(played, n)
  /\ UNCHANGED decoded

Next == \E n \in 1 .. Capacity : Decode(n) \/ Play(n)

Spec == Init /\ [][Next]_streamVars
=============================================================================
