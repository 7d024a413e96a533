--------------------------- MODULE MCCircularQueue ---------------------------
(* CircularQueue for TLC: two producers, two consumers, three slots. *)
EXTENDS CircularQueue
=============================================================================
