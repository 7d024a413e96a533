---------------------------- MODULE MCBitmapStore ----------------------------
(* BitmapStore for TLC: two processes, three blocks. *)
EXTENDS BitmapStore
CONSTANTS p1, p2
=============================================================================
