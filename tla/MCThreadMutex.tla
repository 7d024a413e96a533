---------------------------- MODULE MCThreadMutex ----------------------------
(* ThreadMutex for TLC: two producers and three consumers, as in the code. *)
EXTENDS ThreadMutex
CONSTANTS p1, p2, c1, c2, c3
=============================================================================
