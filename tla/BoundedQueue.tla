---------------------------- MODULE BoundedQueue ----------------------------
(***************************************************************************)
(* What the circular queue promises its producers and consumers: a queue   *)
(* of at most Capacity items, each taken once, in the order they were put. *)
(* CircularQueue implements this specification.                            *)
(***************************************************************************)
EXTENDS Naturals, Sequences

CONSTANTS Item, Capacity

VARIABLE q

Init == q = <<>>

Put(i) == /\ Len(q) < Capacity
          /\ q' = Append(q, i)

Take == /\ q # <<>>
        /\ q' = Tail(q)

Next == Take \/ \E i \in Item : Put(i)

Spec == Init /\ [][Next]_q
=============================================================================
