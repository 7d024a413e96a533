------------------------------ MODULE FileStore ------------------------------
(***************************************************************************)
(* What a myfsv2 volume promises its user: named entries that live in      *)
(* directory cells, appear whole, and stay as they are until they are      *)
(* removed or the volume is formatted.  Blocks, chains, the superblock and *)
(* the order of disk writes are absent; MyFSv2 implements this             *)
(* specification.                                                          *)
(***************************************************************************)
CONSTANTS Cell,      \* the places of a directory that can hold an entry
          Entry      \* what an entry says: its name, its kind, its content

VARIABLE dir         \* the visible entries, a function from some cells

Vacant(c) == c \notin DOMAIN dir

TypeOK == /\ DOMAIN dir \subseteq Cell
          /\ \A c \in DOMAIN dir : dir[c] \in Entry

Init == dir = [c \in {} |-> {}]

\* mycopyTo, mymkdir: an entry appears in a vacant cell, with all it will ever
\* say, and the others stay.
Create(c) == /\ Vacant(c)
             /\ DOMAIN dir' = DOMAIN dir \cup {c}
             /\ dir'[c] \in Entry
             /\ \A x \in DOMAIN dir : dir'[x] = dir[x]

\* myrm, myrmdir: one entry disappears and no other is touched.
Remove(c) == /\ ~Vacant(c)
             /\ dir' = [x \in DOMAIN dir \ {c} |-> dir[x]]

\* mymkfs: everything disappears.
Format == dir' = [c \in {} |-> {}]

Next == \/ \E c \in Cell : Create(c) \/ Remove(c)
        \/ Format

Spec == Init /\ [][Next]_dir
=============================================================================
