------------------------------ MODULE MCMyFSv2 ------------------------------
(* Instances of MyFSv2 for TLC. *)
EXTENDS MyFSv2Props, TLC

CONSTANTS p1, p2, n1, n2, c1, c2

File(n, c, l) == [op |-> "mycopyTo", path |-> <<n>>, c |-> c, len |-> l]
Cmd(o, pth) == [op |-> o, path |-> pth, c |-> c1, len |-> 0]
Mkfs == Cmd("mymkfs", <<>>)

\* One shell that does everything, on a directory that never needs a second
\* block.
MCMenuAll ==
  [p \in Procs |->
     {Mkfs, File(n1, c1, 0), File(n1, c1, 2), File(n2, c2, 1)}
     \cup {Cmd(o, pth) : o \in {"myrm", "mymkdir", "myrmdir"}, pth \in {<<n1>>, <<>>}}
     \cup {Cmd("mycopyTo", <<>>), Cmd("mystat", <<n1>>), Cmd("mycopyFrom", <<n1>>),
           Cmd("mymkdir", <<n1, n2>>)}
     \cup {[Cmd("myreadBlock", <<n1>>) EXCEPT !.len = k] : k \in 0 .. 2}]

\* A writer that only adds and a reader, on a directory of one entry a block.
MCMenuReader ==
  p1 :> {Mkfs, File(n1, c1, 2), File(n2, c2, 2), File(n1, c2, 1), Cmd("mymkdir", <<n2>>)}
  @@ p2 :> {Cmd("mycopyFrom", <<n1>>), Cmd("mycopyFrom", <<n2>>), Cmd("mycopyFrom", <<>>)}
=============================================================================
