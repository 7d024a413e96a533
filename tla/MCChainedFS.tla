----------------------------- MODULE MCChainedFS -----------------------------
\* An instance of ChainedFS on files without a block of zeroes.
EXTENDS ChainedFS
CONSTANTS n1, n2, c1, c2

Cmd(o, n, f) == [op |-> o, name |-> n, file |-> f]
MCFiles == {<<>>, <<c1>>, <<c2>>, <<c1, c2>>}
MCMenu == {Cmd("mymkfs", NoName, <<>>), Cmd("mycopyto", NoName, <<c2>>)}
          \cup {Cmd("mycopyto", n1, f) : f \in {<<>>, <<c1>>, <<c1, c2>>}}
          \cup {Cmd("mycopyto", n2, <<c2>>)}
          \cup {Cmd(o, n, <<>>) : o \in {"mycopyfrom", "myrm"}, n \in {n1, n2, NoName}}

ASSUME Conditions == NoZeroBlocks /\ RemovalsEnd
=============================================================================
