------------------------------ MODULE MCFlatFS ------------------------------
\* One shell changes the volume with the commands of either set; the other reads.
EXTENDS FlatFS
CONSTANTS w, r, n1, n2, n2x, n3, c0, c1, c2, cbig

MCClip == [n \in Names |-> IF n = n2x THEN n2 ELSE n]
MCSize == [c \in Contents |-> CASE c = c0 -> 0 [] c = c1 -> 1 [] c = c2 -> 2
                                [] OTHER -> MaxSize + 1]
Cmd(t, o, n, c) == [tool |-> t, op |-> o, name |-> n, c |-> c]

\* Every operation of either set; n2x is n2 with more characters than fit.
MCWrites == {Cmd("v1", "mycopyTo", n1, c1), Cmd("v1", "mycopyTo", n2, c2),
             Cmd("v1", "mycopyTo", n1, c0), Cmd("v1", "mycopyTo", n3, c1),
             Cmd("v1", "mycopyTo", n2x, c1), Cmd("a82", "mycopyTo", n2x, c1),
             Cmd("v1", "mycopyTo", n1, cbig),
             Cmd("a82", "mycopyTo", n1, c2), Cmd("a82", "mycopyTo", n2, cbig),
             Cmd("v1", "myrm", n1, c1), Cmd("v1", "myrm", n2x, c1),
             Cmd("a82", "myrm", n1, c1),
             Cmd("v1", "mymkfs", n1, c1), Cmd("a82", "mymkfs", n1, c1)}
MCReads == {Cmd("v1", "mycopyFrom", n1, c1), Cmd("a82", "mycopyFrom", n1, c1),
            Cmd("v1", "mycopyFrom", n2, c1)}
MCMenu == [p \in Procs |-> IF p = w THEN MCWrites ELSE MCReads]

MCFragile == {"v1"} \X {"mycopyTo", "myrm"}

ASSUME Conditions == OneWriter /\ KillsSpare
=============================================================================
