---------------------------- MODULE MCUdpForward ----------------------------
\* Instances of UdpForward for TLC.
EXTENDS UdpForward

\* Datagrams of another program: empty, an error, a packet numbered 1 that is
\* whole and one that is cut short, and an unknown type.
Other(n, t, s) == [from |-> "other", len |-> n, mt |-> t, sn |-> s, ttl |-> 3, pl |-> 0]
MCStrays == {Other(0, 0, 0), Other(4, 2, 0), Other(108, 1, 1), Other(7, 1, 1), Other(9, 7, 0)}
=============================================================================
