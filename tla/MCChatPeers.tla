---------------------------- MODULE MCChatPeers ----------------------------
\* Instances of ChatPeers for TLC: a stream in which a Bye can be joined to
\* other bytes or cut, and in which other lines can read as a Bye.
EXTENDS ChatPeers

MCBytes == {"B", "y", "e"}
MCLines == {<<>>, <<"B">>, <<"y", "e">>, Bye}
=============================================================================
