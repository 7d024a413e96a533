----------------------------- MODULE UdpForward -----------------------------
(***************************************************************************)
(* The packet generator and the packet forwarder of Assignment 4 (Computer *)
(* Networks), and the datagrams between them, which may be lost, delayed,  *)
(* doubled and overtaken.  The forwarder keeps no state: it sends a packet *)
(* back with its TTL decremented, or an error.  The generator sends its    *)
(* packets one at a time, gives each answer one second, and counts the     *)
(* answers that carry the number of the packet it is at.                   *)
(*                                                                         *)
(* Line 138 of ClientPacketGen.c is damaged ("continue;se if (mt == 1) {") *)
(* and is read as "continue; }".                                           *)
(***************************************************************************)
EXTENDS Integers, Sequences

CONSTANTS num_packets, P, TTL,   \* the command line of the generator
          Strays,                \* what other programs send to the generator
          MaxDoubled, MaxStrays  \* bounds on doubled datagrams and on those

MAX_PACKET_SIZE == 1008
USHRT_MAX == 65535
MAX_DATAGRAM == 65507
Hosts  == {"generator", "server", "other"}
Length == 0 .. MAX_DATAGRAM
Byte   == 0 .. 255
Short  == 0 .. USHRT_MAX
Packet == [from : Hosts, len : Length, mt : Byte, sn : Short, ttl : Byte, pl : Nat]

\* The generator checks its command line.
ASSUME UdpAssumption ==
  /\ num_packets \in 1 .. 50 /\ P \in 100 .. 1000
  /\ TTL \in 2 .. 20 /\ TTL % 2 = 0
  /\ Strays \subseteq Packet /\ \A d \in Strays : d.from = "other"
  /\ MaxDoubled \in Nat /\ MaxStrays \in Nat

VARIABLES toServer, toClient,  \* datagrams under way
          recvbuf,             \* what waits in the socket of the generator
          servaddr,            \* where it sends its packets
          i, pc,               \* the packet it is at: about to "send" it, in
                               \* "recv", or "done" with all
          received,            \* the packets it has counted
          forwarded,           \* history: the packets the forwarder sent back
          arrived,             \* history: the packets whose answer came
          late,                \* history: an answer came after its second
          doubled, strays      \* faults so far

network   == <<toServer, toClient>>
generator == <<servaddr, i, pc, received>>
faults    == <<doubled, strays>>
vars      == <<network, recvbuf, generator, forwarded, arrived, late, faults>>

Request(k) ==
  [from |-> "generator", len |-> 8 + P, mt |-> 1, sn |-> k, ttl |-> TTL, pl |-> P]

Init == /\ toServer = {} /\ toClient = {} /\ recvbuf = <<>>
        /\ servaddr = "server" /\ i = 0 /\ pc = "send" /\ received = {}
        /\ forwarded = {} /\ arrived = {} /\ late = FALSE /\ doubled = 0 /\ strays = 0

-----------------------------------------------------------------------------
(* The forwarder.                                                          *)

\* recvfrom cuts a datagram at the size of the buffer.
RecvLen(d) == IF d.len > MAX_PACKET_SIZE THEN MAX_PACKET_SIZE ELSE d.len

\* Mutant: a payload of the largest size is refused.
ECStrict(d) == CASE RecvLen(d) < 8        -> 1
                 [] d.pl >= 1000          -> 3
                 [] RecvLen(d) # 8 + d.pl -> 2
                 [] d.ttl % 2 # 0         -> 4
                 [] OTHER                 -> 0

EC(d) == CASE RecvLen(d) < 8          -> 1
           [] d.pl > 1000             -> 3
           [] RecvLen(d) # 8 + d.pl   -> 2
           [] d.ttl % 2 # 0           -> 4
           [] OTHER                   -> 0

\* The error code stands where the TTL does; a packet too short to hold a
\* number is answered with 0.  A TTL of 0 is even and goes back as 255.
ErrorPacket(n, ec) ==
  [from |-> "server", len |-> 4, mt |-> 2, sn |-> n, ttl |-> ec, pl |-> 0]
Answer(d) ==
  IF EC(d) = 0 THEN [from |-> "server", len |-> RecvLen(d), mt |-> d.mt, sn |-> d.sn,
                     ttl |-> (d.ttl - 1) % 256, pl |-> d.pl]
               ELSE ErrorPacket(IF RecvLen(d) < 3 THEN 0 ELSE d.sn, EC(d))

Forward ==
  \E d \in toServer :
     /\ toServer' = toServer \ {d} /\ toClient' = toClient \cup {Answer(d)}
     /\ forwarded' = IF EC(d) = 0 THEN forwarded \cup {d.sn} ELSE forwarded
     /\ UNCHANGED <<recvbuf, generator, arrived, late, faults>>

-----------------------------------------------------------------------------
(* The network.                                                            *)

Lose == /\ \/ \E d \in toServer : toServer' = toServer \ {d} /\ toClient' = toClient
           \/ \E d \in toClient : toClient' = toClient \ {d} /\ toServer' = toServer
        /\ UNCHANGED <<recvbuf, generator, forwarded, arrived, late, faults>>

Arrive(d) == /\ recvbuf' = Append(recvbuf, d)
             /\ arrived' = arrived \cup {d.sn}
             /\ late' = (late \/ d.sn # i \/ pc # "recv")
             /\ UNCHANGED <<toServer, generator, forwarded, strays>>

Deliver == \E d \in toClient : toClient' = toClient \ {d} /\ Arrive(d) /\ doubled' = doubled

\* The answer comes, and will come once more.
Double == /\ doubled < MaxDoubled /\ doubled' = doubled + 1
          /\ \E d \in toClient : Arrive(d) /\ toClient' = toClient

Stray == /\ strays < MaxStrays /\ strays' = strays + 1
         /\ \E d \in Strays : recvbuf' = Append(recvbuf, d)
         /\ UNCHANGED <<network, generator, forwarded, arrived, late, doubled>>

-----------------------------------------------------------------------------
(* The generator.                                                          *)

Continue == /\ i' = i + 1
            /\ pc' = IF i + 1 < num_packets THEN "send" ELSE "done"

\* A packet that goes to another program is as good as lost.
Send == /\ pc = "send" /\ pc' = "recv"
        /\ toServer' = IF servaddr = "server" THEN toServer \cup {Request(i)} ELSE toServer
        /\ UNCHANGED <<toClient, recvbuf, servaddr, i, received, forwarded, arrived, late,
                       faults>>

\* The network is down, say: the turn of packet i ends with nothing sent and
\* nothing received.
SendtoFails == /\ pc = "send" /\ Continue
               /\ UNCHANGED <<network, recvbuf, servaddr, received, forwarded, arrived, late,
                              faults>>

\* recvfrom takes what came first, and stores its sender over servaddr.  An
\* error, a packet cut short, another type and another number all end the turn
\* of packet i as its own answer does.
\* Mutant: whatever packet comes is taken for the answer.
CountsAny(d) == d.mt = 1 /\ RecvLen(d) >= 8

Counts(d) == d.mt = 1 /\ RecvLen(d) >= 8 /\ d.sn = i

Receive == /\ pc = "recv" /\ recvbuf # <<>> /\ Continue
           /\ recvbuf' = Tail(recvbuf) /\ servaddr' = Head(recvbuf).from
           /\ received' = IF Counts(Head(recvbuf)) THEN received \cup {i} ELSE received
           /\ UNCHANGED <<network, forwarded, arrived, late, faults>>

\* Mutant: the socket has no timeout.
TimeoutNever == FALSE /\ UNCHANGED vars

\* SO_RCVTIMEO: nothing came within a second.  Another error of recvfrom ends
\* the turn in the same way.
Timeout == /\ pc = "recv" /\ recvbuf = <<>> /\ Continue
           /\ UNCHANGED <<network, recvbuf, servaddr, received, forwarded, arrived, late,
                          faults>>

-----------------------------------------------------------------------------
Next == Forward \/ Lose \/ Deliver \/ Double \/ Stray \/ Send \/ SendtoFails \/ Receive \/ Timeout
Spec == Init /\ [][Next]_vars

\* The generator runs, and time passes.  Nothing is asked of the network or of
\* the forwarder, which may be down.
FairSpec == Spec /\ WF_vars(Send \/ SendtoFails) /\ WF_vars(Receive) /\ WF_vars(Timeout)

TypeOK ==
  /\ toServer \subseteq Packet /\ toClient \subseteq Packet /\ recvbuf \in Seq(Packet)
  /\ servaddr \in {"server", "other"}
  /\ i \in 0 .. num_packets /\ pc \in {"send", "recv", "done"}
  /\ pc = "done" <=> i = num_packets
  /\ received \subseteq 0 .. num_packets - 1 /\ forwarded \subseteq 0 .. num_packets - 1
  /\ arrived \subseteq 0 .. num_packets - 1
  /\ late \in BOOLEAN /\ doubled \in 0 .. MaxDoubled /\ strays \in 0 .. MaxStrays

\* A packet the generator counts, and whose round trip it adds to the average,
\* was sent back by the forwarder, however answers are delayed, doubled and
\* overtaken; only a datagram of another program can make it count more.
CountedWasForwarded == strays = 0 => received \subseteq forwarded

\* A lost packet or answer, or a sendto that fails, costs the count that packet
\* and no other, and no packet of the generator is refused as malformed: of the
\* packets it is done with, it has counted those whose answer came.  One late or
\* doubled answer is enough to break this for all the packets that follow,
\* because every receive takes one datagram and the answers stay one behind.
LossCostsItself ==
  (~late /\ doubled = 0 /\ strays = 0) => received = arrived \cap (0 .. i-1)

\* The generator ends, whatever the network does.
GeneratorEnds == <>(pc = "done")
=============================================================================
