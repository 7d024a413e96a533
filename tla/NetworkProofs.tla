--------------------------- MODULE NetworkProofs ----------------------------
(***************************************************************************)
(* Proofs about the programs that talk over a network, UdpForward and      *)
(* ChatPeers. The two are independent; each has its part below.            *)
(*                                                                         *)
(* UdpForward, for every command line of the generator, every set of stray *)
(* datagrams and every number of faults. All that is ever under way are    *)
(* requests of packets the generator has come to and the forwarder's       *)
(* replies to them; from which both properties follow once the bookkeeping *)
(* of one turn is added to the invariant.                                  *)
(***************************************************************************)
EXTENDS UdpForward, ChatPeers, TLAPS

\* The packets the generator has sent, or tried to.
Sent == {k \in 0 .. num_packets - 1 : k < i \/ (k = i /\ pc = "recv")}

Reply(k) ==
  [from |-> "server", len |-> 8 + P, mt |-> 1, sn |-> k, ttl |-> TTL - 1, pl |-> P]

Requests(S) == {Request(k) : k \in S}
Replies(S)  == {Reply(k) : k \in S}

\* What is under way, and what has come of it.
Underway ==
  /\ toServer \subseteq Requests(Sent \ forwarded)
  /\ toClient \subseteq Replies(forwarded)
  /\ doubled = 0 => toClient \cap Replies(arrived) = {}
  /\ arrived \subseteq forwarded /\ forwarded \subseteq Sent
  /\ \A j \in 1 .. Len(recvbuf) :
        recvbuf[j] \in Replies(arrived) \/ (strays # 0 /\ recvbuf[j] \in Strays)

\* While nothing came late or twice the socket holds at most the one answer
\* that the generator waits for.
Turn ==
  (~late /\ doubled = 0 /\ strays = 0) =>
     /\ received = arrived \cap (0 .. i-1)
     /\ \/ recvbuf = <<>> /\ i \notin arrived
        \/ recvbuf = <<Reply(i)>> /\ i \in arrived /\ pc = "recv"

IInv == TypeOK /\ Underway /\ CountedWasForwarded /\ Turn

\* The forwarder accepts every request and answers it with the reply above.
LEMMA Answered ==
  ASSUME NEW k \in 0 .. num_packets - 1
  PROVE  /\ Request(k) \in Packet /\ Reply(k) \in Packet
         /\ EC(Request(k)) = 0 /\ Answer(Request(k)) = Reply(k)
         /\ Request(k).sn = k /\ Reply(k).sn = k
         /\ Reply(k).from = "server" /\ Reply(k).mt = 1 /\ RecvLen(Reply(k)) >= 8
<1>a. TTL % 2 = 0 /\ TTL \in 2 .. 20 /\ P \in 100 .. 1000 /\ num_packets \in 1 .. 50
  BY UdpAssumption
<1>0. /\ P \in Nat /\ 8 + P \in Length /\ k \in Short /\ 1 \in Byte
      /\ TTL \in Byte /\ TTL - 1 \in Byte /\ "generator" \in Hosts /\ "server" \in Hosts
  <2>1. P \in Nat /\ 8 + P \in Length
    <3>1. P \in 100 .. 1000
      BY <1>a, Zenon
    <3>2. 8 + P \in Length
      <4>1. 1008 <= MAX_DATAGRAM /\ MAX_DATAGRAM \in Nat
        BY DEF MAX_DATAGRAM
      <4> QED
        BY <3>1, <4>1 DEF Length
    <3> QED
      BY <3>1, <3>2
  <2>2. k \in Short
    <3>1. k \in Nat /\ k <= USHRT_MAX /\ USHRT_MAX \in Nat
      <4>1. k \in Nat /\ k < 50
        BY <1>a
      <4> QED
        BY <4>1 DEF USHRT_MAX
    <3> QED
      BY <3>1 DEF Short
  <2>3. 1 \in Byte /\ TTL \in Byte /\ TTL - 1 \in Byte
    BY <1>a DEF Byte
  <2>4. "generator" \in Hosts /\ "server" \in Hosts
    BY DEF Hosts
  <2> QED
    BY <2>1, <2>2, <2>3, <2>4
<1>1. Request(k) \in Packet
  BY <1>0 DEF Request, Packet
<1>2. (TTL - 1) % 256 = TTL - 1
  BY <1>a
<1>3. Reply(k) \in Packet
  BY <1>0 DEF Reply, Packet
<1>4. RecvLen(Request(k)) = 8 + P
  BY <1>a DEF RecvLen, Request, MAX_PACKET_SIZE
<1>5. EC(Request(k)) = 0
  <2>1. ~(8 + P < 8) /\ ~(P > 1000)
    BY <1>a
  <2> QED
    BY <1>a, <1>4, <2>1 DEF EC, Request
<1>6. /\ Request(k).mt = 1 /\ Request(k).sn = k /\ Request(k).ttl = TTL /\ Request(k).pl = P
  BY DEF Request
<1>7. Answer(Request(k)) = Reply(k)
  BY <1>2, <1>4, <1>5, <1>6 DEF Answer, Reply
<1>8. RecvLen(Reply(k)) >= 8
  BY <1>a DEF RecvLen, Reply, MAX_PACKET_SIZE
<1> QED
  BY <1>1, <1>3, <1>5, <1>7, <1>8 DEF Request, Reply


LEMMA RequestsDiffer ==
  ASSUME NEW k \in 0 .. num_packets - 1, NEW l \in 0 .. num_packets - 1
  PROVE  (Request(k) = Request(l) \/ Reply(k) = Reply(l)) => k = l
BY Answered

LEMMA SentTypes ==
  ASSUME TypeOK
  PROVE  /\ num_packets \in Nat /\ i \in 0 .. num_packets /\ Sent \subseteq 0 .. num_packets - 1
         /\ pc # "done" => i \in 0 .. num_packets - 1
BY UdpAssumption DEF TypeOK, Sent

LEMMA InitInv == Init => IInv
<1> SUFFICES ASSUME Init PROVE IInv
  OBVIOUS
<1>1. TypeOK
  <2>1. /\ num_packets \in 1 .. 50 /\ MaxDoubled \in Nat /\ MaxStrays \in Nat
    BY UdpAssumption
  <2>2. <<>> \in Seq(Packet)
    OBVIOUS
  <2>3. 0 \in 0 .. num_packets /\ 0 # num_packets /\ 0 \in 0 .. MaxDoubled /\ 0 \in 0 .. MaxStrays
    BY <2>1
  <2> QED
    BY <2>2, <2>3, Zenon DEF Init, TypeOK
<1> QED
  BY <1>1 DEF Init, IInv, Underway, CountedWasForwarded, Turn, Requests, Replies

-----------------------------------------------------------------------------
(* The steps.  Each lemma is about one action.                             *)

LEMMA ForwardKeeps == IInv /\ Forward => IInv'
<1> SUFFICES ASSUME IInv, Forward PROVE IInv'
  OBVIOUS
<1> USE DEF IInv
<1>1. PICK d \in toServer :
        /\ toServer' = toServer \ {d} /\ toClient' = toClient \cup {Answer(d)}
        /\ forwarded' = IF EC(d) = 0 THEN forwarded \cup {d.sn} ELSE forwarded
        /\ UNCHANGED <<recvbuf, generator, arrived, late, faults>>
  BY DEF Forward
<1>2. PICK k \in Sent \ forwarded : d = Request(k)
  BY <1>1 DEF Underway, Requests
<1>3. k \in 0 .. num_packets - 1 /\ Sent \subseteq 0 .. num_packets - 1
  BY <1>2, SentTypes
<1>4. /\ toClient' = toClient \cup {Reply(k)} /\ forwarded' = forwarded \cup {k}
      /\ Reply(k) \in Packet
  BY <1>1, <1>2, <1>3, Answered
<1>5. Sent' = Sent
  BY <1>1 DEF Sent, generator
<1>6. TypeOK'
  BY <1>1, <1>3, <1>4 DEF TypeOK, generator, faults
<1>7. Underway'
  <2>1. toServer' \subseteq Requests(Sent' \ forwarded')
    BY <1>1, <1>2, <1>4, <1>5 DEF Underway, Requests
  <2>2. toClient' \subseteq Replies(forwarded')
    BY <1>4 DEF Underway, Replies
  <2>3. doubled' = 0 => toClient' \cap Replies(arrived') = {}
    <3>1. Reply(k) \notin Replies(arrived)
      BY <1>2, <1>3, RequestsDiffer DEF Underway, Replies
    <3> QED
      BY <3>1, <1>1, <1>4 DEF Underway, faults
  <2> QED
    BY <2>1, <2>2, <2>3, <1>1, <1>2, <1>4, <1>5 DEF Underway, faults
<1>8. CountedWasForwarded' /\ Turn'
  BY <1>1, <1>4 DEF CountedWasForwarded, Turn, generator, faults
<1> QED
  BY <1>6, <1>7, <1>8

LEMMA LoseKeeps == IInv /\ Lose => IInv'
<1> SUFFICES ASSUME IInv, Lose PROVE IInv'
  OBVIOUS
<1> USE DEF IInv
<1>1. /\ toServer' \subseteq toServer /\ toClient' \subseteq toClient
      /\ UNCHANGED <<recvbuf, generator, forwarded, arrived, late, faults>>
  BY DEF Lose
<1>2. Sent' = Sent
  BY <1>1 DEF Sent, generator
<1>3. TypeOK'
  BY <1>1 DEF TypeOK, generator, faults
<1>4. Underway'
  BY <1>1, <1>2 DEF Underway, faults
<1>5. CountedWasForwarded' /\ Turn'
  BY <1>1 DEF CountedWasForwarded, Turn, generator, faults
<1> QED
  BY <1>3, <1>4, <1>5

\* Deliver and Double differ in what stays under way.
LEMMA ArriveKeeps ==
  ASSUME IInv, NEW d \in toClient, Arrive(d),
         \/ toClient' = toClient \ {d} /\ doubled' = doubled
         \/ doubled < MaxDoubled /\ toClient' = toClient /\ doubled' = doubled + 1
  PROVE  IInv'
<1> USE DEF IInv
<1>1. PICK k \in forwarded : d = Reply(k)
  BY DEF Underway, Replies
<1>2. k \in 0 .. num_packets - 1 /\ Reply(k) \in Packet /\ d.sn = k /\ k \in Sent
  BY <1>1, SentTypes, Answered DEF Underway
<1>3. /\ recvbuf' = Append(recvbuf, Reply(k)) /\ arrived' = arrived \cup {k}
      /\ late' = (late \/ k # i \/ pc # "recv")
      /\ UNCHANGED <<toServer, generator, forwarded, strays>>
  BY <1>1, <1>2 DEF Arrive
<1>4. Sent' = Sent
  BY <1>3 DEF Sent, generator
<1>5. TypeOK'
  <2>1. doubled' \in 0 .. MaxDoubled
    BY UdpAssumption DEF TypeOK
  <2>2. late' \in BOOLEAN
    BY <1>3 DEF TypeOK
  <2> QED
    BY <2>1, <2>2, <1>2, <1>3 DEF TypeOK, generator
<1>6. Underway'
  <2>1. doubled' = 0 => toClient' \cap Replies(arrived') = {}
    <3>1. \A l \in arrived : l \in 0 .. num_packets - 1
      BY SentTypes DEF Underway
    <3>2. doubled' = 0 => doubled = 0 /\ toClient' = toClient \ {Reply(k)}
      BY <1>1 DEF TypeOK
    <3> QED
      BY <3>1, <3>2, <1>3 DEF Underway, Replies
  <2>2. \A j \in 1 .. Len(recvbuf') :
           recvbuf'[j] \in Replies(arrived') \/ (strays' # 0 /\ recvbuf'[j] \in Strays)
    <3> SUFFICES ASSUME NEW j \in 1 .. Len(recvbuf')
                 PROVE  recvbuf'[j] \in Replies(arrived') \/ (strays' # 0 /\ recvbuf'[j] \in Strays)
      OBVIOUS
    <3>1. CASE j = Len(recvbuf) + 1
      BY <3>1, <1>3 DEF TypeOK, Replies
    <3>2. CASE j # Len(recvbuf) + 1
      <4>1. j \in 1 .. Len(recvbuf) /\ recvbuf'[j] = recvbuf[j]
        BY <3>2, <1>2, <1>3 DEF TypeOK
      <4> QED
        BY <4>1, <1>3 DEF Underway, Replies
    <3> QED
      BY <3>1, <3>2
  <2> QED
    BY <2>1, <2>2, <1>3, <1>4 DEF Underway
<1>7. CountedWasForwarded'
  BY <1>3 DEF CountedWasForwarded, generator
<1>8. Turn'
  <2> SUFFICES ASSUME ~late', doubled' = 0, strays' = 0
               PROVE  /\ received' = arrived' \cap (0 .. i' - 1)
                      /\ recvbuf' = <<Reply(i')>> /\ i' \in arrived' /\ pc' = "recv"
    BY DEF Turn
  <2>1. ~late /\ k = i /\ pc = "recv" /\ strays = 0
    BY <1>3
  <2>2. doubled = 0 /\ toClient' = toClient \ {d}
    BY DEF TypeOK
  <2>3. i \notin arrived
    BY <1>1, <2>1, <2>2 DEF Underway, Replies
  <2>4. recvbuf = <<>> /\ received = arrived \cap (0 .. i-1)
    BY <2>1, <2>2, <2>3 DEF Turn
  <2>5. (arrived \cup {i}) \cap (0 .. i-1) = arrived \cap (0 .. i-1)
    BY DEF TypeOK
  <2> QED
    BY <1>3, <2>1, <2>4, <2>5 DEF generator
<1> QED
  BY <1>5, <1>6, <1>7, <1>8

LEMMA StrayKeeps == IInv /\ Stray => IInv'
<1> SUFFICES ASSUME IInv, Stray PROVE IInv'
  OBVIOUS
<1> USE DEF IInv
<1>1. PICK d \in Strays : recvbuf' = Append(recvbuf, d)
  BY DEF Stray
<1>2. /\ strays < MaxStrays /\ strays' = strays + 1
      /\ UNCHANGED <<network, generator, forwarded, arrived, late, doubled>>
  BY DEF Stray
<1>3. d \in Packet /\ strays' \in 0 .. MaxStrays /\ strays' # 0
  BY <1>1, <1>2, UdpAssumption DEF TypeOK
<1>4. Sent' = Sent
  BY <1>2 DEF Sent, generator
<1>5. TypeOK'
  BY <1>1, <1>2, <1>3 DEF TypeOK, generator, network
<1>6. \A j \in 1 .. Len(recvbuf') :
         recvbuf'[j] \in Replies(arrived') \/ (strays' # 0 /\ recvbuf'[j] \in Strays)
  <2> SUFFICES ASSUME NEW j \in 1 .. Len(recvbuf')
               PROVE  recvbuf'[j] \in Replies(arrived) \/ recvbuf'[j] \in Strays
    BY <1>2, <1>3
  <2>1. CASE j = Len(recvbuf) + 1
    BY <2>1, <1>1 DEF TypeOK
  <2>2. CASE j # Len(recvbuf) + 1
    <3>1. j \in 1 .. Len(recvbuf) /\ recvbuf'[j] = recvbuf[j]
      BY <2>2, <1>1, <1>3 DEF TypeOK
    <3> QED
      BY <3>1 DEF Underway
  <2> QED
    BY <2>1, <2>2
<1>7. Underway'
  BY <1>2, <1>4, <1>6 DEF Underway, network
<1>8. CountedWasForwarded' /\ Turn'
  BY <1>3 DEF CountedWasForwarded, Turn
<1> QED
  BY <1>5, <1>7, <1>8

LEMMA SendKeeps == IInv /\ Send => IInv'
<1> SUFFICES ASSUME IInv, Send PROVE IInv'
  OBVIOUS
<1> USE DEF IInv
<1>1. /\ pc = "send" /\ pc' = "recv"
      /\ toServer' \subseteq toServer \cup {Request(i)}
      /\ UNCHANGED <<toClient, recvbuf, servaddr, i, received, forwarded, arrived, late,
                     doubled, strays>>
  BY DEF Send, faults
<1>2. i \in 0 .. num_packets - 1 /\ i # num_packets
  BY <1>1, SentTypes
<1>3. Sent' = Sent \cup {i} /\ i \notin Sent /\ i \notin forwarded
  BY <1>1, <1>2 DEF Sent, Underway
<1>4. TypeOK'
  BY <1>1, <1>2, Answered DEF TypeOK
<1>5. Underway'
  <2>1. toServer' \subseteq Requests(Sent' \ forwarded')
    BY <1>1, <1>3 DEF Underway, Requests
  <2> QED
    BY <2>1, <1>1, <1>3 DEF Underway
<1>6. CountedWasForwarded' /\ Turn'
  BY <1>1 DEF CountedWasForwarded, Turn
<1> QED
  BY <1>4, <1>5, <1>6

\* The generator is done with packet i.
LEMMA Continues ==
  ASSUME TypeOK, pc = "recv", Continue
  PROVE  /\ i \in 0 .. num_packets - 1 /\ i' = i + 1
         /\ i' \in 0 .. num_packets /\ pc' \in {"send", "done"}
         /\ pc' = "done" <=> i' = num_packets
         /\ Sent' = Sent /\ i' \notin Sent
<1>1. i \in 0 .. num_packets - 1 /\ num_packets \in Nat
  BY SentTypes
<1>2. i' = i + 1 /\ pc' = IF i + 1 < num_packets THEN "send" ELSE "done"
  BY DEF Continue
<1>3. \A k \in 0 .. num_packets - 1 : (k < i \/ k = i) <=> (k < i + 1)
  BY <1>1
<1> QED
  BY <1>1, <1>2, <1>3 DEF Sent

\* Packet i was never sent: no answer to it can have come.
LEMMA SendtoFailsKeeps == IInv /\ SendtoFails => IInv'
<1> SUFFICES ASSUME IInv, SendtoFails PROVE IInv'
  OBVIOUS
<1> USE DEF IInv
<1>1. /\ pc = "send" /\ Continue
      /\ UNCHANGED <<network, recvbuf, servaddr, received, forwarded, arrived, late, faults>>
  BY DEF SendtoFails
<1>2. /\ i \in 0 .. num_packets - 1 /\ num_packets \in Nat /\ i' = i + 1
      /\ i' \in 0 .. num_packets /\ pc' \in {"send", "done"} /\ (pc' = "done" <=> i' = num_packets)
  BY <1>1, SentTypes DEF Continue
<1>3. Sent' = Sent \cup {i} /\ i \notin Sent /\ i' \notin Sent'
  BY <1>1, <1>2 DEF Sent
<1>4. TypeOK'
  BY <1>1, <1>2 DEF TypeOK, network, faults
<1>5. Underway'
  <2>1. toServer' \subseteq Requests(Sent' \ forwarded')
    BY <1>1, <1>3 DEF Underway, Requests, network
  <2> QED
    BY <2>1, <1>1, <1>3 DEF Underway, network, faults
<1>6. CountedWasForwarded'
  BY <1>1 DEF CountedWasForwarded, faults
<1>7. Turn'
  <2> SUFFICES ASSUME ~late, doubled = 0, strays = 0
               PROVE  received = arrived \cap (0 .. i' - 1) /\ recvbuf = <<>> /\ i' \notin arrived
    BY <1>1 DEF Turn, faults
  <2>1. i' \notin arrived
    BY <1>1, <1>3 DEF Underway
  <2>2. received = arrived \cap (0 .. i-1) /\ recvbuf = <<>> /\ i \notin arrived
    BY <1>1 DEF Turn
  <2> QED
    BY <1>2, <2>1, <2>2
<1> QED
  BY <1>4, <1>5, <1>6, <1>7

LEMMA TimeoutKeeps == IInv /\ Timeout => IInv'
<1> SUFFICES ASSUME IInv, Timeout PROVE IInv'
  OBVIOUS
<1> USE DEF IInv
<1>1. /\ pc = "recv" /\ recvbuf = <<>> /\ Continue
      /\ UNCHANGED <<network, recvbuf, servaddr, received, forwarded, arrived, late, faults>>
  BY DEF Timeout
<1>2. /\ i \in 0 .. num_packets - 1 /\ i' = i + 1 /\ i' \in 0 .. num_packets
      /\ pc' \in {"send", "done"} /\ (pc' = "done" <=> i' = num_packets)
      /\ Sent' = Sent /\ i' \notin Sent
  BY <1>1, Continues
<1>3. TypeOK'
  BY <1>1, <1>2 DEF TypeOK, network, faults
<1>4. Underway'
  BY <1>1, <1>2 DEF Underway, network, faults
<1>5. CountedWasForwarded'
  BY <1>1 DEF CountedWasForwarded, faults
<1>6. Turn'
  <2> SUFFICES ASSUME ~late, doubled = 0, strays = 0
               PROVE  received = arrived \cap (0 .. i' - 1) /\ i' \notin arrived
    BY <1>1 DEF Turn, faults
  <2>1. i' \notin arrived
    BY <1>2 DEF Underway
  <2>2. received = arrived \cap (0 .. i-1) /\ i \notin arrived
    BY <1>1 DEF Turn
  <2> QED
    BY <1>2, <2>1, <2>2
<1> QED
  BY <1>3, <1>4, <1>5, <1>6

LEMMA ReceiveKeeps == IInv /\ Receive => IInv'
<1> SUFFICES ASSUME IInv, Receive PROVE IInv'
  OBVIOUS
<1> USE DEF IInv
<1>1. /\ pc = "recv" /\ recvbuf # <<>> /\ Continue
      /\ recvbuf' = Tail(recvbuf) /\ servaddr' = Head(recvbuf).from
      /\ received' = IF Counts(Head(recvbuf)) THEN received \cup {i} ELSE received
      /\ UNCHANGED <<network, forwarded, arrived, late, faults>>
  BY DEF Receive
<1>2. /\ i \in 0 .. num_packets - 1 /\ i' = i + 1 /\ i' \in 0 .. num_packets
      /\ pc' \in {"send", "done"} /\ (pc' = "done" <=> i' = num_packets)
      /\ Sent' = Sent /\ i' \notin Sent
  BY <1>1, Continues
<1>3. /\ Head(recvbuf) = recvbuf[1] /\ 1 \in 1 .. Len(recvbuf)
      /\ Tail(recvbuf) \in Seq(Packet)
      /\ \A j \in 1 .. Len(Tail(recvbuf)) :
            j + 1 \in 1 .. Len(recvbuf) /\ Tail(recvbuf)[j] = recvbuf[j + 1]
  BY <1>1 DEF TypeOK
<1>4. \/ \E k \in arrived : Head(recvbuf) = Reply(k)
      \/ strays # 0 /\ Head(recvbuf) \in Strays
  BY <1>3 DEF Underway, Replies
<1>5. Head(recvbuf).from \in {"server", "other"}
  BY <1>4, Answered, UdpAssumption DEF TypeOK
<1>6. TypeOK'
  <2>1. received' \subseteq 0 .. num_packets - 1
    BY <1>1, <1>2 DEF TypeOK
  <2> QED
    BY <2>1, <1>1, <1>2, <1>3, <1>5 DEF TypeOK, network, faults
<1>7. Underway'
  <2>1. \A j \in 1 .. Len(recvbuf') :
           recvbuf'[j] \in Replies(arrived) \/ (strays # 0 /\ recvbuf'[j] \in Strays)
    BY <1>1, <1>3 DEF Underway
  <2> QED
    BY <2>1, <1>1, <1>2 DEF Underway, network, faults
<1>8. CountedWasForwarded'
  <2> SUFFICES ASSUME strays = 0 PROVE received' \subseteq forwarded
    BY <1>1 DEF CountedWasForwarded, faults
  <2>1. PICK k \in arrived : Head(recvbuf) = Reply(k)
    BY <1>4
  <2>2. k \in 0 .. num_packets - 1 /\ k \in forwarded
    BY <2>1, SentTypes DEF Underway
  <2>3. Counts(Head(recvbuf)) => k = i
    BY <2>1, <2>2, Answered DEF Counts
  <2> QED
    BY <1>1, <2>2, <2>3 DEF CountedWasForwarded
<1>9. Turn'
  <2> SUFFICES ASSUME ~late, doubled = 0, strays = 0
               PROVE  received' = arrived \cap (0 .. i' - 1) /\ recvbuf' = <<>> /\ i' \notin arrived
    BY <1>1 DEF Turn, faults
  <2>1. recvbuf = <<Reply(i)>> /\ i \in arrived /\ received = arrived \cap (0 .. i-1)
    BY <1>1 DEF Turn
  <2>2. Head(recvbuf) = Reply(i) /\ recvbuf' = <<>>
    BY <1>1, <2>1
  <2>3. Counts(Head(recvbuf))
    BY <2>2, <1>2, Answered DEF Counts
  <2>4. i' \notin arrived
    BY <1>2 DEF Underway
  <2>5. arrived \cap (0 .. i' - 1) = (arrived \cap (0 .. i-1)) \cup {i}
    BY <1>2, <2>1
  <2> QED
    BY <1>1, <2>1, <2>2, <2>3, <2>4, <2>5
<1> QED
  BY <1>6, <1>7, <1>8, <1>9

LEMMA StutterKeeps == IInv /\ UNCHANGED vars => IInv'
<1> SUFFICES ASSUME IInv, UNCHANGED vars PROVE IInv'
  OBVIOUS
<1>1. Sent' = Sent
  BY DEF vars, generator, Sent
<1> QED
  BY <1>1 DEF IInv, TypeOK, Underway, CountedWasForwarded, Turn, vars, network, generator, faults

LEMMA NextInv == IInv /\ [Next]_vars => IInv'
<1> SUFFICES ASSUME IInv, [Next]_vars PROVE IInv'
  OBVIOUS
<1>1. CASE Deliver \/ Double
  <2>1. PICK d \in toClient : Arrive(d) /\ \/ toClient' = toClient \ {d} /\ doubled' = doubled
                                           \/ doubled < MaxDoubled /\ toClient' = toClient /\ doubled' = doubled + 1
    BY <1>1 DEF Deliver, Double
  <2> QED
    BY <2>1, ArriveKeeps
<1> QED
  BY <1>1, ForwardKeeps, LoseKeeps, StrayKeeps, SendKeeps, SendtoFailsKeeps,
     ReceiveKeeps, TimeoutKeeps, StutterKeeps DEF Next

LEMMA Invariant == Spec => []IInv
BY InitInv, NextInv, PTL DEF Spec

\* Every datagram under way, in the socket or counted is one a program sends.
THEOREM TypeCorrect == Spec => []TypeOK
<1>1. IInv => TypeOK
  BY DEF IInv
<1> QED
  BY <1>1, Invariant, PTL

\* A packet is counted only when the forwarder has sent that very packet back,
\* for any number of lost, late and doubled datagrams.
THEOREM CountsForwarded == Spec => []CountedWasForwarded
<1>1. IInv => CountedWasForwarded
  BY DEF IInv
<1> QED
  BY <1>1, Invariant, PTL

\* Losses alone never make the generator miss an answer that came.
THEOREM LossesStayApart == Spec => []LossCostsItself
<1>1. IInv => LossCostsItself
  BY DEF IInv, Turn, LossCostsItself
<1> QED
  BY <1>1, Invariant, PTL

-----------------------------------------------------------------------------
(***************************************************************************)
(* ChatPeers, for lines of any bytes and buffers of any capacity: a        *)
(* program whose own user has not said Bye, and which took nothing else    *)
(* for one, stops showing what arrives only when all of it was shown.      *)
(*                                                                         *)
(* That is not inductive by itself. The thread stops because running is    *)
(* false, and running is false because of a Bye of one side, of bytes that *)
(* read as one, or of the end of the other program, whose thread stopped   *)
(* for a reason of the same kind: it is the flag that the invariant speaks *)
(* of, with what a program does after a Bye, and with who may go first.    *)
(***************************************************************************)
\* s is done, and all that it will ever send has been read.
Quiet(s) == /\ chan[s] = <<>> /\ (said[s] \/ mistaken[s])
            /\ up[s] # "up" \/ (said[s] /\ snd[s] \in {"bye", "ended"})

FlagForCause ==
  \A s \in Peers : ~running[s] => said[s] \/ mistaken[s] \/ Quiet(Other(s))
ThreadForFlag == \A s \in Peers : rcv[s] = "ended" => ~running[s]

\* A Bye is the last a program sends.
ByeIsLast ==
  \A s \in Peers :
     /\ snd[s] = "bye" \/ (snd[s] = "send" /\ buffer[s] = Bye) => said[s]
     /\ said[s] => snd[s] \in {"bye", "ended"} \/ (snd[s] = "send" /\ buffer[s] = Bye)

\* The first program that goes has ended both threads.
FirstToGo ==
  \A s \in Peers :
     /\ reset[s] \/ up[s] = "killed" => up[Other(s)] # "up"
     /\ up[s] = "closed" => rcv[s] = "ended"

ChatInv == ChatTypeOK /\ FlagForCause /\ ThreadForFlag /\ ByeIsLast /\ FirstToGo

LEMMA Others == \A s \in Peers : /\ Other(s) \in Peers /\ Other(s) # s
                                 /\ \A t \in Peers : t = s \/ t = Other(s)
BY DEF Peers, Other

LEMMA Cutting ==
  ASSUME NEW c \in Seq(Bytes), NEW n \in 0 .. Len(c)
  PROVE  /\ SubSeq(c, n + 1, Len(c)) \in Seq(Bytes)
         /\ Len(SubSeq(c, n + 1, Len(c))) = Len(c) - n
         /\ SubSeq(c, 1, n) \in Seq(Bytes) /\ Len(SubSeq(c, 1, n)) = n
OBVIOUS

LEMMA Joining ==
  ASSUME NEW c \in Seq(Bytes), NEW d \in Seq(Bytes)
  PROVE  c \o d \in Seq(Bytes) /\ Len(c \o d) = Len(c) + Len(d)
OBVIOUS

LEMMA ChatInitInv == ChatInit => ChatInv
<1> SUFFICES ASSUME ChatInit PROVE ChatInv
  OBVIOUS
<1>1. <<>> \in Seq(Bytes) /\ Len(<<>>) = 0 /\ Capacity \in Nat /\ <<>> \in Lines
  BY ChatAssumption
<1>2. ChatTypeOK
  BY <1>1 DEF ChatInit, ChatTypeOK
<1> QED
  BY <1>1, <1>2 DEF ChatInit, ChatInv, FlagForCause, ThreadForFlag, ByeIsLast, FirstToGo


-----------------------------------------------------------------------------
(* Steps of one thread that leave the sockets alone.                       *)

ThreadStep(s) ==
  \/ SendTest(s) \/ (\E l \in Lines : Type(s, l)) \/ EndOfInput(s) \/ SendFails(s)
  \/ SendBye(s) \/ RecvTest(s) \/ RecvEnd(s)

LEMMA ThreadStepType ==
  ASSUME ChatTypeOK, NEW s \in Peers, ThreadStep(s) PROVE ChatTypeOK'
<1>1. UNCHANGED socket /\ UNCHANGED <<missed, mistaken>>
  BY DEF ThreadStep, SendTest, Type, EndOfInput, SendFails, SendBye, RecvTest, RecvEnd, socket, history
<1>2. snd' \in [Peers -> {"test", "fgets", "send", "bye", "ended"}]
  BY DEF ChatTypeOK, ThreadStep, SendTest, Type, EndOfInput, SendFails, SendBye, RecvTest, RecvEnd,
         SndGoto
<1>3. rcv' \in [Peers -> {"test", "recv", "ended"}]
  BY DEF ChatTypeOK, ThreadStep, SendTest, Type, EndOfInput, SendFails, SendBye, RecvTest, RecvEnd,
         RcvGoto
<1>4. running' \in [Peers -> BOOLEAN]
  BY DEF ChatTypeOK, ThreadStep, SendTest, Type, EndOfInput, SendFails, SendBye, RecvTest, RecvEnd,
         Stop
<1>5. buffer' \in [Peers -> Lines]
  BY DEF ChatTypeOK, ThreadStep, SendTest, Type, EndOfInput, SendFails, SendBye, RecvTest, RecvEnd
<1>6. said' \in [Peers -> BOOLEAN] /\ eof' \in [Peers -> BOOLEAN]
  BY DEF ChatTypeOK, ThreadStep, SendTest, Type, EndOfInput, SendFails, SendBye, RecvTest, RecvEnd,
         history
<1> QED
  BY <1>1, <1>2, <1>3, <1>4, <1>5, <1>6 DEF ChatTypeOK, socket

\* What such a step does to the program it belongs to; the other is untouched.
LEMMA ThreadStepIs ==
  ASSUME ChatInv, NEW s \in Peers, ThreadStep(s)
  PROVE  /\ UNCHANGED socket /\ up[s] = "up" /\ mistaken' = mistaken
         /\ \A t \in Peers : t # s => /\ running'[t] = running[t] /\ snd'[t] = snd[t]
                                      /\ rcv'[t] = rcv[t] /\ said'[t] = said[t]
                                      /\ buffer'[t] = buffer[t]
         /\ said[s] => said'[s]
         /\ snd[s] \notin {"bye", "ended"} \/ snd'[s] \in {"bye", "ended"}
         /\ snd'[s] = "bye" => snd[s] = "bye"
         /\ snd'[s] = "send" /\ buffer'[s] = Bye => said'[s]
         /\ said'[s] => snd'[s] \in {"bye", "ended"} \/ (snd'[s] = "send" /\ buffer'[s] = Bye)
         /\ ~running'[s] /\ running[s] => said[s] \/ (chan[Other(s)] = <<>> /\ up[Other(s)] # "up")
         /\ running'[s] => running[s]
         /\ rcv'[s] = "ended" => ~running'[s]
<1> USE Others DEF ChatInv
<1>1. CASE SendTest(s)
  <2>1. ~said[s] /\ UNCHANGED <<running, rcv, buffer, said, mistaken>> /\ UNCHANGED socket
    BY <1>1 DEF SendTest, Sending, ByeIsLast, history
  <2> QED
    BY <1>1, <2>1 DEF ChatTypeOK, SendTest, Sending, SndGoto, ThreadForFlag
<1>3. CASE \E l \in Lines : Type(s, l)
  <2>1. PICK l \in Lines : Type(s, l)
    BY <1>3
  <2>2. /\ up[s] = "up" /\ UNCHANGED <<running, rcv, socket, mistaken>>
        /\ snd' = [snd EXCEPT ![s] = "send"] /\ buffer' = [buffer EXCEPT ![s] = l]
        /\ said' = [said EXCEPT ![s] = said[s] \/ l = Bye] /\ snd[s] = "fgets"
    BY <2>1 DEF Type, Sending, SndGoto
  <2>3. said'[s] <=> l = Bye
    BY <2>2 DEF ChatTypeOK, ByeIsLast
  <2>4. ~said[s]
    BY <2>2 DEF ByeIsLast
  <2> QED
    BY <2>2, <2>3, <2>4 DEF ChatTypeOK, ThreadForFlag
<1>4. CASE EndOfInput(s)
  BY <1>4 DEF ChatTypeOK, EndOfInput, Sending, SndGoto, socket, history, ThreadForFlag
<1>5. CASE SendFails(s)
  BY <1>5 DEF ChatTypeOK, SendFails, Sending, SndGoto, socket, history, ThreadForFlag
<1>6. CASE SendBye(s)
  BY <1>6 DEF ChatTypeOK, SendBye, Sending, SndGoto, Stop, socket, history, ThreadForFlag, ByeIsLast
<1>7. CASE RecvTest(s)
  BY <1>7 DEF ChatTypeOK, RecvTest, Receiving, RcvGoto, socket, history, ThreadForFlag, ByeIsLast
<1>8. CASE RecvEnd(s)
  BY <1>8 DEF ChatTypeOK, RecvEnd, Receiving, RcvGoto, Stop, socket, history, ThreadForFlag, ByeIsLast
<1> QED
  BY <1>1, <1>3, <1>4, <1>5, <1>6, <1>7, <1>8 DEF ThreadStep


LEMMA ThreadStepKeeps ==
  ASSUME ChatInv, NEW s \in Peers, ThreadStep(s) PROVE ChatInv'
<1> DEFINE o == Other(s)
<1>1. o \in Peers /\ o # s /\ \A t \in Peers : t = s \/ t = o
  BY Others
<1>2. Other(o) = s
  BY DEF Peers, Other
<1>3. /\ UNCHANGED <<chan, up, reset, mistaken>> /\ up[s] = "up"
      /\ running'[o] = running[o] /\ snd'[o] = snd[o] /\ rcv'[o] = rcv[o] /\ said'[o] = said[o]
      /\ buffer'[o] = buffer[o]
      /\ said[s] => said'[s]
      /\ snd[s] \notin {"bye", "ended"} \/ snd'[s] \in {"bye", "ended"}
      /\ snd'[s] = "bye" => snd[s] = "bye"
      /\ snd'[s] = "send" /\ buffer'[s] = Bye => said'[s]
      /\ said'[s] => snd'[s] \in {"bye", "ended"} \/ (snd'[s] = "send" /\ buffer'[s] = Bye)
      /\ ~running'[s] /\ running[s] => said[s] \/ (chan[o] = <<>> /\ up[o] # "up")
      /\ running'[s] => running[s]
      /\ rcv'[s] = "ended" => ~running'[s]
  BY <1>1, ThreadStepIs DEF socket
<1> HIDE DEF o
<1> USE DEF ChatInv
<1>4. ChatTypeOK'
  BY ThreadStepType
<1>5. ByeIsLast'
  BY <1>1, <1>3 DEF ByeIsLast
<1>6. ThreadForFlag'
  BY <1>1, <1>3 DEF ThreadForFlag
<1>7. FirstToGo'
  BY <1>1, <1>2, <1>3 DEF FirstToGo
<1>8. FlagForCause'
  <2>1. \A t \in Peers : Quiet(t) => Quiet(t)'
    BY <1>1, <1>3 DEF Quiet
  <2>2. ~running'[o] => said'[o] \/ mistaken'[o] \/ Quiet(s)'
    BY <1>1, <1>2, <1>3, <2>1 DEF FlagForCause
  <2>3. ~running'[s] => said'[s] \/ mistaken'[s] \/ Quiet(o)'
    <3>1. CASE ~running[s]
      BY <3>1, <1>1, <1>3, <2>1 DEF FlagForCause, o
    <3>2. CASE chan[o] = <<>> /\ up[o] # "up"
      <4>1. up[o] = "closed"
        BY <3>2, <1>1, <1>2, <1>3 DEF FirstToGo, ChatTypeOK
      <4>2. said[o] \/ mistaken[o] \/ Quiet(s)
        BY <4>1, <1>1, <1>2 DEF FirstToGo, ThreadForFlag, FlagForCause
      <4> QED
        BY <3>2, <4>2, <1>3 DEF Quiet
    <3> QED
      BY <3>1, <3>2, <1>3
  <2> QED
    BY <1>1, <1>2, <2>2, <2>3 DEF FlagForCause, o
<1> QED
  BY <1>4, <1>5, <1>6, <1>7, <1>8


-----------------------------------------------------------------------------
(* Steps that change a socket.                                             *)

LEMMA SendLineKeeps ==
  ASSUME ChatInv, NEW s \in Peers, SendLine(s) \/ SendLost(s) PROVE ChatInv'
<1> DEFINE o == Other(s)
<1>1. o \in Peers /\ o # s /\ (\A t \in Peers : t = s \/ t = o) /\ Other(o) = s
  BY Others DEF Peers, Other
<1>2. /\ up[s] = "up" /\ snd[s] = "send" /\ UNCHANGED <<running, rcv, buffer, up, history>>
      /\ snd' = [snd EXCEPT ![s] = IF buffer[s] = Bye THEN "bye" ELSE "test"]
  BY DEF SendLine, SendLost, Sending, AfterSend, SndGoto
<1>3. \/ chan' = chan
      \/ /\ Len(chan[s]) + Len(buffer[s]) <= Capacity
         /\ chan' = [chan EXCEPT ![s] = chan[s] \o buffer[s]]
  BY DEF SendLine, SendLost
<1>4. /\ reset' \in [Peers -> BOOLEAN] /\ reset'[o] = reset[o]
      /\ reset'[s] => reset[s] \/ up[o] # "up"
  BY <1>1 DEF SendLine, SendLost, ChatInv, ChatTypeOK, Sending
<1> HIDE DEF o
<1> USE DEF ChatInv
<1>5. ChatTypeOK'
  <2>1. snd' \in [Peers -> {"test", "fgets", "send", "bye", "ended"}]
    BY <1>2 DEF ChatTypeOK
  <2>2. chan' \in [Peers -> Seq(Bytes)] /\ \A t \in Peers : Len(chan'[t]) <= Capacity
    <3>1. CASE chan' = chan
      BY <3>1 DEF ChatTypeOK
    <3>2. CASE chan' # chan
      <4>1. /\ buffer[s] \in Seq(Bytes) /\ chan[s] \in Seq(Bytes)
            /\ Len(chan[s]) + Len(buffer[s]) <= Capacity
            /\ chan' = [chan EXCEPT ![s] = chan[s] \o buffer[s]]
        BY <1>3, <3>2, ChatAssumption DEF ChatTypeOK
      <4>2. chan[s] \o buffer[s] \in Seq(Bytes) /\ Len(chan[s] \o buffer[s]) <= Capacity
        BY <4>1, Joining
      <4> QED
        BY <4>1, <4>2 DEF ChatTypeOK
    <3> QED
      BY <3>1, <3>2
  <2> QED
    BY <2>1, <2>2, <1>2, <1>4 DEF ChatTypeOK, history
<1>6. ByeIsLast'
  <2>1. snd'[o] = snd[o] /\ said' = said /\ buffer' = buffer
    BY <1>1, <1>2 DEF ChatTypeOK, history
  <2>2. /\ buffer[s] = Bye => said[s] /\ snd'[s] = "bye"
        /\ buffer[s] # Bye => ~said[s] /\ snd'[s] = "test"
    BY <1>2 DEF ChatTypeOK, ByeIsLast
  <2> QED
    BY <1>1, <2>1, <2>2 DEF ByeIsLast
<1>7. ThreadForFlag'
  BY <1>2 DEF ThreadForFlag
<1>8. FirstToGo'
  <2>1. Other(s) = o
    BY DEF o
  <2>2. /\ reset'[s] \/ up'[s] = "killed" => up'[o] # "up"
        /\ reset'[o] \/ up'[o] = "killed" => up'[s] # "up"
    BY <1>1, <1>2, <1>4, <2>1 DEF FirstToGo
  <2>3. \A t \in Peers : up'[t] = "closed" => rcv'[t] = "ended"
    BY <1>2 DEF FirstToGo
  <2> QED
    BY <1>1, <2>1, <2>2, <2>3 DEF FirstToGo
<1>9. FlagForCause'
  <2>1. \A t \in Peers : Quiet(t) => Quiet(t)'
    <3>1. ~Quiet(s)
      BY <1>2 DEF Quiet
    <3>2. Quiet(o) => Quiet(o)'
      BY <1>1, <1>2, <1>3 DEF Quiet, ChatTypeOK, history
    <3> QED
      BY <1>1, <3>1, <3>2
  <2> QED
    BY <2>1, <1>2, Others DEF FlagForCause, history
<1> QED
  BY <1>5, <1>6, <1>7, <1>8, <1>9

\* recv takes bytes that the other program sent, and what it read as a Bye
\* either was the one the other user typed or is recorded as a mistake.
LEMMA RecvKeeps ==
  ASSUME ChatInv, NEW s \in Peers, Recv(s) PROVE ChatInv'
<1> DEFINE o == Other(s)
           c == chan[o]
           isBye(n) == ByeSent(o) /\ n = Len(c)
<1>1. o \in Peers /\ o # s /\ (\A t \in Peers : t = s \/ t = o) /\ Other(o) = s
  BY Others DEF Peers, Other
<1>2. PICK n \in 1 .. Len(c) :
        /\ chan' = [chan EXCEPT ![o] = SubSeq(c, n + 1, Len(c))]
        /\ IF Recognised(c, n)
             THEN Stop(s) /\ RcvGoto(s, "ended")
             ELSE running' = running /\ RcvGoto(s, "test")
        /\ missed' = [missed EXCEPT ![s] = @ \/ (isBye(n) /\ ~Recognised(c, n))]
        /\ mistaken' = [mistaken EXCEPT ![s] = @ \/ (Recognised(c, n) /\ ~isBye(n))]
  BY DEF Recv
<1>3. up[s] = "up" /\ rcv[s] = "recv" /\ UNCHANGED <<snd, buffer, up, reset, said, eof>>
  BY DEF Recv, Receiving
<1> HIDE DEF o, c, isBye
<1> USE DEF ChatInv
<1>4. c \in Seq(Bytes) /\ Len(c) \in Nat /\ Len(c) <= Capacity
  BY <1>1 DEF ChatTypeOK, c
\* What stays in the stream.
<1>5. /\ chan'[s] = chan[s] /\ chan'[o] = SubSeq(c, n + 1, Len(c))
      /\ chan'[o] \in Seq(Bytes) /\ Len(chan'[o]) = Len(c) - n
  BY <1>1, <1>2, <1>4, Cutting DEF ChatTypeOK
<1>6. chan' \in [Peers -> Seq(Bytes)]
  <2>1. DOMAIN chan' = Peers /\ chan' = [t \in Peers |-> chan'[t]]
    BY <1>2 DEF ChatTypeOK
  <2> QED
    BY <2>1, <1>1, <1>5 DEF ChatTypeOK
<1>7. /\ running' \in [Peers -> BOOLEAN] /\ rcv' \in [Peers -> {"test", "recv", "ended"}]
      /\ running'[o] = running[o] /\ rcv'[o] = rcv[o] /\ (running'[s] => running[s])
      /\ rcv'[s] = "ended" => ~running'[s]
  BY <1>1, <1>2 DEF ChatTypeOK, Stop, RcvGoto
<1>8. /\ missed' \in [Peers -> BOOLEAN] /\ mistaken' \in [Peers -> BOOLEAN]
      /\ mistaken'[o] = mistaken[o] /\ (mistaken[s] => mistaken'[s])
      /\ Recognised(c, n) /\ ~isBye(n) => mistaken'[s]
  <2>1. Recognised(c, n) \in BOOLEAN /\ isBye(n) \in BOOLEAN
    BY DEF Recognised, isBye, ByeSent
  <2> QED
    BY <2>1, <1>1, <1>2, Zenon DEF ChatTypeOK
<1>9. ChatTypeOK'
  <2>1. \A t \in Peers : Len(chan'[t]) <= Capacity
    <3>1. Len(chan'[o]) <= Capacity
      BY <1>4, <1>5, ChatAssumption
    <3> QED
      BY <3>1, <1>1, <1>5 DEF ChatTypeOK
  <2> QED
    BY <2>1, <1>3, <1>6, <1>7, <1>8 DEF ChatTypeOK
<1>10. ByeIsLast' /\ ThreadForFlag' /\ FirstToGo'
  BY <1>1, <1>3, <1>7 DEF ByeIsLast, ThreadForFlag, FirstToGo
<1>11. FlagForCause'
  <2>1. Quiet(s) => Quiet(s)'
    BY <1>3, <1>5, <1>8 DEF Quiet
  <2>2. ~Quiet(o)
    <3>1. Len(c) # 0
      BY <1>4
    <3> QED
      BY <3>1 DEF Quiet, c
  <2>3. ~running'[s] => said'[s] \/ mistaken'[s] \/ Quiet(o)'
    <3>1. CASE ~running[s]
      BY <3>1, <2>2, <1>3, <1>8 DEF FlagForCause, o
    <3>2. CASE Recognised(c, n) /\ ~isBye(n)
      BY <3>2, <1>8
    <3>3. CASE isBye(n)
      <4>1. n = Len(c) /\ said[o] /\ snd[o] # "send"
        BY <3>3 DEF isBye, ByeSent
      <4>2. snd[o] \in {"bye", "ended"}
        BY <4>1, <1>1 DEF ByeIsLast
      <4>3. Len(chan'[o]) = 0
        BY <4>1, <1>4, <1>5
      <4>4. chan'[o] = <<>>
        BY <4>3, <1>5
      <4> QED
        BY <4>1, <4>2, <4>4, <1>3 DEF Quiet
    <3> QED
      BY <3>1, <3>2, <3>3, <1>2
  <2> QED
    BY <1>1, <1>3, <1>7, <1>8, <2>1, <2>3 DEF FlagForCause, o
<1> QED
  BY <1>9, <1>10, <1>11

\* A program goes, and what it sent last may be cut off.
LEMMA GoneKeeps ==
  ASSUME ChatInv, NEW s \in Peers, Close(s) \/ BrokenPipe(s) PROVE ChatInv'
<1> DEFINE o == Other(s)
<1>1. o \in Peers /\ o # s /\ (\A t \in Peers : t = s \/ t = o) /\ Other(o) = s
  BY Others DEF Peers, Other
<1>2. PICK how \in {"closed", "killed"} :
        /\ Gone(s, how) /\ UNCHANGED <<threads, history>> /\ up[s] = "up"
        /\ how = "closed" => rcv[s] = "ended"
        /\ how = "killed" => reset[s]
  BY DEF Close, BrokenPipe, Sending, Receiving
<1>3. PICK n \in 0 .. Len(chan[s]) : chan' = [chan EXCEPT ![s] = SubSeq(chan[s], 1, n)]
  BY <1>2 DEF Gone
<1>4. /\ up' = [up EXCEPT ![s] = how]
      /\ reset' = [reset EXCEPT ![o] = reset[o] \/ chan[o] # <<>>]
  BY <1>2 DEF Gone
<1>a. UNCHANGED <<running, snd, rcv, buffer, said, eof, missed, mistaken>>
  BY <1>2 DEF threads, history
<1> HIDE DEF o
<1> USE DEF ChatInv
<1>5. chan[s] \in Seq(Bytes) /\ Len(chan[s]) \in Nat /\ Len(chan[s]) <= Capacity
  BY DEF ChatTypeOK
<1>6. /\ chan'[s] = SubSeq(chan[s], 1, n) /\ chan'[o] = chan[o]
      /\ chan'[s] \in Seq(Bytes) /\ Len(chan'[s]) = n
  BY <1>1, <1>3, <1>5, Cutting DEF ChatTypeOK
<1>7. ChatTypeOK'
  <2>1. chan' \in [Peers -> Seq(Bytes)] /\ \A t \in Peers : Len(chan'[t]) <= Capacity
    BY <1>1, <1>3, <1>5, <1>6, ChatAssumption DEF ChatTypeOK
  <2>2. up' \in [Peers -> {"up", "closed", "killed"}] /\ reset' \in [Peers -> BOOLEAN]
    BY <1>4 DEF ChatTypeOK
  <2> QED
    BY <1>a, <2>1, <2>2 DEF ChatTypeOK
<1>8. ByeIsLast' /\ ThreadForFlag'
  BY <1>a DEF ByeIsLast, ThreadForFlag
<1>10. FirstToGo'
  <2>1. up'[s] = how /\ up'[s] # "up" /\ up'[o] = up[o]
    BY <1>1, <1>2, <1>4 DEF ChatTypeOK
  <2>2. reset'[s] = reset[s]
    BY <1>1, <1>4 DEF ChatTypeOK
  <2> QED
    BY <1>1, <1>2, <1>a, <2>1, <2>2 DEF FirstToGo, o
<1>11. FlagForCause'
  <2>1. Quiet(s) => Quiet(s)'
    <3> SUFFICES ASSUME Quiet(s) PROVE Quiet(s)'
      OBVIOUS
    <3>1. n = 0 /\ chan'[s] = <<>>
      BY <1>3, <1>6 DEF Quiet
    <3>2. up'[s] # "up"
      BY <1>2, <1>4 DEF ChatTypeOK
    <3> QED
      BY <3>1, <3>2, <1>a DEF Quiet
  <2>2. Quiet(o) => Quiet(o)'
    BY <1>1, <1>4, <1>6, <1>a DEF Quiet, ChatTypeOK
  <2> QED
    BY <1>1, <1>a, <2>1, <2>2 DEF FlagForCause, o
<1> QED
  BY <1>7, <1>8, <1>10, <1>11

-----------------------------------------------------------------------------
LEMMA ChatNextInv == ChatInv /\ [ChatNext]_chatVars => ChatInv'
<1> SUFFICES ASSUME ChatInv, [ChatNext]_chatVars PROVE ChatInv'
  OBVIOUS
<1>1. CASE ChatNext
  <2>1. PICK s \in Peers : ThreadStep(s) \/ SendLine(s) \/ SendLost(s) \/ Recv(s) \/ Close(s) \/ BrokenPipe(s)
    BY <1>1 DEF ChatNext, Program, User, ThreadStep
  <2> QED
    BY <2>1, ThreadStepKeeps, SendLineKeeps, RecvKeeps, GoneKeeps
<1>2. CASE UNCHANGED chatVars
  BY <1>2 DEF ChatInv, ChatTypeOK, FlagForCause, ThreadForFlag, ByeIsLast, FirstToGo, Quiet, chatVars,
              threads, socket, history
<1> QED
  BY <1>1, <1>2

LEMMA ChatInvariant == ChatSpec => []ChatInv
BY ChatInitInv, ChatNextInv, PTL DEF ChatSpec

\* The type invariant, for any lines and any capacity of the buffers.
THEOREM ChatTypeCorrect == ChatSpec => []ChatTypeOK
<1>1. ChatInv => ChatTypeOK
  BY DEF ChatInv
<1> QED
  BY <1>1, ChatInvariant, PTL

\* However the stream is cut and joined, a program that took nothing else for a
\* Bye stops on account of the other only when the other is done and all that
\* arrived was shown, for any lines and any capacity of the buffers.
THEOREM AllShown == ChatSpec => []ShowsToTheEnd
<1>1. ChatInv => ShowsToTheEnd
  BY DEF ChatInv, ThreadForFlag, FlagForCause, Quiet, ShowsToTheEnd
<1> QED
  BY <1>1, ChatInvariant, PTL
=============================================================================
