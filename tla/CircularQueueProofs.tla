------------------------- MODULE CircularQueueProofs -------------------------
(***************************************************************************)
(* For any ring size and any threads: no wakeup is lost before a thread is *)
(* deleted, and the ring always behaves as a queue.                        *)
(***************************************************************************)
EXTENDS CircularQueue, SequenceTheorems, TLAPS

\* No thread is cancelled before one is deleted or the program ends.
NoneCancelled == deletes = 0 /\ ~exited => cancelled = {}

IInv == TypeOK /\ NoneCancelled /\ NoLostWakeup

\* The steps that do not touch the ring.
Still(t) == \/ Lock(t) \/ Wait(t) \/ Signal(t) \/ Unlock(t) \/ Spurious(t)
            \/ Stop(t) \/ StopWait(t) \/ StopLocked(t)

-----------------------------------------------------------------------------
(* Indices: the remainder of a number below 2N is found by one             *)
(* subtraction.                                                            *)

LEMMA Mod ==
  ASSUME NEW a \in Nat
  PROVE  /\ a < N => a % N = a
         /\ a >= N /\ a < N + N => a % N = a - N
BY QueueAssumption

LEMMA AdvanceIs ==
  ASSUME NEW i \in 0 .. N-1
  PROVE  Advance(i) = IF i = N-1 THEN 0 ELSE i + 1
<1>1. i + 1 \in Nat /\ N \in Nat \ {0}
  BY QueueAssumption
<1>2. CASE i = N-1
  BY <1>1, <1>2, Mod DEF Advance
<1>3. CASE i # N-1
  BY <1>1, <1>3, Mod DEF Advance
<1> QED
  BY <1>2, <1>3

LEMMA AdvanceType == \A i \in 0 .. N-1 : Advance(i) \in 0 .. N-1
<1> SUFFICES ASSUME NEW i \in 0 .. N-1 PROVE Advance(i) \in 0 .. N-1
  OBVIOUS
<1>1. N \in Nat \ {0} /\ i \in Nat
  BY QueueAssumption
<1> QED
  BY <1>1, AdvanceIs

-----------------------------------------------------------------------------
(* Types.                                                                  *)

LEMMA SeqTypes ==
  ASSUME NEW S
  PROVE  <<>> \in Seq(S) /\ \A s \in Seq(S), e \in S : Append(s, e) \in Seq(S)
OBVIOUS

LEMMA InitInv == Init => IInv
<1> SUFFICES ASSUME Init PROVE IInv
  OBVIOUS
<1>1. 0 \in 0 .. N-1 /\ Zero \in Items
  BY QueueAssumption
<1>2. 0 \in 0 .. MaxDeletes /\ 0 \in 0 .. MaxSpurious
  BY ThreadAssumption
<1>3. TypeOK
  <2>1. producerThreads \in Seq(Producers) /\ consumerThreads \in Seq(Consumers)
    BY SeqTypes DEF Init
  <2>2. items \in [0 .. N-1 -> Items] /\ pc \in [Threads -> PCs]
    BY <1>1 DEF Init, PCs
  <2> QED
    BY <1>1, <1>2, <2>1, <2>2 DEF Init, TypeOK
<1>4. Running(Producers) = {} /\ Running(Consumers) = {}
  BY DEF Init, Running, Threads
<1> QED
  BY <1>3, <1>4 DEF Init, IInv, NoneCancelled, NoLostWakeup, WakesConsumer, WakesProducer

LEMMA GotoType ==
  ASSUME TypeOK, NEW t \in Threads, NEW l \in PCs, Goto(t, l)
  PROVE  /\ pc' \in [Threads -> PCs] /\ pc'[t] = l
         /\ \A u \in Threads : u # t => pc'[u] = pc[u]
BY DEF TypeOK, Goto

LEMMA PCNames ==
  {"none", "call", "hold", "wait", "woken", "signal", "unlock", "stop", "dead"} \subseteq PCs
BY DEF PCs

LEMMA StillType ==
  ASSUME TypeOK, NEW t \in Threads, Still(t)
  PROVE  TypeOK'
<1>1. CASE Signal(t)
  <2>1. pc' \in [Threads -> PCs]
    BY <1>1, PCNames DEF Signal, Goto, Waiting, TypeOK
  <2> QED
    BY <1>1, <2>1 DEF Signal, TypeOK, ring, managed
<1>2. CASE Spurious(t)
  <2>1. pc' \in [Threads -> PCs]
    BY <1>2, PCNames, GotoType DEF Spurious
  <2>2. spurious' \in 0 .. MaxSpurious
    BY <1>2, ThreadAssumption DEF Spurious, TypeOK
  <2> QED
    BY <1>2, <2>1, <2>2 DEF Spurious, TypeOK, ring, managed
<1>3. CASE Lock(t) \/ Wait(t) \/ Unlock(t) \/ Stop(t) \/ StopWait(t) \/ StopLocked(t)
  <2>1. pc' \in [Threads -> PCs]
    BY <1>3, PCNames, GotoType DEF Lock, Wait, Unlock, Stop, StopWait, StopLocked
  <2>2. owner' \in Threads \cup {Free}
    BY <1>3 DEF Lock, Wait, Unlock, Stop, StopWait, StopLocked, TypeOK
  <2> QED
    BY <1>3, <2>1, <2>2
       DEF Lock, Wait, Unlock, Stop, StopWait, StopLocked, TypeOK, ring, managed
<1> QED
  BY <1>1, <1>2, <1>3 DEF Still

LEMMA RingType ==
  ASSUME TypeOK, NEW t \in Threads, Put(t) \/ Take(t)
  PROVE  TypeOK'
<1>1. pc' \in [Threads -> PCs]
  BY PCNames, GotoType DEF Put, Take
<1>2. front' \in 0 .. N-1 /\ rear' \in 0 .. N-1
  BY AdvanceType DEF Put, Take, TypeOK
<1>3. items' \in [0 .. N-1 -> Items]
  BY DEF Put, Take, TypeOK
<1> QED
  BY <1>1, <1>2, <1>3 DEF Put, Take, TypeOK, managed

LEMMA AllBut1Type ==
  ASSUME NEW S, NEW s \in Seq(S), s # <<>>
  PROVE  Last(s) \in S /\ AllBut1(s) \in Seq(S)
BY DEF Last, AllBut1

LEMMA ManagerType ==
  ASSUME TypeOK, Manager
  PROVE  TypeOK'
<1>1. ASSUME NEW t \in Threads, AddProducer(t) \/ AddConsumer(t)
      PROVE  TypeOK'
  <2>1. pc' \in [Threads -> PCs]
    BY <1>1, PCNames, GotoType DEF AddProducer, AddConsumer
  <2>2. producerThreads' \in Seq(Producers) /\ consumerThreads' \in Seq(Consumers)
    <3>1. CASE AddProducer(t)
      BY <3>1, SeqTypes DEF AddProducer, TypeOK
    <3>2. CASE AddConsumer(t)
      BY <3>2, SeqTypes DEF AddConsumer, TypeOK
    <3> QED
      BY <1>1, <3>1, <3>2
  <2> QED
    BY <1>1, <2>1, <2>2 DEF AddProducer, AddConsumer, TypeOK, ring
<1>2. CASE deleteProducer
  <2>1. /\ Last(producerThreads) \in Producers
        /\ AllBut1(producerThreads) \in Seq(Producers)
    BY <1>2, AllBut1Type DEF deleteProducer, TypeOK
  <2>2. deletes' \in 0 .. MaxDeletes
    BY <1>2, ThreadAssumption DEF deleteProducer, TypeOK
  <2> QED
    BY <1>2, <2>1, <2>2 DEF deleteProducer, TypeOK, ring, Threads
<1>3. CASE deleteConsumer
  <2>1. /\ Last(consumerThreads) \in Consumers
        /\ AllBut1(consumerThreads) \in Seq(Consumers)
    BY <1>3, AllBut1Type DEF deleteConsumer, TypeOK
  <2>2. deletes' \in 0 .. MaxDeletes
    BY <1>3, ThreadAssumption DEF deleteConsumer, TypeOK
  <2> QED
    BY <1>3, <2>1, <2>2 DEF deleteConsumer, TypeOK, ring, Threads
<1>4. CASE clearResources
  BY <1>4 DEF clearResources, TypeOK, ring
<1> QED
  BY <1>1, <1>2, <1>3, <1>4 DEF Manager

LEMMA NextType ==
  ASSUME TypeOK, Next
  PROVE  TypeOK'
BY ManagerType, StillType, RingType DEF Next, Step, Still

-----------------------------------------------------------------------------
(* Wakeups.                                                                *)

LEMMA NoneCancelledInv ==
  ASSUME IInv, Next
  PROVE  NoneCancelled'
<1>1. deletes \in Nat /\ NoneCancelled
  BY ThreadAssumption DEF IInv, TypeOK
<1>2. ASSUME NEW t \in Threads, Step(t) \/ Spurious(t)
      PROVE  UNCHANGED managed
  BY <1>2 DEF Step, Lock, Wait, Put, Take, Signal, Unlock, Stop, StopWait, StopLocked,
              Spurious, managed
<1>3. ASSUME NEW t \in Threads, AddProducer(t) \/ AddConsumer(t)
      PROVE  UNCHANGED <<cancelled, exited, deletes>>
  BY <1>3 DEF AddProducer, AddConsumer
<1>4. deleteProducer \/ deleteConsumer => deletes' # 0
  BY <1>1 DEF deleteProducer, deleteConsumer
<1>5. clearResources => exited'
  BY DEF clearResources
<1> QED
  BY <1>1, <1>2, <1>3, <1>4, <1>5 DEF Next, Manager, NoneCancelled, managed

\* A step of t leaves t awake.  What it does to the others' wakeups is to
\* signal, to go to sleep when there is nothing to do, or nothing.
LEMMA StepWakes ==
  ASSUME IInv, NEW t \in Threads, Step(t) \/ Spurious(t), NoLostWakeup
  PROVE  NoLostWakeup'
<1> SUFFICES ASSUME deletes = 0, ~exited
             PROVE  WakesConsumer' /\ WakesProducer'
  <2>1. deletes' = deletes /\ exited' = exited
    BY DEF Step, Lock, Wait, Put, Take, Signal, Unlock, Stop, StopWait, StopLocked,
           Spurious, managed
  <2> QED
    BY <2>1 DEF NoLostWakeup
<1>1. TypeOK /\ WakesConsumer /\ WakesProducer /\ cancelled = {}
  BY DEF IInv, NoneCancelled, NoLostWakeup
<1>2. Producers \subseteq Threads /\ Consumers \subseteq Threads
      /\ \A p \in Producers, c \in Consumers : p # c
  BY ThreadAssumption DEF Threads
<1> USE DEF Running, Awake, ToSignal, At
<1>3. CASE Lock(t) \/ Unlock(t) \/ StopLocked(t) \/ Spurious(t)
  <2>1. PICK l \in {"hold", "call", "dead", "woken"} : Goto(t, l)
    BY <1>3 DEF Lock, Unlock, StopLocked, Spurious
  <2>2. pc'[t] = l /\ \A u \in Threads : u # t => pc'[u] = pc[u]
    BY <1>1, <2>1, PCNames, GotoType
  <2>3. pc[t] # "signal" /\ pc[t] # "none" /\ front' = front /\ rear' = rear
    BY <1>3 DEF Lock, Unlock, StopLocked, Spurious, ring
  <2>4. WakesConsumer'
    BY <1>1, <1>2, <2>1, <2>2, <2>3 DEF WakesConsumer, isEmpty
  <2>5. WakesProducer'
    BY <1>1, <1>2, <2>1, <2>2, <2>3 DEF WakesProducer, isFull, Advance
  <2> QED
    BY <2>4, <2>5
<1>4. CASE Wait(t)
  <2>1. pc'[t] = "wait" /\ \A u \in Threads : u # t => pc'[u] = pc[u]
    BY <1>1, <1>4, PCNames, GotoType DEF Wait
  <2>2. pc[t] = "hold" /\ front' = front /\ rear' = rear
        /\ (t \in Producers => isFull) /\ (t \in Consumers => isEmpty)
    BY <1>2, <1>4 DEF Wait, ring, Blocked, Threads
  <2>3. WakesConsumer'
    BY <1>1, <1>2, <2>1, <2>2 DEF WakesConsumer, isEmpty
  <2>4. WakesProducer'
    BY <1>1, <1>2, <2>1, <2>2 DEF WakesProducer, isFull, Advance
  <2> QED
    BY <2>3, <2>4
<1>5. CASE Put(t)
  <2>1. pc'[t] = "signal" /\ t \in Producers
    BY <1>1, <1>5, PCNames, GotoType DEF Put
  <2> QED
    BY <1>2, <2>1 DEF WakesConsumer, WakesProducer
<1>6. CASE Take(t)
  <2>1. pc'[t] = "signal" /\ t \in Consumers
    BY <1>1, <1>6, PCNames, GotoType DEF Take
  <2> QED
    BY <1>2, <2>1 DEF WakesConsumer, WakesProducer
<1>7. CASE Signal(t)
  <2>1. pc[t] = "signal" /\ front' = front /\ rear' = rear
    BY <1>7 DEF Signal, ring
  <2>2. ASSUME Waiting(OtherKind(t)) = {}, Goto(t, "unlock")
        PROVE  WakesConsumer' /\ WakesProducer'
    <3>1. pc'[t] = "unlock" /\ \A u \in Threads : u # t => pc'[u] = pc[u]
      BY <1>1, <2>2, PCNames, GotoType
    <3> QED
      BY <1>1, <1>2, <2>1, <2>2, <3>1
         DEF WakesConsumer, WakesProducer, Waiting, OtherKind, Threads
  <2>3. ASSUME NEW w \in Waiting(OtherKind(t)),
               pc' = [pc EXCEPT ![t] = "unlock", ![w] = "woken"]
        PROVE  WakesConsumer' /\ WakesProducer'
    <3>1. w \in OtherKind(t) /\ w # t /\ w \in Threads
      BY <1>2, <2>1, <2>3 DEF Waiting, OtherKind, Threads
    <3>2. pc'[t] = "unlock" /\ pc'[w] = "woken"
      BY <1>1, <2>3, <3>1 DEF TypeOK
    <3>3. \/ t \in Producers /\ w \in Consumers
          \/ t \in Consumers /\ w \in Producers
      BY <3>1 DEF OtherKind, Threads
    <3> QED
      BY <3>2, <3>3 DEF WakesConsumer, WakesProducer
  <2> QED
    BY <1>7, <2>2, <2>3 DEF Signal
<1>8. ~Stop(t) /\ ~StopWait(t)
  BY <1>1 DEF Stop, StopWait
<1> QED
  BY <1>3, <1>4, <1>5, <1>6, <1>7, <1>8 DEF Step

LEMMA ManagerWakes ==
  ASSUME IInv, Manager
  PROVE  NoLostWakeup'
<1>1. TypeOK /\ NoLostWakeup /\ deletes \in Nat
  BY ThreadAssumption DEF IInv, TypeOK
<1>2. Producers \subseteq Threads /\ Consumers \subseteq Threads
  BY DEF Threads
<1>3. ASSUME NEW t \in Threads, AddProducer(t) \/ AddConsumer(t)
      PROVE  NoLostWakeup'
  <2>1. pc'[t] = "call" /\ \A u \in Threads : u # t => pc'[u] = pc[u]
    BY <1>1, <1>3, PCNames, GotoType DEF AddProducer, AddConsumer
  <2>2. pc[t] = "none" /\ UNCHANGED <<front, rear, exited, deletes>>
    BY <1>3 DEF AddProducer, AddConsumer, Fresh, At, ring
  <2>3. WakesConsumer => WakesConsumer'
    BY <1>1, <1>2, <2>1, <2>2 DEF WakesConsumer, isEmpty, Running, Awake, ToSignal, At
  <2>4. WakesProducer => WakesProducer'
    BY <1>1, <1>2, <2>1, <2>2
       DEF WakesProducer, isFull, Advance, Running, Awake, ToSignal, At
  <2> QED
    BY <1>1, <2>2, <2>3, <2>4 DEF NoLostWakeup
<1>4. deleteProducer \/ deleteConsumer => deletes' # 0
  BY <1>1 DEF deleteProducer, deleteConsumer
<1>5. clearResources => exited'
  BY DEF clearResources
<1> QED
  BY <1>3, <1>4, <1>5 DEF Manager, NoLostWakeup

LEMMA NextInv == IInv /\ [Next]_vars => IInv'
<1> SUFFICES ASSUME IInv, [Next]_vars PROVE IInv'
  OBVIOUS
<1>1. CASE UNCHANGED vars
  BY <1>1 DEF vars, IInv, TypeOK, NoneCancelled, NoLostWakeup, WakesConsumer,
              WakesProducer, isEmpty, isFull, Advance, Running, Awake, ToSignal, At
<1>2. CASE Next
  <2>1. TypeOK' /\ NoneCancelled'
    BY <1>2, NextType, NoneCancelledInv DEF IInv
  <2>2. NoLostWakeup'
    BY <1>2, StepWakes, ManagerWakes DEF Next, IInv
  <2> QED
    BY <2>1, <2>2 DEF IInv
<1> QED
  BY <1>1, <1>2

\* Every variable of the circular queue keeps its type; in particular front and
\* rear never leave the array.
THEOREM TypeCorrect == Spec => []TypeOK
<1>1. IInv => TypeOK
  BY DEF IInv
<1> QED
  BY <1>1, InitInv, NextInv, PTL DEF Spec

\* Two condition variables, signalled after every put and take, are enough: no
\* thread sleeps for ever beside work it could do.
THEOREM WakeupsKept == Spec => []NoLostWakeup
<1>1. IInv => NoLostWakeup
  BY DEF IInv
<1> QED
  BY <1>1, InitInv, NextInv, PTL DEF Spec

-----------------------------------------------------------------------------
(* The ring is a queue.                                                    *)

LEMMA Distance ==
  ASSUME NEW f \in 0 .. N-1, NEW r \in 0 .. N-1
  PROVE  (r + N - f) % N = IF r >= f THEN r - f ELSE r + N - f
<1>1. N \in Nat \ {0} /\ r + N - f \in Nat
  BY QueueAssumption
<1> QED
  BY <1>1, Mod

Length == (rear + N - front) % N

LEMMA LengthIs ==
  ASSUME TypeOK
  PROVE  /\ Length = IF rear >= front THEN rear - front ELSE rear + N - front
         /\ Length \in 0 .. N-1
<1>1. N \in Nat \ {0} /\ front \in 0 .. N-1 /\ rear \in 0 .. N-1
  BY QueueAssumption DEF TypeOK
<1> QED
  BY <1>1, Distance DEF Length

\* Where the k-th item from front is.
Place(k) == (front + k - 1) % N

LEMMA PlaceIs ==
  ASSUME TypeOK, NEW k \in 1 .. N-1
  PROVE  /\ Place(k) = IF front + k - 1 < N THEN front + k - 1 ELSE front + k - 1 - N
         /\ Place(k) \in 0 .. N-1
<1>1. N \in Nat \ {0} /\ front \in 0 .. N-1 /\ front + k - 1 \in Nat
  BY QueueAssumption DEF TypeOK
<1> QED
  BY <1>1, Mod DEF Place

LEMMA ContentsType ==
  ASSUME TypeOK
  PROVE  /\ Contents = [k \in 1 .. Length |-> items[Place(k)]]
         /\ Contents \in Seq(Items) /\ Len(Contents) = Length
<1>1. Contents = [k \in 1 .. Length |-> items[Place(k)]]
  BY DEF Contents, Length, Place
<1>2. Length \in Nat /\ \A k \in 1 .. Length : k \in 1 .. N-1
  BY LengthIs, QueueAssumption
<1>3. \A k \in 1 .. Length : items[Place(k)] \in Items
  BY <1>2, PlaceIs DEF TypeOK
<1> QED
  BY <1>1, <1>2, <1>3

LEMMA InitQueue == Init => Queue!Init
<1> SUFFICES ASSUME Init PROVE Contents = <<>>
  BY DEF Queue!Init
<1>1. TypeOK
  BY InitInv DEF IInv
<1>2. Length = 0
  BY <1>1, LengthIs, QueueAssumption DEF Init
<1> QED
  BY <1>1, <1>2, ContentsType

\* enQ adds its item behind the others.
LEMMA PutQueue ==
  ASSUME TypeOK, TypeOK', NEW t \in Threads, Put(t)
  PROVE  Queue!Next
<1>1. PICK i \in Items : items' = [items EXCEPT ![rear] = i]
  BY DEF Put
<1>2. N \in Nat \ {0} /\ front \in 0 .. N-1 /\ rear \in 0 .. N-1
  BY QueueAssumption DEF TypeOK
<1>3. rear' = (IF rear = N-1 THEN 0 ELSE rear + 1) /\ front' = front /\ rear' # front
  BY <1>2, AdvanceIs DEF Put, isFull
<1>4. Length' = Length + 1 /\ Length + 1 \in 1 .. N-1
  <2>1. Length = IF rear >= front THEN rear - front ELSE rear + N - front
    BY LengthIs
  <2>2. Length' = IF rear' >= front' THEN rear' - front' ELSE rear' + N - front'
    BY Distance DEF Length, TypeOK
  <2> QED
    BY <1>2, <1>3, <2>1, <2>2
<1>5. ASSUME NEW k \in 1 .. Length + 1
      PROVE  /\ Place(k)' = Place(k)
             /\ k = Length + 1 => Place(k) = rear
             /\ k # Length + 1 => Place(k) # rear
  <2>1. k \in 1 .. N-1
    BY <1>2, <1>4
  <2> QED
    BY <1>2, <1>3, <2>1, PlaceIs, LengthIs DEF Place
<1>6. Contents' = [k \in 1 .. Length + 1 |-> items'[Place(k)]]
  BY <1>3, <1>4 DEF Contents, Length, Place
<1>7. ASSUME NEW k \in 1 .. Length + 1
      PROVE  items'[Place(k)] = IF k = Length + 1 THEN i ELSE items[Place(k)]
  <2>1. items' = [items EXCEPT ![rear] = i] /\ items \in [0 .. N-1 -> Items]
    BY <1>1 DEF TypeOK
  <2>2. Place(k) \in 0 .. N-1
    BY <1>2, <1>4, <1>7, PlaceIs
  <2>3. k = Length + 1 <=> Place(k) = rear
    BY <1>5, <1>7
  <2> QED
    BY <1>2, <2>1, <2>2, <2>3
<1>8. Contents' = Append(Contents, i)
  <2>1. Contents' \in Seq(Items) /\ Len(Contents') = Length + 1
    <3>1. \A k \in 1 .. Length + 1 : Place(k) \in 0 .. N-1
      BY <1>2, <1>4, PlaceIs
    <3>2. \A k \in 1 .. Length + 1 : items'[Place(k)] \in Items
      BY <3>1 DEF TypeOK
    <3> QED
      BY <1>4, <1>6, <3>2
  <2>2. /\ Append(Contents, i) \in Seq(Items) /\ Len(Append(Contents, i)) = Length + 1
        /\ \A k \in 1 .. Length : Append(Contents, i)[k] = items[Place(k)]
        /\ Append(Contents, i)[Length + 1] = i
    BY ContentsType, AppendProperties
  <2>3. \A k \in 1 .. Length + 1 : Contents'[k] = Append(Contents, i)[k]
    <3> TAKE k \in 1 .. Length + 1
    <3>1. Contents'[k] = IF k = Length + 1 THEN i ELSE items[Place(k)]
      BY <1>6, <1>7
    <3>2. CASE k = Length + 1
      BY <2>2, <3>1, <3>2
    <3>3. CASE k # Length + 1
      <4>1. k \in 1 .. Length
        BY <1>2, <1>4, <3>3, LengthIs
      <4> QED
        BY <2>2, <3>1, <3>3, <4>1
    <3> QED
      BY <3>2, <3>3
  <2> QED
    BY <2>1, <2>2, <2>3, SeqEqual
<1>9. Len(Contents) < N - 1
  BY <1>2, <1>4, ContentsType, LengthIs
<1> QED
  BY <1>8, <1>9 DEF Queue!Next, Queue!Put

\* deQ takes the first.
LEMMA TakeQueue ==
  ASSUME TypeOK, TypeOK', NEW t \in Threads, Take(t)
  PROVE  Queue!Next
<1>1. N \in Nat \ {0} /\ front \in 0 .. N-1 /\ rear \in 0 .. N-1
  BY QueueAssumption DEF TypeOK
<1>2. /\ front' = (IF front = N-1 THEN 0 ELSE front + 1)
      /\ rear' = rear /\ items' = items /\ front # rear
  BY <1>1, AdvanceIs DEF Take, isEmpty
<1>3. Length' = Length - 1 /\ Length \in 1 .. N-1
  <2>1. Length = IF rear >= front THEN rear - front ELSE rear + N - front
    BY LengthIs
  <2>2. Length' = IF rear' >= front' THEN rear' - front' ELSE rear' + N - front'
    BY Distance DEF Length, TypeOK
  <2> QED
    BY <1>1, <1>2, <2>1, <2>2
<1>4. ASSUME NEW k \in 1 .. Length - 1
      PROVE  Place(k)' = Place(k + 1)
  <2>1. k \in 1 .. N-1 /\ k + 1 \in 1 .. N-1
    BY <1>1, <1>3
  <2>2. Place(k)' = IF front' + k - 1 < N THEN front' + k - 1 ELSE front' + k - 1 - N
    BY <1>1, <1>2, <2>1, Mod DEF Place
  <2> QED
    BY <1>1, <1>2, <2>1, <2>2, PlaceIs
<1>5. Contents' = [k \in 1 .. Length - 1 |-> items[Place(k + 1)]]
  <2>1. Contents' = [k \in 1 .. Length' |-> items'[Place(k)']]
    BY DEF Contents, Length, Place
  <2> QED
    BY <1>2, <1>3, <1>4, <2>1
<1>6. Contents # <<>> /\ Contents' = Tail(Contents)
  <2>1. Contents # <<>> /\ Contents \in Seq(Items) /\ Len(Contents) = Length
    BY <1>3, ContentsType
  <2>2. /\ Tail(Contents) \in Seq(Items) /\ Len(Tail(Contents)) = Length - 1
        /\ \A k \in 1 .. Length - 1 : Tail(Contents)[k] = Contents[k + 1]
    BY <2>1, HeadTailProperties
  <2>3. \A k \in 1 .. Length - 1 : Contents[k + 1] = items[Place(k + 1)]
    BY <1>3, ContentsType
  <2>4. \A k \in 1 .. Length - 1 : items[Place(k + 1)] \in Items
    BY <1>1, <1>3, PlaceIs DEF TypeOK
  <2>5. Contents' \in Seq(Items) /\ Len(Contents') = Length - 1
    BY <1>3, <1>5, <2>4
  <2>6. \A k \in 1 .. Length - 1 : Contents'[k] = Tail(Contents)[k]
    BY <1>5, <2>2, <2>3
  <2> QED
    BY <2>1, <2>2, <2>5, <2>6, SeqEqual
<1> QED
  BY <1>6 DEF Queue!Next, Queue!Take

\* Whatever the threads and the manager do, and wherever a cancelled thread
\* stops, the ring is a queue of N-1 places.
THEOREM RingIsQueue == Spec => ImplementsQueue
<1>1. ASSUME TypeOK, TypeOK', [Next]_vars
      PROVE  [Queue!Next]_Contents
  <2>1. ASSUME UNCHANGED ring
        PROVE  UNCHANGED Contents
    BY <2>1 DEF ring, Contents
  <2>2. CASE UNCHANGED vars
    BY <2>1, <2>2 DEF vars, ring
  <2>3. ASSUME NEW t \in Threads, Put(t) \/ Take(t)
        PROVE  Queue!Next
    BY <1>1, <2>3, PutQueue, TakeQueue
  <2>4. ASSUME NEW t \in Threads, Still(t)
        PROVE  UNCHANGED ring
    BY <2>4 DEF Still, Lock, Wait, Signal, Unlock, Spurious, Stop, StopWait, StopLocked
  <2>5. CASE Manager
    BY <2>1, <2>5 DEF Manager, AddProducer, AddConsumer, deleteProducer, deleteConsumer,
                      clearResources
  <2> QED
    BY <1>1, <2>1, <2>2, <2>3, <2>4, <2>5 DEF Next, Step, Still
<1> QED
  BY <1>1, TypeCorrect, InitQueue, PTL DEF Spec, ImplementsQueue, Queue!Spec
=============================================================================
