--------------------------- MODULE CircularQueue ---------------------------
(***************************************************************************)
(* The producers and consumers of circular_queue.c (Assignment 7, Part 2): *)
(* a ring of N slots guarded by one mutex and two condition variables, and *)
(* a manager thread that creates and cancels the others.                   *)
(*                                                                         *)
(* A thread's step is what it does between two points where another thread *)
(* can run: taking the mutex, releasing it (pthread_cond_wait does), or a  *)
(* call at which a cancelled thread stops.  The calls of fprintf are such  *)
(* points, some of them inside the critical section; pthread_cond_wait is  *)
(* one that takes the mutex back before the thread stops.                  *)
(***************************************************************************)
EXTENDS Naturals, Sequences

CONSTANTS Producers, Consumers,  \* the threads that may be created
          Free,                  \* the owner of a mutex nobody holds
          N,                     \* MAX_QUEUE_SIZE
          Items, Zero,           \* what is queued; what the global array holds first
          MaxProducers, MaxConsumers,   \* MAX_PRODUCER_THREADS, MAX_CONSUMER_THREADS
          MaxDeletes,            \* bound on the threads deleted
          MaxSpurious            \* bound on the waits that end without a signal

Threads == Producers \cup Consumers

ASSUME QueueAssumption == N \in Nat \ {0} /\ Zero \in Items
ASSUME ThreadAssumption == /\ Producers \cap Consumers = {}
                           /\ Threads \subseteq Nat
                           /\ Free \notin Threads
                           /\ MaxProducers \in Nat /\ MaxConsumers \in Nat
                           /\ MaxDeletes \in Nat /\ MaxSpurious \in Nat

VARIABLES items, front, rear,
          owner,         \* who holds queue.mutex
          pc,
          cancelled,     \* threads pthread_cancel was called for
          producerThreads, consumerThreads,   \* the first numProducers, numConsumers
          exited,        \* manager has returned, and main with it
          deletes, spurious

vars == <<items, front, rear, owner, pc, cancelled, producerThreads, consumerThreads,
          exited, deletes, spurious>>
ring == <<items, front, rear>>
managed == <<cancelled, producerThreads, consumerThreads, exited, deletes>>

PCs == {"none",     \* not created
        "call",     \* outside enQ and deQ, or in front of pthread_mutex_lock
        "hold",     \* holds the mutex, tests the queue
        "wait",     \* in pthread_cond_wait
        "woken",    \* signalled, takes the mutex back
        "signal",   \* has put or taken an item
        "unlock",   \* has signalled
        "stop",     \* cancelled in pthread_cond_wait, takes the mutex back
        "dead"}

Init == /\ items = [k \in 0 .. N-1 |-> Zero] /\ front = 0 /\ rear = 0
        /\ owner = Free
        /\ pc = [t \in Threads |-> "none"]
        /\ cancelled = {} /\ producerThreads = <<>> /\ consumerThreads = <<>>
        /\ exited = FALSE
        /\ deletes = 0 /\ spurious = 0

At(t, l) == pc[t] = l
Goto(t, l) == pc' = [pc EXCEPT ![t] = l]

-----------------------------------------------------------------------------
Advance(i) == (i + 1) % N
isFullNoWrap == rear + 1 = front          \* mutant: the index is not wrapped
isFull  == Advance(rear) = front
isEmpty == front = rear

Blocked(t) == IF t \in Producers THEN isFull ELSE isEmpty

\* pthread_mutex_lock, in enQ and deQ or at the end of pthread_cond_wait.
Lock(t) ==
  /\ pc[t] \in {"call", "woken"} /\ owner = Free
  /\ owner' = t
  /\ Goto(t, "hold")
  /\ UNCHANGED <<ring, managed, spurious>>

\* pthread_cond_wait on full or empty: releases the mutex.
Wait(t) ==
  /\ At(t, "hold") /\ Blocked(t)
  /\ owner' = Free
  /\ Goto(t, "wait")
  /\ UNCHANGED <<ring, managed, spurious>>

\* Mutant: the consumers are not told.
PutSilent(t) ==
  /\ t \in Producers /\ At(t, "hold") /\ ~isFull
  /\ \E i \in Items : items' = [items EXCEPT ![rear] = i]
  /\ rear' = Advance(rear)
  /\ Goto(t, "unlock")
  /\ UNCHANGED <<front, owner, managed, spurious>>

\* The item of producer is any value; it is chosen when it is stored.
Put(t) ==
  /\ t \in Producers /\ At(t, "hold") /\ ~isFull
  /\ \E i \in Items : items' = [items EXCEPT ![rear] = i]
  /\ rear' = Advance(rear)
  /\ Goto(t, "signal")
  /\ UNCHANGED <<front, owner, managed, spurious>>

Take(t) ==
  /\ t \in Consumers /\ At(t, "hold") /\ ~isEmpty
  /\ front' = Advance(front)
  /\ Goto(t, "signal")
  /\ UNCHANGED <<items, rear, owner, managed, spurious>>

\* pthread_cond_signal on empty by a producer, on full by a consumer: one of
\* the waiting threads, if there is one, stops waiting.
OwnKind(t)   == IF t \in Producers THEN Producers ELSE Consumers  \* mutant: the wrong one
OtherKind(t) == IF t \in Producers THEN Consumers ELSE Producers
Waiting(S) == {t \in S : At(t, "wait")}

Signal(t) ==
  /\ At(t, "signal")
  /\ \/ /\ Waiting(OtherKind(t)) = {}
        /\ Goto(t, "unlock")
     \/ \E w \in Waiting(OtherKind(t)) :
          pc' = [pc EXCEPT ![t] = "unlock", ![w] = "woken"]
  /\ UNCHANGED <<ring, owner, managed, spurious>>

Unlock(t) ==
  /\ At(t, "unlock")
  /\ owner' = Free
  /\ Goto(t, "call")
  /\ UNCHANGED <<ring, managed, spurious>>

\* A wait may end although nobody signalled.
Spurious(t) ==
  /\ At(t, "wait") /\ spurious < MaxSpurious
  /\ spurious' = spurious + 1
  /\ Goto(t, "woken")
  /\ UNCHANGED <<ring, owner, managed>>

-----------------------------------------------------------------------------
(* A cancelled thread stops at its next cancellation point and, if that is *)
(* inside the critical section, never releases the mutex.                  *)

Stop(t) ==
  /\ t \in cancelled
  /\ \/ pc[t] \in {"call", "signal", "unlock"}
     \/ At(t, "hold") /\ Blocked(t)
  /\ Goto(t, "dead")
  /\ UNCHANGED <<ring, owner, managed, spurious>>

StopWait(t) ==
  /\ t \in cancelled /\ At(t, "wait")
  /\ Goto(t, "stop")
  /\ UNCHANGED <<ring, owner, managed, spurious>>

StopLocked(t) ==
  /\ At(t, "stop") /\ owner = Free
  /\ owner' = t
  /\ Goto(t, "dead")
  /\ UNCHANGED <<ring, managed, spurious>>

-----------------------------------------------------------------------------
(* The manager's menu.                                                     *)

\* Threads are numbered in the order pthread_create makes them.
Fresh(t, S) == At(t, "none") /\ \A u \in S : At(u, "none") => t <= u

AddProducer(t) ==
  /\ t \in Producers /\ Fresh(t, Producers) /\ Len(producerThreads) < MaxProducers
  /\ producerThreads' = Append(producerThreads, t)
  /\ Goto(t, "call")
  /\ UNCHANGED <<ring, owner, cancelled, consumerThreads, exited, deletes, spurious>>

AddConsumer(t) ==
  /\ t \in Consumers /\ Fresh(t, Consumers) /\ Len(consumerThreads) < MaxConsumers
  /\ consumerThreads' = Append(consumerThreads, t)
  /\ Goto(t, "call")
  /\ UNCHANGED <<ring, owner, cancelled, producerThreads, exited, deletes, spurious>>

Last(s)    == s[Len(s)]
AllBut1(s) == SubSeq(s, 1, Len(s) - 1)

deleteProducer ==
  /\ producerThreads # <<>> /\ deletes < MaxDeletes
  /\ cancelled' = cancelled \cup {Last(producerThreads)}
  /\ producerThreads' = AllBut1(producerThreads)
  /\ deletes' = deletes + 1
  /\ UNCHANGED <<ring, owner, pc, consumerThreads, exited, spurious>>

deleteConsumer ==
  /\ consumerThreads # <<>> /\ deletes < MaxDeletes
  /\ cancelled' = cancelled \cup {Last(consumerThreads)}
  /\ consumerThreads' = AllBut1(consumerThreads)
  /\ deletes' = deletes + 1
  /\ UNCHANGED <<ring, owner, pc, producerThreads, exited, spurious>>

\* clearResources; manager and main return, which ends every thread.
clearResources ==
  /\ exited' = TRUE
  /\ cancelled' = {t \in Threads : \/ \E k \in DOMAIN producerThreads : producerThreads[k] = t
                                   \/ \E k \in DOMAIN consumerThreads : consumerThreads[k] = t}
                  \cup cancelled
  /\ producerThreads' = <<>> /\ consumerThreads' = <<>>
  /\ UNCHANGED <<ring, owner, pc, deletes, spurious>>

Manager == \/ \E t \in Threads : AddProducer(t) \/ AddConsumer(t)
           \/ deleteProducer \/ deleteConsumer \/ clearResources

Step(t) == \/ Lock(t) \/ Wait(t) \/ Put(t) \/ Take(t) \/ Signal(t) \/ Unlock(t)
           \/ Stop(t) \/ StopWait(t) \/ StopLocked(t)

Next == /\ ~exited
        /\ \/ Manager
           \/ \E t \in Threads : Step(t) \/ Spurious(t)

Spec == Init /\ [][Next]_vars
\* Every thread that can run does, while the program has not ended.
FairSpec == Spec /\ \A t \in Threads : WF_vars(~exited /\ Step(t))

-----------------------------------------------------------------------------
\* Every variable stays in its type; the indices stay inside the array.
TypeOK == /\ items \in [0 .. N-1 -> Items]
          /\ front \in 0 .. N-1 /\ rear \in 0 .. N-1
          /\ owner \in Threads \cup {Free}
          /\ pc \in [Threads -> PCs]
          /\ cancelled \subseteq Threads
          /\ producerThreads \in Seq(Producers) /\ consumerThreads \in Seq(Consumers)
          /\ exited \in BOOLEAN
          /\ deletes \in 0 .. MaxDeletes /\ spurious \in 0 .. MaxSpurious

Running(S) == {t \in S : pc[t] # "none"}
Awake(S)   == {t \in Running(S) : ~At(t, "wait")}
ToSignal(S) == {t \in S : At(t, "signal")}

\* No wakeup is lost: until a thread is deleted, an item in the queue has a
\* consumer that is not asleep, or a producer about to wake one; and room in
\* the queue has a producer that is not asleep, or a consumer about to wake one.
WakesConsumer ==
  ~isEmpty /\ Running(Consumers) # {} => Awake(Consumers) # {} \/ ToSignal(Producers) # {}
WakesProducer ==
  ~isFull /\ Running(Producers) # {} => Awake(Producers) # {} \/ ToSignal(Consumers) # {}
NoLostWakeup == deletes = 0 /\ ~exited => WakesConsumer /\ WakesProducer

\* What the ring holds, from front to rear.
Contents == [k \in 1 .. (rear + N - front) % N |-> items[(front + k - 1) % N]]
Queue == INSTANCE BoundedQueue WITH Item <- Items, Capacity <- N - 1, q <- Contents

\* The ring is a queue of N-1 places, whatever the threads do and whenever they
\* are cancelled: no item is lost, taken twice or overtaken.
ImplementsQueue == Queue!Spec

\* Until a thread is deleted, an item that can be taken is taken, and a
\* producer that has a consumer puts the next item.
Over == exited \/ deletes > 0
ItemsMove ==
  /\ \A f \in 0 .. N-1 :
        (front = f /\ ~isEmpty /\ Running(Consumers) # {}) ~> (front # f \/ Over)
  /\ \A r \in 0 .. N-1 :
        (rear = r /\ Running(Producers) # {} /\ Running(Consumers) # {}) ~> (rear # r \/ Over)
=============================================================================
