---------------------------- MODULE ThreadMutex ----------------------------
(***************************************************************************)
(* The two demonstrations of Assignment 7, Part 1, on one shared integer.  *)
(* In threadMutex1.c a mutex keeps the producers apart and the consumers   *)
(* read as they like.  In threadMutex2.c the producers lock p_mutex and    *)
(* unlock c_mutex, and the consumers do the opposite, so that each value   *)
(* passes from a producer to a consumer; main locks c_mutex first.  A      *)
(* thread that unlocks a mutex another thread locked releases it, as the   *)
(* default mutexes of glibc do.                                            *)
(*                                                                         *)
(* Reading and writing sharedData are separate steps.  Its value is kept   *)
(* modulo M, as is every count.                                            *)
(***************************************************************************)
EXTENDS Naturals

CONSTANTS Producers, Consumers,   \* nproducer, nconsumer threads
          M                       \* sharedData counts modulo M

ASSUME ThreadAssumption == Producers \cap Consumers = {} /\ M \in Nat \ {0}

Threads == Producers \cup Consumers
Value == 0 .. M-1
Next1(v) == (v + 1) % M

VARIABLES two,         \* which program: threadMutex2.c or threadMutex1.c
          pLocked,     \* p_mutex, pc_mutex in threadMutex1.c
          cLocked,     \* c_mutex
          sharedData,
          pc,
          reg,         \* reg[p]: the value p increments
          made, taken  \* the increments so far; the value a consumer read last

mutexVars == <<two, pLocked, cLocked, sharedData, pc, reg, made, taken>>

PCs == {"lock", "inc", "store", "read", "unlock", "key"}

MutexInit == /\ two \in BOOLEAN
             /\ pLocked = FALSE /\ cLocked = two
             /\ sharedData = 0
             /\ pc = [t \in Threads |-> "lock"]
             /\ reg = [p \in Producers |-> 0]
             /\ made = 0 /\ taken = 0

ThreadAt(t, l) == pc[t] = l
ThreadGoto(t, l) == pc' = [pc EXCEPT ![t] = l]

-----------------------------------------------------------------------------
\* Mutant: the producer goes on without pthread_mutex_lock.
ProducerNoLock(p) ==
  /\ ThreadAt(p, "lock")
  /\ ThreadGoto(p, "inc")
  /\ UNCHANGED <<two, pLocked, cLocked, sharedData, reg, made, taken>>

ProducerLock(p) ==
  /\ ThreadAt(p, "lock") /\ ~pLocked
  /\ pLocked' = TRUE
  /\ ThreadGoto(p, "inc")
  /\ UNCHANGED <<two, cLocked, sharedData, reg, made, taken>>

Load(p) ==
  /\ ThreadAt(p, "inc")
  /\ reg' = [reg EXCEPT ![p] = sharedData]
  /\ ThreadGoto(p, "store")
  /\ UNCHANGED <<two, pLocked, cLocked, sharedData, made, taken>>

Store(p) ==
  /\ ThreadAt(p, "store")
  /\ sharedData' = Next1(reg[p])
  /\ made' = Next1(made)
  /\ ThreadGoto(p, "unlock")
  /\ UNCHANGED <<two, pLocked, cLocked, reg, taken>>

ProducerUnlock(p) ==
  /\ ThreadAt(p, "unlock")
  /\ IF two THEN cLocked' = FALSE /\ UNCHANGED pLocked
     ELSE pLocked' = FALSE /\ UNCHANGED cLocked
  /\ ThreadGoto(p, "key")
  /\ UNCHANGED <<two, sharedData, reg, made, taken>>

-----------------------------------------------------------------------------
\* Mutant: threadMutex2.c's consumer does not lock c_mutex.
ConsumerNoLock(c) ==
  /\ ThreadAt(c, "lock")
  /\ ThreadGoto(c, "read")
  /\ UNCHANGED <<two, pLocked, cLocked, sharedData, reg, made, taken>>

ConsumerLock(c) ==
  /\ ThreadAt(c, "lock") /\ (two => ~cLocked)
  /\ cLocked' = (cLocked \/ two)
  /\ ThreadGoto(c, "read")
  /\ UNCHANGED <<two, pLocked, sharedData, reg, made, taken>>

ReadValue(c) ==
  /\ ThreadAt(c, "read")
  /\ taken' = sharedData
  /\ ThreadGoto(c, "unlock")
  /\ UNCHANGED <<two, pLocked, cLocked, sharedData, reg, made>>

\* Mutant: the consumer gives back the mutex it took.
ConsumerUnlockOwn(c) ==
  /\ ThreadAt(c, "unlock")
  /\ cLocked' = FALSE
  /\ ThreadGoto(c, "key")
  /\ UNCHANGED <<two, pLocked, sharedData, reg, made, taken>>

ConsumerUnlock(c) ==
  /\ ThreadAt(c, "unlock")
  /\ pLocked' = (pLocked /\ ~two)
  /\ ThreadGoto(c, "key")
  /\ UNCHANGED <<two, cLocked, sharedData, reg, made, taken>>

\* getchar: the user answers.
Key(t) ==
  /\ ThreadAt(t, "key")
  /\ ThreadGoto(t, "lock")
  /\ UNCHANGED <<two, pLocked, cLocked, sharedData, reg, made, taken>>

Producer(p) == \/ ProducerLock(p) \/ Load(p) \/ Store(p) \/ ProducerUnlock(p) \/ Key(p)
Consumer(c) == \/ ConsumerLock(c) \/ ReadValue(c) \/ ConsumerUnlock(c) \/ Key(c)

MutexNext == (\E p \in Producers : Producer(p)) \/ (\E c \in Consumers : Consumer(c))

MutexSpec == MutexInit /\ [][MutexNext]_mutexVars
\* Every thread that can run does, and the user answers every getchar.
MutexFairSpec == /\ MutexSpec
                 /\ \A p \in Producers : WF_mutexVars(Producer(p))
                 /\ \A c \in Consumers : WF_mutexVars(Consumer(c))

-----------------------------------------------------------------------------
\* Every variable stays in its type.
MutexTypeOK == /\ two \in BOOLEAN /\ pLocked \in BOOLEAN /\ cLocked \in BOOLEAN
               /\ sharedData \in Value /\ made \in Value /\ taken \in Value
               /\ pc \in [Threads -> PCs]
               /\ reg \in [Producers -> Value]

\* In both programs every increment counts: no producer overwrites another's.
EveryIncrementCounts == sharedData = made

\* In threadMutex2.c a producer changes the value only when the last one has
\* been read, and a consumer reads only a value nobody has read: "Data produced
\* by a producer thread can be consumed by only one consumer thread."
ReadBetween ==
  two => /\ sharedData' # sharedData => taken = sharedData
         /\ \A c \in Consumers : (ThreadAt(c, "read") /\ pc'[c] = "unlock")
                                    => sharedData = Next1(taken)
HandedOver == [][ReadBetween]_mutexVars

\* In threadMutex2.c production and consumption go on for ever: every value is
\* read again and again.
GoesOn == two => \A v \in Value : []<>(taken = v)
=============================================================================
