-------------------------- MODULE BitmapStoreProofs --------------------------
(***************************************************************************)
(* The superblock of BitmapStore always satisfies check_fs: for any number *)
(* of processes and blocks, with calls that overlap and processes that are *)
(* killed at any point.  A process that read a sound superblock computes a *)
(* sound one, and each write replaces the superblock as a whole: whatever  *)
(* the order of the writes, what is on disk is what some process computed. *)
(*                                                                         *)
(* While calls do not overlap more holds: no block is handed out twice, a  *)
(* killed process spoils one block at most, and check_fs complains only    *)
(* for a cause.  These rest on SerialInv, the second part of the module.   *)
(***************************************************************************)
EXTENDS BitmapStore, FiniteSetTheorems, TLAPS

\* A process about to write carries a sound superblock and a block of the
\* bitmap; one in init_File_dd carries a number of blocks.
LocalOK(l) == /\ l.pc = "super" => CountsMatch(l.sb)
              /\ l.pc \in {"super", "fill"} => l.bno \in Data
              /\ l.pc \in {"trunc", "grow", "finish"} => l.arg \in Nat
IInv == TypeOK /\ SuperSound /\ \A p \in Procs : LocalOK(pr[p])

-----------------------------------------------------------------------------
LEMMA NumbersFinite == \A n \in Nat : IsFiniteSet(Numbers(n))
BY FS_Interval DEF Numbers

\* Marking a free block used keeps bitmap and counts in step.
LEMMA TakenSound ==
  ASSUME NEW s \in Super, CountsMatch(s), NEW b \in Free(s), b \in Data
  PROVE  Taken(s, b) \in Super /\ CountsMatch(Taken(s, b))
<1> DEFINE U == s.ub \cap Numbers(s.n)
<1>1. s.n \in Nat /\ s.ub \subseteq Data /\ s.ubn \in Int /\ s.fbn \in Int
  BY DEF Super
<1>2. IsFiniteSet(U)
  BY <1>1, NumbersFinite, FS_Intersection
<1>3. b \notin U /\ b \in Numbers(s.n)
  BY DEF Free
<1>4. IsFiniteSet(U \cup {b}) /\ Cardinality(U \cup {b}) = Cardinality(U) + 1
  BY <1>2, <1>3, FS_AddElement
<1>5. (s.ub \cup {b}) \cap Numbers(s.n) = U \cup {b}
  BY <1>3
<1> DEFINE t == Taken(s, b)
<1>6. /\ t \in Super /\ t.n = s.n /\ t.ub = s.ub \cup {b}
      /\ t.ubn = s.ubn + 1 /\ t.fbn = s.fbn - 1
  <2> DEFINE ub == s.ub \cup {b}
             u == s.ubn + 1
             f == s.fbn - 1
  <2>1. ub \in SUBSET Data /\ u \in Int /\ f \in Int
    BY <1>1
  <2>2. t = [s EXCEPT !.ub = ub, !.ubn = u, !.fbn = f]
    BY DEF Taken
  <2> HIDE DEF ub, u, f, t
  <2>3. t \in Super /\ t.n = s.n /\ t.ub = ub /\ t.ubn = u /\ t.fbn = f
    BY <2>1, <2>2 DEF Super
  <2> QED
    BY <2>3 DEF ub, u, f
<1>7. Cardinality(U) = s.ubn /\ s.ubn + s.fbn = s.n
  BY DEF CountsMatch
<1>8. Cardinality(t.ub \cap Numbers(t.n)) = t.ubn
  BY <1>4, <1>5, <1>6, <1>7
<1> HIDE DEF U, t
<1>9. CountsMatch(t)
  BY <1>1, <1>6, <1>7, <1>8 DEF CountsMatch
<1> QED
  BY <1>6, <1>9 DEF t

\* So does clearing the bit of a used block.
LEMMA ReleasedSound ==
  ASSUME NEW s \in Super, CountsMatch(s), NEW b \in Numbers(s.n), b \in s.ub
  PROVE  Released(s, b) \in Super /\ CountsMatch(Released(s, b))
<1> DEFINE U == s.ub \cap Numbers(s.n)
<1>1. s.n \in Nat /\ s.ub \subseteq Data /\ s.ubn \in Int /\ s.fbn \in Int
  BY DEF Super
<1>2. IsFiniteSet(U) /\ b \in U
  BY <1>1, NumbersFinite, FS_Intersection
<1>3. IsFiniteSet(U \ {b}) /\ Cardinality(U \ {b}) = Cardinality(U) - 1
  BY <1>2, FS_RemoveElement
<1>4. (s.ub \ {b}) \cap Numbers(s.n) = U \ {b}
  OBVIOUS
<1> DEFINE t == Released(s, b)
<1>5. /\ t \in Super /\ t.n = s.n /\ t.ub = s.ub \ {b}
      /\ t.ubn = s.ubn - 1 /\ t.fbn = s.fbn + 1
  <2> DEFINE ub == s.ub \ {b}
             u == s.ubn - 1
             f == s.fbn + 1
  <2>1. ub \in SUBSET Data /\ u \in Int /\ f \in Int
    BY <1>1
  <2>2. t = [s EXCEPT !.ub = ub, !.ubn = u, !.fbn = f]
    BY DEF Released
  <2> HIDE DEF ub, u, f, t
  <2>3. t \in Super /\ t.n = s.n /\ t.ub = ub /\ t.ubn = u /\ t.fbn = f
    BY <2>1, <2>2 DEF Super
  <2> QED
    BY <2>3 DEF ub, u, f
<1>6. Cardinality(U) = s.ubn /\ s.ubn + s.fbn = s.n
  BY DEF CountsMatch
<1>7. Cardinality(t.ub \cap Numbers(t.n)) = t.ubn
  BY <1>3, <1>4, <1>5, <1>6
<1> HIDE DEF U, t
<1>8. CountsMatch(t)
  BY <1>1, <1>5, <1>6, <1>7 DEF CountsMatch
<1> QED
  BY <1>5, <1>8 DEF t

\* An empty bitmap goes with no used block.
LEMMA FreshSound ==
  ASSUME NEW n \in Nat
  PROVE  Fresh(n) \in Super /\ CountsMatch(Fresh(n))
<1>1. {} \cap Numbers(n) = {} /\ Cardinality({}) = 0
  BY FS_EmptySet
<1>2. Fresh(n) \in Super
  BY DEF Fresh, Super
<1>3. CountsMatch(Fresh(n))
  BY <1>1 DEF Fresh, CountsMatch
<1> QED
  BY <1>2, <1>3

LEMMA NoSuperSound == NoSuper \in Super /\ CountsMatch(NoSuper)
<1>1. NoSuper = Fresh(0)
  BY DEF NoSuper, Fresh
<1> QED
  BY <1>1, FreshSound

LEMMA IdleOK == Idle \in Local /\ LocalOK(Idle)
<1>1. Idle \in Local
  BY NoSuperSound DEF Idle, Local, Calls
<1>2. LocalOK(Idle)
  BY DEF Idle, LocalOK
<1> QED
  BY <1>1, <1>2

-----------------------------------------------------------------------------
LEMMA InitInv == Init => IInv
<1> SUFFICES ASSUME Init PROVE IInv
  OBVIOUS
<1>1. sb \in Super /\ SuperSound
  BY NoSuperSound DEF Init, SuperSound
<1>2. pr \in [Procs -> Local] /\ \A p \in Procs : LocalOK(pr[p])
  BY IdleOK DEF Init
<1>3. calls \in 0 .. MaxCalls /\ crashes \in 0 .. MaxCrashes
  BY BoundsAssumption DEF Init
<1>4. /\ strict \in BOOLEAN /\ readable \in BOOLEAN /\ raced \in BOOLEAN
      /\ held \subseteq Data
      /\ block \in [Data -> {"absent", "zero", "ones", "mixed"}]
  BY DEF Init
<1> QED
  BY <1>1, <1>2, <1>3, <1>4 DEF IInv, TypeOK

\* What p's next locals have to satisfy for the invariant to survive.
LEMMA NowInv ==
  ASSUME IInv, NEW p \in Procs, NEW l \in Local, LocalOK(l), Now(p, l)
  PROVE  pr' \in [Procs -> Local] /\ (\A q \in Procs : LocalOK(pr[q]))'
BY DEF Now, IInv, TypeOK

LEMMA ReturnInv ==
  ASSUME IInv, NEW p \in Procs, NEW r \in Int, Return(p, r)
  PROVE  pr' \in [Procs -> Local] /\ (\A q \in Procs : LocalOK(pr[q]))'
<1> DEFINE l == [pr[p] EXCEPT !.pc = "idle", !.ret = r]
<1>1. pr[p] \in Local
  BY DEF IInv, TypeOK
<1>2. l \in Local
  BY <1>1 DEF Local
<1>3. LocalOK(l)
  BY <1>1 DEF LocalOK, Local
<1>4. Now(p, l)
  BY DEF Return
<1> HIDE DEF l
<1> QED
  BY <1>2, <1>3, <1>4, NowInv

LEMMA CallInv ==
  ASSUME IInv, NEW p \in Procs, NEW c \in Calls, NEW a \in Args(c), Call(p, c, a)
  PROVE  IInv'
<1> DEFINE pc == IF c = "init_File_dd" THEN "trunc" ELSE "read"
           l == [Idle EXCEPT !.pc = pc, !.call = c, !.arg = a]
<1>1. a \in Int /\ (c = "init_File_dd" => a \in Nat)
  BY BoundsAssumption DEF Args, Calls
<1>2. pc \in {"trunc", "read"} /\ (pc = "trunc" => a \in Nat)
  BY <1>1
<1>3. Idle \in Local
  BY IdleOK
<1> HIDE DEF pc
<1>4. l \in Local
  BY <1>1, <1>2, <1>3 DEF Local
<1>5. LocalOK(l)
  BY <1>2, <1>3 DEF LocalOK, Local
<1>6. Now(p, l)
  BY DEF Call, pc
<1> HIDE DEF l
<1>7. pr' \in [Procs -> Local] /\ (\A q \in Procs : LocalOK(pr[q]))'
  BY <1>4, <1>5, <1>6, NowInv
<1>8. calls' \in 0 .. MaxCalls
  BY BoundsAssumption DEF Call, IInv, TypeOK
<1>9. raced' \in BOOLEAN
  BY DEF Call
<1> QED
  BY <1>7, <1>8, <1>9 DEF Call, IInv, TypeOK, SuperSound, disk

\* The steps that only read the file.
LEMMA ReadInv ==
  ASSUME IInv, NEW p \in Procs,
         \/ InitRefuse(p) \/ ReadFails(p) \/ GetRead(p)
         \/ FreeRead(p) \/ CheckRead(p) \/ CheckBlock(p)
  PROVE  IInv'
<1> SUFFICES pr' \in [Procs -> Local] /\ (\A q \in Procs : LocalOK(pr[q]))'
  BY DEF InitRefuse, ReadFails, GetRead, FreeRead, CheckRead, CheckBlock, IInv, TypeOK,
         SuperSound, disk, ghosts
<1>1. pr[p] \in Local /\ sb \in Super /\ CountsMatch(sb)
  BY DEF IInv, TypeOK, SuperSound
<1>2. ASSUME NEW r \in Int, Return(p, r)
      PROVE  pr' \in [Procs -> Local] /\ (\A q \in Procs : LocalOK(pr[q]))'
  BY <1>2, ReturnInv
<1>3. ASSUME NEW b \in Data, NEW t \in Super, CountsMatch(t),
             Now(p, [pr[p] EXCEPT !.pc = "super", !.bno = b, !.sb = t])
      PROVE  pr' \in [Procs -> Local] /\ (\A q \in Procs : LocalOK(pr[q]))'
  <2> DEFINE l == [pr[p] EXCEPT !.pc = "super", !.bno = b, !.sb = t]
  <2>1. b \in Nat
    BY BoundsAssumption DEF Data
  <2>2. l \in Local
    BY <1>1, <2>1 DEF Local
  <2>3. l.pc = "super" /\ l.sb = t /\ l.bno = b
    BY <1>1 DEF Local
  <2> HIDE DEF l
  <2>4. LocalOK(l)
    BY <1>3, <2>3 DEF LocalOK
  <2> QED
    BY <1>3, <2>2, <2>4, NowInv DEF l
<1>4. CASE InitRefuse(p)
  BY <1>2, <1>4 DEF InitRefuse
<1>5. CASE ReadFails(p)
  BY <1>2, <1>5 DEF ReadFails
<1>6. CASE GetRead(p)
  <2>1. CASE Return(p, -1)
    BY <1>2, <2>1
  <2>2. ASSUME NEW b \in Data, IsFirst(b, Free(sb)),
               Now(p, [pr[p] EXCEPT !.pc = "super", !.bno = b, !.sb = Taken(sb, b)])
        PROVE  pr' \in [Procs -> Local] /\ (\A q \in Procs : LocalOK(pr[q]))'
    <3>1. Taken(sb, b) \in Super /\ CountsMatch(Taken(sb, b))
      BY <1>1, <2>2, TakenSound DEF IsFirst
    <3> QED
      BY <1>3, <2>2, <3>1
  <2> QED
    BY <1>6, <2>1, <2>2 DEF GetRead
<1>7. CASE FreeRead(p)
  <2> DEFINE b == pr[p].arg
  <2>1. CASE Return(p, 0)
    BY <1>2, <2>1
  <2>2. CASE /\ b \in Numbers(sb.n) /\ b \in sb.ub
             /\ Now(p, [pr[p] EXCEPT !.pc = "super", !.bno = b, !.sb = Released(sb, b)])
    <3>1. b \in Data
      BY <1>1, <2>2 DEF Super
    <3>2. Released(sb, b) \in Super /\ CountsMatch(Released(sb, b))
      BY <1>1, <2>2, ReleasedSound
    <3> QED
      BY <1>3, <2>2, <3>1, <3>2
  <2> QED
    BY <1>7, <2>1, <2>2 DEF FreeRead
<1>8. CASE CheckRead(p)
  <2> DEFINE L(b, s) == [pr[p] EXCEPT !.pc = "check", !.bno = b, !.sb = s]
  <2>1. CASE Return(p, 0) \/ Return(p, 1)
    BY <1>2, <2>1
  <2>2. ASSUME NEW b \in Nat, NEW s \in Super
        PROVE  L(b, s) \in Local /\ L(b, s).pc = "check"
    <3>1. L(b, s) \in Local
      BY <1>1 DEF Local
    <3>2. L(b, s).pc = "check"
      BY <1>1 DEF Local
    <3> QED
      BY <3>1, <3>2
  <2>3. CASE Now(p, L(0, sb))
    <3> HIDE DEF L
    <3>1. L(0, sb) \in Local /\ L(0, sb).pc = "check"
      BY <1>1, <2>2
    <3>2. LocalOK(L(0, sb))
      BY <3>1 DEF LocalOK
    <3> QED
      BY <2>3, <3>1, <3>2, NowInv
  <2> QED
    BY <1>8, <2>1, <2>3 DEF CheckRead
<1>9. CASE CheckBlock(p)
  <2> DEFINE b == pr[p].bno + 1
             l == [pr[p] EXCEPT !.bno = b]
  <2>1. CASE Return(p, 0) \/ Return(p, 1)
    BY <1>2, <2>1
  <2>2. CASE Now(p, l)
    <3>1. b \in Nat /\ pr[p].pc = "check"
      BY <1>1, <1>9 DEF Local, CheckBlock, At
    <3> HIDE DEF b
    <3>2. l \in Local
      BY <1>1, <3>1 DEF Local
    <3>3. LocalOK(l)
      BY <1>1, <3>1 DEF LocalOK, Local
    <3> HIDE DEF l
    <3> QED
      BY <2>2, <3>2, <3>3, NowInv
  <2> QED
    BY <1>9, <2>1, <2>2 DEF CheckBlock
<1> QED
  BY <1>4, <1>5, <1>6, <1>7, <1>8, <1>9

LEMMA InitTruncInv ==
  ASSUME IInv, NEW p \in Procs, InitTrunc(p)
  PROVE  IInv'
<1> DEFINE l == [pr[p] EXCEPT !.pc = "grow"]
<1>1. pr[p] \in Local /\ LocalOK(pr[p]) /\ pr[p].pc = "trunc"
  BY DEF IInv, TypeOK, InitTrunc, At
<1>2. l \in Local
  BY <1>1 DEF Local
<1>3. LocalOK(l)
  BY <1>1 DEF LocalOK, Local
<1>4. Now(p, l)
  BY DEF InitTrunc
<1> HIDE DEF l
<1>5. pr' \in [Procs -> Local] /\ (\A q \in Procs : LocalOK(pr[q]))'
  BY <1>2, <1>3, <1>4, NowInv
<1>6. sb' \in Super /\ SuperSound'
  BY NoSuperSound DEF InitTrunc, SuperSound
<1>7. /\ readable' \in BOOLEAN /\ held' \subseteq Data
      /\ block' \in [Data -> {"absent", "zero", "ones", "mixed"}]
  BY DEF InitTrunc
<1> QED
  BY <1>5, <1>6, <1>7 DEF InitTrunc, IInv, TypeOK, ghosts

LEMMA InitWriteInv ==
  ASSUME IInv, NEW p \in Procs, InitGrow(p) \/ InitFinish(p)
  PROVE  IInv'
<1> DEFINE l == [pr[p] EXCEPT !.pc = "finish"]
<1>1. pr[p] \in Local /\ LocalOK(pr[p]) /\ pr[p].arg \in Nat
  BY DEF IInv, TypeOK, InitGrow, InitFinish, At, LocalOK
<1>2. ASSUME Now(p, l)
      PROVE  pr' \in [Procs -> Local] /\ (\A q \in Procs : LocalOK(pr[q]))'
  <2>1. l \in Local
    BY <1>1 DEF Local
  <2>2. LocalOK(l)
    BY <1>1 DEF LocalOK, Local
  <2> HIDE DEF l
  <2> QED
    BY <1>2, <2>1, <2>2, NowInv
<1>3. pr' \in [Procs -> Local] /\ (\A q \in Procs : LocalOK(pr[q]))'
  <2>1. CASE InitGrow(p)
    BY <1>2, <2>1 DEF InitGrow
  <2>2. CASE InitFinish(p)
    BY <2>2, ReturnInv DEF InitFinish
  <2> QED
    BY <2>1, <2>2
<1>4. sb' \in Super /\ SuperSound'
  BY <1>1, FreshSound DEF InitGrow, InitFinish, IInv, TypeOK, SuperSound
<1>5. Zeroed(pr[p].arg) \in [Data -> {"absent", "zero", "ones", "mixed"}]
  BY DEF Zeroed, IInv, TypeOK
<1>6. Grown(pr[p].arg) \in [Data -> {"absent", "zero", "ones", "mixed"}]
  BY DEF Grown, IInv, TypeOK
<1>7. block' \in [Data -> {"absent", "zero", "ones", "mixed"}]
  BY <1>5, <1>6 DEF InitGrow, InitFinish, IInv, TypeOK
<1>8. readable' \in BOOLEAN
  BY DEF InitGrow, InitFinish, IInv, TypeOK
<1> QED
  BY <1>3, <1>4, <1>7, <1>8 DEF InitGrow, InitFinish, IInv, TypeOK, ghosts

LEMMA WriteSuperInv ==
  ASSUME IInv, NEW p \in Procs, WriteSuper(p)
  PROVE  IInv'
<1> DEFINE l == [pr[p] EXCEPT !.pc = "fill"]
<1>1. pr[p] \in Local /\ LocalOK(pr[p]) /\ pr[p].pc = "super"
  BY DEF IInv, TypeOK, WriteSuper, At
<1>2. l \in Local
  BY <1>1 DEF Local
<1>3. LocalOK(l)
  BY <1>1 DEF LocalOK, Local
<1>4. Now(p, l)
  BY DEF WriteSuper
<1> HIDE DEF l
<1>5. pr' \in [Procs -> Local] /\ (\A q \in Procs : LocalOK(pr[q]))'
  BY <1>2, <1>3, <1>4, NowInv
<1>6. sb' \in Super /\ SuperSound'
  BY <1>1 DEF WriteSuper, SuperSound, LocalOK, Local
<1>7. readable' \in BOOLEAN
  BY DEF WriteSuper
<1> QED
  BY <1>5, <1>6, <1>7 DEF WriteSuper, IInv, TypeOK, ghosts

LEMMA FillInv ==
  ASSUME IInv, NEW p \in Procs, GetFill(p) \/ FreeFill(p)
  PROVE  IInv'
<1>1. pr[p] \in Local /\ pr[p].bno \in Data
  BY DEF IInv, TypeOK, GetFill, FreeFill, At, LocalOK
<1>2. pr[p].bno \in Int
  BY <1>1 DEF Local
<1>3. pr' \in [Procs -> Local] /\ (\A q \in Procs : LocalOK(pr[q]))'
  BY <1>2, ReturnInv DEF GetFill, FreeFill
<1>4. block' \in [Data -> {"absent", "zero", "ones", "mixed"}]
  BY DEF GetFill, FreeFill, Put, IInv, TypeOK
<1>5. held' \subseteq Data
  BY <1>1 DEF GetFill, FreeFill, IInv, TypeOK
<1>6. sb' \in Super /\ SuperSound' /\ readable' \in BOOLEAN /\ UNCHANGED <<strict, ghosts>>
  BY DEF GetFill, FreeFill, IInv, TypeOK, SuperSound
<1> QED
  BY <1>3, <1>4, <1>5, <1>6 DEF IInv, TypeOK, ghosts

LEMMA CrashInv ==
  ASSUME IInv, NEW p \in Procs, Crash(p)
  PROVE  IInv'
<1>1. pr' \in [Procs -> Local] /\ (\A q \in Procs : LocalOK(pr[q]))'
  BY IdleOK, NowInv DEF Crash
<1>2. crashes' \in 0 .. MaxCrashes
  BY BoundsAssumption DEF Crash, IInv, TypeOK
<1>3. held' \subseteq Data
  BY DEF Crash, IInv, TypeOK
<1> QED
  BY <1>1, <1>2, <1>3 DEF Crash, IInv, TypeOK, SuperSound, disk

-----------------------------------------------------------------------------
LEMMA NextInv == IInv /\ [Next]_vars => IInv'
<1> SUFFICES ASSUME IInv, [Next]_vars PROVE IInv'
  OBVIOUS
<1>1. CASE UNCHANGED vars
  BY <1>1 DEF vars, IInv, TypeOK, SuperSound
<1>2. ASSUME NEW p \in Procs, Step(p)
      PROVE  IInv'
  BY <1>2, ReadInv, InitTruncInv, InitWriteInv, WriteSuperInv, FillInv DEF Step
<1>3. ASSUME NEW p \in Procs, NEW c \in Calls, NEW a \in Args(c), Call(p, c, a)
      PROVE  IInv'
  BY <1>3, CallInv
<1>4. ASSUME NEW p \in Procs, Crash(p)
      PROVE  IInv'
  BY <1>4, CrashInv
<1> QED
  BY <1>1, <1>2, <1>3, <1>4 DEF Next

\* Every variable of the bitmap store keeps its type.
THEOREM TypeCorrect == Spec => []TypeOK
<1>1. IInv => TypeOK
  BY DEF IInv
<1> QED
  BY <1>1, InitInv, NextInv, PTL DEF Spec

\* check_fs of solution.c holds of the superblock at every moment, however many
\* processes use the file, overlap and are killed.
THEOREM SuperAlwaysSound == Spec => []SuperSound
<1>1. IInv => SuperSound
  BY DEF IInv
<1> QED
  BY <1>1, InitInv, NextInv, PTL DEF Spec

-----------------------------------------------------------------------------
(* Calls that do not overlap.  While raced is false at most one process is *)
(* busy, and what it holds in its locals fits the file: the superblock it  *)
(* is about to write is the one on disk with one bit changed, the blocks   *)
(* handed out are marked, but for the one a free_block has just cleared,   *)
(* and no more blocks hold what the bitmap does not say than processes     *)
(* were killed, not counting the block that is still to be written.        *)

Pending(l) == IF l.pc = "fill" THEN {l.bno} ELSE {}

\* The blocks of the file s, bl that hold what the bitmap does not say.  An
\* absent one counts as zeroes: that is what it becomes when the file grows.
Wrong(s, bl) == {b \in Numbers(s.n) : IF b \in s.ub THEN bl[b] # "ones"
                                      ELSE bl[b] \in {"ones", "mixed"}}

InitOK(l, s, bl, h) ==
  /\ l.pc \in {"grow", "finish"} => l.arg <= Cap /\ h = {}
  /\ l.pc = "grow" => s = NoSuper /\ \A b \in Data : bl[b] = "absent"
  /\ l.pc = "finish" => IF strict THEN s = Fresh(l.arg) /\ \A b \in Data : bl[b] = "absent"
                        ELSE s = NoSuper /\ \A b \in Data : bl[b] \in {"absent", "zero"}

WriteOK(l, s, h) ==
  /\ l.pc \in {"super", "fill"} =>
       l.bno \in Numbers(s.n) /\ l.call \in {"get_freeblock", "free_block"}
  /\ l.pc = "super" => IF l.call = "get_freeblock"
                       THEN l.bno \notin s.ub /\ l.sb = Taken(s, l.bno)
                       ELSE l.bno \in s.ub /\ l.sb = Released(s, l.bno)
  /\ l.pc = "fill" => IF l.call = "get_freeblock" THEN l.bno \in s.ub \ h
                      ELSE l.bno \notin s.ub

CheckOK(l, s) ==
  l.pc = "check" => l.call = "check_fs" /\ l.sb = s /\ l.bno \in Numbers(s.n)

\* The locals l of the only busy process, or of an idle one, fit the superblock
\* s, the blocks bl, the held blocks h and the number c of processes killed.
Serial(l, s, bl, h, c) ==
  /\ s.n <= Cap
  /\ InitOK(l, s, bl, h) /\ WriteOK(l, s, h) /\ CheckOK(l, s)
  /\ h \subseteq s.ub \cup Pending(l)
  /\ Cardinality(Wrong(s, bl) \ Pending(l)) <= c
  /\ (strict /\ c = 0 /\ l.pc # "finish") => \A b \in Numbers(s.n) : bl[b] # "absent"

OthersIdle(p) == \A q \in Procs \ {p} : ~Busy(q)

SerialInv == ~raced =>
  /\ \A p \in Procs : Busy(p) => OthersIdle(p) /\ Serial(pr[p], sb, block, held, crashes)
  /\ (\A p \in Procs : ~Busy(p)) => Serial(Idle, sb, block, held, crashes)

\* A call in progress has returned nothing yet; only the variant reads blocks.
ReturnOK(l) == /\ l.pc # "idle" => l.ret = 0
               /\ l.pc = "check" => strict
Returning == \A p \in Procs : ReturnOK(pr[p])

LEMMA SerialInit == Init => SerialInv
<1> SUFFICES ASSUME Init PROVE SerialInv
  OBVIOUS
<1>1. \A p \in Procs : ~Busy(p)
  BY DEF Init, Busy, At, Idle
<1>2. Numbers(NoSuper.n) = {}
  BY DEF Numbers, NoSuper
<1>3. Wrong(sb, block) = {} /\ Cardinality({}) = 0
  BY <1>2, FS_EmptySet DEF Wrong, Init
<1>4. Pending(Idle) = {}
  BY DEF Pending, Idle
<1>5. Cardinality(Wrong(sb, block) \ Pending(Idle)) <= crashes
  BY <1>3, <1>4 DEF Init
<1>6. InitOK(Idle, sb, block, held) /\ WriteOK(Idle, sb, held) /\ CheckOK(Idle, sb)
  BY DEF InitOK, WriteOK, CheckOK, Idle
<1>7. Serial(Idle, sb, block, held, crashes)
  BY <1>2, <1>5, <1>6, BoundsAssumption DEF Serial, Init, NoSuper
<1> QED
  BY <1>1, <1>7 DEF SerialInv

\* At an idle process, and at one that has only begun its call, the locals
\* constrain nothing but the file.
LEMMA SerialQuiet ==
  ASSUME NEW k, NEW l, NEW s, NEW bl, NEW h, NEW c, Serial(k, s, bl, h, c),
         k.pc \notin {"finish", "fill"}, l.pc \in {"idle", "trunc", "read"}
  PROVE  Serial(l, s, bl, h, c)
<1>1. Pending(k) = {} /\ Pending(l) = {}
  BY DEF Pending
<1>2. InitOK(l, s, bl, h) /\ WriteOK(l, s, h) /\ CheckOK(l, s)
  BY DEF InitOK, WriteOK, CheckOK
<1> QED
  BY <1>1, <1>2 DEF Serial

\* A process that is busy while no calls overlapped is the only one.
LEMMA Settle ==
  ASSUME IInv, NEW p \in Procs, OthersIdle(p), NEW l, Now(p, l), strict' = strict,
         Serial(l, sb', block', held', crashes')
  PROVE  SerialInv'
<1>1. pr' = [pr EXCEPT ![p] = l] /\ pr \in [Procs -> Local]
  BY DEF Now, IInv, TypeOK
<1>2. pr'[p] = l /\ \A q \in Procs \ {p} : pr'[q] = pr[q]
  BY <1>1
<1>3. \A q \in Procs \ {p} : ~Busy(q)'
  BY <1>2 DEF OthersIdle, Busy, At
<1>4. Serial(l, sb, block, held, crashes)' <=> Serial(l, sb', block', held', crashes')
  BY DEF Serial, InitOK, WriteOK, CheckOK, Fresh
<1>5. ASSUME l.pc = "idle" PROVE Serial(Idle, sb', block', held', crashes')
  BY <1>5, SerialQuiet DEF Idle
<1>6. Serial(Idle, sb, block, held, crashes)' <=> Serial(Idle, sb', block', held', crashes')
  BY DEF Serial, InitOK, WriteOK, CheckOK, Fresh
<1>7. Serial(pr[p], sb, block, held, crashes)'
  BY <1>2 DEF Serial, InitOK, WriteOK, CheckOK, Fresh
<1>8. OthersIdle(p)'
  BY <1>3 DEF OthersIdle
<1>9. (\A q \in Procs : ~Busy(q)') => l.pc = "idle"
  BY <1>2 DEF Busy, At
<1>10. \A q \in Procs : Busy(q)' => q = p
  BY <1>3
<1> QED
  BY <1>5, <1>6, <1>7, <1>8, <1>9, <1>10 DEF SerialInv

\* Steps that end the call, or do not get as far as the superblock, and leave
\* the file alone.
LEMMA SerialReturn ==
  ASSUME IInv, SerialInv, ~raced, NEW p \in Procs, Busy(p), NEW r, Return(p, r),
         ~At(p, "finish"), ~At(p, "fill"), UNCHANGED <<strict, disk, crashes, held>>
  PROVE  SerialInv'
<1> DEFINE l == [pr[p] EXCEPT !.pc = "idle", !.ret = r]
<1>1. OthersIdle(p) /\ Serial(pr[p], sb, block, held, crashes)
  BY DEF SerialInv
<1>2. pr[p] \in Local
  BY DEF IInv, TypeOK
<1>3. l.pc = "idle"
  BY <1>2 DEF Local
<1>4. Now(p, l)
  BY DEF Return
<1> HIDE DEF l
<1>5. Serial(l, sb, block, held, crashes)
  BY <1>1, <1>3, SerialQuiet DEF At
<1>6. Serial(l, sb', block', held', crashes')
  BY <1>5 DEF disk
<1> QED
  BY <1>1, <1>4, <1>6, Settle

LEMMA SerialCall ==
  ASSUME IInv, SerialInv, ~raced', NEW p \in Procs, NEW c \in Calls, NEW a, Call(p, c, a)
  PROVE  SerialInv'
<1> DEFINE pc == IF c = "init_File_dd" THEN "trunc" ELSE "read"
           l == [Idle EXCEPT !.pc = pc, !.call = c, !.arg = a]
<1>1. ~raced /\ (\A q \in Procs : ~Busy(q)) /\ OthersIdle(p)
  BY DEF Call, OthersIdle, Busy
<1>2. Serial(Idle, sb, block, held, crashes)
  BY <1>1 DEF SerialInv
<1>3. pc \in {"trunc", "read"}
  OBVIOUS
<1> HIDE DEF pc
<1>4. l.pc \in {"trunc", "read"} /\ Idle.pc = "idle"
  BY <1>3 DEF Idle
<1>5. Now(p, l)
  BY DEF Call, pc
<1> HIDE DEF l
<1>6. Serial(l, sb, block, held, crashes)
  BY <1>2, <1>4, SerialQuiet
<1>7. Serial(l, sb', block', held', crashes')
  BY <1>6 DEF Call, disk
<1> QED
  BY <1>1, <1>5, <1>7, Settle DEF Call

\* The file cut to nothing, and an empty superblock, are without wrong blocks.
LEMMA WrongEmpty ==
  ASSUME NEW s, NEW bl, NEW l, NEW c \in Nat,
         \A b \in Numbers(s.n) : b \notin s.ub /\ bl[b] \in {"absent", "zero"}
  PROVE  Cardinality(Wrong(s, bl) \ Pending(l)) <= c
<1>1. Wrong(s, bl) \ Pending(l) = {}
  BY DEF Wrong
<1> QED
  BY <1>1, FS_EmptySet

LEMMA SerialTrunc ==
  ASSUME IInv, SerialInv, ~raced, NEW p \in Procs, InitTrunc(p)
  PROVE  SerialInv'
<1> DEFINE l == [pr[p] EXCEPT !.pc = "grow"]
<1>1. OthersIdle(p)
  BY DEF SerialInv, InitTrunc, Busy, At
<1>2. pr[p] \in Local /\ crashes' \in Nat /\ pr[p].arg <= Cap
  BY BoundsAssumption DEF IInv, TypeOK, InitTrunc, ghosts
<1>3. l.pc = "grow" /\ l.arg = pr[p].arg
  BY <1>2 DEF Local
<1>4. Now(p, l)
  BY DEF InitTrunc
<1> HIDE DEF l
<1>5. Numbers(NoSuper.n) = {} /\ 0 <= Cap /\ NoSuper.n = 0
  BY BoundsAssumption DEF Numbers, NoSuper
<1>6. sb' = NoSuper /\ held' = {} /\ \A b \in Data : block'[b] = "absent"
  BY DEF InitTrunc
<1>7. Cardinality(Wrong(sb', block') \ Pending(l)) <= crashes'
  BY <1>2, <1>5, <1>6, WrongEmpty
<1>8. InitOK(l, sb', block', held') /\ WriteOK(l, sb', held') /\ CheckOK(l, sb')
  BY <1>2, <1>3, <1>6 DEF InitOK, WriteOK, CheckOK
<1>9. Serial(l, sb', block', held', crashes')
  BY <1>5, <1>6, <1>7, <1>8 DEF Serial
<1> QED
  BY <1>1, <1>4, <1>9, Settle DEF InitTrunc

LEMMA SerialGrow ==
  ASSUME IInv, SerialInv, ~raced, NEW p \in Procs, InitGrow(p)
  PROVE  SerialInv'
<1> DEFINE l == [pr[p] EXCEPT !.pc = "finish"]
           n == pr[p].arg
<1>1. OthersIdle(p) /\ Serial(pr[p], sb, block, held, crashes) /\ pr[p].pc = "grow"
  BY DEF SerialInv, InitGrow, Busy, At
<1>2. pr[p] \in Local /\ crashes' \in Nat /\ n \in Nat
  BY BoundsAssumption DEF IInv, TypeOK, InitGrow, ghosts, LocalOK, At
<1>3. l.pc = "finish" /\ l.arg = n
  BY <1>2 DEF Local
<1>4. Now(p, l)
  BY DEF InitGrow
<1> HIDE DEF l
<1>5. n <= Cap /\ held = {} /\ sb = NoSuper /\ \A b \in Data : block[b] = "absent"
  BY <1>1 DEF Serial, InitOK
<1>6. held' = {} /\ strict' = strict
  BY <1>5 DEF InitGrow
<1>7. CASE strict
  <2>1. sb' = Fresh(n) /\ \A b \in Data : block'[b] = "absent"
    BY <1>5, <1>7 DEF InitGrow
  <2>2. \A b \in Numbers(sb'.n) : b \notin sb'.ub /\ block'[b] \in {"absent", "zero"}
    BY <1>2, <1>5, <2>1, BoundsAssumption DEF Fresh, Numbers, Data
  <2>3. Cardinality(Wrong(sb', block') \ Pending(l)) <= crashes'
    BY <1>2, <2>2, WrongEmpty
  <2>4. InitOK(l, sb', block', held') /\ WriteOK(l, sb', held') /\ CheckOK(l, sb')
    BY <1>3, <1>5, <1>6, <1>7, <2>1 DEF InitOK, WriteOK, CheckOK
  <2>5. sb'.n <= Cap
    BY <1>5, <2>1 DEF Fresh
  <2>6. Serial(l, sb', block', held', crashes')
    BY <1>3, <1>6, <2>3, <2>4, <2>5 DEF Serial
  <2> QED
    BY <1>1, <1>4, <1>6, <2>6, Settle
<1>8. CASE ~strict
  <2>1. sb' = NoSuper /\ \A b \in Data : block'[b] \in {"absent", "zero"}
    BY <1>5, <1>8 DEF InitGrow, Grown
  <2>2. Numbers(NoSuper.n) = {} /\ 0 <= Cap /\ NoSuper.n = 0
    BY BoundsAssumption DEF Numbers, NoSuper
  <2>3. Cardinality(Wrong(sb', block') \ Pending(l)) <= crashes'
    BY <1>2, <2>1, <2>2, WrongEmpty
  <2>4. InitOK(l, sb', block', held') /\ WriteOK(l, sb', held') /\ CheckOK(l, sb')
    BY <1>3, <1>5, <1>6, <1>8, <2>1 DEF InitOK, WriteOK, CheckOK
  <2>5. Serial(l, sb', block', held', crashes')
    BY <1>6, <2>1, <2>2, <2>3, <2>4 DEF Serial
  <2> QED
    BY <1>1, <1>4, <1>6, <2>5, Settle
<1> QED
  BY <1>7, <1>8

LEMMA SerialFinish ==
  ASSUME IInv, SerialInv, ~raced, NEW p \in Procs, InitFinish(p)
  PROVE  SerialInv'
<1> DEFINE l == [pr[p] EXCEPT !.pc = "idle", !.ret = 0]
           n == pr[p].arg
<1>1. OthersIdle(p) /\ Serial(pr[p], sb, block, held, crashes) /\ pr[p].pc = "finish"
  BY DEF SerialInv, InitFinish, Busy, At
<1>2. pr[p] \in Local /\ crashes' \in Nat /\ n \in Nat
  BY BoundsAssumption DEF IInv, TypeOK, InitFinish, ghosts, LocalOK, At
<1>3. l.pc = "idle"
  BY <1>2 DEF Local
<1>4. Now(p, l)
  BY DEF InitFinish, Return
<1> HIDE DEF l
<1>5. n <= Cap /\ held' = {} /\ strict' = strict
  BY <1>1 DEF Serial, InitOK, InitFinish
<1>6. sb' = Fresh(n)
  BY <1>1 DEF Serial, InitOK, InitFinish
<1>7. \A b \in Numbers(n) : b \in Data
  BY <1>2, <1>5, BoundsAssumption DEF Numbers, Data
<1>8. \A b \in Numbers(n) : block'[b] \in {"absent", "zero"} /\ (strict => block'[b] = "zero")
  <2>1. CASE strict
    BY <1>2, <1>7, <2>1 DEF InitFinish, Zeroed, Numbers
  <2>2. CASE ~strict
    BY <1>1, <1>7, <2>2 DEF InitFinish, Serial, InitOK
  <2> QED
    BY <2>1, <2>2
<1>9. sb'.n = n /\ sb'.ub = {}
  BY <1>6 DEF Fresh
<1>10. Cardinality(Wrong(sb', block') \ Pending(l)) <= crashes'
  BY <1>2, <1>8, <1>9, WrongEmpty
<1>11. InitOK(l, sb', block', held') /\ WriteOK(l, sb', held') /\ CheckOK(l, sb')
  BY <1>3 DEF InitOK, WriteOK, CheckOK
<1>12. Serial(l, sb', block', held', crashes')
  BY <1>5, <1>8, <1>9, <1>10, <1>11 DEF Serial
<1> QED
  BY <1>1, <1>4, <1>5, <1>12, Settle

\* The superblock that a get_freeblock or a free_block has computed.
LEMMA SerialComputed ==
  ASSUME IInv, SerialInv, ~raced, NEW p \in Procs, At(p, "read"),
         NEW b \in Numbers(sb.n), NEW t,
         \/ pr[p].call = "get_freeblock" /\ b \notin sb.ub /\ t = Taken(sb, b)
         \/ pr[p].call = "free_block" /\ b \in sb.ub /\ t = Released(sb, b),
         Now(p, [pr[p] EXCEPT !.pc = "super", !.bno = b, !.sb = t]),
         UNCHANGED <<strict, disk, crashes, held>>
  PROVE  SerialInv'
<1> DEFINE l == [pr[p] EXCEPT !.pc = "super", !.bno = b, !.sb = t]
<1>1. OthersIdle(p) /\ Serial(pr[p], sb, block, held, crashes) /\ pr[p].pc = "read"
  BY DEF SerialInv, Busy, At
<1>2. pr[p] \in Local
  BY DEF IInv, TypeOK
<1>3. l.pc = "super" /\ l.bno = b /\ l.sb = t /\ l.call = pr[p].call
  BY <1>2 DEF Local
<1>4. Now(p, l)
  OBVIOUS
<1> HIDE DEF l
<1>5. InitOK(l, sb, block, held) /\ WriteOK(l, sb, held) /\ CheckOK(l, sb)
  BY <1>3 DEF InitOK, WriteOK, CheckOK
<1>6. Pending(l) = {} /\ Pending(pr[p]) = {}
  BY <1>1, <1>3 DEF Pending
<1>7. Serial(l, sb, block, held, crashes)
  BY <1>1, <1>3, <1>5, <1>6 DEF Serial
<1>8. Serial(l, sb', block', held', crashes')
  BY <1>7 DEF disk
<1> QED
  BY <1>1, <1>4, <1>8, Settle

LEMMA SerialRead ==
  ASSUME IInv, SerialInv, ~raced, NEW p \in Procs, GetRead(p) \/ FreeRead(p)
  PROVE  SerialInv'
<1>1. CASE GetRead(p)
  <2>1. CASE Return(p, -1)
    BY <1>1, <2>1, SerialReturn DEF GetRead, At, Busy, ghosts
  <2>2. CASE ~Return(p, -1)
    <3>1. PICK b \in Data :
            /\ IsFirst(b, Free(sb))
            /\ Now(p, [pr[p] EXCEPT !.pc = "super", !.bno = b, !.sb = Taken(sb, b)])
      BY <1>1, <2>2 DEF GetRead
    <3>2. b \in Numbers(sb.n) /\ b \notin sb.ub
      BY <3>1 DEF IsFirst, Free
    <3> QED
      BY <1>1, <3>1, <3>2, SerialComputed DEF GetRead, ghosts
  <2> QED
    BY <2>1, <2>2
<1>2. CASE FreeRead(p)
  <2> DEFINE b == pr[p].arg
  <2>1. CASE Return(p, 0)
    BY <1>2, <2>1, SerialReturn DEF FreeRead, At, Busy, ghosts
  <2>2. CASE ~Return(p, 0)
    <3>1. /\ b \in Numbers(sb.n) /\ b \in sb.ub
          /\ Now(p, [pr[p] EXCEPT !.pc = "super", !.bno = b, !.sb = Released(sb, b)])
      BY <1>2, <2>2 DEF FreeRead
    <3> QED
      BY <1>2, <3>1, SerialComputed DEF FreeRead, ghosts
  <2> QED
    BY <2>1, <2>2
<1> QED
  BY <1>1, <1>2

\* check_fs looks at the blocks in order, below the number of blocks it read.
LEMMA SerialCheckStep ==
  ASSUME IInv, SerialInv, ~raced, NEW p \in Procs, NEW l, Now(p, l),
         pr[p].pc \in {"read", "check"}, UNCHANGED <<strict, disk, crashes, held>>,
         l.pc = "check", l.call = "check_fs", l.sb = sb, l.bno \in Numbers(sb.n)
  PROVE  SerialInv'
<1>1. OthersIdle(p) /\ Serial(pr[p], sb, block, held, crashes)
  BY DEF SerialInv, Busy, At
<1>2. InitOK(l, sb, block, held) /\ WriteOK(l, sb, held) /\ CheckOK(l, sb)
  BY DEF InitOK, WriteOK, CheckOK
<1>3. Pending(l) = {} /\ Pending(pr[p]) = {}
  BY DEF Pending
<1>4. Serial(l, sb, block, held, crashes)
  BY <1>1, <1>2, <1>3 DEF Serial
<1>5. Serial(l, sb', block', held', crashes')
  BY <1>4 DEF disk
<1> QED
  BY <1>1, <1>5, Settle

LEMMA SerialCheck ==
  ASSUME IInv, SerialInv, ~raced, NEW p \in Procs, CheckRead(p) \/ CheckBlock(p)
  PROVE  SerialInv'
<1>1. pr[p] \in Local /\ sb \in Super
  BY DEF IInv, TypeOK
<1>2. Serial(pr[p], sb, block, held, crashes)
  BY DEF SerialInv, CheckRead, CheckBlock, Busy, At
<1>3. UNCHANGED <<strict, disk, crashes, held>> /\ Busy(p)
      /\ ~At(p, "finish") /\ ~At(p, "fill")
  BY DEF CheckRead, CheckBlock, Busy, At, ghosts
<1>4. ASSUME NEW r, Return(p, r) PROVE SerialInv'
  BY <1>3, <1>4, SerialReturn
<1>5. CASE CheckRead(p)
  <2> DEFINE l == [pr[p] EXCEPT !.pc = "check", !.bno = 0, !.sb = sb]
  <2>1. CASE ~(Return(p, 0) \/ Return(p, 1))
    <3>1. Now(p, l) /\ sb.n # 0 /\ pr[p].call = "check_fs" /\ pr[p].pc = "read"
      BY <1>5, <2>1 DEF CheckRead, At
    <3>2. l.pc = "check" /\ l.call = "check_fs" /\ l.sb = sb /\ l.bno = 0
      BY <1>1, <3>1 DEF Local
    <3>3. 0 \in Numbers(sb.n)
      BY <1>1, <3>1 DEF Super, Numbers
    <3> HIDE DEF l
    <3> QED
      BY <1>3, <3>1, <3>2, <3>3, SerialCheckStep
  <2> QED
    BY <1>4, <2>1
<1>6. CASE CheckBlock(p)
  <2> DEFINE l == [pr[p] EXCEPT !.bno = pr[p].bno + 1]
  <2>1. CASE ~(Return(p, 0) \/ Return(p, 1))
    <3>1. pr[p].call = "check_fs" /\ pr[p].sb = sb /\ pr[p].bno \in Numbers(sb.n)
          /\ pr[p].pc = "check"
      BY <1>2, <1>6 DEF Serial, CheckOK, CheckBlock, At
    <3>2. Now(p, l) /\ pr[p].bno + 1 # sb.n
      BY <1>6, <2>1, <3>1 DEF CheckBlock
    <3>3. pr[p].bno + 1 \in Numbers(sb.n)
      BY <1>1, <3>1, <3>2 DEF Numbers, Super
    <3>4. l.pc = "check" /\ l.call = "check_fs" /\ l.sb = sb /\ l.bno = pr[p].bno + 1
      BY <1>1, <3>1 DEF Local
    <3> HIDE DEF l
    <3> QED
      BY <1>3, <3>1, <3>2, <3>3, <3>4, SerialCheckStep
  <2> QED
    BY <1>4, <2>1
<1> QED
  BY <1>5, <1>6

LEMMA WrongFinite ==
  ASSUME NEW s \in Super, NEW bl
  PROVE  IsFiniteSet(Wrong(s, bl)) /\ Cardinality(Wrong(s, bl)) \in Nat
<1>1. IsFiniteSet(Numbers(s.n))
  BY NumbersFinite DEF Super
<1>2. Wrong(s, bl) \subseteq Numbers(s.n)
  BY DEF Wrong
<1> QED
  BY <1>1, <1>2, FS_Subset, FS_CardinalityType

LEMMA BitChanged ==
  ASSUME NEW s \in Super, NEW b
  PROVE  /\ Taken(s, b).n = s.n /\ Taken(s, b).ub = s.ub \cup {b}
         /\ Released(s, b).n = s.n /\ Released(s, b).ub = s.ub \ {b}
BY DEF Taken, Released, Super

\* The superblock is written: the block it changed may be wrong until it is
\* written too, the others are as they were.
LEMMA SerialWrite ==
  ASSUME IInv, SerialInv, ~raced, NEW p \in Procs, WriteSuper(p)
  PROVE  SerialInv'
<1> DEFINE l == [pr[p] EXCEPT !.pc = "fill"]
           t == pr[p].sb
           b == pr[p].bno
           get == pr[p].call = "get_freeblock"
<1>1. OthersIdle(p) /\ Serial(pr[p], sb, block, held, crashes) /\ pr[p].pc = "super"
  BY DEF SerialInv, WriteSuper, Busy, At
<1>2. pr[p] \in Local /\ sb \in Super /\ crashes \in Nat
  BY BoundsAssumption DEF IInv, TypeOK
<1>3. l.pc = "fill" /\ l.bno = b /\ l.call = pr[p].call
  BY <1>2 DEF Local
<1>4. Now(p, l) /\ sb' = t /\ UNCHANGED <<strict, block, held, crashes>>
  BY DEF WriteSuper, ghosts
<1> HIDE DEF l
<1>5. /\ b \in Numbers(sb.n) /\ pr[p].call \in {"get_freeblock", "free_block"}
      /\ get => b \notin sb.ub /\ t = Taken(sb, b)
      /\ ~get => b \in sb.ub /\ t = Released(sb, b)
  BY <1>1 DEF Serial, WriteOK
<1>6. Pending(l) = {b} /\ Pending(pr[p]) = {}
  BY <1>1, <1>3 DEF Pending
<1>7. t.n = sb.n /\ t.ub = IF get THEN sb.ub \cup {b} ELSE sb.ub \ {b}
  <2> HIDE DEF t, b, get
  <2>1. CASE get
    BY <1>2, <1>5, <2>1, BitChanged
  <2>2. CASE ~get
    BY <1>2, <1>5, <2>2, BitChanged
  <2> QED
    BY <2>1, <2>2
<1>8. sb.n <= Cap /\ held \subseteq sb.ub /\ Cardinality(Wrong(sb, block)) <= crashes
      /\ ((strict /\ crashes = 0) => \A x \in Numbers(sb.n) : block[x] # "absent")
  BY <1>1, <1>6 DEF Serial
<1> HIDE DEF t, b, get
<1>9. Wrong(t, block) \ {b} \subseteq Wrong(sb, block)
  BY <1>7 DEF Wrong
<1>10. Cardinality(Wrong(t, block) \ {b}) <= crashes
  <2> DEFINE c1 == Cardinality(Wrong(t, block) \ {b})
             c2 == Cardinality(Wrong(sb, block))
  <2>1. c1 \in Nat /\ c2 \in Nat /\ c1 <= c2
    BY <1>2, <1>9, WrongFinite, FS_Subset, FS_CardinalityType
  <2>2. c2 <= crashes
    BY <1>8
  <2> HIDE DEF c1, c2
  <2>3. c1 <= crashes
    BY <1>2, <2>1, <2>2
  <2> QED
    BY <2>3 DEF c1
<1>11. InitOK(l, t, block, held) /\ CheckOK(l, t)
  BY <1>3 DEF InitOK, CheckOK
<1>12. WriteOK(l, t, held)
  BY <1>3, <1>5, <1>7, <1>8 DEF WriteOK, get
<1>13. held \subseteq t.ub \cup Pending(l)
  BY <1>6, <1>7, <1>8
<1>14. (strict /\ crashes = 0) => \A x \in Numbers(t.n) : block[x] # "absent"
  BY <1>7, <1>8
<1>15. t.n <= Cap /\ Cardinality(Wrong(t, block) \ Pending(l)) <= crashes
  BY <1>6, <1>7, <1>8, <1>10
<1>16. Serial(l, t, block, held, crashes)
  BY <1>11, <1>12, <1>13, <1>14, <1>15 DEF Serial
<1>17. Serial(l, sb', block', held', crashes')
  BY <1>4, <1>16
<1> QED
  BY <1>1, <1>4, <1>17, Settle

\* The block follows: no block is wrong that was not, and this one is right.
LEMMA SerialFill ==
  ASSUME IInv, SerialInv, ~raced, NEW p \in Procs, GetFill(p) \/ FreeFill(p)
  PROVE  SerialInv'
<1> DEFINE b == pr[p].bno
           get == pr[p].call = "get_freeblock"
<1>1. OthersIdle(p) /\ Serial(pr[p], sb, block, held, crashes) /\ pr[p].pc = "fill"
  BY DEF SerialInv, GetFill, FreeFill, Busy, At
<1>2. pr[p] \in Local /\ sb \in Super /\ crashes \in Nat
      /\ block \in [Data -> {"absent", "zero", "ones", "mixed"}]
  BY BoundsAssumption DEF IInv, TypeOK
<1>3. PICK l : Now(p, l) /\ l.pc = "idle"
  <2>1. \A r : [pr[p] EXCEPT !.pc = "idle", !.ret = r].pc = "idle"
    BY <1>2 DEF Local
  <2> QED
    BY <2>1 DEF GetFill, FreeFill, Return
<1>4. UNCHANGED <<strict, sb, crashes>>
  BY DEF GetFill, FreeFill, ghosts
<1>5. Pending(pr[p]) = {b} /\ Pending(l) = {}
  BY <1>1, <1>3 DEF Pending
<1>6. /\ b \in Numbers(sb.n) /\ sb.n <= Cap /\ held \subseteq sb.ub \cup {b}
      /\ get => b \in sb.ub
      /\ ~get => b \notin sb.ub
      /\ Cardinality(Wrong(sb, block) \ {b}) <= crashes
      /\ (strict /\ crashes = 0) => \A x \in Numbers(sb.n) : block[x] # "absent"
  BY <1>1, <1>5 DEF Serial, WriteOK
<1>7. /\ held' = IF get THEN held \cup {b} ELSE held \ {b}
      /\ block' = [x \in Data |-> IF x = b THEN IF get THEN "ones" ELSE "zero"
                                  ELSE IF x < b /\ block[x] = "absent" THEN "zero"
                                  ELSE block[x]]
  BY DEF GetFill, FreeFill, Put
<1>8. \A x \in Numbers(sb.n) : x \in Data
  BY <1>2, <1>6, BoundsAssumption DEF Numbers, Data, Super
<1> HIDE DEF b, get
<1>9. \A x \in Numbers(sb.n) :
        block'[x] = IF x = b THEN IF get THEN "ones" ELSE "zero"
                    ELSE IF x < b /\ block[x] = "absent" THEN "zero" ELSE block[x]
  BY <1>7, <1>8
<1>10. Wrong(sb, block') \subseteq Wrong(sb, block) \ {b}
  BY <1>6, <1>9 DEF Wrong
<1>11. Cardinality(Wrong(sb, block')) <= crashes
  <2> DEFINE c1 == Cardinality(Wrong(sb, block'))
             c2 == Cardinality(Wrong(sb, block) \ {b})
  <2>1. c1 \in Nat /\ c2 \in Nat /\ c1 <= c2
    <3>1. IsFiniteSet(Wrong(sb, block) \ {b})
      BY <1>2, WrongFinite, FS_RemoveElement
    <3> QED
      BY <1>10, <3>1, FS_Subset, FS_CardinalityType
  <2>2. c2 <= crashes
    BY <1>6
  <2> HIDE DEF c1, c2
  <2>3. c1 <= crashes
    BY <1>2, <2>1, <2>2
  <2> QED
    BY <2>3 DEF c1
<1>12. (strict /\ crashes = 0) => \A x \in Numbers(sb.n) : block'[x] # "absent"
  BY <1>6, <1>9
<1>13. held' \subseteq sb.ub
  BY <1>6, <1>7
<1>14. InitOK(l, sb, block', held') /\ WriteOK(l, sb, held') /\ CheckOK(l, sb)
  BY <1>3 DEF InitOK, WriteOK, CheckOK
<1>15. Cardinality(Wrong(sb, block') \ Pending(l)) <= crashes
  <2>1. Wrong(sb, block') \ Pending(l) = Wrong(sb, block')
    BY <1>5
  <2> QED
    BY <1>11, <2>1
<1>16. Serial(l, sb, block', held', crashes)
  BY <1>5, <1>6, <1>12, <1>13, <1>14, <1>15 DEF Serial
<1>17. Serial(l, sb', block', held', crashes')
  BY <1>4, <1>16
<1> QED
  BY <1>1, <1>3, <1>4, <1>17, Settle

\* A process killed before its block was written leaves that one wrong.
LEMMA SerialCrash ==
  ASSUME IInv, SerialInv, ~raced, NEW p \in Procs, Crash(p)
  PROVE  SerialInv'
<1> DEFINE b == pr[p].bno
           get == pr[p].call = "get_freeblock"
           W == Wrong(sb, block)
           c == crashes + 1
<1>1. OthersIdle(p) /\ Serial(pr[p], sb, block, held, crashes)
  BY DEF SerialInv, Crash
<1>2. pr[p] \in Local /\ sb \in Super /\ crashes \in Nat
  BY BoundsAssumption DEF IInv, TypeOK
<1>3. Now(p, Idle) /\ UNCHANGED <<strict, sb, block>> /\ crashes' = c
  BY DEF Crash, disk
<1>4. Pending(Idle) = {} /\ Idle.pc = "idle"
  BY DEF Idle, Pending
<1>5. IsFiniteSet(W) /\ Cardinality(W) \in Nat
  BY <1>2, WrongFinite
<1>6. Cardinality(W) <= c
  <2>1. CASE pr[p].pc = "fill"
    <3>1. Cardinality(W \ {b}) <= crashes
      BY <1>1, <2>1 DEF Serial, Pending
    <3>2. IsFiniteSet(W \ {b}) /\ Cardinality(W \ {b}) \in Nat
      BY <1>5, FS_RemoveElement, FS_CardinalityType
    <3> HIDE DEF W, b
    <3>3. CASE b \in W
      <4>1. Cardinality(W \ {b}) = Cardinality(W) - 1
        BY <1>5, <3>3, FS_RemoveElement
      <4> QED
        BY <1>2, <1>5, <3>1, <4>1
    <3>4. CASE b \notin W
      <4>1. W \ {b} = W
        BY <3>4
      <4> QED
        BY <1>2, <1>5, <3>1, <4>1
    <3> QED
      BY <3>3, <3>4
  <2>2. CASE pr[p].pc # "fill"
    <3>1. W \ Pending(pr[p]) = W
      BY <2>2 DEF Pending
    <3>2. Cardinality(W) <= crashes
      BY <1>1, <3>1 DEF Serial
    <3> HIDE DEF W
    <3> QED
      BY <1>2, <1>5, <3>2
  <2> QED
    BY <2>1, <2>2
<1>7. held' \subseteq sb.ub
  <2>1. CASE pr[p].pc = "fill"
    <3>1. held \subseteq sb.ub \cup {b} /\ (get => b \in sb.ub)
          /\ pr[p].call \in {"get_freeblock", "free_block"}
      BY <1>1, <2>1 DEF Serial, Pending, WriteOK
    <3>2. held' = IF get THEN held ELSE held \ {b}
      BY <2>1, <3>1 DEF Crash, At
    <3> QED
      BY <3>1, <3>2
  <2>2. CASE pr[p].pc # "fill"
    BY <1>1, <2>2 DEF Serial, Pending, Crash, At
  <2> QED
    BY <2>1, <2>2
<1>8. InitOK(Idle, sb, block, held') /\ WriteOK(Idle, sb, held') /\ CheckOK(Idle, sb)
  BY <1>4 DEF InitOK, WriteOK, CheckOK
<1>9. c # 0
  BY <1>2
<1>10. W \ Pending(Idle) = W
  BY <1>4
<1>11. sb.n <= Cap
  BY <1>1 DEF Serial
<1> HIDE DEF c
<1>12. Serial(Idle, sb, block, held', c)
  BY <1>4, <1>6, <1>7, <1>8, <1>9, <1>10, <1>11 DEF Serial
<1>13. Serial(Idle, sb', block', held', crashes')
  BY <1>3, <1>12
<1> QED
  BY <1>1, <1>3, <1>13, Settle

LEMMA SerialNext == IInv /\ SerialInv /\ [Next]_vars => SerialInv'
<1> SUFFICES ASSUME IInv, SerialInv, [Next]_vars PROVE SerialInv'
  OBVIOUS
<1>1. CASE UNCHANGED vars
  BY <1>1 DEF vars, SerialInv, Serial, InitOK, WriteOK, CheckOK, Busy, At, OthersIdle
<1>2. ASSUME NEW p \in Procs, Step(p)
      PROVE  SerialInv'
  <2>1. CASE raced
    BY <1>2, <2>1 DEF Step, InitRefuse, InitTrunc, InitGrow, InitFinish, ReadFails, GetRead,
         FreeRead, CheckRead, CheckBlock, WriteSuper, GetFill, FreeFill, ghosts, SerialInv
  <2>2. CASE ~raced
    <3>1. CASE InitRefuse(p)
      BY <2>2, <3>1, SerialReturn DEF InitRefuse, At, Busy, ghosts
    <3>2. CASE ReadFails(p)
      BY <2>2, <3>2, SerialReturn DEF ReadFails, At, Busy, ghosts
    <3> QED
      BY <1>2, <2>2, <3>1, <3>2, SerialTrunc, SerialGrow, SerialFinish, SerialRead,
         SerialCheck, SerialWrite, SerialFill DEF Step
  <2> QED
    BY <2>1, <2>2
<1>3. ASSUME NEW p \in Procs, NEW c \in Calls, NEW a \in Args(c), Call(p, c, a)
      PROVE  SerialInv'
  <2>1. CASE raced'
    BY <2>1 DEF SerialInv
  <2>2. CASE ~raced'
    BY <1>3, <2>2, SerialCall
  <2> QED
    BY <2>1, <2>2
<1>4. ASSUME NEW p \in Procs, Crash(p)
      PROVE  SerialInv'
  <2>1. CASE raced
    BY <1>4, <2>1 DEF Crash, SerialInv
  <2>2. CASE ~raced
    BY <1>4, <2>2, SerialCrash
  <2> QED
    BY <2>1, <2>2
<1> QED
  BY <1>1, <1>2, <1>3, <1>4 DEF Next

LEMMA ReturnInit == Init => Returning
BY DEF Init, Returning, ReturnOK, Idle

LEMMA ReturnNow ==
  ASSUME IInv, Returning, NEW p \in Procs, NEW l, Now(p, l), strict' = strict, ReturnOK(l)
  PROVE  Returning'
<1>1. pr' = [pr EXCEPT ![p] = l] /\ pr \in [Procs -> Local]
  BY DEF Now, IInv, TypeOK
<1> QED
  BY <1>1 DEF Returning, ReturnOK

LEMMA ReturnNext == IInv /\ Returning /\ [Next]_vars => Returning'
<1> SUFFICES ASSUME IInv, Returning, [Next]_vars PROVE Returning'
  OBVIOUS
<1>1. CASE UNCHANGED vars
  BY <1>1 DEF vars, Returning, ReturnOK
<1>2. ASSUME NEW p \in Procs, Step(p)
      PROVE  Returning'
  <2>1. pr[p] \in Local /\ ReturnOK(pr[p]) /\ strict' = strict
    BY <1>2 DEF IInv, TypeOK, Returning, Step, InitRefuse, InitTrunc, InitGrow, InitFinish,
         ReadFails, GetRead, FreeRead, CheckRead, CheckBlock, WriteSuper, GetFill, FreeFill
  <2>2. ASSUME NEW r, Return(p, r)
        PROVE  Returning'
    <3> DEFINE l == [pr[p] EXCEPT !.pc = "idle", !.ret = r]
    <3>1. Now(p, l) /\ ReturnOK(l)
      BY <2>1, <2>2 DEF Return, ReturnOK, Local
    <3> HIDE DEF l
    <3> QED
      BY <2>1, <3>1, ReturnNow
  <2>3. ASSUME NEW pc \in {"grow", "finish", "fill"}, Now(p, [pr[p] EXCEPT !.pc = pc]),
               Busy(p)
        PROVE  Returning'
    <3> DEFINE l == [pr[p] EXCEPT !.pc = pc]
    <3>1. Now(p, l) /\ ReturnOK(l)
      BY <2>1, <2>3 DEF ReturnOK, Local, Busy, At
    <3> HIDE DEF l
    <3> QED
      BY <2>1, <3>1, ReturnNow
  <2>4. ASSUME NEW pc \in {"super", "check"}, NEW b, NEW s, pc = "check" => strict,
               Now(p, [pr[p] EXCEPT !.pc = pc, !.bno = b, !.sb = s]), Busy(p)
        PROVE  Returning'
    <3> DEFINE l == [pr[p] EXCEPT !.pc = pc, !.bno = b, !.sb = s]
    <3>1. l.pc = pc /\ l.ret = pr[p].ret
      BY <2>1 DEF Local
    <3>2. Now(p, l) /\ ReturnOK(l)
      BY <2>1, <2>4, <3>1 DEF ReturnOK, Busy, At
    <3> HIDE DEF l
    <3> QED
      BY <2>1, <3>2, ReturnNow
  <2>5. CASE InitTrunc(p) \/ InitGrow(p) \/ WriteSuper(p)
    BY <2>3, <2>5 DEF InitTrunc, InitGrow, WriteSuper, Busy, At
  <2>6. CASE InitRefuse(p) \/ InitFinish(p) \/ ReadFails(p) \/ GetFill(p) \/ FreeFill(p)
    BY <2>2, <2>6 DEF InitRefuse, InitFinish, ReadFails, GetFill, FreeFill
  <2>7. CASE GetRead(p) \/ FreeRead(p) \/ CheckRead(p)
    <3>1. Busy(p)
      BY <2>7 DEF GetRead, FreeRead, CheckRead, Busy, At
    <3> QED
      BY <2>2, <2>4, <2>7, <3>1 DEF GetRead, FreeRead, CheckRead
  <2>8. CASE CheckBlock(p)
    <3> DEFINE l == [pr[p] EXCEPT !.bno = pr[p].bno + 1]
    <3>1. l.pc = pr[p].pc /\ l.ret = pr[p].ret
      BY <2>1 DEF Local
    <3>2. ReturnOK(l)
      BY <2>1, <3>1 DEF ReturnOK
    <3>3. Now(p, l) \/ Return(p, 0) \/ Return(p, 1)
      BY <2>8 DEF CheckBlock
    <3> HIDE DEF l
    <3> QED
      BY <2>1, <2>2, <3>2, <3>3, ReturnNow
  <2> QED
    BY <1>2, <2>5, <2>6, <2>7, <2>8 DEF Step
<1>3. ASSUME NEW p \in Procs, NEW c \in Calls, NEW a \in Args(c), Call(p, c, a)
      PROVE  Returning'
  <2> DEFINE l == [Idle EXCEPT !.pc = IF c = "init_File_dd" THEN "trunc" ELSE "read",
                               !.call = c, !.arg = a]
  <2>1. Now(p, l) /\ ReturnOK(l) /\ strict' = strict
    BY <1>3 DEF Call, ReturnOK, Idle
  <2> HIDE DEF l
  <2> QED
    BY <2>1, ReturnNow
<1>4. ASSUME NEW p \in Procs, Crash(p)
      PROVE  Returning'
  BY <1>4, ReturnNow DEF Crash, ReturnOK, Idle
<1> QED
  BY <1>1, <1>2, <1>3, <1>4 DEF Next

-----------------------------------------------------------------------------
\* While calls do not overlap a block is handed out that nobody holds: the bit
\* get_freeblock found clear is still clear when it returns.
THEOREM HandedOutOnce == Spec => NeverHandedTwice
<1>1. ASSUME SerialInv, NEW p \in Procs, ~raced, At(p, "fill"),
             pr[p].call = "get_freeblock"
      PROVE  pr[p].bno \notin held
  <2>1. Serial(pr[p], sb, block, held, crashes)
    BY <1>1 DEF SerialInv, Busy, At
  <2> QED
    BY <1>1, <2>1 DEF Serial, WriteOK, At
<1>2. SerialInv =>
        [\A p \in Procs :
           (~raced /\ At(p, "fill") /\ pr[p].call = "get_freeblock" /\ pr'[p].pc = "idle"
                   /\ crashes' = crashes)
             => pr[p].bno \notin held]_vars
  BY <1>1
<1> QED
  BY <1>2, InitInv, NextInv, SerialInit, SerialNext, PTL DEF Spec, NeverHandedTwice

\* Killed processes are the only reason for blocks that hold what the bitmap
\* does not say, and each leaves at most one.
THEOREM SpoiltAtMostCrashes == Spec => []OneBlockPerCrash
<1>1. IInv /\ SerialInv => OneBlockPerCrash
  <2> SUFFICES ASSUME IInv, SerialInv, ~raced, \A p \in Procs : At(p, "idle")
               PROVE  Cardinality(Spoilt) <= crashes
    BY DEF OneBlockPerCrash
  <2>1. Serial(Idle, sb, block, held, crashes)
    BY DEF SerialInv, Busy
  <2>2. sb \in Super /\ crashes \in Nat
        /\ block \in [Data -> {"absent", "zero", "ones", "mixed"}]
    BY BoundsAssumption DEF IInv, TypeOK
  <2>3. \A b \in Numbers(sb.n) : b \in Data
    BY <2>1, <2>2, BoundsAssumption DEF Serial, Numbers, Data, Super
  <2>4. Spoilt \subseteq Wrong(sb, block)
    BY <2>2, <2>3 DEF Spoilt, Wrong, Expected
  <2>5. IsFiniteSet(Wrong(sb, block)) /\ Cardinality(Wrong(sb, block)) \in Nat
    BY <2>2, WrongFinite
  <2>6. Cardinality(Spoilt) \in Nat /\ Cardinality(Spoilt) <= Cardinality(Wrong(sb, block))
    BY <2>4, <2>5, FS_Subset, FS_CardinalityType
  <2>7. Wrong(sb, block) \ Pending(Idle) = Wrong(sb, block)
    BY DEF Pending, Idle
  <2>8. Cardinality(Wrong(sb, block)) <= crashes
    BY <2>1, <2>7 DEF Serial
  <2> QED
    BY <2>2, <2>5, <2>6, <2>8
<1> QED
  BY <1>1, InitInv, NextInv, SerialInit, SerialNext, PTL DEF Spec

\* check_fs has a reason to report an inconsistency: a file too short to read, or,
\* in the variant that reads the blocks, calls that overlapped or were killed.
THEOREM FailsForCause == Spec => ChecksFailForCause
<1> DEFINE A == \A p \in Procs :
                  (Busy(p) /\ pr[p].call = "check_fs" /\ pr'[p].ret = 1)
                    => ~readable \/ (strict /\ (raced \/ crashes > 0))
<1>1. IInv /\ SerialInv /\ Returning /\ [Next]_vars => [A]_vars
  <2> SUFFICES ASSUME IInv, SerialInv, Returning, Next, NEW p \in Procs,
                      Busy(p), pr[p].call = "check_fs", pr'[p].ret = 1, readable
               PROVE  strict /\ (raced \/ crashes > 0)
    OBVIOUS
  <2>1. /\ pr \in [Procs -> Local] /\ CountsMatch(sb) /\ crashes \in Nat /\ sb \in Super
        /\ block \in [Data -> {"absent", "zero", "ones", "mixed"}]
    BY BoundsAssumption DEF IInv, TypeOK, SuperSound
  <2>2. pr[p].ret = 0
    BY DEF Returning, ReturnOK, Busy, At
  <2>3. ASSUME NEW q \in Procs, NEW l, Now(q, l), q # p \/ l.ret # 1
        PROVE  FALSE
    BY <2>1, <2>2, <2>3 DEF Now
  <2>4. ASSUME NEW q \in Procs, NEW c \in Calls, NEW a \in Args(c), Call(q, c, a)
        PROVE  FALSE
    <3> DEFINE l == [Idle EXCEPT !.pc = IF c = "init_File_dd" THEN "trunc" ELSE "read",
                                 !.call = c, !.arg = a]
    <3>1. Now(q, l) /\ l.ret = 0
      BY <2>4 DEF Call, Idle
    <3> HIDE DEF l
    <3> QED
      BY <2>3, <3>1
  <2>5. ASSUME NEW q \in Procs, Crash(q)
        PROVE  FALSE
    BY <2>3, <2>5 DEF Crash, Idle
  <2>6. ASSUME Step(p)
        PROVE  strict /\ (raced \/ crashes > 0)
    <3>1. pr[p] \in Local
      BY <2>1
    <3>2. ASSUME NEW r, Return(p, r), r # 1
          PROVE  FALSE
      <4> DEFINE l == [pr[p] EXCEPT !.pc = "idle", !.ret = r]
      <4>1. Now(p, l) /\ l.ret = r
        BY <3>1, <3>2 DEF Return, Local
      <4> HIDE DEF l
      <4> QED
        BY <2>3, <3>2, <4>1
    <3>3. ASSUME NEW l, Now(p, l), l.ret = pr[p].ret
          PROVE  FALSE
      BY <2>2, <2>3, <3>3
    <3>4. CASE InitRefuse(p) \/ InitFinish(p) \/ ReadFails(p) \/ GetFill(p) \/ FreeFill(p)
               \/ GetRead(p) \/ FreeRead(p)
      <4>1. InitRefuse(p) \/ InitFinish(p)
        BY <3>4 DEF ReadFails, GetFill, FreeFill, GetRead, FreeRead
      <4>2. Return(p, -1) \/ Return(p, 0)
        BY <4>1 DEF InitRefuse, InitFinish
      <4>3. -1 # 1 /\ 0 # 1
        OBVIOUS
      <4> QED
        BY <3>2, <4>2, <4>3
    <3>5. CASE InitTrunc(p) \/ InitGrow(p) \/ WriteSuper(p)
      <4>1. PICK pc : Now(p, [pr[p] EXCEPT !.pc = pc])
        BY <3>5 DEF InitTrunc, InitGrow, WriteSuper
      <4> DEFINE l == [pr[p] EXCEPT !.pc = pc]
      <4>2. Now(p, l) /\ l.ret = pr[p].ret
        BY <3>1, <4>1 DEF Local
      <4> HIDE DEF l
      <4> QED
        BY <3>3, <4>2
    <3>6. CASE CheckRead(p)
      <4> DEFINE l == [pr[p] EXCEPT !.pc = "check", !.bno = 0, !.sb = sb]
      <4>1. Now(p, l) \/ Return(p, 0)
        BY <2>1, <3>6 DEF CheckRead
      <4>2. l.ret = pr[p].ret
        BY <3>1 DEF Local
      <4> HIDE DEF l
      <4> QED
        BY <3>2, <3>3, <4>1, <4>2
    <3>7. CASE CheckBlock(p)
      <4> DEFINE l == [pr[p] EXCEPT !.bno = pr[p].bno + 1]
                 b == pr[p].bno
      <4>1. l.ret = pr[p].ret
        BY <3>1 DEF Local
      <4>2. block[b] # Expected(pr[p].sb, b)
        <5>1. (block[b] # Expected(pr[p].sb, b)) \/ Return(p, 0) \/ Now(p, l)
          BY <3>7 DEF CheckBlock
        <5> HIDE DEF l
        <5> QED
          BY <3>2, <3>3, <4>1, <5>1
      <4>3. strict
        BY <3>7 DEF Returning, ReturnOK, CheckBlock, At
      <4>4. ASSUME ~raced, ~(crashes > 0)
            PROVE  FALSE
        <5>1. Serial(pr[p], sb, block, held, crashes) /\ pr[p].pc = "check" /\ crashes = 0
          BY <2>1, <3>7, <4>4 DEF SerialInv, CheckBlock, Busy, At
        <5>2. /\ pr[p].sb = sb /\ b \in Numbers(sb.n) /\ block[b] # "absent"
              /\ sb.n <= Cap /\ Wrong(sb, block) \ {} = Wrong(sb, block)
          BY <4>3, <5>1 DEF Serial, CheckOK
        <5>3. Cardinality(Wrong(sb, block)) <= 0
          BY <5>1, <5>2 DEF Serial, Pending
        <5>4. IsFiniteSet(Wrong(sb, block)) /\ Cardinality(Wrong(sb, block)) \in Nat
          BY <2>1, WrongFinite
        <5>5. Wrong(sb, block) = {}
          BY <5>3, <5>4, FS_EmptySet
        <5>6. b \in Data
          BY <2>1, <5>2, BoundsAssumption DEF Numbers, Data, Super
        <5> QED
          BY <2>1, <4>2, <5>2, <5>5, <5>6 DEF Wrong, Expected
      <4> QED
        BY <4>3, <4>4
    <3> QED
      BY <2>6, <3>4, <3>5, <3>6, <3>7 DEF Step
  <2>7. ASSUME NEW q \in Procs, Step(q), q # p
        PROVE  FALSE
    <3>1. \E l : Now(q, l)
      BY <2>7 DEF Step, InitRefuse, InitTrunc, InitGrow, InitFinish, ReadFails, GetRead,
         FreeRead, CheckRead, CheckBlock, WriteSuper, GetFill, FreeFill, Return
    <3> QED
      BY <2>3, <2>7, <3>1
  <2> QED
    BY <2>4, <2>5, <2>6, <2>7 DEF Next
<1> QED
  BY <1>1, InitInv, NextInv, SerialInit, SerialNext, ReturnInit, ReturnNext, PTL
  DEF Spec, ChecksFailForCause
=============================================================================
