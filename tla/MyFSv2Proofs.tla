---------------------------- MODULE MyFSv2Proofs ----------------------------
(***************************************************************************)
(* Type correctness of MyFSv2, that its unsigned counts do not wrap, that  *)
(* its chains stay apart, that a removal removes what it found, that files *)
(* are whole, that the volume implements FileStore, that no block is lost  *)
(* and that a reader gets a whole file, for every number of blocks, of     *)
(* entries a block, of shells and for every menu of commands.              *)
(***************************************************************************)
EXTENDS MyFSv2Props, FiniteSetTheorems, WellFoundedInduction, TLAPS

LEMMA ZeroBlockType ==
  /\ Vacant \in Entry
  /\ Zeroes \in Chunk
  /\ ZeroBlock \in Block
  /\ \A n \in Ptr : FreeBlock(n) \in Block
<1> USE SizesAssumption
<1>1. Vacant \in Entry
  BY DEF Vacant, Entry, Ptr
<1>2. Zeroes \in Chunk
  BY DEF Zeroes, Chunk
<1>3. ZeroBlock \in Block
  BY <1>1, <1>2 DEF ZeroBlock, Block, Ptr
<1>4. \A n \in Ptr : FreeBlock(n) \in Block
  BY <1>3 DEF FreeBlock, Block
<1> QED
  BY <1>1, <1>2, <1>3, <1>4

LEMMA IdleType == Idle \in Local
<1>1. Idle.cmd \in Command
  BY NamesAssumption, SizesAssumption DEF Idle, Command, Ops
<1> QED
  BY <1>1, ZeroBlockType, SizesAssumption DEF Idle, Local, PCs, Ptr

LEMMA EndedType ==
  ASSUME TypeOK, NEW p \in Procs, NEW r \in {"ok", "err", "segv"},
         NEW e \in Entry, NEW o \in Seq(Chunk)
  PROVE  Ended(p, r, e, o) \in Local
<1>1. pr[p].cmd \in Command
  BY DEF TypeOK, Local
<1> QED
  BY <1>1, IdleType DEF Ended, Local

LEMMA PutEntryType ==
  ASSUME NEW b \in Block, NEW s, NEW e \in Entry
  PROVE  PutEntry(b, s, e) \in Block
BY DEF PutEntry, Block

-----------------------------------------------------------------------------
IInv == TypeOK /\ NoUnderflow

LEMMA InitInv == Init => IInv
<1> SUFFICES ASSUME Init PROVE IInv
  OBVIOUS
<1>1. TypeOK
  <2>1. blk \in [Blocks -> Block] /\ pr \in [Procs -> Local]
    BY ZeroBlockType, IdleType DEF Init
  <2>2. sbHead \in Ptr /\ starts \in 0 .. MaxStarts /\ crashes \in 0 .. MaxCrashes
    BY SizesAssumption DEF Init, Ptr
  <2>3. formatted \in BOOLEAN /\ dirty \in BOOLEAN
    BY DEF Init
  <2> QED
    BY <2>1, <2>2, <2>3 DEF TypeOK
<1>2. NoUnderflow
  BY DEF Init, NoUnderflow, CountOK, Idle
<1> QED
  BY <1>1, <1>2 DEF IInv

\* What p's next locals have to satisfy for the invariant to survive.
LEMMA NowInv ==
  ASSUME IInv, NEW p \in Procs, NEW l \in Local, CountOK(l), Now(p, l)
  PROVE  pr' \in [Procs -> Local] /\ NoUnderflow'
BY DEF Now, IInv, TypeOK, NoUnderflow

LEMMA FinishInv ==
  ASSUME IInv, NEW p \in Procs, NEW r \in {"ok", "err", "segv"},
         NEW e \in Entry, NEW o \in Seq(Chunk), Now(p, Ended(p, r, e, o))
  PROVE  pr' \in [Procs -> Local] /\ NoUnderflow'
<1>1. Ended(p, r, e, o) \in Local
  BY EndedType DEF IInv
<1>2. CountOK(Ended(p, r, e, o))
  BY DEF CountOK, Ended, Idle
<1> QED
  BY <1>1, <1>2, NowInv

LEMMA FailInv ==
  ASSUME IInv, NEW p \in Procs, Fail(p)
  PROVE  pr' \in [Procs -> Local] /\ NoUnderflow' /\ dirty' \in BOOLEAN
<1>1. <<>> \in Seq(Chunk)
  OBVIOUS
<1>2. pr' \in [Procs -> Local] /\ NoUnderflow'
  BY <1>1, FinishInv, ZeroBlockType DEF Fail
<1> QED
  BY <1>2 DEF Fail

LEMMA QuitInv ==
  ASSUME IInv, NEW p \in Procs, NEW r \in {"ok", "err", "segv"}, Finish(p, r)
  PROVE  pr' \in [Procs -> Local] /\ NoUnderflow' /\ dirty' \in BOOLEAN
<1>1. <<>> \in Seq(Chunk)
  OBVIOUS
<1>2. pr' \in [Procs -> Local] /\ NoUnderflow'
  BY <1>1, FinishInv, ZeroBlockType DEF Finish
<1> QED
  BY <1>2 DEF Finish, IInv, TypeOK

LEMMA BlockFacts ==
  ASSUME IInv, NEW b, Readable(b)
  PROVE  /\ b \in Blocks /\ b \in Ptr
         /\ blk[b] \in Block /\ blk[b].next \in Ptr /\ blk[b].data \in Chunk
         /\ \A s \in Slots : blk[b].ents[s] \in Entry
BY SizesAssumption DEF IInv, TypeOK, Readable, Blocks, Ptr, Block

LEMMA LocalFacts ==
  ASSUME IInv, NEW p \in Procs
  PROVE  /\ pr[p] \in Local /\ CountOK(pr[p])
         /\ pr[p].cmd \in Command /\ pr[p].ent \in Entry /\ pr[p].buf \in Block
BY DEF IInv, TypeOK, Local, NoUnderflow

LEMMA AllocReadInv ==
  ASSUME IInv, NEW p \in Procs, AllocRead(p)
  PROVE  IInv'
<1>1. CASE Fail(p)
  BY <1>1, FailInv DEF AllocRead, IInv, TypeOK, disk, counts
<1>2. CASE ~Fail(p)
  <2> DEFINE h == pr[p].head
             l == [pr[p] EXCEPT !.pc = "allocZero", !.new = h, !.head = blk[h].next]
  <2>1. Now(p, l) /\ UNCHANGED dirty /\ Readable(h)
    BY <1>2 DEF AllocRead
  <2>0. pr[p] \in Local /\ CountOK(pr[p]) /\ h \in Ptr /\ blk[h].next \in Ptr
    BY <2>1, BlockFacts, LocalFacts
  <2>2. l \in Local
    BY <2>0 DEF Local, PCs
  <2>3. CountOK(l)
    BY <2>0 DEF AllocRead, CountOK, At, Local
  <2> HIDE DEF l
  <2>4. pr' \in [Procs -> Local] /\ NoUnderflow'
    BY <2>1, <2>2, <2>3, NowInv
  <2> QED
    BY <2>1, <2>4 DEF AllocRead, IInv, TypeOK, disk, counts
<1> QED
  BY <1>1, <1>2

LEMMA StartInv ==
  ASSUME IInv, NEW p \in Procs, NEW c \in Menu[p], Start(p, c)
  PROVE  IInv'
<1> DEFINE l == [Idle EXCEPT !.pc = "resolve", !.cmd = c, !.head = sbHead, !.cur = 1]
<1>1. Now(p, l)
  BY DEF Start
<1>2. Idle \in Local /\ c \in Command /\ sbHead \in Ptr /\ 1 \in Ptr
  BY IdleType, MenuAssumption, SizesAssumption DEF IInv, TypeOK, Ptr
<1>3. l \in Local
  BY <1>2 DEF Local, PCs
<1>4. CountOK(l)
  BY <1>2 DEF CountOK, Local
<1> HIDE DEF l
<1>5. pr' \in [Procs -> Local] /\ NoUnderflow'
  BY <1>1, <1>3, <1>4, NowInv
<1>6. starts' \in 0 .. MaxStarts
  BY SizesAssumption DEF Start, IInv, TypeOK
<1> QED
  BY <1>5, <1>6 DEF Start, IInv, TypeOK, disk

LEMMA ResolveInv ==
  ASSUME IInv, NEW p \in Procs, Resolve(p)
  PROVE  IInv'
<1> SUFFICES pr' \in [Procs -> Local] /\ NoUnderflow' /\ dirty' \in BOOLEAN
  BY DEF Resolve, IInv, TypeOK, disk, counts
<1>0. /\ pr[p] \in Local /\ pr[p].cmd \in Command /\ pr[p].cmd.len \in 0 .. MaxLen
      /\ pr[p].pc = "resolve" /\ dirty \in BOOLEAN
  BY LocalFacts DEF Resolve, At, Command, IInv, TypeOK
<1>1. ASSUME HasFinal(p)
      PROVE  /\ NewEntry(p, FILE, 0) \in Entry
             /\ [NewEntry(p, DIR, 0) EXCEPT !.size = 0] \in Entry
  <2>1. final(p) \in Names
    BY <1>0, <1>1 DEF HasFinal, final, path, Command
  <2> QED
    BY <2>1, <1>0, SizesAssumption DEF NewEntry, Entry, FILE, DIR, Ptr
<1>2. CASE Fail(p)
  BY <1>2, FailInv
<1>3. CASE Segv(p)
  BY <1>3, QuitInv DEF Segv
<1>4. CASE /\ op(p) = "mycopyTo" /\ HasFinal(p)
           /\ Now(p, [pr[p] EXCEPT !.pc = IF pr[p].cmd.len = 0 THEN "insRead"
                                                               ELSE "alloc",
                                   !.rem = pr[p].cmd.len,
                                   !.ent = NewEntry(p, FILE, 0)])
           /\ UNCHANGED dirty
  <2> DEFINE e == NewEntry(p, FILE, 0)
             l == [pr[p] EXCEPT !.pc = IF pr[p].cmd.len = 0 THEN "insRead" ELSE "alloc",
                                !.rem = pr[p].cmd.len, !.ent = e]
  <2>1. e \in Entry
    BY <1>1, <1>4
  <2> HIDE DEF e
  <2>2. l \in Local
    BY <1>0, <2>1 DEF Local, PCs
  <2>3. CountOK(l)
    BY <1>0 DEF CountOK, Local
  <2>4. Now(p, l)
    BY <1>4 DEF e
  <2> HIDE DEF l
  <2> QED
    BY <1>0, <1>4, <2>2, <2>3, <2>4, NowInv
<1>5. CASE /\ op(p) = "mymkdir" /\ HasFinal(p)
           /\ Now(p, [pr[p] EXCEPT !.pc = "alloc",
                                   !.ent = [NewEntry(p, DIR, 0) EXCEPT !.size = 0]])
           /\ UNCHANGED dirty
  <2> DEFINE e == [NewEntry(p, DIR, 0) EXCEPT !.size = 0]
             l == [pr[p] EXCEPT !.pc = "alloc", !.ent = e]
  <2>1. e \in Entry
    BY <1>1, <1>5
  <2> HIDE DEF e
  <2>2. l \in Local
    BY <1>0, <2>1 DEF Local, PCs
  <2>3. CountOK(l)
    BY <1>0, <1>5 DEF CountOK, Local, op
  <2>4. Now(p, l)
    BY <1>5 DEF e
  <2> HIDE DEF l
  <2> QED
    BY <1>0, <1>5, <2>2, <2>3, <2>4, NowInv
<1>6. CASE Now(p, [pr[p] EXCEPT !.pc = "find"]) /\ UNCHANGED dirty
  <2> DEFINE l == [pr[p] EXCEPT !.pc = "find"]
  <2>1. l \in Local
    BY <1>0 DEF Local, PCs
  <2>2. CountOK(l)
    BY <1>0 DEF CountOK, Local
  <2> HIDE DEF l
  <2> QED
    BY <1>0, <1>6, <2>1, <2>2, NowInv DEF l
<1> QED
  BY <1>2, <1>3, <1>4, <1>5, <1>6 DEF Resolve

LEMMA TraverseInv ==
  ASSUME IInv, NEW p \in Procs, Traverse(p)
  PROVE  IInv'
<1> SUFFICES pr' \in [Procs -> Local] /\ NoUnderflow' /\ dirty' \in BOOLEAN
  BY DEF Traverse, IInv, TypeOK, disk, counts
<1> DEFINE b == blk[pr[p].cur]
           l == [pr[p] EXCEPT !.cur = b.next]
<1>1. CASE Fail(p)
  BY <1>1, FailInv
<1>2. CASE Segv(p)
  BY <1>2, QuitInv DEF Segv
<1>3. CASE Readable(pr[p].cur) /\ Now(p, l) /\ UNCHANGED dirty
  <2>1. pr[p] \in Local /\ b.next \in Ptr /\ pr[p].pc = "resolve" /\ dirty \in BOOLEAN
    BY <1>3, LocalFacts, BlockFacts DEF Traverse, At, IInv, TypeOK
  <2>2. l \in Local
    BY <2>1 DEF Local
  <2>3. CountOK(l)
    BY <2>1 DEF CountOK, Local
  <2> HIDE DEF l
  <2> QED
    BY <1>3, <2>1, <2>2, <2>3, NowInv
<1> QED
  BY <1>1, <1>2, <1>3 DEF Traverse

LEMMA AllocZeroInv ==
  ASSUME IInv, NEW p \in Procs, AllocZero(p)
  PROVE  IInv'
<1> DEFINE l == [pr[p] EXCEPT !.pc = "allocSuper"]
<1>1. pr[p] \in Local /\ CountOK(pr[p]) /\ pr[p].pc = "allocZero"
  BY LocalFacts DEF AllocZero, At
<1>2. l \in Local
  BY <1>1 DEF Local, PCs
<1>3. CountOK(l)
  BY <1>1 DEF CountOK, Local
<1>4. Now(p, l)
  BY DEF AllocZero
<1> HIDE DEF l
<1>5. pr' \in [Procs -> Local] /\ NoUnderflow'
  BY <1>2, <1>3, <1>4, NowInv
<1>6. blk' \in [Blocks -> Block]
  BY ZeroBlockType DEF AllocZero, IInv, TypeOK
<1> QED
  BY <1>5, <1>6 DEF AllocZero, IInv, TypeOK, counts

LEMMA AllocSuperInv ==
  ASSUME IInv, NEW p \in Procs, AllocSuper(p)
  PROVE  IInv'
<1> DEFINE data == AfterAlloc(p) = "write"
           f == IF data THEN pr[p].new ELSE pr[p].first
           c == IF data THEN pr[p].new ELSE pr[p].cur
           l == [pr[p] EXCEPT !.pc = AfterAlloc(p), !.first = f, !.cur = c]
<1>1. /\ pr[p] \in Local /\ CountOK(pr[p]) /\ pr[p].pc = "allocSuper"
      /\ AfterAlloc(p) \in {"insZero", "dirZero", "write", "link"}
  BY LocalFacts DEF AllocSuper, At, AfterAlloc
<1>2. f \in Ptr /\ c \in Ptr /\ pr[p].head \in Ptr
  BY <1>1 DEF Local
<1>3. AfterAlloc(p) \in {"write", "link"} => pr[p].idx = 0 /\ pr[p].cmd.op # "mymkdir"
  BY <1>1 DEF AfterAlloc, op
<1> HIDE DEF f, c
<1>4. l \in Local
  BY <1>1, <1>2 DEF Local, PCs
<1>5. CountOK(l)
  BY <1>1, <1>3 DEF CountOK, Local
<1>6. Now(p, l)
  BY DEF AllocSuper, f, c
<1> HIDE DEF l
<1>7. pr' \in [Procs -> Local] /\ NoUnderflow'
  BY <1>4, <1>5, <1>6, NowInv
<1> QED
  BY <1>2, <1>7 DEF AllocSuper, IInv, TypeOK, counts

LEMMA CopyLinkInv ==
  ASSUME IInv, NEW p \in Procs, CopyLink(p)
  PROVE  IInv'
<1> DEFINE l == [pr[p] EXCEPT !.pc = "write", !.cur = pr[p].new]
<1>1. pr[p] \in Local /\ CountOK(pr[p]) /\ pr[p].pc = "link" /\ pr[p].new \in Ptr
  BY LocalFacts DEF CopyLink, At, Local
<1>2. l \in Local
  BY <1>1 DEF Local, PCs
<1>3. CountOK(l)
  BY <1>1 DEF CountOK, Local
<1>4. Now(p, l)
  BY DEF CopyLink
<1> HIDE DEF l
<1>5. pr' \in [Procs -> Local] /\ NoUnderflow'
  BY <1>2, <1>3, <1>4, NowInv
<1>6. [pr[p].buf EXCEPT !.next = pr[p].new] \in Block
  BY <1>1, LocalFacts DEF Block
<1>7. blk' \in [Blocks -> Block]
  BY <1>6 DEF CopyLink, IInv, TypeOK
<1> QED
  BY <1>5, <1>7 DEF CopyLink, IInv, TypeOK, counts

LEMMA CopyWriteInv ==
  ASSUME IInv, NEW p \in Procs, CopyWrite(p)
  PROVE  IInv'
<1> DEFINE chunk == [c |-> pr[p].cmd.c, k |-> pr[p].cmd.len - pr[p].rem + 1]
           b == [ZeroBlock EXCEPT !.data = chunk]
           last == pr[p].rem = 1
           buf == IF last THEN ZeroBlock ELSE b
           cur == IF last THEN 1 ELSE pr[p].cur
           ent == [pr[p].ent EXCEPT !.start = pr[p].first]
           rem == pr[p].rem - 1
           l == [pr[p] EXCEPT !.pc = IF last THEN "insRead" ELSE "alloc",
                              !.rem = rem, !.buf = buf, !.cur = cur, !.ent = ent]
<1>1. /\ pr[p] \in Local /\ CountOK(pr[p]) /\ pr[p].pc = "write"
      /\ pr[p].cmd \in Command /\ pr[p].ent \in Entry
  BY LocalFacts DEF CopyWrite, At
<1>2. pr[p].rem \in 1 .. pr[p].cmd.len /\ pr[p].cmd.len \in 0 .. MaxLen
  BY <1>1 DEF CountOK, Command
<1>3. rem \in 0 .. MaxLen /\ (~last => rem \in 1 .. pr[p].cmd.len)
  BY <1>2, SizesAssumption
<1>4. b \in Block
  <2>1. chunk \in Chunk
    BY <1>1, <1>2, SizesAssumption DEF Command, Chunk
  <2> HIDE DEF chunk
  <2> QED
    BY <2>1, ZeroBlockType DEF Block
<1>5. buf \in Block /\ cur \in Ptr
  BY <1>1, <1>4, ZeroBlockType, SizesAssumption DEF Local, Ptr
<1>6. ent \in Entry
  BY <1>1 DEF Local, Entry
<1> HIDE DEF buf, cur, ent, rem, b
<1>7. l \in Local
  BY <1>1, <1>3, <1>5, <1>6 DEF Local, PCs
<1>8. CountOK(l)
  BY <1>1, <1>3 DEF CountOK, Local
<1>9. Now(p, l)
  BY <1>1 DEF CopyWrite, buf, cur, ent, rem, b, Local
<1> HIDE DEF l
<1>10. pr' \in [Procs -> Local] /\ NoUnderflow'
  BY <1>7, <1>8, <1>9, NowInv
<1>11. blk' \in [Blocks -> Block]
  BY <1>4 DEF CopyWrite, IInv, TypeOK, b
<1> QED
  BY <1>10, <1>11 DEF CopyWrite, IInv, TypeOK, counts

LEMMA DirZeroInv ==
  ASSUME IInv, NEW p \in Procs, DirZero(p)
  PROVE  IInv'
<1> DEFINE ent == [pr[p].ent EXCEPT !.start = pr[p].new]
           l == [pr[p] EXCEPT !.pc = "insRead", !.ent = ent]
<1>1. pr[p] \in Local /\ pr[p].pc = "dirZero" /\ pr[p].ent \in Entry
  BY LocalFacts DEF DirZero, At
<1>2. ent \in Entry
  BY <1>1 DEF Local, Entry
<1> HIDE DEF ent
<1>3. l \in Local
  BY <1>1, <1>2 DEF Local, PCs
<1>4. CountOK(l)
  BY <1>1 DEF CountOK, Local
<1>5. Now(p, l)
  BY <1>1 DEF DirZero, ent, Local
<1> HIDE DEF l
<1>6. pr' \in [Procs -> Local] /\ NoUnderflow'
  BY <1>3, <1>4, <1>5, NowInv
<1>7. blk' \in [Blocks -> Block]
  BY ZeroBlockType DEF DirZero, IInv, TypeOK
<1> QED
  BY <1>6, <1>7 DEF DirZero, IInv, TypeOK, counts

LEMMA InsReadInv ==
  ASSUME IInv, NEW p \in Procs, InsRead(p)
  PROVE  IInv'
<1> SUFFICES pr' \in [Procs -> Local] /\ NoUnderflow' /\ dirty' \in BOOLEAN
  BY DEF InsRead, IInv, TypeOK, disk, counts
<1> DEFINE b == blk[pr[p].cur]
<1>1. pr[p] \in Local /\ pr[p].pc = "insRead" /\ pr[p].ent \in Entry /\ dirty \in BOOLEAN
  BY LocalFacts DEF InsRead, At, IInv, TypeOK
<1>2. CASE Fail(p)
  BY <1>2, FailInv
<1>3. ASSUME Readable(pr[p].cur), NEW s \in Slots,
             Now(p, [pr[p] EXCEPT !.pc = "insWrite", !.idx = s,
                                  !.buf = PutEntry(b, s, pr[p].ent)]),
             UNCHANGED dirty
      PROVE  pr' \in [Procs -> Local] /\ NoUnderflow' /\ dirty' \in BOOLEAN
  <2> DEFINE nb == PutEntry(b, s, pr[p].ent)
             l == [pr[p] EXCEPT !.pc = "insWrite", !.idx = s, !.buf = nb]
  <2>1. b \in Block
    BY <1>3, BlockFacts
  <2>2. nb \in Block
    BY <2>1, <1>1, PutEntryType
  <2>3. s \in 0 .. NE
    BY SizesAssumption DEF Slots
  <2> HIDE DEF nb
  <2>4. l \in Local
    BY <1>1, <2>2, <2>3 DEF Local, PCs
  <2>5. CountOK(l)
    BY <1>1 DEF CountOK, Local
  <2>6. Now(p, l)
    BY <1>3 DEF nb
  <2> HIDE DEF l
  <2> QED
    BY <1>1, <1>3, <2>4, <2>5, <2>6, NowInv
<1>4. CASE /\ Readable(pr[p].cur)
           /\ Now(p, IF b.next = 0
                     THEN [pr[p] EXCEPT !.pc = "alloc", !.idx = 1, !.buf = b]
                     ELSE [pr[p] EXCEPT !.cur = b.next])
           /\ UNCHANGED dirty
  <2> DEFINE m == [pr[p] EXCEPT !.pc = "alloc", !.idx = 1, !.buf = b]
             n == [pr[p] EXCEPT !.cur = b.next]
             l == IF b.next = 0 THEN m ELSE n
  <2>1. b \in Block /\ b.next \in Ptr /\ 1 \in 0 .. NE
    BY <1>4, BlockFacts, SizesAssumption
  <2>2. m \in Local
    BY <1>1, <2>1 DEF Local, PCs
  <2>3. n \in Local
    BY <1>1, <2>1 DEF Local
  <2>4. CountOK(m)
    BY <1>1 DEF CountOK, Local
  <2>5. CountOK(n)
    BY <1>1 DEF CountOK, Local
  <2>6. Now(p, l)
    BY <1>4
  <2> HIDE DEF m, n
  <2>7. l \in Local /\ CountOK(l)
    BY <2>2, <2>3, <2>4, <2>5
  <2> HIDE DEF l
  <2> QED
    BY <1>1, <1>4, <2>6, <2>7, NowInv
<1> QED
  BY <1>2, <1>3, <1>4 DEF InsRead

LEMMA InsWriteInv ==
  ASSUME IInv, NEW p \in Procs, InsWrite(p)
  PROVE  IInv'
<1>1. pr' \in [Procs -> Local] /\ NoUnderflow' /\ dirty' \in BOOLEAN
  BY QuitInv DEF InsWrite
<1>2. blk' \in [Blocks -> Block]
  BY LocalFacts DEF InsWrite, IInv, TypeOK
<1> QED
  BY <1>1, <1>2 DEF InsWrite, IInv, TypeOK, counts

LEMMA InsZeroInv ==
  ASSUME IInv, NEW p \in Procs, InsZero(p)
  PROVE  IInv'
<1> DEFINE l == [pr[p] EXCEPT !.pc = "insLink"]
<1>1. pr[p] \in Local
  BY LocalFacts
<1>2. l \in Local
  BY <1>1 DEF Local, PCs
<1>3. CountOK(l)
  BY <1>1 DEF CountOK, Local
<1>4. Now(p, l)
  BY DEF InsZero
<1> HIDE DEF l
<1>5. pr' \in [Procs -> Local] /\ NoUnderflow'
  BY <1>2, <1>3, <1>4, NowInv
<1>6. blk' \in [Blocks -> Block]
  BY ZeroBlockType DEF InsZero, IInv, TypeOK
<1> QED
  BY <1>5, <1>6 DEF InsZero, IInv, TypeOK, counts

LEMMA InsLinkInv ==
  ASSUME IInv, NEW p \in Procs, InsLink(p)
  PROVE  IInv'
<1> DEFINE l == [pr[p] EXCEPT !.pc = "insNew"]
<1>1. pr[p] \in Local /\ pr[p].buf \in Block /\ pr[p].new \in Ptr
  BY LocalFacts DEF Local
<1>2. l \in Local
  BY <1>1 DEF Local, PCs
<1>3. CountOK(l)
  BY <1>1 DEF CountOK, Local
<1>4. Now(p, l)
  BY DEF InsLink
<1> HIDE DEF l
<1>5. pr' \in [Procs -> Local] /\ NoUnderflow'
  BY <1>2, <1>3, <1>4, NowInv
<1>6. [pr[p].buf EXCEPT !.next = pr[p].new] \in Block
  BY <1>1 DEF Block
<1>7. blk' \in [Blocks -> Block]
  BY <1>6 DEF InsLink, IInv, TypeOK
<1> QED
  BY <1>5, <1>7 DEF InsLink, IInv, TypeOK, counts

LEMMA InsNewInv ==
  ASSUME IInv, NEW p \in Procs, InsNew(p)
  PROVE  IInv'
<1>1. pr' \in [Procs -> Local] /\ NoUnderflow' /\ dirty' \in BOOLEAN
  BY QuitInv DEF InsNew
<1>2. PutEntry(ZeroBlock, 1, pr[p].ent) \in Block
  BY LocalFacts, ZeroBlockType, PutEntryType
<1>3. blk' \in [Blocks -> Block]
  BY <1>2 DEF InsNew, IInv, TypeOK
<1> QED
  BY <1>1, <1>3 DEF InsNew, IInv, TypeOK, counts

LEMMA FoundInv ==
  ASSUME IInv, NEW p \in Procs, At(p, "find"), NEW e \in Entry, NEW s \in Slots,
         Found(p, e, s)
  PROVE  pr' \in [Procs -> Local] /\ NoUnderflow' /\ dirty' \in BOOLEAN
<1>1. /\ pr[p] \in Local /\ pr[p].cmd \in Command /\ dirty \in BOOLEAN
      /\ <<>> \in Seq(Chunk)
  BY LocalFacts DEF IInv, TypeOK
<1>2. CASE Now(p, Ended(p, "ok", e, <<>>)) /\ UNCHANGED dirty
  BY <1>1, <1>2, FinishInv
<1>3. CASE Fail(p)
  BY <1>3, FailInv
<1> DEFINE r == IF op(p) = "myreadBlock" THEN pr[p].cmd.len ELSE e.size
           a == AfterFind(p, e)
           l == [pr[p] EXCEPT !.pc = a, !.ent = e, !.idx = s,
                              !.at = pr[p].cur, !.cur = e.start, !.rem = r]
<1>4. CASE /\ op(p) \in {"mycopyFrom", "myreadBlock", "myrm", "myrmdir"}
           /\ ~Nothing(p, e)
           /\ Now(p, l)
           /\ UNCHANGED dirty
  <2>1. /\ s \in 0 .. NE /\ e.start \in Ptr /\ pr[p].cur \in Ptr
        /\ e.size \in 0 .. MaxLen /\ pr[p].cmd.len \in 0 .. MaxLen
    BY <1>1, SizesAssumption DEF Entry, Local, Slots, Command
  <2>2. r \in 0 .. MaxLen
    BY <2>1
  <2>3. /\ a \in {"readData", "readOne", "skip", "clrRead", "rmRead", "rmdirCheck"}
        /\ a \in {"readData", "skip"} => r > 0
    <3>1. CASE op(p) = "mycopyFrom"
      BY <3>1, <1>4, <2>1 DEF AfterFind, Nothing
    <3>2. CASE op(p) = "myreadBlock"
      BY <3>2, <2>1 DEF AfterFind
    <3>3. CASE op(p) = "myrm"
      BY <3>3 DEF AfterFind
    <3>4. CASE op(p) = "myrmdir"
      BY <3>4 DEF AfterFind
    <3> QED
      BY <1>4, <3>1, <3>2, <3>3, <3>4
  <2> HIDE DEF r, a
  <2>4. l \in Local
    BY <1>1, <2>1, <2>2, <2>3 DEF Local, PCs
  <2>5. CountOK(l)
    BY <1>1, <2>3 DEF CountOK, Local
  <2>6. Now(p, l) /\ UNCHANGED dirty
    BY <1>4
  <2> HIDE DEF l
  <2> QED
    BY <1>1, <2>4, <2>5, <2>6, NowInv
<1> QED
  BY <1>1, <1>2, <1>3, <1>4 DEF Found

LEMMA FindInv ==
  ASSUME IInv, NEW p \in Procs, Find(p)
  PROVE  IInv'
<1> SUFFICES pr' \in [Procs -> Local] /\ NoUnderflow' /\ dirty' \in BOOLEAN
  BY DEF Find, IInv, TypeOK, disk, counts
<1> DEFINE b == blk[pr[p].cur]
           l == [pr[p] EXCEPT !.cur = b.next]
<1>1. pr[p] \in Local /\ At(p, "find") /\ pr[p].pc = "find" /\ dirty \in BOOLEAN
  BY LocalFacts DEF Find, At, IInv, TypeOK
<1>2. CASE Fail(p)
  BY <1>2, FailInv
<1>3. CASE Segv(p)
  BY <1>3, QuitInv DEF Segv
<1>4. ASSUME Readable(pr[p].cur), NEW s \in Slots, Found(p, b.ents[s], s)
      PROVE  pr' \in [Procs -> Local] /\ NoUnderflow' /\ dirty' \in BOOLEAN
  <2>1. b.ents[s] \in Entry
    BY <1>4, BlockFacts
  <2> QED
    BY <1>1, <1>4, <2>1, FoundInv
<1>5. CASE Readable(pr[p].cur) /\ Now(p, l) /\ UNCHANGED dirty
  <2>1. b.next \in Ptr
    BY <1>5, BlockFacts
  <2>2. l \in Local
    BY <1>1, <2>1 DEF Local
  <2>3. CountOK(l)
    BY <1>1 DEF CountOK, Local
  <2> HIDE DEF l
  <2> QED
    BY <1>1, <1>5, <2>2, <2>3, NowInv
<1> QED
  BY <1>2, <1>3, <1>4, <1>5 DEF Find

LEMMA ReadDataInv ==
  ASSUME IInv, NEW p \in Procs, ReadData(p)
  PROVE  IInv'
<1> SUFFICES pr' \in [Procs -> Local] /\ NoUnderflow'
  BY DEF ReadData, IInv, TypeOK, disk, counts
<1> DEFINE b == blk[pr[p].cur]
           o == Append(pr[p].out, b.data)
           r == pr[p].rem - 1
           l == [pr[p] EXCEPT !.out = o, !.rem = r, !.cur = b.next]
<1>1. /\ pr[p] \in Local /\ pr[p].pc = "readData" /\ pr[p].out \in Seq(Chunk)
      /\ pr[p].ent \in Entry /\ pr[p].rem \in 0 .. MaxLen /\ pr[p].rem > 0
  BY LocalFacts DEF ReadData, At, Local, CountOK
<1>2. CASE ~Readable(pr[p].cur)
  <2>1. Now(p, Ended(p, "ok", pr[p].ent, pr[p].out))
    BY <1>2 DEF ReadData
  <2> QED
    BY <1>1, <2>1, FinishInv
<1>3. CASE Readable(pr[p].cur)
  <2>1. b.data \in Chunk /\ b.next \in Ptr
    BY <1>3, BlockFacts
  <2>2. o \in Seq(Chunk)
    BY <1>1, <2>1
  <2>3. CASE Now(p, Ended(p, "ok", pr[p].ent, o))
    BY <1>1, <2>2, <2>3, FinishInv
  <2>4. CASE Now(p, l) /\ pr[p].rem # 1
    <3>1. r \in 0 .. MaxLen /\ r > 0
      BY <1>1, <2>4, SizesAssumption
    <3> HIDE DEF r, o
    <3>2. l \in Local
      BY <1>1, <2>1, <2>2, <3>1 DEF Local
    <3>3. CountOK(l)
      BY <1>1, <3>1 DEF CountOK, Local
    <3>4. Now(p, l)
      BY <2>4
    <3> HIDE DEF l
    <3> QED
      BY <3>2, <3>3, <3>4, NowInv
  <2> QED
    BY <1>3, <2>3, <2>4 DEF ReadData
<1> QED
  BY <1>2, <1>3

LEMMA SkipInv ==
  ASSUME IInv, NEW p \in Procs, Skip(p)
  PROVE  IInv'
<1> SUFFICES pr' \in [Procs -> Local] /\ NoUnderflow' /\ dirty' \in BOOLEAN
  BY DEF Skip, IInv, TypeOK, disk, counts
<1> DEFINE r == pr[p].rem - 1
           n == blk[pr[p].cur].next
           a == IF pr[p].rem = 1 THEN "readOne" ELSE "skip"
           m == [pr[p] EXCEPT !.pc = "readOne"]
           l == [pr[p] EXCEPT !.pc = a, !.rem = r, !.cur = n]
<1>1. /\ pr[p] \in Local /\ pr[p].rem \in 0 .. MaxLen /\ pr[p].rem > 0
      /\ dirty \in BOOLEAN
  BY LocalFacts DEF Skip, At, Local, CountOK, IInv, TypeOK
<1>2. CASE Now(p, m) /\ UNCHANGED dirty
  <2>1. m \in Local
    BY <1>1 DEF Local, PCs
  <2>2. CountOK(m)
    BY <1>1 DEF CountOK, Local
  <2> HIDE DEF m
  <2> QED
    BY <1>1, <1>2, <2>1, <2>2, NowInv
<1>3. CASE Finish(p, "err")
  BY <1>3, QuitInv
<1>4. CASE Readable(pr[p].cur) /\ Now(p, l) /\ UNCHANGED dirty
  <2>1. n \in Ptr
    BY <1>4, BlockFacts
  <2>2. r \in 0 .. MaxLen /\ a \in {"readOne", "skip"} /\ (a = "skip" => r > 0)
    BY <1>1, SizesAssumption
  <2> HIDE DEF r, n, a
  <2>3. l \in Local
    BY <1>1, <2>1, <2>2 DEF Local, PCs
  <2>4. CountOK(l)
    BY <1>1, <2>2 DEF CountOK, Local
  <2>5. Now(p, l)
    BY <1>4
  <2> HIDE DEF l
  <2> QED
    BY <1>1, <1>4, <2>3, <2>4, <2>5, NowInv
<1> QED
  BY <1>2, <1>3, <1>4 DEF Skip

LEMMA ReadOneInv ==
  ASSUME IInv, NEW p \in Procs, ReadOne(p)
  PROVE  IInv'
<1> SUFFICES pr' \in [Procs -> Local] /\ NoUnderflow'
  BY DEF ReadOne, IInv, TypeOK, disk, counts
<1>1. CASE Readable(pr[p].cur)
  <2>1. <<blk[pr[p].cur].data>> \in Seq(Chunk)
    BY <1>1, BlockFacts
  <2>2. Now(p, Ended(p, "ok", pr[p].ent, <<blk[pr[p].cur].data>>))
    BY <1>1 DEF ReadOne
  <2> QED
    BY <2>1, <2>2, LocalFacts, FinishInv
<1>2. CASE ~Readable(pr[p].cur)
  <2>1. Now(p, Ended(p, "err", Vacant, <<>>))
    BY <1>2 DEF ReadOne
  <2>2. <<>> \in Seq(Chunk)
    OBVIOUS
  <2> QED
    BY <2>1, <2>2, ZeroBlockType, FinishInv
<1> QED
  BY <1>1, <1>2

LEMMA RmReadInv ==
  ASSUME IInv, NEW p \in Procs, RmRead(p)
  PROVE  IInv'
<1> SUFFICES pr' \in [Procs -> Local] /\ NoUnderflow'
  BY DEF RmRead, IInv, TypeOK, disk, counts
<1> DEFINE n == blk[pr[p].cur].next
           l == [pr[p] EXCEPT !.pc = "rmFree", !.nxt = n]
           m == [pr[p] EXCEPT !.pc = "clrRead"]
<1>1. pr[p] \in Local
  BY LocalFacts
<1>2. CASE Readable(pr[p].cur)
  <2>1. n \in Ptr
    BY <1>2, BlockFacts
  <2>2. l \in Local
    BY <1>1, <2>1 DEF Local, PCs
  <2>3. CountOK(l)
    BY <1>1 DEF CountOK, Local
  <2>4. Now(p, l)
    BY <1>2 DEF RmRead
  <2> HIDE DEF l
  <2> QED
    BY <2>2, <2>3, <2>4, NowInv
<1>3. CASE ~Readable(pr[p].cur)
  <2>1. m \in Local
    BY <1>1 DEF Local, PCs
  <2>2. CountOK(m)
    BY <1>1 DEF CountOK, Local
  <2>3. Now(p, m)
    BY <1>3 DEF RmRead
  <2> HIDE DEF m
  <2> QED
    BY <2>1, <2>2, <2>3, NowInv
<1> QED
  BY <1>2, <1>3

LEMMA RmdirCheckInv ==
  ASSUME IInv, NEW p \in Procs, RmdirCheck(p)
  PROVE  IInv'
<1> SUFFICES pr' \in [Procs -> Local] /\ NoUnderflow'
  BY DEF RmdirCheck, IInv, TypeOK, disk, counts
<1> DEFINE l == [pr[p] EXCEPT !.pc = "rmFree", !.nxt = 0]
<1>1. CASE Now(p, l)
  <2>1. pr[p] \in Local /\ 0 \in Ptr
    BY LocalFacts, SizesAssumption DEF Ptr
  <2>2. l \in Local
    BY <2>1 DEF Local, PCs
  <2>3. CountOK(l)
    BY <2>1 DEF CountOK, Local
  <2> HIDE DEF l
  <2> QED
    BY <1>1, <2>2, <2>3, NowInv
<1>2. CASE Now(p, Ended(p, "err", Vacant, <<>>))
  <2>1. <<>> \in Seq(Chunk)
    OBVIOUS
  <2> QED
    BY <1>2, <2>1, ZeroBlockType, FinishInv
<1> QED
  BY <1>1, <1>2 DEF RmdirCheck

LEMMA FreeWriteInv ==
  ASSUME IInv, NEW p \in Procs, FreeWrite(p)
  PROVE  IInv'
<1> DEFINE l == [pr[p] EXCEPT !.pc = "rmSuper", !.head = pr[p].cur]
<1>1. pr[p] \in Local /\ pr[p].cur \in Ptr /\ pr[p].head \in Ptr
  BY LocalFacts DEF Local
<1>2. l \in Local
  BY <1>1 DEF Local, PCs
<1>3. CountOK(l)
  BY <1>1 DEF CountOK, Local
<1>4. Now(p, l)
  BY DEF FreeWrite
<1> HIDE DEF l
<1>5. pr' \in [Procs -> Local] /\ NoUnderflow'
  BY <1>2, <1>3, <1>4, NowInv
<1>6. blk' \in [Blocks -> Block]
  BY <1>1, ZeroBlockType DEF FreeWrite, IInv, TypeOK
<1> QED
  BY <1>5, <1>6 DEF FreeWrite, IInv, TypeOK, counts

LEMMA FreeSuperInv ==
  ASSUME IInv, NEW p \in Procs, FreeSuper(p)
  PROVE  IInv'
<1> DEFINE a == IF pr[p].nxt = 0 THEN "clrRead" ELSE "rmRead"
           l == [pr[p] EXCEPT !.pc = a, !.cur = pr[p].nxt, !.nxt = 0]
<1>1. /\ pr[p] \in Local /\ pr[p].nxt \in Ptr /\ pr[p].head \in Ptr
      /\ 0 \in Ptr /\ a \in {"clrRead", "rmRead"}
  BY LocalFacts, SizesAssumption DEF Local, Ptr
<1> HIDE DEF a
<1>2. l \in Local
  BY <1>1 DEF Local, PCs
<1>3. CountOK(l)
  BY <1>1 DEF CountOK, Local
<1>4. Now(p, l)
  BY DEF FreeSuper, a
<1> HIDE DEF l
<1>5. pr' \in [Procs -> Local] /\ NoUnderflow'
  BY <1>2, <1>3, <1>4, NowInv
<1> QED
  BY <1>1, <1>5 DEF FreeSuper, IInv, TypeOK, counts

LEMMA ClearReadInv ==
  ASSUME IInv, NEW p \in Procs, ClearRead(p)
  PROVE  IInv'
<1> DEFINE b == PutEntry(blk[1], pr[p].idx, Vacant)
           l == [pr[p] EXCEPT !.pc = "clrWrite", !.buf = b]
<1>1. pr[p] \in Local /\ blk[1] \in Block
  BY LocalFacts, SizesAssumption DEF IInv, TypeOK, Blocks
<1>2. b \in Block
  BY <1>1, ZeroBlockType, PutEntryType
<1> HIDE DEF b
<1>3. l \in Local
  BY <1>1, <1>2 DEF Local, PCs
<1>4. CountOK(l)
  BY <1>1 DEF CountOK, Local
<1>5. Now(p, l)
  BY DEF ClearRead, b
<1> HIDE DEF l
<1>6. pr' \in [Procs -> Local] /\ NoUnderflow'
  BY <1>3, <1>4, <1>5, NowInv
<1> QED
  BY <1>6 DEF ClearRead, IInv, TypeOK, disk, counts

LEMMA ClearWriteInv ==
  ASSUME IInv, NEW p \in Procs, ClearWrite(p)
  PROVE  IInv'
<1>1. pr' \in [Procs -> Local] /\ NoUnderflow' /\ dirty' \in BOOLEAN
  BY QuitInv DEF ClearWrite
<1>2. blk' \in [Blocks -> Block]
  BY LocalFacts DEF ClearWrite, IInv, TypeOK
<1> QED
  BY <1>1, <1>2 DEF ClearWrite, IInv, TypeOK, counts

LEMMA MkfsTruncInv ==
  ASSUME IInv, NEW p \in Procs, NEW c \in Menu[p], MkfsTrunc(p, c)
  PROVE  IInv'
<1> DEFINE l == [Idle EXCEPT !.pc = "fsSuper", !.cmd = c]
<1>1. Idle \in Local /\ c \in Command
  BY IdleType, MenuAssumption
<1>2. l \in Local
  BY <1>1 DEF Local, PCs
<1>3. CountOK(l)
  BY <1>1 DEF CountOK, Local
<1>4. CountOK(Idle)
  BY DEF CountOK, Idle
<1>5. pr' = [q \in Procs |-> IF q = p THEN l ELSE Idle]
  BY DEF MkfsTrunc
<1> HIDE DEF l
<1>6. pr' \in [Procs -> Local] /\ NoUnderflow'
  BY <1>1, <1>2, <1>3, <1>4, <1>5 DEF NoUnderflow
<1>7. blk' \in [Blocks -> Block]
  BY ZeroBlockType DEF MkfsTrunc
<1>8. starts' \in 0 .. MaxStarts /\ sbHead' \in Ptr
  BY SizesAssumption DEF MkfsTrunc, IInv, TypeOK, Ptr
<1>9. formatted' \in BOOLEAN /\ dirty' \in BOOLEAN
  BY DEF MkfsTrunc
<1> QED
  BY <1>6, <1>7, <1>8, <1>9 DEF MkfsTrunc, IInv, TypeOK

LEMMA MkfsSuperInv ==
  ASSUME IInv, NEW p \in Procs, MkfsSuper(p)
  PROVE  IInv'
<1> DEFINE l == [pr[p] EXCEPT !.pc = "fsRoot"]
           super == [c |-> SuperContent, k |-> 0]
           b == [blk[0] EXCEPT !.data = super]
<1>1. pr[p] \in Local /\ blk[0] \in Block
  BY LocalFacts, SizesAssumption DEF IInv, TypeOK, Blocks
<1>2. l \in Local
  BY <1>1 DEF Local, PCs
<1>3. CountOK(l)
  BY <1>1 DEF CountOK, Local
<1>4. Now(p, l)
  BY DEF MkfsSuper
<1> HIDE DEF l
<1>5. pr' \in [Procs -> Local] /\ NoUnderflow'
  BY <1>2, <1>3, <1>4, NowInv
<1>6. b \in Block
  <2>1. super \in Chunk
    BY SizesAssumption DEF Chunk
  <2> HIDE DEF super
  <2> QED
    BY <1>1, <2>1 DEF Block
<1>7. blk' = [blk EXCEPT ![0] = b]
  BY <1>1 DEF MkfsSuper, Block
<1> HIDE DEF b
<1>8. blk' \in [Blocks -> Block]
  BY <1>6, <1>7 DEF IInv, TypeOK
<1>9. sbHead' \in Ptr
  BY SizesAssumption DEF MkfsSuper, Ptr
<1> QED
  BY <1>5, <1>8, <1>9 DEF MkfsSuper, IInv, TypeOK, counts

LEMMA MkfsRootInv ==
  ASSUME IInv, NEW p \in Procs, MkfsRoot(p)
  PROVE  IInv'
<1> DEFINE l == [pr[p] EXCEPT !.pc = "fsChain", !.cur = 2]
<1>1. CASE Finish(p, "ok")
  BY <1>1, QuitInv, ZeroBlockType DEF MkfsRoot, IInv, TypeOK, counts
<1>2. CASE Now(p, l) /\ UNCHANGED dirty
  <2>1. pr[p] \in Local /\ 2 \in Ptr
    BY LocalFacts, SizesAssumption DEF Ptr
  <2>2. l \in Local
    BY <2>1 DEF Local, PCs
  <2>3. CountOK(l)
    BY <2>1 DEF CountOK, Local
  <2> HIDE DEF l
  <2>4. pr' \in [Procs -> Local] /\ NoUnderflow'
    BY <1>2, <2>2, <2>3, NowInv
  <2> QED
    BY <1>2, <2>4, ZeroBlockType DEF MkfsRoot, IInv, TypeOK, counts
<1> QED
  BY <1>1, <1>2 DEF MkfsRoot

LEMMA MkfsChainInv ==
  ASSUME IInv, NEW p \in Procs, MkfsChain(p)
  PROVE  IInv'
<1> DEFINE i == pr[p].cur
           n == i + 1
           next == IF i < NB-1 THEN n ELSE 0
           l == [pr[p] EXCEPT !.cur = n]
<1>1. pr[p] \in Local /\ i \in Ptr /\ pr[p].pc = "fsChain"
  BY LocalFacts DEF MkfsChain, At, Local
<1>2. next \in Ptr
  BY <1>1, SizesAssumption DEF Ptr
<1>3. blk' \in [Blocks -> Block]
  BY <1>2, ZeroBlockType DEF MkfsChain, IInv, TypeOK
<1>4. CASE Finish(p, "ok")
  BY <1>3, <1>4, QuitInv DEF MkfsChain, IInv, TypeOK, counts
<1>5. CASE i < NB-1 /\ Now(p, l) /\ UNCHANGED dirty
  <2>1. n \in Ptr
    BY <1>1, <1>5, SizesAssumption DEF Ptr
  <2> HIDE DEF n
  <2>2. l \in Local
    BY <1>1, <2>1 DEF Local
  <2>3. CountOK(l)
    BY <1>1 DEF CountOK, Local
  <2>4. Now(p, l)
    BY <1>5
  <2> HIDE DEF l
  <2>5. pr' \in [Procs -> Local] /\ NoUnderflow'
    BY <2>2, <2>3, <2>4, NowInv
  <2> QED
    BY <1>3, <1>5, <2>5 DEF MkfsChain, IInv, TypeOK, counts
<1> QED
  BY <1>4, <1>5 DEF MkfsChain

LEMMA CrashInv ==
  ASSUME IInv, NEW p \in Procs, Crash(p)
  PROVE  IInv'
<1>1. CountOK(Idle)
  BY DEF CountOK, Idle
<1>2. pr' \in [Procs -> Local] /\ NoUnderflow'
  BY <1>1, IdleType, NowInv DEF Crash
<1>3. crashes' \in 0 .. MaxCrashes
  BY SizesAssumption DEF Crash, IInv, TypeOK
<1> QED
  BY <1>2, <1>3 DEF Crash, IInv, TypeOK, disk

-----------------------------------------------------------------------------
LEMMA NextInv == IInv /\ [Next]_vars => IInv'
<1> SUFFICES ASSUME IInv, [Next]_vars PROVE IInv'
  OBVIOUS
<1>1. CASE UNCHANGED vars
  BY <1>1 DEF vars, IInv, TypeOK, NoUnderflow, CountOK
<1>2. ASSUME NEW p \in Procs, Step(p)
      PROVE  IInv'
  BY <1>2, ResolveInv, TraverseInv, AllocReadInv, AllocZeroInv, AllocSuperInv,
     CopyLinkInv, CopyWriteInv, DirZeroInv, InsReadInv, InsWriteInv, InsZeroInv,
     InsLinkInv, InsNewInv, FindInv, ReadDataInv, SkipInv, ReadOneInv, RmReadInv,
     RmdirCheckInv, FreeWriteInv, FreeSuperInv, ClearReadInv, ClearWriteInv,
     MkfsSuperInv, MkfsRootInv, MkfsChainInv
  DEF Step
<1>3. ASSUME NEW p \in Procs, NEW c \in Menu[p], Start(p, c) \/ MkfsTrunc(p, c)
      PROVE  IInv'
  BY <1>3, StartInv, MkfsTruncInv
<1>4. ASSUME NEW p \in Procs, Crash(p)
      PROVE  IInv'
  BY <1>4, CrashInv
<1> QED
  BY <1>1, <1>2, <1>3, <1>4 DEF Next

\* Every variable keeps its type: no pointer, slot number or size that a command
\* reads, computes or writes is out of range, whatever the volume, the shells
\* and the commands they run.
THEOREM TypeCorrect == Spec => []TypeOK
<1>1. IInv => TypeOK
  BY DEF IInv
<1> QED
  BY <1>1, InitInv, NextInv, PTL DEF Spec

\* The unsigned counts of mycopyTo, mycopyFrom and myreadBlock never wrap.
THEOREM CountsSound == Spec => []NoUnderflow
<1>1. IInv => NoUnderflow
  BY DEF IInv
<1> QED
  BY <1>1, InitInv, NextInv, PTL DEF Spec

-----------------------------------------------------------------------------
(* Chains as sequences.  g is the next pointer of every block of the volume. *)
(* The chain from b is spelled by the n blocks s[1], ..., s[n], all distinct.*)
Links == [d \in Data |-> blk[d].next]
Succ(g, b) == IF b \in Data THEN g[b] ELSE 0
Spells(g, b, n, s) ==
  /\ n \in Nat /\ s \in [1 .. n -> 1 .. NB]
  /\ b = IF n = 0 THEN 0 ELSE s[1]
  /\ \A i \in 1 .. n : Succ(g, s[i]) = IF i = n THEN 0 ELSE s[i+1]
  /\ \A i, j \in 1 .. n : s[i] = s[j] => i = j

\* The chain from b ends, its length, its blocks in order, and as a set.
Fine(g, b) == \E n : \E s : Spells(g, b, n, s)
Size(g, b) == CHOOSE n : \E s : Spells(g, b, n, s)
Order(g, b) == CHOOSE s : Spells(g, b, Size(g, b), s)
Body(g, b)   == {Order(g, b)[i] : i \in 1 .. Size(g, b)}

LEMMA Least ==
  ASSUME NEW S \in SUBSET Nat, S # {}
  PROVE  \E n \in S : \A m \in S : n <= m
<1>1. PICK n \in S : \A m \in S : ~(<<m, n>> \in OpToRel(<, Nat))
  BY NatLessThanWellFounded, WFMin
<1>2. \A m \in S : ~(m < n)
  BY <1>1 DEF OpToRel
<1> QED
  BY <1>2

LEMMA Unique ==
  ASSUME NEW g, NEW b, NEW n, NEW s, Spells(g, b, n, s),
         NEW m, NEW t, Spells(g, b, m, t)
  PROVE  n = m /\ s = t
<1> DEFINE D == {i \in 1 .. n : i <= m /\ s[i] # t[i]}
<1>0. n \in Nat /\ m \in Nat
  BY DEF Spells
<1>1. D = {}
  <2> SUFFICES ASSUME D # {} PROVE FALSE
    OBVIOUS
  <2>1. PICK i \in D : \A j \in D : i <= j
    <3>1. D \in SUBSET Nat
      BY <1>0
    <3> HIDE DEF D
    <3> QED
      BY <3>1, Least
  <2>2. i # 1
    BY <1>0, <2>1 DEF Spells
  <2>3. s[i-1] = t[i-1]
    BY <1>0, <2>1, <2>2
  <2>4. i-1 \in 1 .. n /\ i-1 \in 1 .. m /\ i-1 # n /\ i-1 # m /\ i-1+1 = i
    BY <1>0, <2>1, <2>2
  <2>5. Succ(g, s[i-1]) = s[i] /\ Succ(g, t[i-1]) = t[i]
    BY <2>4 DEF Spells
  <2> QED
    BY <2>1, <2>3, <2>5
<1>2. n = m
  <2>1. ASSUME NEW a, NEW x, NEW c, NEW y, Spells(g, b, a, x), Spells(g, b, c, y),
               a < c, \A i \in 1 .. a : x[i] = y[i]
        PROVE  FALSE
    <3>0. a \in Nat /\ c \in Nat
      BY <2>1 DEF Spells
    <3>1. CASE a = 0
      BY <2>1, <3>0, <3>1, SizesAssumption DEF Spells
    <3>2. CASE a # 0
      <4>1. a \in 1 .. a /\ a \in 1 .. c /\ a+1 \in 1 .. c /\ a # c
        BY <3>0, <3>2, <2>1
      <4>2. Succ(g, x[a]) = 0 /\ Succ(g, y[a]) = y[a+1] /\ y[a+1] \in 1 .. NB
        BY <2>1, <4>1 DEF Spells
      <4> QED
        BY <4>1, <4>2, <2>1, SizesAssumption
    <3> QED
      BY <3>1, <3>2
  <2>2. ~(n < m)
    BY <2>1, <1>0, <1>1
  <2>3. ~(m < n)
    <3>1. \A i \in 1 .. m : m < n => t[i] = s[i]
      BY <1>0, <1>1
    <3> QED
      BY <2>1, <1>0, <3>1
  <2> QED
    BY <1>0, <2>2, <2>3
<1>3. s \in [1 .. n -> 1 .. NB] /\ t \in [1 .. n -> 1 .. NB]
  BY <1>2 DEF Spells
<1>4. \A i \in 1 .. n : s[i] = t[i]
  BY <1>0, <1>1, <1>2
<1>5. s = t
  <2>1. s = [i \in 1 .. n |-> s[i]] /\ t = [i \in 1 .. n |-> t[i]]
    BY <1>3, Zenon
  <2>2. [i \in 1 .. n |-> s[i]] = [i \in 1 .. n |-> t[i]]
    BY <1>4, Zenon
  <2> QED
    BY <2>1, <2>2, Zenon
<1> QED
  BY <1>2, <1>5

LEMMA SpelledIs ==
  ASSUME NEW g, NEW b, NEW n, NEW s, Spells(g, b, n, s)
  PROVE  /\ Fine(g, b) /\ Size(g, b) = n /\ Order(g, b) = s
         /\ Body(g, b) = {s[i] : i \in 1 .. n}
<1>1. Fine(g, b)
  BY DEF Fine
<1>2. Size(g, b) = n
  <2>1. \E t : Spells(g, b, Size(g, b), t)
    BY DEF Size
  <2> QED
    BY <2>1, Unique
<1>3. Spells(g, b, n, Order(g, b))
  BY <1>2 DEF Order
<1>4. Order(g, b) = s
  BY <1>3, Unique
<1> QED
  BY <1>1, <1>2, <1>4 DEF Body

LEMMA FineIs ==
  ASSUME NEW g, NEW b, Fine(g, b)
  PROVE  /\ Spells(g, b, Size(g, b), Order(g, b))
         /\ Body(g, b) \subseteq 1 .. NB
<1>1. PICK n, s : Spells(g, b, n, s)
  BY DEF Fine
<1>2. Size(g, b) = n /\ Order(g, b) = s
  BY <1>1, SpelledIs
<1> QED
  BY <1>1, <1>2 DEF Body, Spells

LEMMA HopsSpelled ==
  ASSUME NEW b, NEW n, NEW s, Spells(Links, b, n, s)
  PROVE  \A i \in 0 .. NB : Hops(b)[i] = IF i < n THEN s[i+1] ELSE 0
<1> DEFINE F(i) == IF i < n THEN s[i+1] ELSE 0
           G(h) == [i \in 0 .. NB |-> IF i = 0 THEN b ELSE Hop(h[i-1])]
           f == [i \in 0 .. NB |-> F(i)]
<1>1. f = G(f)
  <2>1. ASSUME NEW i \in 0 .. NB PROVE F(i) = IF i = 0 THEN b ELSE Hop(f[i-1])
    <3>1. CASE i = 0
      BY <3>1, SizesAssumption DEF Spells
    <3>2. CASE i # 0
      <4>1. i-1 \in 0 .. NB /\ i-1+1 = i /\ f[i-1] = F(i-1)
        BY <3>2, SizesAssumption
      <4>2. CASE i-1 < n
        <5>1. i \in 1 .. n /\ n \in Nat
          BY <3>2, <4>2, SizesAssumption DEF Spells
        <5>2. f[i-1] = s[i]
          BY <4>1, <4>2
        <5>3. Succ(Links, s[i]) = F(i)
          BY <5>1 DEF Spells
        <5>4. Succ(Links, s[i]) = Hop(s[i])
          BY DEF Succ, Links, Hop
        <5> QED
          BY <3>2, <5>2, <5>3, <5>4
      <4>3. CASE ~(i-1 < n)
        <5>1. f[i-1] = 0 /\ F(i) = 0
          BY <4>1, <4>3, <3>2, SizesAssumption DEF Spells
        <5>2. Hop(0) = 0
          BY SizesAssumption DEF Hop, Data
        <5> QED
          BY <3>2, <5>1, <5>2
      <4> QED
        BY <4>2, <4>3
    <3> QED
      BY <3>1, <3>2
  <2> QED
    BY <2>1
<1>2. Hops(b) = G(Hops(b))
  <2> HIDE DEF f
  <2> QED
    BY <1>1 DEF Hops
<1>3. ASSUME NEW h, h = G(h) PROVE \A i \in 0 .. NB : h[i] = F(i)
  <2> DEFINE D == {i \in 0 .. NB : h[i] # F(i)}
  <2> SUFFICES ASSUME D # {} PROVE FALSE
    OBVIOUS
  <2>1. PICK i \in D : \A j \in D : i <= j
    <3>1. D \in SUBSET Nat
      BY SizesAssumption
    <3> HIDE DEF D
    <3> QED
      BY <3>1, Least
  <2>2. h[i] = (IF i = 0 THEN b ELSE Hop(h[i-1])) /\ f[i] = IF i = 0 THEN b ELSE Hop(f[i-1])
    BY <1>1, <1>3, <2>1
  <2>3. CASE i = 0
    BY <2>1, <2>2, <2>3
  <2>4. CASE i # 0
    <3>1. i-1 \in 0 .. NB /\ i-1 \notin D
      BY <2>1, <2>4, SizesAssumption
    <3>2. h[i-1] = F(i-1) /\ f[i-1] = F(i-1) /\ f[i] = F(i)
      BY <3>1, <2>1
    <3> QED
      BY <2>1, <2>2, <2>4, <3>2
  <2> QED
    BY <2>3, <2>4
<1> QED
  BY <1>2, <1>3

LEMMA Fits ==
  ASSUME NEW g, NEW b, NEW n, NEW s, Spells(g, b, n, s)
  PROVE  /\ n <= NB
         /\ Cardinality({s[i] : i \in 1 .. n}) = n
<1> DEFINE R == {s[i] : i \in 1 .. n}
<1>0. n \in Nat /\ NB \in Nat
  BY SizesAssumption DEF Spells
<1>1. IsFiniteSet(1 .. n) /\ Cardinality(1 .. n) = n /\ IsFiniteSet(1 .. NB)
      /\ Cardinality(1 .. NB) = NB
  BY <1>0, FS_Interval
<1>2. s \in Injection(1 .. n, 1 .. NB)
  BY DEF Spells, Injection, IsInjective
<1>3. n <= NB
  BY <1>1, <1>2, FS_Injection
<1>4. s \in Surjection(1 .. n, R) /\ s \in Injection(1 .. n, R)
  BY DEF Spells, Surjection, Injection, IsInjective
<1>5. Cardinality(R) = n
  BY <1>1, <1>4, FS_Surjection
<1> QED
  BY <1>3, <1>5

\* What ChainsApart says of a chain, from the sequence that spells it.
LEMMA ChainIs ==
  ASSUME NEW b, Fine(Links, b)
  PROVE  /\ Ends(b) /\ Chain(b) = Body(Links, b)
         /\ Size(Links, b) \in 0 .. NB /\ Cardinality(Chain(b)) = Size(Links, b)
         /\ \A i \in 1 .. Size(Links, b) : Hops(b)[i-1] = Order(Links, b)[i]
<1> DEFINE n == Size(Links, b)
           s == Order(Links, b)
<1>1. Spells(Links, b, n, s)
  BY FineIs
<1> HIDE DEF n, s
<1>2. n \in Nat /\ n <= NB /\ s \in [1 .. n -> 1 .. NB]
  <2>1. n <= NB
    BY <1>1, Fits
  <2> QED
    BY <1>1, <2>1 DEF Spells
<1>3. \A i \in 0 .. NB : Hops(b)[i] = IF i < n THEN s[i+1] ELSE 0
  BY <1>1, HopsSpelled
<1>4. Ends(b)
  BY <1>2, <1>3, SizesAssumption DEF Ends
<1>5. \A i \in 1 .. n : i-1 \in 0 .. NB /\ Hops(b)[i-1] = s[i] /\ s[i] # 0
  BY <1>2, <1>3, SizesAssumption
<1>6. Chain(b) = {s[i] : i \in 1 .. n}
  <2>1. ASSUME NEW x \in Chain(b) PROVE x \in {s[i] : i \in 1 .. n}
    <3>1. PICK i \in 0 .. NB : x = Hops(b)[i] /\ x # 0
      BY <2>1 DEF Chain
    <3>2. i < n /\ x = s[i+1]
      BY <3>1, <1>3
    <3> QED
      BY <3>1, <3>2, <1>2, SizesAssumption
  <2>2. ASSUME NEW i \in 1 .. n PROVE s[i] \in Chain(b)
    BY <1>5, <2>2 DEF Chain
  <2> QED
    BY <2>1, <2>2
<1>7. Body(Links, b) = {s[i] : i \in 1 .. n}
  BY DEF Body, n, s
<1>8. Cardinality(Chain(b)) = n
  BY <1>1, <1>6, Fits
<1>9. n \in 0 .. NB
  BY <1>2, SizesAssumption
<1> QED
  BY <1>4, <1>5, <1>6, <1>7, <1>8, <1>9 DEF n, s

-----------------------------------------------------------------------------
(* How chains change.                                                      *)

LEMMA Nowhere ==
  ASSUME NEW g
  PROVE  Fine(g, 0) /\ Size(g, 0) = 0 /\ Body(g, 0) = {}
<1> DEFINE s == [i \in 1 .. 0 |-> 1]
<1>1. Spells(g, 0, 0, s)
  BY SizesAssumption DEF Spells
<1> QED
  BY <1>1, SpelledIs

LEMMA Somewhere ==
  ASSUME NEW g, NEW b, Fine(g, b), b # 0
  PROVE  b \in Body(g, b)
<1>1. PICK n, s : Spells(g, b, n, s)
  BY DEF Fine
<1>2. n # 0 /\ n \in Nat /\ b = s[1]
  BY <1>1 DEF Spells
<1> QED
  BY <1>1, <1>2, SpelledIs

\* A chain does not notice a change outside it.
LEMMA Frame ==
  ASSUME NEW g, NEW h, NEW b, Fine(g, b),
         \A x \in Body(g, b) : Succ(h, x) = Succ(g, x)
  PROVE  /\ Fine(h, b) /\ Body(h, b) = Body(g, b)
         /\ Size(h, b) = Size(g, b) /\ Order(h, b) = Order(g, b)
<1>1. PICK n, s : Spells(g, b, n, s)
  BY DEF Fine
<1>2. \A i \in 1 .. n : Succ(h, s[i]) = Succ(g, s[i])
  BY <1>1, SpelledIs
<1>3. Spells(h, b, n, s)
  BY <1>1, <1>2 DEF Spells
<1> QED
  BY <1>1, <1>3, SpelledIs

\* A block in front of a chain.
LEMMA Push ==
  ASSUME NEW g, NEW b \in Data, Fine(g, g[b]), b \notin Body(g, g[b])
  PROVE  /\ Fine(g, b) /\ Body(g, b) = {b} \cup Body(g, g[b])
         /\ Size(g, b) = Size(g, g[b]) + 1
         /\ Order(g, b) = [i \in 1 .. Size(g, b) |-> IF i = 1 THEN b ELSE Order(g, g[b])[i-1]]
<1>1. PICK n, s : Spells(g, g[b], n, s)
  BY DEF Fine
<1> DEFINE m == n + 1
           t == [i \in 1 .. m |-> IF i = 1 THEN b ELSE s[i-1]]
<1>0. n \in Nat /\ s \in [1 .. n -> 1 .. NB] /\ b \in 1 .. NB /\ m \in Nat
  BY <1>1, SizesAssumption DEF Spells, Data
<1>2. \A i \in 1 .. n : s[i] # b
  BY <1>1, SpelledIs
<1>3. \A i \in 2 .. m : i-1 \in 1 .. n /\ t[i] = s[i-1]
  BY <1>0
<1>4. t[1] = b
  BY <1>0
<1>5. t \in [1 .. m -> 1 .. NB]
  BY <1>0, <1>3, <1>4
<1>6. ASSUME NEW i \in 1 .. m
      PROVE  Succ(g, t[i]) = IF i = m THEN 0 ELSE t[i+1]
  <2>1. CASE i = 1
    <3>1. Succ(g, t[i]) = IF n = 0 THEN 0 ELSE s[1]
      BY <1>1, <1>4, <2>1 DEF Spells, Succ
    <3> QED
      BY <1>0, <2>1, <3>1
  <2>2. CASE i # 1
    <3>1. i-1 \in 1 .. n /\ t[i] = s[i-1] /\ (i # m => t[i+1] = s[i]) /\ i-1+1 = i
      BY <1>0, <1>3, <2>2
    <3>2. Succ(g, s[i-1]) = IF i-1 = n THEN 0 ELSE s[i]
      BY <1>1, <3>1 DEF Spells
    <3> QED
      BY <1>0, <3>1, <3>2
  <2> QED
    BY <2>1, <2>2
<1>7. ASSUME NEW i \in 1 .. m, NEW j \in 1 .. m, t[i] = t[j]
      PROVE  i = j
  <2>1. CASE i = 1 \/ j = 1
    BY <1>2, <1>3, <1>4, <1>7, <2>1, <1>0
  <2>2. CASE i # 1 /\ j # 1
    <3>1. i-1 \in 1 .. n /\ j-1 \in 1 .. n /\ s[i-1] = s[j-1]
      BY <1>0, <1>3, <1>7, <2>2
    <3>2. i-1 = j-1
      BY <1>1, <3>1 DEF Spells
    <3> QED
      BY <3>2
  <2> QED
    BY <2>1, <2>2
<1>8. b = IF m = 0 THEN 0 ELSE t[1]
  BY <1>0, <1>4
<1>9. Spells(g, b, m, t)
  <2> HIDE DEF m, t
  <2> QED
    BY <1>0, <1>5, <1>6, <1>7, <1>8 DEF Spells
<1>10. {t[i] : i \in 1 .. m} = {b} \cup {s[i] : i \in 1 .. n}
  <2>1. ASSUME NEW i \in 1 .. m PROVE t[i] \in {b} \cup {s[j] : j \in 1 .. n}
    BY <1>0
  <2>2. ASSUME NEW j \in 1 .. n PROVE s[j] \in {t[i] : i \in 1 .. m}
    <3>1. j+1 \in 1 .. m /\ t[j+1] = s[j]
      BY <1>0
    <3> QED
      BY <3>1
  <2>3. b \in {t[i] : i \in 1 .. m}
    BY <1>0, <1>4
  <2> QED
    BY <2>1, <2>2, <2>3
<1>11. /\ Fine(g, b) /\ Size(g, b) = m /\ Order(g, b) = t
       /\ Body(g, b) = {t[i] : i \in 1 .. m}
  <2> HIDE DEF m, t
  <2> QED
    BY <1>9, SpelledIs
<1>12. /\ Size(g, g[b]) = n /\ Order(g, g[b]) = s
       /\ Body(g, g[b]) = {s[i] : i \in 1 .. n}
  BY <1>1, SpelledIs
<1> QED
  BY <1>10, <1>11, <1>12

\* The chain behind the first block of a chain.
LEMMA Pop ==
  ASSUME NEW g, NEW b \in Data, Fine(g, b)
  PROVE  /\ Fine(g, g[b]) /\ b \notin Body(g, g[b])
         /\ Body(g, b) = {b} \cup Body(g, g[b])
<1>1. PICK n, s : Spells(g, b, n, s)
  BY DEF Fine
<1> DEFINE m == n - 1
           t == [i \in 1 .. m |-> s[i+1]]
<1>0. n \in Nat /\ s \in [1 .. n -> 1 .. NB] /\ n # 0 /\ b = s[1] /\ m \in Nat
  BY <1>1, SizesAssumption DEF Spells, Data
<1>2. Succ(g, s[1]) = IF 1 = n THEN 0 ELSE s[2]
  BY <1>0, <1>1 DEF Spells
<1>3. \A i \in 1 .. m : i+1 \in 1 .. n /\ t[i] = s[i+1]
  BY <1>0
<1>4. t \in [1 .. m -> 1 .. NB]
  BY <1>0, <1>3
<1>5. ASSUME NEW i \in 1 .. m PROVE Succ(g, t[i]) = IF i = m THEN 0 ELSE t[i+1]
  <2>1. Succ(g, s[i+1]) = IF i+1 = n THEN 0 ELSE s[i+2]
    BY <1>0, <1>1, <1>3 DEF Spells
  <2>2. i # m => i+1 \in 1 .. m /\ t[i+1] = s[i+2]
    BY <1>0
  <2> QED
    BY <1>0, <1>3, <2>1, <2>2
<1>6. ASSUME NEW i \in 1 .. m, NEW j \in 1 .. m, t[i] = t[j] PROVE i = j
  <2>1. i+1 = j+1
    BY <1>1, <1>3, <1>6 DEF Spells
  <2> QED
    BY <2>1
<1>7. g[b] = IF m = 0 THEN 0 ELSE t[1]
  BY <1>0, <1>2 DEF Succ
<1>8. Spells(g, g[b], m, t)
  <2> HIDE DEF m, t
  <2> QED
    BY <1>0, <1>4, <1>5, <1>6, <1>7 DEF Spells
<1>9. b \notin {t[i] : i \in 1 .. m}
  <2>1. ASSUME NEW i \in 1 .. m PROVE s[i+1] # s[1]
    <3>1. i+1 \in 1 .. n /\ 1 \in 1 .. n /\ i+1 # 1
      BY <1>0
    <3> QED
      BY <1>1, <3>1 DEF Spells
  <2> QED
    BY <1>0, <1>3, <2>1
<1>10. {s[i] : i \in 1 .. n} = {b} \cup {t[i] : i \in 1 .. m}
  <2>1. ASSUME NEW i \in 1 .. n PROVE s[i] \in {b} \cup {t[j] : j \in 1 .. m}
    <3>1. CASE i = 1
      BY <1>0, <3>1
    <3>2. CASE i # 1
      <4>1. i-1 \in 1 .. m /\ t[i-1] = s[i]
        BY <1>0, <3>2
      <4> QED
        BY <4>1
    <3> QED
      BY <3>1, <3>2
  <2>2. \A j \in 1 .. m : t[j] \in {s[i] : i \in 1 .. n}
    BY <1>3
  <2>3. b \in {s[i] : i \in 1 .. n}
    BY <1>0
  <2> QED
    BY <2>1, <2>2, <2>3
<1>11. Fine(g, g[b]) /\ Body(g, g[b]) = {t[i] : i \in 1 .. m}
  <2> HIDE DEF m, t
  <2> QED
    BY <1>8, SpelledIs
<1> QED
  BY <1>1, <1>9, <1>10, <1>11, SpelledIs

\* A pointer in a chain leads into the chain.
LEMMA Onward ==
  ASSUME NEW g, NEW b, Fine(g, b), NEW x \in Body(g, b), Succ(g, x) # 0
  PROVE  Succ(g, x) \in Body(g, b)
<1>1. PICK n, s : Spells(g, b, n, s)
  BY DEF Fine
<1>2. PICK i \in 1 .. n : x = s[i]
  BY <1>1, SpelledIs
<1>3. n \in Nat /\ Succ(g, x) = IF i = n THEN 0 ELSE s[i+1]
  BY <1>1, <1>2 DEF Spells
<1>4. i+1 \in 1 .. n /\ Succ(g, x) = s[i+1]
  BY <1>3
<1> QED
  BY <1>1, <1>4, SpelledIs

\* The last block is the only one that points nowhere.
LEMMA LastIs ==
  ASSUME NEW g, NEW b, Fine(g, b), NEW c \in Body(g, b), Succ(g, c) = 0
  PROVE  /\ Size(g, b) \in Nat \ {0} /\ c = Order(g, b)[Size(g, b)]
<1>1. PICK n, s : Spells(g, b, n, s)
  BY DEF Fine
<1>2. PICK i \in 1 .. n : c = s[i]
  BY <1>1, SpelledIs
<1>3. n \in Nat /\ Succ(g, c) = IF i = n THEN 0 ELSE s[i+1]
  BY <1>1, <1>2 DEF Spells
<1>4. i = n
  <2> SUFFICES ASSUME i # n PROVE FALSE
    OBVIOUS
  <2>1. i+1 \in 1 .. n /\ s[i+1] = 0
    BY <1>3
  <2> QED
    BY <2>1, <1>1, SizesAssumption DEF Spells
<1> QED
  BY <1>1, <1>2, <1>3, <1>4, SpelledIs

\* A block behind the last block of a chain.
LEMMA Extend ==
  ASSUME NEW g, NEW h, NEW b, Fine(g, b), NEW c \in Body(g, b), Succ(g, c) = 0,
         NEW d \in Data, d \notin Body(g, b), Succ(h, c) = d, Succ(h, d) = 0,
         \A x \in Body(g, b) : x # c => Succ(h, x) = Succ(g, x)
  PROVE  /\ Fine(h, b) /\ Body(h, b) = Body(g, b) \cup {d}
         /\ Size(h, b) = Size(g, b) + 1
         /\ \A i \in 1 .. Size(g, b) : Order(h, b)[i] = Order(g, b)[i]
<1>1. PICK n, s : Spells(g, b, n, s)
  BY DEF Fine
<1> DEFINE m == n + 1
           t == [i \in 1 .. m |-> IF i = m THEN d ELSE s[i]]
<1>2. /\ Size(g, b) = n /\ Order(g, b) = s /\ Body(g, b) = {s[i] : i \in 1 .. n}
  BY <1>1, SpelledIs
<1>3. n # 0 /\ c = s[n]
  BY <1>2, LastIs
<1>0. /\ n \in Nat /\ s \in [1 .. n -> 1 .. NB] /\ m \in Nat /\ d \in 1 .. NB
      /\ b = s[1]
  BY <1>1, <1>3, SizesAssumption DEF Spells, Data
<1>4. \A i \in 1 .. n : i \in 1 .. m /\ i # m /\ t[i] = s[i]
  BY <1>0
<1>5. t[m] = d /\ m \in 1 .. m
  BY <1>0
<1>6. t \in [1 .. m -> 1 .. NB]
  BY <1>0
<1>7. ASSUME NEW i \in 1 .. m PROVE Succ(h, t[i]) = IF i = m THEN 0 ELSE t[i+1]
  <2>1. CASE i = m
    BY <1>5, <2>1
  <2>2. CASE i = n
    BY <1>0, <1>3, <1>4, <1>5, <2>2
  <2>3. CASE i # m /\ i # n
    <3>1. i \in 1 .. n /\ i+1 \in 1 .. n
      BY <1>0, <2>3
    <3>2. s[i] # c
      BY <1>0, <1>1, <1>3, <2>3, <3>1 DEF Spells
    <3>3. Succ(h, s[i]) = Succ(g, s[i])
      BY <1>2, <3>1, <3>2
    <3>4. Succ(g, s[i]) = s[i+1]
      BY <1>1, <2>3, <3>1 DEF Spells
    <3> QED
      BY <1>4, <2>3, <3>1, <3>3, <3>4
  <2> QED
    BY <2>1, <2>2, <2>3
<1>8. ASSUME NEW i \in 1 .. m, NEW j \in 1 .. m, t[i] = t[j] PROVE i = j
  <2>1. \A k \in 1 .. n : s[k] # d
    BY <1>2
  <2>2. \A k \in 1 .. m : k = m \/ k \in 1 .. n
    BY <1>0
  <2>3. i \in 1 .. n /\ j \in 1 .. n => i = j
    BY <1>1, <1>4, <1>8 DEF Spells
  <2> QED
    BY <1>4, <1>5, <1>8, <2>1, <2>2, <2>3
<1>9. b = IF m = 0 THEN 0 ELSE t[1]
  BY <1>0, <1>3, <1>4
<1>10. Spells(h, b, m, t)
  <2> HIDE DEF m, t
  <2> QED
    BY <1>0, <1>6, <1>7, <1>8, <1>9 DEF Spells
<1>11. {t[i] : i \in 1 .. m} = {s[i] : i \in 1 .. n} \cup {d}
  <2>1. \A i \in 1 .. m : i = m \/ i \in 1 .. n
    BY <1>0
  <2>2. \A i \in 1 .. m : t[i] \in {s[j] : j \in 1 .. n} \cup {d}
    BY <2>1, <1>4, <1>5
  <2>3. \A i \in 1 .. n : s[i] \in {t[j] : j \in 1 .. m}
    BY <1>4
  <2>4. d \in {t[j] : j \in 1 .. m}
    BY <1>5
  <2> QED
    BY <2>2, <2>3, <2>4
<1>12. /\ Fine(h, b) /\ Size(h, b) = m /\ Order(h, b) = t
       /\ Body(h, b) = {t[i] : i \in 1 .. m}
  <2> HIDE DEF m, t
  <2> QED
    BY <1>10, SpelledIs
<1>13. \A i \in 1 .. n : t[i] = s[i]
  BY <1>4
<1> QED
  BY <1>2, <1>11, <1>12, <1>13

-----------------------------------------------------------------------------
(* A volume: a free chain from f, the directory from 1, and the chains from *)
(* st[c] for the entries c in S, which share no block.                      *)

Vol(g, f, S, st) ==
  /\ Fine(g, f) /\ Fine(g, 1) /\ Body(g, 1) \subseteq Data
  /\ Body(g, 1) \cap Body(g, f) = {}
  /\ \A c \in S : /\ Fine(g, st[c]) /\ Body(g, st[c]) \subseteq Data
                  /\ Body(g, st[c]) \cap Body(g, 1) = {}
                  /\ Body(g, st[c]) \cap Body(g, f) = {}
  /\ \A c, d \in S : c # d => Body(g, st[c]) \cap Body(g, st[d]) = {}

\* The blocks X are in none of its chains.
Off(g, f, S, st, X) ==
  /\ X \cap Body(g, 1) = {} /\ X \cap Body(g, f) = {}
  /\ \A c \in S : X \cap Body(g, st[c]) = {}

\* A chain from m that is no part of it.
Mine(g, f, S, st, m) ==
  Fine(g, m) /\ Body(g, m) \subseteq Data /\ Off(g, f, S, st, Body(g, m))

\* A write outside the volume.
LEMMA VolFrame ==
  ASSUME NEW g, NEW h, NEW f, NEW S, NEW st, NEW X, Vol(g, f, S, st),
         Off(g, f, S, st, X), \A y \in 1 .. NB : y \notin X => Succ(h, y) = Succ(g, y)
  PROVE  /\ Vol(h, f, S, st)
         /\ Body(h, 1) = Body(g, 1) /\ Body(h, f) = Body(g, f)
         /\ \A c \in S : Body(h, st[c]) = Body(g, st[c])
         /\ \A Y : Off(g, f, S, st, Y) => Off(h, f, S, st, Y)
<1>1. ASSUME NEW b, Fine(g, b), X \cap Body(g, b) = {}
      PROVE  Fine(h, b) /\ Body(h, b) = Body(g, b)
  <2>1. \A x \in Body(g, b) : Succ(h, x) = Succ(g, x)
    BY <1>1, FineIs
  <2> QED
    BY <1>1, <2>1, Frame
<1>2. Fine(h, 1) /\ Body(h, 1) = Body(g, 1)
  BY <1>1 DEF Vol, Off
<1>3. Fine(h, f) /\ Body(h, f) = Body(g, f)
  BY <1>1 DEF Vol, Off
<1>4. \A c \in S : Fine(h, st[c]) /\ Body(h, st[c]) = Body(g, st[c])
  BY <1>1 DEF Vol, Off
<1>5. Vol(h, f, S, st)
  BY <1>2, <1>3, <1>4 DEF Vol
<1>6. \A Y : Off(g, f, S, st, Y) => Off(h, f, S, st, Y)
  BY <1>2, <1>3, <1>4 DEF Off
<1> QED
  BY <1>2, <1>3, <1>4, <1>5, <1>6

\* The chain in hand under a write outside it.
LEMMA MineFrame ==
  ASSUME NEW g, NEW h, NEW f, NEW S, NEW st, NEW X, NEW m, Vol(g, f, S, st),
         Off(g, f, S, st, X), \A y \in 1 .. NB : y \notin X => Succ(h, y) = Succ(g, y),
         Mine(g, f, S, st, m), X \cap Body(g, m) = {}
  PROVE  Mine(h, f, S, st, m) /\ Body(h, m) = Body(g, m)
<1>1. \A x \in Body(g, m) : Succ(h, x) = Succ(g, x)
  BY FineIs DEF Mine
<1>2. Fine(h, m) /\ Body(h, m) = Body(g, m)
  BY <1>1, Frame DEF Mine
<1>3. Off(h, f, S, st, Body(g, m))
  BY VolFrame DEF Mine
<1> QED
  BY <1>2, <1>3 DEF Mine

LEMMA VolFewer ==
  ASSUME NEW g, NEW f, NEW S, NEW st, Vol(g, f, S, st),
         NEW T \in SUBSET S, NEW su, \A c \in T : su[c] = st[c]
  PROVE  /\ Vol(g, f, T, su)
         /\ \A Y : Off(g, f, S, st, Y) => Off(g, f, T, su, Y)
<1>1. Vol(g, f, T, su)
  BY DEF Vol
<1>2. \A Y : Off(g, f, S, st, Y) => Off(g, f, T, su, Y)
  BY DEF Off
<1> QED
  BY <1>1, <1>2

\* The chain in hand becomes the chain of the entry e.
LEMMA VolMore ==
  ASSUME NEW g, NEW f, NEW S, NEW st, Vol(g, f, S, st), NEW m, Mine(g, f, S, st, m),
         NEW e, NEW T, T \subseteq S \cup {e}
  PROVE  Vol(g, f, T, [c \in T |-> IF c = e THEN m ELSE st[c]])
<1> DEFINE su == [c \in T |-> IF c = e THEN m ELSE st[c]]
<1>1. \A c \in T : /\ Fine(g, su[c]) /\ Body(g, su[c]) \subseteq Data
                   /\ Body(g, su[c]) \cap Body(g, 1) = {}
                   /\ Body(g, su[c]) \cap Body(g, f) = {}
  BY DEF Vol, Mine, Off
<1>2. ASSUME NEW c \in T, NEW d \in T, c # d
      PROVE  Body(g, su[c]) \cap Body(g, su[d]) = {}
  <2>1. CASE c = e
    BY <1>2, <2>1 DEF Mine, Off
  <2>2. CASE d = e
    BY <1>2, <2>2 DEF Mine, Off
  <2>3. CASE c # e /\ d # e
    BY <1>2, <2>3 DEF Vol
  <2> QED
    BY <2>1, <2>2, <2>3
<1> QED
  BY <1>1, <1>2 DEF Vol

\* free_block: a block in front of the free chain.
LEMMA VolPush ==
  ASSUME NEW g, NEW f, NEW S, NEW st, Vol(g, f, S, st),
         NEW b \in Data, g[b] = f, Off(g, f, S, st, {b})
  PROVE  /\ Vol(g, b, S, st) /\ Body(g, b) = {b} \cup Body(g, f)
         /\ \A Y : Off(g, f, S, st, Y) /\ b \notin Y => Off(g, b, S, st, Y)
<1>1. Fine(g, b) /\ Body(g, b) = {b} \cup Body(g, f)
  BY Push DEF Vol, Off
<1>2. Vol(g, b, S, st)
  BY <1>1 DEF Vol, Off
<1>3. \A Y : Off(g, f, S, st, Y) /\ b \notin Y => Off(g, b, S, st, Y)
  BY <1>1 DEF Off
<1> QED
  BY <1>1, <1>2, <1>3

\* allocate_block: the first free block is cut off from the rest, and the rest
\* becomes the free chain.
LEMMA VolCut ==
  ASSUME NEW g, NEW h, NEW f \in Data, NEW S, NEW st, Vol(g, f, S, st),
         Succ(h, f) = 0, \A y \in 1 .. NB : y # f => Succ(h, y) = Succ(g, y)
  PROVE  /\ Vol(h, f, S, st) /\ Body(h, f) = {f} 
         /\ Fine(h, g[f]) /\ Off(h, f, S, st, Body(h, g[f]))
         /\ Body(h, g[f]) \subseteq Body(g, f) /\ Body(h, 1) = Body(g, 1)
         /\ \A Y : Off(g, f, S, st, Y) => Off(h, f, S, st, Y)
<1>1. /\ Fine(g, g[f]) /\ f \notin Body(g, g[f]) /\ Body(g, f) = {f} \cup Body(g, g[f])
  BY Pop DEF Vol
<1>2. ASSUME NEW b, Fine(g, b), f \notin Body(g, b)
      PROVE  Fine(h, b) /\ Body(h, b) = Body(g, b)
  <2>1. \A x \in Body(g, b) : Succ(h, x) = Succ(g, x)
    BY <1>2, FineIs
  <2> QED
    BY <1>2, <2>1, Frame
<1>3. Fine(h, g[f]) /\ Body(h, g[f]) = Body(g, g[f])
  BY <1>1, <1>2
<1>4. Fine(h, f) /\ Body(h, f) = {f}
  <2>1. h[f] = 0
    BY DEF Succ
  <2> QED
    BY <2>1, Nowhere, Push
<1>5. Fine(h, 1) /\ Body(h, 1) = Body(g, 1)
  BY <1>1, <1>2 DEF Vol
<1>6. \A c \in S : Fine(h, st[c]) /\ Body(h, st[c]) = Body(g, st[c])
  BY <1>1, <1>2 DEF Vol
<1>7. Vol(h, f, S, st)
  BY <1>1, <1>4, <1>5, <1>6 DEF Vol
<1>8. Off(h, f, S, st, Body(h, g[f]))
  BY <1>1, <1>3, <1>4, <1>5, <1>6 DEF Vol, Off
<1>9. \A Y : Off(g, f, S, st, Y) => Off(h, f, S, st, Y)
  BY <1>1, <1>4, <1>5, <1>6 DEF Off
<1> QED
  BY <1>1, <1>3, <1>4, <1>5, <1>7, <1>8, <1>9

LEMMA VolTake ==
  ASSUME NEW g, NEW f, NEW S, NEW st, Vol(g, f, S, st),
         NEW x, Fine(g, x), Off(g, f, S, st, Body(g, x))
  PROVE  /\ Vol(g, x, S, st) /\ Off(g, x, S, st, Body(g, f))
         /\ \A Y : Off(g, f, S, st, Y) /\ Y \cap Body(g, x) = {} => Off(g, x, S, st, Y)
<1>1. Vol(g, x, S, st)
  BY DEF Vol, Off
<1>2. Off(g, x, S, st, Body(g, f))
  BY DEF Vol, Off
<1>3. \A Y : Off(g, f, S, st, Y) /\ Y \cap Body(g, x) = {} => Off(g, x, S, st, Y)
  BY DEF Off
<1> QED
  BY <1>1, <1>2, <1>3

\* dir_insert_entry: the directory grows by a block.
LEMMA VolGrow ==
  ASSUME NEW g, NEW h, NEW f, NEW S, NEW st, Vol(g, f, S, st),
         NEW c \in Body(g, 1), Succ(g, c) = 0,
         NEW d \in Data, Off(g, f, S, st, {d}), Succ(g, d) = 0, Succ(h, c) = d,
         \A y \in 1 .. NB : y # c => Succ(h, y) = Succ(g, y)
  PROVE  /\ Vol(h, f, S, st) /\ Body(h, 1) = Body(g, 1) \cup {d}
         /\ \A m : Mine(g, f, S, st, m) /\ d \notin Body(g, m) => Mine(h, f, S, st, m)
<1>1. ASSUME NEW b, Fine(g, b), c \notin Body(g, b)
      PROVE  Fine(h, b) /\ Body(h, b) = Body(g, b)
  <2>1. \A x \in Body(g, b) : Succ(h, x) = Succ(g, x)
    BY <1>1, FineIs
  <2> QED
    BY <1>1, <2>1, Frame
<1>2. Fine(h, f) /\ Body(h, f) = Body(g, f)
  BY <1>1 DEF Vol
<1>3. \A e \in S : Fine(h, st[e]) /\ Body(h, st[e]) = Body(g, st[e])
  BY <1>1 DEF Vol
<1>4. Fine(h, 1) /\ Body(h, 1) = Body(g, 1) \cup {d}
  <2>1. d \in 1 .. NB /\ d # c /\ d \notin Body(g, 1)
    BY SizesAssumption DEF Off, Data
  <2>2. Succ(h, d) = 0
    BY <2>1
  <2>3. Fine(g, 1) /\ \A x \in Body(g, 1) : x # c => Succ(h, x) = Succ(g, x)
    BY FineIs DEF Vol
  <2> QED
    BY <2>1, <2>2, <2>3, Extend
<1>5. Vol(h, f, S, st)
  BY <1>2, <1>3, <1>4 DEF Vol, Off
<1>6. ASSUME NEW m, Mine(g, f, S, st, m), d \notin Body(g, m)
      PROVE  Mine(h, f, S, st, m)
  <2>1. Fine(h, m) /\ Body(h, m) = Body(g, m)
    BY <1>1, <1>6 DEF Mine, Off
  <2> QED
    BY <1>2, <1>3, <1>4, <1>6, <2>1 DEF Mine, Off
<1> QED
  BY <1>4, <1>5, <1>6

\* mycopyTo: the chain in hand grows by a block.
LEMMA MineGrow ==
  ASSUME NEW g, NEW h, NEW f, NEW S, NEW st, Vol(g, f, S, st), NEW m,
         Mine(g, f, S, st, m), NEW c \in Body(g, m), Succ(g, c) = 0,
         NEW d \in Data, Off(g, f, S, st, {d}), d \notin Body(g, m), Succ(g, d) = 0,
         Succ(h, c) = d, \A y \in 1 .. NB : y # c => Succ(h, y) = Succ(g, y)
  PROVE  /\ Vol(h, f, S, st) /\ Mine(h, f, S, st, m) /\ Body(h, m) = Body(g, m) \cup {d}
         /\ Body(h, 1) = Body(g, 1)
<1>1. Fine(h, m) /\ Body(h, m) = Body(g, m) \cup {d}
  <2>1. d \in 1 .. NB /\ d # c
    BY SizesAssumption DEF Data
  <2>2. Succ(h, d) = 0
    BY <2>1
  <2>3. Fine(g, m) /\ \A x \in Body(g, m) : x # c => Succ(h, x) = Succ(g, x)
    BY FineIs DEF Mine
  <2> QED
    BY <2>1, <2>2, <2>3, Extend
<1>2. Off(g, f, S, st, {c})
  BY DEF Mine, Off
<1>3. /\ Vol(h, f, S, st) /\ Body(h, 1) = Body(g, 1)
      /\ \A Y : Off(g, f, S, st, Y) => Off(h, f, S, st, Y)
  <2>1. \A y \in 1 .. NB : y \notin {c} => Succ(h, y) = Succ(g, y)
    OBVIOUS
  <2> QED
    BY <1>2, <2>1, VolFrame
<1>4. Off(h, f, S, st, Body(g, m) \cup {d})
  <2>1. Off(g, f, S, st, Body(g, m) \cup {d})
    BY DEF Mine, Off
  <2> QED
    BY <1>3, <2>1
<1>5. Body(h, m) \subseteq Data
  BY <1>1 DEF Mine
<1> QED
  BY <1>1, <1>3, <1>4, <1>5 DEF Mine

-----------------------------------------------------------------------------
(* The chains of the volume, and the blocks a running command has in hand.  *)
(* What is assumed of the behaviour: at most one command that changes the   *)
(* volume runs at a time, every removal found its entry in the first block  *)
(* of the directory, and no removal is killed.                              *)

Writes == {"mymkfs", "mycopyTo", "mymkdir", "myrm", "myrmdir"}
Writing(p) == ~At(p, "idle") /\ op(p) \in Writes
OneWriter == \A p, q \in Procs : Writing(p) /\ Writing(q) => p = q
InFirstBlock == \A p \in Procs : Removing(p) => pr[p].at = 1
Careful == OneWriter /\ InFirstBlock
RemovalsEnd == Fragile \cap {"myrm", "myrmdir"} = {}

OK(b)   == Fine(Links, b)
Blks(b) == Body(Links, b)
Starts  == [c \in Live |-> At2(c).start]
Volume  == /\ Vol(Links, sbHead, Live, Starts)
           /\ \A c \in Live : At2(c).type = DIR => At2(c).start # 0
Apart(X) == Off(Links, sbHead, Live, Starts, X)
Held(m)  == Mine(Links, sbHead, Live, Starts, m)
Last(b, c) == c \in Blks(b) /\ c \in Data /\ blk[c].next = 0

\* mycopyTo and mymkdir.  A nonzero idx in "alloc" is the growth of a directory.
Hand(p) == IF pr[p].idx = 0 THEN pr[p].first ELSE pr[p].ent.start
Adding(p) == \/ op(p) = "mycopyTo" /\ pr[p].ent.type = FILE
             \/ op(p) = "mymkdir"
Building(p) == /\ Adding(p) /\ pr[p].idx = 0 /\ Held(pr[p].first)
               /\ IF pr[p].first = 0 THEN pr[p].cur \in Blks(1)
                  ELSE /\ op(p) = "mycopyTo" /\ pr[p].buf.next = 0
                       /\ Last(pr[p].first, pr[p].cur)
ToInsert(p) == /\ Adding(p) /\ Held(pr[p].ent.start)
               /\ pr[p].ent.type = DIR => pr[p].ent.start # 0
Growing(p) == /\ ToInsert(p) /\ pr[p].idx = 1 /\ Last(1, pr[p].cur)
              /\ pr[p].buf = blk[pr[p].cur]
Wanting(p) == IF pr[p].idx = 0 THEN Building(p) ELSE Growing(p)
\* The block allocate_block returned, before a chain takes it.
Spare(p) == /\ pr[p].head = sbHead /\ pr[p].new \in Data /\ blk[pr[p].new] = ZeroBlock
            /\ Apart({pr[p].new}) /\ pr[p].new \notin Blks(Hand(p))

AtResolve(p) == /\ pr[p].head = sbHead /\ pr[p].cur \in Blks(1)
                /\ pr[p].first = 0 /\ pr[p].idx = 0
AtAlloc(p) == pr[p].head = sbHead /\ Wanting(p)
AtAllocZero(p) == /\ pr[p].new = sbHead /\ pr[p].new \in Data
                  /\ pr[p].head = blk[pr[p].new].next /\ Wanting(p)
AtAllocSuper(p) == /\ pr[p].new = sbHead /\ pr[p].new \in Data
                   /\ blk[pr[p].new] = ZeroBlock /\ OK(pr[p].head)
                   /\ Apart(Blks(pr[p].head))
                   /\ Blks(pr[p].head) \cap Blks(Hand(p)) = {} /\ Wanting(p)
AtLink(p) == Spare(p) /\ Building(p) /\ pr[p].first # 0
AtWrite(p) == /\ pr[p].head = sbHead /\ Adding(p) /\ op(p) = "mycopyTo" /\ pr[p].idx = 0
              /\ Held(pr[p].first) /\ Last(pr[p].first, pr[p].cur)
AtDirZero(p) == Spare(p) /\ Building(p) /\ op(p) = "mymkdir"
AtInsRead(p) == /\ pr[p].head = sbHead /\ pr[p].idx = 0 /\ ToInsert(p)
                /\ pr[p].cur \in Blks(1)
AtInsWrite(p) == /\ ToInsert(p) /\ pr[p].cur \in Blks(1) /\ pr[p].idx \in Slots
                 /\ ~Used(blk[pr[p].cur].ents[pr[p].idx])
                 /\ pr[p].buf = PutEntry(blk[pr[p].cur], pr[p].idx, pr[p].ent)
AtInsLink(p) == Spare(p) /\ Growing(p)
AtInsNew(p) == ToInsert(p) /\ pr[p].new \in Blks(1) /\ blk[pr[p].new] = ZeroBlock

\* myrm and myrmdir.  The first block of the entry is still to be freed, or it
\* is in the free chain.
AtFind(p) == pr[p].head = sbHead /\ pr[p].cur \in Blks(1)
AtRmdirCheck(p) == /\ op(p) = "myrmdir"
                   /\ pr[p].head = sbHead /\ pr[p].cur # 0 /\ pr[p].idx \in Slots
                   /\ <<pr[p].at, pr[p].idx>> \in Live
                   /\ At2(<<pr[p].at, pr[p].idx>>) = pr[p].ent
                   /\ pr[p].ent.start = pr[p].cur
Gone(p) == pr[p].ent.start \in {0} \cup Blks(sbHead)
AtRmRead(p) == /\ op(p) \in {"myrm", "myrmdir"}
               /\ pr[p].head = sbHead /\ pr[p].cur # 0 /\ Held(pr[p].cur)
               /\ pr[p].ent.start = pr[p].cur \/ Gone(p)
AtRmFree(p) == /\ AtRmRead(p) /\ OK(pr[p].nxt)
               /\ Blks(pr[p].nxt) \subseteq Blks(pr[p].cur) \ {pr[p].cur}
AtRmSuper(p) == /\ op(p) \in {"myrm", "myrmdir"}
                /\ pr[p].head = pr[p].cur /\ pr[p].cur \in Data
                /\ blk[pr[p].cur].next = sbHead /\ Apart({pr[p].cur})
                /\ Held(pr[p].nxt) /\ pr[p].cur \notin Blks(pr[p].nxt)
                /\ pr[p].ent.start = pr[p].cur \/ Gone(p)
AtClrRead(p) == op(p) \in {"myrm", "myrmdir"} /\ pr[p].idx \in Slots /\ Gone(p)
AtClrWrite(p) == AtClrRead(p) /\ pr[p].buf = PutEntry(blk[1], pr[p].idx, Vacant)

Phase(p) ==
  /\ formatted
  /\ pr[p].pc \notin {"fsSuper", "fsRoot", "fsChain", "readData", "skip", "readOne"}
  /\ At(p, "resolve") => AtResolve(p)
  /\ At(p, "alloc") => AtAlloc(p)
  /\ At(p, "allocZero") => AtAllocZero(p)
  /\ At(p, "allocSuper") => AtAllocSuper(p)
  /\ At(p, "link") => AtLink(p)
  /\ At(p, "write") => AtWrite(p)
  /\ At(p, "dirZero") => AtDirZero(p)
  /\ At(p, "insRead") => AtInsRead(p)
  /\ At(p, "insWrite") => AtInsWrite(p)
  /\ At(p, "insZero") \/ At(p, "insLink") => AtInsLink(p)
  /\ At(p, "insNew") => AtInsNew(p)
  /\ At(p, "find") => AtFind(p)
  /\ At(p, "rmdirCheck") => AtRmdirCheck(p)
  /\ At(p, "rmRead") => AtRmRead(p) /\ pr[p].idx \in Slots
  /\ At(p, "rmFree") => AtRmFree(p) /\ pr[p].idx \in Slots
  /\ At(p, "rmSuper") => AtRmSuper(p) /\ pr[p].idx \in Slots
  /\ At(p, "clrRead") => AtClrRead(p)
  /\ At(p, "clrWrite") => AtClrWrite(p)

\* mymkfs: no entry yet, and the free chain holds the blocks up to the last one
\* that was written.
MkfsPhase(p) ==
  /\ pr[p].pc \in {"fsSuper", "fsRoot", "fsChain"}
  /\ At(p, "fsSuper") => ~formatted /\ \A b \in Data : blk[b] = ZeroBlock
  /\ At(p, "fsRoot") => /\ formatted /\ sbHead = 2
                        /\ \A b \in Data : blk[b] = ZeroBlock
  /\ At(p, "fsChain") => /\ formatted /\ sbHead = 2 /\ pr[p].cur \in 2 .. NB-1
                         /\ \A b \in Data : blk[b].ents = ZeroBlock.ents
                         /\ \A b \in Data : b = 1 \/ b >= pr[p].cur => blk[b].next = 0
                         /\ Blks(2) = 2 .. pr[p].cur

Running(p) ==
  /\ pr[p].res = "none"
  /\ IF op(p) \notin Writes
     THEN pr[p].pc \in {"resolve", "find", "readData", "skip", "readOne"}
     ELSE IF op(p) = "mymkfs" THEN MkfsPhase(p) ELSE Phase(p)
CInv == /\ formatted => Volume
        /\ \A p \in Procs : ~At(p, "idle") => Running(p)

-----------------------------------------------------------------------------
(* What a step does not touch.                                             *)

\* No other command changes the volume.
Alone(p) == \A q \in Procs : q # p => ~Writing(q)

LEMMA LinkFacts ==
  ASSUME IInv, NEW b \in Data
  PROVE  /\ b \in Blocks /\ b \in 1 .. NB /\ b # 0 /\ b # NB /\ b \in Ptr
         /\ Links[b] = blk[b].next /\ Succ(Links, b) = blk[b].next
         /\ blk[b] \in Block /\ blk[b].next \in Ptr
BY SizesAssumption DEF Links, Succ, Data, Blocks, Ptr, IInv, TypeOK, Block

\* One block is written.
LEMMA OneLink ==
  ASSUME IInv, NEW x \in Blocks, NEW B, blk' = [blk EXCEPT ![x] = B]
  PROVE  /\ \A y \in 1 .. NB : y # x => Succ(Links', y) = Succ(Links, y)
         /\ x \in Data => Succ(Links', x) = B.next /\ Links'[x] = B.next
         /\ B.next = blk[x].next => Links' = Links
<1>1. \A y \in Data : blk'[y] = IF y = x THEN B ELSE blk[y]
  BY SizesAssumption DEF IInv, TypeOK, Data, Blocks
<1>2. \A y \in 1 .. NB : y # x => Succ(Links', y) = Succ(Links, y)
  BY <1>1 DEF Succ, Links
<1>3. x \in Data => Succ(Links', x) = B.next /\ Links'[x] = B.next
  BY <1>1 DEF Succ, Links
<1>4. B.next = blk[x].next => Links' = Links
  BY <1>1 DEF Links
<1> QED
  BY <1>2, <1>3, <1>4

\* The live entries, from the blocks of the directory.
LiveFact == formatted /\ OK(1) /\ Blks(1) \subseteq Data =>
              Live = {c \in Blks(1) \X Slots : Used(At2(c))} \ Doomed

LEMMA LiveIs == LiveFact
<1> SUFFICES ASSUME formatted, OK(1), Blks(1) \subseteq Data
             PROVE  Live = {c \in Blks(1) \X Slots : Used(At2(c))} \ Doomed
  BY DEF LiveFact
<1>1. Chain(1) \cap Data = Blks(1)
  BY ChainIs DEF Blks, OK
<1> QED
  BY <1>1 DEF Live, Cells

LEMMA LiveIsNext == LiveFact'
BY LiveIs, PTL

\* Only a removal dooms an entry.
DoomedBy(p) == IF Removing(p) THEN {<<pr[p].at, pr[p].idx>>} ELSE {}

LEMMA DoomedIs ==
  ASSUME NEW p \in Procs, Alone(p)
  PROVE  Doomed = DoomedBy(p)
<1>1. \A q \in Procs : Removing(q) => q = p
  BY DEF Alone, Writing, Writes, Removing, At
<1> QED
  BY <1>1 DEF Doomed, DoomedBy

LEMMA RemovingIs ==
  ASSUME NEW p \in Procs
  PROVE  Removing(p) => Writing(p)
BY DEF Writing, Writes, Removing, At

\* The step of one command leaves the locals of the others alone.
LEMMA AloneNext ==
  ASSUME IInv, NEW p \in Procs, Alone(p), NEW l, Now(p, l)
  PROVE  /\ pr'[p] = l /\ \A q \in Procs : q # p => pr'[q] = pr[q]
         /\ Doomed = DoomedBy(p) /\ Doomed' = DoomedBy(p)'
         /\ \A q \in Procs : q # p => ~Writing(q)'
<1>1. pr'[p] = l /\ \A q \in Procs : q # p => pr'[q] = pr[q]
  BY DEF Now, IInv, TypeOK
<1>2. \A q \in Procs : q # p => ~Writing(q)'
  BY <1>1 DEF Alone, Writing, At, op
<1>3. \A q \in Procs : Removing(q)' => q = p
  BY <1>2 DEF Writing, Writes, Removing, At, op
<1>4. Doomed' = DoomedBy(p)'
  BY <1>3 DEF Doomed, DoomedBy
<1> QED
  BY <1>1, <1>2, <1>4, DoomedIs

\* What remains to show of the step of a command that changes the volume.
LEMMA StepBy ==
  ASSUME IInv, CInv, NEW p \in Procs, Alone(p), NEW l, Now(p, l),
         formatted' => Volume', l.pc # "idle" => Running(p)'
  PROVE  CInv'
<1>1. ASSUME NEW q \in Procs, q # p, ~At(q, "idle")'
      PROVE  Running(q)'
  <2>1. pr'[q] = pr[q] /\ ~Writing(q)'
    BY <1>1, AloneNext
  <2>2. Running(q) /\ op(q) \notin Writes /\ op(q)' = op(q)
    BY <1>1, <2>1 DEF CInv, Writing, At, op
  <2> QED
    BY <2>1, <2>2 DEF Running
<1>2. ~At(p, "idle")' => Running(p)'
  BY AloneNext DEF At
<1> QED
  BY <1>1, <1>2 DEF CInv

\* The disk and the live entries stay.
Still == /\ Links' = Links /\ blk' = blk /\ sbHead' = sbHead /\ formatted' = formatted
         /\ Live' = Live /\ Starts' = Starts /\ (Volume => Volume')

LEMMA StillIs ==
  ASSUME UNCHANGED disk, Doomed' = Doomed
  PROVE  Still
<1>1. blk' = blk /\ sbHead' = sbHead /\ formatted' = formatted
  BY DEF disk
<1>2. Links' = Links /\ Hops(1)' = Hops(1)
  BY <1>1 DEF Links, Hops, Hop
<1>3. Live' = Live /\ Starts' = Starts
  BY <1>1, <1>2 DEF Live, Starts, Cells, Chain, At2
<1> QED
  BY <1>1, <1>2, <1>3 DEF Still, Volume, At2

\* ... or some entries are live no more.
LEMMA FewerLive ==
  ASSUME UNCHANGED disk, Doomed \subseteq Doomed', Volume
  PROVE  /\ Volume' /\ Links' = Links /\ Live' \subseteq Live
         /\ \A X : Apart(X) => Off(Links', sbHead', Live', Starts', X)
<1>1. blk' = blk /\ sbHead' = sbHead /\ formatted' = formatted
  BY DEF disk
<1>2. Links' = Links /\ Hops(1)' = Hops(1)
  BY <1>1 DEF Links, Hops, Hop
<1>3. Live' \subseteq Live /\ \A c : At2(c)' = At2(c)
  BY <1>1, <1>2 DEF Live, Cells, Chain, At2
<1>4. \A c \in Live' : Starts'[c] = Starts[c]
  BY <1>3 DEF Starts
<1>5. Vol(Links, sbHead, Live', Starts')
      /\ \A X : Off(Links, sbHead, Live, Starts, X) => Off(Links, sbHead, Live', Starts', X)
  BY <1>3, <1>4, VolFewer DEF Volume
<1> QED
  BY <1>1, <1>2, <1>3, <1>5 DEF Volume, Apart

PhaseFacts ==
  \A p \in Procs : formatted =>
    /\ At(p, "resolve") /\ AtResolve(p) => Phase(p)
    /\ At(p, "alloc") /\ AtAlloc(p) => Phase(p)
    /\ At(p, "allocZero") /\ AtAllocZero(p) => Phase(p)
    /\ At(p, "allocSuper") /\ AtAllocSuper(p) => Phase(p)
    /\ At(p, "link") /\ AtLink(p) => Phase(p)
    /\ At(p, "write") /\ AtWrite(p) => Phase(p)
    /\ At(p, "dirZero") /\ AtDirZero(p) => Phase(p)
    /\ At(p, "insRead") /\ AtInsRead(p) => Phase(p)
    /\ At(p, "insWrite") /\ AtInsWrite(p) => Phase(p)
    /\ At(p, "insZero") /\ AtInsLink(p) => Phase(p)
    /\ At(p, "insLink") /\ AtInsLink(p) => Phase(p)
    /\ At(p, "insNew") /\ AtInsNew(p) => Phase(p)
    /\ At(p, "find") /\ AtFind(p) => Phase(p)
    /\ At(p, "rmdirCheck") /\ AtRmdirCheck(p) => Phase(p)
    /\ At(p, "rmRead") /\ AtRmRead(p) /\ pr[p].idx \in Slots => Phase(p)
    /\ At(p, "rmFree") /\ AtRmFree(p) /\ pr[p].idx \in Slots => Phase(p)
    /\ At(p, "rmSuper") /\ AtRmSuper(p) /\ pr[p].idx \in Slots => Phase(p)
    /\ At(p, "clrRead") /\ AtClrRead(p) => Phase(p)
    /\ At(p, "clrWrite") /\ AtClrWrite(p) => Phase(p)

LEMMA PhaseFrom == PhaseFacts
BY DEF PhaseFacts, Phase, At

LEMMA PhaseFromNext == PhaseFacts'
BY PhaseFrom, PTL

-----------------------------------------------------------------------------
(* One command that changes the volume takes a step.                       *)

LEMMA WriterPhase ==
  ASSUME IInv, CInv, NEW p \in Procs, Writing(p),
         pr[p].pc \notin {"fsSuper", "fsRoot", "fsChain"}
  PROVE  /\ Phase(p) /\ formatted /\ Volume /\ op(p) # "mymkfs"
         /\ pr[p].res = "none" /\ pr[p] \in Local
<1>1. Running(p) /\ op(p) \in Writes
  BY DEF CInv, Writing
<1>2. op(p) # "mymkfs"
  BY <1>1 DEF Running, MkfsPhase
<1> QED
  BY <1>1, <1>2, LocalFacts DEF Running, Phase, CInv

\* It goes on,
LEMMA WriteStep ==
  ASSUME IInv, CInv, NEW p \in Procs, Alone(p), Writing(p), op(p) # "mymkfs",
         NEW l, Now(p, l), l.cmd = pr[p].cmd, l.res = "none", Volume', Phase(p)'
  PROVE  CInv'
<1>1. Running(p)'
  BY AloneNext DEF Running, Writing, op
<1> QED
  BY <1>1, StepBy

\* or it ends.
LEMMA WriteEnd ==
  ASSUME IInv, CInv, NEW p \in Procs, Alone(p), NEW r, NEW e, NEW o,
         Now(p, Ended(p, r, e, o)), formatted' => Volume'
  PROVE  CInv'
<1>1. Ended(p, r, e, o).pc = "idle"
  BY DEF Ended, Idle
<1> QED
  BY <1>1, StepBy

\* A step that leaves the disk and ends a command that dooms no entry.
LEMMA QuitChains ==
  ASSUME IInv, CInv, NEW p \in Procs, Alone(p), ~Removing(p), UNCHANGED disk,
         NEW r, NEW e, NEW o, Now(p, Ended(p, r, e, o))
  PROVE  CInv'
<1>1. ~Removing(p)'
  <2>1. Ended(p, r, e, o).pc = "idle"
    BY DEF Ended, Idle
  <2> QED
    BY <2>1, AloneNext DEF Removing
<1>2. Doomed' = Doomed
  BY <1>1, AloneNext DEF DoomedBy
<1> QED
  BY <1>2, StillIs, WriteEnd DEF Still, CInv

LEMMA FailChains ==
  ASSUME IInv, CInv, NEW p \in Procs, Alone(p), ~Removing(p), UNCHANGED disk, Fail(p)
  PROVE  CInv'
BY QuitChains DEF Fail

LEMMA AllocReadChains ==
  ASSUME IInv, CInv, NEW p \in Procs, Alone(p), Writing(p), AllocRead(p)
  PROVE  CInv'
<1> DEFINE h == pr[p].head
           l == [pr[p] EXCEPT !.pc = "allocZero", !.new = h, !.head = blk[h].next]
<1>1. /\ At(p, "alloc") /\ Phase(p) /\ formatted /\ Volume /\ op(p) # "mymkfs"
      /\ pr[p].res = "none" /\ pr[p] \in Local /\ ~Removing(p) /\ UNCHANGED disk
  BY WriterPhase DEF AllocRead, At, Removing
<1>2. CASE Fail(p)
  BY <1>1, <1>2, FailChains
<1>3. CASE Now(p, l) /\ h # 0 /\ Readable(h)
  <2>1. AtAlloc(p)
    BY <1>1 DEF Phase
  <2>2. l.pc = "allocZero" /\ l.new = h /\ l.head = blk[h].next /\ l.cmd = pr[p].cmd
        /\ l.res = "none" /\ l.idx = pr[p].idx /\ l.ent = pr[p].ent
        /\ l.first = pr[p].first /\ l.cur = pr[p].cur /\ l.buf = pr[p].buf
    BY <1>1 DEF Local
  <2> HIDE DEF l
  <2>3. pr'[p] = l
    BY <1>3, AloneNext
  <2>4. ~Removing(p)'
    BY <2>2, <2>3 DEF Removing
  <2>5. Still
    BY <1>1, <1>3, <2>4, AloneNext, StillIs DEF DoomedBy
  <2>6. Wanting(p)'
    BY <2>1, <2>2, <2>3, <2>5 DEF AtAlloc, Wanting, Building, Growing, ToInsert, Adding, op,
       Held, Last, Blks, Still
  <2>7. AtAllocZero(p)'
    <3>1. h \in Data /\ h = sbHead
      BY <1>3, <2>1, SizesAssumption DEF Readable, Blocks, Data, AtAlloc
    <3> QED
      BY <2>2, <2>3, <2>5, <2>6, <3>1 DEF AtAllocZero, Still
  <2>8. Phase(p)'
    BY <1>1, <2>2, <2>3, <2>5, <2>7, PhaseFromNext DEF PhaseFacts, At, Still
  <2> QED
    BY <1>1, <1>3, <2>2, <2>5, <2>8, WriteStep DEF Still
<1> QED
  BY <1>2, <1>3 DEF AllocRead

LEMMA ResolveChains ==
  ASSUME IInv, CInv, NEW p \in Procs, Alone(p), Writing(p), Resolve(p)
  PROVE  CInv'
<1>1. /\ At(p, "resolve") /\ Phase(p) /\ formatted /\ Volume /\ op(p) # "mymkfs"
      /\ pr[p].res = "none" /\ pr[p] \in Local /\ ~Removing(p) /\ UNCHANGED disk
  BY WriterPhase DEF Resolve, At, Removing
<1>2. AtResolve(p)
  BY <1>1 DEF Phase
<1>3. ASSUME NEW l, Now(p, l), ~(l.pc \in {"rmRead", "rmFree", "rmSuper", "clrRead", "clrWrite"})
      PROVE  pr'[p] = l /\ Still
  <2>1. ~Removing(p)'
    BY <1>3, AloneNext DEF Removing
  <2> QED
    BY <1>1, <1>3, <2>1, AloneNext, StillIs DEF DoomedBy
<1>4. Held(0)
  BY Nowhere DEF Held, Mine, Off
<1>5. CASE Fail(p)
  BY <1>1, <1>5, FailChains
<1>6. CASE Segv(p)
  BY <1>1, <1>6, QuitChains DEF Segv, Finish
<1>7. CASE op(p) = "mycopyTo" /\ HasFinal(p) /\ ~Fail(p)
  <2> DEFINE e == NewEntry(p, FILE, 0)
             l == [pr[p] EXCEPT !.pc = IF pr[p].cmd.len = 0 THEN "insRead" ELSE "alloc",
                                !.rem = pr[p].cmd.len, !.ent = e]
  <2>1. Now(p, l)
    BY <1>7 DEF Resolve, Segv
  <2>2. l.pc = (IF pr[p].cmd.len = 0 THEN "insRead" ELSE "alloc") /\ l.cmd = pr[p].cmd
        /\ l.res = "none" /\ l.idx = 0 /\ l.ent = e /\ l.first = 0
        /\ l.head = pr[p].head /\ l.cur = pr[p].cur
    BY <1>1, <1>2 DEF Local, AtResolve
  <2>3. e.start = 0 /\ e.type = FILE /\ FILE # DIR
    BY DEF NewEntry, FILE, DIR
  <2> HIDE DEF l, e
  <2>4. pr'[p] = l /\ Still
    BY <1>3, <2>1, <2>2
  <2>5. Adding(p)'
    BY <1>7, <2>2, <2>3, <2>4 DEF Adding, op
  <2>6. Held(0)'
    BY <1>4, <2>4 DEF Held, Still
  <2>7. CASE pr[p].cmd.len = 0
    <3>1. AtInsRead(p)'
      BY <1>2, <2>2, <2>3, <2>4, <2>5, <2>6 DEF AtInsRead, ToInsert, AtResolve, Held, Blks, Still
    <3>2. Phase(p)'
      BY <1>1, <2>2, <2>4, <2>7, <3>1, PhaseFromNext DEF PhaseFacts, At, Still
    <3> QED
      BY <1>1, <2>1, <2>2, <2>4, <3>2, WriteStep DEF Still
  <2>8. CASE pr[p].cmd.len # 0
    <3>1. AtAlloc(p)'
      BY <1>2, <2>2, <2>3, <2>4, <2>5, <2>6
      DEF AtAlloc, Wanting, Building, AtResolve, Held, Blks, Still
    <3>2. Phase(p)'
      BY <1>1, <2>2, <2>4, <2>8, <3>1, PhaseFromNext DEF PhaseFacts, At, Still
    <3> QED
      BY <1>1, <2>1, <2>2, <2>4, <3>2, WriteStep DEF Still
  <2> QED
    BY <2>7, <2>8
<1>8. CASE op(p) = "mymkdir" /\ HasFinal(p)
  <2> DEFINE e == [NewEntry(p, DIR, 0) EXCEPT !.size = 0]
             l == [pr[p] EXCEPT !.pc = "alloc", !.ent = e]
  <2>1. Now(p, l)
    BY <1>8 DEF Resolve
  <2>2. l.pc = "alloc" /\ l.cmd = pr[p].cmd
        /\ l.res = "none" /\ l.idx = 0 /\ l.ent = e /\ l.first = 0
        /\ l.head = pr[p].head /\ l.cur = pr[p].cur
    BY <1>1, <1>2 DEF Local, AtResolve
  <2> HIDE DEF l, e
  <2>4. pr'[p] = l /\ Still
    BY <1>3, <2>1, <2>2
  <2>5. Adding(p)'
    BY <1>8, <2>2, <2>4 DEF Adding, op
  <2>6. Held(0)'
    BY <1>4, <2>4 DEF Held, Still
  <2>7. AtAlloc(p)'
    BY <1>2, <2>2, <2>4, <2>5, <2>6
    DEF AtAlloc, Wanting, Building, AtResolve, Held, Blks, Still
  <2>8. Phase(p)'
    BY <1>1, <2>2, <2>4, <2>7, PhaseFromNext DEF PhaseFacts, At, Still
  <2> QED
    BY <1>1, <2>1, <2>2, <2>4, <2>8, WriteStep DEF Still
<1>9. CASE op(p) \notin {"mycopyTo", "mymkdir"}
  <2> DEFINE l == [pr[p] EXCEPT !.pc = "find"]
  <2>1. Now(p, l)
    BY <1>9 DEF Resolve
  <2>2. l.pc = "find" /\ l.cmd = pr[p].cmd /\ l.res = "none" /\ l.head = pr[p].head
        /\ l.cur = pr[p].cur
    BY <1>1 DEF Local
  <2> HIDE DEF l
  <2>3. pr'[p] = l /\ Still
    BY <1>3, <2>1, <2>2
  <2>4. AtFind(p)'
    BY <1>2, <2>2, <2>3 DEF AtFind, AtResolve, Blks, Still
  <2>5. Phase(p)'
    BY <1>1, <2>2, <2>3, <2>4, PhaseFromNext DEF PhaseFacts, At, Still
  <2> QED
    BY <1>1, <2>1, <2>2, <2>3, <2>5, WriteStep DEF Still
<1> QED
  BY <1>5, <1>6, <1>7, <1>8, <1>9 DEF Resolve

\* The cursor of a search goes on to the next block of the directory.
LEMMA CursorOn ==
  ASSUME IInv, Volume, NEW b \in Blks(1), blk[b].next # 0
  PROVE  blk[b].next \in Blks(1)
<1>1. b \in Data /\ Fine(Links, 1)
  BY DEF Volume, Vol, Blks
<1>2. Succ(Links, b) = blk[b].next
  BY <1>1, LinkFacts
<1> QED
  BY <1>1, <1>2, Onward DEF Blks

LEMMA TraverseChains ==
  ASSUME IInv, CInv, NEW p \in Procs, Alone(p), Writing(p), Traverse(p)
  PROVE  CInv'
<1> DEFINE l == [pr[p] EXCEPT !.cur = blk[pr[p].cur].next]
<1>1. /\ At(p, "resolve") /\ Phase(p) /\ formatted /\ Volume /\ op(p) # "mymkfs"
      /\ pr[p].res = "none" /\ pr[p] \in Local /\ ~Removing(p) /\ UNCHANGED disk
  BY WriterPhase DEF Traverse, At, Removing
<1>2. AtResolve(p)
  BY <1>1 DEF Phase
<1>3. CASE Fail(p)
  BY <1>1, <1>3, FailChains
<1>4. CASE Segv(p)
  BY <1>1, <1>4, QuitChains DEF Segv, Finish
<1>5. CASE Now(p, l) /\ blk[pr[p].cur].next # 0
  <2>1. l.pc = "resolve" /\ l.cmd = pr[p].cmd /\ l.res = "none" /\ l.head = pr[p].head
        /\ l.cur = blk[pr[p].cur].next /\ l.first = 0 /\ l.idx = 0
    BY <1>1, <1>2 DEF Local, At, AtResolve
  <2>2. blk[pr[p].cur].next \in Blks(1)
    BY <1>1, <1>2, <1>5, CursorOn DEF AtResolve
  <2> HIDE DEF l
  <2>3. pr'[p] = l
    BY <1>5, AloneNext
  <2>4. ~Removing(p)'
    BY <2>1, <2>3 DEF Removing
  <2>5. Still
    BY <1>1, <1>5, <2>4, AloneNext, StillIs DEF DoomedBy
  <2>6. AtResolve(p)'
    BY <1>2, <2>1, <2>2, <2>3, <2>5 DEF AtResolve, Blks, Still
  <2>7. Phase(p)'
    BY <1>1, <2>1, <2>3, <2>5, <2>6, PhaseFromNext DEF PhaseFacts, At, Still
  <2> QED
    BY <1>1, <1>5, <2>1, <2>5, <2>7, WriteStep DEF Still
<1> QED
  BY <1>3, <1>4, <1>5 DEF Traverse

LEMMA InsReadChains ==
  ASSUME IInv, CInv, NEW p \in Procs, Alone(p), Writing(p), InsRead(p)
  PROVE  CInv'
<1> DEFINE b == blk[pr[p].cur]
<1>1. /\ At(p, "insRead") /\ Phase(p) /\ formatted /\ Volume /\ op(p) # "mymkfs"
      /\ pr[p].res = "none" /\ pr[p] \in Local /\ ~Removing(p) /\ UNCHANGED disk
  BY WriterPhase DEF InsRead, At, Removing
<1>2. AtInsRead(p) /\ pr[p].cur \in Data
  BY <1>1 DEF Phase, AtInsRead, Volume, Vol, Blks
<1>3. ASSUME NEW l, Now(p, l), ~(l.pc \in {"rmRead", "rmFree", "rmSuper", "clrRead", "clrWrite"})
      PROVE  pr'[p] = l /\ Still
  <2>1. ~Removing(p)'
    BY <1>3, AloneNext DEF Removing
  <2> QED
    BY <1>1, <1>3, <2>1, AloneNext, StillIs DEF DoomedBy
<1>4. CASE Fail(p)
  BY <1>1, <1>4, FailChains
<1>5. ASSUME NEW s \in Slots, IsFirst(s, FreeSlots(b)),
             Now(p, [pr[p] EXCEPT !.pc = "insWrite", !.idx = s,
                                  !.buf = PutEntry(b, s, pr[p].ent)])
      PROVE  CInv'
  <2> DEFINE l == [pr[p] EXCEPT !.pc = "insWrite", !.idx = s,
                                !.buf = PutEntry(b, s, pr[p].ent)]
  <2>1. l.pc = "insWrite" /\ l.cmd = pr[p].cmd /\ l.res = "none" /\ l.idx = s
        /\ l.ent = pr[p].ent /\ l.cur = pr[p].cur /\ l.buf = PutEntry(b, s, pr[p].ent)
    BY <1>1 DEF Local
  <2>2. ~Used(b.ents[s])
    BY <1>5 DEF IsFirst, FreeSlots
  <2> HIDE DEF l
  <2>3. Now(p, l)
    BY <1>5 DEF l
  <2>4. pr'[p] = l /\ Still
    BY <1>3, <2>1, <2>3
  <2>5. ToInsert(p)'
    BY <1>2, <2>1, <2>4 DEF AtInsRead, ToInsert, Adding, op, Held, Still
  <2>6. AtInsWrite(p)'
    BY <1>2, <2>1, <2>2, <2>4, <2>5 DEF AtInsWrite, AtInsRead, Blks, Still
  <2>7. Phase(p)'
    BY <1>1, <2>1, <2>4, <2>6, PhaseFromNext DEF PhaseFacts, At, Still
  <2> QED
    BY <1>1, <2>1, <2>3, <2>4, <2>7, WriteStep DEF Still
<1>6. CASE b.next = 0 /\ Now(p, [pr[p] EXCEPT !.pc = "alloc", !.idx = 1, !.buf = b])
  <2> DEFINE l == [pr[p] EXCEPT !.pc = "alloc", !.idx = 1, !.buf = b]
  <2>1. l.pc = "alloc" /\ l.cmd = pr[p].cmd /\ l.res = "none" /\ l.idx = 1
        /\ l.ent = pr[p].ent /\ l.cur = pr[p].cur /\ l.buf = b /\ l.head = pr[p].head
    BY <1>1 DEF Local
  <2> HIDE DEF l
  <2>3. Now(p, l)
    BY <1>6 DEF l
  <2>4. pr'[p] = l /\ Still
    BY <1>3, <2>1, <2>3
  <2>5. ToInsert(p)'
    BY <1>2, <2>1, <2>4 DEF AtInsRead, ToInsert, Adding, op, Held, Still
  <2>6. Growing(p)'
    BY <1>2, <1>6, <2>1, <2>4, <2>5 DEF Growing, AtInsRead, Last, Blks, Still
  <2>7. AtAlloc(p)'
    BY <1>2, <2>1, <2>4, <2>6 DEF AtAlloc, AtInsRead, Wanting, Still
  <2>8. Phase(p)'
    BY <1>1, <2>1, <2>4, <2>7, PhaseFromNext DEF PhaseFacts, At, Still
  <2> QED
    BY <1>1, <2>1, <2>3, <2>4, <2>8, WriteStep DEF Still
<1>7. CASE b.next # 0 /\ Now(p, [pr[p] EXCEPT !.cur = b.next])
  <2> DEFINE l == [pr[p] EXCEPT !.cur = b.next]
  <2>1. l.pc = "insRead" /\ l.cmd = pr[p].cmd /\ l.res = "none" /\ l.idx = 0
        /\ l.ent = pr[p].ent /\ l.cur = b.next /\ l.head = pr[p].head
    BY <1>1, <1>2 DEF Local, At, AtInsRead
  <2>2. b.next \in Blks(1)
    BY <1>1, <1>2, <1>7, CursorOn DEF AtInsRead
  <2> HIDE DEF l
  <2>3. Now(p, l)
    BY <1>7 DEF l
  <2>4. pr'[p] = l /\ Still
    BY <1>3, <2>1, <2>3
  <2>5. ToInsert(p)'
    BY <1>2, <2>1, <2>4 DEF AtInsRead, ToInsert, Adding, op, Held, Still
  <2>6. AtInsRead(p)'
    BY <1>2, <2>1, <2>2, <2>4, <2>5 DEF AtInsRead, Blks, Still
  <2>8. Phase(p)'
    BY <1>1, <2>1, <2>4, <2>6, PhaseFromNext DEF PhaseFacts, At, Still
  <2> QED
    BY <1>1, <2>1, <2>3, <2>4, <2>8, WriteStep DEF Still
<1> QED
  BY <1>4, <1>5, <1>6, <1>7 DEF InsRead

-----------------------------------------------------------------------------
(* A block is written.                                                     *)

\* The directory stays as it is.
LEMMA LiveKept ==
  ASSUME Volume, formatted, formatted', Doomed' = Doomed, Fine(Links', 1),
         Body(Links', 1) = Blks(1), \A b \in Blks(1) : blk'[b].ents = blk[b].ents
  PROVE  /\ Live' = Live /\ Starts' = Starts /\ \A c \in Live : At2(c)' = At2(c)
<1>1. Fine(Links, 1) /\ Blks(1) \subseteq Data
  BY DEF Volume, Vol, Blks
<1>2. Live = {c \in Blks(1) \X Slots : Used(At2(c))} \ Doomed
  BY <1>1, LiveIs DEF LiveFact, OK
<1>3. Live' = {c \in Blks(1) \X Slots : Used(At2(c)')} \ Doomed
  BY <1>1, LiveIsNext DEF LiveFact, OK, Blks
<1>4. \A c \in Blks(1) \X Slots : At2(c)' = At2(c)
  BY DEF At2
<1>5. Live' = Live
  BY <1>2, <1>3, <1>4
<1>6. \A c \in Live : At2(c)' = At2(c)
  BY <1>2, <1>4
<1>7. Starts' = Starts
  BY <1>5, <1>6 DEF Starts
<1> QED
  BY <1>5, <1>6, <1>7

\* A write to a block of no chain.
LEMMA WriteApart ==
  ASSUME IInv, Volume, formatted, NEW x \in Data, NEW B, blk' = [blk EXCEPT ![x] = B],
         UNCHANGED <<sbHead, formatted>>, Doomed' = Doomed, Apart({x})
  PROVE  /\ Volume' /\ Live' = Live /\ Starts' = Starts
         /\ Body(Links', 1) = Blks(1) /\ Body(Links', sbHead) = Blks(sbHead)
         /\ \A Y : Apart(Y) => Off(Links', sbHead', Live', Starts', Y)
         /\ \A m : Held(m) /\ x \notin Blks(m) =>
                     /\ Mine(Links', sbHead', Live', Starts', m)
                     /\ Body(Links', m) = Blks(m)
<1>1. \A y \in 1 .. NB : y \notin {x} => Succ(Links', y) = Succ(Links, y)
  BY LinkFacts, OneLink
<1>2. /\ Vol(Links, sbHead, Live, Starts) /\ Off(Links, sbHead, Live, Starts, {x})
  BY DEF Volume, Apart
<1>3. /\ Vol(Links', sbHead, Live, Starts) /\ Body(Links', 1) = Blks(1)
      /\ Body(Links', sbHead) = Blks(sbHead)
      /\ \A Y : Apart(Y) => Off(Links', sbHead, Live, Starts, Y)
  BY <1>1, <1>2, VolFrame DEF Blks, Apart
<1>4. \A m : Held(m) /\ x \notin Blks(m) => /\ Mine(Links', sbHead, Live, Starts, m)
                                            /\ Body(Links', m) = Blks(m)
  BY <1>1, <1>2, MineFrame DEF Held, Blks
<1>5. Live' = Live /\ Starts' = Starts /\ \A c \in Live : At2(c)' = At2(c)
  <2>1. \A b \in Blks(1) : blk'[b] = blk[b]
    BY <1>2 DEF Off, Blks, IInv, TypeOK
  <2>2. Fine(Links', 1)
    BY <1>3 DEF Vol
  <2> QED
    BY <1>3, <2>1, <2>2, LiveKept
<1>6. Volume'
  BY <1>3, <1>5 DEF Volume
<1> QED
  BY <1>3, <1>4, <1>5, <1>6

LEMMA WantingKept ==
  ASSUME NEW p \in Procs, Wanting(p), NEW l, pr'[p] = l, l.cmd = pr[p].cmd,
         l.idx = pr[p].idx, l.first = pr[p].first, l.ent = pr[p].ent,
         l.cur = pr[p].cur, l.buf = pr[p].buf,
         Mine(Links', sbHead', Live', Starts', Hand(p)),
         Body(Links', Hand(p)) = Blks(Hand(p)), Body(Links', 1) = Blks(1),
         pr[p].idx # 0 \/ pr[p].first # 0 => blk'[pr[p].cur] = blk[pr[p].cur]
  PROVE  Wanting(p)' /\ Hand(p)' = Hand(p)
<1>1. Adding(p)' = Adding(p) /\ Hand(p)' = Hand(p)
  BY DEF Adding, op, Hand
<1>2. CASE pr[p].idx = 0
  BY <1>1, <1>2 DEF Wanting, Building, Hand, Held, Last, Blks, op
<1>3. CASE pr[p].idx # 0
  BY <1>1, <1>3 DEF Wanting, Growing, ToInsert, Hand, Held, Last, Blks
<1> QED
  BY <1>1, <1>2, <1>3

LEMMA WantingHeld ==
  ASSUME NEW p \in Procs, Wanting(p)
  PROVE  /\ Held(Hand(p))
         /\ pr[p].idx # 0 \/ pr[p].first # 0 =>
              pr[p].cur \in Data /\ pr[p].cur \in Blks(Hand(p)) \cup Blks(1)
BY DEF Wanting, Building, Growing, ToInsert, Hand, Last

LEMMA AllocZeroChains ==
  ASSUME IInv, CInv, NEW p \in Procs, Alone(p), Writing(p), AllocZero(p)
  PROVE  CInv'
<1> DEFINE l == [pr[p] EXCEPT !.pc = "allocSuper"]
           f == sbHead
           g == Links
           h == Links'
           m == Hand(p)
<1>1. /\ At(p, "allocZero") /\ Phase(p) /\ formatted /\ Volume /\ op(p) # "mymkfs"
      /\ pr[p].res = "none" /\ pr[p] \in Local /\ ~Removing(p)
      /\ UNCHANGED <<sbHead, formatted>>
  BY WriterPhase DEF AllocZero, At, Removing
<1>2. AtAllocZero(p)
  BY <1>1 DEF Phase
<1>3. /\ l.pc = "allocSuper" /\ l.cmd = pr[p].cmd /\ l.res = "none" /\ l.idx = pr[p].idx
      /\ l.first = pr[p].first /\ l.ent = pr[p].ent /\ l.cur = pr[p].cur
      /\ l.buf = pr[p].buf /\ l.new = f /\ l.head = pr[p].head
  BY <1>1, <1>2 DEF Local, AtAllocZero
<1>4. Now(p, l) /\ blk' = [blk EXCEPT ![f] = ZeroBlock] /\ f \in Data
      /\ pr[p].head = g[f]
  BY <1>2, LinkFacts DEF AllocZero, AtAllocZero
<1> HIDE DEF l
<1>5. pr'[p] = l
  BY <1>4, AloneNext
<1>6. Doomed' = Doomed
  BY <1>1, <1>3, <1>4, <1>5, AloneNext DEF DoomedBy, Removing
<1>7. Succ(h, f) = 0 /\ \A y \in 1 .. NB : y # f => Succ(h, y) = Succ(g, y)
  <2>1. ZeroBlock.next = 0
    BY DEF ZeroBlock
  <2> QED
    BY <1>4, <2>1, LinkFacts, OneLink
<1>8. /\ Vol(h, f, Live, Starts) /\ Body(h, f) = {f}
      /\ Fine(h, g[f]) /\ Off(h, f, Live, Starts, Body(h, g[f]))
      /\ Body(h, g[f]) \subseteq Body(g, f) /\ Body(h, 1) = Body(g, 1)
      /\ \A Y : Off(g, f, Live, Starts, Y) => Off(h, f, Live, Starts, Y)
  BY <1>1, <1>4, <1>7, VolCut DEF Volume
<1>9. Live' = Live /\ Starts' = Starts /\ \A c \in Live : At2(c)' = At2(c)
  <2>1. Fine(h, 1) /\ Body(h, 1) = Blks(1)
    BY <1>8 DEF Vol, Blks
  <2>2. f \notin Blks(1)
    BY <1>1, <1>4, Somewhere, LinkFacts DEF Volume, Vol, Blks
  <2>3. \A b \in Blks(1) : blk'[b] = blk[b]
    BY <1>4, <2>2 DEF IInv, TypeOK
  <2> QED
    BY <1>1, <1>6, <2>1, <2>3, LiveKept
<1>10. Volume'
  BY <1>1, <1>8, <1>9 DEF Volume
<1>11. /\ Held(m) /\ f \notin Blks(m) /\ f \notin Blks(1)
  <2>1. Held(m)
    BY <1>2, WantingHeld DEF AtAllocZero
  <2>2. f \in Blks(f)
    BY <1>1, <1>4, Somewhere, LinkFacts DEF Volume, Vol, Blks
  <2> QED
    BY <1>1, <2>1, <2>2 DEF Held, Mine, Off, Blks, Volume, Vol
<1>12. Fine(h, m) /\ Body(h, m) = Blks(m)
  <2>1. \A x \in Body(g, m) : Succ(h, x) = Succ(g, x)
    BY <1>7, <1>11, FineIs DEF Held, Mine, Blks
  <2> QED
    BY <1>11, <2>1, Frame DEF Held, Mine, Blks
<1>13. Mine(h, sbHead', Live', Starts', m)
  BY <1>1, <1>8, <1>9, <1>11, <1>12 DEF Held, Mine, Blks
<1>14. Wanting(p)' /\ Hand(p)' = m
  <2>1. pr[p].idx # 0 \/ pr[p].first # 0 => blk'[pr[p].cur] = blk[pr[p].cur]
    BY <1>2, <1>4, <1>11, WantingHeld DEF AtAllocZero, IInv, TypeOK
  <2>2. Wanting(p) /\ Body(h, 1) = Blks(1)
    BY <1>2, <1>8 DEF AtAllocZero, Blks
  <2> HIDE DEF h, m
  <2> QED
    BY <1>3, <1>5, <1>12, <1>13, <2>1, <2>2, WantingKept DEF h, m
<1>15. AtAllocSuper(p)'
  <2>1. blk'[f] = ZeroBlock
    BY <1>4, LinkFacts DEF IInv, TypeOK
  <2>2. Body(h, g[f]) \cap Body(h, m) = {}
    BY <1>8, <1>11, <1>12 DEF Held, Mine, Off, Blks
  <2> QED
    BY <1>1, <1>3, <1>4, <1>5, <1>8, <1>9, <1>14, <2>1, <2>2 DEF AtAllocSuper, OK, Apart, Blks
<1>16. Phase(p)'
  BY <1>1, <1>3, <1>5, <1>15, PhaseFromNext DEF PhaseFacts, At
<1> QED
  BY <1>1, <1>3, <1>4, <1>10, <1>16, WriteStep

LEMMA AllocSuperChains ==
  ASSUME IInv, CInv, NEW p \in Procs, Alone(p), Writing(p), AllocSuper(p)
  PROVE  CInv'
<1> DEFINE data == AfterAlloc(p) = "write"
           l == [pr[p] EXCEPT !.pc = AfterAlloc(p),
                              !.first = IF data THEN pr[p].new ELSE pr[p].first,
                              !.cur = IF data THEN pr[p].new ELSE pr[p].cur]
           f == sbHead
           x == pr[p].head
           g == Links
           m == Hand(p)
<1>1. /\ At(p, "allocSuper") /\ Phase(p) /\ formatted /\ Volume /\ op(p) # "mymkfs"
      /\ pr[p].res = "none" /\ pr[p] \in Local /\ ~Removing(p)
      /\ UNCHANGED <<blk, formatted>> /\ sbHead' = x /\ Now(p, l)
  BY WriterPhase DEF AllocSuper, At, Removing
<1>2. AtAllocSuper(p)
  BY <1>1 DEF Phase
<1>3. /\ l.pc = AfterAlloc(p) /\ l.cmd = pr[p].cmd /\ l.res = "none" /\ l.idx = pr[p].idx
      /\ l.first = (IF data THEN f ELSE pr[p].first) /\ l.ent = pr[p].ent
      /\ l.cur = (IF data THEN f ELSE pr[p].cur)
      /\ l.buf = pr[p].buf /\ l.new = f /\ l.head = x
  BY <1>1, <1>2 DEF Local, AtAllocSuper
<1>4. AfterAlloc(p) \in {"insZero", "dirZero", "write", "link"}
  BY DEF AfterAlloc
<1> HIDE DEF l
<1>5. pr'[p] = l /\ Links' = g
  BY <1>1, AloneNext DEF Links
<1>6. Doomed' = Doomed
  BY <1>1, <1>3, <1>4, <1>5, AloneNext DEF DoomedBy, Removing
<1>7. /\ f \in Data /\ blk[f] = ZeroBlock /\ Body(g, f) = {f} /\ Fine(g, f)
  <2>1. f \in Data /\ blk[f] = ZeroBlock
    BY <1>2 DEF AtAllocSuper
  <2>2. g[f] = 0
    BY <2>1, LinkFacts DEF ZeroBlock
  <2> QED
    BY <2>1, <2>2, Nowhere, Push
<1>8. Vol(g, f, Live, Starts) /\ Fine(g, x) /\ Off(g, f, Live, Starts, Body(g, x))
  BY <1>1, <1>2 DEF Volume, AtAllocSuper, OK, Apart, Blks
<1>9. /\ Vol(g, x, Live, Starts) /\ Off(g, x, Live, Starts, {f})
      /\ \A Y : Off(g, f, Live, Starts, Y) /\ Y \cap Body(g, x) = {} =>
                  Off(g, x, Live, Starts, Y)
  BY <1>7, <1>8, VolTake
<1>10. Live' = Live /\ Starts' = Starts /\ \A c \in Live : At2(c)' = At2(c)
  BY <1>1, <1>5, <1>6, <1>8, LiveKept DEF Blks, Vol
<1>11. Volume'
  BY <1>1, <1>5, <1>9, <1>10 DEF Volume
<1>12. Held(m) /\ f \notin Blks(m) /\ Wanting(p)
  <2>1. Wanting(p) /\ Held(m)
    BY <1>2, WantingHeld DEF AtAllocSuper
  <2> QED
    BY <1>7, <2>1 DEF Held, Mine, Off, Blks
<1>13. Mine(g, x, Live, Starts, m)
  BY <1>2, <1>9, <1>12 DEF Held, Mine, AtAllocSuper, Blks
<1>14. Adding(p)' = Adding(p)
  BY <1>3, <1>5 DEF Adding, op
<1>15. CASE data
  <2>1. pr[p].idx = 0 /\ op(p) # "mymkdir" /\ pr[p].first = 0
    BY <1>15, <1>4 DEF AfterAlloc
  <2>2. Adding(p) /\ op(p) = "mycopyTo"
    BY <1>12, <2>1 DEF Wanting, Building, Adding
  <2>3. Mine(g, x, Live, Starts, f)
    BY <1>7, <1>9 DEF Mine
  <2>4. f \in Body(Links', f) /\ f \in Data /\ blk'[f].next = 0
    BY <1>1, <1>5, <1>7 DEF ZeroBlock
  <2>5. AtWrite(p)'
    BY <1>1, <1>3, <1>5, <1>10, <1>14, <1>15, <2>1, <2>2, <2>3, <2>4
    DEF AtWrite, op, Held, Last, Blks
  <2>6. Phase(p)'
    BY <1>1, <1>3, <1>5, <1>15, <2>5, PhaseFromNext DEF PhaseFacts, At
  <2> QED
    BY <1>1, <1>3, <1>11, <2>6, WriteStep
<1>16. CASE ~data
  <2>1. Wanting(p)' /\ Hand(p)' = m
    <3> HIDE DEF m
    <3> QED
      BY <1>1, <1>3, <1>5, <1>10, <1>12, <1>13, <1>16, WantingKept DEF Blks, m
  <2>2. Spare(p)'
    <3>1. pr'[p].head = sbHead' /\ pr'[p].new \in Data /\ blk'[pr'[p].new] = ZeroBlock
      BY <1>1, <1>3, <1>5, <1>7
    <3>2. Off(Links', sbHead', Live', Starts', {pr'[p].new})
      BY <1>1, <1>3, <1>5, <1>9, <1>10
    <3>3. pr'[p].new \notin Body(Links', Hand(p)')
      BY <1>3, <1>5, <1>12, <2>1 DEF Blks
    <3> QED
      BY <3>1, <3>2, <3>3 DEF Spare, Apart, Blks
  <2>3. CASE pr[p].idx # 0
    <3>1. AfterAlloc(p) = "insZero"
      BY <2>3 DEF AfterAlloc
    <3>2. AtInsLink(p)'
      BY <1>3, <1>5, <2>1, <2>2, <2>3 DEF AtInsLink, Wanting
    <3>3. Phase(p)'
      BY <1>1, <1>3, <1>5, <3>1, <3>2, PhaseFromNext DEF PhaseFacts, At
    <3> QED
      BY <1>1, <1>3, <1>11, <3>3, WriteStep
  <2>4. CASE pr[p].idx = 0 /\ op(p) = "mymkdir"
    <3>1. AfterAlloc(p) = "dirZero"
      BY <2>4 DEF AfterAlloc
    <3>2. AtDirZero(p)'
      BY <1>3, <1>5, <2>1, <2>2, <2>4 DEF AtDirZero, Wanting, op
    <3>3. Phase(p)'
      BY <1>1, <1>3, <1>5, <3>1, <3>2, PhaseFromNext DEF PhaseFacts, At
    <3> QED
      BY <1>1, <1>3, <1>11, <3>3, WriteStep
  <2>5. CASE pr[p].idx = 0 /\ op(p) # "mymkdir"
    <3>1. AfterAlloc(p) = "link" /\ pr[p].first # 0
      BY <1>16, <2>5 DEF AfterAlloc
    <3>2. AtLink(p)'
      BY <1>3, <1>5, <1>16, <2>1, <2>2, <2>5, <3>1 DEF AtLink, Wanting
    <3>3. Phase(p)'
      BY <1>1, <1>3, <1>5, <3>1, <3>2, PhaseFromNext DEF PhaseFacts, At
    <3> QED
      BY <1>1, <1>3, <1>11, <3>3, WriteStep
  <2> QED
    BY <2>3, <2>4, <2>5
<1> QED
  BY <1>15, <1>16

LEMMA CopyLinkChains ==
  ASSUME IInv, CInv, NEW p \in Procs, Alone(p), Writing(p), CopyLink(p)
  PROVE  CInv'
<1> DEFINE x == pr[p].cur
           d == pr[p].new
           m == pr[p].first
           g == Links
           h == Links'
           B == [pr[p].buf EXCEPT !.next = d]
           l == [pr[p] EXCEPT !.pc = "write", !.cur = d]
<1>1. /\ At(p, "link") /\ Phase(p) /\ formatted /\ Volume /\ op(p) # "mymkfs"
      /\ pr[p].res = "none" /\ pr[p] \in Local /\ ~Removing(p)
      /\ UNCHANGED <<sbHead, formatted>>
  BY WriterPhase DEF CopyLink, At, Removing
<1>2. AtLink(p)
  BY <1>1 DEF Phase
<1>3. /\ l.pc = "write" /\ l.cmd = pr[p].cmd /\ l.res = "none" /\ l.idx = 0
      /\ l.first = m /\ l.ent = pr[p].ent /\ l.cur = d /\ l.head = pr[p].head
  BY <1>1, <1>2 DEF Local, AtLink, Building
<1>4. /\ Now(p, l) /\ blk' = [blk EXCEPT ![x] = B]
      /\ x \in Data /\ x \in Body(g, m) /\ Succ(g, x) = 0 /\ Mine(g, sbHead, Live, Starts, m)
      /\ d \in Data /\ blk[d] = ZeroBlock /\ Off(g, sbHead, Live, Starts, {d})
      /\ d \notin Body(g, m) /\ Succ(g, d) = 0 /\ pr[p].head = sbHead
      /\ op(p) = "mycopyTo" /\ Adding(p)
  <2>1. x \in Data /\ x \in Body(g, m) /\ blk[x].next = 0 /\ op(p) = "mycopyTo" /\ Adding(p)
    BY <1>2 DEF AtLink, Building, Last, Blks
  <2>2. d \in Data /\ blk[d] = ZeroBlock /\ Off(g, sbHead, Live, Starts, {d})
        /\ d \notin Body(g, m) /\ pr[p].head = sbHead /\ blk[d].next = 0
    BY <1>2 DEF AtLink, Spare, Hand, Building, Blks, Apart, ZeroBlock
  <2> QED
    BY <1>2, <2>1, <2>2, LinkFacts DEF CopyLink, AtLink, Building, Held
<1> HIDE DEF l
<1>5. pr'[p] = l /\ Doomed' = Doomed
  BY <1>1, <1>3, <1>4, AloneNext DEF DoomedBy, Removing
<1>6. Succ(h, x) = d /\ \A y \in 1 .. NB : y # x => Succ(h, y) = Succ(g, y)
  <2>1. B.next = d
    BY <1>1 DEF Local, Block
  <2> HIDE DEF B
  <2> QED
    BY <1>4, <2>1, LinkFacts, OneLink
<1>7. /\ Vol(h, sbHead, Live, Starts) /\ Mine(h, sbHead, Live, Starts, m)
      /\ Body(h, m) = Body(g, m) \cup {d} /\ Body(h, 1) = Body(g, 1)
  <2>1. Vol(g, sbHead, Live, Starts)
    BY <1>1 DEF Volume
  <2> HIDE DEF g, h, x, d, m
  <2> QED
    BY <1>4, <1>6, <2>1, MineGrow
<1>8. Live' = Live /\ Starts' = Starts /\ \A c \in Live : At2(c)' = At2(c)
  <2>1. \A b \in Blks(1) : blk'[b] = blk[b]
    BY <1>4 DEF Mine, Off, Blks, IInv, TypeOK
  <2>2. Fine(h, 1)
    BY <1>7 DEF Vol
  <2> QED
    BY <1>1, <1>5, <1>7, <2>1, <2>2, LiveKept DEF Blks
<1>9. Volume'
  BY <1>1, <1>7, <1>8 DEF Volume
<1>10. blk'[d].next = 0
  BY <1>4, LinkFacts DEF IInv, TypeOK, ZeroBlock
<1>11. AtWrite(p)'
  BY <1>1, <1>3, <1>4, <1>5, <1>7, <1>8, <1>10 DEF AtWrite, Adding, op, Held, Last, Blks
<1>12. Phase(p)'
  BY <1>1, <1>3, <1>5, <1>11, PhaseFromNext DEF PhaseFacts, At
<1> QED
  BY <1>1, <1>3, <1>4, <1>9, <1>12, WriteStep

\* A write that keeps the pointer of a block of the chain in hand.
LEMMA WriteInHand ==
  ASSUME IInv, Volume, formatted, NEW m, Held(m), NEW x \in Blks(m), NEW B,
         blk' = [blk EXCEPT ![x] = B], B.next = blk[x].next,
         UNCHANGED <<sbHead, formatted>>, Doomed' = Doomed
  PROVE  /\ Volume' /\ Links' = Links /\ Live' = Live /\ Starts' = Starts
<1>1. x \in Data /\ x \notin Blks(1)
  BY DEF Held, Mine, Off, Blks
<1>2. Links' = Links
  BY <1>1, LinkFacts, OneLink
<1>3. Live' = Live /\ Starts' = Starts /\ \A c \in Live : At2(c)' = At2(c)
  <2>1. \A b \in Blks(1) : blk'[b] = blk[b]
    BY <1>1 DEF IInv, TypeOK
  <2>2. Fine(Links, 1)
    BY DEF Volume, Vol
  <2> QED
    BY <1>2, <2>1, <2>2, LiveKept DEF Blks
<1> QED
  BY <1>2, <1>3 DEF Volume

LEMMA CopyWriteChains ==
  ASSUME IInv, CInv, NEW p \in Procs, Alone(p), Writing(p), CopyWrite(p)
  PROVE  CInv'
<1> DEFINE x == pr[p].cur
           m == pr[p].first
           last == pr[p].rem = 1
           B == [ZeroBlock EXCEPT !.data = [c |-> pr[p].cmd.c,
                                            k |-> pr[p].cmd.len - pr[p].rem + 1]]
           e == [pr[p].ent EXCEPT !.start = m]
           l == [pr[p] EXCEPT !.pc = IF last THEN "insRead" ELSE "alloc",
                              !.rem = pr[p].rem - 1,
                              !.buf = IF last THEN ZeroBlock ELSE B,
                              !.cur = IF last THEN 1 ELSE x,
                              !.ent.start = m]
<1>1. /\ At(p, "write") /\ Phase(p) /\ formatted /\ Volume /\ op(p) # "mymkfs"
      /\ pr[p].res = "none" /\ pr[p] \in Local /\ ~Removing(p)
      /\ UNCHANGED <<sbHead, formatted>>
  BY WriterPhase DEF CopyWrite, At, Removing
<1>2. AtWrite(p)
  BY <1>1 DEF Phase
<1>3. /\ l.pc = (IF last THEN "insRead" ELSE "alloc") /\ l.cmd = pr[p].cmd
      /\ l.res = "none" /\ l.idx = 0 /\ l.first = m /\ l.ent = e
      /\ l.cur = (IF last THEN 1 ELSE x) /\ l.head = sbHead
      /\ l.buf = IF last THEN ZeroBlock ELSE B
  BY <1>1, <1>2 DEF Local, AtWrite
<1>4. e.start = m /\ e.type = FILE /\ FILE # DIR
  BY <1>1, <1>2 DEF Local, Entry, AtWrite, Adding, FILE, DIR
<1>5. B.next = 0
  BY DEF ZeroBlock
<1>6. Now(p, l) /\ blk' = [blk EXCEPT ![x] = B]
  BY DEF CopyWrite
<1> HIDE DEF l, B, e
<1>7. pr'[p] = l /\ Doomed' = Doomed
  BY <1>1, <1>3, <1>6, AloneNext DEF DoomedBy, Removing
<1>8. Held(m) /\ x \in Blks(m) /\ x \in Data /\ blk[x].next = 0 /\ x # 0 /\ op(p) = "mycopyTo"
  BY <1>2, LinkFacts DEF AtWrite, Last
<1>9. Volume' /\ Links' = Links /\ Live' = Live /\ Starts' = Starts
  BY <1>1, <1>5, <1>6, <1>7, <1>8, WriteInHand
<1>10. Held(m)' /\ Adding(p)'
  BY <1>1, <1>2, <1>3, <1>4, <1>7, <1>8, <1>9 DEF Held, Adding, op
<1>11. CASE last
  <2>1. 1 \in Blks(1)
    BY <1>1, Somewhere DEF Volume, Vol, Blks
  <2>2. AtInsRead(p)'
    BY <1>1, <1>3, <1>4, <1>7, <1>8, <1>9, <1>10, <1>11, <2>1
    DEF AtInsRead, ToInsert, Held, Blks
  <2>3. Phase(p)'
    BY <1>1, <1>3, <1>7, <1>11, <2>2, PhaseFromNext DEF PhaseFacts, At
  <2> QED
    BY <1>1, <1>3, <1>6, <1>9, <2>3, WriteStep
<1>12. CASE ~last
  <2>1. x \in Body(Links', m) /\ blk'[x].next = 0 /\ m # 0
    <3>1. blk'[x] = B
      BY <1>6, <1>8, LinkFacts DEF IInv, TypeOK
    <3>2. m # 0
      BY <1>8, Nowhere DEF Blks
    <3> QED
      BY <1>5, <1>8, <1>9, <3>1, <3>2 DEF Blks
  <2>2. Building(p)'
    BY <1>1, <1>3, <1>5, <1>7, <1>8, <1>9, <1>10, <1>12, <2>1
    DEF Building, Last, Held, Blks, op
  <2>3. AtAlloc(p)'
    BY <1>1, <1>3, <1>7, <2>2 DEF AtAlloc, Wanting
  <2>4. Phase(p)'
    BY <1>1, <1>3, <1>7, <1>12, <2>3, PhaseFromNext DEF PhaseFacts, At
  <2> QED
    BY <1>1, <1>3, <1>6, <1>9, <2>4, WriteStep
<1> QED
  BY <1>11, <1>12

\* The write of a zeroed block that is zero already.
LEMMA ZeroAgain ==
  ASSUME IInv, NEW x \in Data, blk[x] = ZeroBlock, blk' = [blk EXCEPT ![x] = ZeroBlock]
  PROVE  blk' = blk
BY LinkFacts DEF IInv, TypeOK

LEMMA DirZeroChains ==
  ASSUME IInv, CInv, NEW p \in Procs, Alone(p), Writing(p), DirZero(p)
  PROVE  CInv'
<1> DEFINE d == pr[p].new
           g == Links
           e == [pr[p].ent EXCEPT !.start = d]
           l == [pr[p] EXCEPT !.pc = "insRead", !.ent.start = d]
<1>1. /\ At(p, "dirZero") /\ Phase(p) /\ formatted /\ Volume /\ op(p) # "mymkfs"
      /\ pr[p].res = "none" /\ pr[p] \in Local /\ ~Removing(p)
      /\ UNCHANGED <<sbHead, formatted>>
  BY WriterPhase DEF DirZero, At, Removing
<1>2. AtDirZero(p)
  BY <1>1 DEF Phase
<1>3. /\ l.pc = "insRead" /\ l.cmd = pr[p].cmd /\ l.res = "none" /\ l.idx = 0
      /\ l.ent = e /\ l.cur = pr[p].cur /\ l.head = sbHead /\ e.start = d
  BY <1>1, <1>2 DEF Local, Entry, AtDirZero, Building, Spare
<1>4. Now(p, l) /\ d \in Data /\ blk[d] = ZeroBlock /\ blk' = blk
  BY <1>2, ZeroAgain DEF AtDirZero, Spare, DirZero
<1> HIDE DEF l, e
<1>5. pr'[p] = l /\ Doomed' = Doomed
  BY <1>1, <1>3, <1>4, AloneNext DEF DoomedBy, Removing
<1>6. Still
  BY <1>1, <1>4, <1>5, StillIs DEF disk
<1>7. Fine(g, d) /\ Body(g, d) = {d} /\ d # 0
  <2>1. g[d] = 0
    BY <1>4, LinkFacts DEF ZeroBlock
  <2> QED
    BY <1>4, <2>1, Nowhere, Push, LinkFacts
<1>8. Mine(g, sbHead, Live, Starts, d)
  BY <1>2, <1>4, <1>7 DEF Mine, AtDirZero, Spare, Apart
<1>9. pr[p].cur \in Blks(1)
  BY <1>2 DEF AtDirZero, Building
<1>10. AtInsRead(p)'
  BY <1>2, <1>3, <1>5, <1>6, <1>7, <1>8, <1>9
  DEF AtInsRead, ToInsert, Adding, AtDirZero, op, Held, Blks, Still
<1>11. Phase(p)'
  BY <1>1, <1>3, <1>5, <1>10, PhaseFromNext DEF PhaseFacts, At
<1> QED
  BY <1>1, <1>3, <1>4, <1>6, <1>11, WriteStep DEF Still

\* An entry is written to a slot of the directory.
LEMMA InsertAt ==
  ASSUME IInv, Volume, formatted, NEW x \in Blks(1), NEW s \in Slots, NEW e,
         blk' = [blk EXCEPT ![x] = PutEntry(blk[x], s, e)],
         Held(e.start), e.type = DIR => e.start # 0,
         UNCHANGED <<sbHead, formatted>>, Doomed = {}, Doomed' = {}
  PROVE  /\ Volume' /\ Links' = Links /\ Live' \subseteq Live \cup {<<x, s>>}
         /\ Used(e) => Live' = Live \cup {<<x, s>>}
         /\ \A c \in Live' : At2(c)' = IF c = <<x, s>> THEN e ELSE At2(c)
<1> DEFINE B == PutEntry(blk[x], s, e)
<1>1. x \in Data /\ Fine(Links, 1) /\ Blks(1) \subseteq Data /\ x \in Blocks
  BY LinkFacts DEF Volume, Vol, Blks
<1>2. B.next = blk[x].next /\ \A t \in Slots : B.ents[t] = IF t = s THEN e ELSE blk[x].ents[t]
  BY <1>1, LinkFacts DEF PutEntry, Block
<1> HIDE DEF B
<1>3. blk' = [blk EXCEPT ![x] = B]
  BY DEF B
<1>4. Links' = Links
  BY <1>1, <1>2, <1>3, OneLink
<1>5. Live = {c \in Blks(1) \X Slots : Used(At2(c))}
  BY <1>1, LiveIs DEF LiveFact, OK
<1>6. Live' = {c \in Blks(1) \X Slots : Used(At2(c)')}
  BY <1>1, <1>4, LiveIsNext DEF LiveFact, OK, Blks
<1>7. \A c \in Blks(1) \X Slots : At2(c)' = IF c = <<x, s>> THEN e ELSE At2(c)
  <2> SUFFICES ASSUME NEW c \in Blks(1) \X Slots
               PROVE  At2(c)' = IF c = <<x, s>> THEN e ELSE At2(c)
    OBVIOUS
  <2> DEFINE b == c[1]
             t == c[2]
  <2>1. b \in Blocks /\ t \in Slots
    BY <1>1, LinkFacts
  <2>2. At2(c) = blk[b].ents[t] /\ At2(c)' = blk'[b].ents[t]
    BY DEF At2
  <2>3. blk'[b] = IF b = x THEN B ELSE blk[b]
    BY <1>3, <2>1 DEF IInv, TypeOK
  <2>4. c = <<x, s>> <=> b = x /\ t = s
    OBVIOUS
  <2> QED
    BY <1>2, <2>1, <2>2, <2>3, <2>4
<1>8. Live' \subseteq Live \cup {<<x, s>>}
  BY <1>5, <1>6, <1>7
<1>9. \A c \in Live' : At2(c)' = IF c = <<x, s>> THEN e ELSE At2(c)
  BY <1>6, <1>7
<1>10. \A c \in Live' : Starts'[c] = IF c = <<x, s>> THEN e.start ELSE Starts[c]
  BY <1>8, <1>9 DEF Starts
<1>11. Vol(Links', sbHead', Live', Starts')
  <2>1. Vol(Links, sbHead, Live, Starts) /\ Mine(Links, sbHead, Live, Starts, e.start)
    BY DEF Volume, Held
  <2>2. Starts' = [c \in Live' |-> IF c = <<x, s>> THEN e.start ELSE Starts[c]]
    BY <1>10 DEF Starts
  <2> DEFINE T == Live'
             m == e.start
             c0 == <<x, s>>
  <2>3. T \subseteq Live \cup {c0} /\ Mine(Links, sbHead, Live, Starts, m)
    BY <1>8, <2>1
  <2>4. Starts' = [c \in T |-> IF c = c0 THEN m ELSE Starts[c]]
    BY <2>2
  <2> HIDE DEF T, m, c0
  <2>5. Vol(Links, sbHead, T, [c \in T |-> IF c = c0 THEN m ELSE Starts[c]])
    BY <2>1, <2>3, VolMore
  <2>6. Vol(Links, sbHead, T, Starts')
    BY <2>4, <2>5
  <2> QED
    BY <1>4, <2>6 DEF T
<1>12. \A c \in Live' : (At2(c).type = DIR => At2(c).start # 0)'
  BY <1>8, <1>9 DEF Volume
<1>13. Used(e) => Live' = Live \cup {<<x, s>>}
  BY <1>5, <1>6, <1>7
<1> QED
  BY <1>4, <1>8, <1>9, <1>11, <1>12, <1>13 DEF Volume

LEMMA InsWriteChains ==
  ASSUME IInv, CInv, NEW p \in Procs, Alone(p), Writing(p), InsWrite(p)
  PROVE  CInv'
<1>1. /\ At(p, "insWrite") /\ Phase(p) /\ formatted /\ Volume /\ op(p) # "mymkfs"
      /\ ~Removing(p) /\ UNCHANGED <<sbHead, formatted>> /\ Finish(p, "ok")
  BY WriterPhase DEF InsWrite, At, Removing
<1>2. AtInsWrite(p)
  BY <1>1 DEF Phase
<1>3. ~Removing(p)'
  <2>1. Ended(p, "ok", Vacant, <<>>).pc = "idle"
    BY DEF Ended, Idle
  <2> QED
    BY <1>1, <2>1, AloneNext DEF Removing, Finish
<1>4. Doomed = {} /\ Doomed' = {}
  BY <1>1, <1>3, AloneNext DEF DoomedBy, Finish
<1>5. Volume'
  BY <1>1, <1>2, <1>4, InsertAt DEF AtInsWrite, ToInsert, InsWrite
<1> QED
  BY <1>1, <1>5, WriteEnd DEF Finish

LEMMA InsNewChains ==
  ASSUME IInv, CInv, NEW p \in Procs, Alone(p), Writing(p), InsNew(p)
  PROVE  CInv'
<1>1. /\ At(p, "insNew") /\ Phase(p) /\ formatted /\ Volume /\ op(p) # "mymkfs"
      /\ ~Removing(p) /\ UNCHANGED <<sbHead, formatted>> /\ Finish(p, "ok")
  BY WriterPhase DEF InsNew, At, Removing
<1>2. AtInsNew(p)
  BY <1>1 DEF Phase
<1>3. ~Removing(p)'
  <2>1. Ended(p, "ok", Vacant, <<>>).pc = "idle"
    BY DEF Ended, Idle
  <2> QED
    BY <1>1, <2>1, AloneNext DEF Removing, Finish
<1>4. Doomed = {} /\ Doomed' = {}
  BY <1>1, <1>3, AloneNext DEF DoomedBy, Finish
<1>5. 1 \in Slots
  BY SizesAssumption DEF Slots
<1>6. blk' = [blk EXCEPT ![pr[p].new] = PutEntry(blk[pr[p].new], 1, pr[p].ent)]
  BY <1>2 DEF AtInsNew, InsNew
<1>7. Volume'
  BY <1>1, <1>2, <1>4, <1>5, <1>6, InsertAt DEF AtInsNew, ToInsert
<1> QED
  BY <1>1, <1>7, WriteEnd DEF Finish

LEMMA InsZeroChains ==
  ASSUME IInv, CInv, NEW p \in Procs, Alone(p), Writing(p), InsZero(p)
  PROVE  CInv'
<1> DEFINE l == [pr[p] EXCEPT !.pc = "insLink"]
<1>1. /\ At(p, "insZero") /\ Phase(p) /\ formatted /\ Volume /\ op(p) # "mymkfs"
      /\ pr[p].res = "none" /\ pr[p] \in Local /\ ~Removing(p)
      /\ UNCHANGED <<sbHead, formatted>>
  BY WriterPhase DEF InsZero, At, Removing
<1>2. AtInsLink(p)
  BY <1>1 DEF Phase
<1>3. /\ l.pc = "insLink" /\ l.cmd = pr[p].cmd /\ l.res = "none" /\ l.idx = pr[p].idx
      /\ l.ent = pr[p].ent /\ l.cur = pr[p].cur /\ l.head = pr[p].head
      /\ l.new = pr[p].new /\ l.buf = pr[p].buf /\ l.first = pr[p].first
  BY <1>1 DEF Local
<1>4. Now(p, l) /\ blk' = blk
  BY <1>2, ZeroAgain DEF AtInsLink, Spare, InsZero
<1> HIDE DEF l
<1>5. pr'[p] = l /\ Doomed' = Doomed
  BY <1>1, <1>3, <1>4, AloneNext DEF DoomedBy, Removing
<1>6. Still
  BY <1>1, <1>4, <1>5, StillIs DEF disk
<1>7. Spare(p)'
  BY <1>2, <1>3, <1>5, <1>6 DEF AtInsLink, Spare, Hand, Apart, Blks, Still
<1>8. Growing(p)'
  BY <1>2, <1>3, <1>5, <1>6
  DEF AtInsLink, Growing, ToInsert, Adding, op, Held, Last, Blks, Still
<1>9. AtInsLink(p)'
  BY <1>7, <1>8 DEF AtInsLink
<1>10. Phase(p)'
  BY <1>1, <1>3, <1>5, <1>9, PhaseFromNext DEF PhaseFacts, At
<1> QED
  BY <1>1, <1>3, <1>4, <1>6, <1>10, WriteStep DEF Still

LEMMA InsLinkChains ==
  ASSUME IInv, CInv, NEW p \in Procs, Alone(p), Writing(p), InsLink(p)
  PROVE  CInv'
<1> DEFINE x == pr[p].cur
           d == pr[p].new
           m == pr[p].ent.start
           g == Links
           h == Links'
           B == [pr[p].buf EXCEPT !.next = d]
           l == [pr[p] EXCEPT !.pc = "insNew"]
<1>1. /\ At(p, "insLink") /\ Phase(p) /\ formatted /\ Volume /\ op(p) # "mymkfs"
      /\ pr[p].res = "none" /\ pr[p] \in Local /\ ~Removing(p)
      /\ UNCHANGED <<sbHead, formatted>>
  BY WriterPhase DEF InsLink, At, Removing
<1>2. AtInsLink(p)
  BY <1>1 DEF Phase
<1>3. /\ l.pc = "insNew" /\ l.cmd = pr[p].cmd /\ l.res = "none" /\ l.idx = pr[p].idx
      /\ l.ent = pr[p].ent /\ l.new = d
  BY <1>1 DEF Local
<1>4. /\ Now(p, l) /\ blk' = [blk EXCEPT ![x] = B]
      /\ x \in Data /\ x \in Body(g, 1) /\ Succ(g, x) = 0 /\ Mine(g, sbHead, Live, Starts, m)
      /\ d \in Data /\ blk[d] = ZeroBlock /\ Off(g, sbHead, Live, Starts, {d})
      /\ d \notin Body(g, m) /\ Succ(g, d) = 0 /\ pr[p].buf = blk[x]
  <2>1. x \in Data /\ x \in Body(g, 1) /\ blk[x].next = 0 /\ pr[p].buf = blk[x]
        /\ Mine(g, sbHead, Live, Starts, m) /\ Hand(p) = m
    BY <1>2 DEF AtInsLink, Growing, ToInsert, Last, Blks, Held, Hand
  <2>2. d \in Data /\ blk[d] = ZeroBlock /\ Off(g, sbHead, Live, Starts, {d})
        /\ d \notin Body(g, m) /\ blk[d].next = 0
    BY <1>2, <2>1 DEF AtInsLink, Spare, Blks, Apart, ZeroBlock
  <2> QED
    BY <2>1, <2>2, LinkFacts DEF InsLink
<1> HIDE DEF l
<1>5. pr'[p] = l /\ Doomed' = Doomed
  BY <1>1, <1>3, <1>4, AloneNext DEF DoomedBy, Removing
<1>6. B.next = d /\ B.ents = blk[x].ents
  BY <1>1, <1>4 DEF Local, Block
<1>7. Succ(h, x) = d /\ \A y \in 1 .. NB : y # x => Succ(h, y) = Succ(g, y)
  <2> HIDE DEF B
  <2> QED
    BY <1>4, <1>6, LinkFacts, OneLink
<1>8. /\ Vol(h, sbHead, Live, Starts) /\ Body(h, 1) = Body(g, 1) \cup {d}
      /\ Mine(h, sbHead, Live, Starts, m)
  <2>1. Vol(g, sbHead, Live, Starts)
    BY <1>1 DEF Volume
  <2> HIDE DEF g, h, x, d, m
  <2> QED
    BY <1>4, <1>7, <2>1, VolGrow
<1>9. \A b \in Blks(1) \cup {d} : blk'[b].ents = blk[b].ents
  <2>1. Blks(1) \cup {d} \subseteq Blocks
    BY <1>1, <1>4, LinkFacts DEF Volume, Vol, Blks
  <2> QED
    BY <1>4, <1>6, <2>1 DEF IInv, TypeOK
<1>10. Live' = Live /\ \A c \in Live : At2(c)' = At2(c)
  <2>1. Live = {c \in Blks(1) \X Slots : Used(At2(c))} \ Doomed
    BY <1>1, LiveIs DEF LiveFact, OK, Volume, Vol, Blks
  <2>2. Live' = {c \in (Blks(1) \cup {d}) \X Slots : Used(At2(c)')} \ Doomed
    BY <1>1, <1>4, <1>5, <1>8, LiveIsNext DEF LiveFact, OK, Volume, Vol, Blks
  <2>3. \A c \in (Blks(1) \cup {d}) \X Slots : At2(c)' = At2(c)
    BY <1>9 DEF At2
  <2>4. \A c \in {d} \X Slots : ~Used(At2(c))
    BY <1>4 DEF At2, Used, ZeroBlock, Vacant
  <2> QED
    BY <2>1, <2>2, <2>3, <2>4
<1>11. Starts' = Starts
  BY <1>10 DEF Starts
<1>12. Volume'
  BY <1>1, <1>8, <1>10, <1>11 DEF Volume
<1>13. blk'[d] = ZeroBlock
  <2>1. d # x
    BY <1>4, LinkFacts DEF Off
  <2> QED
    BY <1>4, <2>1, LinkFacts DEF IInv, TypeOK
<1>14. AtInsNew(p)'
  BY <1>1, <1>2, <1>3, <1>4, <1>5, <1>8, <1>10, <1>11, <1>13
  DEF AtInsNew, ToInsert, Adding, op, Held, Blks, AtInsLink, Growing
<1>15. Phase(p)'
  BY <1>1, <1>3, <1>5, <1>14, PhaseFromNext DEF PhaseFacts, At
<1> QED
  BY <1>1, <1>3, <1>4, <1>12, <1>15, WriteStep

-----------------------------------------------------------------------------
(* A removal takes a step.                                                 *)

RemovalPCs == {"rmRead", "rmFree", "rmSuper", "clrRead", "clrWrite"}

LEMMA DoomedKept ==
  ASSUME IInv, NEW p \in Procs, Alone(p), op(p) \in {"myrm", "myrmdir"},
         pr[p].pc \in RemovalPCs, NEW l, Now(p, l), l.cmd = pr[p].cmd,
         l.pc \in RemovalPCs, l.at = pr[p].at, l.idx = pr[p].idx
  PROVE  Doomed' = Doomed /\ pr'[p] = l
<1>1. pr'[p] = l /\ Doomed = DoomedBy(p) /\ Doomed' = DoomedBy(p)'
  BY AloneNext
<1>2. Removing(p) /\ Removing(p)'
  BY <1>1 DEF Removing, RemovalPCs, op
<1> QED
  BY <1>1, <1>2 DEF DoomedBy

LEMMA RmReadChains ==
  ASSUME IInv, CInv, NEW p \in Procs, Alone(p), Writing(p), RmRead(p)
  PROVE  CInv'
<1> DEFINE x == pr[p].cur
           l == [pr[p] EXCEPT !.pc = "rmFree", !.nxt = blk[x].next]
<1>1. /\ At(p, "rmRead") /\ Phase(p) /\ formatted /\ Volume /\ op(p) # "mymkfs"
      /\ pr[p].res = "none" /\ pr[p] \in Local /\ UNCHANGED disk
  BY WriterPhase DEF RmRead, At
<1>2. AtRmRead(p) /\ pr[p].idx \in Slots
  BY <1>1 DEF Phase
<1>3. x \in Data /\ Fine(Links, x) /\ Links[x] = blk[x].next
  <2>1. Fine(Links, x) /\ Body(Links, x) \subseteq Data /\ x # 0
    BY <1>2 DEF AtRmRead, Held, Mine
  <2> QED
    BY <2>1, Somewhere, LinkFacts
<1>4. Now(p, l)
  BY <1>3, LinkFacts DEF RmRead, Readable
<1>5. /\ l.pc = "rmFree" /\ l.cmd = pr[p].cmd /\ l.res = "none" /\ l.idx = pr[p].idx
      /\ l.ent = pr[p].ent /\ l.cur = x /\ l.head = pr[p].head /\ l.nxt = blk[x].next
      /\ l.at = pr[p].at
  BY <1>1 DEF Local
<1> HIDE DEF l
<1>6. pr'[p] = l /\ Still
  BY <1>1, <1>2, <1>4, <1>5, DoomedKept, StillIs DEF AtRmRead, RemovalPCs, At
<1>7. Fine(Links, l.nxt) /\ Body(Links, l.nxt) \subseteq Body(Links, x) \ {x}
  BY <1>3, <1>5, Pop
<1>8. AtRmFree(p)'
  BY <1>2, <1>5, <1>6, <1>7 DEF AtRmFree, AtRmRead, Gone, Held, OK, Blks, op, Still
<1>9. Phase(p)'
  BY <1>1, <1>2, <1>5, <1>6, <1>8, PhaseFromNext DEF PhaseFacts, At, Still
<1> QED
  BY <1>1, <1>4, <1>5, <1>6, <1>9, WriteStep DEF Still

LEMMA FreeWriteChains ==
  ASSUME IInv, CInv, NEW p \in Procs, Alone(p), Writing(p), FreeWrite(p)
  PROVE  CInv'
<1> DEFINE x == pr[p].cur
           m == pr[p].nxt
           B == FreeBlock(pr[p].head)
           l == [pr[p] EXCEPT !.pc = "rmSuper", !.head = x]
<1>1. /\ At(p, "rmFree") /\ Phase(p) /\ formatted /\ Volume /\ op(p) # "mymkfs"
      /\ pr[p].res = "none" /\ pr[p] \in Local /\ UNCHANGED <<sbHead, formatted>>
  BY WriterPhase DEF FreeWrite, At
<1>2. AtRmFree(p) /\ AtRmRead(p) /\ pr[p].idx \in Slots
  BY <1>1 DEF Phase, AtRmFree
<1>3. /\ x # 0 /\ Mine(Links, sbHead, Live, Starts, x)
      /\ Fine(Links, m) /\ Body(Links, m) \subseteq Body(Links, x) \ {x}
  BY <1>2 DEF AtRmFree, AtRmRead, Held, OK, Blks
<1>4. x \in Data /\ x \in Body(Links, x)
  BY <1>3, Somewhere DEF Mine
<1>5. /\ l.pc = "rmSuper" /\ l.cmd = pr[p].cmd /\ l.res = "none" /\ l.idx = pr[p].idx
      /\ l.ent = pr[p].ent /\ l.cur = x /\ l.head = x /\ l.nxt = m
      /\ l.at = pr[p].at
  BY <1>1 DEF Local
<1>6. Now(p, l) /\ blk' = [blk EXCEPT ![x] = B] /\ B.next = sbHead
  BY <1>2 DEF FreeWrite, FreeBlock, ZeroBlock, AtRmRead
<1> HIDE DEF l, B
<1>7. pr'[p] = l /\ Doomed' = Doomed
  BY <1>1, <1>2, <1>5, <1>6, DoomedKept DEF AtRmRead, RemovalPCs, At
<1>8. Apart({x}) /\ Held(m) /\ x \notin Blks(m)
  BY <1>3, <1>4 DEF Mine, Off, Apart, Held, Blks
<1>9. /\ Volume' /\ Live' = Live /\ Starts' = Starts
      /\ Body(Links', sbHead) = Blks(sbHead)
      /\ Off(Links', sbHead', Live', Starts', {x})
      /\ Mine(Links', sbHead', Live', Starts', m) /\ Body(Links', m) = Blks(m)
  <2> HIDE DEF x, m
  <2> QED
    BY <1>1, <1>4, <1>6, <1>7, <1>8, WriteApart
<1>10. blk'[x].next = sbHead
  BY <1>4, <1>6, LinkFacts DEF IInv, TypeOK
<1>11. AtRmSuper(p)'
  BY <1>1, <1>2, <1>4, <1>5, <1>7, <1>8, <1>9, <1>10
  DEF AtRmSuper, AtRmRead, Gone, Held, Apart, Blks, op
<1>12. Phase(p)'
  BY <1>1, <1>2, <1>5, <1>7, <1>11, PhaseFromNext DEF PhaseFacts, At
<1> QED
  BY <1>1, <1>5, <1>6, <1>9, <1>12, WriteStep

LEMMA FreeSuperChains ==
  ASSUME IInv, CInv, NEW p \in Procs, Alone(p), Writing(p), FreeSuper(p)
  PROVE  CInv'
<1> DEFINE x == pr[p].cur
           m == pr[p].nxt
           l == [pr[p] EXCEPT !.pc = IF m = 0 THEN "clrRead" ELSE "rmRead",
                              !.cur = m, !.nxt = 0]
<1>1. /\ At(p, "rmSuper") /\ Phase(p) /\ formatted /\ Volume /\ op(p) # "mymkfs"
      /\ pr[p].res = "none" /\ pr[p] \in Local /\ UNCHANGED <<blk, formatted>>
  BY WriterPhase DEF FreeSuper, At
<1>2. AtRmSuper(p) /\ pr[p].idx \in Slots
  BY <1>1 DEF Phase
<1>3. /\ x \in Data /\ Links[x] = sbHead /\ Off(Links, sbHead, Live, Starts, {x})
      /\ Mine(Links, sbHead, Live, Starts, m) /\ x \notin Body(Links, m) /\ sbHead' = x
  BY <1>2, LinkFacts DEF AtRmSuper, Held, Apart, Blks, FreeSuper
<1>4. /\ l.pc = (IF m = 0 THEN "clrRead" ELSE "rmRead") /\ l.cmd = pr[p].cmd
      /\ l.res = "none" /\ l.idx = pr[p].idx /\ l.ent = pr[p].ent /\ l.cur = m
      /\ l.head = x /\ l.at = pr[p].at
  BY <1>1, <1>2 DEF Local, AtRmSuper
<1>5. Now(p, l)
  BY DEF FreeSuper
<1> HIDE DEF l
<1>6. pr'[p] = l /\ Doomed' = Doomed
  BY <1>1, <1>2, <1>4, <1>5, DoomedKept DEF AtRmSuper, RemovalPCs, At
<1>7. Links' = Links /\ Live' = Live /\ Starts' = Starts /\ \A c : At2(c)' = At2(c)
  <2>1. Links' = Links /\ Hops(1)' = Hops(1)
    BY <1>1 DEF Links, Hops, Hop
  <2> QED
    BY <1>1, <1>6, <2>1 DEF Live, Starts, Cells, Chain, At2
<1>8. /\ Vol(Links, x, Live, Starts) /\ Body(Links, x) = {x} \cup Body(Links, sbHead)
      /\ Off(Links, x, Live, Starts, Body(Links, m))
  <2>1. Vol(Links, sbHead, Live, Starts) /\ Off(Links, sbHead, Live, Starts, Body(Links, m))
    BY <1>1, <1>3 DEF Volume, Mine
  <2> HIDE DEF x, m
  <2> QED
    BY <1>3, <2>1, VolPush
<1>9. Volume'
  BY <1>1, <1>3, <1>7, <1>8 DEF Volume
<1>10. Gone(p)' /\ Mine(Links', sbHead', Live', Starts', m)
  <2>1. pr[p].ent.start \in {0} \cup Body(Links, x)
    BY <1>2, <1>8 DEF AtRmSuper, Gone, Blks
  <2> QED
    BY <1>3, <1>4, <1>6, <1>7, <1>8, <2>1 DEF Gone, Blks, Mine
<1>11. CASE m = 0
  <2>1. AtClrRead(p)'
    BY <1>2, <1>4, <1>6, <1>10 DEF AtClrRead, AtRmSuper, op
  <2>2. Phase(p)'
    BY <1>1, <1>4, <1>6, <1>11, <2>1, PhaseFromNext DEF PhaseFacts, At
  <2> QED
    BY <1>1, <1>4, <1>5, <1>9, <2>2, WriteStep
<1>12. CASE m # 0
  <2>1. AtRmRead(p)'
    BY <1>2, <1>3, <1>4, <1>6, <1>10, <1>12 DEF AtRmRead, AtRmSuper, Gone, op, Held
  <2>2. Phase(p)'
    BY <1>1, <1>2, <1>4, <1>6, <1>12, <2>1, PhaseFromNext DEF PhaseFacts, At
  <2> QED
    BY <1>1, <1>4, <1>5, <1>9, <2>2, WriteStep
<1> QED
  BY <1>11, <1>12

LEMMA ClearReadChains ==
  ASSUME IInv, CInv, NEW p \in Procs, Alone(p), Writing(p), ClearRead(p)
  PROVE  CInv'
<1> DEFINE B == PutEntry(blk[1], pr[p].idx, Vacant)
           l == [pr[p] EXCEPT !.pc = "clrWrite", !.buf = B]
<1>1. /\ At(p, "clrRead") /\ Phase(p) /\ formatted /\ Volume /\ op(p) # "mymkfs"
      /\ pr[p].res = "none" /\ pr[p] \in Local /\ UNCHANGED disk
  BY WriterPhase DEF ClearRead, At
<1>2. AtClrRead(p)
  BY <1>1 DEF Phase
<1>3. Now(p, l)
  BY DEF ClearRead
<1>4. /\ l.pc = "clrWrite" /\ l.cmd = pr[p].cmd /\ l.res = "none" /\ l.idx = pr[p].idx
      /\ l.ent = pr[p].ent /\ l.buf = B /\ l.at = pr[p].at
  BY <1>1 DEF Local
<1> HIDE DEF l
<1>5. pr'[p] = l /\ Still
  BY <1>1, <1>2, <1>3, <1>4, DoomedKept, StillIs DEF AtClrRead, RemovalPCs, At
<1>6. AtClrWrite(p)'
  BY <1>2, <1>4, <1>5 DEF AtClrWrite, AtClrRead, Gone, Blks, op, Still
<1>7. Phase(p)'
  BY <1>1, <1>4, <1>5, <1>6, PhaseFromNext DEF PhaseFacts, At, Still
<1> QED
  BY <1>1, <1>3, <1>4, <1>5, <1>7, WriteStep DEF Still

\* The slot that is cleared is the one of the entry.
LEMMA ClearedIs ==
  ASSUME IInv, CInv, InFirstBlock, NEW p \in Procs, Alone(p), Writing(p), ClearWrite(p)
  PROVE  /\ Links' = Links /\ Live' = Live /\ \A c \in Live : At2(c)' = At2(c)
         /\ \A b \in Data : b # 1 => blk'[b] = blk[b]
<1> DEFINE s == pr[p].idx
           B == PutEntry(blk[1], s, Vacant)
<1>1. /\ At(p, "clrWrite") /\ Phase(p) /\ formatted /\ Volume /\ op(p) # "mymkfs"
      /\ pr[p] \in Local /\ UNCHANGED <<sbHead, formatted>> /\ Finish(p, "ok")
  BY WriterPhase DEF ClearWrite, At
<1>2. AtClrWrite(p) /\ s \in Slots /\ blk' = [blk EXCEPT ![1] = B]
  BY <1>1 DEF Phase, AtClrWrite, AtClrRead, ClearWrite
<1>3. Doomed = {<<1, s>>} /\ Doomed' = {}
  <2>1. Removing(p) /\ pr[p].at = 1
    BY <1>1, <1>2 DEF InFirstBlock, Removing, AtClrWrite, AtClrRead, At
  <2>2. Ended(p, "ok", Vacant, <<>>).pc = "idle"
    BY DEF Ended, Idle
  <2>3. ~Removing(p)'
    BY <1>1, <2>2, AloneNext DEF Removing, Finish
  <2> QED
    BY <1>1, <2>1, <2>3, AloneNext DEF DoomedBy, Finish
<1>4. 1 \in Data /\ Fine(Links, 1) /\ Blks(1) \subseteq Data
  BY <1>1, SizesAssumption DEF Volume, Vol, Blks, Data
<1>5. B.next = blk[1].next
      /\ \A t \in Slots : B.ents[t] = IF t = s THEN Vacant ELSE blk[1].ents[t]
  BY <1>2, <1>4, LinkFacts DEF PutEntry, Block
<1> HIDE DEF B
<1>6. Links' = Links
  BY <1>2, <1>4, <1>5, LinkFacts, OneLink
<1>7. Live = {c \in Blks(1) \X Slots : Used(At2(c))} \ {<<1, s>>}
  BY <1>1, <1>3, <1>4, LiveIs DEF LiveFact, OK
<1>8. Live' = {c \in Blks(1) \X Slots : Used(At2(c)')}
  BY <1>1, <1>3, <1>4, <1>6, LiveIsNext DEF LiveFact, OK, Blks
<1>9. \A c \in Blks(1) \X Slots : At2(c)' = IF c = <<1, s>> THEN Vacant ELSE At2(c)
  <2> SUFFICES ASSUME NEW c \in Blks(1) \X Slots
               PROVE  At2(c)' = IF c = <<1, s>> THEN Vacant ELSE At2(c)
    OBVIOUS
  <2> DEFINE b == c[1]
             t == c[2]
  <2>1. b \in Blocks /\ t \in Slots
    BY <1>4, LinkFacts
  <2>2. At2(c) = blk[b].ents[t] /\ At2(c)' = blk'[b].ents[t]
    BY DEF At2
  <2>3. blk'[b] = IF b = 1 THEN B ELSE blk[b]
    BY <1>2, <2>1 DEF IInv, TypeOK
  <2>4. c = <<1, s>> <=> b = 1 /\ t = s
    OBVIOUS
  <2> QED
    BY <1>5, <2>1, <2>2, <2>3, <2>4
<1>10. ~Used(Vacant)
  BY DEF Used, Vacant
<1>11. Live' = Live /\ \A c \in Live : At2(c)' = At2(c)
  BY <1>7, <1>8, <1>9, <1>10
<1>12. \A b \in Data : b # 1 => blk'[b] = blk[b]
  BY <1>2, LinkFacts DEF IInv, TypeOK
<1> QED
  BY <1>6, <1>11, <1>12

LEMMA ClearWriteChains ==
  ASSUME IInv, CInv, InFirstBlock, NEW p \in Procs, Alone(p), Writing(p), ClearWrite(p)
  PROVE  CInv'
<1>1. /\ formatted /\ Volume /\ UNCHANGED <<sbHead, formatted>> /\ Finish(p, "ok")
  BY WriterPhase DEF ClearWrite, At
<1>2. Links' = Links /\ Live' = Live /\ \A c \in Live : At2(c)' = At2(c)
  BY ClearedIs
<1>3. Volume'
  BY <1>1, <1>2 DEF Volume, Starts
<1> QED
  BY <1>1, <1>3, WriteEnd DEF Finish

\* A removal found the entry in c: the entry is live no more, and its chain is
\* in the hand of the command.
LEMMA TakenOver ==
  ASSUME Volume, UNCHANGED disk, Doomed = {}, NEW c \in Live, Doomed' = {c}
  PROVE  /\ Volume' /\ Links' = Links /\ sbHead' = sbHead /\ formatted' = formatted
         /\ Mine(Links', sbHead', Live', Starts', At2(c).start)
<1>1. /\ Volume' /\ Links' = Links /\ Live' \subseteq Live
      /\ blk' = blk /\ sbHead' = sbHead /\ formatted' = formatted
  BY FewerLive DEF disk
<1>2. \A d \in Live' : d \in Live /\ d # c /\ Starts'[d] = At2(d).start
  BY <1>1 DEF Live, Starts, At2
<1>3. \A d \in Live : Starts[d] = At2(d).start
  BY DEF Starts
<1> DEFINE m == At2(c).start
<1>4. Fine(Links, m) /\ Body(Links, m) \subseteq Data
  BY <1>3 DEF Volume, Vol
<1>5. Off(Links, sbHead, Live', Starts', Body(Links, m))
  BY <1>2, <1>3 DEF Volume, Vol, Off
<1> QED
  BY <1>1, <1>4, <1>5 DEF Mine

LEMMA RmdirCheckChains ==
  ASSUME IInv, CInv, NEW p \in Procs, Alone(p), Writing(p), RmdirCheck(p)
  PROVE  CInv'
<1> DEFINE x == pr[p].cur
           c == <<pr[p].at, pr[p].idx>>
           l == [pr[p] EXCEPT !.pc = "rmFree", !.nxt = 0]
<1>1. /\ At(p, "rmdirCheck") /\ Phase(p) /\ formatted /\ Volume /\ op(p) # "mymkfs"
      /\ pr[p].res = "none" /\ pr[p] \in Local /\ UNCHANGED disk /\ ~Removing(p)
  BY WriterPhase DEF RmdirCheck, At, Removing
<1>2. AtRmdirCheck(p)
  BY <1>1 DEF Phase
<1>3. CASE Now(p, Ended(p, "err", Vacant, <<>>))
  BY <1>1, <1>3, QuitChains
<1>4. CASE Now(p, l)
  <2>1. /\ l.pc = "rmFree" /\ l.cmd = pr[p].cmd /\ l.res = "none" /\ l.idx = pr[p].idx
        /\ l.ent = pr[p].ent /\ l.cur = x /\ l.head = pr[p].head /\ l.nxt = 0
        /\ l.at = pr[p].at
    BY <1>1 DEF Local
  <2> HIDE DEF l
  <2>2. pr'[p] = l
    BY <1>4, AloneNext
  <2>3. Doomed = {} /\ Doomed' = {c}
    BY <1>1, <1>2, <1>4, <2>1, <2>2, AloneNext DEF DoomedBy, Removing, AtRmdirCheck, op
  <2>4. c \in Live /\ At2(c).start = x /\ x # 0
    BY <1>2 DEF AtRmdirCheck
  <2>5. /\ Volume' /\ Links' = Links /\ sbHead' = sbHead /\ formatted' = formatted
        /\ Mine(Links', sbHead', Live', Starts', x)
    <3> HIDE DEF c, x
    <3> QED
      BY <1>1, <2>3, <2>4, TakenOver
  <2>6. AtRmFree(p)'
    <3>1. Fine(Links', 0) /\ Body(Links', 0) = {}
      BY Nowhere
    <3> QED
      BY <1>2, <2>1, <2>2, <2>5, <3>1
      DEF AtRmFree, AtRmRead, AtRmdirCheck, Held, OK, Blks, op
  <2>7. Phase(p)'
    BY <1>1, <1>2, <2>1, <2>2, <2>5, <2>6, PhaseFromNext DEF PhaseFacts, At, AtRmdirCheck
  <2> QED
    BY <1>1, <1>4, <2>1, <2>5, <2>7, WriteStep
<1> QED
  BY <1>3, <1>4 DEF RmdirCheck

LEMMA FindChains ==
  ASSUME IInv, CInv, NEW p \in Procs, Alone(p), Writing(p), Find(p)
  PROVE  CInv'
<1> DEFINE x == pr[p].cur
           b == blk[x]
<1>1. /\ At(p, "find") /\ Phase(p) /\ formatted /\ Volume /\ op(p) # "mymkfs"
      /\ pr[p].res = "none" /\ pr[p] \in Local /\ UNCHANGED disk /\ ~Removing(p)
  BY WriterPhase DEF Find, At, Removing
<1>2. AtFind(p)
  BY <1>1 DEF Phase
<1>3. Doomed = {}
  BY <1>1, DoomedIs DEF DoomedBy
<1>4. CASE Fail(p)
  BY <1>1, <1>4, FailChains
<1>5. CASE Segv(p)
  BY <1>1, <1>5, QuitChains DEF Segv, Finish
<1>6. CASE b.next # 0 /\ Now(p, [pr[p] EXCEPT !.cur = b.next])
  <2> DEFINE l == [pr[p] EXCEPT !.cur = b.next]
  <2>1. l.pc = "find" /\ l.cmd = pr[p].cmd /\ l.res = "none" /\ l.cur = b.next
        /\ l.head = pr[p].head
    BY <1>1 DEF Local, At
  <2>2. b.next \in Blks(1)
    BY <1>1, <1>2, <1>6, CursorOn DEF AtFind
  <2> HIDE DEF l
  <2>3. Now(p, l)
    BY <1>6 DEF l
  <2>4. pr'[p] = l
    BY <2>3, AloneNext
  <2>5. Still
    BY <1>1, <2>1, <2>3, <2>4, AloneNext, StillIs DEF DoomedBy, Removing
  <2>6. AtFind(p)'
    BY <1>2, <2>1, <2>2, <2>4, <2>5 DEF AtFind, Blks, Still
  <2>7. Phase(p)'
    BY <1>1, <2>1, <2>4, <2>5, <2>6, PhaseFromNext DEF PhaseFacts, At, Still
  <2> QED
    BY <1>1, <2>1, <2>3, <2>5, <2>7, WriteStep DEF Still
<1>7. ASSUME NEW s \in Slots, IsFirst(s, Hits(b, final(p))), Found(p, b.ents[s], s)
      PROVE  CInv'
  <2> DEFINE e == b.ents[s]
             c == <<x, s>>
  <2>1. c \in Live /\ At2(c) = e
    <3>1. Live = {d \in Blks(1) \X Slots : Used(At2(d))}
      BY <1>1, <1>3, LiveIs DEF LiveFact, OK, Volume, Vol, Blks
    <3>2. Used(e) /\ At2(c) = e
      BY <1>7 DEF IsFirst, Hits, At2
    <3> QED
      BY <1>2, <3>1, <3>2 DEF AtFind
  <2>2. CASE Now(p, Ended(p, "ok", e, <<>>))
    <3> HIDE DEF e
    <3> QED
      BY <1>1, <2>2, QuitChains
  <2>3. CASE Fail(p)
    BY <1>1, <2>3, FailChains
  <2> DEFINE l == [pr[p] EXCEPT !.pc = AfterFind(p, e), !.ent = e, !.idx = s,
                                !.at = x, !.cur = e.start,
                                !.rem = IF op(p) = "myreadBlock" THEN pr[p].cmd.len
                                        ELSE e.size]
  <2>4. CASE op(p) \in {"myrm", "myrmdir"} /\ e.type = Wanted(p) /\ Now(p, l)
    <3> DEFINE m == e.start
    <3>1. /\ l.pc = AfterFind(p, e) /\ l.cmd = pr[p].cmd /\ l.res = "none" /\ l.idx = s
          /\ l.ent = e /\ l.cur = m /\ l.head = pr[p].head /\ l.at = x
      BY <1>1 DEF Local
    <3> HIDE DEF l, e
    <3>2. pr'[p] = l
      BY <2>4, AloneNext
    <3>3. CASE op(p) = "myrm"
      <4>1. l.pc = IF m = 0 THEN "clrRead" ELSE "rmRead"
        BY <3>1, <3>3 DEF AfterFind
      <4>2. Doomed' = {c}
        BY <1>1, <2>4, <3>1, <3>2, <3>3, <4>1, AloneNext DEF DoomedBy, Removing, op
      <4>3. /\ Volume' /\ Links' = Links /\ sbHead' = sbHead /\ formatted' = formatted
            /\ Mine(Links', sbHead', Live', Starts', m)
        <5> HIDE DEF c
        <5>1. At2(c).start = m
          BY <2>1
        <5> QED
          BY <1>1, <1>3, <2>1, <4>2, <5>1, TakenOver
      <4>4. CASE m = 0
        <5>1. AtClrRead(p)'
          BY <3>1, <3>2, <3>3, <4>4 DEF AtClrRead, Gone, op
        <5>2. Phase(p)'
          BY <1>1, <3>1, <3>2, <4>1, <4>3, <4>4, <5>1, PhaseFromNext DEF PhaseFacts, At
        <5> QED
          BY <1>1, <2>4, <3>1, <4>3, <5>2, WriteStep
      <4>5. CASE m # 0
        <5>1. AtRmRead(p)'
          BY <1>2, <3>1, <3>2, <3>3, <4>3, <4>5 DEF AtFind, AtRmRead, Held, op
        <5>2. Phase(p)'
          BY <1>1, <3>1, <3>2, <4>1, <4>3, <4>5, <5>1, PhaseFromNext DEF PhaseFacts, At
        <5> QED
          BY <1>1, <2>4, <3>1, <4>3, <5>2, WriteStep
      <4> QED
        BY <4>4, <4>5
    <3>4. CASE op(p) = "myrmdir"
      <4>1. l.pc = "rmdirCheck" /\ e.type = DIR
        BY <2>4, <3>1, <3>4 DEF AfterFind, Wanted
      <4>2. Still
        BY <1>1, <2>4, <3>2, <4>1, AloneNext, StillIs DEF DoomedBy, Removing
      <4>3. m # 0
        BY <1>1, <2>1, <4>1 DEF Volume
      <4>4. blk'[x].ents[s] = e
        BY <2>1, <4>2 DEF At2, Still
      <4>5. AtRmdirCheck(p)'
        BY <1>2, <2>1, <3>1, <3>2, <3>4, <4>2, <4>3, <4>4
        DEF AtFind, AtRmdirCheck, op, Still, At2
      <4>6. Phase(p)'
        BY <1>1, <3>1, <3>2, <4>1, <4>2, <4>5, PhaseFromNext DEF PhaseFacts, At, Still
      <4> QED
        BY <1>1, <2>4, <3>1, <4>2, <4>6, WriteStep DEF Still
    <3> QED
      BY <2>4, <3>3, <3>4
  <2>5. op(p) \notin {"mycopyFrom", "myreadBlock"}
    BY DEF Writing, Writes
  <2> QED
    BY <1>7, <2>2, <2>3, <2>4, <2>5 DEF Found
<1> QED
  BY <1>4, <1>5, <1>6, <1>7 DEF Find

-----------------------------------------------------------------------------
(* mymkfs.                                                                 *)

\* On a volume of two blocks the free chain is a block past the end.
LEMMA PastTheEnd ==
  ASSUME NEW g
  PROVE  Fine(g, NB) /\ Body(g, NB) = {NB}
<1> DEFINE s == [i \in 1 .. 1 |-> NB]
<1>1. Spells(g, NB, 1, s)
  BY SizesAssumption DEF Spells, Succ, Data
<1>2. Fine(g, NB) /\ Body(g, NB) = {s[i] : i \in 1 .. 1}
  BY <1>1, SpelledIs
<1> QED
  BY <1>2

\* A volume without entries.
Fresh == /\ formatted /\ OK(sbHead) /\ 1 \notin Blks(sbHead) /\ blk[1].next = 0
         /\ \A b \in Data : blk[b].ents = ZeroBlock.ents
FreshFact == Fresh => Volume

LEMMA FreshIs == FreshFact
<1> SUFFICES ASSUME formatted, OK(sbHead), 1 \notin Blks(sbHead), blk[1].next = 0,
                    \A b \in Data : blk[b].ents = ZeroBlock.ents
             PROVE  Volume
  BY DEF FreshFact, Fresh
<1>1. 1 \in Data /\ Links[1] = 0 /\ Fine(Links, 0) /\ Body(Links, 0) = {}
  BY SizesAssumption, Nowhere DEF Data, Links
<1>2. Fine(Links, 1) /\ Body(Links, 1) = {1}
  BY <1>1, Push
<1>3. Live = {}
  <2>1. Live = {c \in {1} \X Slots : Used(At2(c))} \ Doomed
    BY <1>1, <1>2, LiveIs DEF LiveFact, OK, Blks
  <2>2. \A c \in {1} \X Slots : ~Used(At2(c))
    BY <1>1 DEF At2, Used, ZeroBlock, Vacant
  <2> QED
    BY <2>1, <2>2
<1> QED
  BY <1>1, <1>2, <1>3 DEF Volume, Vol, OK, Blks

LEMMA FreshIsNext == FreshFact'
BY FreshIs, PTL

LEMMA FormatterPhase ==
  ASSUME IInv, CInv, NEW p \in Procs,
         pr[p].pc \in {"fsSuper", "fsRoot", "fsChain"}
  PROVE  /\ MkfsPhase(p) /\ op(p) = "mymkfs" /\ pr[p].res = "none" /\ pr[p] \in Local
         /\ Writing(p) /\ (formatted => Volume)
BY LocalFacts DEF CInv, Running, Phase, Writing, Writes, At

LEMMA FormatStep ==
  ASSUME IInv, CInv, NEW p \in Procs, Alone(p), op(p) = "mymkfs",
         NEW l, Now(p, l), l.cmd = pr[p].cmd, l.res = "none", Volume', MkfsPhase(p)'
  PROVE  CInv'
<1>1. Running(p)'
  BY AloneNext DEF Running, Writes, op
<1> QED
  BY <1>1, StepBy

LEMMA MkfsSuperChains ==
  ASSUME IInv, CInv, NEW p \in Procs, Alone(p), MkfsSuper(p)
  PROVE  CInv'
<1> DEFINE l == [pr[p] EXCEPT !.pc = "fsRoot"]
<1>1. /\ At(p, "fsSuper") /\ MkfsPhase(p) /\ op(p) = "mymkfs" /\ pr[p].res = "none"
      /\ pr[p] \in Local
  BY FormatterPhase DEF MkfsSuper, At
<1>2. /\ l.pc = "fsRoot" /\ l.cmd = pr[p].cmd /\ l.res = "none"
      /\ Now(p, l) /\ sbHead' = 2 /\ formatted'
  BY <1>1 DEF Local, MkfsSuper
<1> HIDE DEF l
<1>3. pr'[p] = l
  BY <1>2, AloneNext
<1>4. \A b \in Data : blk'[b] = ZeroBlock
  <2>1. \A b \in Data : blk[b] = ZeroBlock /\ b # 0 /\ b \in Blocks
    BY <1>1, LinkFacts DEF MkfsPhase
  <2> QED
    BY <2>1 DEF MkfsSuper, IInv, TypeOK
<1>5. \A b \in Data : Links'[b] = 0
  BY <1>4 DEF Links, ZeroBlock
<1>6. Fine(Links', 2) /\ 1 \notin Body(Links', 2)
  <2>1. CASE NB = 2
    BY <2>1, PastTheEnd
  <2>2. CASE NB # 2
    <3>1. 2 \in Data /\ Links'[2] = 0
      BY <1>5, <2>2, SizesAssumption DEF Data
    <3>2. Fine(Links', 2) /\ Body(Links', 2) = {2}
      BY <3>1, Nowhere, Push
    <3> QED
      BY <3>2
  <2> QED
    BY <2>1, <2>2
<1>7. blk'[1].next = 0 /\ \A b \in Data : blk'[b].ents = ZeroBlock.ents
  BY <1>4, SizesAssumption DEF Data, ZeroBlock
<1>8. Volume'
  BY <1>2, <1>6, <1>7, FreshIsNext DEF FreshFact, Fresh, OK, Blks
<1>9. MkfsPhase(p)'
  BY <1>2, <1>3, <1>4 DEF MkfsPhase, At
<1> QED
  BY <1>1, <1>2, <1>8, <1>9, FormatStep

LEMMA MkfsRootChains ==
  ASSUME IInv, CInv, NEW p \in Procs, Alone(p), MkfsRoot(p)
  PROVE  CInv'
<1> DEFINE l == [pr[p] EXCEPT !.pc = "fsChain", !.cur = 2]
<1>1. /\ At(p, "fsRoot") /\ MkfsPhase(p) /\ op(p) = "mymkfs" /\ pr[p].res = "none"
      /\ pr[p] \in Local /\ formatted /\ Volume /\ sbHead = 2
      /\ \A b \in Data : blk[b] = ZeroBlock
  BY FormatterPhase DEF MkfsRoot, MkfsPhase, At
<1>2. 1 \in Data /\ blk' = blk /\ UNCHANGED disk
  <2>1. 1 \in Data
    BY SizesAssumption DEF Data
  <2> QED
    BY <1>1, <2>1, ZeroAgain DEF MkfsRoot, disk
<1>3. ASSUME NEW k, Now(p, k), ~(k.pc \in {"rmRead", "rmFree", "rmSuper", "clrRead", "clrWrite"})
      PROVE  pr'[p] = k /\ Still
  <2>1. ~Removing(p)' /\ ~Removing(p)
    BY <1>1, <1>3, AloneNext DEF Removing, At
  <2> QED
    BY <1>1, <1>2, <1>3, <2>1, AloneNext, StillIs DEF DoomedBy
<1>4. CASE Finish(p, "ok")
  BY <1>1, <1>2, <1>4, QuitChains DEF Finish, Removing, At
<1>5. CASE NB > 2 /\ Now(p, l)
  <2>1. l.pc = "fsChain" /\ l.cmd = pr[p].cmd /\ l.res = "none" /\ l.cur = 2
    BY <1>1 DEF Local
  <2> HIDE DEF l
  <2>2. pr'[p] = l /\ Still
    BY <1>3, <1>5, <2>1
  <2>3. 2 \in Data /\ 2 \in 2 .. NB-1 /\ 2 .. 2 = {2}
    BY <1>5, SizesAssumption DEF Data
  <2>4. Body(Links, 2) = 2 .. 2
    <3>1. Links[2] = 0
      BY <1>1, <2>3, LinkFacts DEF ZeroBlock
    <3> QED
      BY <2>3, <3>1, Nowhere, Push
  <2>5. \A b \in Data : blk[b].next = 0
    BY <1>1 DEF ZeroBlock
  <2>6. MkfsPhase(p)'
    BY <1>1, <2>1, <2>2, <2>3, <2>4, <2>5 DEF MkfsPhase, At, Still, Blks
  <2> QED
    BY <1>1, <1>5, <2>1, <2>2, <2>6, FormatStep DEF Still
<1> QED
  BY <1>4, <1>5 DEF MkfsRoot

LEMMA MkfsChainChains ==
  ASSUME IInv, CInv, NEW p \in Procs, Alone(p), MkfsChain(p)
  PROVE  CInv'
<1> DEFINE i == pr[p].cur
           B == FreeBlock(IF i < NB-1 THEN i+1 ELSE 0)
           l == [pr[p] EXCEPT !.cur = i+1]
           g == Links
           h == Links'
<1>1. /\ At(p, "fsChain") /\ MkfsPhase(p) /\ op(p) = "mymkfs" /\ pr[p].res = "none"
      /\ pr[p] \in Local /\ formatted /\ Volume /\ sbHead = 2 /\ i \in 2 .. NB-1
      /\ \A b \in Data : blk[b].ents = ZeroBlock.ents
      /\ \A b \in Data : b = 1 \/ b >= i => blk[b].next = 0
      /\ Body(g, 2) = 2 .. i /\ UNCHANGED <<sbHead, formatted>>
  BY FormatterPhase DEF MkfsChain, MkfsPhase, At, Blks
<1>2. /\ blk' = [blk EXCEPT ![i] = B] /\ B.next = (IF i < NB-1 THEN i+1 ELSE 0)
      /\ B.ents = ZeroBlock.ents
  BY DEF MkfsChain, FreeBlock, ZeroBlock
<1> HIDE DEF B
<1>3. /\ i \in Data /\ 1 \in Data /\ Fine(g, 2) /\ Succ(g, i) = 0 /\ i \in Body(g, 2)
      /\ NB \in Nat
  <2>1. i \in Data /\ 1 \in Data /\ i \in 2 .. i /\ NB \in Nat
    BY <1>1, SizesAssumption DEF Data
  <2>2. blk[i].next = 0 /\ Fine(g, 2)
    BY <1>1, <2>1 DEF Data, Volume, Vol
  <2> QED
    BY <1>1, <2>1, <2>2, LinkFacts
<1>4. /\ \A y \in 1 .. NB : y # i => Succ(h, y) = Succ(g, y)
      /\ Succ(h, i) = B.next
      /\ B.next = 0 => h = g
  <2>1. i \in Blocks /\ blk[i].next = 0
    BY <1>3, LinkFacts
  <2>2. blk' = [blk EXCEPT ![i] = B]
    BY <1>2
  <2> HIDE DEF i
  <2>3. /\ \A y \in 1 .. NB : y # i => Succ(h, y) = Succ(g, y)
        /\ i \in Data => Succ(h, i) = B.next
        /\ B.next = blk[i].next => h = g
    BY <2>1, <2>2, OneLink
  <2> QED
    BY <1>3, <2>1, <2>3
<1>5. \A b \in Data : blk'[b] = IF b = i THEN B ELSE blk[b]
  BY <1>2, <1>3, LinkFacts DEF IInv, TypeOK
<1>6. blk'[1].next = 0 /\ \A b \in Data : blk'[b].ents = ZeroBlock.ents
  BY <1>1, <1>2, <1>3, <1>5
<1>7. CASE i = NB-1
  <2>1. B.next = 0 /\ h = g
    BY <1>2, <1>3, <1>4, <1>7
  <2>2. Fine(h, 2) /\ 1 \notin Body(h, 2)
    BY <1>1, <1>3, <2>1
  <2>3. Volume'
    BY <1>1, <1>6, <2>2, FreshIsNext DEF FreshFact, Fresh, OK, Blks
  <2>4. Finish(p, "ok")
    BY <1>3, <1>7 DEF MkfsChain
  <2> QED
    BY <2>3, <2>4, WriteEnd DEF Finish
<1>8. CASE i < NB-1
  <2>1. /\ l.pc = "fsChain" /\ l.cmd = pr[p].cmd /\ l.res = "none" /\ l.cur = i+1
        /\ Now(p, l)
    BY <1>1, <1>8 DEF Local, At, MkfsChain
  <2> HIDE DEF l
  <2>2. pr'[p] = l
    BY <2>1, AloneNext
  <2>3. i+1 \in Data /\ i+1 \notin 2 .. i /\ i+1 # i /\ i+1 \in 1 .. NB /\ 1 \notin 2 .. i+1
        /\ (2 .. i) \cup {i+1} = 2 .. i+1 /\ i+1 \in 2 .. NB-1
    BY <1>1, <1>3, <1>8 DEF Data
  <2>4. Succ(h, i+1) = 0 /\ Succ(h, i) = i+1
    <3>1. blk[i+1].next = 0
      BY <1>1, <1>3, <2>3
    <3> QED
      BY <1>2, <1>4, <1>8, <2>3, <3>1, LinkFacts
  <2>5. \A y \in Body(g, 2) : y # i => Succ(h, y) = Succ(g, y)
    BY <1>3, <1>4, FineIs
  <2>6. Fine(h, 2) /\ Body(h, 2) = 2 .. i+1
    <3> DEFINE d == i+1
    <3>1. d \in Data /\ d \notin Body(g, 2) /\ Succ(h, d) = 0 /\ Succ(h, i) = d
      BY <1>1, <2>3, <2>4
    <3> HIDE DEF d, g, h, i
    <3>2. Fine(h, 2) /\ Body(h, 2) = Body(g, 2) \cup {d}
      BY <1>3, <2>5, <3>1, Extend
    <3> QED
      BY <1>1, <2>3, <3>2 DEF d, g
  <2>7. Volume'
    BY <1>1, <1>6, <2>3, <2>6, FreshIsNext DEF FreshFact, Fresh, OK, Blks
  <2>8. \A b \in Data : b = 1 \/ b >= i+1 => blk'[b].next = 0
    BY <1>1, <1>3, <1>5 DEF Data
  <2>9. MkfsPhase(p)'
    BY <1>1, <1>6, <2>1, <2>2, <2>3, <2>6, <2>8 DEF MkfsPhase, At, Blks
  <2> QED
    BY <1>1, <2>1, <2>7, <2>9, FormatStep
<1> QED
  BY <1>1, <1>3, <1>7, <1>8

-----------------------------------------------------------------------------
(* Steps that leave the disk and doom no entry: whatever a command has in   *)
(* hand stays in its hand.                                                  *)

LEMMA SameAdd ==
  ASSUME Still, NEW q \in Procs, pr'[q] = pr[q]
  PROVE  /\ AtResolve(q) => AtResolve(q)'
         /\ Wanting(q) => Wanting(q)'
         /\ Spare(q) => Spare(q)'
         /\ Building(q) => Building(q)'
         /\ Growing(q) => Growing(q)'
         /\ ToInsert(q) => ToInsert(q)'
         /\ Adding(q) => Adding(q)'
<1>1. Adding(q) => Adding(q)'
  BY DEF Adding, op
<1>2. ToInsert(q) => ToInsert(q)'
  BY <1>1 DEF ToInsert, Held, Still
<1>3. Growing(q) => Growing(q)'
  BY <1>2 DEF Growing, Last, Blks, Still
<1>4. Building(q) => Building(q)'
  BY <1>1 DEF Building, Held, Last, Blks, op, Still
<1>5. Wanting(q) => Wanting(q)'
  BY <1>3, <1>4 DEF Wanting
<1>6. Spare(q) => Spare(q)'
  BY DEF Spare, Apart, Blks, Hand, Still
<1>7. AtResolve(q) => AtResolve(q)'
  BY DEF AtResolve, Blks, Still
<1> QED
  BY <1>1, <1>2, <1>3, <1>4, <1>5, <1>6, <1>7

LEMMA SameRemove ==
  ASSUME Still, NEW q \in Procs, pr'[q] = pr[q]
  PROVE  /\ AtFind(q) => AtFind(q)'
         /\ AtRmdirCheck(q) => AtRmdirCheck(q)'
         /\ AtRmRead(q) => AtRmRead(q)'
         /\ AtRmFree(q) => AtRmFree(q)'
         /\ AtRmSuper(q) => AtRmSuper(q)'
         /\ AtClrRead(q) => AtClrRead(q)'
         /\ AtClrWrite(q) => AtClrWrite(q)'
<1>1. AtFind(q) => AtFind(q)'
  BY DEF AtFind, Blks, Still
<1>2. AtRmdirCheck(q) => AtRmdirCheck(q)'
  BY DEF AtRmdirCheck, At2, op, Still
<1>3. Gone(q) => Gone(q)'
  BY DEF Gone, Blks, Still
<1>4. AtRmRead(q) => AtRmRead(q)'
  BY <1>3 DEF AtRmRead, Held, op, Still
<1>5. AtRmFree(q) => AtRmFree(q)'
  BY <1>4 DEF AtRmFree, OK, Blks, Still
<1>6. AtRmSuper(q) => AtRmSuper(q)'
  BY <1>3 DEF AtRmSuper, Apart, Held, Blks, op, Still
<1>7. AtClrRead(q) => AtClrRead(q)'
  BY <1>3 DEF AtClrRead, op
<1>8. AtClrWrite(q) => AtClrWrite(q)'
  BY <1>7 DEF AtClrWrite, Still
<1> QED
  BY <1>1, <1>2, <1>4, <1>5, <1>6, <1>7, <1>8

LEMMA SamePhase ==
  ASSUME Still, NEW q \in Procs, pr'[q] = pr[q], Phase(q)
  PROVE  Phase(q)'
<1>1. /\ AtAlloc(q) => AtAlloc(q)'
      /\ AtLink(q) => AtLink(q)'
      /\ AtDirZero(q) => AtDirZero(q)'
      /\ AtInsLink(q) => AtInsLink(q)'
  BY SameAdd DEF AtAlloc, AtLink, AtDirZero, AtInsLink, op, Still
<1>2. /\ AtAllocZero(q) => AtAllocZero(q)'
      /\ AtAllocSuper(q) => AtAllocSuper(q)'
  BY SameAdd DEF AtAllocZero, AtAllocSuper, OK, Apart, Blks, Hand, Still
<1>3. AtWrite(q) => AtWrite(q)'
  BY SameAdd DEF AtWrite, Held, Last, Blks, op, Still
<1>4. /\ AtInsRead(q) => AtInsRead(q)'
      /\ AtInsWrite(q) => AtInsWrite(q)'
      /\ AtInsNew(q) => AtInsNew(q)'
  BY SameAdd DEF AtInsRead, AtInsWrite, AtInsNew, Blks, Still
<1>5. formatted' = formatted /\ \A k : At(q, k)' = At(q, k)
  BY DEF At, Still
<1>6. (pr[q].pc)' = pr[q].pc /\ (pr[q].idx)' = pr[q].idx
  OBVIOUS
<1>7. AtResolve(q) => AtResolve(q)'
  BY SameAdd
<1> QED
  BY <1>1, <1>2, <1>3, <1>4, <1>5, <1>6, <1>7, SameRemove DEF Phase

LEMMA SameRunning ==
  ASSUME Still, NEW q \in Procs, pr'[q] = pr[q], Running(q)
  PROVE  Running(q)'
<1>1. MkfsPhase(q) => MkfsPhase(q)'
  BY DEF MkfsPhase, At, Blks, Still
<1> QED
  BY <1>1, SamePhase DEF Running, op

\* Such a step of one command, next to whatever runs.
LEMMA Bystander ==
  ASSUME IInv, CInv, NEW p \in Procs, UNCHANGED disk, ~Removing(p),
         NEW l, Now(p, l), l.pc \notin RemovalPCs,
         l.pc # "idle" => l.res = "none"
                          /\ \/ /\ l.cmd.op \notin Writes
                                /\ l.pc \in {"resolve", "find", "readData", "skip", "readOne"}
                             \/ /\ l.cmd.op \in Writes \ {"mymkfs"} /\ l.pc = "resolve"
                                /\ formatted /\ l.head = sbHead /\ l.cur = 1
                                /\ l.first = 0 /\ l.idx = 0
  PROVE  CInv'
<1>1. pr'[p] = l /\ \A q \in Procs : q # p => pr'[q] = pr[q]
  BY DEF Now, IInv, TypeOK
<1>2. ~Removing(p)' /\ \A q \in Procs : q # p => Removing(q)' = Removing(q)
  BY <1>1 DEF Removing, RemovalPCs, op
<1>3. Doomed' = Doomed
  BY <1>1, <1>2 DEF Doomed
<1>4. Still
  BY <1>3, StillIs
<1>5. formatted' => Volume'
  BY <1>4 DEF CInv, Still
<1>6. ASSUME NEW q \in Procs, q # p, ~At(q, "idle")'
      PROVE  Running(q)'
  <2>1. Running(q)
    BY <1>1, <1>6 DEF CInv, At
  <2> QED
    BY <1>1, <1>4, <1>6, <2>1, SameRunning
<1>7. ASSUME ~At(p, "idle")'
      PROVE  Running(p)'
  <2>1. l.pc # "idle" /\ l.res = "none"
    BY <1>1, <1>7 DEF At
  <2>2. CASE l.cmd.op \notin Writes
    BY <1>1, <2>1, <2>2 DEF Running, op
  <2>3. CASE /\ l.cmd.op \in Writes \ {"mymkfs"} /\ l.pc = "resolve"
             /\ formatted /\ l.head = sbHead /\ l.cur = 1
             /\ l.first = 0 /\ l.idx = 0
    <3>1. 1 \in Blks(1)
      BY <2>3, Somewhere DEF CInv, Volume, Vol, Blks
    <3>2. AtResolve(p)'
      BY <1>1, <1>4, <2>3, <3>1 DEF AtResolve, Blks, Still
    <3>3. Phase(p)'
      BY <1>1, <1>4, <2>3, <3>2, PhaseFromNext DEF PhaseFacts, At, Still
    <3> QED
      BY <1>1, <2>1, <2>3, <3>3 DEF Running, op
  <2> QED
    BY <2>1, <2>2, <2>3
<1> QED
  BY <1>5, <1>6, <1>7 DEF CInv

LEMMA StartChains ==
  ASSUME IInv, CInv, NEW p \in Procs, NEW c \in Menu[p], Start(p, c)
  PROVE  CInv'
<1> DEFINE l == [Idle EXCEPT !.pc = "resolve", !.cmd = c, !.head = sbHead, !.cur = 1]
<1>1. /\ At(p, "idle") /\ c.op # "mymkfs" /\ formatted /\ Now(p, l) /\ UNCHANGED disk
  BY DEF Start
<1>2. /\ l.pc = "resolve" /\ l.cmd = c /\ l.res = "none" /\ l.head = sbHead
      /\ l.cur = 1 /\ l.first = 0 /\ l.idx = 0
  BY DEF Idle
<1> HIDE DEF l
<1>3. ~Removing(p)
  BY <1>1 DEF Removing, At
<1> QED
  BY <1>1, <1>2, <1>3, Bystander DEF RemovalPCs

\* A removal is not killed.
LEMMA CrashChains ==
  ASSUME IInv, CInv, RemovalsEnd, NEW p \in Procs, Crash(p)
  PROVE  CInv'
<1>1. ~Removing(p) /\ Now(p, Idle) /\ UNCHANGED disk /\ Idle.pc = "idle"
  BY DEF Crash, Removing, RemovalsEnd, Idle
<1> QED
  BY <1>1, Bystander DEF RemovalPCs

\* A command that only reads.
LEMMA ReaderChains ==
  ASSUME IInv, CInv, NEW p \in Procs, ~Writing(p), Step(p)
  PROVE  CInv'
<1>1. ~At(p, "idle")
  BY DEF Step, At, Resolve, Traverse, AllocRead, AllocZero, AllocSuper, CopyLink, CopyWrite,
     DirZero, InsRead, InsWrite, InsZero, InsLink, InsNew, Find, ReadData, Skip, ReadOne,
     RmRead, RmdirCheck, FreeWrite, FreeSuper, ClearRead, ClearWrite, MkfsSuper, MkfsRoot,
     MkfsChain
<1>2. /\ op(p) \notin Writes /\ pr[p].res = "none" /\ pr[p] \in Local
      /\ pr[p].pc \in {"resolve", "find", "readData", "skip", "readOne"} /\ ~Removing(p)
  BY <1>1, LocalFacts, RemovingIs DEF Writing, CInv, Running
<1>3. ASSUME NEW l, Now(p, l), UNCHANGED disk, l.cmd = pr[p].cmd,
             l.pc = "idle" \/ (l.res = "none"
                /\ l.pc \in {"resolve", "find", "readData", "skip", "readOne"})
      PROVE  CInv'
  BY <1>2, <1>3, Bystander DEF RemovalPCs, op
<1>4. ASSUME NEW r, NEW e, NEW o, Now(p, Ended(p, r, e, o)), UNCHANGED disk
      PROVE  CInv'
  <2>1. Ended(p, r, e, o).pc = "idle" /\ Ended(p, r, e, o).cmd = pr[p].cmd
    BY DEF Ended, Idle
  <2> QED
    BY <1>3, <1>4, <2>1
<1>5. CASE Resolve(p)
  <2>1. UNCHANGED disk
    BY <1>5 DEF Resolve
  <2>2. CASE Now(p, [pr[p] EXCEPT !.pc = "find"])
    BY <1>2, <1>3, <2>1, <2>2 DEF Local
  <2> QED
    BY <1>2, <1>5, <2>2 DEF Resolve, Writes
<1>6. CASE Traverse(p)
  <2>1. UNCHANGED disk
    BY <1>6 DEF Traverse
  <2>2. CASE Now(p, [pr[p] EXCEPT !.cur = blk[pr[p].cur].next])
    BY <1>2, <1>3, <2>1, <2>2 DEF Local
  <2>3. CASE Fail(p) \/ Segv(p)
    BY <1>4, <2>1, <2>3 DEF Fail, Segv, Finish
  <2> QED
    BY <1>6, <2>2, <2>3 DEF Traverse
<1>7. CASE Find(p)
  <2>1. UNCHANGED disk
    BY <1>7 DEF Find
  <2>2. CASE Now(p, [pr[p] EXCEPT !.cur = blk[pr[p].cur].next])
    BY <1>2, <1>3, <2>1, <2>2 DEF Local
  <2>3. CASE Fail(p) \/ Segv(p)
    BY <1>4, <2>1, <2>3 DEF Fail, Segv, Finish
  <2>4. ASSUME NEW s \in Slots, Found(p, blk[pr[p].cur].ents[s], s)
        PROVE  CInv'
    <3> DEFINE e == blk[pr[p].cur].ents[s]
               n == IF op(p) = "myreadBlock" THEN pr[p].cmd.len ELSE e.size
               l == [pr[p] EXCEPT !.pc = AfterFind(p, e), !.ent = e, !.idx = s,
                                  !.at = pr[p].cur, !.cur = e.start, !.rem = n]
    <3>1. CASE Now(p, Ended(p, "ok", e, <<>>))
      BY <1>4, <2>1, <3>1
    <3>2. CASE Fail(p)
      BY <2>3, <3>2
    <3>3. CASE op(p) \in {"mycopyFrom", "myreadBlock", "myrm", "myrmdir"} /\ Now(p, l)
      <4>1. AfterFind(p, e) \in {"readData", "readOne", "skip"}
        BY <1>2, <3>3 DEF AfterFind, Writes
      <4>2. l.pc = AfterFind(p, e) /\ l.cmd = pr[p].cmd /\ l.res = "none"
        BY <1>2 DEF Local
      <4> HIDE DEF l
      <4> QED
        BY <1>3, <2>1, <3>3, <4>1, <4>2
    <3> QED
      BY <2>4, <3>1, <3>2, <3>3 DEF Found
  <2> QED
    BY <1>7, <2>2, <2>3, <2>4 DEF Find
<1>8. CASE ReadData(p)
  <2> DEFINE o == Append(pr[p].out, blk[pr[p].cur].data)
             l == [pr[p] EXCEPT !.out = o, !.rem = pr[p].rem - 1, !.cur = blk[pr[p].cur].next]
  <2>1. UNCHANGED disk
    BY <1>8 DEF ReadData
  <2>2. CASE Now(p, l)
    <3>1. l.pc = pr[p].pc /\ l.cmd = pr[p].cmd /\ l.res = "none"
      BY <1>2 DEF Local
    <3> HIDE DEF l
    <3> QED
      BY <1>2, <1>3, <2>1, <2>2, <3>1
  <2>3. CASE Now(p, Ended(p, "ok", pr[p].ent, pr[p].out))
             \/ Now(p, Ended(p, "ok", pr[p].ent, o))
    BY <1>4, <2>1, <2>3
  <2> QED
    BY <1>8, <2>2, <2>3 DEF ReadData
<1>9. CASE Skip(p)
  <2> DEFINE k == IF pr[p].rem = 1 THEN "readOne" ELSE "skip"
             l == [pr[p] EXCEPT !.pc = k, !.rem = pr[p].rem - 1, !.cur = blk[pr[p].cur].next]
  <2>1. UNCHANGED disk
    BY <1>9 DEF Skip
  <2>2. CASE Now(p, [pr[p] EXCEPT !.pc = "readOne"])
    BY <1>2, <1>3, <2>1, <2>2 DEF Local
  <2>3. CASE Now(p, l)
    <3>1. l.pc = k /\ l.cmd = pr[p].cmd /\ l.res = "none" /\ k \in {"readOne", "skip"}
      BY <1>2 DEF Local
    <3> HIDE DEF l, k
    <3> QED
      BY <1>3, <2>1, <2>3, <3>1
  <2>4. CASE Finish(p, "err")
    BY <1>4, <2>1, <2>4 DEF Finish
  <2> QED
    BY <1>9, <2>2, <2>3, <2>4 DEF Skip
<1>10. CASE ReadOne(p)
  <2>1. UNCHANGED disk
    BY <1>10 DEF ReadOne
  <2>2. CASE Now(p, Ended(p, "ok", pr[p].ent, <<blk[pr[p].cur].data>>))
             \/ Now(p, Ended(p, "err", Vacant, <<>>))
    BY <1>4, <2>1, <2>2
  <2> QED
    BY <1>10, <2>2 DEF ReadOne
<1> QED
  BY <1>2, <1>5, <1>6, <1>7, <1>8, <1>9, <1>10
  DEF Step, At, AllocRead, AllocZero, AllocSuper, CopyLink, CopyWrite,
     DirZero, InsRead, InsWrite, InsZero, InsLink, InsNew,
     RmRead, RmdirCheck, FreeWrite, FreeSuper, ClearRead, ClearWrite, MkfsSuper, MkfsRoot,
     MkfsChain

LEMMA MkfsTruncChains ==
  ASSUME IInv, CInv, NEW p \in Procs, NEW c \in Menu[p], MkfsTrunc(p, c)
  PROVE  CInv'
<1> DEFINE l == [Idle EXCEPT !.pc = "fsSuper", !.cmd = c]
<1>1. /\ c.op = "mymkfs" /\ ~formatted' /\ pr' = [q \in Procs |-> IF q = p THEN l ELSE Idle]
      /\ blk' = [b \in Blocks |-> ZeroBlock]
  BY DEF MkfsTrunc
<1>2. l.pc = "fsSuper" /\ l.cmd = c /\ l.res = "none" /\ Idle.pc = "idle"
  BY DEF Idle
<1> HIDE DEF l
<1>3. \A b \in Data : blk'[b] = ZeroBlock
  BY <1>1, LinkFacts
<1>4. MkfsPhase(p)'
  BY <1>1, <1>2, <1>3 DEF MkfsPhase, At
<1>5. Running(p)'
  BY <1>1, <1>2, <1>4 DEF Running, Writes, op
<1>6. \A q \in Procs : q # p => At(q, "idle")'
  BY <1>1, <1>2 DEF At
<1> QED
  BY <1>1, <1>5, <1>6 DEF CInv

LEMMA WriterChains ==
  ASSUME IInv, CInv, Careful, NEW p \in Procs, Writing(p), Step(p)
  PROVE  CInv'
<1>1. Alone(p) /\ InFirstBlock
  BY DEF Careful, OneWriter, Alone
<1>2. /\ ~ReadData(p) /\ ~Skip(p) /\ ~ReadOne(p)
  BY DEF Writing, CInv, Running, Phase, MkfsPhase, ReadData, Skip, ReadOne, At
<1> QED
  BY <1>1, <1>2, ResolveChains, TraverseChains, AllocReadChains, AllocZeroChains,
     AllocSuperChains, CopyLinkChains, CopyWriteChains, DirZeroChains, InsReadChains,
     InsWriteChains, InsZeroChains, InsLinkChains, InsNewChains, FindChains, RmReadChains,
     RmdirCheckChains, FreeWriteChains, FreeSuperChains, ClearReadChains, ClearWriteChains,
     MkfsSuperChains, MkfsRootChains, MkfsChainChains
  DEF Step

LEMMA InitChains == Init => CInv
BY DEF Init, CInv, At, Idle

LEMMA NextChains == IInv /\ CInv /\ Careful /\ RemovalsEnd /\ [Next]_vars => CInv'
<1> SUFFICES ASSUME IInv, CInv, Careful, RemovalsEnd, [Next]_vars PROVE CInv'
  OBVIOUS
<1>1. CASE UNCHANGED vars
  <2>1. UNCHANGED disk /\ Doomed' = Doomed /\ pr' = pr
    BY <1>1 DEF vars, disk, Doomed, Removing, op
  <2>2. Still
    BY <2>1, StillIs
  <2>3. formatted' => Volume'
    BY <2>2 DEF CInv, Still
  <2>4. ASSUME NEW q \in Procs, ~At(q, "idle")' PROVE Running(q)'
    BY <2>1, <2>2, <2>4, SameRunning DEF CInv, At
  <2> QED
    BY <2>3, <2>4 DEF CInv
<1>2. ASSUME NEW p \in Procs, NEW c \in Menu[p], Start(p, c) \/ MkfsTrunc(p, c)
      PROVE  CInv'
  BY <1>2, StartChains, MkfsTruncChains
<1>3. ASSUME NEW p \in Procs, Step(p) PROVE CInv'
  BY <1>3, ReaderChains, WriterChains
<1>4. ASSUME NEW p \in Procs, Crash(p) PROVE CInv'
  BY <1>4, CrashChains
<1> QED
  BY <1>1, <1>2, <1>3, <1>4 DEF Next

-----------------------------------------------------------------------------
(* What the invariant says of the volume.                                  *)

LEMMA ApartInv == CInv => ChainsApart
<1> SUFFICES ASSUME CInv, formatted
             PROVE  /\ \A h \in Heads : Ends(h)
                    /\ Chain(1) \cap Chain(sbHead) = {}
                    /\ \A c \in Live : Chain(At2(c).start) \cap (Chain(1) \cup Chain(sbHead)) = {}
                    /\ \A c, d \in Live : c # d => Chain(At2(c).start) \cap Chain(At2(d).start) = {}
  BY DEF ChainsApart
<1>1. Vol(Links, sbHead, Live, Starts)
  BY DEF CInv, Volume
<1>2. \A c \in Live : Starts[c] = At2(c).start
  BY DEF Starts
<1>3. Fine(Links, 1) /\ Fine(Links, sbHead) /\ \A c \in Live : Fine(Links, At2(c).start)
  BY <1>1, <1>2 DEF Vol
<1>4. /\ Chain(1) = Body(Links, 1) /\ Chain(sbHead) = Body(Links, sbHead)
      /\ \A c \in Live : Chain(At2(c).start) = Body(Links, At2(c).start)
  BY <1>3, ChainIs
<1>5. \A h \in Heads : Ends(h)
  BY <1>3, ChainIs DEF Heads
<1>6. /\ Body(Links, 1) \cap Body(Links, sbHead) = {}
      /\ \A c \in Live : Body(Links, At2(c).start) \cap (Body(Links, 1) \cup Body(Links, sbHead)) = {}
      /\ \A c, d \in Live : c # d =>
           Body(Links, At2(c).start) \cap Body(Links, At2(d).start) = {}
  BY <1>1, <1>2 DEF Vol
<1> QED
  BY <1>4, <1>5, <1>6

\* A block and the free chain after the step.
FreeFact == formatted /\ Volume => Chain(sbHead) = Blks(sbHead)

LEMMA FreeIs == FreeFact
BY ChainIs DEF FreeFact, Volume, Vol, Blks

LEMMA FreeIsNext == FreeFact'
BY FreeIs, PTL

\* Only the last step of a removal reports success.
LEMMA SuccessIs ==
  ASSUME IInv, CInv, NEW p \in Procs, op(p) \in {"myrm", "myrmdir"}, ~At(p, "idle"),
         [Next]_vars, pr'[p].res = "ok"
  PROVE  ClearWrite(p) /\ AtClrWrite(p)
<1>1. /\ Writing(p) /\ Phase(p) /\ pr[p].res = "none" /\ pr[p] \in Local
      /\ op(p) # "mymkfs" /\ op(p) # "mystat" /\ op(p) # "mycopyFrom" /\ ~Adding(p)
  BY LocalFacts DEF CInv, Running, Writing, Writes, Adding
<1>2. Step(p)
  <2>1. ASSUME NEW q \in Procs, NEW l, Now(q, l) PROVE q = p
    <3>1. q # p => pr'[p] = pr[p]
      BY <2>1 DEF Now, IInv, TypeOK
    <3> QED
      BY <1>1, <3>1
  <2>2. ~UNCHANGED vars
    BY <1>1 DEF vars
  <2>3. ASSUME NEW q \in Procs, NEW c \in Menu[q] PROVE ~Start(q, c)
    BY <2>1 DEF Start, At
  <2>4. ASSUME NEW q \in Procs, NEW c \in Menu[q] PROVE ~MkfsTrunc(q, c)
    BY DEF MkfsTrunc
  <2>5. ASSUME NEW q \in Procs PROVE ~Crash(q)
    <3> SUFFICES ASSUME Crash(q) PROVE FALSE
      OBVIOUS
    <3>1. q = p /\ pr'[p] = Idle
      BY <2>1 DEF Crash, Now, IInv, TypeOK
    <3> QED
      BY <3>1 DEF Idle
  <2>6. ASSUME NEW q \in Procs, Step(q) PROVE q = p
    BY <2>1, <2>6 DEF Step, Resolve, Traverse, AllocRead, AllocZero, AllocSuper, CopyLink,
       CopyWrite, DirZero, InsRead, InsWrite, InsZero, InsLink, InsNew, Find, Found, ReadData,
       Skip, ReadOne, RmRead, RmdirCheck, FreeWrite, FreeSuper, ClearRead, ClearWrite,
       MkfsSuper, MkfsRoot, MkfsChain, Fail, Segv, Finish
  <2> QED
    BY <2>2, <2>3, <2>4, <2>5, <2>6 DEF Next
<1>3. ASSUME NEW l, Now(p, l) PROVE l.res = "ok"
  BY <1>3 DEF Now, IInv, TypeOK
<1>4. \A r, e, o : Ended(p, r, e, o).res = r
  BY DEF Ended, Idle
<1>5. ~Fail(p) /\ ~Segv(p) /\ ~Finish(p, "err") /\ ~Now(p, Ended(p, "err", Vacant, <<>>))
  BY <1>3, <1>4 DEF Fail, Segv, Finish
<1>6. ~At(p, "insWrite") /\ ~At(p, "insNew") /\ ~At(p, "fsSuper") /\ ~At(p, "fsRoot")
      /\ ~At(p, "fsChain") /\ ~At(p, "readData") /\ ~At(p, "skip") /\ ~At(p, "readOne")
      /\ ~At(p, "write") /\ ~At(p, "dirZero")
  BY <1>1 DEF Phase, At, AtInsWrite, AtInsNew, ToInsert, AtWrite, AtDirZero, Building
<1>7. ~Resolve(p) /\ ~Traverse(p)
  BY <1>1, <1>3, <1>5 DEF Resolve, Traverse, Local
<1>8. ~AllocRead(p) /\ ~AllocZero(p) /\ ~AllocSuper(p) /\ ~CopyLink(p)
  <2>1. ~AllocRead(p)
    <3> DEFINE l == [pr[p] EXCEPT !.pc = "allocZero", !.new = pr[p].head,
                             !.head = blk[pr[p].head].next]
    <3>1. l.res = "none"
      BY <1>1 DEF Local
    <3> HIDE DEF l
    <3>2. ~Now(p, l)
      BY <1>3, <3>1
    <3> QED
      BY <1>5, <3>2 DEF AllocRead, l
  <2>2. ~AllocZero(p)
    <3> DEFINE l == [pr[p] EXCEPT !.pc = "allocSuper"]
    <3>1. l.res = "none"
      BY <1>1 DEF Local
    <3> HIDE DEF l
    <3>2. ~Now(p, l)
      BY <1>3, <3>1
    <3> QED
      BY <3>2 DEF AllocZero, l
  <2>3. ~AllocSuper(p)
    <3> DEFINE data == AfterAlloc(p) = "write"
               f == IF data THEN pr[p].new ELSE pr[p].first
               c == IF data THEN pr[p].new ELSE pr[p].cur
               l == [pr[p] EXCEPT !.pc = AfterAlloc(p), !.first = f, !.cur = c]
    <3>1. l.res = "none"
      BY <1>1 DEF Local
    <3> HIDE DEF l
    <3>2. ~Now(p, l)
      BY <1>3, <3>1
    <3> QED
      BY <3>2 DEF AllocSuper, l
  <2>4. ~CopyLink(p)
    <3> DEFINE l == [pr[p] EXCEPT !.pc = "write", !.cur = pr[p].new]
    <3>1. l.res = "none"
      BY <1>1 DEF Local
    <3> HIDE DEF l
    <3>2. ~Now(p, l)
      BY <1>3, <3>1
    <3> QED
      BY <3>2 DEF CopyLink, l
  <2> QED
    BY <2>1, <2>2, <2>3, <2>4
<1>9. ~InsRead(p) /\ ~InsZero(p) /\ ~InsLink(p)
  <2>1. ASSUME NEW s, NEW b PROVE ~Now(p, [pr[p] EXCEPT !.pc = "insWrite", !.idx = s, !.buf = b])
    <3> DEFINE l == [pr[p] EXCEPT !.pc = "insWrite", !.idx = s, !.buf = b]
    <3>1. l.res = "none"
      BY <1>1 DEF Local
    <3> HIDE DEF l
    <3>2. ~Now(p, l)
      BY <1>3, <3>1
    <3> QED
      BY <3>2 DEF l
  <2>2. ASSUME NEW b PROVE ~Now(p, [pr[p] EXCEPT !.pc = "alloc", !.idx = 1, !.buf = b])
    <3> DEFINE l == [pr[p] EXCEPT !.pc = "alloc", !.idx = 1, !.buf = b]
    <3>1. l.res = "none"
      BY <1>1 DEF Local
    <3> HIDE DEF l
    <3>2. ~Now(p, l)
      BY <1>3, <3>1
    <3> QED
      BY <3>2 DEF l
  <2>3. ASSUME NEW n PROVE ~Now(p, [pr[p] EXCEPT !.cur = n])
    <3> DEFINE l == [pr[p] EXCEPT !.cur = n]
    <3>1. l.res = "none"
      BY <1>1 DEF Local
    <3> HIDE DEF l
    <3>2. ~Now(p, l)
      BY <1>3, <3>1
    <3> QED
      BY <3>2 DEF l
  <2>4. ~InsRead(p)
    BY <1>5, <2>1, <2>2, <2>3 DEF InsRead
  <2>5. ~InsZero(p)
    <3> DEFINE l == [pr[p] EXCEPT !.pc = "insLink"]
    <3>1. l.res = "none"
      BY <1>1 DEF Local
    <3> HIDE DEF l
    <3>2. ~Now(p, l)
      BY <1>3, <3>1
    <3> QED
      BY <3>2 DEF InsZero, l
  <2>6. ~InsLink(p)
    <3> DEFINE l == [pr[p] EXCEPT !.pc = "insNew"]
    <3>1. l.res = "none"
      BY <1>1 DEF Local
    <3> HIDE DEF l
    <3>2. ~Now(p, l)
      BY <1>3, <3>1
    <3> QED
      BY <3>2 DEF InsLink, l
  <2> QED
    BY <2>4, <2>5, <2>6
<1>10. ~RmRead(p) /\ ~RmdirCheck(p) /\ ~FreeWrite(p) /\ ~FreeSuper(p) /\ ~ClearRead(p)
  <2>1. ASSUME NEW n PROVE ~Now(p, [pr[p] EXCEPT !.pc = "rmFree", !.nxt = n])
    <3> DEFINE l == [pr[p] EXCEPT !.pc = "rmFree", !.nxt = n]
    <3>1. l.res = "none"
      BY <1>1 DEF Local
    <3> HIDE DEF l
    <3>2. ~Now(p, l)
      BY <1>3, <3>1
    <3> QED
      BY <3>2 DEF l
  <2>2. ASSUME NEW k PROVE ~Now(p, [pr[p] EXCEPT !.pc = k])
    <3> DEFINE l == [pr[p] EXCEPT !.pc = k]
    <3>1. l.res = "none"
      BY <1>1 DEF Local
    <3> HIDE DEF l
    <3>2. ~Now(p, l)
      BY <1>3, <3>1
    <3> QED
      BY <3>2 DEF l
  <2>3. ~RmRead(p)
    BY <2>1, <2>2 DEF RmRead
  <2>4. ~RmdirCheck(p)
    BY <1>5, <2>1 DEF RmdirCheck
  <2>5. ~FreeWrite(p)
    <3> DEFINE l == [pr[p] EXCEPT !.pc = "rmSuper", !.head = pr[p].cur]
    <3>1. l.res = "none"
      BY <1>1 DEF Local
    <3> HIDE DEF l
    <3>2. ~Now(p, l)
      BY <1>3, <3>1
    <3> QED
      BY <3>2 DEF FreeWrite, l
  <2>6. ~FreeSuper(p)
    <3> DEFINE l == [pr[p] EXCEPT !.pc = IF pr[p].nxt = 0 THEN "clrRead" ELSE "rmRead",
                             !.cur = pr[p].nxt, !.nxt = 0]
    <3>1. l.res = "none"
      BY <1>1 DEF Local
    <3> HIDE DEF l
    <3>2. ~Now(p, l)
      BY <1>3, <3>1
    <3> QED
      BY <3>2 DEF FreeSuper, l
  <2>7. ~ClearRead(p)
    <3> DEFINE l == [pr[p] EXCEPT !.pc = "clrWrite",
                             !.buf = PutEntry(blk[1], pr[p].idx, Vacant)]
    <3>1. l.res = "none"
      BY <1>1 DEF Local
    <3> HIDE DEF l
    <3>2. ~Now(p, l)
      BY <1>3, <3>1
    <3> QED
      BY <3>2 DEF ClearRead, l
  <2> QED
    BY <2>3, <2>4, <2>5, <2>6, <2>7
<1>11. ~Find(p)
  <2>1. ASSUME NEW e, NEW s PROVE ~Found(p, e, s)
    <3> DEFINE n == IF op(p) = "myreadBlock" THEN pr[p].cmd.len ELSE e.size
               l == [pr[p] EXCEPT !.pc = AfterFind(p, e), !.ent = e, !.idx = s,
                                  !.at = pr[p].cur, !.cur = e.start, !.rem = n]
    <3>1. l.res = "none"
      BY <1>1 DEF Local
    <3> HIDE DEF l
    <3>2. ~Now(p, l)
      BY <1>3, <3>1
    <3> QED
      BY <1>1, <1>5, <3>2 DEF Found, Nothing, l
  <2>2. ~Now(p, [pr[p] EXCEPT !.cur = blk[pr[p].cur].next])
    <3> DEFINE l == [pr[p] EXCEPT !.cur = blk[pr[p].cur].next]
    <3>1. l.res = "none"
      BY <1>1 DEF Local
    <3> HIDE DEF l
    <3>2. ~Now(p, l)
      BY <1>3, <3>1
    <3> QED
      BY <3>2 DEF l
  <2> QED
    BY <1>5, <2>1, <2>2 DEF Find
<1>12. ClearWrite(p)
  BY <1>2, <1>6, <1>7, <1>8, <1>9, <1>10, <1>11
  DEF Step, CopyWrite, DirZero, InsWrite, InsNew, ReadData, Skip, ReadOne, MkfsSuper,
      MkfsRoot, MkfsChain
<1> QED
  BY <1>1, <1>12 DEF ClearWrite, Phase

\* Then the slot is free, and so is the first block of the entry.
LEMMA SuccessRemoves ==
  ASSUME IInv, CInv, CInv', NEW p \in Procs, ClearWrite(p), AtClrWrite(p), Phase(p)
  PROVE  /\ <<1, pr[p].idx>> \notin Cells'
         /\ pr[p].ent.start \in Chain(sbHead)' \cup {0}
<1> DEFINE s == pr[p].idx
           B == PutEntry(blk[1], s, Vacant)
<1>1. /\ formatted /\ UNCHANGED <<sbHead, formatted>> /\ s \in Slots /\ Gone(p)
      /\ blk' = [blk EXCEPT ![1] = B] /\ 1 \in Data
  BY SizesAssumption DEF Phase, ClearWrite, AtClrWrite, AtClrRead, Data
<1>2. B.next = blk[1].next /\ B.ents[s] = Vacant
  BY <1>1, LinkFacts DEF PutEntry, Block
<1> HIDE DEF B
<1>3. Links' = Links /\ blk'[1] = B
  <2>1. 1 \in Blocks
    BY <1>1, LinkFacts
  <2> QED
    BY <1>1, <1>2, <2>1, OneLink DEF IInv, TypeOK
<1>4. Chain(sbHead)' = Blks(sbHead)
  <2>1. formatted' /\ Volume'
    BY <1>1 DEF CInv
  <2> QED
    BY <1>1, <1>3, <2>1, FreeIsNext DEF FreeFact, Blks
<1>5. <<1, s>> \notin Cells'
  <2>1. ~Used(blk'[1].ents[s])
    BY <1>2, <1>3 DEF Used, Vacant
  <2> QED
    BY <2>1 DEF Cells, At2
<1> QED
  BY <1>1, <1>4, <1>5 DEF Gone

-----------------------------------------------------------------------------
\* What the menus alone promise: the commands that run are commands given.
Given == \A p \in Procs : ~At(p, "idle") => pr[p].cmd \in Menu[p]
\* One shell is given commands that change the volume; none removes.
OneShell == \E w \in Procs : \A p \in Procs : p # w => \A c \in Menu[p] : c.op \notin Writes
NoRemovals == \A p \in Procs : \A c \in Menu[p] : c.op \notin {"myrm", "myrmdir"}

LEMMA CommandKept ==
  ASSUME IInv, NEW p \in Procs, Step(p)
  PROVE  \E l : Now(p, l) /\ l.cmd = pr[p].cmd /\ ~At(p, "idle")
<1>1. pr[p] \in Local
  BY LocalFacts
<1>2. \A r, e, o : Ended(p, r, e, o).cmd = pr[p].cmd
  BY DEF Ended, Idle
<1>3. ASSUME Fail(p) \/ Segv(p) \/ Finish(p, "ok") \/ Finish(p, "err")
      PROVE  \E l : Now(p, l) /\ l.cmd = pr[p].cmd
  BY <1>2, <1>3 DEF Fail, Segv, Finish
<1>4. CASE Resolve(p) \/ Traverse(p)
  BY <1>1, <1>3, <1>4 DEF Resolve, Traverse, At, Local
<1>5. CASE AllocRead(p) \/ AllocZero(p) \/ AllocSuper(p)
  BY <1>1, <1>3, <1>5 DEF AllocRead, AllocZero, AllocSuper, At, Local
<1>6. CASE CopyLink(p) \/ CopyWrite(p) \/ DirZero(p)
  BY <1>1, <1>3, <1>6 DEF CopyLink, CopyWrite, DirZero, At, Local
<1>7. CASE InsRead(p) \/ InsWrite(p) \/ InsZero(p) \/ InsLink(p) \/ InsNew(p)
  <2>1. CASE InsRead(p)
    BY <1>1, <1>3, <2>1 DEF InsRead, At, Local
  <2>2. CASE InsWrite(p)
    BY <1>1, <1>3, <2>2 DEF InsWrite, At, Local
  <2>3. CASE InsZero(p) \/ InsLink(p) \/ InsNew(p)
    BY <1>1, <1>3, <2>3 DEF InsZero, InsLink, InsNew, At, Local
  <2> QED
    BY <1>7, <2>1, <2>2, <2>3
<1>8. CASE Find(p)
  <2>1. ASSUME NEW e, NEW s, Found(p, e, s)
        PROVE  \E l : Now(p, l) /\ l.cmd = pr[p].cmd
    <3> DEFINE n == IF op(p) = "myreadBlock" THEN pr[p].cmd.len ELSE e.size
               l == [pr[p] EXCEPT !.pc = AfterFind(p, e), !.ent = e, !.idx = s,
                                  !.at = pr[p].cur, !.cur = e.start, !.rem = n]
    <3>1. l.cmd = pr[p].cmd
      BY <1>1 DEF Local
    <3> HIDE DEF l
    <3>2. CASE Now(p, l)
      BY <3>1, <3>2
    <3>3. CASE Now(p, Ended(p, "ok", e, <<>>)) \/ Fail(p)
      BY <1>2, <1>3, <3>3
    <3> QED
      BY <2>1, <3>2, <3>3 DEF Found, l
  <2> QED
    BY <1>1, <1>3, <1>8, <2>1 DEF Find, At, Local
<1>9. CASE ReadData(p) \/ Skip(p) \/ ReadOne(p)
  <2>1. CASE ReadData(p)
    <3> DEFINE b == blk[pr[p].cur]
               o == Append(pr[p].out, b.data)
               l == [pr[p] EXCEPT !.out = o, !.rem = pr[p].rem - 1, !.cur = b.next]
    <3>1. l.cmd = pr[p].cmd
      BY <1>1 DEF Local
    <3>2. /\ At(p, "readData")
          /\ Now(p, l) \/ \E x : Now(p, Ended(p, "ok", pr[p].ent, x))
      BY <2>1 DEF ReadData
    <3> HIDE DEF l
    <3> QED
      BY <1>2, <3>1, <3>2 DEF At
  <2>2. CASE Skip(p) \/ ReadOne(p)
    BY <1>1, <1>2, <1>3, <2>2 DEF Skip, ReadOne, At, Local
  <2> QED
    BY <1>9, <2>1, <2>2
<1>10. CASE RmRead(p) \/ RmdirCheck(p) \/ FreeWrite(p) \/ FreeSuper(p)
  BY <1>1, <1>2, <1>10 DEF RmRead, RmdirCheck, FreeWrite, FreeSuper, At, Local
<1>11. CASE ClearRead(p) \/ ClearWrite(p)
  BY <1>1, <1>3, <1>11 DEF ClearRead, ClearWrite, At, Local
<1>12. CASE MkfsSuper(p) \/ MkfsRoot(p) \/ MkfsChain(p)
  BY <1>1, <1>3, <1>12 DEF MkfsSuper, MkfsRoot, MkfsChain, At, Local
<1> QED
  BY <1>4, <1>5, <1>6, <1>7, <1>8, <1>9, <1>10, <1>11, <1>12 DEF Step

LEMMA GivenNext == IInv /\ Given /\ [Next]_vars => Given'
<1> SUFFICES ASSUME IInv, Given, [Next]_vars PROVE Given'
  OBVIOUS
<1>1. CASE UNCHANGED vars
  BY <1>1 DEF vars, Given, At
<1>2. ASSUME NEW p \in Procs, NEW l, Now(p, l), l.pc # "idle" => l.cmd \in Menu[p]
      PROVE  Given'
  BY <1>2 DEF Now, Given, At, IInv, TypeOK
<1>3. ASSUME NEW p \in Procs, NEW c \in Menu[p], Start(p, c) PROVE Given'
  BY <1>2, <1>3 DEF Start, Idle
<1>4. ASSUME NEW p \in Procs, NEW c \in Menu[p], MkfsTrunc(p, c) PROVE Given'
  BY <1>4 DEF MkfsTrunc, Given, At, Idle
<1>5. ASSUME NEW p \in Procs, Step(p) PROVE Given'
  BY <1>2, <1>5, CommandKept DEF Given
<1>6. ASSUME NEW p \in Procs, Crash(p) PROVE Given'
  BY <1>2, <1>6 DEF Crash, Idle
<1> QED
  BY <1>1, <1>3, <1>4, <1>5, <1>6 DEF Next

LEMMA GivenAlways == Spec => []Given
<1>1. Init => IInv /\ Given
  BY InitInv DEF Init, Given, At, Idle
<1> QED
  BY <1>1, NextInv, GivenNext, PTL DEF Spec

LEMMA CInvAlways ==
  ASSUME RemovalsEnd
  PROVE  Spec /\ []Careful => [](IInv /\ CInv)
<1>1. Init => IInv /\ CInv
  BY InitInv, InitChains
<1>2. IInv /\ CInv /\ Careful /\ [Next]_vars => IInv' /\ CInv'
  BY NextInv, NextChains
<1> QED
  BY <1>1, <1>2, PTL DEF Spec

\* As long as one command at a time changes the volume and removals find their
\* entry in the first block of the directory, and when no removal is killed,
\* the free chain, the directory and the files stay apart (ChainsApart), between
\* the writes of every command and after every command that is killed.
THEOREM ChainsStayApart ==
  ASSUME RemovalsEnd
  PROVE  Spec /\ []Careful => []ChainsApart
<1>1. CInv => ChainsApart
  BY ApartInv
<1> QED
  BY <1>1, CInvAlways, PTL

\* Under the same conditions a removal that reports success has cleared the slot
\* of the entry it found and given its blocks back (RmRemoves).
THEOREM RemovalsRemove ==
  ASSUME RemovalsEnd
  PROVE  Spec /\ []Careful => RmRemoves
<1>1. IInv /\ CInv /\ CInv' /\ [Next]_vars
        => [\A p \in Procs :
              (/\ op(p) \in {"myrm", "myrmdir"} /\ ~At(p, "idle")
               /\ pr'[p].res = "ok" /\ pr[p].at = 1)
                => /\ <<1, pr[p].idx>> \notin Cells'
                   /\ pr[p].ent.start \in Chain(sbHead)' \cup {0}]_vars
  <2> SUFFICES ASSUME IInv, CInv, CInv', [Next]_vars, NEW p \in Procs,
                      op(p) \in {"myrm", "myrmdir"}, ~At(p, "idle"), pr'[p].res = "ok"
               PROVE  /\ <<1, pr[p].idx>> \notin Cells'
                      /\ pr[p].ent.start \in Chain(sbHead)' \cup {0}
    OBVIOUS
  <2>1. ClearWrite(p) /\ AtClrWrite(p)
    BY SuccessIs
  <2>2. Phase(p)
    BY DEF CInv, Running, Writes
  <2> QED
    BY <2>1, <2>2, SuccessRemoves
<1> QED
  BY <1>1, CInvAlways, PTL DEF Spec, RmRemoves

\* When the menus give the commands that change the volume to one shell, no two
\* of them run at a time.
LEMMA OneWriterAlways ==
  ASSUME OneShell
  PROVE  Spec => []OneWriter
<1>1. Given => OneWriter
  BY DEF Given, OneWriter, OneShell, Writing, op
<1> QED
  BY <1>1, GivenAlways, PTL

LEMMA CarefulAlways ==
  ASSUME OneShell, NoRemovals
  PROVE  Spec => []Careful
<1>1. Given => InFirstBlock
  BY DEF Given, InFirstBlock, NoRemovals, Removing, op, At
<1>2. OneWriter /\ InFirstBlock => Careful
  BY DEF Careful
<1> QED
  BY <1>1, <1>2, GivenAlways, OneWriterAlways, PTL

\* So for one shell that adds and others that read, whatever is killed, chains
\* stay apart (ChainsApart) without a condition on the behaviour.
THEOREM AddersStayApart ==
  ASSUME RemovalsEnd, OneShell, NoRemovals
  PROVE  Spec => []ChainsApart
BY CarefulAlways, ChainsStayApart, PTL

-----------------------------------------------------------------------------
(* What the chains hold.  Chunks 1 to n of the file c are in the first n     *)
(* blocks of the chain from b; g links the blocks and d is what is in them.  *)
Spelt(g, d, b, n, c) == \A i \in 1 .. n : d[Order(g, b)[i]].data = [c |-> c, k |-> i]
Named(e) == e.name \in Names /\ e.type \in {FILE, DIR} /\ (e.type = DIR => e.size = 0)
\* All that mycopyTo or mymkdir have to write for the entry e is written.
Good(g, d, e) ==
  /\ Named(e)
  /\ IF e.type = DIR THEN Size(g, e.start) = 1
     ELSE Size(g, e.start) = e.size /\ \E c \in Contents : Spelt(g, d, e.start, e.size, c)
Stored == \A c \in Live : Good(Links, blk, At2(c))

AllocPCs == {"alloc", "allocZero", "allocSuper"}
InsPCs   == {"insRead", "insWrite", "insZero", "insLink", "insNew"}
AddPCs   == AllocPCs \cup InsPCs \cup {"link", "write", "dirZero"}
\* The number of chunks mycopyTo has written.
Count(p) == pr[p].cmd.len - pr[p].rem
Chunks(p) == Spelt(Links, blk, pr[p].first, Count(p), pr[p].cmd.c)
Partly(p) == /\ Size(Links, pr[p].first) = Count(p) /\ Chunks(p)
             /\ pr[p].first # 0 => pr[p].buf.data = blk[pr[p].cur].data
Ready(p) == Good(Links, blk, pr[p].ent)
Labelled(p) == /\ Named(pr[p].ent)
               /\ op(p) = "mycopyTo" => pr[p].ent.size = pr[p].cmd.len
               /\ op(p) = "mymkdir" => pr[p].ent.type = DIR
WPhase(p) ==
  pr[p].pc \in AddPCs =>
    /\ Labelled(p)
    /\ pr[p].pc \in InsPCs \/ (pr[p].pc \in AllocPCs /\ pr[p].idx # 0) => Ready(p)
    /\ op(p) = "mycopyTo" /\ pr[p].idx = 0 /\ pr[p].pc \in AllocPCs \cup {"link"} => Partly(p)
    /\ At(p, "write") => Size(Links, pr[p].first) = Count(p) + 1 /\ Chunks(p)
WInv == /\ formatted => Stored
        /\ \A p \in Procs : Writing(p) => WPhase(p)

\* A chain none of whose blocks is written says what it said.
LEMMA Unwritten ==
  ASSUME IInv, NEW b, Fine(Links, b), Body(Links, b) \subseteq Data,
         \A x \in Body(Links, b) : blk'[x] = blk[x]
  PROVE  /\ Fine(Links', b) /\ Body(Links', b) = Body(Links, b)
         /\ Size(Links', b) = Size(Links, b) /\ Order(Links', b) = Order(Links, b)
         /\ \A n \in Nat : \A c : n <= Size(Links, b) /\ Spelt(Links, blk, b, n, c)
                                    => Spelt(Links', blk', b, n, c)
<1>1. \A x \in Body(Links, b) : Succ(Links', x) = Succ(Links, x)
  BY DEF Succ, Links
<1>2. /\ Fine(Links', b) /\ Body(Links', b) = Body(Links, b)
      /\ Size(Links', b) = Size(Links, b) /\ Order(Links', b) = Order(Links, b)
  BY <1>1, Frame
<1>3. Size(Links, b) \in Nat
  BY FineIs DEF Spells
<1>4. \A i \in 1 .. Size(Links, b) : Order(Links, b)[i] \in Body(Links, b)
  BY DEF Body
<1>5. ASSUME NEW n \in Nat, NEW c, n <= Size(Links, b), Spelt(Links, blk, b, n, c)
      PROVE  Spelt(Links', blk', b, n, c)
  <2> SUFFICES ASSUME NEW i \in 1 .. n
               PROVE  blk'[Order(Links', b)[i]].data = [c |-> c, k |-> i]
    BY DEF Spelt
  <2>1. Order(Links, b)[i] \in Body(Links, b)
    BY <1>3, <1>4, <1>5
  <2>2. blk[Order(Links, b)[i]].data = [c |-> c, k |-> i]
    BY <1>5 DEF Spelt
  <2> QED
    BY <1>2, <2>1, <2>2
<1> QED
  BY <1>2, <1>5

LEMMA GoodKept ==
  ASSUME IInv, NEW e, e \in Entry, Good(Links, blk, e), Fine(Links, e.start),
         Body(Links, e.start) \subseteq Data,
         \A x \in Body(Links, e.start) : blk'[x] = blk[x]
  PROVE  Good(Links', blk', e)
<1> DEFINE b == e.start
<1>1. e.size \in Nat
  BY SizesAssumption DEF Entry
<1> HIDE DEF b
<1>2. /\ Size(Links', b) = Size(Links, b)
      /\ \A n \in Nat : \A c : n <= Size(Links, b) /\ Spelt(Links, blk, b, n, c)
                                    => Spelt(Links', blk', b, n, c)
  BY Unwritten DEF b
<1> QED
  BY <1>1, <1>2 DEF Good, b

\* What a step does to the directory, as a user sees it.
Stays(c) == At2(c)' = At2(c) /\ \A b \in Blks(At2(c).start) : blk'[b] = blk[b]
SameDir  == Live' = Live /\ \A c \in Live : Stays(c)
Shrinks  == \E c \in Live : Live' = Live \ {c} /\ \A d \in Live' : Stays(d)
Grows    == \E c \in CellSet \ Live : /\ Live' = Live \cup {c} /\ \A d \in Live : Stays(d)
                                      /\ Good(Links', blk', At2(c)')
Effect   == /\ formatted /\ formatted' /\ Blks(1) \subseteq Body(Links', 1)
            /\ SameDir \/ Shrinks \/ Grows
Calm     == Effect /\ SameDir

LEMMA LiveFacts ==
  ASSUME IInv, Volume, formatted, NEW c \in Live
  PROVE  /\ At2(c) \in Entry /\ c \in CellSet /\ c \in Blks(1) \X Slots
         /\ Fine(Links, At2(c).start) /\ Body(Links, At2(c).start) \subseteq Data
         /\ Used(At2(c)) /\ Starts[c] = At2(c).start
<1>1. Live = {d \in Blks(1) \X Slots : Used(At2(d))} \ Doomed /\ Blks(1) \subseteq Data
  BY LiveIs DEF LiveFact, OK, Volume, Vol, Blks
<1>2. c \in Blks(1) \X Slots /\ c \in CellSet /\ Used(At2(c))
  BY <1>1 DEF CellSet
<1>3. blk[c[1]] \in Block /\ c[2] \in Slots
  BY <1>2, LinkFacts DEF CellSet
<1>4. At2(c) \in Entry
  BY <1>3 DEF At2, Block
<1>5. Starts[c] = At2(c).start
  BY DEF Starts
<1> QED
  BY <1>2, <1>4, <1>5 DEF Volume, Vol

LEMMA EffectStored ==
  ASSUME IInv, Volume, Stored, Effect
  PROVE  Stored'
<1>1. ASSUME NEW c \in Live, Stays(c)
      PROVE  Good(Links', blk', At2(c)')
  <2> DEFINE e == At2(c)
  <2>1. e \in Entry /\ Fine(Links, e.start) /\ Body(Links, e.start) \subseteq Data
    BY LiveFacts DEF Effect
  <2>2. Good(Links, blk, e) /\ \A x \in Body(Links, e.start) : blk'[x] = blk[x]
    BY <1>1 DEF Stored, Stays, Blks
  <2> HIDE DEF e
  <2>3. Good(Links', blk', e)
    BY <2>1, <2>2, GoodKept
  <2> QED
    BY <1>1, <2>3 DEF Stays, e
<1>2. \A c \in Live' : Good(Links', blk', At2(c)')
  BY <1>1 DEF Effect, SameDir, Shrinks, Grows
<1> QED
  BY <1>2 DEF Stored

LEMMA StillEffect ==
  ASSUME Still, formatted
  PROVE  Calm
BY DEF Still, Calm, Effect, SameDir, Stays, Blks, At2

\* A write outside the directory and the files.
LEMMA WriteEffect ==
  ASSUME IInv, Volume, formatted, formatted', NEW x \in Data, NEW B,
         blk' = [blk EXCEPT ![x] = B], Doomed' = Doomed,
         x \notin Blks(1), \A c \in Live : x \notin Blks(At2(c).start)
  PROVE  Calm
<1>1. \A b \in Data : b # x => blk'[b] = blk[b]
  BY LinkFacts DEF IInv, TypeOK
<1>2. Fine(Links, 1) /\ Blks(1) \subseteq Data
  BY DEF Volume, Vol, Blks
<1>3. Fine(Links', 1) /\ Body(Links', 1) = Blks(1)
  BY <1>1, <1>2, Unwritten DEF Blks
<1>4. \A b \in Blks(1) : blk'[b] = blk[b]
  BY <1>1, <1>2
<1>5. Live' = Live /\ \A c \in Live : At2(c)' = At2(c)
  BY <1>3, <1>4, LiveKept
<1>6. \A c \in Live : Stays(c)
  BY <1>1, <1>5, LiveFacts DEF Stays, Blks
<1> QED
  BY <1>3, <1>5, <1>6 DEF Calm, Effect, SameDir

\* A step that only changes the locals of a command that dooms no entry.
LEMMA QuietStep ==
  ASSUME IInv, NEW p \in Procs, Alone(p), formatted, UNCHANGED disk, ~Removing(p),
         NEW l, Now(p, l), l.pc \notin RemovalPCs
  PROVE  Still /\ Calm /\ pr'[p] = l
<1>1. pr'[p] = l /\ Doomed = DoomedBy(p) /\ Doomed' = DoomedBy(p)'
  BY AloneNext
<1>2. Doomed' = Doomed
  BY <1>1 DEF DoomedBy, Removing, RemovalPCs
<1> QED
  BY <1>1, <1>2, StillIs, StillEffect

\* ... and that ends it.
LEMMA QuietEnd ==
  ASSUME IInv, NEW p \in Procs, Alone(p), formatted, UNCHANGED disk, ~Removing(p),
         NEW r, NEW e, NEW o, Now(p, Ended(p, r, e, o))
  PROVE  Calm /\ WPhase(p)'
<1>1. Ended(p, r, e, o).pc = "idle"
  BY DEF Ended, Idle
<1>2. Calm /\ pr'[p] = Ended(p, r, e, o)
  BY <1>1, QuietStep DEF RemovalPCs
<1> QED
  BY <1>1, <1>2 DEF WPhase, AddPCs, AllocPCs, InsPCs

LEMMA ResolveFiles ==
  ASSUME IInv, CInv, NEW p \in Procs, Alone(p), Writing(p), Resolve(p)
  PROVE  Calm /\ WPhase(p)'
<1>1. /\ At(p, "resolve") /\ Phase(p) /\ formatted /\ Volume /\ op(p) # "mymkfs"
      /\ pr[p] \in Local /\ UNCHANGED disk /\ ~Removing(p)
  BY WriterPhase DEF Resolve, At, Removing
<1>2. pr[p].first = 0 /\ pr[p].idx = 0 /\ pr[p].cmd \in Command
  BY <1>1 DEF Phase, AtResolve, Local
<1>3. CASE Fail(p) \/ Segv(p)
  BY <1>1, <1>3, QuietEnd DEF Fail, Segv, Finish
<1>4. HasFinal(p) => final(p) \in Names
  BY <1>2 DEF HasFinal, final, path, Command
<1>5. ASSUME op(p) = "mycopyTo", HasFinal(p),
             Now(p, [pr[p] EXCEPT !.pc = IF pr[p].cmd.len = 0 THEN "insRead" ELSE "alloc",
                                  !.rem = pr[p].cmd.len,
                                  !.ent = NewEntry(p, FILE, 0)])
      PROVE  Calm /\ WPhase(p)'
  <2> DEFINE k == IF pr[p].cmd.len = 0 THEN "insRead" ELSE "alloc"
             l == [pr[p] EXCEPT !.pc = k, !.rem = pr[p].cmd.len, !.ent = NewEntry(p, FILE, 0)]
  <2>1. /\ l.pc = k /\ l.rem = pr[p].cmd.len /\ l.ent = NewEntry(p, FILE, 0)
        /\ l.first = 0 /\ l.idx = 0 /\ l.cmd = pr[p].cmd
    BY <1>1, <1>2 DEF Local
  <2>2. Now(p, l)
    BY <1>5
  <2> HIDE DEF l
  <2>3. Still /\ Calm /\ pr'[p] = l
    BY <1>1, <2>1, <2>2, QuietStep DEF RemovalPCs
  <2> DEFINE e == NewEntry(p, FILE, 0)
  <2>4. /\ Named(e) /\ e.size = pr[p].cmd.len /\ e.type # DIR /\ e.start = 0
    BY <1>4, <1>5 DEF NewEntry, Named, FILE, DIR
  <2> HIDE DEF e
  <2>5. Size(Links', 0) = 0 /\ pr[p].cmd.len \in Nat /\ pr[p].cmd.c \in Contents
    BY <1>2, Nowhere, SizesAssumption DEF Command
  <2>6. CASE pr[p].cmd.len = 0
    <3>1. Good(Links', blk', e)
      BY <2>4, <2>5, <2>6 DEF Good, Spelt
    <3> QED
      BY <1>5, <2>1, <2>3, <2>4, <2>6, <3>1
      DEF WPhase, Ready, Labelled, op, AddPCs, AllocPCs, InsPCs, At, e
  <2>7. CASE pr[p].cmd.len # 0
    <3>1. Partly(p)'
      BY <2>1, <2>3, <2>5 DEF Partly, Chunks, Count, Spelt
    <3> QED
      BY <1>5, <2>1, <2>3, <2>4, <2>7, <3>1
      DEF WPhase, Labelled, op, AddPCs, AllocPCs, InsPCs, At, e
  <2> QED
    BY <2>3, <2>6, <2>7
<1>6. ASSUME op(p) = "mymkdir", HasFinal(p),
             Now(p, [pr[p] EXCEPT !.pc = "alloc",
                                  !.ent = [NewEntry(p, DIR, 0) EXCEPT !.size = 0]])
      PROVE  Calm /\ WPhase(p)'
  <2> DEFINE e == [NewEntry(p, DIR, 0) EXCEPT !.size = 0]
             l == [pr[p] EXCEPT !.pc = "alloc", !.ent = e]
  <2>1. /\ l.pc = "alloc" /\ l.ent = e /\ l.idx = 0 /\ l.cmd = pr[p].cmd
    BY <1>1, <1>2 DEF Local
  <2>2. Named(e) /\ e.type = DIR
    BY <1>4, <1>6 DEF NewEntry, Named, FILE, DIR
  <2>3. Now(p, l)
    BY <1>6
  <2> HIDE DEF l, e
  <2>4. Still /\ Calm /\ pr'[p] = l
    BY <1>1, <2>1, <2>3, QuietStep DEF RemovalPCs
  <2> QED
    BY <1>6, <2>1, <2>2, <2>4
    DEF WPhase, Labelled, op, AddPCs, AllocPCs, InsPCs, At
<1>7. CASE Now(p, [pr[p] EXCEPT !.pc = "find"])
  <2> DEFINE l == [pr[p] EXCEPT !.pc = "find"]
  <2>1. l.pc = "find"
    BY <1>1 DEF Local
  <2> HIDE DEF l
  <2>2. Still /\ Calm /\ pr'[p] = l
    BY <1>1, <1>7, <2>1, QuietStep DEF RemovalPCs, l
  <2> QED
    BY <2>1, <2>2 DEF WPhase, AddPCs, AllocPCs, InsPCs
<1> QED
  BY <1>3, <1>5, <1>6, <1>7 DEF Resolve

LEMMA TraverseFiles ==
  ASSUME IInv, CInv, NEW p \in Procs, Alone(p), Writing(p), Traverse(p)
  PROVE  Calm /\ WPhase(p)'
<1>1. /\ At(p, "resolve") /\ formatted /\ pr[p] \in Local /\ UNCHANGED disk /\ ~Removing(p)
  BY WriterPhase DEF Traverse, At, Removing
<1>2. CASE Fail(p) \/ Segv(p)
  BY <1>1, <1>2, QuietEnd DEF Fail, Segv, Finish
<1>3. CASE Now(p, [pr[p] EXCEPT !.cur = blk[pr[p].cur].next])
  <2> DEFINE l == [pr[p] EXCEPT !.cur = blk[pr[p].cur].next]
  <2>1. l.pc = "resolve"
    BY <1>1 DEF Local, At
  <2> HIDE DEF l
  <2>2. Still /\ Calm /\ pr'[p] = l
    BY <1>1, <1>3, <2>1, QuietStep DEF RemovalPCs, l
  <2> QED
    BY <2>1, <2>2 DEF WPhase, AddPCs, AllocPCs, InsPCs
<1> QED
  BY <1>2, <1>3 DEF Traverse

\* A write of the superblock.
LEMMA SuperEffect ==
  ASSUME UNCHANGED <<blk, formatted>>, Doomed' = Doomed, formatted
  PROVE  Calm /\ Links' = Links
<1>1. Links' = Links /\ Hops(1)' = Hops(1)
  BY DEF Links, Hops, Hop
<1>2. Live' = Live /\ \A c : At2(c)' = At2(c)
  BY <1>1 DEF Live, Cells, Chain, At2
<1> QED
  BY <1>1, <1>2 DEF Calm, Effect, SameDir, Stays, Blks

\* What is written for an entry stays while a block is allocated.
LEMMA HandKept ==
  ASSUME IInv, NEW p \in Procs, WPhase(p), pr[p].pc \in AllocPCs, Wanting(p),
         NEW l, pr'[p] = l, l.cmd = pr[p].cmd, l.ent = pr[p].ent, l.idx = pr[p].idx,
         l.first = pr[p].first, l.buf = pr[p].buf, l.rem = pr[p].rem, l.cur = pr[p].cur,
         \A x \in Blks(Hand(p)) : blk'[x] = blk[x]
  PROVE  /\ Labelled(p)' /\ op(p)' = op(p)
         /\ pr[p].idx # 0 => Ready(p)'
         /\ op(p) = "mycopyTo" /\ pr[p].idx = 0 => Partly(p)'
<1>1. Labelled(p)' /\ op(p)' = op(p)
  BY DEF WPhase, AddPCs, Labelled, op
<1>2. pr[p] \in Local /\ Fine(Links, Hand(p)) /\ Body(Links, Hand(p)) \subseteq Data
  BY LocalFacts, WantingHeld DEF Held, Mine
<1>3. ASSUME pr[p].idx # 0 PROVE Ready(p)'
  <2> DEFINE e == pr[p].ent
  <2>1. Good(Links, blk, e) /\ e \in Entry /\ Hand(p) = e.start
    BY <1>2, <1>3 DEF WPhase, AddPCs, Ready, Hand, Local
  <2> HIDE DEF e
  <2>2. Good(Links', blk', e)
    BY <1>2, <2>1, GoodKept DEF Blks
  <2> QED
    BY <2>2 DEF Ready, e
<1>4. ASSUME op(p) = "mycopyTo", pr[p].idx = 0 PROVE Partly(p)'
  <2> DEFINE m == pr[p].first
             n == Count(p)
  <2>1. Partly(p) /\ Hand(p) = m
    BY <1>4 DEF WPhase, AddPCs, Hand
  <2>2. Size(Links, m) = n /\ Spelt(Links, blk, m, n, pr[p].cmd.c)
    BY <2>1 DEF Partly, Chunks
  <2>3. n \in Nat
    BY <1>2, <2>1, <2>2, FineIs DEF Spells
  <2>4. m # 0 => blk'[pr[p].cur] = blk[pr[p].cur]
    BY <1>4, <2>1 DEF Wanting, Building, Last
  <2>5. Count(p)' = n
    BY DEF Count
  <2> HIDE DEF n, m
  <2>6. Size(Links', m) = n /\ Spelt(Links', blk', m, n, pr[p].cmd.c)
    BY <1>2, <2>1, <2>2, <2>3, Unwritten DEF Blks
  <2> QED
    BY <2>1, <2>4, <2>5, <2>6 DEF Partly, Chunks, m
<1> QED
  BY <1>1, <1>3, <1>4

LEMMA AllocReadFiles ==
  ASSUME IInv, CInv, WInv, NEW p \in Procs, Alone(p), Writing(p), AllocRead(p)
  PROVE  Calm /\ WPhase(p)'
<1>1. /\ At(p, "alloc") /\ Phase(p) /\ formatted /\ Volume
      /\ pr[p] \in Local /\ UNCHANGED disk /\ ~Removing(p) /\ WPhase(p)
  BY WriterPhase DEF AllocRead, At, Removing, WInv
<1>2. Wanting(p)
  BY <1>1 DEF Phase, AtAlloc
<1>3. CASE Fail(p)
  BY <1>1, <1>3, QuietEnd DEF Fail
<1>4. CASE Now(p, [pr[p] EXCEPT !.pc = "allocZero", !.new = pr[p].head,
                                !.head = blk[pr[p].head].next])
  <2> DEFINE l == [pr[p] EXCEPT !.pc = "allocZero", !.new = pr[p].head,
                                !.head = blk[pr[p].head].next]
  <2>1. /\ l.pc = "allocZero" /\ l.cmd = pr[p].cmd /\ l.ent = pr[p].ent /\ l.idx = pr[p].idx
        /\ l.first = pr[p].first /\ l.buf = pr[p].buf /\ l.rem = pr[p].rem
        /\ l.cur = pr[p].cur
    BY <1>1 DEF Local
  <2> HIDE DEF l
  <2>2. Still /\ Calm /\ pr'[p] = l
    BY <1>1, <1>4, <2>1, QuietStep DEF RemovalPCs, l
  <2>3. /\ Labelled(p)' /\ op(p)' = op(p)
        /\ pr[p].idx # 0 => Ready(p)'
        /\ op(p) = "mycopyTo" /\ pr[p].idx = 0 => Partly(p)'
    BY <1>1, <1>2, <2>1, <2>2, HandKept DEF AllocPCs, At, Still
  <2> QED
    BY <2>1, <2>2, <2>3 DEF WPhase, AddPCs, AllocPCs, InsPCs, At
<1> QED
  BY <1>3, <1>4 DEF AllocRead

LEMMA AllocZeroFiles ==
  ASSUME IInv, CInv, WInv, NEW p \in Procs, Alone(p), Writing(p), AllocZero(p)
  PROVE  Calm /\ WPhase(p)'
<1> DEFINE l == [pr[p] EXCEPT !.pc = "allocSuper"]
           x == sbHead
<1>1. /\ At(p, "allocZero") /\ Phase(p) /\ formatted /\ Volume /\ formatted' = formatted
      /\ pr[p] \in Local /\ ~Removing(p) /\ WPhase(p)
  BY WriterPhase DEF AllocZero, At, Removing, WInv
<1>2. Wanting(p) /\ x \in Data /\ blk' = [blk EXCEPT ![x] = ZeroBlock]
  BY <1>1 DEF Phase, AtAllocZero, AllocZero
<1>3. /\ l.pc = "allocSuper" /\ l.cmd = pr[p].cmd /\ l.ent = pr[p].ent /\ l.idx = pr[p].idx
      /\ l.first = pr[p].first /\ l.buf = pr[p].buf /\ l.rem = pr[p].rem
      /\ l.cur = pr[p].cur
  BY <1>1 DEF Local
<1>4. Now(p, l)
  BY DEF AllocZero
<1> HIDE DEF l
<1>5. pr'[p] = l
  BY <1>4, AloneNext
<1>6. Doomed' = Doomed
  BY <1>1, <1>3, <1>4, <1>5, AloneNext DEF DoomedBy, Removing
<1>7. x \in Blks(x)
  BY <1>1, <1>2, Somewhere, LinkFacts DEF Volume, Vol, Blks
<1>8. /\ x \notin Blks(1) /\ \A c \in Live : x \notin Blks(At2(c).start)
  BY <1>1, <1>7, LiveFacts DEF Volume, Vol, Blks
<1>9. x \notin Blks(Hand(p)) /\ Blks(Hand(p)) \subseteq Data
  BY <1>2, <1>7, WantingHeld DEF Held, Mine, Off, Blks
<1>10. Calm
  <2> HIDE DEF x
  <2> QED
    BY <1>1, <1>2, <1>6, <1>8, WriteEffect
<1>11. \A y \in Blks(Hand(p)) : blk'[y] = blk[y]
  BY <1>2, <1>9, LinkFacts DEF IInv, TypeOK
<1>12. /\ Labelled(p)' /\ op(p)' = op(p)
       /\ pr[p].idx # 0 => Ready(p)'
       /\ op(p) = "mycopyTo" /\ pr[p].idx = 0 => Partly(p)'
  BY <1>1, <1>2, <1>3, <1>5, <1>11, HandKept DEF AllocPCs, At
<1> QED
  BY <1>3, <1>5, <1>10, <1>12 DEF WPhase, AddPCs, AllocPCs, InsPCs, At

\* A zeroed block is a chain of its own.
LEMMA OneBlock ==
  ASSUME IInv, NEW d \in Data, blk[d] = ZeroBlock
  PROVE  Fine(Links, d) /\ Size(Links, d) = 1 /\ Body(Links, d) = {d}
<1>1. Links[d] = 0
  BY LinkFacts DEF ZeroBlock
<1>2. Fine(Links, 0) /\ Size(Links, 0) = 0 /\ Body(Links, 0) = {}
  BY Nowhere
<1> QED
  BY <1>1, <1>2, Push

LEMMA AllocSuperFiles ==
  ASSUME IInv, CInv, WInv, NEW p \in Procs, Alone(p), Writing(p), AllocSuper(p)
  PROVE  Calm /\ WPhase(p)'
<1> DEFINE data == AfterAlloc(p) = "write"
           l == [pr[p] EXCEPT !.pc = AfterAlloc(p),
                              !.first = IF data THEN pr[p].new ELSE pr[p].first,
                              !.cur = IF data THEN pr[p].new ELSE pr[p].cur]
<1>1. /\ At(p, "allocSuper") /\ Phase(p) /\ formatted /\ Volume
      /\ UNCHANGED <<blk, formatted>>
      /\ pr[p] \in Local /\ ~Removing(p) /\ WPhase(p)
  BY WriterPhase DEF AllocSuper, At, Removing, WInv
<1>2. Wanting(p) /\ pr[p].new \in Data /\ blk[pr[p].new] = ZeroBlock
  BY <1>1 DEF Phase, AtAllocSuper
<1>3. /\ l.pc = AfterAlloc(p) /\ l.cmd = pr[p].cmd /\ l.ent = pr[p].ent /\ l.idx = pr[p].idx
      /\ l.buf = pr[p].buf /\ l.rem = pr[p].rem
      /\ l.first = (IF data THEN pr[p].new ELSE pr[p].first)
      /\ l.cur = (IF data THEN pr[p].new ELSE pr[p].cur)
  BY <1>1 DEF Local
<1>4. Now(p, l)
  BY DEF AllocSuper
<1> HIDE DEF l
<1>5. pr'[p] = l
  BY <1>4, AloneNext
<1>6. AfterAlloc(p) \in {"insZero", "dirZero", "write", "link"}
  BY DEF AfterAlloc
<1>7. Doomed' = Doomed
  BY <1>1, <1>3, <1>4, <1>5, <1>6, AloneNext DEF DoomedBy, Removing
<1>8. Calm /\ Links' = Links /\ blk' = blk
  BY <1>1, <1>7, SuperEffect
<1>9. CASE ~data
  <2>1. /\ Labelled(p)' /\ op(p)' = op(p)
        /\ pr[p].idx # 0 => Ready(p)'
        /\ op(p) = "mycopyTo" /\ pr[p].idx = 0 => Partly(p)'
    BY <1>1, <1>2, <1>3, <1>5, <1>8, <1>9, HandKept DEF AllocPCs, At
  <2>2. AfterAlloc(p) # "write" /\ (AfterAlloc(p) = "insZero" => pr[p].idx # 0)
    BY <1>9 DEF AfterAlloc
  <2> QED
    BY <1>3, <1>5, <1>6, <1>8, <2>1, <2>2 DEF WPhase, AddPCs, AllocPCs, InsPCs, At
<1>10. CASE data
  <2>1. pr[p].idx = 0 /\ pr[p].first = 0 /\ op(p) = "mycopyTo"
    BY <1>2, <1>10 DEF AfterAlloc, Wanting, Building, Adding
  <2>2. Partly(p)
    BY <1>1, <2>1 DEF WPhase, AddPCs, AllocPCs, At
  <2>3. Count(p) = 0
    BY <2>1, <2>2, Nowhere DEF Partly
  <2>4. Count(p)' = 0
    BY <1>3, <1>5, <2>3 DEF Count
  <2>5. Size(Links', pr'[p].first) = 1
    BY <1>2, <1>3, <1>5, <1>8, <1>10, OneBlock
  <2>6. Labelled(p)'
    BY <1>1, <1>3, <1>5 DEF Labelled, WPhase, AddPCs, AllocPCs, At, op
  <2>7. Chunks(p)'
    BY <2>4 DEF Chunks, Spelt
  <2> QED
    BY <1>3, <1>5, <1>8, <1>10, <2>4, <2>5, <2>6, <2>7 DEF WPhase, AddPCs, AllocPCs, InsPCs, At
<1> QED
  BY <1>9, <1>10

LEMMA CopyLinkFiles ==
  ASSUME IInv, CInv, WInv, NEW p \in Procs, Alone(p), Writing(p), CopyLink(p)
  PROVE  Calm /\ WPhase(p)'
<1> DEFINE x == pr[p].cur
           d == pr[p].new
           m == pr[p].first
           n == Count(p)
           B == [pr[p].buf EXCEPT !.next = d]
           l == [pr[p] EXCEPT !.pc = "write", !.cur = d]
<1>1. /\ At(p, "link") /\ Phase(p) /\ formatted /\ Volume /\ formatted' = formatted
      /\ pr[p] \in Local /\ ~Removing(p) /\ WPhase(p)
  BY WriterPhase DEF CopyLink, At, Removing, WInv
<1>2. AtLink(p)
  BY <1>1 DEF Phase
<1>3. /\ op(p) = "mycopyTo" /\ pr[p].idx = 0 /\ m # 0 /\ Held(m) /\ x \in Blks(m)
      /\ x \in Data /\ blk[x].next = 0 /\ d \in Data /\ blk[d] = ZeroBlock /\ d \notin Blks(m)
  BY <1>2 DEF AtLink, Building, Spare, Hand, Last
<1>4. Partly(p) /\ Labelled(p)
  BY <1>1, <1>3 DEF WPhase, AddPCs, AllocPCs, At
<1>5. /\ l.pc = "write" /\ l.cmd = pr[p].cmd /\ l.ent = pr[p].ent /\ l.idx = 0
      /\ l.first = m /\ l.rem = pr[p].rem
  BY <1>1, <1>3 DEF Local
<1>6. Now(p, l) /\ blk' = [blk EXCEPT ![x] = B]
  BY DEF CopyLink
<1> HIDE DEF l
<1>7. pr'[p] = l /\ Doomed' = Doomed
  <2>1. pr'[p] = l
    BY <1>6, AloneNext
  <2> QED
    BY <1>1, <1>5, <1>6, <2>1, AloneNext DEF DoomedBy, Removing
<1>8. x \notin Blks(1) /\ \A c \in Live : x \notin Blks(At2(c).start)
  BY <1>1, <1>3, LiveFacts DEF Held, Mine, Off, Blks
<1>9. Calm
  <2> HIDE DEF x, B
  <2> QED
    BY <1>1, <1>3, <1>6, <1>7, <1>8, WriteEffect
<1>10. /\ \A y \in Data : blk'[y] = IF y = x THEN B ELSE blk[y]
       /\ B.next = d /\ B.data = pr[p].buf.data
  <2>1. B.next = d /\ B.data = pr[p].buf.data
    BY <1>1 DEF Local, Block
  <2> HIDE DEF B
  <2> QED
    BY <1>6, <2>1, LinkFacts DEF IInv, TypeOK
<1> HIDE DEF B
<1>11. d # x /\ Blks(m) \subseteq Data /\ Fine(Links, m)
  BY <1>3 DEF Held, Mine, Blks
<1>12. /\ Succ(Links, x) = 0 /\ Succ(Links', x) = d /\ Succ(Links', d) = 0
       /\ \A y \in Blks(m) : y # x => Succ(Links', y) = Succ(Links, y)
  BY <1>3, <1>10, <1>11, LinkFacts DEF Succ, Links, ZeroBlock
<1>13. /\ Size(Links', m) = Size(Links, m) + 1
       /\ \A i \in 1 .. Size(Links, m) : Order(Links', m)[i] = Order(Links, m)[i]
  <2> DEFINE g == Links
             h == Links'
  <2>1. /\ Fine(g, m) /\ x \in Body(g, m) /\ d \in Data /\ d \notin Body(g, m)
        /\ \A y \in Body(g, m) : y # x => Succ(h, y) = Succ(g, y)
        /\ Succ(g, x) = 0 /\ Succ(h, x) = d /\ Succ(h, d) = 0
    BY <1>3, <1>11, <1>12 DEF Blks
  <2> HIDE DEF g, h, x, d, m
  <2>2. /\ Size(h, m) = Size(g, m) + 1
        /\ \A i \in 1 .. Size(g, m) : Order(h, m)[i] = Order(g, m)[i]
    BY <2>1, Extend
  <2> QED
    BY <2>2 DEF g, h
<1>14. Size(Links, m) = n /\ n \in Nat /\ Spelt(Links, blk, m, n, pr[p].cmd.c)
       /\ B.data = blk[x].data
  BY <1>3, <1>4, <1>10, <1>11, FineIs DEF Partly, Chunks, Spells
<1>15. Spelt(Links', blk', m, n, pr[p].cmd.c)
  <2> SUFFICES ASSUME NEW i \in 1 .. n
               PROVE  blk'[Order(Links', m)[i]].data = [c |-> pr[p].cmd.c, k |-> i]
    BY DEF Spelt
  <2> HIDE DEF m, n
  <2>1. Order(Links', m)[i] = Order(Links, m)[i]
    BY <1>13, <1>14
  <2>2. Order(Links, m)[i] \in Blks(m)
    BY <1>14 DEF Blks, Body
  <2>3. blk[Order(Links, m)[i]].data = [c |-> pr[p].cmd.c, k |-> i]
    BY <1>14 DEF Spelt
  <2> QED
    BY <1>10, <1>11, <1>14, <2>1, <2>2, <2>3
<1>16. Labelled(p)' /\ Count(p)' = n /\ op(p)' = op(p)
  BY <1>4, <1>5, <1>7 DEF Labelled, Count, op
<1>17. Size(Links', m) = Count(p)' + 1 /\ Chunks(p)'
  BY <1>5, <1>7, <1>13, <1>14, <1>15, <1>16 DEF Chunks
<1> QED
  BY <1>5, <1>7, <1>9, <1>16, <1>17 DEF WPhase, AddPCs, AllocPCs, InsPCs, At

LEMMA CopyWriteFiles ==
  ASSUME IInv, CInv, WInv, NEW p \in Procs, Alone(p), Writing(p), CopyWrite(p)
  PROVE  Calm /\ WPhase(p)'
<1> DEFINE x == pr[p].cur
           m == pr[p].first
           n == Count(p)
           last == pr[p].rem = 1
           chunk == [c |-> pr[p].cmd.c, k |-> pr[p].cmd.len - pr[p].rem + 1]
           B == [ZeroBlock EXCEPT !.data = chunk]
           e == [pr[p].ent EXCEPT !.start = m]
           l == [pr[p] EXCEPT !.pc = IF last THEN "insRead" ELSE "alloc",
                              !.rem = pr[p].rem - 1,
                              !.buf = IF last THEN ZeroBlock ELSE B,
                              !.cur = IF last THEN 1 ELSE x,
                              !.ent.start = m]
<1>1. /\ At(p, "write") /\ Phase(p) /\ formatted /\ Volume /\ formatted' = formatted
      /\ pr[p] \in Local /\ ~Removing(p) /\ WPhase(p)
  BY WriterPhase DEF CopyWrite, At, Removing, WInv
<1>2. /\ op(p) = "mycopyTo" /\ pr[p].idx = 0 /\ pr[p].ent.type = FILE
      /\ Held(m) /\ x \in Blks(m) /\ x \in Data /\ blk[x].next = 0
  BY <1>1 DEF Phase, AtWrite, Adding, Last
<1>3. Labelled(p) /\ Size(Links, m) = n + 1 /\ Spelt(Links, blk, m, n, pr[p].cmd.c)
  BY <1>1, <1>2 DEF WPhase, AddPCs, At, Chunks
<1>4. /\ pr[p].rem \in 1 .. pr[p].cmd.len /\ pr[p].cmd.len \in Nat /\ n \in Nat
      /\ pr[p].cmd.c \in Contents /\ n = pr[p].cmd.len - pr[p].rem
  <2>1. CountOK(pr[p]) /\ pr[p].cmd \in Command
    BY <1>1 DEF IInv, NoUnderflow, Local
  <2> QED
    BY <1>1, <2>1, SizesAssumption DEF CountOK, At, Command, Count
<1>5. /\ l.pc = (IF last THEN "insRead" ELSE "alloc") /\ l.cmd = pr[p].cmd
      /\ l.idx = 0 /\ l.first = m /\ l.ent = e
      /\ l.cur = (IF last THEN 1 ELSE x) /\ l.rem = pr[p].rem - 1
      /\ l.buf = IF last THEN ZeroBlock ELSE B
  BY <1>1, <1>2 DEF Local
<1>6. /\ e.start = m /\ e.name = pr[p].ent.name /\ e.type = pr[p].ent.type
      /\ e.size = pr[p].ent.size
  BY <1>1 DEF Local, Entry
<1>7. B.next = 0 /\ B.data = chunk
  BY DEF ZeroBlock
<1>8. Now(p, l) /\ blk' = [blk EXCEPT ![x] = B]
  BY DEF CopyWrite
<1> HIDE DEF l, B, e
<1>9. pr'[p] = l /\ Doomed' = Doomed
  <2>1. pr'[p] = l
    BY <1>8, AloneNext
  <2> QED
    BY <1>1, <1>5, <1>8, <2>1, AloneNext DEF DoomedBy, Removing
<1>10. x \notin Blks(1) /\ \A c \in Live : x \notin Blks(At2(c).start)
  BY <1>1, <1>2, LiveFacts DEF Held, Mine, Off, Blks
<1>11. Calm
  <2> HIDE DEF x
  <2> QED
    BY <1>1, <1>2, <1>8, <1>9, <1>10, WriteEffect
<1>12. /\ \A y \in Data : blk'[y] = IF y = x THEN B ELSE blk[y]
       /\ Links' = Links
  <2>1. \A y \in Data : blk'[y] = IF y = x THEN B ELSE blk[y]
    BY <1>2, <1>8, LinkFacts DEF IInv, TypeOK
  <2> HIDE DEF x
  <2>2. x \in Blocks /\ B.next = blk[x].next
    BY <1>2, <1>7, LinkFacts
  <2>3. Links' = Links
    BY <1>8, <2>2, OneLink
  <2> QED
    BY <2>1, <2>3
<1>13. Fine(Links, m) /\ Blks(m) \subseteq Data /\ Spells(Links, m, n+1, Order(Links, m))
  BY <1>2, <1>3, FineIs DEF Held, Mine, Blks
<1>14. x = Order(Links, m)[n+1]
  BY <1>2, <1>3, <1>13, LinkFacts, LastIs DEF Blks
<1>15. Spelt(Links', blk', m, n+1, pr[p].cmd.c)
  <2> SUFFICES ASSUME NEW i \in 1 .. n+1
               PROVE  blk'[Order(Links, m)[i]].data = [c |-> pr[p].cmd.c, k |-> i]
    BY <1>12 DEF Spelt
  <2>1. CASE i = n+1
    BY <1>2, <1>4, <1>7, <1>12, <1>14, <2>1
  <2>2. CASE i # n+1
    <3> HIDE DEF x, m, n
    <3>1. i \in 1 .. n /\ n+1 \in 1 .. n+1
      BY <1>4, <2>2
    <3>2. Order(Links, m)[i] \in Blks(m)
      BY <1>3, <1>4, <3>1 DEF Blks, Body
    <3>3. Order(Links, m)[i] # x
      BY <1>13, <1>14, <2>2, <3>1 DEF Spells
    <3>4. blk[Order(Links, m)[i]].data = [c |-> pr[p].cmd.c, k |-> i]
      BY <1>3, <3>1 DEF Spelt
    <3> QED
      BY <1>12, <1>13, <3>2, <3>3, <3>4
  <2> QED
    BY <2>1, <2>2
<1>16. Labelled(p)' /\ Count(p)' = n + 1 /\ op(p)' = op(p)
  BY <1>2, <1>3, <1>4, <1>5, <1>6, <1>9 DEF Labelled, Count, op, Named
<1>17. CASE last
  <2>1. Good(Links', blk', e)
    <3>1. Named(e) /\ e.type # DIR /\ e.size = n + 1
      BY <1>2, <1>3, <1>4, <1>6, <1>17 DEF Labelled, Named, FILE, DIR
    <3> HIDE DEF m, n, chunk
    <3> QED
      BY <1>3, <1>4, <1>6, <1>12, <1>15, <3>1 DEF Good
  <2> QED
    BY <1>5, <1>9, <1>11, <1>16, <1>17, <2>1
    DEF WPhase, Ready, AddPCs, AllocPCs, InsPCs, At
<1>18. CASE ~last
  <2>1. Size(Links', m) = Count(p)' /\ Chunks(p)'
    BY <1>3, <1>5, <1>9, <1>12, <1>15, <1>16 DEF Chunks
  <2>2. blk'[x].data = chunk /\ pr'[p].buf.data = chunk
    BY <1>2, <1>5, <1>7, <1>9, <1>12, <1>18
  <2>3. Partly(p)'
    BY <1>5, <1>9, <1>18, <2>1, <2>2 DEF Partly
  <2> QED
    BY <1>5, <1>9, <1>11, <1>16, <1>18, <2>3 DEF WPhase, AddPCs, AllocPCs, InsPCs, At
<1> QED
  BY <1>17, <1>18

LEMMA DirZeroFiles ==
  ASSUME IInv, CInv, WInv, NEW p \in Procs, Alone(p), Writing(p), DirZero(p)
  PROVE  Calm /\ WPhase(p)'
<1> DEFINE d == pr[p].new
           e == [pr[p].ent EXCEPT !.start = d]
           l == [pr[p] EXCEPT !.pc = "insRead", !.ent.start = d]
<1>1. /\ At(p, "dirZero") /\ Phase(p) /\ formatted /\ Volume
      /\ UNCHANGED <<sbHead, formatted>>
      /\ pr[p] \in Local /\ ~Removing(p) /\ WPhase(p)
  BY WriterPhase DEF DirZero, At, Removing, WInv
<1>2. d \in Data /\ blk[d] = ZeroBlock /\ op(p) = "mymkdir"
  BY <1>1 DEF Phase, AtDirZero, Spare
<1>3. Labelled(p)
  BY <1>1 DEF WPhase, AddPCs, At
<1>4. l.pc = "insRead" /\ l.cmd = pr[p].cmd /\ l.ent = e
  BY <1>1 DEF Local
<1>5. /\ e.start = d /\ e.name = pr[p].ent.name /\ e.type = pr[p].ent.type
      /\ e.size = pr[p].ent.size
  BY <1>1 DEF Local, Entry
<1>6. Now(p, l) /\ blk' = blk
  BY <1>2, ZeroAgain DEF DirZero
<1> HIDE DEF l, e
<1>7. Still /\ Calm /\ pr'[p] = l
  BY <1>1, <1>4, <1>6, QuietStep DEF RemovalPCs, disk
<1>8. Good(Links', blk', e)
  BY <1>2, <1>3, <1>5, <1>7, OneBlock DEF Good, Labelled, Named, Still
<1> QED
  BY <1>2, <1>3, <1>4, <1>5, <1>7, <1>8
  DEF WPhase, Ready, Labelled, Named, AddPCs, AllocPCs, InsPCs, At, op

\* An entry that waits to be inserted stays as it was.
LEMMA ReadyKept ==
  ASSUME IInv, NEW p \in Procs, Labelled(p), Ready(p), ToInsert(p),
         NEW l, pr'[p] = l, l.cmd = pr[p].cmd, l.ent = pr[p].ent,
         \A x \in Blks(pr[p].ent.start) : blk'[x] = blk[x]
  PROVE  Labelled(p)' /\ Ready(p)' /\ op(p)' = op(p)
<1> DEFINE e == pr[p].ent
<1>1. /\ Good(Links, blk, e) /\ e \in Entry /\ Fine(Links, e.start)
      /\ Body(Links, e.start) \subseteq Data
  BY LocalFacts DEF Ready, Local, ToInsert, Held, Mine
<1> HIDE DEF e
<1>2. Good(Links', blk', e)
  BY <1>1 , GoodKept DEF Blks, e
<1> QED
  BY <1>2 DEF Ready, Labelled, op, e

LEMMA InsReadFiles ==
  ASSUME IInv, CInv, WInv, NEW p \in Procs, Alone(p), Writing(p), InsRead(p)
  PROVE  Calm /\ WPhase(p)'
<1> DEFINE b == blk[pr[p].cur]
<1>1. /\ At(p, "insRead") /\ Phase(p) /\ formatted /\ pr[p] \in Local
      /\ UNCHANGED disk /\ ~Removing(p) /\ WPhase(p)
  BY WriterPhase DEF InsRead, At, Removing, WInv
<1>2. ToInsert(p) /\ Labelled(p) /\ Ready(p) /\ pr[p].idx = 0
  BY <1>1 DEF Phase, AtInsRead, WPhase, AddPCs, InsPCs, At
<1>3. CASE Fail(p)
  BY <1>1, <1>3, QuietEnd DEF Fail
<1>4. ASSUME NEW l, Now(p, l), l.cmd = pr[p].cmd, l.ent = pr[p].ent,
             l.pc \in {"insRead", "insWrite"} \/ (l.pc = "alloc" /\ l.idx = 1)
      PROVE  Calm /\ WPhase(p)'
  <2>1. Still /\ Calm /\ pr'[p] = l
    BY <1>1, <1>4, QuietStep DEF RemovalPCs
  <2>2. Labelled(p)' /\ Ready(p)'
    BY <1>2, <1>4, <2>1, ReadyKept DEF Still
  <2> QED
    BY <1>4, <2>1, <2>2 DEF WPhase, AddPCs, AllocPCs, InsPCs, At
<1>5. ASSUME NEW s \in Slots,
             Now(p, [pr[p] EXCEPT !.pc = "insWrite", !.idx = s,
                                  !.buf = PutEntry(b, s, pr[p].ent)])
      PROVE  Calm /\ WPhase(p)'
  <2> DEFINE l == [pr[p] EXCEPT !.pc = "insWrite", !.idx = s,
                                !.buf = PutEntry(b, s, pr[p].ent)]
  <2>1. l.pc = "insWrite" /\ l.cmd = pr[p].cmd /\ l.ent = pr[p].ent
    BY <1>1 DEF Local
  <2>2. Now(p, l)
    BY <1>5
  <2> HIDE DEF l
  <2> QED
    BY <1>4, <2>1, <2>2
<1>6. CASE Now(p, [pr[p] EXCEPT !.pc = "alloc", !.idx = 1, !.buf = b])
  <2> DEFINE l == [pr[p] EXCEPT !.pc = "alloc", !.idx = 1, !.buf = b]
  <2>1. l.pc = "alloc" /\ l.idx = 1 /\ l.cmd = pr[p].cmd /\ l.ent = pr[p].ent
    BY <1>1 DEF Local
  <2>2. Now(p, l)
    BY <1>6
  <2> HIDE DEF l
  <2> QED
    BY <1>4, <2>1, <2>2
<1>7. CASE Now(p, [pr[p] EXCEPT !.cur = b.next])
  <2> DEFINE l == [pr[p] EXCEPT !.cur = b.next]
  <2>1. l.pc = "insRead" /\ l.cmd = pr[p].cmd /\ l.ent = pr[p].ent
    BY <1>1 DEF Local, At
  <2>2. Now(p, l)
    BY <1>7
  <2> HIDE DEF l
  <2> QED
    BY <1>4, <2>1, <2>2
<1> QED
  BY <1>3, <1>5, <1>6, <1>7 DEF InsRead

LEMMA InsZeroFiles ==
  ASSUME IInv, CInv, WInv, NEW p \in Procs, Alone(p), Writing(p), InsZero(p)
  PROVE  Calm /\ WPhase(p)'
<1> DEFINE l == [pr[p] EXCEPT !.pc = "insLink"]
<1>1. /\ At(p, "insZero") /\ Phase(p) /\ formatted /\ pr[p] \in Local
      /\ UNCHANGED <<sbHead, formatted>> /\ ~Removing(p) /\ WPhase(p)
  BY WriterPhase DEF InsZero, At, Removing, WInv
<1>2. AtInsLink(p) /\ Labelled(p) /\ Ready(p)
  BY <1>1 DEF Phase, WPhase, AddPCs, InsPCs, At
<1>3. l.pc = "insLink" /\ l.cmd = pr[p].cmd /\ l.ent = pr[p].ent
  BY <1>1 DEF Local
<1>4. Now(p, l) /\ blk' = blk
  BY <1>2, ZeroAgain DEF AtInsLink, Spare, InsZero
<1> HIDE DEF l
<1>5. Still /\ Calm /\ pr'[p] = l
  BY <1>1, <1>3, <1>4, QuietStep DEF RemovalPCs, disk
<1>6. Labelled(p)' /\ Ready(p)'
  BY <1>2, <1>3, <1>5, ReadyKept DEF Still, AtInsLink, Growing
<1> QED
  BY <1>3, <1>5, <1>6 DEF WPhase, AddPCs, AllocPCs, InsPCs, At

\* The directory grows by a block without entries.
LEMMA InsLinkFiles ==
  ASSUME IInv, CInv, WInv, NEW p \in Procs, Alone(p), Writing(p), InsLink(p)
  PROVE  Calm /\ WPhase(p)'
<1> DEFINE x == pr[p].cur
           d == pr[p].new
           m == pr[p].ent.start
           g == Links
           h == Links'
           B == [pr[p].buf EXCEPT !.next = d]
           l == [pr[p] EXCEPT !.pc = "insNew"]
<1>1. /\ At(p, "insLink") /\ Phase(p) /\ formatted /\ Volume
      /\ pr[p] \in Local /\ ~Removing(p) /\ UNCHANGED <<sbHead, formatted>> /\ WPhase(p)
  BY WriterPhase DEF InsLink, At, Removing, WInv
<1>2. AtInsLink(p) /\ Labelled(p) /\ Ready(p)
  BY <1>1 DEF Phase, WPhase, AddPCs, InsPCs, At
<1>3. l.pc = "insNew" /\ l.cmd = pr[p].cmd /\ l.ent = pr[p].ent
  BY <1>1 DEF Local
<1>4. /\ Now(p, l) /\ blk' = [blk EXCEPT ![x] = B]
      /\ x \in Data /\ x \in Body(g, 1) /\ Succ(g, x) = 0 /\ Mine(g, sbHead, Live, Starts, m)
      /\ d \in Data /\ blk[d] = ZeroBlock /\ Off(g, sbHead, Live, Starts, {d})
      /\ d \notin Body(g, m) /\ Succ(g, d) = 0 /\ pr[p].buf = blk[x]
  <2>1. x \in Data /\ x \in Body(g, 1) /\ blk[x].next = 0 /\ pr[p].buf = blk[x]
        /\ Mine(g, sbHead, Live, Starts, m) /\ Hand(p) = m
    BY <1>2 DEF AtInsLink, Growing, ToInsert, Last, Blks, Held, Hand
  <2>2. d \in Data /\ blk[d] = ZeroBlock /\ Off(g, sbHead, Live, Starts, {d})
        /\ d \notin Body(g, m) /\ blk[d].next = 0
    BY <1>2, <2>1 DEF AtInsLink, Spare, Blks, Apart, ZeroBlock
  <2> QED
    BY <2>1, <2>2, LinkFacts DEF InsLink
<1> HIDE DEF l
<1>5. pr'[p] = l /\ Doomed' = Doomed
  <2>1. pr'[p] = l
    BY <1>4, AloneNext
  <2> QED
    BY <1>1, <1>3, <1>4, <2>1, AloneNext DEF DoomedBy, Removing
<1>6. B.next = d /\ B.ents = blk[x].ents
  BY <1>1, <1>4 DEF Local, Block
<1> HIDE DEF B
<1>7. /\ Succ(h, x) = d /\ \A y \in 1 .. NB : y # x => Succ(h, y) = Succ(g, y)
      /\ \A y \in Data : blk'[y] = IF y = x THEN B ELSE blk[y]
  BY <1>4, <1>6, LinkFacts, OneLink DEF IInv, TypeOK
<1>8. Fine(h, 1) /\ Body(h, 1) = Body(g, 1) \cup {d}
  <2>1. Vol(g, sbHead, Live, Starts)
    BY <1>1 DEF Volume
  <2> HIDE DEF g, h, x, d, m
  <2>2. Vol(h, sbHead, Live, Starts) /\ Body(h, 1) = Body(g, 1) \cup {d}
    BY <1>4, <1>7, <2>1, VolGrow
  <2> QED
    BY <2>2 DEF Vol
<1>9. Blks(1) \subseteq Data /\ \A b \in Blks(1) \cup {d} : blk'[b].ents = blk[b].ents
  <2>1. Blks(1) \subseteq Data
    BY <1>1 DEF Volume, Vol, Blks
  <2> QED
    BY <1>4, <1>6, <1>7, <2>1
<1>10. Live' = Live /\ \A c \in Live : At2(c)' = At2(c)
  <2>1. Live = {c \in Blks(1) \X Slots : Used(At2(c))} \ Doomed
    BY <1>1, LiveIs DEF LiveFact, OK, Volume, Vol, Blks
  <2>2. Live' = {c \in (Blks(1) \cup {d}) \X Slots : Used(At2(c)')} \ Doomed
    BY <1>1, <1>4, <1>5, <1>8, <1>9, LiveIsNext DEF LiveFact, OK, Blks
  <2>3. \A c \in (Blks(1) \cup {d}) \X Slots : At2(c)' = At2(c)
    BY <1>9 DEF At2
  <2>4. \A c \in {d} \X Slots : ~Used(At2(c))
    BY <1>4 DEF At2, Used, ZeroBlock, Vacant
  <2> QED
    BY <2>1, <2>2, <2>3, <2>4
<1>11. \A c \in Live : Stays(c)
  <2> SUFFICES ASSUME NEW c \in Live
               PROVE  \A b \in Blks(At2(c).start) : blk'[b] = blk[b]
    BY <1>10 DEF Stays
  <2>1. x \notin Blks(At2(c).start) /\ Blks(At2(c).start) \subseteq Data
    BY <1>1, <1>4, LiveFacts DEF Volume, Vol, Blks
  <2> QED
    BY <1>7, <2>1
<1>12. Calm
  BY <1>1, <1>8, <1>10, <1>11 DEF Calm, Effect, SameDir, Blks
<1>13. \A y \in Blks(m) : blk'[y] = blk[y]
  BY <1>4, <1>7 DEF Mine, Off, Blks
<1>14. Labelled(p)' /\ Ready(p)'
  BY <1>2, <1>3, <1>5, <1>13, ReadyKept DEF AtInsLink, Growing
<1> QED
  BY <1>3, <1>5, <1>12, <1>14 DEF WPhase, AddPCs, AllocPCs, InsPCs, At

\* A complete entry is written to a free slot of the directory.
LEMMA InsertFiles ==
  ASSUME IInv, Volume, formatted, NEW p \in Procs, Labelled(p), Ready(p), ToInsert(p),
         NEW x \in Blks(1), NEW s \in Slots, ~Used(blk[x].ents[s]),
         blk' = [blk EXCEPT ![x] = PutEntry(blk[x], s, pr[p].ent)],
         UNCHANGED <<sbHead, formatted>>, Doomed = {}, Doomed' = {}
  PROVE  Effect /\ Grows
<1> DEFINE e == pr[p].ent
           c == <<x, s>>
           B == PutEntry(blk[x], s, e)
<1>1. /\ Good(Links, blk, e) /\ e \in Entry /\ Held(e.start) /\ Used(e)
      /\ e.type = DIR => e.start # 0
  BY LocalFacts, NamesAssumption
  DEF Ready, Labelled, Named, Used, Local, ToInsert
<1>2. /\ Fine(Links, e.start) /\ Body(Links, e.start) \subseteq Data /\ x \notin Blks(e.start)
  BY <1>1 DEF Held, Mine, Off, Blks
<1> HIDE DEF e
<1>3. /\ Links' = Links /\ Live' = Live \cup {c}
      /\ \A d \in Live' : At2(d)' = IF d = c THEN e ELSE At2(d)
  BY <1>1, InsertAt DEF e
<1> HIDE DEF B
<1>4. x \in Data /\ \A y \in Data : blk'[y] = IF y = x THEN B ELSE blk[y]
  <2>1. x \in Data
    BY DEF Volume, Vol, Blks
  <2>2. blk' = [blk EXCEPT ![x] = B]
    BY DEF B, e
  <2> QED
    BY <2>1, <2>2, LinkFacts DEF IInv, TypeOK
<1>5. c \notin Live /\ c \in CellSet
  <2>1. ~Used(At2(c))
    BY DEF At2
  <2> QED
    BY <1>4, <2>1, LiveFacts DEF CellSet
<1>6. \A d \in Live : Stays(d)
  <2> SUFFICES ASSUME NEW d \in Live
               PROVE  Stays(d)
    OBVIOUS
  <2>1. d # c /\ At2(d)' = At2(d)
    BY <1>3, <1>5
  <2>2. x \notin Blks(At2(d).start) /\ Blks(At2(d).start) \subseteq Data
    BY LiveFacts DEF Volume, Vol, Blks
  <2> QED
    BY <1>4, <2>1, <2>2 DEF Stays
<1>7. Good(Links', blk', At2(c)')
  <2>1. At2(c)' = e
    BY <1>3
  <2>2. \A y \in Blks(e.start) : blk'[y] = blk[y]
    BY <1>2, <1>4 DEF Blks
  <2>3. Good(Links', blk', e)
    BY <1>1, <1>2, <2>2, GoodKept DEF Blks
  <2> QED
    BY <2>1, <2>3
<1> QED
  BY <1>3, <1>5, <1>6, <1>7 DEF Effect, Grows, Blks

LEMMA InsWriteFiles ==
  ASSUME IInv, CInv, WInv, NEW p \in Procs, Alone(p), Writing(p), InsWrite(p)
  PROVE  Effect /\ Grows /\ WPhase(p)'
<1>1. /\ At(p, "insWrite") /\ Phase(p) /\ formatted /\ Volume /\ WPhase(p)
      /\ ~Removing(p) /\ UNCHANGED <<sbHead, formatted>> /\ Finish(p, "ok")
  BY WriterPhase DEF InsWrite, At, Removing, WInv
<1>2. AtInsWrite(p) /\ Labelled(p) /\ Ready(p)
  BY <1>1 DEF Phase, WPhase, AddPCs, InsPCs, At
<1>3. At(p, "idle")'
  <2>1. Ended(p, "ok", Vacant, <<>>).pc = "idle"
    BY DEF Ended, Idle
  <2> QED
    BY <1>1, <2>1, AloneNext DEF At, Finish
<1>4. Doomed = {} /\ Doomed' = {}
  BY <1>1, <1>3, AloneNext DEF DoomedBy, Finish, Removing, At
<1>5. Effect /\ Grows
  BY <1>1, <1>2, <1>4, InsertFiles DEF AtInsWrite, InsWrite
<1> QED
  BY <1>3, <1>5 DEF WPhase, AddPCs, AllocPCs, InsPCs, At

LEMMA InsNewFiles ==
  ASSUME IInv, CInv, WInv, NEW p \in Procs, Alone(p), Writing(p), InsNew(p)
  PROVE  Effect /\ Grows /\ WPhase(p)'
<1>1. /\ At(p, "insNew") /\ Phase(p) /\ formatted /\ Volume /\ WPhase(p)
      /\ ~Removing(p) /\ UNCHANGED <<sbHead, formatted>> /\ Finish(p, "ok")
  BY WriterPhase DEF InsNew, At, Removing, WInv
<1>2. AtInsNew(p) /\ Labelled(p) /\ Ready(p)
  BY <1>1 DEF Phase, WPhase, AddPCs, InsPCs, At
<1>3. At(p, "idle")'
  <2>1. Ended(p, "ok", Vacant, <<>>).pc = "idle"
    BY DEF Ended, Idle
  <2> QED
    BY <1>1, <2>1, AloneNext DEF At, Finish
<1>4. Doomed = {} /\ Doomed' = {}
  BY <1>1, <1>3, AloneNext DEF DoomedBy, Finish, Removing, At
<1>5. 1 \in Slots
  BY SizesAssumption DEF Slots
<1>6. /\ blk' = [blk EXCEPT ![pr[p].new] = PutEntry(blk[pr[p].new], 1, pr[p].ent)]
      /\ ~Used(blk[pr[p].new].ents[1])
  BY <1>2, <1>5 DEF AtInsNew, InsNew, ZeroBlock, Vacant, Used
<1>7. Effect /\ Grows
  BY <1>1, <1>2, <1>4, <1>5, <1>6, InsertFiles DEF AtInsNew
<1> QED
  BY <1>3, <1>7 DEF WPhase, AddPCs, AllocPCs, InsPCs, At

\* A removal that found its entry takes it out of the directory.
LEMMA TakenEffect ==
  ASSUME formatted, UNCHANGED disk, Doomed = {}, NEW c \in Live, Doomed' = {c}
  PROVE  Effect /\ Live' = Live \ {c}
<1>1. /\ blk' = blk /\ formatted' = formatted /\ Links' = Links /\ Hops(1)' = Hops(1)
  BY DEF disk, Links, Hops, Hop
<1>2. Live' = Live \ {c} /\ \A d : At2(d)' = At2(d)
  BY <1>1 DEF Live, Cells, Chain, At2
<1>3. Shrinks
  BY <1>1, <1>2 DEF Shrinks, Stays
<1> QED
  BY <1>1, <1>2, <1>3 DEF Effect, Blks

LEMMA FindFiles ==
  ASSUME IInv, CInv, NEW p \in Procs, Alone(p), Writing(p), Find(p)
  PROVE  Effect /\ WPhase(p)'
<1> DEFINE x == pr[p].cur
           b == blk[x]
<1>1. /\ At(p, "find") /\ Phase(p) /\ formatted /\ Volume
      /\ pr[p] \in Local /\ UNCHANGED disk /\ ~Removing(p)
  BY WriterPhase DEF Find, At, Removing
<1>2. AtFind(p)
  BY <1>1 DEF Phase
<1>3. Doomed = {}
  BY <1>1, DoomedIs DEF DoomedBy
<1>4. CASE Fail(p) \/ Segv(p)
  BY <1>1, <1>4, QuietEnd DEF Fail, Segv, Finish, Calm
<1>5. CASE Now(p, [pr[p] EXCEPT !.cur = b.next])
  <2> DEFINE l == [pr[p] EXCEPT !.cur = b.next]
  <2>1. l.pc = "find"
    BY <1>1 DEF Local, At
  <2> HIDE DEF l
  <2>2. Effect /\ pr'[p] = l
    BY <1>1, <1>5, <2>1, QuietStep DEF RemovalPCs, Calm, l
  <2> QED
    BY <2>1, <2>2 DEF WPhase, AddPCs, AllocPCs, InsPCs
<1>6. ASSUME NEW s \in Slots, IsFirst(s, Hits(b, final(p))), Found(p, b.ents[s], s)
      PROVE  Effect /\ WPhase(p)'
  <2> DEFINE e == b.ents[s]
             c == <<x, s>>
  <2>1. c \in Live
    <3>1. Live = {d \in Blks(1) \X Slots : Used(At2(d))}
      BY <1>1, <1>3, LiveIs DEF LiveFact, OK, Volume, Vol, Blks
    <3>2. Used(e) /\ At2(c) = e
      BY <1>6 DEF IsFirst, Hits, At2
    <3> QED
      BY <1>2, <3>1, <3>2 DEF AtFind
  <2>2. CASE Now(p, Ended(p, "ok", e, <<>>))
    <3> HIDE DEF e
    <3> QED
      BY <1>1, <2>2, QuietEnd DEF Calm
  <2>3. CASE Fail(p)
    BY <1>1, <2>3, QuietEnd DEF Fail, Calm
  <2> DEFINE l == [pr[p] EXCEPT !.pc = AfterFind(p, e), !.ent = e, !.idx = s,
                                !.at = x, !.cur = e.start,
                                !.rem = IF op(p) = "myreadBlock" THEN pr[p].cmd.len
                                        ELSE e.size]
  <2>4. CASE op(p) \in {"myrm", "myrmdir"} /\ Now(p, l)
    <3>1. l.pc = AfterFind(p, e) /\ l.cmd = pr[p].cmd /\ l.idx = s /\ l.at = x
      BY <1>1 DEF Local
    <3>2. AfterFind(p, e) \in {"rmRead", "clrRead", "rmdirCheck"}
          /\ (AfterFind(p, e) = "rmdirCheck" <=> op(p) = "myrmdir")
      BY <2>4 DEF AfterFind
    <3> HIDE DEF l, e
    <3>3. pr'[p] = l
      BY <2>4, AloneNext
    <3>4. WPhase(p)'
      BY <3>1, <3>2, <3>3 DEF WPhase, AddPCs, AllocPCs, InsPCs
    <3>5. CASE op(p) = "myrm"
      <4>1. Doomed' = {c}
        BY <2>4, <3>1, <3>2, <3>3, <3>5, AloneNext DEF DoomedBy, Removing, op
      <4> QED
        BY <1>1, <1>3, <2>1, <3>4, <4>1, TakenEffect
    <3>6. CASE op(p) = "myrmdir"
      <4>1. l.pc = "rmdirCheck"
        BY <3>1, <3>2, <3>6
      <4>2. Effect
        BY <1>1, <2>4, <4>1, QuietStep DEF RemovalPCs, Calm
      <4> QED
        BY <3>4, <4>2
    <3> QED
      BY <2>4, <3>5, <3>6
  <2>5. op(p) \notin {"mycopyFrom", "myreadBlock"}
    BY DEF Writing, Writes
  <2> QED
    BY <1>6, <2>2, <2>3, <2>4, <2>5 DEF Found
<1> QED
  BY <1>4, <1>5, <1>6 DEF Find

LEMMA RmdirCheckFiles ==
  ASSUME IInv, CInv, NEW p \in Procs, Alone(p), Writing(p), RmdirCheck(p)
  PROVE  Effect /\ WPhase(p)'
<1> DEFINE c == <<pr[p].at, pr[p].idx>>
           l == [pr[p] EXCEPT !.pc = "rmFree", !.nxt = 0]
<1>1. /\ At(p, "rmdirCheck") /\ Phase(p) /\ formatted
      /\ pr[p] \in Local /\ UNCHANGED disk /\ ~Removing(p)
  BY WriterPhase DEF RmdirCheck, At, Removing
<1>2. op(p) = "myrmdir" /\ c \in Live
  BY <1>1 DEF Phase, AtRmdirCheck
<1>3. CASE Now(p, Ended(p, "err", Vacant, <<>>))
  BY <1>1, <1>3, QuietEnd DEF Calm
<1>4. CASE Now(p, l)
  <2>1. l.pc = "rmFree" /\ l.cmd = pr[p].cmd /\ l.idx = pr[p].idx /\ l.at = pr[p].at
    BY <1>1 DEF Local
  <2> HIDE DEF l
  <2>2. pr'[p] = l
    BY <1>4, AloneNext
  <2>3. Doomed = {} /\ Doomed' = {c}
    BY <1>1, <1>2, <1>4, <2>1, <2>2, AloneNext DEF DoomedBy, Removing, op
  <2>4. Effect
    BY <1>1, <1>2, <2>3, TakenEffect
  <2> QED
    BY <2>1, <2>2, <2>4 DEF WPhase, AddPCs, AllocPCs, InsPCs
<1> QED
  BY <1>3, <1>4 DEF RmdirCheck

LEMMA RmReadFiles ==
  ASSUME IInv, CInv, NEW p \in Procs, Alone(p), Writing(p), RmRead(p)
  PROVE  Calm /\ WPhase(p)'
<1>1. /\ At(p, "rmRead") /\ Phase(p) /\ formatted /\ pr[p] \in Local /\ UNCHANGED disk
  BY WriterPhase DEF RmRead, At
<1>2. op(p) \in {"myrm", "myrmdir"} /\ pr[p].pc \in RemovalPCs
  BY <1>1 DEF Phase, AtRmRead, At, RemovalPCs
<1>3. ASSUME NEW l, Now(p, l), l.cmd = pr[p].cmd, l.at = pr[p].at, l.idx = pr[p].idx,
             l.pc \in {"rmFree", "clrRead"}
      PROVE  Calm /\ WPhase(p)'
  <2>1. Doomed' = Doomed /\ pr'[p] = l
    BY <1>2, <1>3, DoomedKept DEF RemovalPCs
  <2>2. Calm
    BY <1>1, <2>1, StillIs, StillEffect
  <2> QED
    BY <1>3, <2>1, <2>2 DEF WPhase, AddPCs, AllocPCs, InsPCs
<1>4. CASE Now(p, [pr[p] EXCEPT !.pc = "rmFree", !.nxt = blk[pr[p].cur].next])
  <2> DEFINE l == [pr[p] EXCEPT !.pc = "rmFree", !.nxt = blk[pr[p].cur].next]
  <2>1. /\ Now(p, l) /\ l.cmd = pr[p].cmd /\ l.at = pr[p].at /\ l.idx = pr[p].idx
        /\ l.pc = "rmFree"
    BY <1>1, <1>4 DEF Local
  <2> HIDE DEF l
  <2> QED
    BY <1>3, <2>1
<1>5. CASE Now(p, [pr[p] EXCEPT !.pc = "clrRead"])
  <2> DEFINE l == [pr[p] EXCEPT !.pc = "clrRead"]
  <2>1. /\ Now(p, l) /\ l.cmd = pr[p].cmd /\ l.at = pr[p].at /\ l.idx = pr[p].idx
        /\ l.pc = "clrRead"
    BY <1>1, <1>5 DEF Local
  <2> HIDE DEF l
  <2> QED
    BY <1>3, <2>1
<1> QED
  BY <1>4, <1>5 DEF RmRead

LEMMA FreeWriteFiles ==
  ASSUME IInv, CInv, NEW p \in Procs, Alone(p), Writing(p), FreeWrite(p)
  PROVE  Calm /\ WPhase(p)'
<1> DEFINE x == pr[p].cur
           l == [pr[p] EXCEPT !.pc = "rmSuper", !.head = x]
<1>1. /\ At(p, "rmFree") /\ Phase(p) /\ formatted /\ Volume /\ pr[p] \in Local
      /\ formatted' = formatted /\ op(p) \in {"myrm", "myrmdir"} /\ pr[p].pc \in RemovalPCs
  BY WriterPhase DEF FreeWrite, At, Phase, AtRmFree, AtRmRead, RemovalPCs
<1>2. x # 0 /\ Mine(Links, sbHead, Live, Starts, x)
  BY <1>1 DEF Phase, AtRmFree, AtRmRead, Held
<1>3. x \in Data /\ x \in Body(Links, x)
  BY <1>2, Somewhere DEF Mine
<1>4. /\ Now(p, l) /\ blk' = [blk EXCEPT ![x] = FreeBlock(pr[p].head)]
      /\ l.cmd = pr[p].cmd /\ l.at = pr[p].at /\ l.idx = pr[p].idx /\ l.pc = "rmSuper"
  BY <1>1 DEF FreeWrite, Local
<1> HIDE DEF l
<1>5. Doomed' = Doomed /\ pr'[p] = l
  BY <1>1, <1>4, DoomedKept DEF RemovalPCs
<1>6. x \notin Blks(1) /\ \A c \in Live : x \notin Blks(At2(c).start)
  BY <1>1, <1>2, <1>3, LiveFacts DEF Mine, Off, Blks
<1>7. Calm
  <2> HIDE DEF x
  <2> QED
    BY <1>1, <1>3, <1>4, <1>5, <1>6, WriteEffect
<1> QED
  BY <1>4, <1>5, <1>7 DEF WPhase, AddPCs, AllocPCs, InsPCs

LEMMA FreeSuperFiles ==
  ASSUME IInv, CInv, NEW p \in Procs, Alone(p), Writing(p), FreeSuper(p)
  PROVE  Calm /\ WPhase(p)'
<1> DEFINE m == pr[p].nxt
           l == [pr[p] EXCEPT !.pc = IF m = 0 THEN "clrRead" ELSE "rmRead",
                              !.cur = m, !.nxt = 0]
<1>1. /\ At(p, "rmSuper") /\ Phase(p) /\ formatted /\ Volume /\ pr[p] \in Local
      /\ UNCHANGED <<blk, formatted>> /\ op(p) \in {"myrm", "myrmdir"}
      /\ pr[p].pc \in RemovalPCs
  BY WriterPhase DEF FreeSuper, At, Phase, AtRmSuper, RemovalPCs
<1>2. /\ Now(p, l) /\ l.cmd = pr[p].cmd /\ l.at = pr[p].at /\ l.idx = pr[p].idx
      /\ l.pc \in {"clrRead", "rmRead"}
  BY <1>1 DEF FreeSuper, Local
<1> HIDE DEF l
<1>3. Doomed' = Doomed /\ pr'[p] = l
  BY <1>1, <1>2, DoomedKept DEF RemovalPCs
<1>4. Calm
  BY <1>1, <1>3, SuperEffect
<1> QED
  BY <1>2, <1>3, <1>4 DEF WPhase, AddPCs, AllocPCs, InsPCs

LEMMA ClearReadFiles ==
  ASSUME IInv, CInv, NEW p \in Procs, Alone(p), Writing(p), ClearRead(p)
  PROVE  Calm /\ WPhase(p)'
<1> DEFINE l == [pr[p] EXCEPT !.pc = "clrWrite", !.buf = PutEntry(blk[1], pr[p].idx, Vacant)]
<1>1. /\ At(p, "clrRead") /\ Phase(p) /\ formatted /\ Volume /\ pr[p] \in Local
      /\ UNCHANGED disk /\ op(p) \in {"myrm", "myrmdir"} /\ pr[p].pc \in RemovalPCs
  BY WriterPhase DEF ClearRead, At, Phase, AtClrRead, RemovalPCs
<1>2. /\ Now(p, l) /\ l.cmd = pr[p].cmd /\ l.at = pr[p].at /\ l.idx = pr[p].idx
      /\ l.pc = "clrWrite"
  BY <1>1 DEF ClearRead, Local
<1> HIDE DEF l
<1>3. Doomed' = Doomed /\ pr'[p] = l
  BY <1>1, <1>2, DoomedKept DEF RemovalPCs
<1>4. Calm
  BY <1>1, <1>3, StillIs, StillEffect
<1> QED
  BY <1>2, <1>3, <1>4 DEF WPhase, AddPCs, AllocPCs, InsPCs

LEMMA ClearWriteFiles ==
  ASSUME IInv, CInv, InFirstBlock, NEW p \in Procs, Alone(p), Writing(p), ClearWrite(p)
  PROVE  Calm /\ WPhase(p)'
<1>1. /\ At(p, "clrWrite") /\ formatted /\ Volume /\ UNCHANGED formatted /\ Finish(p, "ok")
  BY WriterPhase DEF ClearWrite, At
<1>2. /\ Links' = Links /\ Live' = Live /\ \A c \in Live : At2(c)' = At2(c)
      /\ \A b \in Data : b # 1 => blk'[b] = blk[b]
  BY ClearedIs
<1>3. 1 \in Blks(1)
  BY <1>1, Somewhere, SizesAssumption DEF Volume, Vol, Blks
<1>4. \A c \in Live : Stays(c)
  BY <1>1, <1>2, <1>3, LiveFacts DEF Volume, Vol, Blks, Stays
<1>5. At(p, "idle")'
  <2>1. Ended(p, "ok", Vacant, <<>>).pc = "idle"
    BY DEF Ended, Idle
  <2> QED
    BY <1>1, <2>1, AloneNext DEF At, Finish
<1>6. Calm
  BY <1>1, <1>2, <1>4 DEF Calm, Effect, SameDir, Blks
<1> QED
  BY <1>5, <1>6 DEF WPhase, AddPCs, AllocPCs, InsPCs, At

\* mymkfs leaves no entry.
LEMMA MkfsFiles ==
  ASSUME IInv, CInv, NEW p \in Procs, Alone(p), MkfsSuper(p) \/ MkfsRoot(p) \/ MkfsChain(p)
  PROVE  Live' = {} /\ WPhase(p)'
<1> DEFINE Empty == ZeroBlock.ents
<1>1. MkfsPhase(p) /\ pr[p] \in Local
  BY FormatterPhase DEF MkfsSuper, MkfsRoot, MkfsChain, At
<1>2. \A b \in Data : blk[b].ents = Empty /\ b \in Blocks /\ b # 0
  BY <1>1, LinkFacts DEF MkfsPhase, At, MkfsSuper, MkfsRoot, MkfsChain
<1>3. \A b \in Data : blk'[b].ents = Empty
  <2>1. CASE MkfsSuper(p)
    BY <1>2, <2>1 DEF MkfsSuper, IInv, TypeOK
  <2>2. CASE MkfsRoot(p)
    BY <1>2, <2>2 DEF MkfsRoot, IInv, TypeOK
  <2>3. CASE MkfsChain(p)
    <3> DEFINE B == FreeBlock(IF pr[p].cur < NB-1 THEN pr[p].cur + 1 ELSE 0)
    <3>1. B.ents = Empty /\ blk' = [blk EXCEPT ![pr[p].cur] = B]
      BY <2>3 DEF MkfsChain, FreeBlock, ZeroBlock
    <3> HIDE DEF B, Empty
    <3> QED
      BY <1>2, <3>1 DEF IInv, TypeOK
  <2> QED
    BY <2>1, <2>2, <2>3
<1>4. Cells' = {}
  <2>1. \A b \in Data, s \in Slots : ~Used(blk'[b].ents[s])
    BY <1>3 DEF ZeroBlock, Vacant, Used
  <2> QED
    BY <2>1 DEF Cells, At2
<1>5. ASSUME NEW l, Now(p, l), l.pc \notin AddPCs
      PROVE  WPhase(p)'
  BY <1>5, AloneNext DEF WPhase
<1>6. CASE Finish(p, "ok")
  <2>1. Ended(p, "ok", Vacant, <<>>).pc = "idle"
    BY DEF Ended, Idle
  <2> QED
    BY <1>4, <1>5, <1>6, <2>1 DEF Finish, Live, AddPCs, AllocPCs, InsPCs
<1>7. CASE MkfsSuper(p)
  <2>1. [pr[p] EXCEPT !.pc = "fsRoot"].pc = "fsRoot"
    BY <1>1 DEF Local
  <2> QED
    BY <1>4, <1>5, <1>7, <2>1 DEF MkfsSuper, Live, AddPCs, AllocPCs, InsPCs
<1>8. CASE MkfsRoot(p) /\ ~Finish(p, "ok")
  <2>1. [pr[p] EXCEPT !.pc = "fsChain", !.cur = 2].pc = "fsChain"
    BY <1>1 DEF Local
  <2> QED
    BY <1>4, <1>5, <1>8, <2>1 DEF MkfsRoot, Live, AddPCs, AllocPCs, InsPCs
<1>9. CASE MkfsChain(p) /\ ~Finish(p, "ok")
  <2>1. [pr[p] EXCEPT !.cur = pr[p].cur + 1].pc = "fsChain"
    BY <1>1, <1>9 DEF Local, MkfsChain, At
  <2> QED
    BY <1>4, <1>5, <1>9, <2>1 DEF MkfsChain, Live, AddPCs, AllocPCs, InsPCs
<1> QED
  BY <1>6, <1>7, <1>8, <1>9

LEMMA WriterFiles ==
  ASSUME IInv, CInv, WInv, Careful, NEW p \in Procs, Writing(p), Step(p)
  PROVE  WInv' /\ (Effect \/ Live' = {})
<1>1. Alone(p) /\ InFirstBlock
  BY DEF Careful, OneWriter, Alone
<1>2. ~ReadData(p) /\ ~Skip(p) /\ ~ReadOne(p)
  BY DEF Writing, CInv, Running, Phase, MkfsPhase, ReadData, Skip, ReadOne, At
<1>3. WPhase(p)' /\ (Effect \/ Live' = {})
  BY <1>1, <1>2, ResolveFiles, TraverseFiles, AllocReadFiles, AllocZeroFiles,
     AllocSuperFiles, CopyLinkFiles, CopyWriteFiles, DirZeroFiles, InsReadFiles,
     InsWriteFiles, InsZeroFiles, InsLinkFiles, InsNewFiles, FindFiles, RmReadFiles,
     RmdirCheckFiles, FreeWriteFiles, FreeSuperFiles, ClearReadFiles, ClearWriteFiles,
     MkfsFiles
  DEF Step, Calm
<1>4. Stored'
  <2>1. CASE Effect
    <3>1. Volume /\ Stored
      BY <2>1 DEF Effect, CInv, WInv
    <3> QED
      BY <2>1, <3>1, EffectStored
  <2>2. CASE Live' = {}
    BY <2>2 DEF Stored
  <2> QED
    BY <1>3, <2>1, <2>2
<1>5. \A q \in Procs : q # p => ~Writing(q)'
  BY <1>1, CommandKept, AloneNext
<1> QED
  BY <1>3, <1>4, <1>5 DEF WInv

LEMMA SameWPhase ==
  ASSUME NEW q \in Procs, pr'[q] = pr[q], Links' = Links, blk' = blk, WPhase(q)
  PROVE  WPhase(q)'
<1>1. Labelled(q)' = Labelled(q) /\ op(q)' = op(q) /\ Count(q)' = Count(q)
  BY DEF Labelled, op, Count
<1>2. Ready(q)' = Ready(q) /\ Chunks(q)' = Chunks(q)
  BY <1>1 DEF Ready, Chunks
<1>3. Partly(q)' = Partly(q)
  BY <1>1, <1>2 DEF Partly
<1> QED
  BY <1>1, <1>2, <1>3 DEF WPhase, At

\* A step that leaves the disk and dooms no entry.
LEMMA StillFiles ==
  ASSUME IInv, CInv, WInv, Still,
         \A q \in Procs : Writing(q)' => pr'[q] = pr[q] \/ pr'[q].pc \notin AddPCs
  PROVE  WInv' /\ (Effect \/ Live' = {})
<1>1. Effect \/ Live' = {}
  <2>1. CASE formatted
    BY <2>1, StillEffect DEF Calm
  <2>2. CASE ~formatted
    BY <2>2 DEF Still, Live, Cells
  <2> QED
    BY <2>1, <2>2
<1>2. formatted' => Stored'
  <2>1. formatted' => Effect /\ Volume /\ Stored
    BY StillEffect DEF Calm, Still, CInv, WInv
  <2> QED
    BY <2>1, EffectStored
<1>3. ASSUME NEW q \in Procs, Writing(q)' PROVE WPhase(q)'
  <2>1. CASE pr'[q].pc \notin AddPCs
    BY <2>1 DEF WPhase
  <2>2. CASE pr'[q] = pr[q]
    <3>1. Writing(q)
      BY <1>3, <2>2 DEF Writing, At, op
    <3> QED
      BY <2>2, <3>1, SameWPhase DEF WInv, Still
  <2> QED
    BY <1>3, <2>1, <2>2
<1> QED
  BY <1>1, <1>2, <1>3 DEF WInv

LEMMA BystanderFiles ==
  ASSUME IInv, CInv, WInv, NEW p \in Procs, UNCHANGED disk, ~Removing(p),
         NEW l, Now(p, l), l.cmd.op \notin Writes \/ l.pc \in {"idle", "resolve"}
  PROVE  WInv' /\ (Effect \/ Live' = {})
<1>1. pr'[p] = l /\ \A q \in Procs : q # p => pr'[q] = pr[q]
  BY DEF Now, IInv, TypeOK
<1>2. ~Removing(p)' /\ \A q \in Procs : q # p => Removing(q)' = Removing(q)
  BY <1>1 DEF Removing, op, Writes
<1>3. Doomed' = Doomed
  BY <1>1, <1>2 DEF Doomed
<1>4. Still
  BY <1>3, StillIs
<1>5. Writing(p)' => pr'[p].pc \notin AddPCs
  BY <1>1 DEF Writing, op, AddPCs, AllocPCs, InsPCs
<1> QED
  BY <1>1, <1>4, <1>5, StillFiles

LEMMA ReaderFiles ==
  ASSUME IInv, CInv, WInv, NEW p \in Procs, ~Writing(p), Step(p)
  PROVE  WInv' /\ (Effect \/ Live' = {})
<1>1. PICK l : Now(p, l) /\ l.cmd = pr[p].cmd /\ ~At(p, "idle")
  BY CommandKept
<1>2. /\ op(p) \notin Writes /\ ~Removing(p)
      /\ pr[p].pc \in {"resolve", "find", "readData", "skip", "readOne"}
  BY <1>1, RemovingIs DEF Writing, CInv, Running
<1>3. UNCHANGED disk
  BY <1>2
  DEF Step, At, Resolve, Traverse, Find, ReadData, Skip, ReadOne, AllocRead, AllocZero,
     AllocSuper, CopyLink, CopyWrite, DirZero, InsRead, InsWrite, InsZero, InsLink, InsNew,
     RmRead, RmdirCheck, FreeWrite, FreeSuper, ClearRead, ClearWrite, MkfsSuper, MkfsRoot,
     MkfsChain
<1> QED
  BY <1>1, <1>2, <1>3, BystanderFiles DEF op

LEMMA InitFiles == Init => WInv
BY DEF Init, WInv, Writing, At, Idle

\* Every step keeps what is written, and shows of it no more than one entry.
LEMMA NextFiles ==
  IInv /\ CInv /\ WInv /\ Careful /\ RemovalsEnd /\ [Next]_vars
    => WInv' /\ (Effect \/ Live' = {})
<1> SUFFICES ASSUME IInv, CInv, WInv, Careful, RemovalsEnd, [Next]_vars
             PROVE  WInv' /\ (Effect \/ Live' = {})
  OBVIOUS
<1>1. CASE UNCHANGED vars
  <2>1. UNCHANGED disk /\ Doomed' = Doomed /\ pr' = pr
    BY <1>1 DEF vars, disk, Doomed, Removing, op
  <2> QED
    BY <2>1, StillIs, StillFiles
<1>2. ASSUME NEW p \in Procs, NEW c \in Menu[p], Start(p, c)
      PROVE  WInv' /\ (Effect \/ Live' = {})
  <2> DEFINE l == [Idle EXCEPT !.pc = "resolve", !.cmd = c, !.head = sbHead, !.cur = 1]
  <2>1. l.pc = "resolve" /\ Now(p, l) /\ UNCHANGED disk /\ ~Removing(p)
    BY <1>2 DEF Start, Idle, Removing, At
  <2> HIDE DEF l
  <2> QED
    BY <2>1, BystanderFiles
<1>3. ASSUME NEW p \in Procs, NEW c \in Menu[p], MkfsTrunc(p, c)
      PROVE  WInv' /\ (Effect \/ Live' = {})
  <2>1. ~formatted' /\ \A q \in Procs : pr'[q].pc \in {"idle", "fsSuper"}
    BY <1>3 DEF MkfsTrunc, Idle
  <2> QED
    BY <2>1 DEF WInv, WPhase, AddPCs, AllocPCs, InsPCs, Live, Cells
<1>4. ASSUME NEW p \in Procs, Step(p)
      PROVE  WInv' /\ (Effect \/ Live' = {})
  BY <1>4, ReaderFiles, WriterFiles
<1>5. ASSUME NEW p \in Procs, Crash(p)
      PROVE  WInv' /\ (Effect \/ Live' = {})
  <2>1. ~Removing(p) /\ Now(p, Idle) /\ UNCHANGED disk /\ Idle.pc = "idle"
    BY <1>5 DEF Crash, Removing, RemovalsEnd, Idle
  <2> QED
    BY <2>1, BystanderFiles
<1> QED
  BY <1>1, <1>2, <1>3, <1>4, <1>5 DEF Next

-----------------------------------------------------------------------------
(* What a user sees of an entry.                                           *)

\* From the blocks of its chain, in order.
Shown(g, d, e) ==
  [name |-> e.name, type |-> e.type,
   content |-> [i \in 1 .. e.size |-> d[Order(g, e.start)[i]].data]]
SeenFact ==
  IInv /\ CInv /\ WInv /\ formatted =>
    \A c \in Live : /\ Seen(At2(c)) = Shown(Links, blk, At2(c))
                    /\ Seen(At2(c)) \in AbsEntry /\ c \in CellSet

LEMMA SeenIs == SeenFact
<1> SUFFICES ASSUME IInv, CInv, WInv, formatted, NEW c \in Live
             PROVE  /\ Seen(At2(c)) = Shown(Links, blk, At2(c))
                    /\ Seen(At2(c)) \in AbsEntry /\ c \in CellSet
  BY DEF SeenFact
<1> DEFINE e == At2(c)
<1>1. /\ e \in Entry /\ Fine(Links, e.start) /\ Body(Links, e.start) \subseteq Data
      /\ Good(Links, blk, e) /\ c \in CellSet
  BY LiveFacts DEF CInv, WInv, Stored
<1> HIDE DEF e
<1>2. e.size \in Nat
  BY <1>1, SizesAssumption DEF Entry
<1>3. \A i \in 1 .. e.size : i \in 1 .. Size(Links, e.start)
  BY <1>1, <1>2 DEF Good, Named
<1>4. \A i \in 1 .. e.size : Hops(e.start)[i-1] = Order(Links, e.start)[i]
  BY <1>1, <1>3, ChainIs
<1>5. Content(e) = [i \in 1 .. e.size |-> blk[Order(Links, e.start)[i]].data]
  BY <1>4 DEF Content
<1>6. \A i \in 1 .. e.size : blk[Order(Links, e.start)[i]].data \in Chunk
  <2> SUFFICES ASSUME NEW i \in 1 .. e.size
               PROVE  blk[Order(Links, e.start)[i]].data \in Chunk
    OBVIOUS
  <2> DEFINE x == Order(Links, e.start)[i]
  <2>1. x \in Data
    BY <1>1, <1>3 DEF Body
  <2> HIDE DEF x
  <2>2. blk[x] \in Block
    BY <2>1, LinkFacts
  <2>3. blk[x].data \in Chunk
    BY <2>2 DEF Block
  <2> QED
    BY <2>3 DEF x
<1>7. Content(e) \in Seq(Chunk)
  BY <1>2, <1>5, <1>6
<1> QED
  BY <1>1, <1>5, <1>7 DEF Seen, Shown, AbsEntry, Good, Named, e

LEMMA SeenIsNext == SeenFact'
BY SeenIs, PTL

LEMMA WholeInv == IInv /\ CInv /\ WInv => FilesWhole
<1> SUFFICES ASSUME IInv, CInv, WInv, NEW c \in Live, At2(c).type = FILE
             PROVE  Whole(At2(c))
  BY DEF FilesWhole
<1> DEFINE e == At2(c)
           b == e.start
<1>1. formatted
  BY DEF Live, Cells
<1>2. /\ e \in Entry /\ Fine(Links, b) /\ Body(Links, b) \subseteq Data
      /\ Good(Links, blk, e) /\ e.type = FILE
  BY <1>1, LiveFacts DEF CInv, WInv, Stored
<1> HIDE DEF e
<1>3. e.size \in Nat /\ Size(Links, b) = e.size
  BY <1>2, SizesAssumption DEF Entry, Good, FILE, DIR
<1>4. PICK n \in Contents : Spelt(Links, blk, b, e.size, n)
  BY <1>2 DEF Good, FILE, DIR
<1>5. /\ Chain(b) = Body(Links, b) /\ Cardinality(Chain(b)) = e.size
      /\ \A i \in 1 .. e.size : Hops(b)[i-1] = Order(Links, b)[i]
  BY <1>2, <1>3, ChainIs
<1>6. \A i \in 1 .. e.size : Content(e)[i] = [c |-> n, k |-> i]
  BY <1>4, <1>5 DEF Content, Spelt
<1>7. b \in Blocks
  <2>1. CASE b = 0
    BY <2>1, SizesAssumption DEF Blocks
  <2>2. CASE b # 0
    BY <1>2, <2>2, Somewhere, LinkFacts
  <2> QED
    BY <2>1, <2>2
<1>8. ASSUME NEW i \in 1 .. e.size
      PROVE  Content(e)[i].c = Content(e)[1].c /\ Content(e)[i].k = i
  <2>1. 1 \in 1 .. e.size
    BY <1>3, <1>8
  <2>2. Content(e)[1] = [c |-> n, k |-> 1] /\ Content(e)[i] = [c |-> n, k |-> i]
    BY <1>6, <1>8, <2>1
  <2> QED
    BY <2>2
<1>9. \A x \in Chain(b) : x \in Blocks
  BY <1>2, <1>5, LinkFacts
<1> QED
  BY <1>5, <1>7, <1>8, <1>9 DEF Whole, e

LEMMA WInvAlways ==
  ASSUME RemovalsEnd
  PROVE  Spec /\ []Careful => [](IInv /\ CInv /\ WInv)
<1>1. Init => WInv
  BY InitFiles
<1>2. IInv /\ CInv /\ WInv /\ Careful /\ [Next]_vars => WInv'
  BY NextFiles
<1>3. Spec /\ []Careful => [](IInv /\ CInv)
  BY CInvAlways
<1> QED
  BY <1>1, <1>2, <1>3, PTL DEF Spec

\* As long as one command at a time changes the volume and removals find their
\* entry in the first block of the directory, and when no removal is killed,
\* every file a user sees has all its chunks, in order and of one host file
\* (FilesWhole): mycopyTo writes the entry last.
THEOREM FilesStayWhole ==
  ASSUME RemovalsEnd
  PROVE  Spec /\ []Careful => []FilesWhole
<1>1. Spec /\ []Careful => [](IInv /\ CInv /\ WInv)
  BY WInvAlways
<1> QED
  BY <1>1, WholeInv, PTL

\* For one shell that adds and others that read, whatever is killed, files are
\* whole (FilesWhole) without a condition on the behaviour.
THEOREM AddedFilesWhole ==
  ASSUME RemovalsEnd, OneShell, NoRemovals
  PROVE  Spec => []FilesWhole
BY CarefulAlways, FilesStayWhole, PTL

\* An entry the step leaves alone looks the same.
LEMMA StaysSeen ==
  ASSUME IInv, CInv, CInv', WInv, WInv', IInv', Effect, NEW c \in Live, c \in Live', Stays(c)
  PROVE  Seen(At2(c))' = Seen(At2(c))
<1> DEFINE e == At2(c)
<1>1. /\ e \in Entry /\ Fine(Links, e.start) /\ Body(Links, e.start) \subseteq Data
      /\ Good(Links, blk, e) /\ formatted /\ formatted'
      /\ \A x \in Body(Links, e.start) : blk'[x] = blk[x]
  BY LiveFacts DEF CInv, WInv, Stored, Effect, Stays, Blks
<1>2. At2(c)' = e
  BY DEF Stays
<1> HIDE DEF e
<1>3. Order(Links', e.start) = Order(Links, e.start)
  BY <1>1, Unwritten
<1>4. e.size \in Nat
  BY <1>1, SizesAssumption DEF Entry
<1>5. \A i \in 1 .. e.size : blk'[Order(Links', e.start)[i]] = blk[Order(Links, e.start)[i]]
  BY <1>1, <1>3, <1>4 DEF Good, Named, Body
<1>6. Shown(Links', blk', e) = Shown(Links, blk, e)
  BY <1>5 DEF Shown
<1>7. Seen(e) = Shown(Links, blk, e)
  BY <1>1, SeenIs DEF SeenFact, e
<1>8. Seen(At2(c))' = Shown(Links', blk', e)
  BY <1>1, <1>2, SeenIsNext DEF SeenFact
<1> QED
  BY <1>6, <1>7, <1>8 DEF e

\* Every step is a step of the file store, or is not seen.
LEMMA StoreStep ==
  ASSUME IInv, IInv', CInv, CInv', WInv, WInv', Effect \/ Live' = {}
  PROVE  Store!Next \/ UNCHANGED AbsDir
<1>1. DOMAIN AbsDir = Live /\ DOMAIN AbsDir' = Live'
  BY DEF AbsDir
<1>2. CASE Live' = {}
  <2>1. Store!Format
    BY <1>2 DEF Store!Format, AbsDir
  <2> QED
    BY <2>1 DEF Store!Next
<1>3. CASE Effect /\ SameDir
  <2>1. \A c \in Live : Seen(At2(c))' = Seen(At2(c))
    BY <1>3, StaysSeen DEF SameDir
  <2> QED
    BY <1>3, <2>1 DEF AbsDir, SameDir
<1>4. CASE Effect /\ Shrinks
  <2>1. PICK c \in Live : Live' = Live \ {c} /\ \A d \in Live' : Stays(d)
    BY <1>4 DEF Shrinks
  <2>2. \A d \in Live' : Seen(At2(d))' = Seen(At2(d))
    BY <1>4, <2>1, StaysSeen
  <2>3. AbsDir' = [x \in Live \ {c} |-> AbsDir[x]]
    BY <2>1, <2>2 DEF AbsDir
  <2>4. Store!Remove(c)
    BY <1>1, <2>3 DEF Store!Remove, Store!Vacant
  <2>5. c \in CellSet
    BY <1>4, SeenIs DEF SeenFact, Effect
  <2> QED
    BY <2>4, <2>5 DEF Store!Next
<1>5. CASE Effect /\ Grows
  <2>1. PICK c \in CellSet \ Live : /\ Live' = Live \cup {c} /\ \A d \in Live : Stays(d)
    BY <1>5 DEF Grows
  <2>2. \A d \in Live : Seen(At2(d))' = Seen(At2(d))
    BY <1>5, <2>1, StaysSeen
  <2>3. Seen(At2(c))' \in AbsEntry
    BY <1>5, <2>1, SeenIsNext DEF SeenFact, Effect
  <2>4. AbsDir'[c] \in AbsEntry /\ \A x \in Live : AbsDir'[x] = AbsDir[x]
    BY <2>1, <2>2, <2>3 DEF AbsDir, AbsEntry
  <2>5. Store!Create(c)
    BY <1>1, <2>1, <2>4 DEF Store!Create, Store!Vacant
  <2> QED
    BY <2>1, <2>5 DEF Store!Next
<1> QED
  BY <1>2, <1>3, <1>4, <1>5 DEF Effect

\* Under the same conditions the volume implements FileStore: seen by its user,
\* every step of every command creates one whole entry, removes one entry and no
\* other, empties the volume, or changes nothing.
THEOREM StoreImplemented ==
  ASSUME RemovalsEnd
  PROVE  Spec /\ []Careful => ImplementsStore
<1>1. Init => Store!Init
  <2>1. Init => Live = {}
    BY DEF Init, Live, Cells
  <2> QED
    BY <2>1 DEF Store!Init, AbsDir
<1>2. IInv /\ CInv /\ WInv /\ Careful /\ [Next]_vars /\ IInv' /\ CInv' /\ WInv'
        => [Store!Next]_AbsDir
  BY NextFiles, StoreStep
<1>3. Spec /\ []Careful => [](IInv /\ CInv /\ WInv)
  BY WInvAlways
<1> QED
  BY <1>1, <1>2, <1>3, PTL DEF Spec, ImplementsStore, Store!Spec

-----------------------------------------------------------------------------
(* Where every block is.                                                   *)

\* A command has the block x in hand: it is in a chain no entry shows, or in
\* none at all.
Grips(p, x) ==
  \/ /\ pr[p].pc \in AllocPCs \cup {"link", "dirZero", "insZero", "insLink"}
     /\ x \in Blks(Hand(p))
  \/ At(p, "allocSuper") /\ x \in Blks(pr[p].head)
  \/ pr[p].pc \in {"link", "dirZero", "insZero", "insLink"} /\ x = pr[p].new
  \/ At(p, "write") /\ x \in Blks(pr[p].first)
  \/ pr[p].pc \in {"insRead", "insWrite", "insNew"} /\ x \in Blks(pr[p].ent.start)
  \/ pr[p].pc \in {"rmRead", "rmFree"} /\ x \in Blks(pr[p].cur)
  \/ At(p, "rmSuper") /\ (x = pr[p].cur \/ x \in Blks(pr[p].nxt))
  \/ pr[p].pc \in {"fsSuper", "fsRoot", "fsChain"}

\* A command that gives up while it grows the directory shows in its locals that
\* it holds a chain, and a removal frees a chain block by block to its end.
Traced(p) ==
  /\ (At(p, "insRead") \/ (At(p, "alloc") /\ pr[p].idx # 0)) /\ pr[p].ent.start # 0
       => pr[p].first # 0 \/ pr[p].new # 0
  /\ At(p, "rmdirCheck") => pr[p].ent.type = DIR
  /\ At(p, "rmFree") => pr[p].nxt = blk[pr[p].cur].next

Kept(x) == \/ x \in Blks(1) \cup Blks(sbHead)
           \/ \E c \in Live : x \in Blks(At2(c).start)
           \/ \E p \in Procs : Grips(p, x)
LInv == /\ formatted /\ ~dirty => \A x \in Data : Kept(x)
        /\ \A p \in Procs : Traced(p)

\* What remains to show of a step: the blocks that were free, in the command's
\* hand, or in the entry it takes, are somewhere.
Keeps(p) ==
  ~dirty' => /\ ~dirty
             /\ \A x \in Data :
                  (\/ x \in Blks(sbHead) \/ Grips(p, x)
                   \/ \E c \in Live : c \notin Live' /\ x \in Blks(At2(c).start))
                    => Kept(x)'

\* Readers have none.
GripFact == \A q \in Procs : CInv /\ ~Writing(q) => Traced(q) /\ \A x : ~Grips(q, x)

LEMMA GripIs == GripFact
<1> SUFFICES ASSUME NEW q \in Procs, CInv, ~Writing(q)
             PROVE  Traced(q) /\ \A x : ~Grips(q, x)
  BY DEF GripFact
<1>1. pr[q].pc \in {"idle", "resolve", "find", "readData", "skip", "readOne"}
  BY DEF Writing, CInv, Running, At
<1> QED
  BY <1>1 DEF Traced, Grips, At, AllocPCs

LEMMA GripIsNext == GripFact'
BY GripIs, PTL

\* The directory and the files that stay.
LEMMA CoverKept ==
  ASSUME IInv, Volume, Effect, NEW x \in Data,
         x \in Blks(1) \/ \E c \in Live : c \in Live' /\ x \in Blks(At2(c).start)
  PROVE  Kept(x)'
<1>1. CASE x \in Blks(1)
  BY <1>1 DEF Effect, Kept, Blks
<1>2. ASSUME NEW c \in Live, c \in Live', x \in Blks(At2(c).start)
      PROVE  Kept(x)'
  <2> DEFINE b == At2(c).start
  <2>1. Stays(c)
    BY <1>2 DEF Effect, SameDir, Shrinks, Grows
  <2>2. Fine(Links, b) /\ Body(Links, b) \subseteq Data
    BY LiveFacts DEF Effect
  <2>3. /\ \A y \in Body(Links, b) : blk'[y] = blk[y]
        /\ At2(c)'.start = b /\ x \in Body(Links, b)
    BY <1>2, <2>1 DEF Stays, Blks
  <2> HIDE DEF b
  <2>4. Body(Links', b) = Body(Links, b)
    BY <2>2, <2>3, Unwritten
  <2> QED
    BY <1>2, <2>3, <2>4 DEF Kept, Blks
<1> QED
  BY <1>1, <1>2

LEMMA LeakStep ==
  ASSUME IInv, CInv, CInv', LInv, NEW p \in Procs, Alone(p), Effect, Keeps(p), Traced(p)',
         NEW l, Now(p, l)
  PROVE  LInv'
<1>1. \A q \in Procs : q # p => ~Writing(q) /\ ~Writing(q)'
  BY AloneNext DEF Alone
<1>2. \A q \in Procs : Traced(q)'
  BY <1>1, GripIsNext DEF GripFact
<1>3. ASSUME ~dirty', NEW x \in Data PROVE Kept(x)'
  <2>1. Kept(x) /\ Volume
    BY <1>3 DEF LInv, Effect, Keeps, CInv
  <2>2. \A q \in Procs : q # p => ~Grips(q, x)
    BY <1>1, GripIs DEF GripFact
  <2>3. \/ x \in Blks(1) \/ \E c \in Live : c \in Live' /\ x \in Blks(At2(c).start)
        \/ x \in Blks(sbHead) \/ Grips(p, x)
        \/ \E c \in Live : c \notin Live' /\ x \in Blks(At2(c).start)
    BY <2>1, <2>2 DEF Kept
  <2> QED
    BY <1>3, <2>1, <2>3, CoverKept DEF Keeps
<1> QED
  BY <1>2, <1>3 DEF LInv

\* A step that leaves the disk and the directory.
LEMMA StillLeak ==
  ASSUME IInv, CInv, CInv', LInv, Still, ~dirty' => ~dirty,
         \A q \in Procs : pr'[q] = pr[q] \/ (~Writing(q) /\ Traced(q)')
  PROVE  LInv'
<1>1. ASSUME NEW q \in Procs, pr'[q] = pr[q] PROVE Traced(q)'
  BY <1>1 DEF LInv, Traced, At, Still
<1>2. ASSUME NEW q \in Procs, NEW x, Grips(q, x) PROVE Grips(q, x)'
  <2>1. pr'[q] = pr[q]
    BY <1>2, GripIs DEF GripFact
  <2> QED
    BY <1>2, <2>1 DEF Grips, Hand, Blks, At, Still
<1>3. ASSUME ~dirty', formatted', NEW x \in Data PROVE Kept(x)'
  <2>1. Kept(x)
    BY <1>3 DEF LInv, Still
  <2>2. \A c : At2(c)' = At2(c)
    BY DEF At2, Still
  <2> QED
    BY <1>2, <2>1, <2>2 DEF Kept, Blks, Still
<1> QED
  BY <1>1, <1>3 DEF LInv

\* A step of the command that changes neither the disk nor what a user sees.
LEMMA KeepsDisk ==
  ASSUME NEW p \in Procs, UNCHANGED disk, Live' = Live,
         ~dirty' => ~dirty /\ \A x \in Data : Grips(p, x) => Kept(x)'
  PROVE  Keeps(p)
<1>1. blk' = blk /\ sbHead' = sbHead /\ Links' = Links
  BY DEF disk, Links
<1> QED
  BY <1>1 DEF Keeps, Kept, Blks

LEMMA MkfsLeak ==
  ASSUME IInv, CInv, CInv', NEW p \in Procs, Alone(p),
         MkfsSuper(p) \/ MkfsRoot(p) \/ MkfsChain(p)
  PROVE  LInv'
<1>1. MkfsPhase(p) /\ pr[p] \in Local
  BY FormatterPhase DEF MkfsSuper, MkfsRoot, MkfsChain, At
<1>2. ASSUME NEW l, Now(p, l), l.pc \in {"idle", "fsSuper", "fsRoot", "fsChain"}
      PROVE  \A q \in Procs : Traced(q)'
  <2>1. \A q \in Procs : q # p => Traced(q)'
    BY <1>2, AloneNext, GripIsNext DEF GripFact
  <2>2. pr'[p] = l
    BY <1>2, AloneNext
  <2> QED
    BY <1>2, <2>1, <2>2 DEF Traced, At
<1>3. ASSUME NEW l, Now(p, l), l.pc \in {"fsSuper", "fsRoot", "fsChain"}
      PROVE  LInv'
  <2>1. pr'[p] = l
    BY <1>3, AloneNext
  <2> QED
    BY <1>2, <1>3, <2>1 DEF LInv, Kept, Grips
<1>4. ASSUME Finish(p, "ok"), formatted', Data \subseteq Body(Links', 1) \cup Body(Links', sbHead')
      PROVE  LInv'
  <2>1. Ended(p, "ok", Vacant, <<>>).pc = "idle"
    BY DEF Ended, Idle
  <2> QED
    BY <1>2, <1>4, <2>1 DEF Finish, LInv, Kept, Blks
<1>5. formatted' => 1 \in Body(Links', 1)
  BY Somewhere DEF CInv, Volume, Vol
<1>6. CASE MkfsSuper(p)
  <2>1. [pr[p] EXCEPT !.pc = "fsRoot"].pc = "fsRoot"
    BY <1>1 DEF Local
  <2> QED
    BY <1>3, <1>6, <2>1 DEF MkfsSuper
<1>7. CASE MkfsRoot(p)
  <2>1. [pr[p] EXCEPT !.pc = "fsChain", !.cur = 2].pc = "fsChain"
    BY <1>1 DEF Local
  <2>2. formatted'
    BY <1>1, <1>7 DEF MkfsRoot, MkfsPhase
  <2>3. ~(NB > 2) => Data = {1}
    BY SizesAssumption DEF Data
  <2> QED
    BY <1>3, <1>4, <1>5, <1>7, <2>1, <2>2, <2>3 DEF MkfsRoot
<1>8. CASE MkfsChain(p)
  <2> DEFINE i == pr[p].cur
  <2>1. /\ i \in 2 .. NB-1 /\ sbHead' = 2 /\ formatted' /\ Blks(2) = 2 .. i
        /\ \A b \in Data : b >= i => blk[b].next = 0
    BY <1>1, <1>8 DEF MkfsChain, MkfsPhase
  <2>2. CASE i < NB-1
    <3>1. [pr[p] EXCEPT !.cur = i+1].pc = "fsChain"
      BY <1>1, <1>8 DEF Local, MkfsChain, At
    <3> QED
      BY <1>3, <1>8, <2>2, <3>1 DEF MkfsChain
  <2>3. CASE ~(i < NB-1)
    <3>1. i = NB-1 /\ i \in Data /\ i \in Blocks /\ blk[i].next = 0
      BY <2>1, <2>3, SizesAssumption DEF Data, Blocks
    <3>2. blk' = [blk EXCEPT ![i] = FreeBlock(0)] /\ FreeBlock(0).next = 0
      BY <1>8, <2>3 DEF MkfsChain, FreeBlock, ZeroBlock
    <3>3. Finish(p, "ok")
      BY <1>8, <2>3 DEF MkfsChain
    <3> HIDE DEF i
    <3>4. Links' = Links
      BY <3>1, <3>2, OneLink
    <3>5. Data \subseteq {1} \cup Body(Links', sbHead')
      BY <2>1, <3>1, <3>4 DEF Data, Blks
    <3> QED
      BY <1>4, <1>5, <2>1, <3>3, <3>5
  <2> QED
    BY <2>2, <2>3
<1> QED
  BY <1>6, <1>7, <1>8

\* No step forgets that blocks were lost.
LEMMA Cleaner ==
  ASSUME NEW p, Fail(p) \/ dirty' = dirty
  PROVE  ~dirty' => ~dirty
BY DEF Fail

\* Steps of the commands that change nothing.
LEMMA ReaderStill ==
  ASSUME IInv, CInv, NEW p \in Procs, ~Writing(p), Step(p)
  PROVE  /\ Still /\ op(p)' = op(p) /\ ~Writing(p)' /\ (~dirty' => ~dirty)
         /\ \A q \in Procs : q # p => pr'[q] = pr[q]
<1>1. PICK l : Now(p, l) /\ l.cmd = pr[p].cmd /\ ~At(p, "idle")
  BY CommandKept
<1>2. op(p) \notin Writes /\ pr[p].pc \in {"resolve", "find", "readData", "skip", "readOne"}
  BY <1>1 DEF Writing, CInv, Running
<1>3. UNCHANGED disk /\ (~dirty' => ~dirty)
  <2>1. Resolve(p) \/ Traverse(p) \/ Find(p) \/ ReadData(p) \/ Skip(p) \/ ReadOne(p)
    BY <1>2
    DEF Step, At, AllocRead, AllocZero, AllocSuper, CopyLink, CopyWrite, DirZero, InsRead,
       InsWrite, InsZero, InsLink, InsNew, RmRead, RmdirCheck, FreeWrite, FreeSuper,
       ClearRead, ClearWrite, MkfsSuper, MkfsRoot, MkfsChain
  <2>2. UNCHANGED disk
    BY <2>1 DEF Resolve, Traverse, Find, ReadData, Skip, ReadOne
  <2>3. Fail(p) \/ dirty' = dirty
    BY <2>1 DEF Resolve, Traverse, Find, ReadData, Skip, ReadOne, Found, Segv, Finish
  <2> QED
    BY <2>2, <2>3, Cleaner
<1>4. pr'[p] = l /\ \A q \in Procs : q # p => pr'[q] = pr[q]
  BY <1>1 DEF Now, IInv, TypeOK
<1>5. ~Writing(p)' /\ op(p)' = op(p)
  BY <1>1, <1>2, <1>4 DEF Writing, op
<1>6. Doomed' = Doomed
  <2>1. ~Removing(p)' /\ ~Removing(p)
    BY <1>2, <1>5 DEF Removing, Writes
  <2>2. \A q \in Procs : q # p => Removing(q)' = Removing(q)
    BY <1>4 DEF Removing, op
  <2> QED
    BY <1>4, <2>1, <2>2 DEF Doomed
<1>7. Still
  BY <1>3, <1>6, StillIs
<1> QED
  BY <1>3, <1>4, <1>5, <1>7

LEMMA ReaderLeak ==
  ASSUME IInv, CInv, CInv', LInv, NEW p \in Procs, ~Writing(p), Step(p)
  PROVE  LInv'
<1>1. /\ Still /\ ~Writing(p)' /\ (~dirty' => ~dirty)
      /\ \A q \in Procs : q # p => pr'[q] = pr[q]
  BY ReaderStill
<1>2. Traced(p)'
  BY <1>1, GripIsNext DEF GripFact
<1> QED
  BY <1>1, <1>2, StillLeak

LEMMA StartLeak ==
  ASSUME IInv, CInv, CInv', LInv, NEW p \in Procs, NEW c \in Menu[p], Start(p, c)
  PROVE  LInv'
<1> DEFINE l == [Idle EXCEPT !.pc = "resolve", !.cmd = c, !.head = sbHead, !.cur = 1]
<1>1. l.pc = "resolve" /\ Now(p, l) /\ UNCHANGED disk /\ At(p, "idle") /\ dirty' = dirty
  BY DEF Start, Idle
<1> HIDE DEF l
<1>2. pr'[p] = l /\ \A q \in Procs : q # p => pr'[q] = pr[q]
  BY <1>1 DEF Now, IInv, TypeOK
<1>3. Doomed' = Doomed
  <2>1. ~Removing(p)' /\ ~Removing(p)
    BY <1>1, <1>2 DEF Removing, At
  <2>2. \A q \in Procs : q # p => Removing(q)' = Removing(q)
    BY <1>2 DEF Removing, op
  <2> QED
    BY <1>2, <2>1, <2>2 DEF Doomed
<1>4. Still /\ ~Writing(p) /\ Traced(p)'
  BY <1>1, <1>2, <1>3, StillIs DEF Traced, Writing, At
<1> QED
  BY <1>1, <1>2, <1>4, StillLeak

LEMMA CrashLeak ==
  ASSUME IInv, CInv, CInv', LInv, NEW p \in Procs, Crash(p)
  PROVE  LInv'
<1>1. dirty' /\ Now(p, Idle) /\ UNCHANGED disk
  BY DEF Crash
<1>2. pr'[p] = Idle /\ \A q \in Procs : q # p => pr'[q] = pr[q]
  BY <1>1 DEF Now, IInv, TypeOK
<1>3. Traced(p)'
  BY <1>2 DEF Traced, At, Idle
<1>4. \A q \in Procs : q # p => Traced(q)'
  BY <1>1, <1>2 DEF Traced, At, LInv, disk
<1> QED
  BY <1>1, <1>3, <1>4 DEF LInv

LEMMA TruncLeak ==
  ASSUME NEW p \in Procs, NEW c \in Menu[p], MkfsTrunc(p, c)
  PROVE  LInv'
<1>1. ~formatted' /\ \A q \in Procs : pr'[q].pc \in {"idle", "fsSuper"}
  BY DEF MkfsTrunc, Idle
<1> QED
  BY <1>1 DEF LInv, Traced, At

\* The command that changes the volume, step by step.
LEMMA GaveUp ==
  ASSUME NEW p, Fail(p), ~dirty'
  PROVE  ~dirty /\ pr[p].first = 0 /\ pr[p].new = 0
BY DEF Fail

LEMMA TracedIf ==
  ASSUME IInv, NEW p \in Procs, Alone(p), NEW l, Now(p, l),
         l.pc \notin {"insRead", "alloc", "rmdirCheck", "rmFree"}
  PROVE  Traced(p)' /\ pr'[p] = l
<1>1. pr'[p] = l
  BY AloneNext
<1> QED
  BY <1>1 DEF Traced, At

LEMMA TracedEnd ==
  ASSUME IInv, NEW p \in Procs, Alone(p), NEW r, NEW e, NEW o, Now(p, Ended(p, r, e, o))
  PROVE  Traced(p)'
<1>1. Ended(p, r, e, o).pc = "idle"
  BY DEF Ended, Idle
<1> QED
  BY <1>1, TracedIf

LEMMA ResolveLeak ==
  ASSUME IInv, CInv, NEW p \in Procs, Alone(p), Writing(p), Resolve(p)
  PROVE  Keeps(p) /\ Traced(p)'
<1>1. At(p, "resolve") /\ UNCHANGED disk /\ pr[p] \in Local
  BY LocalFacts DEF Resolve
<1>2. Live' = Live
  BY ResolveFiles DEF Calm, SameDir
<1>3. ASSUME NEW l, Now(p, l), l.pc \in {"insRead", "alloc"}, l.ent.start = 0
      PROVE  Traced(p)'
  BY <1>3, AloneNext DEF Traced, At
<1>4. ASSUME Fail(p) \/ Segv(p)
      PROVE  Traced(p)'
  BY <1>4, TracedEnd DEF Fail, Segv, Finish
<1>5. ASSUME Now(p, [pr[p] EXCEPT !.pc = IF pr[p].cmd.len = 0 THEN "insRead" ELSE "alloc",
                                  !.rem = pr[p].cmd.len,
                                  !.ent = NewEntry(p, FILE, 0)])
      PROVE  Traced(p)'
  <2> DEFINE l == [pr[p] EXCEPT !.pc = IF pr[p].cmd.len = 0 THEN "insRead" ELSE "alloc",
                                !.rem = pr[p].cmd.len,
                                !.ent = NewEntry(p, FILE, 0)]
  <2>1. l.pc \in {"insRead", "alloc"} /\ l.ent.start = 0
    BY <1>1 DEF Local, NewEntry
  <2>2. Now(p, l)
    BY <1>5
  <2> HIDE DEF l
  <2> QED
    BY <1>3, <2>1, <2>2
<1>6. ASSUME Now(p, [pr[p] EXCEPT !.pc = "alloc",
                                  !.ent = [NewEntry(p, DIR, 0) EXCEPT !.size = 0]])
      PROVE  Traced(p)'
  <2> DEFINE e == [NewEntry(p, DIR, 0) EXCEPT !.size = 0]
             l == [pr[p] EXCEPT !.pc = "alloc", !.ent = e]
  <2>1. e.start = 0
    BY DEF NewEntry
  <2> HIDE DEF e
  <2>2. l.pc = "alloc" /\ l.ent = e /\ Now(p, l)
    BY <1>1, <1>6 DEF Local, e
  <2> HIDE DEF l
  <2> QED
    BY <1>3, <2>1, <2>2
<1>7. ASSUME Now(p, [pr[p] EXCEPT !.pc = "find"])
      PROVE  Traced(p)'
  <2>1. [pr[p] EXCEPT !.pc = "find"].pc = "find"
    BY <1>1 DEF Local
  <2> QED
    BY <1>7, <2>1, TracedIf
<1>8. Traced(p)'
  BY <1>4, <1>5, <1>6, <1>7 DEF Resolve
<1>9. ~dirty' => ~dirty
  <2>1. Fail(p) \/ dirty' = dirty
    BY DEF Resolve, Segv, Finish
  <2> QED
    BY <2>1, Cleaner
<1>10. \A x : ~Grips(p, x)
  BY <1>1 DEF Grips, At, AllocPCs
<1> QED
  BY <1>1, <1>2, <1>8, <1>9, <1>10, KeepsDisk

LEMMA TraverseLeak ==
  ASSUME IInv, CInv, NEW p \in Procs, Alone(p), Writing(p), Traverse(p)
  PROVE  Keeps(p) /\ Traced(p)'
<1>1. At(p, "resolve") /\ UNCHANGED disk /\ pr[p] \in Local
  BY LocalFacts DEF Traverse
<1>2. Live' = Live
  BY TraverseFiles DEF Calm, SameDir
<1>3. ASSUME Fail(p) \/ Segv(p)
      PROVE  Traced(p)'
  BY <1>3, TracedEnd DEF Fail, Segv, Finish
<1>4. ASSUME Now(p, [pr[p] EXCEPT !.cur = blk[pr[p].cur].next])
      PROVE  Traced(p)'
  <2>1. [pr[p] EXCEPT !.cur = blk[pr[p].cur].next].pc = "resolve"
    BY <1>1 DEF Local, At
  <2> QED
    BY <1>4, <2>1, TracedIf
<1>5. Traced(p)'
  BY <1>3, <1>4 DEF Traverse
<1>6. ~dirty' => ~dirty
  <2>1. Fail(p) \/ dirty' = dirty
    BY DEF Traverse, Segv, Finish
  <2> QED
    BY <2>1, Cleaner
<1>7. \A x : ~Grips(p, x)
  BY <1>1 DEF Grips, At, AllocPCs
<1> QED
  BY <1>1, <1>2, <1>5, <1>6, <1>7, KeepsDisk

LEMMA AllocReadLeak ==
  ASSUME IInv, CInv, WInv, LInv, NEW p \in Procs, Alone(p), Writing(p), AllocRead(p)
  PROVE  Keeps(p) /\ Traced(p)'
<1> DEFINE l == [pr[p] EXCEPT !.pc = "allocZero", !.new = pr[p].head,
                              !.head = blk[pr[p].head].next]
<1>1. At(p, "alloc") /\ UNCHANGED disk /\ pr[p] \in Local /\ Traced(p)
  BY LocalFacts DEF AllocRead, LInv
<1>2. Live' = Live /\ Links' = Links
  BY <1>1, AllocReadFiles DEF Calm, SameDir, disk, Links
<1>3. CASE Fail(p)
  <2>1. ASSUME ~dirty', NEW x PROVE ~Grips(p, x)
    <3>1. pr[p].first = 0 /\ pr[p].new = 0
      BY <1>3, <2>1, GaveUp
    <3>2. Hand(p) = 0
      BY <1>1, <3>1 DEF Traced, Hand
    <3> QED
      BY <1>1, <3>2, Nowhere DEF Grips, At, AllocPCs, Blks
  <2> QED
    BY <1>1, <1>2, <1>3, <2>1, TracedEnd, GaveUp, KeepsDisk DEF Fail
<1>4. CASE Now(p, l) /\ dirty' = dirty
  <2>1. l.pc = "allocZero" /\ l.idx = pr[p].idx /\ l.first = pr[p].first /\ l.ent = pr[p].ent
    BY <1>1 DEF Local
  <2> HIDE DEF l
  <2>2. Traced(p)' /\ pr'[p] = l
    BY <1>4, <2>1, TracedIf
  <2>3. \A x : Grips(p, x) => Grips(p, x)'
    BY <1>1, <1>2, <2>1, <2>2 DEF Grips, At, AllocPCs, Hand, Blks
  <2> QED
    BY <1>1, <1>2, <1>4, <2>2, <2>3, KeepsDisk DEF Kept
<1> QED
  BY <1>3, <1>4 DEF AllocRead

LEMMA InsReadLeak ==
  ASSUME IInv, CInv, WInv, LInv, NEW p \in Procs, Alone(p), Writing(p), InsRead(p)
  PROVE  Keeps(p) /\ Traced(p)'
<1> DEFINE b == blk[pr[p].cur]
<1>1. /\ At(p, "insRead") /\ Phase(p) /\ UNCHANGED disk /\ pr[p] \in Local /\ Traced(p)
      /\ Volume
  BY WriterPhase DEF InsRead, LInv, At
<1>2. Live' = Live /\ Links' = Links
  BY <1>1, InsReadFiles DEF Calm, SameDir, disk, Links
<1>3. Readable(pr[p].cur) /\ pr[p].idx = 0
  BY <1>1, LinkFacts DEF Phase, AtInsRead, Volume, Vol, Blks, Readable
<1>4. ASSUME NEW l, Now(p, l), l.pc \in {"insRead", "insWrite", "alloc"}, l.ent = pr[p].ent,
             l.first = pr[p].first, l.new = pr[p].new, l.pc = "alloc" => l.idx = 1
      PROVE  Traced(p)' /\ \A x : Grips(p, x) => Grips(p, x)'
  <2>1. pr'[p] = l
    BY <1>4, AloneNext
  <2> QED
    BY <1>1, <1>2, <1>4, <2>1 DEF Traced, Grips, At, AllocPCs, Hand, Blks
<1>5. ASSUME NEW s \in Slots,
             Now(p, [pr[p] EXCEPT !.pc = "insWrite", !.idx = s,
                                  !.buf = PutEntry(b, s, pr[p].ent)])
      PROVE  Traced(p)' /\ \A x : Grips(p, x) => Grips(p, x)'
  <2> DEFINE l == [pr[p] EXCEPT !.pc = "insWrite", !.idx = s,
                                !.buf = PutEntry(b, s, pr[p].ent)]
  <2>1. /\ l.pc = "insWrite" /\ l.ent = pr[p].ent /\ l.first = pr[p].first
        /\ l.new = pr[p].new
    BY <1>1 DEF Local
  <2> HIDE DEF l
  <2> QED
    BY <1>4, <1>5, <2>1 DEF l
<1>6. ASSUME Now(p, [pr[p] EXCEPT !.pc = "alloc", !.idx = 1, !.buf = b])
      PROVE  Traced(p)' /\ \A x : Grips(p, x) => Grips(p, x)'
  <2> DEFINE l == [pr[p] EXCEPT !.pc = "alloc", !.idx = 1, !.buf = b]
  <2>1. /\ l.pc = "alloc" /\ l.ent = pr[p].ent /\ l.first = pr[p].first
        /\ l.new = pr[p].new /\ l.idx = 1
    BY <1>1 DEF Local
  <2> HIDE DEF l
  <2> QED
    BY <1>4, <1>6, <2>1 DEF l
<1>7. ASSUME Now(p, [pr[p] EXCEPT !.cur = b.next])
      PROVE  Traced(p)' /\ \A x : Grips(p, x) => Grips(p, x)'
  <2> DEFINE l == [pr[p] EXCEPT !.cur = b.next]
  <2>1. /\ l.pc = "insRead" /\ l.ent = pr[p].ent /\ l.first = pr[p].first
        /\ l.new = pr[p].new
    BY <1>1 DEF Local, At
  <2> HIDE DEF l
  <2> QED
    BY <1>4, <1>7, <2>1 DEF l
<1>8. Traced(p)' /\ \A x : Grips(p, x) => Grips(p, x)'
  BY <1>3, <1>5, <1>6, <1>7 DEF InsRead
<1>9. dirty' = dirty
  BY <1>3 DEF InsRead
<1> QED
  BY <1>1, <1>2, <1>8, <1>9, KeepsDisk DEF Kept

LEMMA InsertLeak ==
  ASSUME IInv, Volume, formatted, NEW p \in Procs, Labelled(p), ToInsert(p),
         NEW x \in Blks(1), NEW s \in Slots,
         blk' = [blk EXCEPT ![x] = PutEntry(blk[x], s, pr[p].ent)],
         UNCHANGED <<sbHead, formatted, dirty>>, Doomed = {}, Doomed' = {},
         pr[p].pc \in {"insWrite", "insNew"}
  PROVE  Keeps(p)
<1> DEFINE e == pr[p].ent
           c == <<x, s>>
<1>1. Held(e.start) /\ Used(e) /\ (e.type = DIR => e.start # 0)
  BY NamesAssumption DEF Labelled, Named, Used, ToInsert
<1>2. /\ Links' = Links /\ Live' = Live \cup {c}
      /\ \A d \in Live' : At2(d)' = IF d = c THEN e ELSE At2(d)
  BY <1>1, InsertAt
<1>3. \A y : Grips(p, y) => y \in Blks(e.start)
  BY DEF Grips, At, AllocPCs
<1> HIDE DEF e
<1>4. At2(c)' = e /\ c \in Live'
  BY <1>2
<1>5. \A y : Grips(p, y) \/ y \in Blks(sbHead) => Kept(y)'
  BY <1>2, <1>3, <1>4 DEF Kept, Blks
<1> QED
  BY <1>2, <1>5 DEF Keeps

LEMMA InsWriteLeak ==
  ASSUME IInv, CInv, WInv, NEW p \in Procs, Alone(p), Writing(p), InsWrite(p)
  PROVE  Keeps(p) /\ Traced(p)'
<1>1. /\ At(p, "insWrite") /\ Phase(p) /\ formatted /\ Volume /\ WPhase(p)
      /\ ~Removing(p) /\ UNCHANGED <<sbHead, formatted, dirty>> /\ Finish(p, "ok")
  BY WriterPhase DEF InsWrite, At, Removing, WInv, Finish
<1>2. AtInsWrite(p) /\ Labelled(p)
  BY <1>1 DEF Phase, WPhase, AddPCs, InsPCs, At
<1>3. At(p, "idle")' /\ Traced(p)'
  <2>1. Ended(p, "ok", Vacant, <<>>).pc = "idle"
    BY DEF Ended, Idle
  <2> QED
    BY <1>1, <2>1, TracedIf DEF At, Finish
<1>4. Doomed = {} /\ Doomed' = {}
  BY <1>1, <1>3, AloneNext DEF DoomedBy, Finish, Removing, At
<1> QED
  BY <1>1, <1>2, <1>3, <1>4, InsertLeak DEF AtInsWrite, InsWrite, At

LEMMA InsNewLeak ==
  ASSUME IInv, CInv, WInv, NEW p \in Procs, Alone(p), Writing(p), InsNew(p)
  PROVE  Keeps(p) /\ Traced(p)'
<1>1. /\ At(p, "insNew") /\ Phase(p) /\ formatted /\ Volume /\ WPhase(p)
      /\ ~Removing(p) /\ UNCHANGED <<sbHead, formatted, dirty>> /\ Finish(p, "ok")
  BY WriterPhase DEF InsNew, At, Removing, WInv, Finish
<1>2. AtInsNew(p) /\ Labelled(p)
  BY <1>1 DEF Phase, WPhase, AddPCs, InsPCs, At
<1>3. At(p, "idle")' /\ Traced(p)'
  <2>1. Ended(p, "ok", Vacant, <<>>).pc = "idle"
    BY DEF Ended, Idle
  <2> QED
    BY <1>1, <2>1, TracedIf DEF At, Finish
<1>4. Doomed = {} /\ Doomed' = {}
  BY <1>1, <1>3, AloneNext DEF DoomedBy, Finish, Removing, At
<1>5. 1 \in Slots
  BY SizesAssumption DEF Slots
<1>6. blk' = [blk EXCEPT ![pr[p].new] = PutEntry(blk[pr[p].new], 1, pr[p].ent)]
  BY <1>2 DEF AtInsNew, InsNew
<1> QED
  BY <1>1, <1>2, <1>3, <1>4, <1>5, <1>6, InsertLeak DEF AtInsNew, At

LEMMA InsZeroLeak ==
  ASSUME IInv, CInv, WInv, NEW p \in Procs, Alone(p), Writing(p), InsZero(p)
  PROVE  Keeps(p) /\ Traced(p)'
<1> DEFINE l == [pr[p] EXCEPT !.pc = "insLink"]
<1>1. At(p, "insZero") /\ Phase(p) /\ pr[p] \in Local /\ UNCHANGED <<sbHead, formatted, dirty>>
  BY WriterPhase DEF InsZero, At
<1>2. Now(p, l) /\ blk' = blk
  BY <1>1, ZeroAgain DEF Phase, AtInsLink, Spare, InsZero
<1>3. l.pc = "insLink" /\ l.new = pr[p].new /\ Hand(p) = (IF l.idx = 0 THEN l.first ELSE l.ent.start)
  BY <1>1 DEF Local, Hand
<1> HIDE DEF l
<1>4. Traced(p)' /\ pr'[p] = l
  BY <1>2, <1>3, TracedIf
<1>5. Hand(p)' = Hand(p) /\ Links' = Links /\ UNCHANGED disk
  BY <1>1, <1>2, <1>3, <1>4 DEF Hand, Links, disk
<1>6. \A x : Grips(p, x) => Grips(p, x)'
  BY <1>1, <1>3, <1>4, <1>5 DEF Grips, At, Blks
<1>7. Live' = Live
  BY InsZeroFiles DEF Calm, SameDir
<1> QED
  BY <1>1, <1>4, <1>5, <1>6, <1>7, KeepsDisk DEF Kept

LEMMA DirZeroLeak ==
  ASSUME IInv, CInv, WInv, NEW p \in Procs, Alone(p), Writing(p), DirZero(p)
  PROVE  Keeps(p) /\ Traced(p)'
<1> DEFINE d == pr[p].new
           l == [pr[p] EXCEPT !.pc = "insRead", !.ent.start = d]
<1>1. /\ At(p, "dirZero") /\ Phase(p) /\ pr[p] \in Local
      /\ UNCHANGED <<sbHead, formatted, dirty>>
  BY WriterPhase DEF DirZero, At
<1>2. d \in Data /\ blk[d] = ZeroBlock /\ Hand(p) = 0
  BY <1>1 DEF Phase, AtDirZero, Spare, Building, Hand
<1>3. Now(p, l) /\ blk' = blk
  BY <1>2, ZeroAgain DEF DirZero
<1>4. l.pc = "insRead" /\ l.new = d /\ l.ent.start = d
  BY <1>1 DEF Local, Entry
<1> HIDE DEF l
<1>5. pr'[p] = l /\ Links' = Links /\ UNCHANGED disk
  BY <1>1, <1>3, AloneNext DEF Links, disk
<1>6. Traced(p)'
  BY <1>2, <1>4, <1>5, LinkFacts DEF Traced, At
<1>7. Blks(Hand(p)) = {} /\ d \in Body(Links', d)
  BY <1>2, <1>5, OneBlock, Nowhere DEF Blks
<1>8. \A x : Grips(p, x) => Grips(p, x)'
  BY <1>1, <1>4, <1>5, <1>7 DEF Grips, At, Blks, AllocPCs
<1>9. Live' = Live
  BY DirZeroFiles DEF Calm, SameDir
<1> QED
  BY <1>1, <1>5, <1>6, <1>8, <1>9, KeepsDisk DEF Kept

LEMMA AllocZeroLeak ==
  ASSUME IInv, CInv, WInv, NEW p \in Procs, Alone(p), Writing(p), AllocZero(p)
  PROVE  Keeps(p) /\ Traced(p)'
<1> DEFINE l == [pr[p] EXCEPT !.pc = "allocSuper"]
           f == sbHead
           m == Hand(p)
           g == Links
           h == Links'
<1>1. /\ At(p, "allocZero") /\ Phase(p) /\ Volume /\ pr[p] \in Local
      /\ UNCHANGED <<sbHead, formatted, dirty>>
  BY WriterPhase DEF AllocZero, At
<1>2. /\ Wanting(p) /\ f \in Data /\ blk' = [blk EXCEPT ![f] = ZeroBlock]
      /\ pr[p].head = g[f] /\ Fine(g, f)
  BY <1>1, LinkFacts DEF Phase, AtAllocZero, AllocZero, Volume, Vol
<1>3. l.pc = "allocSuper" /\ l.head = g[f] /\ m = (IF l.idx = 0 THEN l.first ELSE l.ent.start)
  BY <1>1, <1>2 DEF Local, Hand
<1>4. Now(p, l)
  BY DEF AllocZero
<1> HIDE DEF l
<1>5. Traced(p)' /\ pr'[p] = l
  BY <1>3, <1>4, TracedIf
<1>6. Fine(g, m) /\ f \in Body(g, f) /\ f \notin Body(g, m) /\ Body(g, m) \subseteq Data
  BY <1>2, Somewhere, WantingHeld, LinkFacts DEF Held, Mine, Off
<1>7. h[f] = 0 /\ \A y \in 1 .. NB : y # f => Succ(h, y) = Succ(g, y)
  <2> HIDE DEF f
  <2>1. f \in Blocks /\ ZeroBlock.next = 0
    BY <1>2, LinkFacts DEF ZeroBlock
  <2> QED
    BY <1>2, <2>1, OneLink
<1>8. Body(h, f) = {f} /\ Body(h, m) = Body(g, m)
      /\ Body(g, f) = {f} \cup Body(h, g[f])
  <2> HIDE DEF f, g, h, m
  <2>1. Body(h, f) = {f}
    BY <1>2, <1>7, Push, Nowhere
  <2>2. Body(g, f) = {f} \cup Body(g, g[f]) /\ Fine(g, g[f]) /\ f \notin Body(g, g[f])
    BY <1>2, Pop
  <2>3. \A b : Fine(g, b) /\ f \notin Body(g, b) => Body(h, b) = Body(g, b)
    BY <1>7, FineIs, Frame
  <2> QED
    BY <1>6, <2>1, <2>2, <2>3
<1>9. Live' = Live
  BY AllocZeroFiles DEF Calm, SameDir
<1>10. Hand(p)' = m
  BY <1>3, <1>5 DEF Hand
<1>11. \A x : Grips(p, x) => x \in Body(g, m)
  BY <1>1 DEF Grips, At, Blks
<1>12. \A x : x \in Body(h, m) \cup Body(h, g[f]) => Grips(p, x)'
  BY <1>3, <1>5, <1>10 DEF Grips, At, Blks, AllocPCs
<1>13. \A x : Grips(p, x) \/ x \in Blks(sbHead) => Kept(x)'
  BY <1>1, <1>8, <1>11, <1>12 DEF Kept, Blks
<1> QED
  BY <1>1, <1>5, <1>9, <1>13 DEF Keeps

LEMMA AllocSuperLeak ==
  ASSUME IInv, CInv, WInv, NEW p \in Procs, Alone(p), Writing(p), AllocSuper(p)
  PROVE  Keeps(p) /\ Traced(p)'
<1> DEFINE data == AfterAlloc(p) = "write"
           d == pr[p].new
           l == [pr[p] EXCEPT !.pc = AfterAlloc(p),
                              !.first = IF data THEN d ELSE pr[p].first,
                              !.cur = IF data THEN d ELSE pr[p].cur]
<1>1. /\ At(p, "allocSuper") /\ Phase(p) /\ pr[p] \in Local
      /\ UNCHANGED <<blk, formatted, dirty>> /\ sbHead' = pr[p].head
  BY WriterPhase DEF AllocSuper, At
<1>2. d \in Data /\ blk[d] = ZeroBlock /\ sbHead = d /\ Links' = Links
  BY <1>1 DEF Phase, AtAllocSuper, Links
<1>3. Body(Links, d) = {d}
  BY <1>2, OneBlock
<1>4. /\ l.pc = AfterAlloc(p) /\ l.ent = pr[p].ent /\ l.idx = pr[p].idx /\ l.new = d
      /\ l.first = IF data THEN d ELSE pr[p].first
  BY <1>1 DEF Local
<1>5. Now(p, l)
  BY DEF AllocSuper
<1> HIDE DEF l
<1>6. AfterAlloc(p) \in {"insZero", "dirZero", "write", "link"}
  BY DEF AfterAlloc
<1>7. Traced(p)' /\ pr'[p] = l
  BY <1>4, <1>5, <1>6, TracedIf
<1>8. Live' = Live
  BY AllocSuperFiles DEF Calm, SameDir
<1>9. \A x : Grips(p, x) => x \in Blks(Hand(p)) \cup Blks(pr[p].head)
  BY <1>1 DEF Grips, At
<1>10. ASSUME NEW x, x \in Blks(Hand(p)) \cup {d} PROVE Grips(p, x)'
  <2>1. CASE ~data
    <3>1. Hand(p)' = Hand(p) /\ l.pc \in {"insZero", "dirZero", "link"}
      BY <1>4, <1>6, <1>7, <2>1 DEF Hand
    <3> QED
      BY <1>2, <1>4, <1>7, <1>10, <3>1 DEF Grips, At, Blks, AllocPCs
  <2>2. CASE data
    <3>1. Hand(p) = 0
      BY <2>2 DEF AfterAlloc, Hand
    <3>2. x = d /\ x \in Body(Links', d)
      BY <1>2, <1>3, <1>10, <3>1, Nowhere DEF Blks
    <3> QED
      BY <1>4, <1>7, <2>2, <3>2 DEF Grips, At, Blks
  <2> QED
    BY <2>1, <2>2
<1>11. \A x : Grips(p, x) \/ x \in Blks(sbHead) => Kept(x)'
  BY <1>1, <1>2, <1>3, <1>9, <1>10 DEF Kept, Blks
<1> QED
  BY <1>1, <1>7, <1>8, <1>11 DEF Keeps

LEMMA CopyLinkLeak ==
  ASSUME IInv, CInv, WInv, NEW p \in Procs, Alone(p), Writing(p), CopyLink(p)
  PROVE  Keeps(p) /\ Traced(p)'
<1> DEFINE x == pr[p].cur
           d == pr[p].new
           m == pr[p].first
           f == sbHead
           g == Links
           h == Links'
           B == [pr[p].buf EXCEPT !.next = d]
           l == [pr[p] EXCEPT !.pc = "write", !.cur = d]
<1>1. /\ At(p, "link") /\ Phase(p) /\ Volume /\ pr[p] \in Local
      /\ UNCHANGED <<sbHead, formatted, dirty>>
  BY WriterPhase DEF CopyLink, At
<1>2. /\ pr[p].idx = 0 /\ Held(m) /\ x \in Body(g, m) /\ x \in Data /\ blk[x].next = 0
      /\ d \in Data /\ blk[d] = ZeroBlock /\ d \notin Body(g, m)
  BY <1>1 DEF Phase, AtLink, Building, Spare, Hand, Last, Blks
<1>3. l.pc = "write" /\ l.first = m
  BY <1>1 DEF Local
<1>4. Now(p, l) /\ blk' = [blk EXCEPT ![x] = B] /\ B.next = d
  BY <1>1 DEF CopyLink, Local, Block
<1> HIDE DEF l, B
<1>5. Traced(p)' /\ pr'[p] = l
  BY <1>3, <1>4, TracedIf
<1>6. /\ Succ(g, x) = 0 /\ Succ(h, x) = d /\ Succ(g, d) = 0
      /\ \A y \in 1 .. NB : y # x => Succ(h, y) = Succ(g, y)
  <2>1. Succ(g, x) = 0 /\ Succ(g, d) = 0 /\ x \in Blocks
    BY <1>2, LinkFacts DEF ZeroBlock
  <2> HIDE DEF x
  <2> QED
    BY <1>2, <1>4, <2>1, OneLink
<1>7. Fine(g, m) /\ Fine(g, f) /\ x \notin Body(g, f)
  BY <1>1, <1>2 DEF Held, Mine, Off, Volume, Vol
<1>8. Body(h, m) = Body(g, m) \cup {d} /\ Body(h, f) = Body(g, f)
  <2>1. d # x /\ d \in 1 .. NB
    BY <1>2, LinkFacts
  <2> HIDE DEF f, g, h, m, x, d
  <2>2. Succ(h, d) = 0 /\ \A y \in Body(g, m) : y # x => Succ(h, y) = Succ(g, y)
    BY <1>6, <1>7, <2>1, FineIs
  <2>3. Body(h, m) = Body(g, m) \cup {d}
    BY <1>2, <1>6, <1>7, <2>2, Extend
  <2>4. \A y \in Body(g, f) : Succ(h, y) = Succ(g, y)
    BY <1>6, <1>7, FineIs
  <2> QED
    BY <1>7, <2>3, <2>4, Frame
<1>9. Live' = Live
  BY CopyLinkFiles DEF Calm, SameDir
<1>10. \A y : Grips(p, y) => y \in Body(g, m) \cup {d}
  BY <1>1, <1>2 DEF Grips, At, Blks, Hand, AllocPCs
<1>11. \A y : y \in Body(h, m) => Grips(p, y)'
  BY <1>3, <1>5 DEF Grips, At, Blks
<1>12. \A y : Grips(p, y) \/ y \in Blks(sbHead) => Kept(y)'
  BY <1>1, <1>8, <1>10, <1>11 DEF Kept, Blks
<1> QED
  BY <1>1, <1>5, <1>9, <1>12 DEF Keeps

LEMMA CopyWriteLeak ==
  ASSUME IInv, CInv, WInv, NEW p \in Procs, Alone(p), Writing(p), CopyWrite(p)
  PROVE  Keeps(p) /\ Traced(p)'
<1> DEFINE m == pr[p].first
           x == pr[p].cur
           B == [ZeroBlock EXCEPT !.data = [c |-> pr[p].cmd.c,
                                            k |-> pr[p].cmd.len - pr[p].rem + 1]]
           last == pr[p].rem = 1
           l == [pr[p] EXCEPT !.pc = IF last THEN "insRead" ELSE "alloc",
                              !.rem = pr[p].rem - 1,
                              !.buf = IF last THEN ZeroBlock ELSE B,
                              !.cur = IF last THEN 1 ELSE x,
                              !.ent.start = m]
<1>1. /\ At(p, "write") /\ Phase(p) /\ Volume /\ formatted /\ pr[p] \in Local
      /\ UNCHANGED <<sbHead, formatted, dirty>>
  BY WriterPhase DEF CopyWrite, At
<1>2. /\ pr[p].idx = 0 /\ Held(m) /\ x \in Blks(m) /\ x \in Data /\ blk[x].next = 0
  BY <1>1 DEF Phase, AtWrite, Last
<1>3. /\ l.pc = (IF last THEN "insRead" ELSE "alloc") /\ l.first = m /\ l.idx = 0
      /\ l.ent.start = m
  BY <1>1, <1>2 DEF Local, Entry
<1>4. Now(p, l) /\ blk' = [blk EXCEPT ![x] = B] /\ B.next = 0
  BY DEF CopyWrite, ZeroBlock
<1> HIDE DEF l, B
<1>5. pr'[p] = l
  BY <1>4, AloneNext
<1>6. Links' = Links
  <2>1. x \in Blocks
    BY <1>2, LinkFacts
  <2> HIDE DEF x
  <2> QED
    BY <1>2, <1>4, <2>1, OneLink
<1>7. Traced(p)'
  BY <1>3, <1>5 DEF Traced, At
<1>8. Live' = Live
  BY CopyWriteFiles DEF Calm, SameDir
<1>9. \A y : Grips(p, y) => y \in Blks(m)
  BY <1>1, <1>2 DEF Grips, At, AllocPCs
<1>10. \A y : y \in Blks(m) => Grips(p, y)'
  BY <1>3, <1>5, <1>6 DEF Grips, At, Blks, Hand, AllocPCs
<1>11. \A y : Grips(p, y) \/ y \in Blks(sbHead) => Kept(y)'
  BY <1>1, <1>6, <1>9, <1>10 DEF Kept, Blks
<1> QED
  BY <1>1, <1>7, <1>8, <1>11 DEF Keeps

LEMMA InsLinkLeak ==
  ASSUME IInv, CInv, WInv, NEW p \in Procs, Alone(p), Writing(p), InsLink(p)
  PROVE  Keeps(p) /\ Traced(p)'
<1> DEFINE x == pr[p].cur
           d == pr[p].new
           m == pr[p].ent.start
           f == sbHead
           g == Links
           h == Links'
           B == [pr[p].buf EXCEPT !.next = d]
           l == [pr[p] EXCEPT !.pc = "insNew"]
<1>1. /\ At(p, "insLink") /\ Phase(p) /\ Volume /\ pr[p] \in Local
      /\ UNCHANGED <<sbHead, formatted, dirty>>
  BY WriterPhase DEF InsLink, At
<1>2. /\ x \in Body(g, 1) /\ x \in Data /\ blk[x].next = 0 /\ Held(m) /\ Hand(p) = m
      /\ d \in Data /\ blk[d] = ZeroBlock /\ Off(g, f, Live, Starts, {d})
  BY <1>1 DEF Phase, AtInsLink, Growing, ToInsert, Spare, Apart, Hand, Last, Blks
<1>3. l.pc = "insNew" /\ l.ent.start = m
  BY <1>1 DEF Local
<1>4. Now(p, l) /\ blk' = [blk EXCEPT ![x] = B] /\ B.next = d
  BY <1>1 DEF InsLink, Local, Block
<1> HIDE DEF l, B
<1>5. Traced(p)' /\ pr'[p] = l
  BY <1>3, <1>4, TracedIf
<1>6. /\ Succ(g, x) = 0 /\ Succ(h, x) = d /\ Succ(g, d) = 0
      /\ \A y \in 1 .. NB : y # x => Succ(h, y) = Succ(g, y)
  <2>1. Succ(g, x) = 0 /\ Succ(g, d) = 0 /\ x \in Blocks
    BY <1>2, LinkFacts DEF ZeroBlock
  <2> HIDE DEF x
  <2> QED
    BY <1>2, <1>4, <2>1, OneLink
<1>7. Fine(g, 1) /\ d \notin Body(g, 1) /\ Fine(g, m) /\ Fine(g, f) /\ x \notin Body(g, f) /\ x \notin Body(g, m)
  BY <1>1, <1>2 DEF Held, Mine, Off, Volume, Vol
<1>8. Body(h, 1) = Body(g, 1) \cup {d} /\ Body(h, f) = Body(g, f) /\ Body(h, m) = Body(g, m)
  <2> HIDE DEF f, g, h, m, x, d
  <2>1. d # x /\ d \in 1 .. NB
    BY <1>2, <1>7, LinkFacts
  <2>2. Succ(h, d) = 0 /\ \A y \in Body(g, 1) : y # x => Succ(h, y) = Succ(g, y)
    BY <1>6, <1>7, <2>1, FineIs
  <2>3. Body(h, 1) = Body(g, 1) \cup {d}
    BY <1>2, <1>6, <1>7, <2>2, Extend
  <2>4. \A b : Fine(g, b) /\ x \notin Body(g, b) => Body(h, b) = Body(g, b)
    BY <1>6, FineIs, Frame
  <2> QED
    BY <1>7, <2>3, <2>4
<1>9. Live' = Live
  BY InsLinkFiles DEF Calm, SameDir
<1>10. \A y : Grips(p, y) => y \in Body(g, m) \cup {d}
  BY <1>1, <1>2 DEF Grips, At, Blks, AllocPCs
<1>11. \A y : y \in Body(h, m) => Grips(p, y)'
  BY <1>3, <1>5 DEF Grips, At, Blks
<1>12. \A y : Grips(p, y) \/ y \in Blks(sbHead) => Kept(y)'
  BY <1>1, <1>8, <1>10, <1>11 DEF Kept, Blks
<1> QED
  BY <1>1, <1>5, <1>9, <1>12 DEF Keeps

LEMMA RmReadLeak ==
  ASSUME IInv, CInv, NEW p \in Procs, Alone(p), Writing(p), RmRead(p)
  PROVE  Keeps(p) /\ Traced(p)'
<1> DEFINE x == pr[p].cur
           l == [pr[p] EXCEPT !.pc = "rmFree", !.nxt = blk[x].next]
<1>1. At(p, "rmRead") /\ Phase(p) /\ pr[p] \in Local /\ UNCHANGED disk /\ dirty' = dirty
  BY WriterPhase DEF RmRead, At
<1>2. Fine(Links, x) /\ Body(Links, x) \subseteq Data /\ x # 0
  BY <1>1 DEF Phase, AtRmRead, Held, Mine
<1>3. x \in Blocks
  BY <1>2, Somewhere, LinkFacts
<1>4. Now(p, l)
  BY <1>3 DEF RmRead, Readable
<1>5. l.pc = "rmFree" /\ l.cur = x /\ l.nxt = blk[x].next
  BY <1>1 DEF Local
<1> HIDE DEF l
<1>6. pr'[p] = l /\ blk' = blk /\ Links' = Links
  BY <1>1, <1>4, AloneNext DEF disk, Links
<1>7. Traced(p)'
  BY <1>5, <1>6 DEF Traced, At
<1>8. \A y : Grips(p, y) => Grips(p, y)'
  BY <1>1, <1>5, <1>6 DEF Grips, At, Blks, AllocPCs
<1>9. Live' = Live
  BY RmReadFiles DEF Calm, SameDir
<1> QED
  BY <1>1, <1>7, <1>8, <1>9, KeepsDisk DEF Kept

\* The freed block stays in the hand of the command until the superblock points
\* to it.
LEMMA FreeWriteLeak ==
  ASSUME IInv, CInv, LInv, NEW p \in Procs, Alone(p), Writing(p), FreeWrite(p)
  PROVE  Keeps(p) /\ Traced(p)'
<1> DEFINE x == pr[p].cur
           m == pr[p].nxt
           f == sbHead
           g == Links
           h == Links'
           B == FreeBlock(pr[p].head)
           l == [pr[p] EXCEPT !.pc = "rmSuper", !.head = x]
<1>1. /\ At(p, "rmFree") /\ Phase(p) /\ Volume /\ pr[p] \in Local /\ Traced(p)
      /\ UNCHANGED <<sbHead, formatted, dirty>>
  BY WriterPhase DEF FreeWrite, At, LInv
<1>2. Fine(g, x) /\ Body(g, x) \subseteq Data /\ x # 0 /\ Body(g, x) \cap Body(g, f) = {}
  BY <1>1 DEF Phase, AtRmFree, AtRmRead, Held, Mine, Off
<1>3. x \in Data /\ x \in Body(g, x) /\ m = g[x] /\ x \in Blocks
  <2>1. x \in Data /\ x \in Body(g, x)
    BY <1>2, Somewhere
  <2> QED
    BY <1>1, <2>1, LinkFacts DEF Traced
<1>4. l.pc = "rmSuper" /\ l.cur = x /\ l.nxt = m
  BY <1>1 DEF Local
<1>5. Now(p, l) /\ blk' = [blk EXCEPT ![x] = B]
  BY DEF FreeWrite
<1> HIDE DEF l, B
<1>6. Traced(p)' /\ pr'[p] = l
  BY <1>4, <1>5, TracedIf
<1>7. \A y \in 1 .. NB : y # x => Succ(h, y) = Succ(g, y)
  <2> HIDE DEF x
  <2> QED
    BY <1>3, <1>5, OneLink
<1>8. Body(h, m) = Body(g, m) /\ Body(h, f) = Body(g, f) /\ Body(g, x) = {x} \cup Body(g, m)
  <2>1. Fine(g, f)
    BY <1>1 DEF Volume, Vol
  <2> HIDE DEF f, g, h, m, x
  <2>2. Fine(g, m) /\ x \notin Body(g, m) /\ Body(g, x) = {x} \cup Body(g, m)
    BY <1>2, <1>3, Pop
  <2>3. \A b : Fine(g, b) /\ x \notin Body(g, b) => Body(h, b) = Body(g, b)
    BY <1>7, FineIs, Frame
  <2> QED
    BY <1>2, <1>3, <2>1, <2>2, <2>3
<1>9. Live' = Live
  BY FreeWriteFiles DEF Calm, SameDir
<1>10. \A y : Grips(p, y) => y \in Body(g, x)
  BY <1>1 DEF Grips, At, Blks, AllocPCs
<1>11. \A y : y = x \/ y \in Body(h, m) => Grips(p, y)'
  BY <1>4, <1>6 DEF Grips, At, Blks
<1>12. \A y : Grips(p, y) \/ y \in Blks(sbHead) => Kept(y)'
  BY <1>1, <1>8, <1>10, <1>11 DEF Kept, Blks
<1> QED
  BY <1>1, <1>6, <1>9, <1>12 DEF Keeps

LEMMA FreeSuperLeak ==
  ASSUME IInv, CInv, NEW p \in Procs, Alone(p), Writing(p), FreeSuper(p)
  PROVE  Keeps(p) /\ Traced(p)'
<1> DEFINE x == pr[p].cur
           m == pr[p].nxt
           l == [pr[p] EXCEPT !.pc = IF m = 0 THEN "clrRead" ELSE "rmRead",
                              !.cur = m, !.nxt = 0]
<1>1. /\ At(p, "rmSuper") /\ Phase(p) /\ Volume /\ pr[p] \in Local
      /\ UNCHANGED <<blk, formatted, dirty>>
  BY WriterPhase DEF FreeSuper, At
<1>2. /\ x \in Data /\ Links[x] = sbHead /\ x \notin Body(Links, sbHead) /\ sbHead' = x
      /\ Fine(Links, sbHead) /\ Links' = Links
  <2>1. AtRmSuper(p) /\ sbHead' = pr[p].head
    BY <1>1 DEF Phase, FreeSuper
  <2> QED
    BY <1>1, <2>1, LinkFacts DEF AtRmSuper, Apart, Off, Volume, Vol, Links
<1>3. l.pc = (IF m = 0 THEN "clrRead" ELSE "rmRead") /\ l.cur = m
  BY <1>1 DEF Local
<1>4. Now(p, l)
  BY DEF FreeSuper
<1> HIDE DEF l
<1>5. Traced(p)' /\ pr'[p] = l
  BY <1>3, <1>4, TracedIf
<1>6. Body(Links, x) = {x} \cup Body(Links, sbHead)
  <2> HIDE DEF x
  <2> QED
    BY <1>2, Push
<1>7. Live' = Live
  BY FreeSuperFiles DEF Calm, SameDir
<1>8. \A y : Grips(p, y) => y = x \/ y \in Body(Links, m)
  BY <1>1 DEF Grips, At, Blks, AllocPCs
<1>9. \A y : y \in Body(Links, m) => Grips(p, y)'
  BY <1>2, <1>3, <1>5, Nowhere DEF Grips, At, Blks
<1>10. \A y : Grips(p, y) \/ y \in Blks(sbHead) => Kept(y)'
  BY <1>2, <1>6, <1>8, <1>9 DEF Kept, Blks
<1> QED
  BY <1>1, <1>5, <1>7, <1>10 DEF Keeps

LEMMA ClearReadLeak ==
  ASSUME IInv, CInv, NEW p \in Procs, Alone(p), Writing(p), ClearRead(p)
  PROVE  Keeps(p) /\ Traced(p)'
<1> DEFINE l == [pr[p] EXCEPT !.pc = "clrWrite", !.buf = PutEntry(blk[1], pr[p].idx, Vacant)]
<1>1. At(p, "clrRead") /\ pr[p] \in Local /\ UNCHANGED disk /\ dirty' = dirty /\ Now(p, l)
  BY LocalFacts DEF ClearRead
<1>2. l.pc = "clrWrite"
  BY <1>1 DEF Local
<1> HIDE DEF l
<1>3. Traced(p)'
  BY <1>1, <1>2, TracedIf
<1>4. \A y : ~Grips(p, y)
  BY <1>1 DEF Grips, At, AllocPCs
<1>5. Live' = Live
  BY ClearReadFiles DEF Calm, SameDir
<1> QED
  BY <1>1, <1>3, <1>4, <1>5, KeepsDisk

LEMMA ClearWriteLeak ==
  ASSUME IInv, CInv, InFirstBlock, NEW p \in Procs, Alone(p), Writing(p), ClearWrite(p)
  PROVE  Keeps(p) /\ Traced(p)'
<1>1. At(p, "clrWrite") /\ sbHead' = sbHead /\ dirty' = dirty /\ Finish(p, "ok")
  BY DEF ClearWrite, Finish
<1>2. Links' = Links /\ Live' = Live
  BY ClearedIs
<1>3. Traced(p)'
  BY <1>1, TracedEnd DEF Finish
<1>4. \A y : ~Grips(p, y)
  BY <1>1 DEF Grips, At, AllocPCs
<1> QED
  BY <1>1, <1>2, <1>3, <1>4 DEF Keeps, Kept, Blks

\* A removal takes the chain of the entry it found.
LEMMA TakenLeak ==
  ASSUME formatted, UNCHANGED disk, dirty' = dirty, Doomed = {}, NEW c \in Live,
         Doomed' = {c}, NEW p \in Procs, \A x : ~Grips(p, x),
         \A x \in Blks(At2(c).start) : Grips(p, x)'
  PROVE  Keeps(p)
<1>1. Live' = Live \ {c}
  BY TakenEffect
<1>2. sbHead' = sbHead /\ Links' = Links
  BY DEF disk, Links
<1> QED
  BY <1>1, <1>2 DEF Keeps, Kept, Blks

LEMMA RmdirCheckLeak ==
  ASSUME IInv, CInv, WInv, LInv, NEW p \in Procs, Alone(p), Writing(p), RmdirCheck(p)
  PROVE  Keeps(p) /\ Traced(p)'
<1> DEFINE c == <<pr[p].at, pr[p].idx>>
           x == pr[p].cur
           l == [pr[p] EXCEPT !.pc = "rmFree", !.nxt = 0]
<1>1. /\ At(p, "rmdirCheck") /\ Phase(p) /\ formatted /\ Volume /\ Traced(p) /\ dirty' = dirty
      /\ pr[p] \in Local /\ UNCHANGED disk /\ ~Removing(p)
  BY WriterPhase DEF RmdirCheck, At, Removing, LInv
<1>2. /\ op(p) = "myrmdir" /\ c \in Live /\ At2(c).start = x /\ At2(c).type = DIR /\ x # 0
  BY <1>1 DEF Phase, AtRmdirCheck, Traced
<1>3. \A y : ~Grips(p, y)
  BY <1>1 DEF Grips, At, AllocPCs
<1>4. ASSUME Now(p, Ended(p, "err", Vacant, <<>>))
      PROVE  Keeps(p) /\ Traced(p)'
  <2>1. Live' = Live
    BY <1>1, <1>4, QuietEnd DEF Calm, SameDir
  <2> QED
    BY <1>1, <1>3, <1>4, <2>1, TracedEnd, KeepsDisk
<1>5. ASSUME Now(p, l)
      PROVE  Keeps(p) /\ Traced(p)'
  <2>1. l.pc = "rmFree" /\ l.cmd = pr[p].cmd /\ l.idx = pr[p].idx /\ l.at = pr[p].at
        /\ l.cur = x /\ l.nxt = 0
    BY <1>1 DEF Local
  <2> HIDE DEF l
  <2>2. pr'[p] = l
    BY <1>5, AloneNext
  <2>3. Doomed = {} /\ Doomed' = {c}
    BY <1>1, <1>2, <1>5, <2>1, <2>2, AloneNext DEF DoomedBy, Removing, op
  <2>4. Fine(Links, x) /\ Body(Links, x) \subseteq Data /\ Size(Links, x) = 1
    BY <1>1, <1>2, LiveFacts DEF WInv, Stored, Good
  <2>5. blk[x].next = 0
    <3>1. Spells(Links, x, 1, Order(Links, x)) /\ x \in Data
      BY <1>2, <2>4, FineIs, Somewhere
    <3>2. Succ(Links, x) = 0
      BY <1>2, <3>1 DEF Spells
    <3> QED
      BY <3>1, <3>2, LinkFacts
  <2>6. blk' = blk /\ Links' = Links
    BY <1>1 DEF disk, Links
  <2>7. Traced(p)'
    BY <2>1, <2>2, <2>5, <2>6 DEF Traced, At
  <2>8. \A y \in Blks(At2(c).start) : Grips(p, y)'
    BY <1>2, <2>1, <2>2, <2>6 DEF Grips, At, Blks
  <2> QED
    BY <1>1, <1>2, <1>3, <2>3, <2>7, <2>8, TakenLeak
<1> QED
  BY <1>4, <1>5 DEF RmdirCheck

LEMMA FindLeak ==
  ASSUME IInv, CInv, NEW p \in Procs, Alone(p), Writing(p), Find(p)
  PROVE  Keeps(p) /\ Traced(p)'
<1> DEFINE x == pr[p].cur
           b == blk[x]
<1>1. /\ At(p, "find") /\ Phase(p) /\ formatted /\ Volume
      /\ pr[p] \in Local /\ UNCHANGED disk /\ ~Removing(p)
  BY WriterPhase DEF Find, At, Removing
<1>2. AtFind(p)
  BY <1>1 DEF Phase
<1>3. Doomed = {}
  BY <1>1, DoomedIs DEF DoomedBy
<1>4. \A y : ~Grips(p, y)
  BY <1>1 DEF Grips, At, AllocPCs
<1>5. ASSUME Live' = Live, Fail(p) \/ dirty' = dirty
      PROVE  Keeps(p)
  BY <1>1, <1>4, <1>5, Cleaner, KeepsDisk
<1>6. ASSUME NEW r, NEW e, Now(p, Ended(p, r, e, <<>>)), Fail(p) \/ dirty' = dirty
      PROVE  Keeps(p) /\ Traced(p)'
  <2>1. Live' = Live
    BY <1>1, <1>6, QuietEnd DEF Calm, SameDir
  <2> QED
    BY <1>5, <1>6, <2>1, TracedEnd
<1>7. ASSUME NEW l, Now(p, l), l.pc = "find" \/ (l.pc = "rmdirCheck" /\ l.ent.type = DIR),
             dirty' = dirty
      PROVE  Keeps(p) /\ Traced(p)'
  <2>1. Live' = Live /\ pr'[p] = l
    BY <1>1, <1>7, QuietStep DEF Calm, SameDir, RemovalPCs
  <2> QED
    BY <1>5, <1>7, <2>1 DEF Traced, At
<1>8. ASSUME Fail(p) \/ Segv(p)
      PROVE  Keeps(p) /\ Traced(p)'
  BY <1>6, <1>8 DEF Fail, Segv, Finish
<1>9. ASSUME Now(p, [pr[p] EXCEPT !.cur = b.next]), dirty' = dirty
      PROVE  Keeps(p) /\ Traced(p)'
  <2> DEFINE l == [pr[p] EXCEPT !.cur = b.next]
  <2>1. l.pc = "find"
    BY <1>1 DEF Local, At
  <2> HIDE DEF l
  <2> QED
    BY <1>7, <1>9, <2>1 DEF l
<1>10. ASSUME NEW s \in Slots, IsFirst(s, Hits(b, final(p))), Found(p, b.ents[s], s)
       PROVE  Keeps(p) /\ Traced(p)'
  <2> DEFINE e == b.ents[s]
             c == <<x, s>>
             l == [pr[p] EXCEPT !.pc = AfterFind(p, e), !.ent = e, !.idx = s,
                                !.at = x, !.cur = e.start,
                                !.rem = IF op(p) = "myreadBlock" THEN pr[p].cmd.len
                                        ELSE e.size]
  <2>1. c \in Live /\ At2(c) = e
    <3>1. Live = {d \in Blks(1) \X Slots : Used(At2(d))}
      BY <1>1, <1>3, LiveIs DEF LiveFact, OK, Volume, Vol, Blks
    <3>2. Used(e) /\ At2(c) = e
      BY <1>10 DEF IsFirst, Hits, At2
    <3> QED
      BY <1>2, <3>1, <3>2 DEF AtFind
  <2>2. ASSUME Now(p, Ended(p, "ok", e, <<>>)), dirty' = dirty
        PROVE  Keeps(p) /\ Traced(p)'
    BY <1>6, <2>2
  <2>3. ASSUME op(p) \in {"myrm", "myrmdir"}, e.type = Wanted(p), Now(p, l), dirty' = dirty
        PROVE  Keeps(p) /\ Traced(p)'
    <3>1. l.pc = AfterFind(p, e) /\ l.cmd = pr[p].cmd /\ l.idx = s /\ l.at = x
          /\ l.ent = e /\ l.cur = e.start
      BY <1>1 DEF Local
    <3> HIDE DEF l, e
    <3>2. pr'[p] = l
      BY <2>3, AloneNext
    <3>3. CASE op(p) = "myrm"
      <4>1. l.pc = IF e.start = 0 THEN "clrRead" ELSE "rmRead"
        BY <3>1, <3>3 DEF AfterFind
      <4>2. Doomed' = {c}
        BY <2>3, <3>1, <3>2, <3>3, <4>1, AloneNext DEF DoomedBy, Removing, op
      <4>3. Links' = Links
        BY <1>1 DEF disk, Links
      <4>4. \A y \in Blks(At2(c).start) : Grips(p, y)'
        BY <2>1, <3>1, <3>2, <4>1, <4>3, Nowhere DEF Grips, At, Blks
      <4>5. Traced(p)'
        BY <2>3, <4>1, TracedIf
      <4> QED
        BY <1>1, <1>3, <1>4, <2>1, <2>3, <4>2, <4>4, <4>5, TakenLeak
    <3>4. CASE op(p) = "myrmdir"
      <4>1. l.pc = "rmdirCheck" /\ l.ent.type = DIR
        BY <2>3, <3>1, <3>4 DEF AfterFind, Wanted
      <4> QED
        BY <1>7, <2>3, <4>1
    <3> QED
      BY <2>3, <3>3, <3>4
  <2>4. op(p) \notin {"mycopyFrom", "myreadBlock"}
    BY DEF Writing, Writes
  <2> QED
    BY <1>8, <1>10, <2>2, <2>3, <2>4 DEF Found
<1> QED
  BY <1>8, <1>9, <1>10 DEF Find

LEMMA WriterEffect ==
  ASSUME IInv, CInv, WInv, InFirstBlock, NEW p \in Procs, Alone(p), Writing(p), Step(p),
         ~(MkfsSuper(p) \/ MkfsRoot(p) \/ MkfsChain(p))
  PROVE  Effect /\ (UNCHANGED disk \/ SameDir \/ Grows)
<1>1. ~ReadData(p) /\ ~Skip(p) /\ ~ReadOne(p)
  BY DEF Writing, CInv, Running, Phase, MkfsPhase, ReadData, Skip, ReadOne, At
<1>2. Find(p) \/ RmdirCheck(p) => UNCHANGED disk
  BY DEF Find, RmdirCheck
<1> QED
  BY <1>1, <1>2, ResolveFiles, TraverseFiles, AllocReadFiles, AllocZeroFiles,
     AllocSuperFiles, CopyLinkFiles, CopyWriteFiles, DirZeroFiles, InsReadFiles,
     InsWriteFiles, InsZeroFiles, InsLinkFiles, InsNewFiles, FindFiles, RmReadFiles,
     RmdirCheckFiles, FreeWriteFiles, FreeSuperFiles, ClearReadFiles, ClearWriteFiles
  DEF Step, Calm

LEMMA WriterLeak ==
  ASSUME IInv, CInv, CInv', WInv, LInv, Careful, NEW p \in Procs, Writing(p), Step(p)
  PROVE  LInv'
<1>1. Alone(p) /\ InFirstBlock
  BY DEF Careful, OneWriter, Alone
<1>2. CASE MkfsSuper(p) \/ MkfsRoot(p) \/ MkfsChain(p)
  BY <1>1, <1>2, MkfsLeak
<1>3. CASE ~(MkfsSuper(p) \/ MkfsRoot(p) \/ MkfsChain(p))
  <2>1. ~ReadData(p) /\ ~Skip(p) /\ ~ReadOne(p)
    BY DEF Writing, CInv, Running, Phase, MkfsPhase, ReadData, Skip, ReadOne, At
  <2>2. Effect
    BY <1>1, <1>3, WriterEffect
  <2>3. Keeps(p) /\ Traced(p)'
    BY <1>1, <1>3, <2>1, ResolveLeak, TraverseLeak, AllocReadLeak, AllocZeroLeak,
       AllocSuperLeak, CopyLinkLeak, CopyWriteLeak, DirZeroLeak, InsReadLeak,
       InsWriteLeak, InsZeroLeak, InsLinkLeak, InsNewLeak, FindLeak, RmReadLeak,
       RmdirCheckLeak, FreeWriteLeak, FreeSuperLeak, ClearReadLeak, ClearWriteLeak
    DEF Step
  <2>4. \E l : Now(p, l)
    BY CommandKept
  <2> QED
    BY <1>1, <2>2, <2>3, <2>4, LeakStep
<1> QED
  BY <1>2, <1>3

LEMMA InitLeak == Init => LInv
BY DEF Init, LInv, Traced, At, Idle

LEMMA NextLeak ==
  IInv /\ CInv /\ CInv' /\ WInv /\ LInv /\ Careful /\ [Next]_vars => LInv'
<1> SUFFICES ASSUME IInv, CInv, CInv', WInv, LInv, Careful, [Next]_vars
             PROVE  LInv'
  OBVIOUS
<1>1. CASE UNCHANGED vars
  <2>1. UNCHANGED disk /\ Doomed' = Doomed /\ pr' = pr /\ dirty' = dirty
    BY <1>1 DEF vars, disk, Doomed, Removing, op
  <2> QED
    BY <2>1, StillIs, StillLeak
<1>2. ASSUME NEW p \in Procs, NEW c \in Menu[p], Start(p, c) \/ MkfsTrunc(p, c)
      PROVE  LInv'
  BY <1>2, StartLeak, TruncLeak
<1>3. ASSUME NEW p \in Procs, Step(p) PROVE LInv'
  BY <1>3, ReaderLeak, WriterLeak
<1>4. ASSUME NEW p \in Procs, Crash(p) PROVE LInv'
  BY <1>4, CrashLeak
<1> QED
  BY <1>1, <1>2, <1>3, <1>4 DEF Next

\* When no command runs, no entry is doomed and no block is in hand.
LEMMA NoLeakInv == IInv /\ CInv /\ LInv => NoLeak
<1> SUFFICES ASSUME IInv, CInv, LInv, formatted, Quiet, ~dirty
             PROVE  Data = Chain(1) \cup (Chain(sbHead) \ {NB})
                             \cup UNION {Chain(At2(c).start) : c \in Cells}
  BY DEF NoLeak
<1>1. Live = Cells
  <2>1. Doomed = {}
    BY DEF Doomed, Removing, Quiet, At
  <2> QED
    BY <2>1 DEF Live
<1>2. \A p \in Procs : \A x : ~Grips(p, x)
  BY DEF Quiet, Grips, At, AllocPCs
<1>3. Volume /\ \A c \in Cells : Fine(Links, At2(c).start) /\ Blks(At2(c).start) \subseteq Data
  BY <1>1, LiveFacts DEF CInv, Blks
<1>4. /\ Fine(Links, 1) /\ Fine(Links, sbHead) /\ Blks(1) \subseteq Data
  BY <1>3 DEF Volume, Vol, Blks
<1>5. /\ Chain(1) = Blks(1) /\ Chain(sbHead) = Blks(sbHead)
      /\ \A c \in Cells : Chain(At2(c).start) = Blks(At2(c).start)
  BY <1>3, <1>4, ChainIs DEF Blks
<1>6. Blks(sbHead) \ {NB} \subseteq Data
  BY <1>4, FineIs, SizesAssumption DEF Blks, Data
<1>7. ASSUME NEW x \in Data
      PROVE  \/ x \in Chain(1) \cup (Chain(sbHead) \ {NB})
             \/ \E c \in Cells : x \in Chain(At2(c).start)
  <2>1. Kept(x) /\ x # NB
    BY LinkFacts DEF LInv
  <2> QED
    BY <1>1, <1>2, <1>5, <2>1 DEF Kept
<1> QED
  BY <1>3, <1>4, <1>5, <1>6, <1>7

\* As long as one command at a time changes the volume and removals find their
\* entry in the first block of the directory, no block is lost (NoLeak): unless
\* a command was killed or gave up with blocks in hand, every block is free, part
\* of the directory or part of an entry when no command runs.
THEOREM NothingLost ==
  ASSUME RemovalsEnd
  PROVE  Spec /\ []Careful => []NoLeak
<1>1. Init => LInv
  BY InitLeak
<1>2. IInv /\ CInv /\ CInv' /\ WInv /\ LInv /\ Careful /\ [Next]_vars => LInv'
  BY NextLeak
<1>3. Spec /\ []Careful => [](IInv /\ CInv /\ WInv)
  BY WInvAlways
<1>4. IInv /\ CInv /\ LInv => NoLeak
  BY NoLeakInv
<1> QED
  BY <1>1, <1>2, <1>3, <1>4, PTL DEF Spec

\* For one shell that adds and others that read, no block is lost (NoLeak)
\* without a condition on the behaviour, unless a command was killed or gave up.
THEOREM AddersLoseNothing ==
  ASSUME RemovalsEnd, OneShell, NoRemovals
  PROVE  Spec => []NoLeak
BY CarefulAlways, NothingLost, PTL

\* For one shell that adds and others that read, the volume implements FileStore
\* (ImplementsStore) without a condition on the behaviour.
THEOREM AddersImplementStore ==
  ASSUME RemovalsEnd, OneShell, NoRemovals
  PROVE  Spec => ImplementsStore
BY CarefulAlways, StoreImplemented, PTL

-----------------------------------------------------------------------------
(* What mycopyFrom reads.                                                   *)

Copying(p) == ~At(p, "idle") /\ op(p) = "mycopyFrom"
\* No entry is taken away while a command copies out.
Undisturbed == \A p, q \in Procs : Copying(p) => ~Removing(q)

\* The chunks before rem are written to the host, and cur is the block of the
\* next one.
Read(p) == pr[p].ent.size - pr[p].rem
Copied(p) ==
  /\ \E c \in Live : At2(c) = pr[p].ent
  /\ pr[p].ent.type = FILE /\ pr[p].rem \in 1 .. pr[p].ent.size
  /\ pr[p].cur = Order(Links, pr[p].ent.start)[Read(p) + 1]
  /\ Len(pr[p].out) = Read(p)
  /\ \A i \in 1 .. Read(p) :
       pr[p].out[i] = blk[Order(Links, pr[p].ent.start)[i]].data
RPhase(p) == /\ pr[p].pc \in {"resolve", "find", "readData"}
             /\ ~At(p, "readData") => pr[p].cur \in Blks(1) /\ pr[p].out = <<>>
             /\ At(p, "readData") => Copied(p)
Told(p) ==
  (At(p, "idle") /\ op(p) = "mycopyFrom" /\ pr[p].res = "ok") =>
     LET o == pr[p].out IN
       /\ Len(o) = pr[p].ent.size
       /\ \A i \in 1 .. Len(o) : o[i].k = i /\ o[i].c = o[1].c
RInv == /\ \A p, q \in Procs : ~At(p, "idle") /\ op(p) = "mymkfs" /\ q # p => At(q, "idle")
        /\ \A p \in Procs : Told(p) /\ (Copying(p) => formatted /\ RPhase(p))

\* A live file: its chain spells its chunks.
LEMMA LiveFile ==
  ASSUME IInv, CInv, WInv, formatted, NEW c \in Live, At2(c).type = FILE
  PROVE  LET e == At2(c) IN
         /\ e.size \in Nat /\ Size(Links, e.start) = e.size
         /\ Spells(Links, e.start, e.size, Order(Links, e.start))
         /\ \A i \in 1 .. e.size : Order(Links, e.start)[i] \in Data
         /\ \E n \in Contents : Spelt(Links, blk, e.start, e.size, n)
<1> DEFINE e == At2(c)
           b == e.start
<1>1. /\ e \in Entry /\ Fine(Links, b) /\ Body(Links, b) \subseteq Data
      /\ Good(Links, blk, e) /\ e.type = FILE
  BY LiveFacts DEF CInv, WInv, Stored
<1> HIDE DEF e
<1>2. e.size \in Nat /\ Size(Links, b) = e.size
      /\ \E n \in Contents : Spelt(Links, blk, b, e.size, n)
  BY <1>1, SizesAssumption DEF Entry, Good, FILE, DIR
<1>3. Spells(Links, b, e.size, Order(Links, b))
  BY <1>1, <1>2, FineIs
<1>4. \A i \in 1 .. e.size : Order(Links, b)[i] \in Data
  BY <1>1, <1>2 DEF Body
<1> QED
  BY <1>2, <1>3, <1>4 DEF e

\* A step of another command that takes no entry away.
LEMMA ReadKept ==
  ASSUME IInv, CInv, WInv, Effect, Live \subseteq Live', NEW p \in Procs, pr'[p] = pr[p],
         RPhase(p)
  PROVE  RPhase(p)'
<1>1. ASSUME ~At(p, "readData") PROVE pr'[p].cur \in Body(Links', 1)
  BY <1>1 DEF RPhase, Effect
<1>2. ASSUME At(p, "readData") PROVE Copied(p)'
  <2> DEFINE e == pr[p].ent
             b == e.start
  <2>1. Copied(p)
    BY <1>2 DEF RPhase
  <2>2. PICK c \in Live : At2(c) = e
    BY <2>1 DEF Copied
  <2>3. c \in Live' /\ Stays(c)
    BY DEF Effect, SameDir, Shrinks, Grows
  <2>4. Volume /\ formatted /\ e.type = FILE
    BY <2>1 DEF Effect, CInv, Copied
  <2>5. Fine(Links, b) /\ Body(Links, b) \subseteq Data
    BY <2>2, <2>4, LiveFacts
  <2>6. e.size \in Nat /\ Size(Links, b) = e.size
    BY <2>2, <2>4, LiveFile
  <2>7. \A x \in Body(Links, b) : blk'[x] = blk[x]
    BY <2>2, <2>3 DEF Stays, Blks
  <2>8. pr[p].rem \in 1 .. e.size /\ Read(p)' = Read(p) /\ Read(p) \in 0 .. e.size
    BY <2>1, <2>6 DEF Copied, Read
  <2> HIDE DEF e
  <2>9. Order(Links', b) = Order(Links, b)
    <3> HIDE DEF b
    <3> QED
      BY <2>5, <2>7, Unwritten
  <2>10. \A i \in 1 .. Read(p) : blk'[Order(Links, b)[i]] = blk[Order(Links, b)[i]]
    BY <2>6, <2>7, <2>8 DEF Body
  <2>11. At2(c)' = e
    BY <2>2, <2>3 DEF Stays
  <2> QED
    BY <2>1, <2>3, <2>8, <2>9, <2>10, <2>11 DEF Copied, e
<1> QED
  BY <1>1, <1>2 DEF RPhase, At, Blks

\* A step of mycopyFrom.
LEMMA ReadStep ==
  ASSUME IInv, CInv, Still, formatted, NEW p \in Procs, NEW l, Now(p, l), l.pc \in {"resolve", "find"},
         l.cur \in Blks(1), l.out = <<>>
  PROVE  RPhase(p)' /\ Told(p)'
<1>1. pr'[p] = l
  BY DEF Now, IInv, TypeOK
<1> QED
  BY <1>1 DEF RPhase, Told, At, Blks, Still

LEMMA ReadEnd ==
  ASSUME IInv, NEW p \in Procs, NEW r, NEW e, NEW o, Now(p, Ended(p, r, e, o)),
         r = "ok" => /\ Len(o) = e.size
                     /\ \A i \in 1 .. Len(o) : o[i].k = i /\ o[i].c = o[1].c
  PROVE  At(p, "idle")' /\ Told(p)'
<1> DEFINE l == Ended(p, r, e, o)
<1>1. l.pc = "idle" /\ l.res = r /\ l.ent = e /\ l.out = o
  BY DEF Ended, Idle
<1> HIDE DEF l
<1>2. pr'[p] = l
  BY DEF Now, IInv, TypeOK, l
<1> QED
  BY <1>1, <1>2 DEF Told, At

LEMMA ReadFails ==
  ASSUME IInv, NEW p \in Procs, Fail(p) \/ Segv(p) \/ Finish(p, "err")
  PROVE  At(p, "idle")' /\ Told(p)'
<1>1. PICK r \in {"err", "segv"} : Now(p, Ended(p, r, Vacant, <<>>))
  BY DEF Fail, Segv, Finish
<1> QED
  BY <1>1, ReadEnd

LEMMA CopyFind ==
  ASSUME IInv, CInv, WInv, Still, formatted, Doomed = {}, NEW p \in Procs, Copying(p),
         RPhase(p), Find(p)
  PROVE  Told(p)' /\ (Copying(p)' => RPhase(p)')
<1> DEFINE x == pr[p].cur
           b == blk[x]
<1>1. /\ At(p, "find") /\ pr[p] \in Local /\ x \in Blks(1) /\ pr[p].out = <<>> /\ Volume
      /\ op(p) = "mycopyFrom"
  BY LocalFacts DEF Find, RPhase, At, CInv, Copying
<1>2. ASSUME Fail(p) \/ Segv(p)
      PROVE  Told(p)' /\ (Copying(p)' => RPhase(p)')
  BY <1>2, ReadFails DEF Copying
<1>3. CASE b.next # 0 /\ Now(p, [pr[p] EXCEPT !.cur = b.next])
  <2> DEFINE l == [pr[p] EXCEPT !.cur = b.next]
  <2>1. l.pc = "find" /\ l.cur = b.next /\ l.out = <<>>
    BY <1>1 DEF Local, At
  <2>2. b.next \in Blks(1)
    BY <1>1, <1>3, CursorOn
  <2>3. Now(p, l)
    BY <1>3
  <2> HIDE DEF l
  <2> QED
    BY <2>1, <2>2, <2>3, ReadStep
<1>4. ASSUME NEW s \in Slots, IsFirst(s, Hits(b, final(p))), Found(p, b.ents[s], s)
      PROVE  Told(p)' /\ (Copying(p)' => RPhase(p)')
  <2> DEFINE e == b.ents[s]
             c == <<x, s>>
             l == [pr[p] EXCEPT !.pc = AfterFind(p, e), !.ent = e, !.idx = s,
                                !.at = x, !.cur = e.start,
                                !.rem = IF op(p) = "myreadBlock" THEN pr[p].cmd.len
                                        ELSE e.size]
  <2>1. c \in Live /\ At2(c) = e
    <3>1. Live = {d \in Blks(1) \X Slots : Used(At2(d))}
      BY <1>1, LiveIs DEF LiveFact, OK, Volume, Vol, Blks
    <3>2. Used(e) /\ At2(c) = e
      BY <1>4 DEF IsFirst, Hits, At2
    <3> QED
      BY <1>1, <3>1, <3>2
  <2>2. Wanted(p) = FILE /\ AfterFind(p, e) = "readData"
        /\ (Nothing(p, e) <=> e.size = 0 \/ e.start = 0)
    BY <1>1 DEF Wanted, AfterFind, Nothing
  <2>3. /\ l.pc = AfterFind(p, e) /\ l.ent = e /\ l.cur = e.start /\ l.rem = e.size
        /\ l.out = <<>>
    BY <1>1 DEF Local
  <2>4. Now(p, Ended(p, "ok", e, <<>>)) \/ Now(p, l) => e.type = FILE \/ Fail(p)
    BY <1>1, <1>4, <2>2 DEF Found
  <2> HIDE DEF e, l
  <2>5. ASSUME e.type = FILE
        PROVE  /\ e.size \in Nat /\ Size(Links, e.start) = e.size
               /\ Spells(Links, e.start, e.size, Order(Links, e.start))
    BY <2>1, <2>5, LiveFile
  <2>6. ASSUME Now(p, Ended(p, "ok", e, <<>>)), e.type = FILE, Nothing(p, e)
        PROVE  Told(p)' /\ (Copying(p)' => RPhase(p)')
    <3>1. Len(<<>>) = e.size
      BY <2>2, <2>5, <2>6, Nowhere
    <3>2. Len(<<>>) = 0
      OBVIOUS
    <3> QED
      BY <2>6, <3>1, <3>2, ReadEnd DEF Copying
  <2>7. ASSUME Now(p, l), e.type = FILE, ~Nothing(p, e)
        PROVE  Told(p)' /\ (Copying(p)' => RPhase(p)')
    <3>1. pr'[p] = l
      BY <2>7 DEF Now, IInv, TypeOK
    <3>2. e.size \in Nat /\ e.size # 0 /\ e.start = Order(Links, e.start)[1]
      BY <2>2, <2>5, <2>7 DEF Spells
    <3>3. Read(p)' = 0
      BY <2>3, <3>1, <3>2 DEF Read
    <3>4. Len(<<>>) = 0 /\ 1 .. 0 = {} /\ 0 + 1 = 1
      OBVIOUS
    <3>5. Live' = Live /\ Links' = Links /\ \A d : At2(d)' = At2(d)
      BY DEF Still, At2
    <3>6. \E d \in Live' : At2(d)' = e
      BY <2>1, <3>5
    <3>7. e.start = Order(Links', e.start)[Read(p)' + 1]
      BY <3>2, <3>3, <3>4, <3>5
    <3>8. e.size \in 1 .. e.size /\ 1 .. Read(p)' = {}
      BY <3>2, <3>3
    <3>9. Copied(p)'
      BY <2>3, <2>7, <3>1, <3>3, <3>4, <3>6, <3>7, <3>8 DEF Copied
    <3> QED
      BY <2>2, <2>3, <3>1, <3>9 DEF RPhase, Told, At
  <2> QED
    BY <1>1, <1>2, <1>4, <2>2, <2>6, <2>7 DEF Found, e, l
<1> QED
  BY <1>2, <1>3, <1>4 DEF Find

LEMMA CopyData ==
  ASSUME IInv, CInv, WInv, Still, formatted, NEW p \in Procs, Copying(p), RPhase(p),
         ReadData(p)
  PROVE  Told(p)' /\ (Copying(p)' => RPhase(p)')
<1> DEFINE e == pr[p].ent
           s == Order(Links, e.start)
           i == Read(p) + 1
           x == pr[p].cur
           o == Append(pr[p].out, blk[x].data)
           l == [pr[p] EXCEPT !.out = o, !.rem = pr[p].rem - 1, !.cur = blk[x].next]
<1>1. At(p, "readData") /\ pr[p] \in Local /\ Copied(p)
  BY LocalFacts DEF ReadData, RPhase
<1>2. PICK c \in Live : At2(c) = e
  BY <1>1 DEF Copied
<1>3. /\ e.size \in Nat /\ Spells(Links, e.start, e.size, s)
      /\ \A j \in 1 .. e.size : s[j] \in Data
  BY <1>1, <1>2, LiveFile DEF Copied
<1>4. PICK n \in Contents : Spelt(Links, blk, e.start, e.size, n)
  BY <1>1, <1>2, LiveFile DEF Copied
<1>5. pr[p].out \in Seq(Chunk) /\ pr[p].rem \in 1 .. e.size
  BY <1>1 DEF Local, Copied
<1>6. i \in 1 .. e.size /\ Read(p) \in Nat /\ i = e.size - (pr[p].rem - 1)
      /\ (pr[p].rem = 1 <=> i = e.size)
  BY <1>3, <1>5 DEF Read
<1>7. /\ x = s[i] /\ x \in Data /\ Len(pr[p].out) = Read(p)
      /\ \A j \in 1 .. Read(p) : pr[p].out[j] = blk[s[j]].data
  BY <1>1, <1>3, <1>6 DEF Copied
<1>8. /\ x \in Blocks /\ blk[x].next = IF i = e.size THEN 0 ELSE s[i+1]
      /\ blk[x].data \in Chunk
  <2>1. x \in Blocks /\ Succ(Links, x) = blk[x].next /\ blk[x] \in Block
    BY <1>7, LinkFacts
  <2>2. Succ(Links, s[i]) = IF i = e.size THEN 0 ELSE s[i+1]
    BY <1>3, <1>6 DEF Spells
  <2> QED
    BY <1>7, <2>1, <2>2 DEF Block
<1>9. Len(o) = i /\ \A j \in 1 .. i : o[j] = blk[s[j]].data
  <2>1. Len(o) = i /\ \A j \in 1 .. i : o[j] = IF j = i THEN blk[x].data ELSE pr[p].out[j]
    <3> DEFINE y == blk[x].data
               r == pr[p].out
    <3>1. r \in Seq(Chunk) /\ y \in Chunk /\ Len(r) + 1 = i /\ o = Append(r, y)
      BY <1>5, <1>6, <1>7, <1>8
    <3> HIDE DEF y, r, o, i
    <3>2. Len(o) = i /\ o[i] = y /\ \A j \in 1 .. Len(r) : o[j] = r[j]
      BY <3>1
    <3>3. \A j \in 1 .. i : j # i => j \in 1 .. Len(r)
      BY <3>1
    <3> QED
      BY <3>2, <3>3 DEF y, r
  <2> QED
    BY <1>6, <1>7, <2>1
<1>10. CASE i = e.size
  <2>1. Now(p, Ended(p, "ok", e, o))
    BY <1>6, <1>8, <1>10 DEF ReadData, Readable
  <2>2. \A j \in 1 .. i : o[j] = [c |-> n, k |-> j]
    BY <1>4, <1>9, <1>10 DEF Spelt
  <2> HIDE DEF e, o
  <2>3. \A j \in 1 .. Len(o) : o[j].k = j /\ o[j].c = o[1].c
    <3>1. 1 \in 1 .. i
      BY <1>6
    <3> HIDE DEF i
    <3>2. ASSUME NEW j \in 1 .. i PROVE o[j].k = j /\ o[j].c = n
      <4>1. o[j] = [c |-> n, k |-> j]
        BY <2>2
      <4> QED
        BY <4>1
    <3> QED
      BY <1>9, <3>1, <3>2
  <2> QED
    BY <1>9, <1>10, <2>1, <2>3, ReadEnd DEF Copying
<1>11. CASE i # e.size
  <2>1. i+1 \in 1 .. e.size /\ blk[x].next = s[i+1]
    BY <1>3, <1>6, <1>8, <1>11
  <2>2. blk[x].next # 0
    BY <1>3, <2>1, LinkFacts
  <2>3. Now(p, l)
    BY <1>6, <1>8, <1>11, <2>2 DEF ReadData, Readable
  <2>4. /\ l.pc = "readData" /\ l.ent = e /\ l.out = o /\ l.rem = pr[p].rem - 1
        /\ l.cur = blk[x].next
    BY <1>1 DEF Local, At
  <2> HIDE DEF l
  <2>5. pr'[p] = l
    BY <2>3 DEF Now, IInv, TypeOK
  <2>6. Read(p)' = i /\ l.rem \in 1 .. e.size
    BY <1>3, <1>5, <1>6, <1>11, <2>4, <2>5 DEF Read
  <2>7. Live' = Live /\ Links' = Links /\ blk' = blk /\ At2(c)' = At2(c)
    BY DEF Still, At2
  <2>8. e.type = FILE
    BY <1>1 DEF Copied
  <2> HIDE DEF s, e, o, i
  <2>9. /\ pr'[p].cur = Order(Links', e.start)[i+1]
        /\ \A j \in 1 .. i : pr'[p].out[j] = blk'[Order(Links', e.start)[j]].data
    BY <1>9, <2>1, <2>4, <2>5, <2>7 DEF s
  <2>10. Copied(p)'
    BY <1>2, <1>9, <2>4, <2>5, <2>6, <2>7, <2>8, <2>9 DEF Copied
  <2> QED
    BY <2>4, <2>5, <2>10 DEF RPhase, Told, At
<1> QED
  BY <1>10, <1>11

LEMMA CopierStep ==
  ASSUME IInv, CInv, WInv, RInv, Doomed = {}, NEW p \in Procs, Copying(p), Step(p)
  PROVE  Told(p)' /\ (Copying(p)' => formatted' /\ RPhase(p)')
<1>1. Still /\ formatted /\ RPhase(p) /\ op(p) = "mycopyFrom" /\ pr[p] \in Local
  BY ReaderStill, LocalFacts DEF Copying, Writing, Writes, RInv
<1>2. formatted' = formatted
  BY <1>1 DEF Still
<1>3. ASSUME Fail(p) \/ Segv(p)
      PROVE  Told(p)' /\ (Copying(p)' => RPhase(p)')
  BY <1>3, ReadFails DEF Copying
<1>4. CASE Resolve(p)
  <2> DEFINE l == [pr[p] EXCEPT !.pc = "find"]
  <2>1. l.pc = "find" /\ l.cur \in Blks(1) /\ l.out = <<>>
    BY <1>1, <1>4 DEF Local, RPhase, Resolve, At
  <2>2. Now(p, l)
    BY <1>1, <1>4 DEF Resolve
  <2> HIDE DEF l
  <2> QED
    BY <1>1, <1>2, <2>1, <2>2, ReadStep
<1>5. CASE Traverse(p)
  <2> DEFINE b == blk[pr[p].cur]
             l == [pr[p] EXCEPT !.cur = b.next]
  <2>1. At(p, "resolve") /\ pr[p].cur \in Blks(1) /\ pr[p].out = <<>> /\ Volume
    BY <1>1, <1>5 DEF RPhase, Traverse, At, CInv
  <2>2. ASSUME b.next # 0, Now(p, l)
        PROVE  Told(p)' /\ (Copying(p)' => RPhase(p)')
    <3>1. l.pc = "resolve" /\ l.cur = b.next /\ l.out = <<>>
      BY <1>1, <2>1 DEF Local, At
    <3>2. b.next \in Blks(1)
      BY <2>1, <2>2, CursorOn
    <3> HIDE DEF l
    <3> QED
      BY <1>1, <2>2, <3>1, <3>2, ReadStep
  <2> QED
    BY <1>1, <1>2, <1>3, <1>5, <2>2 DEF Traverse
<1>6. CASE Find(p)
  BY <1>1, <1>2, <1>6, CopyFind
<1>7. CASE ReadData(p)
  BY <1>1, <1>2, <1>7, CopyData
<1> QED
  BY <1>1, <1>4, <1>5, <1>6, <1>7
  DEF Step, RPhase, At, Skip, ReadOne, AllocRead, AllocZero, AllocSuper, CopyLink, CopyWrite,
     DirZero, InsRead, InsWrite, InsZero, InsLink, InsNew, RmRead, RmdirCheck, FreeWrite,
     FreeSuper, ClearRead, ClearWrite, MkfsSuper, MkfsRoot, MkfsChain

\* A step of another command while p copies out.
LEMMA OtherStep ==
  ASSUME IInv, CInv, WInv, RInv, Careful, Doomed = {}, Doomed' = {},
         NEW p \in Procs, Copying(p), NEW q \in Procs, q # p, Step(q)
  PROVE  pr'[p] = pr[p] /\ formatted' /\ RPhase(p)'
<1>1. PICK l : Now(q, l) /\ ~At(q, "idle")
  BY CommandKept
<1>2. pr'[p] = pr[p]
  BY <1>1 DEF Now, IInv, TypeOK
<1>3. formatted /\ RPhase(p) /\ op(q) # "mymkfs"
  BY <1>1 DEF RInv, Copying
<1>4. Effect /\ Live \subseteq Live'
  <2>1. CASE ~Writing(q)
    <3>1. Still
      BY <2>1, ReaderStill
    <3> QED
      BY <1>3, <3>1, StillEffect DEF Calm, SameDir
  <2>2. CASE Writing(q)
    <3>1. Alone(q) /\ InFirstBlock
      BY <2>2 DEF Careful, OneWriter, Alone
    <3>2. ~(MkfsSuper(q) \/ MkfsRoot(q) \/ MkfsChain(q))
      BY <1>3, <2>2 DEF CInv, Writing, Running, Phase, MkfsSuper, MkfsRoot, MkfsChain, At
    <3>3. Effect /\ (UNCHANGED disk \/ SameDir \/ Grows)
      BY <2>2, <3>1, <3>2, WriterEffect
    <3>4. UNCHANGED disk => Live' = Live
      BY StillIs DEF Still
    <3> QED
      BY <3>3, <3>4 DEF SameDir, Grows
  <2> QED
    BY <2>1, <2>2
<1> QED
  BY <1>2, <1>3, <1>4, ReadKept DEF Effect

LEMMA InitReads == Init => RInv
BY DEF Init, RInv, Told, Copying, At, op, Idle

LEMMA NextReads ==
  IInv /\ CInv /\ WInv /\ RInv /\ Careful /\ Undisturbed /\ Undisturbed' /\ [Next]_vars
    => RInv'
<1> SUFFICES ASSUME IInv, CInv, WInv, RInv, Careful, Undisturbed, Undisturbed', [Next]_vars
             PROVE  RInv'
  OBVIOUS
<1> DEFINE MkfsAlone == \A a, b \in Procs : ~At(a, "idle") /\ op(a) = "mymkfs" /\ b # a
                                              => At(b, "idle")
<1>1. ASSUME NEW p \in Procs, Copying(p) PROVE Doomed = {}
  BY <1>1 DEF Undisturbed, Doomed
<1>2. ASSUME NEW p \in Procs, Copying(p)' PROVE Doomed' = {}
  BY <1>2 DEF Undisturbed, Doomed
<1>3. ASSUME NEW p \in Procs, pr'[p] = pr[p], Copying(p)' => formatted' /\ RPhase(p)'
      PROVE  Told(p)' /\ (Copying(p)' => formatted' /\ RPhase(p)')
  BY <1>3 DEF RInv, Told, At, op
\* A step that leaves the disk keeps what the other commands have read.
<1>4. ASSUME UNCHANGED disk, NEW p \in Procs, pr'[p] = pr[p]
      PROVE  Told(p)' /\ (Copying(p)' => formatted' /\ RPhase(p)')
  <2>1. ASSUME Copying(p)' PROVE formatted' /\ RPhase(p)'
    <3>1. Copying(p)
      BY <1>4, <2>1 DEF Copying, At, op
    <3>2. Still /\ formatted /\ RPhase(p)
      BY <1>1, <1>2, <1>4, <2>1, <3>1, StillIs DEF RInv
    <3>3. Effect /\ Live \subseteq Live'
      BY <3>2, StillEffect DEF Calm, SameDir
    <3> QED
      BY <1>4, <3>2, <3>3, ReadKept DEF Effect
  <2> QED
    BY <1>3, <1>4, <2>1
<1>5. CASE UNCHANGED vars
  <2>1. UNCHANGED disk /\ pr' = pr
    BY <1>5 DEF vars, disk
  <2> QED
    BY <1>4, <2>1 DEF RInv, At, op
<1>6. ASSUME NEW p \in Procs, NEW c \in Menu[p], Start(p, c)
      PROVE  RInv'
  <2> DEFINE l == [Idle EXCEPT !.pc = "resolve", !.cmd = c, !.head = sbHead, !.cur = 1]
  <2>1. /\ l.pc = "resolve" /\ l.cmd = c /\ l.cur = 1 /\ l.out = <<>> /\ Now(p, l)
        /\ UNCHANGED disk /\ formatted /\ c.op # "mymkfs" /\ ~Formatting /\ At(p, "idle")
    BY <1>6 DEF Start, Idle
  <2> HIDE DEF l
  <2>2. pr'[p] = l /\ \A q \in Procs : q # p => pr'[q] = pr[q]
    BY <2>1 DEF Now, IInv, TypeOK
  <2>3. MkfsAlone'
    BY <2>1, <2>2 DEF Formatting, At, op
  <2>4. Told(p)' /\ (Copying(p)' => formatted' /\ RPhase(p)')
    <3>1. 1 \in Blks(1) /\ Links' = Links /\ formatted' = formatted
      BY <2>1, Somewhere DEF CInv, Volume, Vol, Blks, disk, Links
    <3> QED
      BY <2>1, <2>2, <3>1 DEF Told, RPhase, At, Blks
  <2> QED
    BY <1>4, <2>1, <2>2, <2>3, <2>4 DEF RInv
<1>7. ASSUME NEW p \in Procs, NEW c \in Menu[p], MkfsTrunc(p, c)
      PROVE  RInv'
  <2>1. \A q \in Procs : pr'[q] = (IF q = p THEN [Idle EXCEPT !.pc = "fsSuper", !.cmd = c]
                                  ELSE Idle) /\ c.op = "mymkfs"
    BY <1>7 DEF MkfsTrunc
  <2>2. /\ Idle.pc = "idle" /\ Idle.res = "none"
        /\ [Idle EXCEPT !.pc = "fsSuper", !.cmd = c].res = "none"
        /\ [Idle EXCEPT !.pc = "fsSuper", !.cmd = c].cmd = c
    BY DEF Idle
  <2> QED
    BY <2>1, <2>2 DEF RInv, Told, Copying, At, op
<1>8. ASSUME NEW p \in Procs, Step(p)
      PROVE  RInv'
  <2>1. PICK l : Now(p, l) /\ l.cmd = pr[p].cmd /\ ~At(p, "idle")
    BY <1>8, CommandKept
  <2>2. pr'[p] = l /\ \A q \in Procs : q # p => pr'[q] = pr[q]
    BY <2>1 DEF Now, IInv, TypeOK
  <2>3. MkfsAlone'
    <3>1. MkfsAlone
      BY DEF RInv
    <3> QED
      BY <2>1, <2>2, <3>1 DEF At, op
  <2>4. CASE Copying(p)
    <3>1. Told(p)' /\ (Copying(p)' => formatted' /\ RPhase(p)')
      BY <1>1, <1>8, <2>4, CopierStep
    <3>2. UNCHANGED disk
      BY <1>8, <2>4, ReaderStill DEF Copying, Writing, Writes, Still, disk
    <3> QED
      BY <1>4, <2>2, <2>3, <3>1, <3>2 DEF RInv
  <2>5. CASE ~Copying(p)
    <3>1. op(p)' = op(p) /\ op(p) # "mycopyFrom"
      BY <2>1, <2>2, <2>5 DEF op, Copying
    <3>2. Told(p)' /\ ~Copying(p)'
      BY <3>1 DEF Told, Copying
    <3>3. ASSUME NEW q \in Procs, q # p
          PROVE  Told(q)' /\ (Copying(q)' => formatted' /\ RPhase(q)')
      <4>1. Copying(q)' => Copying(q)
        BY <2>2, <3>3 DEF Copying, At, op
      <4>2. Copying(q)' => formatted' /\ RPhase(q)'
        BY <1>1, <1>2, <1>8, <3>3, <4>1, OtherStep
      <4> QED
        BY <1>3, <2>2, <3>3, <4>2
    <3> QED
      BY <2>3, <3>2, <3>3 DEF RInv
  <2> QED
    BY <2>4, <2>5
<1>9. ASSUME NEW p \in Procs, Crash(p)
      PROVE  RInv'
  <2>1. Now(p, Idle) /\ UNCHANGED disk /\ Idle.pc = "idle" /\ Idle.res = "none"
    BY <1>9 DEF Crash, Idle
  <2>2. pr'[p] = Idle /\ \A q \in Procs : q # p => pr'[q] = pr[q]
    BY <2>1 DEF Now, IInv, TypeOK
  <2>3. MkfsAlone'
    BY <2>1, <2>2 DEF RInv, At, op
  <2>4. Told(p)' /\ ~Copying(p)'
    BY <2>1, <2>2 DEF Told, Copying, At
  <2> QED
    BY <1>4, <2>1, <2>2, <2>3, <2>4 DEF RInv
<1> QED
  BY <1>5, <1>6, <1>7, <1>8, <1>9 DEF Next

\* As long as one command at a time changes the volume, and no entry is taken
\* away while a command copies out, mycopyFrom that succeeds wrote every chunk of
\* one host file (ReaderSeesWhole), whatever is copied in while it reads.
THEOREM ReadersSeeWhole ==
  ASSUME RemovalsEnd
  PROVE  Spec /\ []Careful /\ []Undisturbed => []ReaderSeesWhole
<1>1. Init => RInv
  BY InitReads
<1>2. IInv /\ CInv /\ WInv /\ RInv /\ Careful /\ Undisturbed /\ Undisturbed' /\ [Next]_vars
        => RInv'
  BY NextReads
<1>3. Spec /\ []Careful => [](IInv /\ CInv /\ WInv)
  BY WInvAlways
<1>4. RInv => ReaderSeesWhole
  BY DEF RInv, Told, ReaderSeesWhole
<1> QED
  BY <1>1, <1>2, <1>3, <1>4, PTL DEF Spec

\* For one shell that adds and others that read, ReaderSeesWhole without a
\* condition on the behaviour.
THEOREM ReadersOfAddersSeeWhole ==
  ASSUME RemovalsEnd, OneShell, NoRemovals
  PROVE  Spec => []ReaderSeesWhole
<1>1. Given => Undisturbed
  BY DEF Given, Undisturbed, NoRemovals, Removing, op, At
<1> QED
  BY <1>1, GivenAlways, CarefulAlways, ReadersSeeWhole, PTL
=============================================================================
