---------------------------- MODULE ChainedFSProofs --------------------------
(***************************************************************************)
(* Proofs about ChainedFS: types, that the blocks of every file and of a   *)
(* copy under way are apart, that the count drifts by kills only, that the *)
(* volume implements the abstract file store, and that a reader gets what  *)
(* is stored.                                                              *)
(***************************************************************************)
EXTENDS ChainedFS, FiniteSetTheorems, WellFoundedInduction, TLAPS

USE NamesAssumption, MenuAssumption

-----------------------------------------------------------------------------
(* Types.                                                                  *)

Copying == {"find", "super", "link", "write", "insert"}
Removing == {"free", "freed", "clear"}
Formatting == {"fsSuper", "fsRoot"}

\* What the place of the command that runs says of its locals and the volume.
Place ==
  /\ l.pc \in Copying => op = "mycopyto" /\ l.cmd.file \in Files
  /\ l.pc \in Copying \ {"insert"} => l.left \in 1 .. Len(l.cmd.file)
  /\ At("insert") => l.left = 0
  /\ l.pc \in Removing => op = "myrm" /\ l.slot \in Slots
  /\ At("read") => op = "mycopyfrom" /\ l.slot \in Slots
  /\ l.pc \in Formatting => op = "mymkfs"
  /\ l.pc \notin Removing \cup {"read"} => l.slot = 0
  /\ l.pc \notin Copying => l.first = 0
  /\ At("free") => l.cur \in Data
  /\ At("clear") => l.cur = 0
  /\ l.pc \in Copying \cup Removing \cup {"read"} => length >= 2 /\ l.count = freeCount
  /\ At("fsSuper") => length = 0
  /\ At("fsRoot") => length = 1 /\ freeCount = NB - 2
  /\ length < 2 => /\ root = [s \in Slots |-> ZeroEntry]
                   /\ blk = [b \in Data |-> ZeroBlock]

IInv == TypeOK /\ Place

LEMMA Zeroed ==
  /\ ZeroBlock \in Block /\ ZeroEntry \in MyFSEntry
  /\ [s \in Slots |-> ZeroEntry] \in [Slots -> MyFSEntry]
  /\ [b \in Data |-> ZeroBlock] \in [Data -> Block]
  /\ Idle \in Local
<1>1. ZeroBlock \in Block /\ ZeroEntry \in MyFSEntry
  BY DEF ZeroBlock, Block, Chunk, Ptr, ZeroEntry, MyFSEntry
<1>2. <<>> \in Seq(Chunk)
  OBVIOUS
<1>3. 0 \in 0 .. Width-1 /\ 0 \in 0 .. NE /\ 0 \in Ptr
  BY SizesAssumption DEF Ptr
<1>4. [op |-> "mymkfs", name |-> NoName, file |-> <<>>] \in Command
  BY <1>2 DEF Command, Ops
<1>5. Idle \in Local
  BY <1>1, <1>2, <1>3, <1>4 DEF Idle, Local, PCs
<1> QED
  BY <1>1, <1>5

LEMMA EndedType ==
  ASSUME NEW c \in Command, NEW r \in {"none", "ok", "err"}, NEW o \in Seq(Chunk)
  PROVE  [Idle EXCEPT !.cmd = c, !.res = r, !.out = o] \in Local
BY Zeroed DEF Local

LEMMA LocalFacts ==
  ASSUME l \in Local
  PROVE  /\ l.pc \in PCs /\ l.cmd \in Command /\ l.count \in 0 .. Width-1
         /\ l.first \in Ptr /\ l.cur \in Ptr /\ l.new \in Ptr /\ l.nxt \in Ptr
         /\ l.left \in Nat /\ l.buf \in Block /\ l.slot \in 0 .. NE
         /\ l.out \in Seq(Chunk) /\ op \in Ops /\ l.cmd.file \in Seq(Chunk)
         /\ l.cmd.name \in Names \cup {NoName}
<1>1. /\ l.pc \in PCs /\ l.cmd \in Command /\ l.count \in 0 .. Width-1
      /\ l.first \in Ptr /\ l.cur \in Ptr /\ l.new \in Ptr /\ l.nxt \in Ptr
      /\ l.left \in Nat /\ l.buf \in Block /\ l.slot \in 0 .. NE
      /\ l.out \in Seq(Chunk)
  BY DEF Local
<1> QED
  BY <1>1 DEF Command, op

LEMMA OnVolume ==
  ASSUME IInv, l.pc \in Copying \cup Removing \cup {"read"}
  PROVE  length >= 2 /\ ~(length < 2) /\ l.count = freeCount
<1>1. length \in Nat
  BY SizesAssumption DEF IInv, TypeOK
<1> QED
  BY <1>1 DEF IInv, Place

\* A command that ends leaves the disk to the next.
LEMMA EndInv ==
  ASSUME IInv, NEW r \in {"none", "ok", "err"}, NEW o \in Seq(Chunk), l' = Ended(r, o),
         length' \in {0, 1, 2, NB}, freeCount' \in 0 .. Width-1,
         root' \in [Slots -> MyFSEntry], blk' \in [Data -> Block],
         length' < 2 => /\ root' = [s \in Slots |-> ZeroEntry]
                        /\ blk' = [b \in Data |-> ZeroBlock],
         starts' = starts, crashes' = crashes
  PROVE  IInv'
<1>1. l' \in Local
  BY EndedType, LocalFacts DEF IInv, TypeOK, Ended
<1>2. l'.pc = "idle" /\ l'.slot = 0 /\ l'.first = 0
  BY DEF Ended, Idle
<1>3. Place'
  BY <1>2 DEF Place, Copying, Removing, Formatting, At
<1> QED
  BY <1>1, <1>3 DEF IInv, TypeOK

LEMMA InitInv == Init => IInv
<1> SUFFICES ASSUME Init PROVE IInv
  OBVIOUS
<1>1. TypeOK
  BY Zeroed, SizesAssumption DEF Init, TypeOK
<1>2. l.pc = "idle" /\ l.slot = 0 /\ l.first = 0
  BY DEF Init, Idle
<1>3. Place
  BY <1>2 DEF Place, Copying, Removing, Formatting, At, Init
<1> QED
  BY <1>1, <1>3 DEF IInv

\* Counting modulo Width.
LEMMA Wraps ==
  ASSUME NEW x \in Nat, x < 2 * Width
  PROVE  /\ x % Width = IF x < Width THEN x ELSE x - Width
         /\ x % Width \in 0 .. Width-1
<1>1. Width \in Nat /\ Width > 0
  BY SizesAssumption
<1>2. CASE x < Width
  BY <1>1, <1>2
<1>3. CASE x >= Width
  <2>1. x - Width \in 0 .. Width-1 /\ x = Width * 1 + (x - Width)
    BY <1>1, <1>3
  <2> QED
    BY <1>1, <1>3, <2>1
<1> QED
  BY <1>1, <1>2, <1>3

LEMMA CountMoves ==
  ASSUME NEW k \in 0 .. Width-1
  PROVE  /\ (k + Width - 1) % Width = IF k = 0 THEN Width-1 ELSE k-1
         /\ (k + Width - 1) % Width \in 0 .. Width-1
         /\ (k + 1) % Width = IF k = Width-1 THEN 0 ELSE k+1
         /\ (k + 1) % Width \in 0 .. Width-1
<1>1. Width \in Nat /\ Width >= 3 /\ k \in Nat
  BY SizesAssumption
<1>2. ASSUME NEW x, x = k + Width - 1 PROVE x % Width = IF k = 0 THEN Width-1 ELSE k-1
  <2>1. x \in Nat /\ x < 2 * Width
    BY <1>1, <1>2
  <2>2. x % Width = IF x < Width THEN x ELSE x - Width
    BY <2>1, Wraps
  <2> QED
    BY <1>1, <1>2, <2>2
<1>3. ASSUME NEW x, x = k + 1 PROVE x % Width = IF k = Width-1 THEN 0 ELSE k+1
  <2>1. x \in Nat /\ x < 2 * Width
    BY <1>1, <1>3
  <2>2. x % Width = IF x < Width THEN x ELSE x - Width
    BY <2>1, Wraps
  <2> QED
    BY <1>1, <1>3, <2>2
<1>4. (k + Width - 1) % Width = IF k = 0 THEN Width-1 ELSE k-1
  BY <1>2
<1>5. (k + 1) % Width = IF k = Width-1 THEN 0 ELSE k+1
  BY <1>3
<1>6. (IF k = 0 THEN Width-1 ELSE k-1) \in 0 .. Width-1
  BY <1>1
<1>7. (IF k = Width-1 THEN 0 ELSE k+1) \in 0 .. Width-1
  BY <1>1
<1> QED
  BY <1>4, <1>5, <1>6, <1>7

LEMMA MkfsTruncInv ==
  ASSUME IInv, NEW c \in Menu, MkfsTrunc(c)
  PROVE  IInv'
<1>1. c \in Command /\ c.op = "mymkfs"
  BY DEF MkfsTrunc, Command
<1>2. [Idle EXCEPT !.pc = "fsSuper", !.cmd = c] \in Local
  BY <1>1, Zeroed DEF Local, PCs
<1>3. l'.pc = "fsSuper" /\ l'.slot = 0 /\ l'.first = 0 /\ op' = "mymkfs"
  BY <1>1 DEF MkfsTrunc, Idle, op
<1>4. starts' \in 0 .. MaxStarts /\ UNCHANGED crashes
  BY SizesAssumption DEF MkfsTrunc, IInv, TypeOK
<1>5. TypeOK'
  BY <1>2, <1>4, Zeroed, SizesAssumption DEF MkfsTrunc, IInv, TypeOK
<1>6. Place'
  BY <1>3 DEF Place, Copying, Removing, Formatting, At, MkfsTrunc
<1> QED
  BY <1>5, <1>6 DEF IInv

LEMMA MkfsSuperInv ==
  ASSUME IInv, MkfsSuper
  PROVE  IInv'
<1>1. [l EXCEPT !.pc = "fsRoot"] \in Local
  BY DEF IInv, TypeOK, Local, PCs
<1>2. l'.pc = "fsRoot" /\ l'.slot = 0 /\ l'.first = 0 /\ op' = "mymkfs"
  BY DEF MkfsSuper, IInv, TypeOK, Place, At, Local, op, Removing, Copying, Formatting
<1>3. NB - 2 \in 0 .. Width-1
  BY SizesAssumption
<1>4. TypeOK'
  BY <1>1, <1>3 DEF MkfsSuper, counts, IInv, TypeOK
<1>5. Place'
  BY <1>2 DEF Place, Copying, Removing, Formatting, At, MkfsSuper, IInv
<1> QED
  BY <1>4, <1>5 DEF IInv

LEMMA MkfsRootInv ==
  ASSUME IInv, MkfsRoot
  PROVE  IInv'
<1>1. <<>> \in Seq(Chunk) /\ ~(2 < 2)
  OBVIOUS
<1> QED
  BY <1>1, EndInv DEF MkfsRoot, Finish, IInv, TypeOK, counts

LEMMA ExtendInv ==
  ASSUME IInv, Extend
  PROVE  IInv'
<1>1. NB >= 2 /\ NB \in Nat
  BY SizesAssumption
<1>2. TypeOK'
  BY DEF Extend, IInv, TypeOK, counts
<1>3. Place'
  BY <1>1 DEF Extend, IInv, Place, At, op, Copying, Removing, Formatting
<1> QED
  BY <1>2, <1>3 DEF IInv

LEMMA StartInv ==
  ASSUME IInv, NEW c \in Menu, Start(c)
  PROVE  IInv'
<1> DEFINE m == [Idle EXCEPT !.cmd = c, !.count = freeCount]
<1>1. c \in Command /\ c.file \in Files /\ c.file \in Seq(Chunk) /\ Len(c.file) \in Nat
  BY DEF Command
<1>2. m \in Local
  BY <1>1, Zeroed DEF IInv, TypeOK, Local
<1>3. m.slot = 0 /\ m.first = 0 /\ m.cmd = c /\ m.count = freeCount /\ m.pc = "idle"
      /\ m.left = 0
  BY DEF Idle
<1>4. length >= 2 /\ UNCHANGED disk /\ starts' \in 0 .. MaxStarts /\ UNCHANGED crashes
  <2>1. length >= 2 /\ UNCHANGED disk /\ UNCHANGED crashes
    BY DEF Start
  <2>2. starts' = starts + 1 /\ starts < MaxStarts
    BY DEF Start
  <2> QED
    BY <2>1, <2>2, SizesAssumption DEF IInv, TypeOK
<1> HIDE DEF m
<1>5. ASSUME l' \in Local, Place'
      PROVE  IInv'
  BY <1>4, <1>5 DEF IInv, TypeOK, disk
<1>6. ASSUME l' = [m EXCEPT !.res = "err", !.count = 0]
      PROVE  IInv'
  <2>1. l' \in Local
    <3>1. 0 \in 0 .. Width-1
      BY SizesAssumption
    <3>2. [m EXCEPT !.res = "err", !.count = 0] \in Local
      BY <1>2, <3>1 DEF Local
    <3> QED
      BY <3>2, <1>6
  <2>2. l'.pc = "idle" /\ l'.slot = 0 /\ l'.first = 0
    BY <1>2, <1>3, <1>6 DEF Local
  <2>3. Place'
    BY <2>2, <1>4 DEF IInv, TypeOK, disk, Place, Copying, Removing, Formatting, At
  <2> QED
    BY <2>1, <2>3, <1>5
<1>7. CASE c.op = "mycopyto"
  <2>1. l' = [m EXCEPT !.pc = IF c.file = <<>> THEN "insert" ELSE "find", !.left = Len(c.file)]
    BY <1>7 DEF Start, m
  <2>2. l' \in Local
    BY <1>1, <1>2, <2>1 DEF Local, PCs
  <2>3. /\ l'.pc = IF c.file = <<>> THEN "insert" ELSE "find"
        /\ l'.left = Len(c.file) /\ l'.slot = 0 /\ l'.first = 0 /\ l'.cmd = c
        /\ l'.count = freeCount
    BY <1>2, <1>3, <2>1 DEF Local
  <2>4. /\ c.file = <<>> => Len(c.file) = 0
        /\ c.file # <<>> => Len(c.file) \in 1 .. Len(c.file)
    BY <1>1
  <2>5. Place'
    BY <2>3, <2>4, <1>1, <1>4, <1>7
       DEF IInv, TypeOK, disk, Place, Copying, Removing, Formatting, At, op
  <2> QED
    BY <2>2, <2>5, <1>5
<1>8. CASE c.op # "mycopyto"
  <2>1. CASE Matching(c.name) = {}
    BY <1>6, <1>8, <2>1 DEF Start, m, IsFirst
  <2>2. CASE Matching(c.name) # {}
    <3>1. PICK s \in Slots :
            l' = IF root[s].type # "f" THEN [m EXCEPT !.res = "err", !.count = 0]
                 ELSE [m EXCEPT !.pc = IF c.op = "mycopyfrom" THEN "read"
                                       ELSE IF root[s].start = 0 THEN "clear" ELSE "free",
                                !.slot = s, !.cur = root[s].start,
                                !.left = IF c.op = "myrm" THEN 0 ELSE root[s].size]
      BY <1>8, <2>2 DEF Start, m
    <3>2. CASE root[s].type # "f"
      BY <3>1, <3>2, <1>6
    <3>3. CASE root[s].type = "f"
      <4> DEFINE pc == IF c.op = "mycopyfrom" THEN "read"
                       ELSE IF root[s].start = 0 THEN "clear" ELSE "free"
                 left == IF c.op = "myrm" THEN 0 ELSE root[s].size
      <4>1. l' = [m EXCEPT !.pc = pc, !.slot = s, !.cur = root[s].start, !.left = left]
        BY <3>1, <3>3
      <4>2. root[s].start \in Ptr /\ root[s].size \in Nat /\ s \in 0 .. NE
        BY SizesAssumption DEF IInv, TypeOK, MyFSEntry, Slots
      <4>3. pc \in {"read", "clear", "free"} /\ left \in Nat
        BY <4>2
      <4>4. c.op \in {"mycopyfrom", "myrm"}
        BY <1>1, <1>8 DEF Start, Command, Ops
      <4>5. /\ pc = "read" => c.op = "mycopyfrom"
            /\ pc # "read" => c.op = "myrm"
            /\ pc = "free" => root[s].start \in Data
            /\ pc = "clear" => root[s].start = 0
        BY <4>2, <4>4 DEF Ptr
      <4> HIDE DEF pc, left
      <4>6. l' \in Local
        BY <1>2, <4>1, <4>2, <4>3 DEF Local, PCs
      <4>7. l'.pc = pc /\ l'.slot = s /\ l'.first = 0 /\ l'.cmd = c /\ l'.count = freeCount
            /\ l'.cur = root[s].start
        BY <1>2, <1>3, <4>1 DEF Local
      <4>8. Place'
        BY <4>3, <4>5, <4>7, <1>4
           DEF IInv, TypeOK, disk, Place, Copying, Removing, Formatting, At, op
      <4> QED
        BY <4>6, <4>8, <1>5
    <3> QED
      BY <3>2, <3>3
  <2> QED
    BY <2>1, <2>2
<1> QED
  BY <1>7, <1>8

\* A command that ends without a write, and one that ends with one.
LEMMA FinishInv ==
  ASSUME IInv, NEW r \in {"ok", "err"}, NEW o \in Seq(Chunk), l' = Ended(r, o),
         UNCHANGED <<disk, counts>>
  PROVE  IInv'
<1>1. UNCHANGED <<length, freeCount, root, blk, starts, crashes>>
  BY DEF disk, counts
<1> QED
  BY <1>1, EndInv DEF IInv, TypeOK, Place

LEMMA FindInv ==
  ASSUME IInv, Find
  PROVE  IInv'
<1>1. <<>> \in Seq(Chunk)
  OBVIOUS
<1>2. CASE l' = Ended("err", <<>>)
  BY <1>1, <1>2, FinishInv DEF Find
<1>3. ASSUME NEW b \in Data, l' = [l EXCEPT !.pc = "super", !.new = b]
      PROVE  IInv'
  <2>1. l' \in Local
    BY <1>3 DEF IInv, TypeOK, Local, PCs, Ptr
  <2>2. l'.pc = "super" /\ l'.cmd = l.cmd /\ l'.left = l.left /\ l'.slot = l.slot
        /\ l'.count = l.count
    BY <1>3 DEF IInv, TypeOK, Local
  <2>3. TypeOK'
    BY <2>1 DEF Find, IInv, TypeOK, disk, counts
  <2>4. Place'
    BY <2>2 DEF Find, disk, IInv, Place, Copying, Removing, Formatting, At, op
  <2> QED
    BY <2>3, <2>4 DEF IInv
<1> QED
  BY <1>2, <1>3 DEF Find, Finish

LEMMA AllocSuperInv ==
  ASSUME IInv, AllocSuper
  PROVE  IInv'
<1> DEFINE n == (l.count + Width - 1) % Width
<1>1. n \in 0 .. Width-1
  BY LocalFacts, CountMoves DEF IInv, TypeOK
<1> HIDE DEF n
<1>2. /\ freeCount' = n
      /\ l' = [l EXCEPT !.pc = IF l.first = 0 THEN "write" ELSE "link", !.count = n,
                        !.first = IF l.first = 0 THEN l.new ELSE l.first,
                        !.cur = IF l.first = 0 THEN l.new ELSE l.cur]
  BY DEF AllocSuper, n
<1>3. l' \in Local
  BY <1>1, <1>2 DEF IInv, TypeOK, Local, PCs
<1>4. l'.pc \in {"link", "write"} /\ l'.cmd = l.cmd /\ l'.left = l.left /\ l'.slot = l.slot
      /\ l'.count = freeCount'
  BY <1>2 DEF IInv, TypeOK, Local
<1>5. TypeOK'
  BY <1>1, <1>2, <1>3 DEF AllocSuper, IInv, TypeOK, counts
<1>6. Place'
  BY <1>4 DEF AllocSuper, IInv, Place, Copying, Removing, Formatting, At, op
<1> QED
  BY <1>5, <1>6 DEF IInv

LEMMA CopyLinkInv ==
  ASSUME IInv, CopyLink
  PROVE  IInv'
<1>0. ~(length < 2)
  BY OnVolume DEF CopyLink, At, Copying
<1>1. [l.buf EXCEPT !.next = l.new] \in Block
  BY LocalFacts DEF IInv, TypeOK, Block
<1>2. l' = [l EXCEPT !.pc = "write", !.cur = l.new]
  BY DEF CopyLink
<1>3. l' \in Local
  BY <1>2 DEF IInv, TypeOK, Local, PCs
<1>4. l'.pc = "write" /\ l'.cmd = l.cmd /\ l'.left = l.left /\ l'.slot = l.slot
      /\ l'.count = l.count
  BY <1>2 DEF IInv, TypeOK, Local
<1>5. TypeOK'
  BY <1>1, <1>3 DEF CopyLink, IInv, TypeOK, counts
<1>6. Place'
  BY <1>0, <1>4 DEF CopyLink, IInv, Place, Copying, Removing, Formatting, At, op
<1> QED
  BY <1>5, <1>6 DEF IInv

LEMMA CopyWriteInv ==
  ASSUME IInv, CopyWrite
  PROVE  IInv'
<1> DEFINE b == [data |-> l.cmd.file[Len(l.cmd.file) - l.left + 1], next |-> 0]
           p == IF l.left = 1 THEN "insert" ELSE "find"
           k == l.left - 1
<1>0. ~(length < 2)
  BY OnVolume DEF CopyWrite, At, Copying
<1>1. l.left \in 1 .. Len(l.cmd.file) /\ l.cmd.file \in Seq(Chunk)
  BY LocalFacts DEF CopyWrite, IInv, TypeOK, Place, At, Copying
<1>2. Len(l.cmd.file) \in Nat
      /\ Len(l.cmd.file) - l.left + 1 \in 1 .. Len(l.cmd.file)
  BY <1>1
<1>3. b \in Block
  BY <1>1, <1>2 DEF Block, Ptr
<1>4. /\ p \in {"insert", "find"} /\ k \in Nat
      /\ p = "insert" => k = 0
      /\ p = "find" => k \in 1 .. Len(l.cmd.file)
  BY <1>1, <1>2
<1>5. blk' = [blk EXCEPT ![l.cur] = b]
      /\ l' = [l EXCEPT !.pc = p, !.buf = b, !.left = k]
      /\ UNCHANGED <<length, freeCount, root, starts, crashes>>
  BY DEF CopyWrite, counts
<1> HIDE DEF b, p, k
<1>6. l' \in Local
  BY <1>3, <1>4, <1>5 DEF IInv, TypeOK, Local, PCs
<1>7. l'.pc = p /\ l'.left = k /\ l'.cmd = l.cmd /\ l'.slot = l.slot /\ l'.count = l.count
  BY <1>5 DEF IInv, TypeOK, Local
<1>8. TypeOK'
  BY <1>3, <1>5, <1>6 DEF IInv, TypeOK
<1>9. Place'
  BY <1>0, <1>4, <1>5, <1>7 DEF CopyWrite, IInv, Place, Copying, Removing, Formatting, At, op
<1> QED
  BY <1>8, <1>9 DEF IInv

LEMMA InsertInv ==
  ASSUME IInv, Insert
  PROVE  IInv'
<1>1. <<>> \in Seq(Chunk) /\ length >= 2 /\ UNCHANGED <<length, freeCount, blk, counts>>
  BY DEF Insert, IInv, Place, At, Copying
<1>2. NewEntry \in MyFSEntry
  <2>1. l.cmd.file \in Seq(Chunk) /\ l.first \in Ptr /\ l.cmd.name \in Names \cup {NoName}
    BY LocalFacts DEF IInv, TypeOK
  <2> QED
    BY <2>1 DEF NewEntry, MyFSEntry
<1>3. root' \in [Slots -> MyFSEntry] /\ \E r \in {"ok", "err"} : l' = Ended(r, <<>>)
  BY <1>2 DEF Insert, Finish, IInv, TypeOK
<1>4. ~(length' < 2)
  BY <1>1, SizesAssumption DEF IInv, TypeOK
<1> QED
  BY <1>1, <1>3, <1>4, EndInv DEF counts, IInv, TypeOK

LEMMA ReadInv ==
  ASSUME IInv, Read
  PROVE  IInv'
<1>1. CASE l.left = 0 \/ l.cur = 0
  BY <1>1, FinishInv, LocalFacts DEF Read, IInv, TypeOK
<1>2. CASE ~(l.left = 0 \/ l.cur = 0)
  <2>1. l.cur \in Data /\ l.left \in Nat /\ l.left # 0 /\ l.out \in Seq(Chunk)
    BY <1>2, LocalFacts DEF IInv, TypeOK, Ptr
  <2>2. blk[l.cur].data \in Chunk /\ blk[l.cur].next \in Ptr
    BY <2>1 DEF IInv, TypeOK, Block
  <2>3. Append(l.out, blk[l.cur].data) \in Seq(Chunk) /\ l.left - 1 \in Nat
    BY <2>1, <2>2
  <2>4. l' = [l EXCEPT !.out = Append(l.out, blk[l.cur].data), !.left = l.left - 1,
                       !.cur = blk[l.cur].next]
    BY <1>2 DEF Read
  <2>5. l' \in Local
    BY <2>2, <2>3, <2>4 DEF IInv, TypeOK, Local
  <2>6. l'.pc = l.pc /\ l'.cmd = l.cmd /\ l'.slot = l.slot /\ l'.count = l.count
        /\ l'.first = l.first
    BY <2>4 DEF IInv, TypeOK, Local
  <2>7. TypeOK'
    BY <2>5 DEF Read, IInv, TypeOK, disk, counts
  <2>8. Place'
    BY <2>6 DEF Read, IInv, disk, Place, Copying, Removing, Formatting, At, op
  <2> QED
    BY <2>7, <2>8 DEF IInv
<1> QED
  BY <1>1, <1>2

LEMMA FreeInv ==
  ASSUME IInv, Free
  PROVE  IInv'
<1>0. ~(length < 2)
  BY OnVolume DEF Free, At, Removing
<1>1. l.cur \in Data /\ blk[l.cur].next \in Ptr
  BY DEF Free, IInv, Place, TypeOK, Block
<1>2. l' = [l EXCEPT !.pc = "freed", !.nxt = blk[l.cur].next]
  BY DEF Free
<1>3. l' \in Local
  BY <1>1, <1>2 DEF IInv, TypeOK, Local, PCs
<1>4. l'.pc = "freed" /\ l'.cmd = l.cmd /\ l'.slot = l.slot /\ l'.count = l.count
      /\ l'.first = l.first
  BY <1>2 DEF IInv, TypeOK, Local
<1>5. TypeOK'
  BY <1>3, Zeroed DEF Free, IInv, TypeOK, counts
<1>6. Place'
  BY <1>0, <1>4 DEF Free, IInv, Place, Copying, Removing, Formatting, At, op
<1> QED
  BY <1>5, <1>6 DEF IInv

LEMMA FreeSuperInv ==
  ASSUME IInv, FreeSuper
  PROVE  IInv'
<1> DEFINE n == (l.count + 1) % Width
<1>1. n \in 0 .. Width-1 /\ 0 \in Ptr /\ l.nxt \in Ptr
  BY LocalFacts, CountMoves DEF IInv, TypeOK, Ptr
<1> HIDE DEF n
<1>2. /\ freeCount' = n
      /\ l' = [l EXCEPT !.pc = IF l.nxt = 0 THEN "clear" ELSE "free", !.count = n,
                        !.cur = l.nxt, !.nxt = 0]
  BY DEF FreeSuper, n
<1>3. l' \in Local
  BY <1>1, <1>2 DEF IInv, TypeOK, Local, PCs
<1>4. /\ l'.pc = IF l.nxt = 0 THEN "clear" ELSE "free"
      /\ l'.cmd = l.cmd /\ l'.slot = l.slot /\ l'.count = n /\ l'.first = l.first
      /\ l'.cur = l.nxt
  BY <1>2 DEF IInv, TypeOK, Local
<1>5. TypeOK'
  BY <1>1, <1>2, <1>3 DEF FreeSuper, IInv, TypeOK, counts
<1>6. Place'
  BY <1>1, <1>2, <1>4 DEF FreeSuper, IInv, Place, Copying, Removing, Formatting, At, op, Ptr
<1> QED
  BY <1>5, <1>6 DEF IInv

LEMMA ClearInv ==
  ASSUME IInv, Clear
  PROVE  IInv'
<1>1. <<>> \in Seq(Chunk) /\ length >= 2 /\ UNCHANGED <<length, freeCount, blk, counts>>
  BY DEF Clear, IInv, Place, At, Removing
<1>2. root' \in [Slots -> MyFSEntry] /\ l' = Ended("ok", <<>>)
  BY Zeroed DEF Clear, Finish, IInv, TypeOK
<1>3. ~(length' < 2)
  BY <1>1, SizesAssumption DEF IInv, TypeOK
<1> QED
  BY <1>1, <1>2, <1>3, EndInv DEF counts, IInv, TypeOK

LEMMA CrashInv ==
  ASSUME IInv, Crash
  PROVE  IInv'
<1>1. l' = Idle /\ UNCHANGED <<length, freeCount, root, blk, starts>>
      /\ crashes' \in 0 .. MaxCrashes
  <2>1. l' = Idle /\ UNCHANGED <<length, freeCount, root, blk, starts>>
        /\ crashes' = crashes + 1 /\ crashes < MaxCrashes
    BY DEF Crash, disk
  <2> QED
    BY <2>1, SizesAssumption DEF IInv, TypeOK
<1>2. l'.pc = "idle" /\ l'.slot = 0 /\ l'.first = 0
  BY <1>1 DEF Idle
<1>3. TypeOK'
  BY <1>1, Zeroed DEF IInv, TypeOK
<1>4. Place'
  BY <1>1, <1>2 DEF IInv, Place, Copying, Removing, Formatting, At
<1> QED
  BY <1>3, <1>4 DEF IInv

LEMMA NextInv == IInv /\ [Next]_vars => IInv'
<1> SUFFICES ASSUME IInv, [Next]_vars PROVE IInv'
  OBVIOUS
<1>1. CASE UNCHANGED vars
  BY <1>1 DEF vars, IInv, TypeOK, Place, At, op
<1>2. CASE \E c \in Menu : Start(c) \/ MkfsTrunc(c)
  BY <1>2, StartInv, MkfsTruncInv
<1>3. CASE Step
  BY <1>3, MkfsSuperInv, MkfsRootInv, FindInv, AllocSuperInv, CopyLinkInv, CopyWriteInv,
     InsertInv, ReadInv, FreeInv, FreeSuperInv, ClearInv DEF Step
<1>4. CASE Extend \/ Crash
  BY <1>4, ExtendInv, CrashInv
<1> QED
  BY <1>1, <1>2, <1>3, <1>4 DEF Next

LEMMA IInvAlways == Spec => []IInv
BY InitInv, NextInv, PTL DEF Spec

\* Every variable of the chained volume stays in its type, whatever commands
\* are given and killed: no pointer of solution.c leaves the volume.
THEOREM VolumeTypeCorrect == Spec => []TypeOK
<1>1. IInv => TypeOK
  BY DEF IInv
<1> QED
  BY <1>1, IInvAlways, PTL

-----------------------------------------------------------------------------
(* The volume as chains: c[s] lists the blocks of the entry in slot s, c[0] *)
(* those a running mycopyto has allocated.                                  *)

Cells == 0 .. NE
Nth(q, i) == IF i <= Len(q) THEN q[i] ELSE 0
Linked(B, p, q) == /\ p = Nth(q, 1)
                   /\ \A i \in 1 .. Len(q) : B[q[i]].next = Nth(q, i+1)
Text(B, q) == [i \in 1 .. Len(q) |-> B[q[i]].data]
Full(B, q) == \A i \in 1 .. Len(q) : B[q[i]].data # Zero
Apart(c) == \A s, t \in Cells : \A i \in 1 .. Len(c[s]), j \in 1 .. Len(c[t]) :
              c[s][i] = c[t][j] => s = t /\ i = j

\* Where the chain of a cell starts: myrm frees its entry's from the front.
Leaving == IF l.pc \in Removing THEN {l.slot} ELSE {}
Front(s) == IF s = 0 THEN l.first
           ELSE IF s \notin Leaving THEN root[s].start
           ELSE IF At("freed") THEN l.nxt ELSE l.cur

\* An entry that stays holds a whole host file.
Stored(c) == \A s \in Slots \ Leaving :
  \/ root[s] = ZeroEntry
  \/ root[s].type = "f" /\ Len(c[s]) = root[s].size /\ Text(blk, c[s]) \in Files

\* What mycopyto has allocated holds what it has written so far; at "write" the
\* last block is still zero, at "super" and "link" the new one is in no chain.
Prefix(q) ==
  LET k == Len(l.cmd.file) - l.left IN
  /\ Len(q) = IF At("write") THEN k+1 ELSE k
  /\ \A i \in 1 .. k : blk[q[i]].data = l.cmd.file[i]
  /\ At("write") => blk[q[k+1]] = ZeroBlock
  /\ q # <<>> => l.cur = q[Len(q)]
  /\ l.pc \in {"find", "super", "link"} /\ q # <<>> => l.buf = blk[l.cur]
  /\ l.pc \in {"super", "link"} => l.new \in Data /\ blk[l.new] = ZeroBlock
  /\ At("link") => q # <<>>

Vol(c) ==
  /\ c \in [Cells -> Seq(Data)]
  /\ Apart(c)
  /\ \A s \in Cells : Linked(blk, Front(s), c[s])
  /\ \A s \in Slots : Full(blk, c[s])
  /\ Stored(c)
  /\ l.pc \in Copying => Prefix(c[0])

LEMMA CellFacts ==
  /\ 0 \in Cells /\ Slots \subseteq Cells /\ 0 \notin Slots
  /\ \A s \in Cells : s # 0 => s \in Slots
  /\ 0 \notin Data
BY SizesAssumption DEF Cells, Slots, Data

LEMMA Listed ==
  ASSUME NEW q \in Seq(Data)
  PROVE  /\ Len(q) \in Nat /\ q \in [1 .. Len(q) -> Data]
         /\ \A i \in 1 .. Len(q) : q[i] \in Data /\ Nth(q, i) = q[i]
         /\ q = <<>> <=> Len(q) = 0
BY DEF Nth

LEMMA Unchained ==
  ASSUME NEW B, NEW q \in Seq(Data), Linked(B, 0, q)
  PROVE  q = <<>>
<1>1. Len(q) \in Nat /\ Nth(q, 1) = 0
  BY DEF Linked
<1>2. ASSUME Len(q) # 0 PROVE FALSE
  <2>1. 1 \in 1 .. Len(q)
    BY <1>1, <1>2
  <2> QED
    BY <2>1, <1>1, Listed, CellFacts
<1> QED
  BY <1>1, <1>2, Listed

LEMMA NoChain ==
  ASSUME NEW B
  PROVE  Linked(B, 0, <<>>) /\ Full(B, <<>>) /\ Text(B, <<>>) = <<>> /\ <<>> \in Seq(Data)
         /\ Len(<<>>) = 0
BY DEF Linked, Full, Text, Nth

\* A chain does not notice a change outside it.
LEMMA Same ==
  ASSUME NEW B, NEW C, NEW q \in Seq(Data), NEW p,
         \A i \in 1 .. Len(q) : C[q[i]] = B[q[i]]
  PROVE  /\ Linked(C, p, q) <=> Linked(B, p, q)
         /\ Full(C, q) <=> Full(B, q)
         /\ Text(C, q) = Text(B, q)
BY DEF Linked, Full, Text

\* Without its first block a chain starts at the second.
LEMMA Pop ==
  ASSUME NEW B, NEW q \in Seq(Data), NEW p \in Data, Linked(B, p, q)
  PROVE  /\ q # <<>> /\ Len(q) >= 1 /\ q[1] = p
         /\ Tail(q) \in Seq(Data) /\ Len(Tail(q)) = Len(q) - 1
         /\ \A i \in 1 .. Len(Tail(q)) : Tail(q)[i] = q[i+1] /\ i+1 \in 1 .. Len(q)
         /\ Linked(B, B[p].next, Tail(q))
<1>1. Len(q) \in Nat /\ p = Nth(q, 1)
  BY DEF Linked
<1>2. Len(q) >= 1 /\ q[1] = p /\ q # <<>>
  BY <1>1, CellFacts DEF Nth
<1>3. Tail(q) \in Seq(Data) /\ Len(Tail(q)) = Len(q) - 1
      /\ \A i \in 1 .. Len(Tail(q)) : Tail(q)[i] = q[i+1] /\ i+1 \in 1 .. Len(q)
  BY <1>1, <1>2
<1>4. \A i \in 1 .. Len(q) : Nth(Tail(q), i) = Nth(q, i+1)
  BY <1>1, <1>2, <1>3 DEF Nth
<1>5. B[p].next = Nth(Tail(q), 1)
  <2>1. 1 \in 1 .. Len(q)
    BY <1>1, <1>2
  <2>2. B[q[1]].next = Nth(q, 1+1)
    BY <2>1 DEF Linked
  <2> QED
    BY <2>1, <2>2, <1>2, <1>4
<1>6. ASSUME NEW i \in 1 .. Len(Tail(q)) PROVE B[Tail(q)[i]].next = Nth(Tail(q), i+1)
  <2>1. i+1 \in 1 .. Len(q) /\ Tail(q)[i] = q[i+1]
    BY <1>3
  <2>2. B[q[i+1]].next = Nth(q, (i+1)+1)
    BY <2>1 DEF Linked
  <2> QED
    BY <2>1, <2>2, <1>4
<1> QED
  BY <1>2, <1>3, <1>5, <1>6 DEF Linked

\* A block linked behind the last.
LEMMA Grow ==
  ASSUME NEW B, NEW C, NEW q \in Seq(Data), NEW p, NEW n \in Data, Linked(B, p, q),
         \A i \in 1 .. Len(q) : i # Len(q) => C[q[i]] = B[q[i]],
         q # <<>> => C[q[Len(q)]].next = n,
         C[n].next = 0
  PROVE  /\ Append(q, n) \in Seq(Data) /\ Len(Append(q, n)) = Len(q) + 1
         /\ \A i \in 1 .. Len(q) : Append(q, n)[i] = q[i]
         /\ Append(q, n)[Len(q) + 1] = n
         /\ Linked(C, IF q = <<>> THEN n ELSE p, Append(q, n))
<1> DEFINE r == Append(q, n)
<1>1. /\ r \in Seq(Data) /\ Len(r) = Len(q) + 1 /\ Len(q) \in Nat
      /\ \A i \in 1 .. Len(q) : r[i] = q[i]
      /\ r[Len(q) + 1] = n
  OBVIOUS
<1> HIDE DEF r
<1>2. (IF q = <<>> THEN n ELSE p) = Nth(r, 1)
  <2>1. CASE q = <<>>
    BY <2>1, <1>1 DEF Nth
  <2>2. CASE q # <<>>
    <3>1. 1 \in 1 .. Len(q) /\ 1 <= Len(r)
      BY <2>2, <1>1
    <3> QED
      BY <2>2, <3>1, <1>1 DEF Nth, Linked
  <2> QED
    BY <2>1, <2>2
<1>3. ASSUME NEW i \in 1 .. Len(r) PROVE C[r[i]].next = Nth(r, i+1)
  <2>1. CASE i = Len(q) + 1
    BY <2>1, <1>1 DEF Nth
  <2>2. CASE i = Len(q)
    <3>1. q # <<>> /\ i \in 1 .. Len(q) /\ i+1 = Len(q) + 1
      BY <2>2, <1>1
    <3> QED
      BY <2>2, <3>1, <1>1 DEF Nth
  <2>3. CASE i < Len(q)
    <3>1. i \in 1 .. Len(q) /\ i # Len(q) /\ i+1 \in 1 .. Len(q) /\ i+1 <= Len(r)
      BY <2>3, <1>1
    <3>2. B[q[i]].next = Nth(q, i+1)
      BY <3>1 DEF Linked
    <3>3. Nth(q, i+1) = q[i+1] /\ Nth(r, i+1) = r[i+1]
      BY <3>1 DEF Nth
    <3> QED
      BY <3>1, <3>2, <3>3, <1>1
  <2> QED
    BY <2>1, <2>2, <2>3, <1>1
<1> QED
  BY <1>1, <1>2, <1>3 DEF Linked, r

-----------------------------------------------------------------------------
(* How the chains of the cells change together.                            *)

Family == [Cells -> Seq(Data)]

LEMMA ApartDrop ==
  ASSUME NEW c \in Family, Apart(c), NEW s \in Cells
  PROVE  [c EXCEPT ![s] = <<>>] \in Family /\ Apart([c EXCEPT ![s] = <<>>])
<1>1. <<>> \in Seq(Data) /\ Len(<<>>) = 0
  OBVIOUS
<1> QED
  BY <1>1 DEF Apart, Family

LEMMA ApartPop ==
  ASSUME NEW c \in Family, Apart(c), NEW s \in Cells,
         Tail(c[s]) \in Seq(Data), Len(Tail(c[s])) = Len(c[s]) - 1,
         \A i \in 1 .. Len(Tail(c[s])) : Tail(c[s])[i] = c[s][i+1] /\ i+1 \in 1 .. Len(c[s])
  PROVE  [c EXCEPT ![s] = Tail(@)] \in Family /\ Apart([c EXCEPT ![s] = Tail(@)])
<1> DEFINE d == [c EXCEPT ![s] = Tail(@)]
           At1(t, i) == IF t = s THEN i+1 ELSE i
<1>1. d \in Family
  BY DEF Family
<1>2. \A t \in Cells : \A i \in 1 .. Len(d[t]) :
         d[t][i] = c[t][At1(t, i)] /\ At1(t, i) \in 1 .. Len(c[t])
  BY DEF Family
<1>3. ASSUME NEW t \in Cells, NEW u \in Cells, NEW i \in 1 .. Len(d[t]),
             NEW j \in 1 .. Len(d[u]), d[t][i] = d[u][j]
      PROVE  t = u /\ i = j
  <2>1. t = u /\ At1(t, i) = At1(u, j)
    BY <1>2, <1>3 DEF Apart
  <2>2. i \in Int /\ j \in Int
    OBVIOUS
  <2> QED
    BY <2>1, <2>2
<1> QED
  BY <1>1, <1>3 DEF Apart

LEMMA ApartGrow ==
  ASSUME NEW c \in Family, Apart(c), NEW s \in Cells, NEW n \in Data,
         \A t \in Cells : \A i \in 1 .. Len(c[t]) : c[t][i] # n
  PROVE  [c EXCEPT ![s] = Append(@, n)] \in Family
         /\ Apart([c EXCEPT ![s] = Append(@, n)])
<1> DEFINE r == Append(c[s], n)
           d == [c EXCEPT ![s] = r]
<1>1. /\ c[s] \in Seq(Data) /\ r \in Seq(Data) /\ Len(r) = Len(c[s]) + 1 /\ Len(c[s]) \in Nat
      /\ \A i \in 1 .. Len(c[s]) : r[i] = c[s][i]
      /\ r[Len(c[s]) + 1] = n
  BY DEF Family
<1> HIDE DEF r
<1>2. d \in Family
  BY <1>1 DEF Family
<1>3. \A t \in Cells : \A i \in 1 .. Len(d[t]) :
        \/ i \in 1 .. Len(c[t]) /\ d[t][i] = c[t][i]
        \/ t = s /\ i = Len(c[s]) + 1 /\ d[t][i] = n
  BY <1>1 DEF Family
<1> HIDE DEF d
<1>4. ASSUME NEW t \in Cells, NEW u \in Cells, NEW i \in 1 .. Len(d[t]),
             NEW j \in 1 .. Len(d[u]), d[t][i] = d[u][j]
      PROVE  t = u /\ i = j
  <2> DEFINE x == d[t][i]
             y == d[u][j]
  <2>1. \/ i \in 1 .. Len(c[t]) /\ x = c[t][i] /\ x # n
        \/ t = s /\ i = Len(c[s]) + 1 /\ x = n
    BY <1>3
  <2>2. \/ j \in 1 .. Len(c[u]) /\ y = c[u][j] /\ y # n
        \/ u = s /\ j = Len(c[s]) + 1 /\ y = n
    BY <1>3
  <2>3. x = y
    BY <1>4
  <2> HIDE DEF x, y
  <2>4. CASE x = n
    BY <2>1, <2>2, <2>3, <2>4
  <2>5. CASE x # n
    <3>1. /\ i \in 1 .. Len(c[t]) /\ x = c[t][i]
          /\ j \in 1 .. Len(c[u]) /\ y = c[u][j]
      BY <2>1, <2>2, <2>3, <2>5
    <3>2. c[t][i] = c[u][j]
      BY <2>3, <3>1
    <3> QED
      BY <3>1, <3>2 DEF Apart
  <2> QED
    BY <2>4, <2>5
<1>5. Apart(d)
  BY <1>4 DEF Apart
<1> QED
  BY <1>2, <1>5 DEF d, r

LEMMA ApartMove ==
  ASSUME NEW c \in Family, Apart(c), NEW s \in Slots
  PROVE  [c EXCEPT ![s] = c[0], ![0] = <<>>] \in Family
         /\ Apart([c EXCEPT ![s] = c[0], ![0] = <<>>])
<1> DEFINE d == [c EXCEPT ![s] = c[0], ![0] = <<>>]
           Of(t) == IF t = s THEN 0 ELSE t
<1>1. <<>> \in Seq(Data) /\ Len(<<>>) = 0
  OBVIOUS
<1>2. d \in Family
  BY <1>1, CellFacts DEF Family
<1>3. \A t \in Cells : Len(d[t]) # 0 => d[t] = c[Of(t)] /\ t # 0 /\ Of(t) \in Cells
  BY <1>1, CellFacts DEF Family
<1>4. \A t \in Cells : Len(d[t]) \in Nat
  BY <1>2 DEF Family
<1> HIDE DEF d
<1>5. ASSUME NEW t \in Cells, NEW u \in Cells, NEW i \in 1 .. Len(d[t]),
             NEW j \in 1 .. Len(d[u]), d[t][i] = d[u][j]
      PROVE  t = u /\ i = j
  <2>1. Len(d[t]) # 0 /\ Len(d[u]) # 0
    BY <1>4
  <2>2. d[t] = c[Of(t)] /\ d[u] = c[Of(u)] /\ t # 0 /\ u # 0 /\ Of(t) \in Cells /\ Of(u) \in Cells
    BY <1>3, <2>1
  <2>3. Of(t) = Of(u) /\ i = j
    BY <1>5, <2>2 DEF Apart
  <2> QED
    BY <2>2, <2>3
<1> QED
  BY <1>2, <1>5 DEF Apart, d

-----------------------------------------------------------------------------
(* Every step keeps the chains, and what a user sees of an entry.          *)

Kept(c, d) == \A s \in Live : s \in Live' => /\ root'[s] = root[s]
                                             /\ Text(blk', d[s]) = Text(blk, c[s])
Moves(c) == \E d : Vol(d)' /\ Kept(c, d)

LEMMA VolFacts ==
  ASSUME NEW c, Vol(c)
  PROVE  /\ c \in Family /\ Apart(c)
         /\ \A s \in Cells : c[s] \in Seq(Data) /\ Linked(blk, Front(s), c[s])
         /\ \A s \in Slots : Full(blk, c[s])
BY DEF Vol, Family

\* A step that writes no entry and no block of one.
LEMMA StillChains ==
  ASSUME IInv, IInv', NEW c, Vol(c), NEW d \in Family, UNCHANGED root,
         \A s \in Slots : \A i \in 1 .. Len(c[s]) : blk'[c[s][i]] = blk[c[s][i]],
         \A s \in Slots : d[s] = c[s], Apart(d), Leaving \subseteq Leaving',
         \A s \in Slots : Front(s)' = Front(s),
         Linked(blk', l'.first, d[0]),
         l'.pc \in Copying => Prefix(d[0])'
  PROVE  Moves(c)
<1>1. ASSUME NEW s \in Slots
      PROVE  Linked(blk', Front(s), d[s]) /\ Full(blk', d[s])
             /\ Text(blk', d[s]) = Text(blk, c[s])
  <2>1. c[s] \in Seq(Data) /\ Linked(blk, Front(s), c[s]) /\ Full(blk, c[s]) /\ d[s] = c[s]
    BY VolFacts, CellFacts
  <2>2. /\ Linked(blk', Front(s), c[s]) <=> Linked(blk, Front(s), c[s])
        /\ Full(blk', c[s]) <=> Full(blk, c[s])
        /\ Text(blk', c[s]) = Text(blk, c[s])
    <3>1. \A i \in 1 .. Len(c[s]) : blk'[c[s][i]] = blk[c[s][i]]
      OBVIOUS
    <3> HIDE DEF Linked, Full, Text, Front
    <3> QED
      BY <2>1, <3>1, Same
  <2> QED
    BY <2>1, <2>2
<1>2. \A s \in Cells : Linked(blk', Front(s)', d[s])
  BY <1>1, CellFacts DEF Front
<1>3. Stored(d)'
  BY <1>1 DEF Vol, Stored
<1>4. Vol(d)'
  <2>1. d \in [Cells -> Seq(Data)] /\ Apart(d)
    BY DEF Family
  <2>2. \A s \in Slots : Full(blk', d[s])
    BY <1>1
  <2>3. (l.pc \in Copying => Prefix(d[0]))'
    OBVIOUS
  <2> QED
    BY <1>2, <1>3, <2>1, <2>2, <2>3 DEF Vol
<1>5. Kept(c, d)
  BY <1>1 DEF Kept, Live
<1> QED
  BY <1>4, <1>5 DEF Moves

\* What a command has allocated and not stored when it ends is lost.
LEMMA EndChains ==
  ASSUME IInv, IInv', NEW c, Vol(c), l.pc \notin Removing, UNCHANGED <<root, blk>>,
         l'.pc = "idle"
  PROVE  Moves(c)
<1> DEFINE d == [c EXCEPT ![0] = <<>>]
<1>1. c \in Family /\ Apart(c)
  BY VolFacts
<1>2. d \in Family /\ Apart(d)
  BY <1>1, CellFacts, ApartDrop
<1>3. (\A s \in Slots : d[s] = c[s]) /\ d[0] = <<>>
  BY <1>1, CellFacts DEF Family
<1> HIDE DEF d
<1>4. l'.first = 0 /\ l'.pc \notin Removing /\ l'.pc \notin Copying
  BY DEF IInv, Place, Removing, Copying
<1>5. Leaving = {} /\ Leaving' = {}
  BY <1>4 DEF Leaving
<1>6. \A s \in Slots : Front(s)' = Front(s)
  BY <1>5, CellFacts DEF Front
<1>7. Linked(blk', l'.first, d[0])
  BY <1>3, <1>4, NoChain
<1> QED
  BY <1>2, <1>3, <1>4, <1>5, <1>6, <1>7, StillChains

\* A formatted volume has no chains.
Blank == root = [s \in Slots |-> ZeroEntry] /\ blk = [b \in Data |-> ZeroBlock]
None == [s \in Cells |-> <<>>]
BlankFact == IInv /\ Blank /\ l.pc \in Formatting \cup {"idle"} => Vol(None)

LEMMA BlankIs == BlankFact
<1> SUFFICES ASSUME IInv, Blank, l.pc \in Formatting \cup {"idle"} PROVE Vol(None)
  BY DEF BlankFact
<1>1. <<>> \in Seq(Data) /\ Len(<<>>) = 0
  OBVIOUS
<1>2. None \in Family /\ Apart(None) /\ \A s \in Cells : None[s] = <<>>
  BY <1>1 DEF None, Family, Apart
<1>3. l.pc \notin Removing /\ l.pc \notin Copying /\ l.pc # "read"
  BY DEF Formatting, Removing, Copying
<1>4. l.first = 0
  BY <1>3 DEF IInv, Place
<1>5. \A s \in Cells : Front(s) = 0
  BY <1>3, <1>4, CellFacts DEF Front, Leaving, Blank, ZeroEntry
<1>6. \A s \in Cells : Linked(blk, Front(s), None[s]) /\ Full(blk, None[s])
  BY <1>2, <1>5, NoChain
<1>7. Stored(None)
  BY DEF Stored, Blank
<1> HIDE DEF None
<1> QED
  BY <1>2, <1>3, <1>6, <1>7, CellFacts DEF Vol, Family, At

LEMMA BlankIsNext == BlankFact'
BY BlankIs, PTL

LEMMA BlankChains ==
  ASSUME IInv, IInv', Blank', l'.pc \in Formatting \cup {"idle"},
         length' < 2 \/ length < 2, NEW c
  PROVE  Moves(c)
<1>1. Vol(None)'
  BY BlankIsNext DEF BlankFact
<1>2. Live' = {} \/ Live = {}
  <2>1. length \in Nat /\ length' \in Nat
    BY SizesAssumption DEF IInv, TypeOK
  <2>2. /\ length < 2 => Live = {}
        /\ length' < 2 => Live' = {}
    BY <2>1 DEF Live
  <2> QED
    BY <2>2
<1> QED
  BY <1>1, <1>2 DEF Moves, Kept

LEMMA InitChains == Init => \E c : Vol(c)
<1> SUFFICES ASSUME Init PROVE \E c : Vol(c)
  OBVIOUS
<1>1. IInv /\ Blank /\ l.pc = "idle"
  BY InitInv DEF Init, Blank, Idle
<1> QED
  BY <1>1, BlankIs DEF BlankFact

LEMMA FormatChains ==
  ASSUME IInv, IInv', NEW c, (\E m \in Menu : MkfsTrunc(m)) \/ MkfsSuper \/ MkfsRoot
  PROVE  Moves(c)
<1>1. CASE \E m \in Menu : MkfsTrunc(m)
  <2> PICK m \in Menu : MkfsTrunc(m)
    BY <1>1
  <2>1. length' = 0 /\ Blank'
    BY DEF MkfsTrunc, Blank
  <2>2. l' = [Idle EXCEPT !.pc = "fsSuper", !.cmd = m]
    BY DEF MkfsTrunc
  <2>3. l'.pc = "fsSuper"
    BY <2>2 DEF Idle
  <2> QED
    BY <2>1, <2>3, BlankChains DEF Formatting
<1>2. CASE MkfsSuper \/ MkfsRoot
  <2>1. length < 2 /\ Blank
    BY <1>2 DEF MkfsSuper, MkfsRoot, At, IInv, Place, Blank
  <2>2. l'.pc \in Formatting \cup {"idle"} /\ Blank'
    BY <1>2, <2>1 DEF MkfsSuper, MkfsRoot, At, IInv, TypeOK, Local, Blank, Finish, Ended, Idle,
       Formatting
  <2> QED
    BY <2>1, <2>2, BlankChains
<1> QED
  BY <1>1, <1>2

LEMMA ExtendChains ==
  ASSUME IInv, IInv', NEW c, Vol(c), Extend
  PROVE  Moves(c)
BY EndChains DEF Extend, At, Removing

LEMMA CrashChains ==
  ASSUME IInv, IInv', NEW c, Vol(c), Crash, RemovalsEnd
  PROVE  Moves(c)
<1>1. l.pc \notin Removing
  BY DEF Crash, RemovalsEnd, IInv, Place, op
<1> QED
  BY <1>1, EndChains DEF Crash, disk, Idle

\* The chain of no copy is empty.
LEMMA NoCopy ==
  ASSUME IInv, NEW c, Vol(c), l.pc \notin Copying
  PROVE  c[0] = <<>>
<1>1. l.first = 0
  BY DEF IInv, Place
<1>2. Linked(blk, 0, c[0]) /\ c[0] \in Seq(Data)
  BY <1>1, VolFacts, CellFacts DEF Front
<1> QED
  BY <1>2, Unchained

\* A named slot holds the chain of a file.
LEMMA EntryIs ==
  ASSUME IInv, NEW c, Vol(c), NEW s \in Slots, root[s].type = "f", s \notin Leaving
  PROVE  Len(c[s]) = root[s].size /\ Text(blk, c[s]) \in Files
         /\ Linked(blk, root[s].start, c[s])
<1>1. root[s] # ZeroEntry
  BY DEF ZeroEntry
<1>2. Front(s) = root[s].start
  BY CellFacts DEF Front
<1>3. Linked(blk, Front(s), c[s])
  BY CellFacts, VolFacts
<1>4. Len(c[s]) = root[s].size /\ Text(blk, c[s]) \in Files
  BY <1>1 DEF Vol, Stored
<1> QED
  BY <1>2, <1>3, <1>4

LEMMA StartChains ==
  ASSUME IInv, IInv', NEW c, Vol(c), NEW m \in Menu, Start(m)
  PROVE  Moves(c)
<1>1. l.pc = "idle" /\ UNCHANGED <<root, blk>>
  BY DEF Start, At, disk
<1>2. c \in Family /\ Apart(c) /\ Leaving = {} /\ c[0] = <<>>
  BY <1>1, VolFacts, NoCopy DEF Leaving, Removing, Copying
<1>3. CASE m.op = "mycopyto"
  <2> DEFINE pc == IF m.file = <<>> THEN "insert" ELSE "find"
  <2>1. l' = [Idle EXCEPT !.cmd = m, !.count = freeCount, !.pc = pc, !.left = Len(m.file)]
    BY <1>3 DEF Start
  <2>2. pc \in {"insert", "find"}
    OBVIOUS
  <2> HIDE DEF pc
  <2>3. l'.pc = pc /\ l'.first = 0 /\ l'.cmd = m /\ l'.left = Len(m.file)
    BY <2>1 DEF Idle
  <2>4. Leaving' = {} /\ l'.pc # "read"
    BY <2>2, <2>3 DEF Leaving, Removing
  <2>5. \A s \in Slots : Front(s)' = Front(s)
    BY <1>1, <1>2, <2>4, CellFacts DEF Front
  <2>6. Linked(blk', l'.first, c[0])
    BY <1>2, <2>3, NoChain
  <2>7. Prefix(c[0])'
    <3>1. Len(m.file) \in Nat /\ Len(<<>>) = 0
      OBVIOUS
    <3>2. Len(m.file) - Len(m.file) = 0 /\ 1 .. 0 = {}
      BY <3>1
    <3> QED
      BY <1>2, <2>2, <2>3, <3>1, <3>2 DEF Prefix, At
  <2> QED
    BY <1>1, <1>2, <2>4, <2>5, <2>6, <2>7, StillChains
<1>4. CASE m.op # "mycopyto"
  <2>1. CASE l'.pc = "idle"
    BY <1>1, <2>1, EndChains DEF Removing
  <2>2. CASE l'.pc # "idle"
    <3> DEFINE Pc(s) == IF m.op = "mycopyfrom" THEN "read"
                        ELSE IF root[s].start = 0 THEN "clear" ELSE "free"
               Left(s) == IF m.op = "myrm" THEN 0 ELSE root[s].size
    <3>1. PICK s \in Slots :
            /\ IsFirst(s, Matching(m.name)) /\ root[s].type = "f"
            /\ l' = [Idle EXCEPT !.cmd = m, !.count = freeCount, !.pc = Pc(s), !.slot = s,
                                 !.cur = root[s].start, !.left = Left(s)]
      <4>1. \A x \in {"err"} : [Idle EXCEPT !.cmd = m, !.count = freeCount, !.res = x,
                                            !.count = 0].pc = "idle"
        BY DEF Idle
      <4> HIDE DEF Idle
      <4> QED
        BY <1>4, <2>2, <4>1 DEF Start
    <3>2. l'.pc = Pc(s) /\ l'.first = 0 /\ l'.cmd = m /\ l'.left = Left(s)
          /\ l'.cur = root[s].start /\ l'.slot = s /\ l'.out = <<>>
      BY <3>1 DEF Idle
    <3>3. Pc(s) \in {"read", "clear", "free"}
      OBVIOUS
    <3>4. l'.pc \notin Copying /\ (l'.pc = "read" => m.op = "mycopyfrom")
          /\ (l'.pc # "read" => m.op # "mycopyfrom")
      BY <3>2, <3>3 DEF Copying
    <3>5. Linked(blk', l'.first, c[0])
      BY <1>2, <3>2, NoChain
    <3>6. CASE l'.pc = "read"
      <4>1. Leaving' = {}
        BY <3>6 DEF Leaving, Removing
      <4>2. \A t \in Slots : Front(t)' = Front(t)
        BY <1>1, <1>2, <4>1, CellFacts DEF Front
      <4> QED
        BY <1>1, <1>2, <3>4, <3>5, <4>1, <4>2, StillChains
    <3>7. CASE l'.pc # "read"
      <4>1. Leaving' = {s} /\ ~(l'.pc = "freed")
        BY <3>2, <3>3, <3>7 DEF Leaving, Removing
      <4>2. \A t \in Slots : Front(t)' = Front(t)
        BY <1>1, <1>2, <3>2, <4>1, CellFacts DEF Front, At
      <4> QED
        BY <1>1, <1>2, <3>4, <3>5, <3>7, <4>1, <4>2, StillChains
    <3> QED
      BY <3>6, <3>7
  <2> QED
    BY <2>1, <2>2
<1> QED
  BY <1>3, <1>4

\* A step of mycopyto that writes no entry leaves the others their chains.
LEMMA CopyChains ==
  ASSUME IInv, IInv', NEW c, Vol(c), l.pc \in Copying, l'.pc \in Copying,
         UNCHANGED root, NEW d \in Family, \A s \in Slots : d[s] = c[s], Apart(d),
         \A s \in Slots : \A i \in 1 .. Len(c[s]) : blk'[c[s][i]] = blk[c[s][i]],
         Linked(blk', l'.first, d[0]), Prefix(d[0])'
  PROVE  Moves(c)
<1>1. Leaving = {} /\ Leaving' = {} /\ l'.pc # "read"
  BY DEF Leaving, Removing, Copying
<1>2. \A s \in Slots : Front(s)' = Front(s)
  BY <1>1, CellFacts DEF Front
<1> QED
  BY <1>1, <1>2, StillChains

\* The chain of a copy, while it runs.
LEMMA CopyIs ==
  ASSUME IInv, NEW c, Vol(c), l.pc \in Copying
  PROVE  /\ c \in Family /\ Apart(c) /\ c[0] \in Seq(Data) /\ Len(c[0]) \in Nat
         /\ Linked(blk, l.first, c[0]) /\ Prefix(c[0])
         /\ l.cmd.file \in Files /\ l.cmd.file \in Seq(Chunk) /\ Len(l.cmd.file) \in Nat
         /\ l.left \in 0 .. Len(l.cmd.file)
<1>1. c \in Family /\ Apart(c) /\ c[0] \in Seq(Data) /\ Linked(blk, l.first, c[0])
  BY VolFacts, CellFacts DEF Front
<1>2. Prefix(c[0])
  BY DEF Vol
<1>3. l.cmd.file \in Files /\ l.cmd.file \in Seq(Chunk) /\ Len(l.cmd.file) \in Nat
  BY LocalFacts DEF IInv, TypeOK, Place
<1>4. l.left \in 0 .. Len(l.cmd.file)
  <2>1. l.left \in 1 .. Len(l.cmd.file) \/ l.left = 0
    BY DEF IInv, Place, At, Copying
  <2> QED
    BY <2>1, <1>3
<1> QED
  BY <1>1, <1>2, <1>3, <1>4

LEMMA FindChains ==
  ASSUME IInv, IInv', NEW c, Vol(c), Find
  PROVE  Moves(c)
<1>1. l.pc = "find" /\ UNCHANGED <<root, blk>>
  BY DEF Find, At, disk
<1>2. CASE Finish("err")
  BY <1>1, <1>2, EndChains DEF Finish, Ended, Idle, Removing
<1>3. CASE ~Finish("err")
  <2>1. PICK b \in Data : IsFirst(b, Unused) /\ l' = [l EXCEPT !.pc = "super", !.new = b]
    BY <1>3 DEF Find
  <2>2. /\ l'.pc = "super" /\ l'.new = b /\ l'.cmd = l.cmd /\ l'.left = l.left
        /\ l'.cur = l.cur /\ l'.buf = l.buf /\ l'.first = l.first
    BY <2>1 DEF IInv, TypeOK, Local
  <2>3. blk[b] = ZeroBlock
    BY <2>1 DEF IsFirst, Unused
  <2>4. l.pc \in Copying /\ l'.pc \in Copying
    BY <1>1, <2>2 DEF Copying
  <2>5. c \in Family /\ Apart(c) /\ Linked(blk, l.first, c[0]) /\ Prefix(c[0])
    BY <2>4, CopyIs
  <2>6. Prefix(c[0])'
    BY <1>1, <2>2, <2>3, <2>5 DEF Prefix, At
  <2> QED
    BY <1>1, <2>2, <2>4, <2>5, <2>6, CopyChains
<1> QED
  BY <1>2, <1>3

\* No chain holds the block that is about to be taken.
LEMMA Fresh ==
  ASSUME IInv, NoZeroBlocks, NEW c, Vol(c), l.pc \in {"super", "link"}
  PROVE  /\ l.new \in Data /\ blk[l.new] = ZeroBlock
         /\ \A s \in Cells : \A i \in 1 .. Len(c[s]) : c[s][i] # l.new
<1>1. l.pc \in Copying /\ ~At("write")
  BY DEF Copying, At
<1>2. l.new \in Data /\ blk[l.new] = ZeroBlock
  BY <1>1, CopyIs DEF Prefix
<1>3. blk[l.new].data = Zero
  BY <1>2 DEF ZeroBlock
<1>4. ASSUME NEW s \in Slots, NEW i \in 1 .. Len(c[s]) PROVE c[s][i] # l.new
  BY <1>3, VolFacts DEF Full
<1>5. ASSUME NEW i \in 1 .. Len(c[0]) PROVE c[0][i] # l.new
  <2>1. /\ Len(c[0]) = Len(l.cmd.file) - l.left /\ Len(l.cmd.file) \in Nat
        /\ l.left \in 0 .. Len(l.cmd.file) /\ l.cmd.file \in Files
        /\ blk[c[0][i]].data = l.cmd.file[i]
    BY <1>1, CopyIs DEF Prefix
  <2>2. i \in 1 .. Len(l.cmd.file)
    BY <2>1
  <2> QED
    BY <1>3, <2>1, <2>2 DEF NoZeroBlocks
<1> QED
  BY <1>2, <1>4, <1>5, CellFacts

\* The block taken goes behind the last one of the copy.
LEMMA TakeChains ==
  ASSUME IInv, IInv', NoZeroBlocks, NEW c, Vol(c), l.pc \in {"super", "link"},
         NEW n \in Data, l.new = n,
         l'.pc = "write", l'.cur = l.new, l'.cmd = l.cmd, l'.left = l.left,
         l'.first = IF c[0] = <<>> THEN l.new ELSE l.first,
         UNCHANGED root, blk' \in [Data -> Block],
         blk' = IF c[0] = <<>> THEN blk
                ELSE [blk EXCEPT ![l.cur] = [l.buf EXCEPT !.next = l.new]]
  PROVE  Moves(c)
<1>1. l.pc \in Copying /\ l'.pc \in Copying /\ ~At("write")
  BY DEF Copying, At
<1> DEFINE q == c[0]
           k == Len(c[0])
           d == [c EXCEPT ![0] = Append(@, n)]
<1>2. /\ c \in Family /\ Apart(c) /\ q \in Seq(Data) /\ Len(q) = k /\ k \in Nat
      /\ k = Len(l.cmd.file) - l.left
      /\ Linked(blk, l.first, q)
      /\ \A i \in 1 .. k : blk[q[i]].data = l.cmd.file[i]
      /\ q # <<>> => l.cur = q[k] /\ l.buf = blk[l.cur]
  BY <1>1, CopyIs DEF Prefix
<1>3. /\ n \in Data /\ blk[n] = ZeroBlock
      /\ \A s \in Cells : \A i \in 1 .. Len(c[s]) : c[s][i] # n
  BY Fresh
<1>4. d \in Family /\ Apart(d)
  BY <1>2, <1>3, CellFacts, ApartGrow
<1>5. (\A s \in Slots : d[s] = c[s]) /\ d[0] = Append(q, n)
  BY <1>2, CellFacts DEF Family
<1> HIDE DEF d, q, k
<1>6. q # <<>> => k \in 1 .. k /\ q[k] \in Data
  BY <1>2, Listed
<1>7. /\ \A b \in Data : b # l.cur => blk'[b] = blk[b]
      /\ q # <<>> => blk'[q[k]].next = n /\ blk'[q[k]].data = blk[q[k]].data
      /\ q = <<>> => blk' = blk
  BY <1>2, <1>6 DEF IInv, TypeOK, Block, q
<1>8. blk'[n] = ZeroBlock
  <2>1. q # <<>> => l.cur # n
    BY <1>2, <1>3, <1>6, CellFacts DEF q
  <2> QED
    BY <2>1, <1>3, <1>7
<1>9. \A i \in 1 .. Len(q) : i # Len(q) => blk'[q[i]] = blk[q[i]]
  <2> TAKE i \in 1 .. Len(q)
  <2> HAVE i # Len(q)
  <2>1. q # <<>> /\ k \in 1 .. Len(q) /\ q[i] # q[k] /\ q[i] \in Data
    BY <1>2, <1>6, Listed, CellFacts DEF Apart, q
  <2> QED
    BY <2>1, <1>2, <1>7
<1>10. /\ Len(Append(q, n)) = k+1
       /\ \A i \in 1 .. k : Append(q, n)[i] = q[i]
       /\ Append(q, n)[k+1] = n
       /\ Linked(blk', l'.first, Append(q, n))
  <2>1. blk'[n].next = 0
    BY <1>8 DEF ZeroBlock
  <2>2. q # <<>> => blk'[q[Len(q)]].next = n
    BY <1>2, <1>7
  <2>3. l'.first = IF q = <<>> THEN n ELSE l.first
    BY DEF q
  <2>4. /\ Len(Append(q, n)) = Len(q) + 1
        /\ \A i \in 1 .. Len(q) : Append(q, n)[i] = q[i]
        /\ Append(q, n)[Len(q) + 1] = n
    BY <1>2, <1>3
  <2>5. Linked(blk', IF q = <<>> THEN n ELSE l.first, Append(q, n))
    <3> DEFINE C == blk'
    <3>1. \A i \in 1 .. Len(q) : i # Len(q) => C[q[i]] = blk[q[i]]
      BY <1>9
    <3>2. (q # <<>> => C[q[Len(q)]].next = n) /\ C[n].next = 0
      BY <2>1, <2>2
    <3> HIDE DEF C
    <3>3. Linked(C, IF q = <<>> THEN n ELSE l.first, Append(q, n))
      BY <1>2, <3>1, <3>2, Grow
    <3> QED
      BY <3>3 DEF C
  <2> QED
    BY <1>2, <2>3, <2>4, <2>5
<1>11. \A s \in Slots : \A i \in 1 .. Len(c[s]) : blk'[c[s][i]] = blk[c[s][i]]
  <2> TAKE s \in Slots
  <2> TAKE i \in 1 .. Len(c[s])
  <2>1. c[s][i] \in Data
    BY VolFacts, CellFacts, Listed
  <2>2. q # <<>> => c[s][i] # q[k]
    BY <1>2, <1>6, CellFacts DEF Apart, q
  <2> QED
    BY <2>1, <2>2, <1>2, <1>7
<1>12. \A i \in 1 .. k : blk'[q[i]].data = l.cmd.file[i]
  <2> TAKE i \in 1 .. k
  <2>1. CASE i = k
    BY <2>1, <1>2, <1>6, <1>7
  <2>2. CASE i # k
    BY <2>2, <1>2, <1>9
  <2> QED
    BY <2>1, <2>2
<1>13. Prefix(d[0])'
  <2>1. /\ Len(d[0]) = k+1 /\ d[0][k+1] = n
        /\ \A i \in 1 .. k : blk'[d[0][i]].data = l.cmd.file[i]
    <3> DEFINE r == Append(q, n)
    <3>1. /\ Len(r) = k+1 /\ r[k+1] = n /\ \A i \in 1 .. k : r[i] = q[i]
          /\ d[0] = r
      BY <1>5, <1>10
    <3> HIDE DEF r
    <3> QED
      BY <3>1, <1>12
  <2>2. k = Len(l'.cmd.file) - l'.left
    BY <1>2
  <2> QED
    BY <1>2, <1>8, <2>1, <2>2 DEF Prefix, At
<1>14. Linked(blk', l'.first, d[0])
  BY <1>5, <1>10
<1> QED
  BY <1>1, <1>4, <1>5, <1>11, <1>13, <1>14, CopyChains

LEMMA FirstIs ==
  ASSUME IInv, NEW c, Vol(c), l.pc \in Copying
  PROVE  l.first = 0 <=> c[0] = <<>>
<1>1. c[0] \in Seq(Data) /\ Linked(blk, l.first, c[0])
  BY CopyIs
<1>2. c[0] = <<>> => l.first = 0
  BY <1>1 DEF Linked, Nth
<1> QED
  BY <1>1, <1>2, Unchained

LEMMA AllocSuperChains ==
  ASSUME IInv, IInv', NoZeroBlocks, NEW c, Vol(c), AllocSuper
  PROVE  Moves(c)
<1> DEFINE m == (l.count + Width - 1) % Width
<1>1. l.pc = "super" /\ l.pc \in Copying /\ UNCHANGED <<root, blk>> /\ blk \in [Data -> Block]
  BY DEF AllocSuper, At, Copying, IInv, TypeOK
<1>2. l' = [l EXCEPT !.pc = IF l.first = 0 THEN "write" ELSE "link", !.count = m,
                     !.first = IF l.first = 0 THEN l.new ELSE l.first,
                     !.cur = IF l.first = 0 THEN l.new ELSE l.cur]
  BY DEF AllocSuper
<1> HIDE DEF m
<1>3. /\ l'.pc = IF l.first = 0 THEN "write" ELSE "link"
      /\ l'.first = IF l.first = 0 THEN l.new ELSE l.first
      /\ l'.cur = IF l.first = 0 THEN l.new ELSE l.cur
      /\ l'.cmd = l.cmd /\ l'.left = l.left /\ l'.buf = l.buf /\ l'.new = l.new
  BY <1>2 DEF IInv, TypeOK, Local
<1>4. l.new \in Data /\ blk[l.new] = ZeroBlock
  BY <1>1, Fresh
<1>5. CASE l.first = 0
  <2>1. c[0] = <<>>
    BY <1>1, <1>5, FirstIs
  <2> QED
    BY <1>1, <1>3, <1>4, <1>5, <2>1, TakeChains
<1>6. CASE l.first # 0
  <2>1. c[0] # <<>>
    BY <1>1, <1>6, FirstIs
  <2>2. c \in Family /\ Apart(c) /\ Linked(blk, l.first, c[0]) /\ Prefix(c[0])
    BY <1>1, CopyIs
  <2>3. Prefix(c[0])'
    BY <1>1, <1>3, <1>4, <1>6, <2>1, <2>2 DEF Prefix, At
  <2>4. l'.pc \in Copying
    BY <1>3 DEF Copying
  <2> QED
    BY <1>1, <1>3, <1>6, <2>2, <2>3, <2>4, CopyChains
<1> QED
  BY <1>5, <1>6

LEMMA CopyLinkChains ==
  ASSUME IInv, IInv', NoZeroBlocks, NEW c, Vol(c), CopyLink
  PROVE  Moves(c)
<1>1. l.pc = "link" /\ l.pc \in Copying /\ UNCHANGED root
      /\ blk' = [blk EXCEPT ![l.cur] = [l.buf EXCEPT !.next = l.new]]
      /\ l' = [l EXCEPT !.pc = "write", !.cur = l.new]
  BY DEF CopyLink, At, Copying
<1>2. l'.pc = "write" /\ l'.cur = l.new /\ l'.cmd = l.cmd /\ l'.left = l.left
      /\ l'.first = l.first
  BY <1>1 DEF IInv, TypeOK, Local
<1>3. c[0] # <<>>
  BY <1>1, CopyIs DEF Prefix, At
<1>4. l.new \in Data /\ blk' \in [Data -> Block]
  BY <1>1, Fresh DEF IInv, TypeOK
<1> QED
  BY <1>1, <1>2, <1>3, <1>4, TakeChains

\* The block of zeroes at the end of the copy gets the next chunk.
LEMMA CopyWriteChains ==
  ASSUME IInv, IInv', NoZeroBlocks, NEW c, Vol(c), CopyWrite
  PROVE  Moves(c)
<1> DEFINE q == c[0]
           k == Len(l.cmd.file) - l.left
           b == [data |-> l.cmd.file[k + 1], next |-> 0]
<1>1. l.pc = "write" /\ l.pc \in Copying /\ UNCHANGED root
      /\ blk' = [blk EXCEPT ![l.cur] = b]
      /\ l' = [l EXCEPT !.pc = IF l.left = 1 THEN "insert" ELSE "find",
                        !.buf = b, !.left = l.left - 1]
  BY DEF CopyWrite, At, Copying
<1>2. /\ l'.pc = IF l.left = 1 THEN "insert" ELSE "find"
      /\ l'.buf = b /\ l'.left = l.left - 1
      /\ l'.cmd = l.cmd /\ l'.cur = l.cur /\ l'.first = l.first
  BY <1>1 DEF IInv, TypeOK, Local
<1>3. /\ c \in Family /\ Apart(c) /\ q \in Seq(Data) /\ Linked(blk, l.first, q)
      /\ Len(q) = k+1 /\ \A i \in 1 .. k : blk[q[i]].data = l.cmd.file[i]
      /\ blk[q[k+1]] = ZeroBlock
      /\ q # <<>> => l.cur = q[Len(q)]
  BY <1>1, CopyIs DEF Prefix, At
<1>4. Len(l.cmd.file) \in Nat /\ l.left \in 0 .. Len(l.cmd.file)
  BY <1>1, CopyIs
<1>5. k \in Nat /\ k+1 \in 1 .. Len(q) /\ q # <<>> /\ l.cur = q[k+1] /\ l.cur \in Data
  <2>1. k \in Nat
    BY <1>4
  <2>2. k+1 \in 1 .. Len(q) /\ q # <<>>
    BY <2>1, <1>3
  <2> QED
    BY <2>1, <2>2, <1>3, Listed
<1> HIDE DEF b, q
<1>6. blk'[l.cur] = b /\ \A x \in Data : x # l.cur => blk'[x] = blk[x]
  BY <1>1, <1>5 DEF IInv, TypeOK
<1>7. \A i \in 1 .. Len(q) : i # k+1 => blk'[q[i]] = blk[q[i]]
  <2> TAKE i \in 1 .. Len(q)
  <2> HAVE i # k+1
  <2>1. q[i] # q[k+1] /\ q[i] \in Data
    BY <1>3, <1>5, Listed, CellFacts DEF Apart, q
  <2> QED
    BY <2>1, <1>5, <1>6
<1>8. \A s \in Slots : \A i \in 1 .. Len(c[s]) : blk'[c[s][i]] = blk[c[s][i]]
  <2> TAKE s \in Slots
  <2> TAKE i \in 1 .. Len(c[s])
  <2>1. c[s][i] \in Data
    BY VolFacts, CellFacts, Listed
  <2>2. c[s][i] # q[k+1]
    BY <1>3, <1>5, CellFacts DEF Apart, q
  <2> QED
    BY <2>1, <2>2, <1>5, <1>6
<1>9. \A i \in 1 .. Len(q) : blk'[q[i]].next = blk[q[i]].next
  <2> TAKE i \in 1 .. Len(q)
  <2>1. CASE i = k+1
    BY <2>1, <1>3, <1>5, <1>6 DEF b, ZeroBlock
  <2>2. CASE i # k+1
    BY <2>2, <1>7
  <2> QED
    BY <2>1, <2>2
<1>10. Linked(blk', l'.first, q)
  BY <1>2, <1>3, <1>9 DEF Linked
<1>11. Prefix(c[0])'
  <2>1. l'.pc \in {"insert", "find"} /\ Len(l'.cmd.file) - l'.left = k+1
    BY <1>2, <1>4
  <2>2. ASSUME NEW i \in 1 .. k+1 PROVE blk'[q[i]].data = l.cmd.file[i]
    <3>1. CASE i = k+1
      BY <3>1, <1>5, <1>6 DEF b
    <3>2. CASE i # k+1
      <4>1. i \in 1 .. k /\ i \in 1 .. Len(q)
        BY <3>2, <1>3, <1>5
      <4> QED
        BY <3>2, <4>1, <1>3, <1>7
    <3> QED
      BY <3>1, <3>2
  <2>3. q # <<>> => l'.cur = q[Len(q)] /\ l'.buf = blk'[l'.cur]
    BY <1>2, <1>3, <1>6
  <2> HIDE DEF k
  <2> QED
    BY <1>2, <1>3, <2>1, <2>2, <2>3 DEF Prefix, At, q
<1>12. l'.pc \in Copying
  BY <1>2 DEF Copying
<1>13. Linked(blk', l'.first, c[0])
  BY <1>10 DEF q
<1> QED
  BY <1>1, <1>3, <1>8, <1>11, <1>12, <1>13, CopyChains

\* The copy becomes the chain of its entry; a nameless entry that was in the
\* slot loses its own.
LEMMA InsertChains ==
  ASSUME IInv, IInv', NoZeroBlocks, NEW c, Vol(c), Insert
  PROVE  Moves(c)
<1>1. l.pc = "insert" /\ l.pc \in Copying /\ UNCHANGED blk /\ ~At("write") /\ At("insert")
  BY DEF Insert, At, Copying
<1>2. CASE Finish("err") /\ UNCHANGED root
  BY <1>1, <1>2, EndChains DEF Finish, Ended, Idle, Removing
<1>3. CASE ~(Finish("err") /\ UNCHANGED root)
  <2>1. PICK s \in Slots : /\ IsFirst(s, EmptySlots) /\ Finish("ok")
                           /\ root' = [root EXCEPT ![s] = NewEntry]
    BY <1>3 DEF Insert
  <2> DEFINE q == c[0]
             d == [c EXCEPT ![s] = c[0], ![0] = <<>>]
  <2>2. l'.pc = "idle" /\ l'.first = 0 /\ l'.slot = 0
    BY <2>1 DEF Finish, Ended, Idle
  <2>3. Leaving = {} /\ Leaving' = {} /\ l'.pc \notin Copying /\ l'.pc # "read"
    BY <1>1, <2>2 DEF Leaving, Removing, Copying
  <2>4. c \in Family /\ Apart(c) /\ q \in Seq(Data) /\ Linked(blk, l.first, q) /\ Prefix(q)
        /\ l.cmd.file \in Files /\ l.cmd.file \in Seq(Chunk) /\ Len(l.cmd.file) \in Nat
    BY <1>1, CopyIs
  <2>5. l.left = 0 /\ Len(l.cmd.file) - l.left = Len(l.cmd.file)
    BY <1>1, <2>4 DEF IInv, Place
  <2>6. Len(q) = Len(l.cmd.file) /\ \A i \in 1 .. Len(q) : blk[q[i]].data = l.cmd.file[i]
    BY <1>1, <2>4, <2>5 DEF Prefix
  <2>7. Text(blk, q) = l.cmd.file
    BY <2>4, <2>6 DEF Text
  <2>8. Full(blk, q)
    BY <2>4, <2>6 DEF Full, NoZeroBlocks
  <2>9. d \in Family /\ Apart(d)
    BY <2>4, ApartMove
  <2>10. /\ d[0] = <<>> /\ d[s] = q
         /\ \A t \in Slots : t # s => d[t] = c[t]
    BY <2>4, CellFacts DEF Family
  <2> HIDE DEF d, q
  <2>11. /\ root'[s] = NewEntry
         /\ \A t \in Slots : t # s => root'[t] = root[t]
         /\ NewEntry.type = "f" /\ NewEntry.start = l.first
         /\ NewEntry.size = Len(l.cmd.file)
    BY <2>1 DEF IInv, TypeOK, NewEntry
  <2>12. ASSUME NEW t \in Slots, t # s
         PROVE  Linked(blk, root[t].start, c[t]) /\ Full(blk, c[t])
    BY <2>3, VolFacts, CellFacts DEF Front
  <2>13. ASSUME NEW t \in Cells PROVE Linked(blk', Front(t)', d[t])
    <3>1. CASE t = 0
      BY <3>1, <1>1, <2>2, <2>10, NoChain DEF Front
    <3>2. CASE t = s
      BY <3>2, <1>1, <2>3, <2>4, <2>10, <2>11, CellFacts DEF Front
    <3>3. CASE t # 0 /\ t # s
      BY <3>3, <1>1, <2>3, <2>10, <2>11, <2>12, CellFacts DEF Front
    <3> QED
      BY <3>1, <3>2, <3>3
  <2>14. \A t \in Slots : Full(blk', d[t])
    BY <1>1, <2>8, <2>10, <2>12
  <2>15. Stored(d)'
    <3>1. ASSUME NEW t \in Slots
          PROVE  \/ root'[t] = ZeroEntry
                 \/ /\ root'[t].type = "f" /\ Len(d[t]) = root'[t].size
                    /\ Text(blk', d[t]) \in Files
      <4>1. CASE t = s
        BY <4>1, <1>1, <2>4, <2>6, <2>7, <2>10, <2>11
      <4>2. CASE t # s
        BY <4>2, <1>1, <2>3, <2>10, <2>11 DEF Vol, Stored
      <4> QED
        BY <4>1, <4>2
    <3> QED
      BY <3>1 DEF Stored
  <2>16. Vol(d)'
    BY <2>3, <2>9, <2>13, <2>14, <2>15 DEF Vol, Family, At
  <2>17. Kept(c, d)
    <3>1. s \notin Live
      BY <2>1 DEF IsFirst, EmptySlots, Matching, Live
    <3> QED
      BY <3>1, <1>1, <2>10, <2>11 DEF Kept, Live
  <2> QED
    BY <2>16, <2>17 DEF Moves
<1> QED
  BY <1>2, <1>3

LEMMA ReadChains ==
  ASSUME IInv, IInv', NEW c, Vol(c), Read
  PROVE  Moves(c)
<1>1. l.pc = "read" /\ UNCHANGED <<root, blk>> /\ l.slot \in Slots
  BY DEF Read, At, disk, IInv, Place
<1>2. CASE l.left = 0 \/ l.cur = 0
  <2>1. l'.pc = "idle"
    BY <1>2 DEF Read, Ended, Idle
  <2> QED
    BY <1>1, <2>1, EndChains DEF Removing
<1>3. CASE ~(l.left = 0 \/ l.cur = 0)
  <2>1. l'.pc = "read" /\ l'.slot = l.slot /\ l'.first = l.first
    BY <1>1, <1>3 DEF Read, IInv, TypeOK, Local
  <2>2. c \in Family /\ Apart(c) /\ c[0] = <<>>
    BY <1>1, VolFacts, NoCopy DEF Copying
  <2>3. Leaving' = Leaving /\ l'.pc \notin Copying
    BY <1>1, <2>1 DEF Leaving, Removing, Copying
  <2>4. \A t \in Slots : Front(t)' = Front(t)
    BY <1>1, <2>1, <2>3, CellFacts DEF Front, Leaving, Removing
  <2>5. Linked(blk', l'.first, c[0])
    <3>1. l'.first = 0
      BY <2>3 DEF IInv, Place
    <3> QED
      BY <3>1, <2>2, NoChain
  <2> QED
    BY <1>1, <2>2, <2>3, <2>4, <2>5, StillChains
<1> QED
  BY <1>2, <1>3

LEMMA FreeChains ==
  ASSUME IInv, IInv', NEW c, Vol(c), Free
  PROVE  Moves(c)
<1>1. /\ l.pc = "free" /\ UNCHANGED root /\ l.cur \in Data
      /\ blk' = [blk EXCEPT ![l.cur] = ZeroBlock]
      /\ l' = [l EXCEPT !.pc = "freed", !.nxt = blk[l.cur].next]
      /\ op = "myrm" /\ l.slot \in Slots
  BY DEF Free, At, IInv, Place, Removing
<1> PICK s \in Slots : s = l.slot
  BY <1>1
<1> DEFINE q == c[s]
           d == [c EXCEPT ![s] = Tail(@)]
<1>2. l'.pc = "freed" /\ l'.nxt = blk[l.cur].next /\ l'.slot = s /\ l'.cmd = l.cmd
      /\ l'.first = l.first
  BY <1>1 DEF IInv, TypeOK, Local
<1>3. Leaving = {s} /\ Leaving' = {s} /\ l'.pc \notin Copying /\ l'.pc # "read"
      /\ l.pc \notin Copying
  BY <1>1, <1>2 DEF Leaving, Removing, Copying
<1>4. c \in Family /\ Apart(c) /\ q \in Seq(Data) /\ Linked(blk, l.cur, q)
      /\ s \in Cells /\ s # 0
  BY <1>1, <1>3, VolFacts, CellFacts DEF Front, At
<1>5. /\ q # <<>> /\ Len(q) >= 1 /\ q[1] = l.cur
      /\ Tail(q) \in Seq(Data) /\ Len(Tail(q)) = Len(q) - 1
      /\ \A i \in 1 .. Len(Tail(q)) : Tail(q)[i] = q[i+1] /\ i+1 \in 1 .. Len(q)
      /\ Linked(blk, l'.nxt, Tail(q))
  <2> DEFINE p == l.cur
  <2>1. p \in Data /\ Linked(blk, p, q)
    BY <1>1, <1>4
  <2> HIDE DEF p, q
  <2>2. /\ q # <<>> /\ Len(q) >= 1 /\ q[1] = p
        /\ Tail(q) \in Seq(Data) /\ Len(Tail(q)) = Len(q) - 1
        /\ \A i \in 1 .. Len(Tail(q)) : Tail(q)[i] = q[i+1] /\ i+1 \in 1 .. Len(q)
        /\ Linked(blk, blk[p].next, Tail(q))
    BY <1>4, <2>1, Pop
  <2> QED
    BY <1>2, <2>2 DEF p
<1>6. d \in Family /\ Apart(d)
  BY <1>4, <1>5, ApartPop
<1>7. d[s] = Tail(q) /\ \A t \in Cells : t # s => d[t] = c[t]
  BY <1>4 DEF Family
<1> HIDE DEF d
<1>8. \A x \in Data : x # l.cur => blk'[x] = blk[x]
  BY <1>1 DEF IInv, TypeOK
<1>9. ASSUME NEW t \in Cells PROVE \A i \in 1 .. Len(d[t]) : blk'[d[t][i]] = blk[d[t][i]]
  <2> TAKE i \in 1 .. Len(d[t])
  <2>1. 1 \in 1 .. Len(q)
    BY <1>4, <1>5, Listed
  <2>2. CASE t = s
    <3>0. i \in 1 .. Len(Tail(q)) /\ d[t] = Tail(q) /\ i >= 1 /\ i \in Int
      BY <2>2, <1>7
    <3>1. i \in 1 .. Len(Tail(q)) /\ d[t][i] = q[i+1] /\ i+1 \in 1 .. Len(q) /\ i+1 # 1
      BY <3>0, <1>5
    <3>2. q[i+1] # q[1] /\ q[i+1] \in Data
      BY <1>4, <2>1, <3>1, Listed DEF Apart
    <3> QED
      BY <3>1, <3>2, <1>5, <1>8
  <2>3. CASE t # s
    <3>1. d[t] = c[t] /\ i \in 1 .. Len(c[t])
      BY <2>3, <1>7
    <3>2. c[t][i] # q[1] /\ c[t][i] \in Data
      BY <1>4, <2>1, <2>3, <3>1, VolFacts, Listed DEF Apart
    <3> QED
      BY <3>1, <3>2, <1>5, <1>8
  <2> QED
    BY <2>2, <2>3
<1> HIDE DEF q
<1>10. ASSUME NEW t \in Slots
       PROVE  /\ Linked(blk', Front(t)', d[t]) /\ Full(blk', d[t])
              /\ t # s => Text(blk', d[t]) = Text(blk, c[t])
  <2> DEFINE p == Front(t)'
  <2>1. d[t] \in Seq(Data)
    BY <1>6, CellFacts DEF Family
  <2>2. Linked(blk, p, d[t]) /\ Full(blk, d[t])
    <3>1. CASE t = s
      <4>1. p = l'.nxt
        BY <3>1, <1>2, <1>3, <1>4 DEF Front, At
      <4>2. Full(blk, q)
        BY VolFacts DEF q
      <4>3. Full(blk, Tail(q))
        BY <4>2, <1>5 DEF Full
      <4> QED
        BY <3>1, <4>1, <4>3, <1>5, <1>7
    <3>2. CASE t # s
      <4>1. p = Front(t) /\ d[t] = c[t]
        BY <3>2, <1>1, <1>3, <1>7, CellFacts DEF Front
      <4> QED
        BY <4>1, VolFacts, CellFacts
    <3> QED
      BY <3>1, <3>2
  <2>3. \A i \in 1 .. Len(d[t]) : blk'[d[t][i]] = blk[d[t][i]]
    BY <1>9, CellFacts
  <2>4. t # s => d[t] = c[t]
    BY <1>7, CellFacts
  <2> HIDE DEF p
  <2>5. Linked(blk', p, d[t]) /\ Full(blk', d[t]) /\ Text(blk', d[t]) = Text(blk, d[t])
    BY <2>1, <2>2, <2>3, Same
  <2> QED
    BY <2>4, <2>5 DEF p
<1>11. Linked(blk', Front(0)', d[0])
  <2>1. d[0] = <<>>
    BY <1>3, <1>4, <1>7, NoCopy, CellFacts
  <2>2. Front(0)' = 0
    BY <1>3 DEF Front, IInv, Place
  <2> QED
    BY <2>1, <2>2, NoChain
<1>12. Stored(d)'
  <2>1. ASSUME NEW t \in Slots, t # s
        PROVE  \/ root'[t] = ZeroEntry
               \/ /\ root'[t].type = "f" /\ Len(d[t]) = root'[t].size
                  /\ Text(blk', d[t]) \in Files
    <3>1. d[t] = c[t] /\ Text(blk', d[t]) = Text(blk, c[t])
      BY <2>1, <1>7, <1>10, CellFacts
    <3> QED
      BY <2>1, <3>1, <1>1, <1>3 DEF Vol, Stored
  <2> QED
    BY <2>1, <1>3 DEF Stored
<1>13. Vol(d)'
  <2>1. \A t \in Cells : Linked(blk', Front(t)', d[t])
    BY <1>10, <1>11, CellFacts
  <2> QED
    BY <2>1, <1>3, <1>6, <1>10, <1>12 DEF Vol, Family, At
<1>14. Kept(c, d)
  <2>1. s \notin Live
    BY <1>1 DEF Live, Doomed
  <2> QED
    BY <2>1, <1>1, <1>10 DEF Kept, Live
<1> QED
  BY <1>13, <1>14 DEF Moves

LEMMA FreeSuperChains ==
  ASSUME IInv, IInv', NEW c, Vol(c), FreeSuper
  PROVE  Moves(c)
<1> DEFINE n == (l.count + 1) % Width
           pc == IF l.nxt = 0 THEN "clear" ELSE "free"
<1>1. /\ l.pc = "freed" /\ UNCHANGED <<root, blk>>
      /\ l' = [l EXCEPT !.pc = pc, !.count = n, !.cur = l.nxt, !.nxt = 0]
  BY DEF FreeSuper, At
<1>2. pc \in {"clear", "free"}
  OBVIOUS
<1> HIDE DEF n, pc
<1>3. l'.pc = pc /\ l'.cur = l.nxt /\ l'.slot = l.slot /\ l'.first = l.first
  BY <1>1 DEF IInv, TypeOK, Local
<1>4. Leaving' = Leaving /\ l'.pc \notin Copying /\ l.pc \notin Copying /\ l'.pc # "read"
      /\ l'.pc # "freed"
  BY <1>1, <1>2, <1>3 DEF Leaving, Removing, Copying
<1>5. \A t \in Slots : Front(t)' = Front(t)
  BY <1>1, <1>3, <1>4 DEF Front, At
<1>6. c \in Family /\ Apart(c) /\ Linked(blk', l'.first, c[0])
  <2>1. l'.first = 0 /\ c[0] = <<>>
    BY <1>4, NoCopy DEF IInv, Place
  <2> QED
    BY <2>1, NoChain, VolFacts
<1> QED
  BY <1>1, <1>4, <1>5, <1>6, StillChains

\* The entry that is cleared has no block left.
LEMMA ClearChains ==
  ASSUME IInv, IInv', NEW c, Vol(c), Clear
  PROVE  Moves(c)
<1>1. /\ l.pc = "clear" /\ UNCHANGED blk /\ op = "myrm" /\ l.slot \in Slots /\ l.cur = 0
      /\ root' = [root EXCEPT ![l.slot] = ZeroEntry] /\ l' = Ended("ok", <<>>)
  BY DEF Clear, At, IInv, Place, Removing, Finish
<1> PICK s \in Slots : s = l.slot
  BY <1>1
<1>2. l'.pc = "idle" /\ l'.first = 0
  BY <1>1 DEF Ended, Idle
<1>3. Leaving = {s} /\ Leaving' = {} /\ l'.pc \notin Copying /\ l'.pc # "read"
      /\ l.pc \notin Copying
  BY <1>1, <1>2 DEF Leaving, Removing, Copying
<1>4. root'[s] = ZeroEntry /\ \A t \in Slots : t # s => root'[t] = root[t]
  BY <1>1 DEF IInv, TypeOK
<1>5. c \in Family /\ Apart(c) /\ c[0] = <<>>
  BY <1>3, VolFacts, NoCopy
<1>6. ASSUME NEW t \in Slots PROVE Front(t)' = Front(t)
  BY <1>1, <1>3, <1>4, CellFacts DEF Front, At, ZeroEntry
<1>7. \A t \in Cells : Linked(blk', Front(t)', c[t])
  <2>1. Linked(blk', Front(0)', c[0])
    BY <1>2, <1>5, NoChain DEF Front
  <2>2. ASSUME NEW t \in Slots PROVE Linked(blk', Front(t)', c[t])
    BY <1>1, <1>6, VolFacts, CellFacts
  <2> QED
    BY <2>1, <2>2, CellFacts
<1>8. Stored(c)'
  <2>1. ASSUME NEW t \in Slots
        PROVE  \/ root'[t] = ZeroEntry
               \/ /\ root'[t].type = "f" /\ Len(c[t]) = root'[t].size
                  /\ Text(blk', c[t]) \in Files
    BY <1>1, <1>3, <1>4 DEF Vol, Stored
  <2> QED
    BY <2>1 DEF Stored
<1>9. Vol(c)'
  <2>1. \A t \in Slots : Full(blk', c[t])
    BY <1>1, VolFacts
  <2> QED
    BY <2>1, <1>3, <1>5, <1>7, <1>8 DEF Vol, Family, At
<1>10. Kept(c, c)
  <2>1. s \notin Live
    BY <1>1 DEF Live, Doomed
  <2> QED
    BY <2>1, <1>1, <1>4 DEF Kept, Live
<1> QED
  BY <1>9, <1>10 DEF Moves

LEMMA NextChains ==
  ASSUME IInv, IInv', NoZeroBlocks, RemovalsEnd, [Next]_vars, NEW c, Vol(c)
  PROVE  Moves(c)
<1>1. CASE UNCHANGED vars
  <2>1. Vol(c)'
    BY <1>1 DEF vars, Vol, Stored, Prefix, Front, Leaving, Matching, At, IsFirst
  <2>2. Kept(c, c)
    BY <1>1 DEF vars, Kept
  <2> QED
    BY <2>1, <2>2 DEF Moves
<1>2. CASE \E m \in Menu : Start(m)
  BY <1>2, StartChains
<1>3. CASE \E m \in Menu : MkfsTrunc(m)
  BY <1>3, FormatChains
<1>4. CASE Step
  BY <1>4, FormatChains, FindChains, AllocSuperChains, CopyLinkChains, CopyWriteChains,
     InsertChains, ReadChains, FreeChains, FreeSuperChains, ClearChains DEF Step
<1>5. CASE Extend \/ Crash
  BY <1>5, ExtendChains, CrashChains
<1> QED
  BY <1>1, <1>2, <1>3, <1>4, <1>5 DEF Next

CInv == \E c : Vol(c)

LEMMA CInvAlways ==
  ASSUME NoZeroBlocks, RemovalsEnd
  PROVE  Spec => []CInv
<1>1. Init => CInv
  BY InitChains DEF CInv
<1>2. IInv /\ IInv' /\ CInv /\ [Next]_vars => CInv'
  BY NextChains DEF CInv, Moves
<1> QED
  BY <1>1, <1>2, IInvAlways, PTL DEF Spec

-----------------------------------------------------------------------------
(* The count of free blocks.                                               *)

ZeroSet == {b \in Data : blk[b] = ZeroBlock}

\* A block taken is still zero, and one freed is not counted yet.
Taken == IF l.pc \in {"link", "write", "freed"} THEN 1 ELSE 0

\* The count on disk is short by as many blocks as were lost in a kill, modulo
\* Width.
Short(k, z, n) == \E d \in 0 .. n : d < Width /\ (k + d = z \/ k + d = z + Width)
Counted == length >= 2 => Short(freeCount + Taken, Zeroes, crashes)

LEMMA DataSets ==
  ASSUME NEW S \in SUBSET Data
  PROVE  /\ IsFiniteSet(S) /\ Cardinality(S) \in 0 .. NB-2
         /\ \A x \in Data \ S : Cardinality(S \cup {x}) = Cardinality(S) + 1
<1>1. IsFiniteSet(Data) /\ Cardinality(Data) = NB - 2
  BY SizesAssumption, FS_Interval DEF Data
<1>2. IsFiniteSet(S) /\ Cardinality(S) <= Cardinality(Data) /\ Cardinality(S) \in Nat
  BY <1>1, FS_Subset, FS_CardinalityType
<1>3. \A x \in Data \ S : Cardinality(S \cup {x}) = Cardinality(S) + 1
  BY <1>2, FS_AddElement
<1> QED
  BY <1>1, <1>2, <1>3, SizesAssumption

LEMMA ZeroesIs ==
  /\ Zeroes = Cardinality(ZeroSet) /\ Zeroes \in 0 .. NB-2
  /\ ZeroSet \in SUBSET Data
<1>1. ZeroSet \in SUBSET Data
  BY DEF ZeroSet
<1> QED
  BY <1>1, DataSets DEF Zeroes, ZeroSet

LEMMA ZeroesIsNext ==
  (/\ Zeroes = Cardinality(ZeroSet) /\ Zeroes \in 0 .. NB-2
   /\ ZeroSet \in SUBSET Data)'
BY ZeroesIs, PTL

\* A step that leaves the count, the volume and the kills as they are.
LEMMA SameCount ==
  ASSUME Counted, UNCHANGED crashes, Taken' = Taken, freeCount' = freeCount,
         length >= 2 \/ ~(length' >= 2), ZeroSet' = ZeroSet
  PROVE  Counted'
<1>1. Zeroes' = Zeroes
  BY ZeroesIs, ZeroesIsNext
<1> QED
  BY <1>1 DEF Counted

LEMMA CrashCount ==
  ASSUME IInv, IInv', Counted, Crash
  PROVE  Counted'
<1>1. UNCHANGED <<length, freeCount, blk>> /\ crashes' = crashes + 1 /\ crashes \in Nat
      /\ freeCount \in 0 .. Width-1
  BY SizesAssumption DEF Crash, disk, IInv, TypeOK
<1>2. Taken' = 0 /\ Taken \in {0, 1}
  BY DEF Crash, Idle, Taken
<1>3. Zeroes' = Zeroes /\ Zeroes \in 0 .. NB-2 /\ Width \in Nat /\ NB \in Nat /\ Width > NB
  BY <1>1, ZeroesIs, SizesAssumption DEF Zeroes
<1>4. ASSUME Short(freeCount + Taken, Zeroes, crashes) PROVE Short(freeCount, Zeroes, crashes + 1)
  <2>1. PICK d \in 0 .. crashes : d < Width /\ (freeCount + Taken + d = Zeroes
                                                \/ freeCount + Taken + d = Zeroes + Width)
    BY <1>4 DEF Short
  <2>2. CASE d + Taken < Width
    <3>1. d + Taken \in 0 .. crashes+1
      BY <1>1, <1>2
    <3>2. freeCount + (d + Taken) = Zeroes \/ freeCount + (d + Taken) = Zeroes + Width
      BY <1>1, <1>2, <2>1
    <3> QED
      BY <2>2, <3>1, <3>2 DEF Short
  <2>3. CASE ~(d + Taken < Width)
    <3>1. d + Taken = Width
      BY <1>2, <1>3, <2>1, <2>3
    <3>2. freeCount + 0 = Zeroes /\ 0 \in 0 .. crashes+1 /\ 0 < Width
      BY <1>1, <1>2, <1>3, <2>1, <3>1
    <3> QED
      BY <3>2 DEF Short
  <2> QED
    BY <2>2, <2>3
<1> QED
  BY <1>1, <1>2, <1>3, <1>4 DEF Counted

\* The steps that count a block off and on again.
LEMMA AllocSuperCount ==
  ASSUME IInv, IInv', Counted, AllocSuper
  PROVE  Counted'
<1> DEFINE n == (l.count + Width - 1) % Width
<1>1. l.pc = "super" /\ UNCHANGED <<length, blk, crashes>> /\ freeCount' = n
      /\ l' = [l EXCEPT !.pc = IF l.first = 0 THEN "write" ELSE "link", !.count = n,
                        !.first = IF l.first = 0 THEN l.new ELSE l.first,
                        !.cur = IF l.first = 0 THEN l.new ELSE l.cur]
  BY DEF AllocSuper, At, counts
<1>2. length >= 2 /\ l.count = freeCount /\ freeCount \in 0 .. Width-1 /\ crashes \in Nat
  BY <1>1, OnVolume, SizesAssumption DEF IInv, TypeOK, Copying
<1>3. n = IF freeCount = 0 THEN Width-1 ELSE freeCount-1
  BY <1>2, CountMoves
<1> HIDE DEF n
<1>4. Taken = 0 /\ Taken' = 1
  <2>1. l'.pc \in {"write", "link"}
    BY <1>1 DEF IInv, TypeOK, Local
  <2> QED
    BY <2>1, <1>1 DEF Taken
<1>5. Zeroes' = Zeroes /\ Zeroes \in 0 .. NB-2 /\ Width \in Nat /\ NB \in Nat /\ Width > NB
  BY <1>1, ZeroesIs, SizesAssumption DEF Zeroes
<1>6. PICK d \in 0 .. crashes : d < Width /\ (freeCount + 0 + d = Zeroes
                                              \/ freeCount + 0 + d = Zeroes + Width)
  BY <1>2, <1>4 DEF Counted, Short
<1>7. n + 1 + d = Zeroes \/ n + 1 + d = Zeroes + Width
  BY <1>2, <1>3, <1>5, <1>6
<1>8. Short(n + 1, Zeroes, crashes)
  BY <1>6, <1>7 DEF Short
<1> QED
  BY <1>1, <1>4, <1>5, <1>8 DEF Counted

LEMMA FreeSuperCount ==
  ASSUME IInv, IInv', Counted, FreeSuper
  PROVE  Counted'
<1> DEFINE n == (l.count + 1) % Width
<1>1. l.pc = "freed" /\ UNCHANGED <<length, blk, crashes>> /\ freeCount' = n
      /\ l' = [l EXCEPT !.pc = IF l.nxt = 0 THEN "clear" ELSE "free", !.count = n,
                        !.cur = l.nxt, !.nxt = 0]
  BY DEF FreeSuper, At, counts
<1>2. length >= 2 /\ l.count = freeCount /\ freeCount \in 0 .. Width-1 /\ crashes \in Nat
  BY <1>1, OnVolume, SizesAssumption DEF IInv, TypeOK, Removing
<1>3. n = IF freeCount = Width-1 THEN 0 ELSE freeCount+1
  BY <1>2, CountMoves
<1> HIDE DEF n
<1>4. Taken = 1 /\ Taken' = 0
  <2>1. l'.pc \in {"clear", "free"}
    BY <1>1 DEF IInv, TypeOK, Local
  <2> QED
    BY <2>1, <1>1 DEF Taken
<1>5. Zeroes' = Zeroes /\ Zeroes \in 0 .. NB-2 /\ Width \in Nat /\ NB \in Nat /\ Width > NB
  BY <1>1, ZeroesIs, SizesAssumption DEF Zeroes
<1>6. PICK d \in 0 .. crashes : d < Width /\ (freeCount + 1 + d = Zeroes
                                              \/ freeCount + 1 + d = Zeroes + Width)
  BY <1>2, <1>4 DEF Counted, Short
<1>7. n + 0 + d = Zeroes \/ n + 0 + d = Zeroes + Width
  BY <1>2, <1>3, <1>5, <1>6
<1>8. Short(n + 0, Zeroes, crashes)
  BY <1>6, <1>7 DEF Short
<1> QED
  BY <1>1, <1>4, <1>5, <1>8 DEF Counted

\* The steps that fill a block, link it or empty it.
LEMMA CopyWriteCount ==
  ASSUME IInv, IInv', NoZeroBlocks, NEW c, Vol(c), Counted, CopyWrite
  PROVE  Counted'
<1> DEFINE k == Len(l.cmd.file) - l.left
           b == [data |-> l.cmd.file[k + 1], next |-> 0]
<1>1. /\ l.pc = "write" /\ l.pc \in Copying /\ UNCHANGED <<length, freeCount, crashes>>
      /\ blk' = [blk EXCEPT ![l.cur] = b]
      /\ l' = [l EXCEPT !.pc = IF l.left = 1 THEN "insert" ELSE "find",
                        !.buf = b, !.left = l.left - 1]
  BY DEF CopyWrite, At, Copying, counts
<1>2. /\ l.cmd.file \in Files /\ Len(l.cmd.file) \in Nat
      /\ l.left \in 1 .. Len(l.cmd.file)
  BY <1>1, CopyIs DEF IInv, Place, Copying
<1>3. k \in Nat /\ k+1 \in 1 .. Len(l.cmd.file)
  BY <1>2
<1>4. b # ZeroBlock
  BY <1>2, <1>3 DEF NoZeroBlocks, ZeroBlock
<1>5. /\ c[0] \in Seq(Data) /\ Len(c[0]) = k+1 /\ blk[c[0][k+1]] = ZeroBlock
      /\ c[0] # <<>> => l.cur = c[0][Len(c[0])]
  BY <1>1, CopyIs DEF Prefix, At
<1>6. l.cur \in Data /\ blk[l.cur] = ZeroBlock
  BY <1>3, <1>5, Listed
<1> HIDE DEF b, k
<1>7. l.cur \in ZeroSet /\ l.cur \notin ZeroSet' /\ ZeroSet = ZeroSet' \cup {l.cur}
  BY <1>1, <1>4, <1>6 DEF ZeroSet, IInv, TypeOK
<1>8. Zeroes = Zeroes' + 1 /\ Zeroes' \in 0 .. NB-2
  BY <1>6, <1>7, ZeroesIs, ZeroesIsNext, DataSets
<1>9. Taken = 1 /\ Taken' = 0
  <2>1. l'.pc \in {"insert", "find"}
    BY <1>1 DEF IInv, TypeOK, Local
  <2> QED
    BY <2>1, <1>1 DEF Taken
<1>10. length >= 2 /\ freeCount \in 0 .. Width-1 /\ crashes \in Nat /\ Width \in Nat
       /\ NB \in Nat
  BY <1>1, OnVolume, SizesAssumption DEF IInv, TypeOK
<1>11. PICK d \in 0 .. crashes : d < Width /\ (freeCount + 1 + d = Zeroes
                                               \/ freeCount + 1 + d = Zeroes + Width)
  BY <1>9, <1>10 DEF Counted, Short
<1>12. freeCount + 0 + d = Zeroes' \/ freeCount + 0 + d = Zeroes' + Width
  <2> DEFINE z == Zeroes'
  <2>1. z \in Int /\ Zeroes = z + 1 /\ Width \in Int /\ freeCount \in Int /\ d \in Int
    BY <1>8, <1>10
  <2> HIDE DEF z
  <2>2. freeCount + 1 + d = z + 1 \/ freeCount + 1 + d = z + 1 + Width
    BY <1>11, <2>1
  <2>3. freeCount + 0 + d = z \/ freeCount + 0 + d = z + Width
    BY <2>1, <2>2
  <2> QED
    BY <2>3 DEF z
<1>13. Short(freeCount + 0, Zeroes', crashes)
  BY <1>11, <1>12 DEF Short
<1> QED
  BY <1>1, <1>9, <1>13 DEF Counted

LEMMA FreeCount ==
  ASSUME IInv, IInv', NEW c, Vol(c), Counted, Free
  PROVE  Counted'
<1>1. /\ l.pc = "free" /\ UNCHANGED <<length, freeCount, crashes>> /\ l.cur \in Data
      /\ blk' = [blk EXCEPT ![l.cur] = ZeroBlock]
      /\ l' = [l EXCEPT !.pc = "freed", !.nxt = blk[l.cur].next]
      /\ l.slot \in Slots
  BY DEF Free, At, IInv, Place, Removing, counts
<1>2. blk[l.cur].data # Zero
  <2> PICK s \in Slots : s = l.slot
    BY <1>1
  <2>1. c[s] \in Seq(Data) /\ Linked(blk, l.cur, c[s]) /\ Full(blk, c[s])
    BY <1>1, VolFacts, CellFacts DEF Front, Leaving, Removing, At
  <2>2. c[s] # <<>> /\ c[s][1] = l.cur
    BY <1>1, <2>1, Pop
  <2>3. 1 \in 1 .. Len(c[s])
    BY <2>1, <2>2
  <2> QED
    BY <2>1, <2>2, <2>3 DEF Full
<1>3. l.cur \notin ZeroSet /\ ZeroSet' = ZeroSet \cup {l.cur}
  BY <1>1, <1>2 DEF ZeroSet, IInv, TypeOK, ZeroBlock
<1>4. Zeroes' = Zeroes + 1 /\ Zeroes \in 0 .. NB-2
  BY <1>1, <1>3, ZeroesIs, ZeroesIsNext, DataSets
<1>5. Taken = 0 /\ Taken' = 1
  <2>1. l'.pc = "freed"
    BY <1>1 DEF IInv, TypeOK, Local
  <2> QED
    BY <2>1, <1>1 DEF Taken
<1>6. length >= 2 /\ freeCount \in 0 .. Width-1 /\ crashes \in Nat /\ Width \in Nat
      /\ NB \in Nat
  BY <1>1, OnVolume, SizesAssumption DEF IInv, TypeOK, Removing
<1>7. PICK d \in 0 .. crashes : d < Width /\ (freeCount + 0 + d = Zeroes
                                              \/ freeCount + 0 + d = Zeroes + Width)
  BY <1>5, <1>6 DEF Counted, Short
<1>8. freeCount + 1 + d = Zeroes' \/ freeCount + 1 + d = Zeroes' + Width
  BY <1>4, <1>6, <1>7
<1>9. Short(freeCount + 1, Zeroes', crashes)
  BY <1>7, <1>8 DEF Short
<1> QED
  BY <1>1, <1>5, <1>9 DEF Counted

LEMMA CopyLinkCount ==
  ASSUME IInv, IInv', NoZeroBlocks, NEW c, Vol(c), Counted, CopyLink
  PROVE  Counted'
<1>1. /\ l.pc = "link" /\ l.pc \in Copying /\ UNCHANGED <<length, freeCount, crashes>>
      /\ blk' = [blk EXCEPT ![l.cur] = [l.buf EXCEPT !.next = l.new]]
      /\ l' = [l EXCEPT !.pc = "write", !.cur = l.new]
  BY DEF CopyLink, At, Copying, counts
<1> DEFINE q == c[0]
           k == Len(l.cmd.file) - l.left
<1>2. /\ q \in Seq(Data) /\ Len(q) = k /\ q # <<>> /\ l.cur = q[k] /\ l.buf = blk[l.cur]
      /\ \A i \in 1 .. k : blk[q[i]].data = l.cmd.file[i]
      /\ l.cmd.file \in Files /\ Len(l.cmd.file) \in Nat /\ l.left \in 0 .. Len(l.cmd.file)
  BY <1>1, CopyIs DEF Prefix, At
<1>3. k \in 1 .. k /\ k \in 1 .. Len(l.cmd.file)
  BY <1>2
<1>4. l.cur \in Data /\ blk[l.cur].data # Zero
  BY <1>2, <1>3, Listed DEF NoZeroBlocks
<1>5. blk'[l.cur].data # Zero /\ \A x \in Data : x # l.cur => blk'[x] = blk[x]
  BY <1>1, <1>2, <1>4 DEF IInv, TypeOK, Block
<1>6. ZeroSet' = ZeroSet
  BY <1>4, <1>5 DEF ZeroSet, ZeroBlock
<1>7. Taken' = Taken
  <2>1. l'.pc = "write"
    BY <1>1 DEF IInv, TypeOK, Local
  <2> QED
    BY <2>1, <1>1 DEF Taken
<1>8. length >= 2
  BY <1>1, OnVolume
<1> QED
  BY <1>1, <1>6, <1>7, <1>8, SameCount

LEMMA FormatCount ==
  ASSUME IInv, IInv', (\E m \in Menu : MkfsTrunc(m)) \/ MkfsSuper \/ MkfsRoot
  PROVE  Counted'
<1>1. CASE \E m \in Menu : MkfsTrunc(m)
  <2>1. length' = 0
    BY <1>1 DEF MkfsTrunc
  <2> QED
    BY <2>1 DEF Counted
<1>2. CASE MkfsSuper
  BY <1>2 DEF MkfsSuper, Counted
<1>3. CASE MkfsRoot
  <2>1. freeCount = NB - 2 /\ Blank /\ UNCHANGED <<freeCount, blk, crashes>> /\ crashes \in Nat
    BY <1>3, SizesAssumption DEF MkfsRoot, IInv, Place, TypeOK, Blank, At, counts
  <2>2. ZeroSet' = Data
    BY <2>1 DEF Blank, ZeroSet
  <2>3. Cardinality(Data) = NB - 2
    BY SizesAssumption, FS_Interval DEF Data
  <2>4. Zeroes' = NB - 2
    BY <2>2, <2>3, ZeroesIsNext
  <2>5. Taken' = 0
    BY <1>3 DEF MkfsRoot, Finish, Ended, Idle, Taken
  <2>6. Short(freeCount + 0, Zeroes', crashes)
    <3>1. freeCount + 0 + 0 = Zeroes' /\ 0 \in 0 .. crashes /\ 0 < Width
      BY <2>1, <2>4, SizesAssumption
    <3> QED
      BY <3>1 DEF Short
  <2> QED
    BY <2>1, <2>5, <2>6 DEF Counted
<1> QED
  BY <1>1, <1>2, <1>3

\* The other steps write no block and no count.
LEMMA OtherCount ==
  ASSUME IInv, IInv', Counted,
         (\E m \in Menu : Start(m)) \/ Find \/ Insert \/ Read \/ Clear \/ Extend
  PROVE  Counted'
<1>1. UNCHANGED <<freeCount, blk, crashes>> /\ (length' = length \/ length >= 2)
  <2>1. CASE \E m \in Menu : Start(m)
    <3> PICK m \in Menu : Start(m)
      BY <2>1
    <3> QED
      BY DEF Start, disk
  <2>2. CASE Find \/ Read
    BY <2>2 DEF Find, Read, disk, counts
  <2>3. CASE Insert \/ Clear
    BY <2>3 DEF Insert, Clear, counts
  <2>4. CASE Extend
    <3>1. length = 2 /\ UNCHANGED <<freeCount, blk, crashes>>
      BY <2>4 DEF Extend, counts
    <3> QED
      BY <3>1
  <2> QED
    BY <2>1, <2>2, <2>3, <2>4
<1>2. ZeroSet' = ZeroSet /\ (length >= 2 \/ ~(length' >= 2))
  BY <1>1 DEF ZeroSet
<1>3. Taken = 0
  <2>1. (\E m \in Menu : Start(m)) => l.pc = "idle"
    BY DEF Start, At
  <2>2. l.pc \in {"idle", "find", "insert", "read", "clear"}
    BY <2>1 DEF Find, Insert, Read, Clear, Extend, At
  <2> QED
    BY <2>2 DEF Taken
<1>4. l'.pc \notin {"link", "write", "freed"}
  <2>1. CASE \E m \in Menu : Start(m)
    <3> PICK m \in Menu : Start(m)
      BY <2>1
    <3> DEFINE Pcs == {"idle", "insert", "find", "read", "clear", "free"}
    <3>1. CASE m.op = "mycopyto"
      <4>1. l'.pc \in Pcs
        BY <3>1 DEF Start, Idle
      <4> QED
        BY <4>1
    <3>2. CASE m.op # "mycopyto" /\ Matching(m.name) = {}
      <4>1. Start(m) => l'.pc = "idle"
        BY <3>2 DEF Start, Idle, IsFirst
      <4> QED
        BY <4>1
    <3>3. CASE m.op # "mycopyto" /\ Matching(m.name) # {}
      <4>1. l'.pc \in Pcs
        BY <3>3 DEF Start, Idle
      <4> QED
        BY <4>1
    <3> QED
      BY <3>1, <3>2, <3>3
  <2>2. CASE Find
    BY <2>2 DEF Find, Finish, Ended, Idle, IInv, TypeOK, Local
  <2>3. CASE Insert \/ Clear
    BY <2>3 DEF Insert, Clear, Finish, Ended, Idle
  <2>4. CASE Read
    BY <2>4 DEF Read, Ended, Idle, IInv, TypeOK, Local, At
  <2>5. CASE Extend
    BY <2>5 DEF Extend, At
  <2> QED
    BY <2>1, <2>2, <2>3, <2>4, <2>5
<1>5. Taken' = Taken
  BY <1>3, <1>4 DEF Taken
<1> QED
  BY <1>1, <1>2, <1>5, SameCount

LEMMA NextCount ==
  ASSUME IInv, IInv', NoZeroBlocks, NEW c, Vol(c), Counted, [Next]_vars
  PROVE  Counted'
<1>1. CASE UNCHANGED vars
  BY <1>1, SameCount, SizesAssumption DEF vars, Taken, ZeroSet, IInv, TypeOK
<1>2. CASE (\E m \in Menu : MkfsTrunc(m)) \/ MkfsSuper \/ MkfsRoot
  BY <1>2, FormatCount
<1>3. CASE (\E m \in Menu : Start(m)) \/ Find \/ Insert \/ Read \/ Clear \/ Extend
  BY <1>3, OtherCount
<1>4. CASE AllocSuper \/ FreeSuper \/ Crash
  BY <1>4, AllocSuperCount, FreeSuperCount, CrashCount
<1>5. CASE CopyWrite \/ CopyLink \/ Free
  BY <1>5, CopyWriteCount, CopyLinkCount, FreeCount
<1> QED
  BY <1>1, <1>2, <1>3, <1>4, <1>5 DEF Next, Step

LEMMA DriftIs == IInv /\ Counted => CountDrift
<1> SUFFICES ASSUME IInv, Counted, Quiet
             PROVE  \E d \in 0 .. crashes : (freeCount + d) % Width = Zeroes
  BY DEF CountDrift
<1>1. Taken = 0 /\ freeCount \in 0 .. Width-1 /\ crashes \in Nat /\ length >= 2
  BY SizesAssumption DEF Quiet, At, Taken, IInv, TypeOK
<1>2. PICK d \in 0 .. crashes : d < Width /\ (freeCount + 0 + d = Zeroes
                                              \/ freeCount + 0 + d = Zeroes + Width)
  BY <1>1 DEF Counted, Short
<1>3. Zeroes \in 0 .. NB-2 /\ Width \in Nat /\ NB \in Nat /\ Width > NB
  BY ZeroesIs, SizesAssumption
<1>4. ASSUME NEW x, x = freeCount + d PROVE x % Width = Zeroes
  <2>1. x \in Nat /\ x < 2 * Width /\ (x = Zeroes \/ x = Zeroes + Width)
    BY <1>1, <1>2, <1>3, <1>4
  <2>2. x % Width = IF x < Width THEN x ELSE x - Width
    BY <2>1, Wraps
  <2> QED
    BY <1>3, <2>1, <2>2
<1> QED
  BY <1>2, <1>4

\* Between commands the superblock of solution.c counts the free blocks, short by
\* at most one for each command that was killed, modulo 2^32: as long as no host
\* file has a block of zeroes and no myrm is killed.
THEOREM CountDriftsByKills ==
  ASSUME NoZeroBlocks, RemovalsEnd
  PROVE  Spec => []CountDrift
<1>1. Init => Counted
  BY DEF Init, Counted
<1>2. IInv /\ IInv' /\ CInv /\ Counted /\ [Next]_vars => Counted'
  BY NextCount DEF CInv
<1> QED
  BY <1>1, <1>2, IInvAlways, CInvAlways, DriftIs, PTL DEF Spec

-----------------------------------------------------------------------------
(* What a user sees of an entry is what its chain spells.                  *)

LEMMA Least ==
  ASSUME NEW S \in SUBSET Nat, S # {}
  PROVE  \E n \in S : \A m \in S : n <= m
<1>1. PICK n \in S : \A m \in S : ~(<<m, n>> \in OpToRel(<, Nat))
  BY NatLessThanWellFounded, WFMin
<1>2. \A m \in S : ~(m < n)
  BY <1>1 DEF OpToRel
<1> QED
  BY <1>2

\* A chain can be followed for as long as one likes.
LEMMA HopsExist ==
  ASSUME IInv, NEW b \in Ptr, NEW n \in Nat
  PROVE  \E h \in [0 .. n -> Ptr] : h = [i \in 0 .. n |-> IF i = 0 THEN b ELSE Hop(h[i-1])]
<1> DEFINE P(m) == \E h \in [0 .. m -> Ptr] :
                     h = [i \in 0 .. m |-> IF i = 0 THEN b ELSE Hop(h[i-1])]
           D == {m \in Nat : ~P(m)}
<1> SUFFICES ASSUME D # {} PROVE FALSE
  OBVIOUS
<1>1. PICK m \in D : \A k \in D : m <= k
  <2>1. D \in SUBSET Nat
    OBVIOUS
  <2> HIDE DEF D
  <2> QED
    BY <2>1, Least
<1>2. CASE m = 0
  <2> DEFINE h == [i \in 0 .. 0 |-> b]
  <2>1. h \in [0 .. 0 -> Ptr] /\ h = [i \in 0 .. 0 |-> IF i = 0 THEN b ELSE Hop(h[i-1])]
    OBVIOUS
  <2> QED
    BY <1>1, <1>2, <2>1
<1>3. CASE m # 0
  <2>1. m-1 \in Nat /\ P(m-1)
    <3> HIDE DEF P
    <3> QED
      BY <1>1, <1>3
  <2>2. PICK g \in [0 .. m-1 -> Ptr] :
          g = [i \in 0 .. m-1 |-> IF i = 0 THEN b ELSE Hop(g[i-1])]
    BY <2>1
  <2>3. \A p \in Ptr : Hop(p) \in Ptr
    BY SizesAssumption DEF Hop, Ptr, IInv, TypeOK, Block
  <2> DEFINE h == [i \in 0 .. m |-> IF i = m THEN Hop(g[m-1]) ELSE g[i]]
  <2>4. h \in [0 .. m -> Ptr]
    <3>1. m-1 \in 0 .. m-1 /\ g[m-1] \in Ptr
      BY <2>1, <2>2
    <3>2. \A i \in 0 .. m : i # m => i \in 0 .. m-1
      BY <2>1
    <3>3. \A i \in 0 .. m : (IF i = m THEN Hop(g[m-1]) ELSE g[i]) \in Ptr
      BY <2>2, <2>3, <3>1, <3>2
    <3> QED
      BY <3>3
  <2>5. ASSUME NEW i \in 0 .. m PROVE h[i] = IF i = 0 THEN b ELSE Hop(h[i-1])
    <3>1. CASE i = m
      BY <3>1, <1>3, <2>1
    <3>2. CASE i # m
      <4>1. i \in 0 .. m-1 /\ h[i] = g[i] /\ (i # 0 => i-1 \in 0 .. m /\ i-1 # m)
        BY <3>2, <2>1
      <4>2. g[i] = IF i = 0 THEN b ELSE Hop(g[i-1])
        BY <2>2, <4>1
      <4> QED
        BY <4>1, <4>2
    <3> QED
      BY <3>1, <3>2
  <2>6. h = [i \in 0 .. m |-> IF i = 0 THEN b ELSE Hop(h[i-1])]
    BY <2>5
  <2> QED
    BY <1>1, <2>4, <2>6
<1> QED
  BY <1>2, <1>3

LEMMA HopsAre ==
  ASSUME IInv, NEW e \in MyFSEntry
  PROVE  /\ Hops(e)[0] = e.start
         /\ \A i \in 1 .. e.size : Hops(e)[i] = Hop(Hops(e)[i-1])
         /\ \A i \in 0 .. e.size : Hops(e)[i] \in Ptr
<1> DEFINE n == e.size
           G(h) == [i \in 0 .. n |-> IF i = 0 THEN e.start ELSE Hop(h[i-1])]
<1>1. n \in Nat /\ e.start \in Ptr
  BY DEF MyFSEntry
<1>2. \E h \in [0 .. n -> Ptr] : h = G(h)
  BY <1>1, HopsExist
<1>3. Hops(e) = G(Hops(e))
  BY <1>2 DEF Hops
<1> HIDE DEF n
<1>4. 0 \in 0 .. n /\ \A i \in 1 .. n : i \in 0 .. n /\ i # 0 /\ i-1 \in 0 .. n
  BY <1>1
<1>5. Hops(e)[0] = e.start /\ \A i \in 1 .. n : Hops(e)[i] = Hop(Hops(e)[i-1])
  BY <1>3, <1>4
<1>6. \A p \in Ptr : Hop(p) \in Ptr
  BY SizesAssumption DEF Hop, Ptr, IInv, TypeOK, Block
<1>7. \A i \in 0 .. n : Hops(e)[i] \in Ptr
  <2> DEFINE D == {i \in 0 .. n : Hops(e)[i] \notin Ptr}
  <2> SUFFICES ASSUME D # {} PROVE FALSE
    OBVIOUS
  <2>1. PICK i \in D : \A j \in D : i <= j
    <3>1. D \in SUBSET Nat
      BY <1>1
    <3> HIDE DEF D
    <3> QED
      BY <3>1, Least
  <2>2. i # 0
    BY <1>1, <1>5, <2>1
  <2>3. i \in 1 .. n /\ i-1 \in 0 .. n /\ i-1 \notin D
    BY <1>1, <2>1, <2>2
  <2> QED
    BY <1>5, <1>6, <2>1, <2>3
<1> QED
  BY <1>5, <1>7 DEF n

\* What the chain of an entry holds, once it is known where it ends.
LEMMA ContentTo ==
  ASSUME IInv, NEW e \in MyFSEntry, NEW k \in 0 .. e.size,
         \A i \in 1 .. k : Hops(e)[i-1] # 0,
         k = e.size \/ Hops(e)[k] = 0
  PROVE  Content(e) = [i \in 1 .. k |-> blk[Hops(e)[i-1]].data]
<1> DEFINE n == e.size
<1>1. n \in Nat /\ k \in 0 .. n
  BY DEF MyFSEntry
<1>2. \A i \in 0 .. k-1 : Hops(e)[i] # 0
  <2> TAKE i \in 0 .. k-1
  <2>1. i+1 \in 1 .. k /\ (i+1)-1 = i
    BY <1>1
  <2> QED
    BY <2>1
<1>3. \A i \in k .. n-1 : Hops(e)[i] = 0
  <2> DEFINE D == {i \in k .. n-1 : Hops(e)[i] # 0}
  <2> SUFFICES ASSUME D # {} PROVE FALSE
    OBVIOUS
  <2>1. PICK i \in D : \A j \in D : i <= j
    <3>1. D \in SUBSET Nat
      BY <1>1
    <3> HIDE DEF D
    <3> QED
      BY <3>1, Least
  <2>2. i \in k .. n-1 /\ Hops(e)[i] # 0
    BY <2>1
  <2>3. i # k
    BY <1>1, <2>2
  <2>4. i \in 1 .. n /\ i-1 \in k .. n-1
    BY <1>1, <2>2, <2>3
  <2>5. Hops(e)[i-1] = 0
    <3>1. i-1 \notin D
      BY <1>1, <2>1, <2>4
    <3> QED
      BY <2>4, <3>1
  <2>6. Hops(e)[i] = Hop(Hops(e)[i-1])
    BY <2>4, HopsAre
  <2> QED
    BY <2>2, <2>5, <2>6 DEF Hop
<1>4. {i \in 0 .. n-1 : Hops(e)[i] # 0} = 0 .. k-1
  <2>1. 0 .. k-1 \subseteq 0 .. n-1 /\ \A i \in 0 .. n-1 : i \in 0 .. k-1 \/ i \in k .. n-1
    BY <1>1
  <2> QED
    BY <1>2, <1>3, <2>1
<1>5. Cardinality(0 .. k-1) = k
  <2>1. 0 \in Int /\ k-1 \in Int /\ (k-1) - 0 + 1 = k /\ (0 > k-1 => k = 0)
    BY <1>1
  <2> QED
    BY <2>1, FS_Interval
<1> QED
  BY <1>4, <1>5 DEF Content

LEMMA ContentIs ==
  ASSUME IInv, NEW e \in MyFSEntry, NEW q \in Seq(Data), Linked(blk, e.start, q),
         Len(q) = e.size
  PROVE  Content(e) = Text(blk, q)
<1> DEFINE n == Len(q)
<1>1. n \in Nat
  OBVIOUS
<1>2. \A i \in 0 .. n : Hops(e)[i] = Nth(q, i+1)
  <2> DEFINE D == {i \in 0 .. n : Hops(e)[i] # Nth(q, i+1)}
  <2> SUFFICES ASSUME D # {} PROVE FALSE
    OBVIOUS
  <2>1. PICK i \in D : \A j \in D : i <= j
    <3>1. D \in SUBSET Nat
      BY <1>1
    <3> HIDE DEF D
    <3> QED
      BY <3>1, Least
  <2>2. i # 0
    <3>1. Hops(e)[0] = Nth(q, 0+1)
      BY HopsAre DEF Linked
    <3> QED
      BY <2>1, <3>1
  <2>3. i \in 1 .. n /\ i-1 \in 0 .. n /\ i-1 \notin D /\ (i-1)+1 = i
    BY <1>1, <2>1, <2>2
  <2>4. Hops(e)[i-1] = Nth(q, i)
    BY <2>3
  <2>5. Nth(q, i) = q[i] /\ q[i] # 0 /\ blk[q[i]].next = Nth(q, i+1)
    BY <2>3, Listed, CellFacts DEF Linked
  <2>6. Hops(e)[i] = Hop(Hops(e)[i-1])
    BY <2>3, HopsAre
  <2> QED
    BY <2>1, <2>4, <2>5, <2>6 DEF Hop
<1>3. ASSUME NEW i \in 1 .. n PROVE Hops(e)[i-1] = q[i] /\ q[i] # 0
  <2>1. i-1 \in 0 .. n /\ (i-1)+1 = i
    BY <1>1
  <2> QED
    BY <1>2, <2>1, Listed, CellFacts
<1>4. Content(e) = [i \in 1 .. n |-> blk[Hops(e)[i-1]].data]
  <2>1. n \in 0 .. e.size /\ n = e.size
    BY <1>1
  <2>2. \A i \in 1 .. n : Hops(e)[i-1] # 0
    BY <1>3
  <2> HIDE DEF n
  <2> QED
    BY <2>1, <2>2, ContentTo
<1> QED
  BY <1>3, <1>4 DEF Text

ShownFact == IInv => \A c : Vol(c) =>
  \A s \in Live : /\ AbsDir[s] = [name |-> root[s].name, file |-> Text(blk, c[s])]
                  /\ AbsDir[s] \in AbsEntry /\ Len(c[s]) = root[s].size /\ s \in Slots

LEMMA ShownIs == ShownFact
<1> SUFFICES ASSUME IInv, NEW c, Vol(c), NEW s \in Live
             PROVE  /\ AbsDir[s] = [name |-> root[s].name, file |-> Text(blk, c[s])]
                    /\ AbsDir[s] \in AbsEntry /\ Len(c[s]) = root[s].size /\ s \in Slots
  BY DEF ShownFact
<1>1. s \in Slots /\ root[s].name # NoName /\ s \notin Doomed
  BY DEF Live
<1>2. s \notin Leaving
  BY <1>1 DEF Leaving, Doomed, IInv, Place
<1>3. Len(c[s]) = root[s].size /\ Text(blk, c[s]) \in Files /\ Linked(blk, root[s].start, c[s])
  <2>1. root[s] # ZeroEntry
    BY <1>1 DEF ZeroEntry
  <2>2. root[s].type = "f"
    BY <1>1, <1>2, <2>1 DEF Vol, Stored
  <2> QED
    BY <1>1, <1>2, <2>2, EntryIs
<1>4. Content(root[s]) = Text(blk, c[s])
  <2> DEFINE q == c[s]
             e == root[s]
  <2>1. q \in Seq(Data) /\ e \in MyFSEntry
    BY <1>1, VolFacts, CellFacts DEF IInv, TypeOK
  <2>2. Linked(blk, e.start, q) /\ Len(q) = e.size
    BY <1>3
  <2> HIDE DEF q, e
  <2>3. Content(e) = Text(blk, q)
    BY <2>1, <2>2, ContentIs
  <2> QED
    BY <2>3 DEF q, e
<1>5. root[s].name \in Names
  BY <1>1 DEF IInv, TypeOK, MyFSEntry
<1> QED
  BY <1>1, <1>3, <1>4, <1>5 DEF AbsDir, AbsEntry

LEMMA ShownIsNext == ShownFact'
BY ShownIs, PTL

-----------------------------------------------------------------------------
(* The volume implements the file store.                                   *)

\* What a step does to the set of entries seen.
LiveMoves == \/ Live' = {} \/ Live' = Live
             \/ \E s \in Live : Live' = Live \ {s}
             \/ \E s \in Slots \ Live : Live' = Live \cup {s}

LEMMA SameLive ==
  ASSUME UNCHANGED <<length, root>>, Doomed' \cap Slots = Doomed \cap Slots
  PROVE  Live' = Live
BY DEF Live

\* A command that is not myrm, or goes on, dooms no other entry.
LEMMA SameDoomed ==
  ASSUME l'.cmd = l.cmd, l'.slot = l.slot \/ (op # "myrm" /\ l'.cmd = l.cmd)
  PROVE  Doomed' = Doomed
BY DEF Doomed, op

LEMMA StartLive ==
  ASSUME IInv, IInv', NEW m \in Menu, Start(m)
  PROVE  LiveMoves
<1>1. l.slot = 0 /\ UNCHANGED <<length, root>>
  BY DEF Start, At, IInv, Place, Removing, disk
<1>2. Doomed \cap Slots = {}
  BY <1>1, CellFacts DEF Doomed
<1>3. Doomed' \in {{}, {l'.slot}}
  BY DEF Doomed
<1>4. Live' = Live \ Doomed'
  BY <1>1, <1>2 DEF Live
<1> QED
  BY <1>3, <1>4 DEF LiveMoves

LEMMA InsertLive ==
  ASSUME IInv, IInv', Insert
  PROVE  LiveMoves
<1>1. op = "mycopyto" /\ length >= 2 /\ UNCHANGED length
  BY DEF Insert, At, IInv, Place, Copying
<1>2. l'.cmd = l.cmd
  BY DEF Insert, Finish, Ended, Idle
<1>3. Doomed = {} /\ Doomed' = {}
  BY <1>1, <1>2 DEF Doomed, op
<1>4. CASE UNCHANGED root
  BY <1>1, <1>3, <1>4, SameLive DEF LiveMoves
<1>5. CASE ~UNCHANGED root
  <2>1. PICK s \in Slots : /\ IsFirst(s, EmptySlots)
                           /\ root' = [root EXCEPT ![s] = NewEntry]
    BY <1>5 DEF Insert
  <2>2. root[s].name = NoName /\ root'[s].name = l.cmd.name
        /\ \A t \in Slots : t # s => root'[t] = root[t]
    BY <2>1 DEF IsFirst, EmptySlots, Matching, NewEntry, IInv, TypeOK
  <2>3. s \notin Live /\ Live' = IF l.cmd.name = NoName THEN Live ELSE Live \cup {s}
    BY <1>1, <1>3, <2>2 DEF Live
  <2> QED
    BY <2>3 DEF LiveMoves
<1> QED
  BY <1>4, <1>5

LEMMA ClearLive ==
  ASSUME IInv, IInv', Clear
  PROVE  LiveMoves
<1>1. op = "myrm" /\ UNCHANGED length /\ l.slot \in Slots
      /\ root' = [root EXCEPT ![l.slot] = ZeroEntry] /\ l' = Ended("ok", <<>>)
  BY DEF Clear, Finish, At, IInv, Place, Removing
<1>2. Doomed = {l.slot} /\ Doomed' = {0}
  BY <1>1 DEF Doomed, op, Ended, Idle
<1>3. root'[l.slot].name = NoName /\ \A t \in Slots : t # l.slot => root'[t] = root[t]
  BY <1>1 DEF IInv, TypeOK, ZeroEntry
<1>4. Live' = Live
  BY <1>1, <1>2, <1>3, CellFacts DEF Live
<1> QED
  BY <1>4 DEF LiveMoves

LEMMA NextLive ==
  ASSUME IInv, IInv', RemovalsEnd, [Next]_vars
  PROVE  LiveMoves
<1>1. CASE UNCHANGED vars
  BY <1>1, SameLive DEF vars, Doomed, op, LiveMoves
<1>2. CASE \E m \in Menu : Start(m)
  BY <1>2, StartLive
<1>3. CASE (\E m \in Menu : MkfsTrunc(m)) \/ MkfsSuper
  <2>1. length' \in {0, 1}
    BY <1>3 DEF MkfsTrunc, MkfsSuper
  <2>2. Live' = {}
    BY <2>1 DEF Live
  <2> QED
    BY <2>2 DEF LiveMoves
<1>4. CASE MkfsRoot
  <2>1. root' = [s \in Slots |-> ZeroEntry]
    BY <1>4 DEF MkfsRoot, IInv, Place, At
  <2>2. Live' = {}
    BY <2>1 DEF Live, ZeroEntry
  <2> QED
    BY <2>2 DEF LiveMoves
<1>5. CASE Find \/ AllocSuper \/ CopyLink \/ CopyWrite \/ Read
  <2>1. op # "myrm" /\ UNCHANGED <<length, root>>
    BY <1>5 DEF Find, AllocSuper, CopyLink, CopyWrite, Read, At, disk, IInv, Place, Copying
  <2>2. l'.cmd = l.cmd
    <3>1. CASE Find
      BY <3>1 DEF Find, Finish, Ended, Idle, IInv, TypeOK, Local
    <3>2. CASE AllocSuper
      BY <3>2 DEF AllocSuper, IInv, TypeOK, Local
    <3>3. CASE CopyLink \/ CopyWrite
      BY <3>3 DEF CopyLink, CopyWrite, IInv, TypeOK, Local
    <3>4. CASE Read
      BY <3>4 DEF Read, Ended, Idle, IInv, TypeOK, Local
    <3> QED
      BY <1>5, <3>1, <3>2, <3>3, <3>4
  <2> QED
    BY <2>1, <2>2, SameDoomed, SameLive DEF LiveMoves
<1>6. CASE Insert
  BY <1>6, InsertLive
<1>7. CASE Free \/ FreeSuper
  <2>1. UNCHANGED <<length, root>>
    BY <1>7 DEF Free, FreeSuper
  <2>2. l'.cmd = l.cmd /\ l'.slot = l.slot
    BY <1>7 DEF Free, FreeSuper, IInv, TypeOK, Local
  <2> QED
    BY <2>1, <2>2, SameDoomed, SameLive DEF LiveMoves
<1>8. CASE Clear
  BY <1>8, ClearLive
<1>9. CASE Extend
  <2>1. UNCHANGED <<root, l>> /\ length >= 2 /\ length' >= 2
    BY <1>9, SizesAssumption DEF Extend
  <2>2. Live' = Live
    BY <2>1 DEF Live, Doomed, op
  <2> QED
    BY <2>2 DEF LiveMoves
<1>10. CASE Crash
  <2>1. UNCHANGED <<length, root>> /\ op # "myrm" /\ l' = Idle
    BY <1>10 DEF Crash, disk, RemovalsEnd
  <2>2. Doomed = {} /\ Doomed' = {}
    BY <2>1 DEF Doomed, op, Idle
  <2> QED
    BY <2>1, <2>2, SameLive DEF LiveMoves
<1> QED
  BY <1>1, <1>2, <1>3, <1>4, <1>5, <1>6, <1>7, <1>8, <1>9, <1>10 DEF Next, Step

LEMMA StoreStep ==
  ASSUME IInv, IInv', NoZeroBlocks, RemovalsEnd, CInv, [Next]_vars
  PROVE  [Store!Next]_AbsDir
<1>1. PICK c : Vol(c)
  BY DEF CInv
<1>2. PICK d : Vol(d)' /\ Kept(c, d)
  BY <1>1, NextChains DEF Moves
<1>3. DOMAIN AbsDir = Live /\ DOMAIN AbsDir' = Live'
  BY DEF AbsDir
<1>4. \A s \in Live : AbsDir[s] = [name |-> root[s].name, file |-> Text(blk, c[s])]
                      /\ s \in Slots
  BY <1>1, ShownIs DEF ShownFact
<1>5. \A s \in Live' : /\ AbsDir'[s] = [name |-> root'[s].name, file |-> Text(blk', d[s])]
                       /\ AbsDir'[s] \in AbsEntry
  BY <1>2, ShownIsNext DEF ShownFact
<1>6. \A s \in Live : s \in Live' => AbsDir'[s] = AbsDir[s]
  BY <1>2, <1>4, <1>5 DEF Kept
<1>7. AbsDir = [s \in Live |-> AbsDir[s]] /\ AbsDir' = [s \in Live' |-> AbsDir'[s]]
  BY DEF AbsDir
<1>8. CASE Live' = {}
  <2>1. AbsDir' = [s \in {} |-> {}]
    BY <1>7, <1>8
  <2> QED
    BY <2>1 DEF Store!Next, Store!Format
<1>9. CASE Live' = Live
  BY <1>6, <1>7, <1>9
<1>10. CASE \E s \in Live : Live' = Live \ {s}
  <2>1. PICK s \in Live : Live' = Live \ {s}
    BY <1>10
  <2>2. AbsDir' = [x \in Live \ {s} |-> AbsDir[x]]
    BY <1>6, <1>7, <2>1
  <2>3. Store!Remove(s)
    BY <1>3, <2>2 DEF Store!Remove, Store!Vacant
  <2> QED
    BY <1>4, <2>3 DEF Store!Next
<1>11. CASE \E s \in Slots \ Live : Live' = Live \cup {s}
  <2>1. PICK s \in Slots \ Live : Live' = Live \cup {s}
    BY <1>11
  <2>2. AbsDir'[s] \in AbsEntry /\ \A x \in Live : AbsDir'[x] = AbsDir[x]
    BY <1>5, <1>6, <2>1
  <2>3. Store!Create(s)
    BY <1>3, <2>1, <2>2 DEF Store!Create, Store!Vacant
  <2> QED
    BY <2>1, <2>3 DEF Store!Next
<1> QED
  BY <1>8, <1>9, <1>10, <1>11, NextLive DEF LiveMoves

\* The chained volume implements the abstract file store: a name appears with
\* one whole host file, and only its removal or mymkfs changes what it holds,
\* whatever else is copied in, removed, or killed. This needs that no host file
\* has a block of zeroes, which would be taken for free, and that no myrm is
\* killed, which would leave an entry on blocks it has freed.
THEOREM ChainedStoreImplemented ==
  ASSUME NoZeroBlocks, RemovalsEnd
  PROVE  Spec => ImplementsStore
<1>1. Init => Store!Init
  <2>1. Init => Live = {}
    BY DEF Init, Live
  <2> QED
    BY <2>1 DEF Store!Init, AbsDir
<1>2. IInv /\ IInv' /\ CInv /\ [Next]_vars => [Store!Next]_AbsDir
  BY StoreStep
<1> QED
  BY <1>1, <1>2, IInvAlways, CInvAlways, PTL DEF Spec, ImplementsStore, Store!Spec

-----------------------------------------------------------------------------
(* What a reader gets.  This needs no chains apart: it follows the entry     *)
(* that it found, wherever that leads.                                      *)

\* mycopyfrom has read the front of the chain, and cur points to the rest.
Reading ==
  LET e == root[l.slot]
      k == Len(l.out)
  IN  /\ IsFirst(l.slot, Matching(l.cmd.name))
      /\ k + l.left = e.size
      /\ l.cur = Hops(e)[k]
      /\ \A i \in 1 .. k : Hops(e)[i-1] # 0 /\ l.out[i] = blk[Hops(e)[i-1]].data
RInv == At("read") => Reading

LEMMA SameHops ==
  ASSUME UNCHANGED blk, NEW e
  PROVE  Hops(e)' = Hops(e)
BY DEF Hops, Hop

LEMMA StartReads ==
  ASSUME IInv, NEW m \in Menu, Start(m), l'.pc = "read"
  PROVE  Reading'
<1>1. PICK s \in Slots :
        /\ IsFirst(s, Matching(m.name))
        /\ l'.slot = s /\ l'.cur = root[s].start /\ l'.left = root[s].size
        /\ l'.cmd = m /\ l'.out = <<>>
  <2>1. m.op # "mycopyto"
    BY DEF Start, Idle
  <2>2. PICK s \in Slots :
          /\ IsFirst(s, Matching(m.name))
          /\ l' = [Idle EXCEPT !.cmd = m, !.count = freeCount,
                               !.pc = IF m.op = "mycopyfrom" THEN "read"
                                      ELSE IF root[s].start = 0 THEN "clear" ELSE "free",
                               !.slot = s, !.cur = root[s].start,
                               !.left = IF m.op = "myrm" THEN 0 ELSE root[s].size]
    <3>1. [Idle EXCEPT !.cmd = m, !.count = freeCount, !.res = "err", !.count = 0].pc = "idle"
      BY DEF Idle
    <3> HIDE DEF Idle
    <3> QED
      BY <2>1, <3>1 DEF Start
  <2>3. m.op = "mycopyfrom"
    BY <2>2 DEF Idle
  <2> QED
    BY <2>2, <2>3 DEF Idle
<1>2. UNCHANGED <<root, blk>>
  BY DEF Start, disk
<1>3. root[s] \in MyFSEntry /\ root[s].size \in Nat /\ Len(<<>>) = 0 /\ 1 .. 0 = {}
  BY DEF IInv, TypeOK, MyFSEntry
<1>4. Hops(root[s])[0] = root[s].start
  BY <1>3, HopsAre
<1>5. IsFirst(l.slot, Matching(l.cmd.name))'
  BY <1>1, <1>2 DEF IsFirst, Matching
<1>6. Hops(root[s])' = Hops(root[s])
  BY <1>2, SameHops
<1> QED
  BY <1>1, <1>2, <1>3, <1>4, <1>5, <1>6 DEF Reading

LEMMA ReadReads ==
  ASSUME IInv, Reading, Read, l'.pc = "read"
  PROVE  Reading'
<1>1. l.slot \in Slots /\ UNCHANGED <<root, blk>>
  BY DEF Read, disk, IInv, Place
<1>2. ~(l.left = 0 \/ l.cur = 0)
  BY DEF Read, Ended, Idle
<1>3. /\ l'.out = Append(l.out, blk[l.cur].data) /\ l'.left = l.left - 1
      /\ l'.cur = blk[l.cur].next /\ l'.cmd = l.cmd /\ l'.slot = l.slot
  BY <1>2 DEF Read, IInv, TypeOK, Local
<1>4. l.left \in Nat /\ l.out \in Seq(Chunk)
  BY LocalFacts DEF IInv, TypeOK
<1> DEFINE e == root[l.slot]
           k == Len(l.out)
           x == blk[l.cur].data
<1>5. /\ k + l.left = e.size /\ l.cur = Hops(e)[k]
      /\ \A i \in 1 .. k : Hops(e)[i-1] # 0 /\ l.out[i] = blk[Hops(e)[i-1]].data
      /\ IsFirst(l.slot, Matching(l.cmd.name))
  BY DEF Reading
<1>6. e \in MyFSEntry /\ e.size \in Nat /\ k \in Nat
  BY <1>1, <1>4 DEF IInv, TypeOK, MyFSEntry
<1>7. Len(l'.out) = k+1 /\ l'.out[k+1] = x /\ \A i \in 1 .. k : l'.out[i] = l.out[i]
  <2> HIDE DEF x
  <2> QED
    BY <1>3, <1>4 DEF x
<1> HIDE DEF e, k, x
<1>8. k+1 \in 1 .. e.size /\ (k+1)-1 = k /\ (k+1) + (l.left - 1) = e.size
  BY <1>2, <1>4, <1>5, <1>6
<1>9. l'.cur = Hops(e)[k+1]
  <2>1. Hops(e)[k+1] = Hop(Hops(e)[k])
    BY <1>6, <1>8, HopsAre
  <2> QED
    BY <2>1, <1>2, <1>3, <1>5 DEF Hop
<1>10. \A i \in 1 .. k+1 : Hops(e)[i-1] # 0 /\ l'.out[i] = blk[Hops(e)[i-1]].data
  <2> TAKE i \in 1 .. k+1
  <2>1. CASE i = k+1
    BY <2>1, <1>2, <1>5, <1>7, <1>8 DEF x
  <2>2. CASE i # k+1
    <3>1. i \in 1 .. k
      BY <2>2, <1>6
    <3> QED
      BY <3>1, <1>5, <1>7
  <2> QED
    BY <2>1, <2>2
<1>11. IsFirst(l.slot, Matching(l.cmd.name))'
  BY <1>1, <1>3, <1>5 DEF IsFirst, Matching
<1>12. Hops(e)' = Hops(e) /\ e' = e
  BY <1>1, <1>3, SameHops DEF e
<1> QED
  BY <1>1, <1>3, <1>7, <1>8, <1>9, <1>10, <1>11, <1>12 DEF Reading, e

LEMMA NextReads ==
  ASSUME IInv, RInv, [Next]_vars
  PROVE  RInv'
<1> SUFFICES ASSUME At("read")' PROVE Reading'
  BY DEF RInv
<1>1. CASE UNCHANGED vars
  <2>1. UNCHANGED <<root, blk, l>> /\ Reading
    BY <1>1 DEF vars, RInv, At
  <2>2. Hops(root[l.slot])' = Hops(root[l.slot])
    BY <2>1, SameHops
  <2>3. IsFirst(l.slot, Matching(l.cmd.name))'
    BY <2>1 DEF Reading, IsFirst, Matching
  <2> QED
    BY <2>1, <2>2, <2>3 DEF Reading
<1>2. CASE \E m \in Menu : Start(m)
  BY <1>2, StartReads DEF At
<1>3. CASE Read
  BY <1>3, ReadReads DEF RInv, At, Read
<1>4. CASE Extend
  BY <1>4 DEF Extend, At
<1>5. CASE (\E m \in Menu : MkfsTrunc(m)) \/ MkfsRoot \/ Insert \/ Clear \/ Crash
  <2>1. l'.pc \in {"fsSuper", "idle"}
    <3>1. CASE \E m \in Menu : MkfsTrunc(m)
      BY <3>1 DEF MkfsTrunc, Idle
    <3>2. CASE MkfsRoot \/ Insert \/ Clear
      BY <3>2 DEF MkfsRoot, Insert, Clear, Finish, Ended, Idle
    <3>3. CASE Crash
      BY <3>3 DEF Crash, Idle
    <3> QED
      BY <1>5, <3>1, <3>2, <3>3
  <2> QED
    BY <2>1 DEF At
<1>6. CASE Find
  BY <1>6 DEF Find, Finish, Ended, Idle, At, IInv, TypeOK, Local
<1>7. CASE MkfsSuper \/ CopyLink \/ CopyWrite \/ Free
  BY <1>7 DEF MkfsSuper, CopyLink, CopyWrite, Free, At, IInv, TypeOK, Local
<1>8. CASE AllocSuper \/ FreeSuper
  BY <1>8 DEF AllocSuper, FreeSuper, At, IInv, TypeOK, Local
<1> QED
  BY <1>1, <1>2, <1>3, <1>4, <1>5, <1>6, <1>7, <1>8 DEF Next, Step

LEMMA ReadStep ==
  ASSUME IInv, RInv, [Next]_vars, At("read"), l'.pc = "idle", l'.res = "ok",
         l.cmd.name # NoName
  PROVE  \E s \in Live : IsFirst(s, Matching(l.cmd.name)) /\ l'.out = AbsDir[s].file
<1>1. Read
  BY DEF At, Next, Step, vars, Start, MkfsTrunc, Extend, Crash, MkfsSuper, MkfsRoot, Find,
     AllocSuper, CopyLink, CopyWrite, Insert, Free, FreeSuper, Clear, Idle
<1>2. PICK s \in Slots : s = l.slot
  BY DEF IInv, Place
<1>3. l.left = 0 \/ l.cur = 0
  BY <1>1 DEF Read, At, IInv, TypeOK, Local
<1>4. l'.out = l.out
  BY <1>1, <1>3 DEF Read, Ended, Idle
<1> DEFINE e == root[s]
           k == Len(l.out)
<1>5. /\ IsFirst(s, Matching(l.cmd.name)) /\ k + l.left = e.size /\ l.cur = Hops(e)[k]
      /\ \A i \in 1 .. k : Hops(e)[i-1] # 0 /\ l.out[i] = blk[Hops(e)[i-1]].data
  BY <1>2 DEF RInv, Reading
<1>6. s \in Live
  <2>1. root[s].name # NoName /\ length >= 2
    BY <1>5, OnVolume DEF IsFirst, Matching, At
  <2>2. op # "myrm"
    BY DEF IInv, Place
  <2> QED
    BY <2>1, <2>2 DEF Live, Doomed
<1>7. e \in MyFSEntry /\ e.size \in Nat /\ k \in Nat /\ l.out \in Seq(Chunk) /\ l.left \in Nat
  BY LocalFacts DEF IInv, TypeOK, MyFSEntry
<1>8. l.out = [i \in 1 .. k |-> l.out[i]]
  BY <1>7
<1> HIDE DEF e, k
<1>9. k \in 0 .. e.size /\ (k = e.size \/ Hops(e)[k] = 0)
  BY <1>3, <1>5, <1>7
<1>10. Content(e) = [i \in 1 .. k |-> blk[Hops(e)[i-1]].data]
  BY <1>5, <1>7, <1>9, ContentTo
<1>11. Content(e) = l.out
  BY <1>5, <1>8, <1>10
<1>12. AbsDir[s].file = Content(root[s])
  BY <1>6 DEF AbsDir
<1> QED
  BY <1>4, <1>5, <1>6, <1>11, <1>12 DEF e

\* A mycopyfrom that succeeds has written all that the first entry of its name
\* holds, whatever files are copied in and whatever commands are killed: also
\* when a killed myrm has left an entry on blocks that another file took.
THEOREM ReadsBackWhole == Spec => ReadsBack
<1>1. Init => RInv
  BY DEF Init, RInv, At, Idle
<1>2. IInv /\ RInv /\ [Next]_vars => RInv'
  BY NextReads
<1>3. IInv /\ RInv /\ [Next]_vars =>
        [(At("read") /\ l'.pc = "idle" /\ l'.res = "ok" /\ l.cmd.name # NoName) =>
           \E s \in Live : /\ IsFirst(s, Matching(l.cmd.name))
                           /\ l'.out = AbsDir[s].file]_vars
  BY ReadStep
<1> QED
  BY <1>1, <1>2, <1>3, IInvAlways, PTL DEF Spec, ReadsBack
=============================================================================
