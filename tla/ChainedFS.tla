------------------------------ MODULE ChainedFS ------------------------------
(***************************************************************************)
(* The chained file system of Assignment 8.3 (solution.c): block 0 of dd1  *)
(* is the superblock, block 1 the only directory, and every other block    *)
(* ends in the number of the next block of its file.  No chain and no      *)
(* bitmap says which blocks are free: a block is taken for free when all   *)
(* its bytes are zero, and the superblock only keeps their number.         *)
(*                                                                         *)
(* One command runs at a time; a step ends at each write of dd1, where the *)
(* command can be killed.  File text is abstracted to chunks, one a block. *)
(***************************************************************************)
EXTENDS Naturals, Sequences, FiniteSets

CONSTANTS NB,         \* total_blocks (1000)
          NE,         \* entries in the directory block
          Width,      \* uint32_t counts modulo Width (2^32)
          Names,      \* names, cut at MAX_NAME_LEN
          NoName,     \* the empty name, which also marks a free slot
          Chunks,     \* contents of a block that are not all zeroes
          Zero,       \* the all-zero content
          Files,      \* host files, sequences of chunks
          Menu,       \* the commands that may be given
          MaxStarts, MaxCrashes,  \* bounds on commands given and killed
          Fragile     \* the operations that may be killed

Ops == {"mymkfs", "mycopyto", "mycopyfrom", "myrm"}
Data == 2 .. NB-1
Ptr == {0} \cup Data
Slots == 1 .. NE
Chunk == Chunks \cup {Zero}

Block == [data : Chunk, next : Ptr]
ZeroBlock == [data |-> Zero, next |-> 0]

\* type is 'f', or 0 in a slot of zeroes.
MyFSEntry == [name : Names \cup {NoName}, type : {"f", "0"}, start : Ptr, size : Nat]
ZeroEntry == [name |-> NoName, type |-> "0", start |-> 0, size |-> 0]

Command == [op : Ops, name : Names \cup {NoName}, file : Seq(Chunk)]

ASSUME SizesAssumption ==
  /\ NB \in Nat /\ NB >= 2 /\ NE \in Nat \ {0}
  /\ Width \in Nat /\ Width > NB
  /\ MaxStarts \in Nat /\ MaxCrashes \in Nat
ASSUME NamesAssumption == NoName \notin Names /\ Zero \notin Chunks
ASSUME MenuAssumption ==
  /\ Files \subseteq Seq(Chunk) /\ Fragile \subseteq Ops
  /\ Menu \subseteq [op : Ops, name : Names \cup {NoName}, file : Files]

VARIABLES length,      \* blocks dd1 has: mymkfs writes two
          freeCount,   \* free_block_count on disk
          root, blk,   \* the directory block, the others
          l,           \* the locals of the command that runs
          starts, crashes

vars == <<length, freeCount, root, blk, l, starts, crashes>>
disk == <<length, freeCount, root, blk>>
counts == <<starts, crashes>>

PCs == {"idle", "find", "super", "link", "write", "insert", "read", "free", "freed",
        "clear", "fsSuper", "fsRoot"}
Local == [pc : PCs, cmd : Command,
          count : 0 .. Width-1,    \* sb.free_block_count
          first : Ptr, cur : Ptr, new : Ptr, nxt : Ptr,
          left : Nat,              \* bytes_remaining, filesize
          buf : Block,             \* block_data
          slot : 0 .. NE,          \* found_index
          out : Seq(Chunk),        \* what was written to the host
          res : {"none", "ok", "err"}]
Idle == [pc |-> "idle", cmd |-> [op |-> "mymkfs", name |-> NoName, file |-> <<>>],
         count |-> 0, first |-> 0, cur |-> 0, new |-> 0, nxt |-> 0, left |-> 0,
         buf |-> ZeroBlock, slot |-> 0, out |-> <<>>, res |-> "none"]

Init == /\ length = 0 /\ freeCount = 0
        /\ root = [s \in Slots |-> ZeroEntry]
        /\ blk = [b \in Data |-> ZeroBlock]
        /\ l = Idle
        /\ starts = 0 /\ crashes = 0

At(p) == l.pc = p
op == l.cmd.op
Ended(r, o) == [Idle EXCEPT !.cmd = l.cmd, !.res = r, !.out = o]
Finish(r) == l' = Ended(r, <<>>)
IsFirst(x, S) == x \in S /\ \A y \in S : x <= y

-----------------------------------------------------------------------------
(* mymkfs: fopen truncates dd1, then come the superblock and the root.     *)

MkfsTrunc(c) ==
  /\ At("idle") /\ starts < MaxStarts /\ c.op = "mymkfs"
  /\ length' = 0 /\ freeCount' = 0
  /\ root' = [s \in Slots |-> ZeroEntry]
  /\ blk' = [b \in Data |-> ZeroBlock]
  /\ l' = [Idle EXCEPT !.pc = "fsSuper", !.cmd = c]
  /\ starts' = starts + 1
  /\ UNCHANGED crashes

MkfsSuper ==
  /\ At("fsSuper")
  /\ length' = 1 /\ freeCount' = NB - 2
  /\ l' = [l EXCEPT !.pc = "fsRoot"]
  /\ UNCHANGED <<root, blk, counts>>

MkfsRoot ==
  /\ At("fsRoot")
  /\ length' = 2
  /\ Finish("ok")
  /\ UNCHANGED <<freeCount, root, blk, counts>>

\* The user makes dd1 as long as total_blocks says: no command does.
Extend ==
  /\ At("idle") /\ length = 2
  /\ length' = NB
  /\ UNCHANGED <<freeCount, root, blk, l, counts>>

-----------------------------------------------------------------------------
\* fopen and the superblock.  A volume without a root block is not used.
\* mycopyto starts to allocate, the others look into the directory.
Matching(n) == {s \in Slots : root[s].name = n}

Start(c) ==
  /\ At("idle") /\ starts < MaxStarts /\ c.op # "mymkfs" /\ length >= 2
  /\ LET m == [Idle EXCEPT !.cmd = c, !.count = freeCount] IN
     \/ /\ c.op = "mycopyto"
        /\ l' = [m EXCEPT !.pc = IF c.file = <<>> THEN "insert" ELSE "find",
                          !.left = Len(c.file)]
     \/ /\ c.op # "mycopyto" /\ Matching(c.name) = {}
        /\ l' = [m EXCEPT !.res = "err", !.count = 0]
     \/ /\ c.op # "mycopyto"
        /\ \E s \in Slots :
              /\ IsFirst(s, Matching(c.name))
              /\ LET e == root[s]
                     next == IF c.op = "mycopyfrom" THEN "read"
                             ELSE IF e.start = 0 THEN "clear" ELSE "free"
                 IN l' = IF e.type # "f" THEN [m EXCEPT !.res = "err", !.count = 0]
                         ELSE [m EXCEPT !.pc = next, !.slot = s, !.cur = e.start,
                                        !.left = IF c.op = "myrm" THEN 0 ELSE e.size]
  /\ starts' = starts + 1
  /\ UNCHANGED <<disk, crashes>>

-----------------------------------------------------------------------------
(* mycopyto.                                                               *)

\* allocate_block: the first block that can be read and is all zeroes.  It is
\* overwritten with zeroes, which changes nothing.
Unused == {b \in Data : b < length /\ blk[b] = ZeroBlock}
Find ==
  /\ At("find")
  /\ \/ Unused = {} /\ Finish("err")
     \/ \E b \in Data : /\ IsFirst(b, Unused)
                        /\ l' = [l EXCEPT !.pc = "super", !.new = b]
  /\ UNCHANGED <<disk, counts>>

AllocSuper ==
  /\ At("super")
  /\ LET n == (l.count + Width - 1) % Width
         one == l.first = 0
     IN /\ freeCount' = n
        /\ l' = [l EXCEPT !.pc = IF one THEN "write" ELSE "link", !.count = n,
                          !.first = IF one THEN l.new ELSE l.first,
                          !.cur = IF one THEN l.new ELSE l.cur]
  /\ UNCHANGED <<length, root, blk, counts>>

CopyLink ==
  /\ At("link")
  /\ blk' = [blk EXCEPT ![l.cur] = [l.buf EXCEPT !.next = l.new]]
  /\ l' = [l EXCEPT !.pc = "write", !.cur = l.new]
  /\ UNCHANGED <<length, freeCount, root, counts>>

CopyWrite ==
  /\ At("write")
  /\ LET b == [data |-> l.cmd.file[Len(l.cmd.file) - l.left + 1], next |-> 0] IN
     /\ blk' = [blk EXCEPT ![l.cur] = b]
     /\ l' = [l EXCEPT !.pc = IF l.left = 1 THEN "insert" ELSE "find",
                       !.buf = b, !.left = l.left - 1]
  /\ UNCHANGED <<length, freeCount, root, counts>>

\* The descriptor goes to the first slot with an empty name, if there is one.
AnySlots == Slots                               \* mutant: used slots count too
EmptySlots == Matching(NoName)
NewEntry == [name |-> l.cmd.name, type |-> "f", start |-> l.first,
             size |-> Len(l.cmd.file)]
Insert ==
  /\ At("insert")
  /\ \/ EmptySlots = {} /\ Finish("err") /\ UNCHANGED root
     \/ \E s \in Slots : /\ IsFirst(s, EmptySlots)
                         /\ root' = [root EXCEPT ![s] = NewEntry]
                         /\ Finish("ok")
  /\ UNCHANGED <<length, freeCount, blk, counts>>

-----------------------------------------------------------------------------
(* mycopyfrom, myrm.                                                       *)

\* Mutant: the last block is left out.
ReadShort ==
  /\ At("read")
  /\ IF l.left <= 1 \/ l.cur = 0 THEN l' = Ended("ok", l.out)
     ELSE l' = [l EXCEPT !.out = Append(l.out, blk[l.cur].data), !.left = l.left - 1,
                         !.cur = blk[l.cur].next]
  /\ UNCHANGED <<disk, counts>>

Read ==
  /\ At("read")
  /\ IF l.left = 0 \/ l.cur = 0 THEN l' = Ended("ok", l.out)
     ELSE l' = [l EXCEPT !.out = Append(l.out, blk[l.cur].data), !.left = l.left - 1,
                         !.cur = blk[l.cur].next]
  /\ UNCHANGED <<disk, counts>>

\* free_block: zeroes, then the count.
Free ==
  /\ At("free")
  /\ blk' = [blk EXCEPT ![l.cur] = ZeroBlock]
  /\ l' = [l EXCEPT !.pc = "freed", !.nxt = blk[l.cur].next]
  /\ UNCHANGED <<length, freeCount, root, counts>>

\* Mutant: the count of the local superblock stays as it was read.
FreeSuperStale ==
  /\ At("freed")
  /\ freeCount' = (l.count + 1) % Width
  /\ l' = [l EXCEPT !.pc = IF l.nxt = 0 THEN "clear" ELSE "free",
                    !.cur = l.nxt, !.nxt = 0]
  /\ UNCHANGED <<length, root, blk, counts>>

FreeSuper ==
  /\ At("freed")
  /\ LET n == (l.count + 1) % Width IN
     /\ freeCount' = n
     /\ l' = [l EXCEPT !.pc = IF l.nxt = 0 THEN "clear" ELSE "free", !.count = n,
                       !.cur = l.nxt, !.nxt = 0]
  /\ UNCHANGED <<length, root, blk, counts>>

Clear ==
  /\ At("clear")
  /\ root' = [root EXCEPT ![l.slot] = ZeroEntry]
  /\ Finish("ok")
  /\ UNCHANGED <<length, freeCount, blk, counts>>

-----------------------------------------------------------------------------
\* The command is killed between two writes.
Crash ==
  /\ ~At("idle") /\ op \in Fragile /\ crashes < MaxCrashes
  /\ crashes' = crashes + 1
  /\ l' = Idle
  /\ UNCHANGED <<disk, starts>>

Step == \/ MkfsSuper \/ MkfsRoot
        \/ Find \/ AllocSuper \/ CopyLink \/ CopyWrite \/ Insert
        \/ Read \/ Free \/ FreeSuper \/ Clear

Next == \/ \E c \in Menu : Start(c) \/ MkfsTrunc(c)
        \/ Step \/ Extend \/ Crash

Spec == Init /\ [][Next]_vars

-----------------------------------------------------------------------------
\* Every variable stays in its type; no pointer leaves the volume.
TypeOK == /\ length \in {0, 1, 2, NB} /\ freeCount \in 0 .. Width-1
          /\ root \in [Slots -> MyFSEntry] /\ blk \in [Data -> Block]
          /\ l \in Local
          /\ starts \in 0 .. MaxStarts /\ crashes \in 0 .. MaxCrashes

\* Between commands the superblock counts the free blocks, less at most one for
\* each command killed: it is never more than there are.  When a kill has left
\* it short, taking the last block makes the unsigned count wrap.
Quiet == At("idle") /\ length >= 2
Zeroes == Cardinality({b \in Data : blk[b] = ZeroBlock})
CountDrift == Quiet => \E d \in 0 .. crashes : (freeCount + d) % Width = Zeroes

\* What an entry holds: the chain from its first block, as far as it goes.
Hop(b) == IF b = 0 THEN 0 ELSE blk[b].next
Hops(e) == LET h[i \in 0 .. e.size] == IF i = 0 THEN e.start ELSE Hop(h[i-1]) IN h
Content(e) == LET n == Cardinality({i \in 0 .. e.size-1 : Hops(e)[i] # 0})
              IN [i \in 1 .. n |-> blk[Hops(e)[i-1]].data]

\* A user sees the named entries.  One that myrm has found is on its way out.
Doomed == IF op = "myrm" THEN {l.slot} ELSE {}
Live == {s \in Slots : length >= 2 /\ root[s].name # NoName} \ Doomed
AbsDir == [s \in Live |-> [name |-> root[s].name, file |-> Content(root[s])]]
AbsEntry == [name : Names, file : Files]

\* The volume is the abstract file store: a name appears with one whole host
\* file, and nothing but its removal or mymkfs changes what it holds, although
\* blocks are allocated by what they look like.
Store == INSTANCE FileStore WITH Cell <- Slots, Entry <- AbsEntry, dir <- AbsDir
ImplementsStore == Store!Spec

\* mycopyfrom that succeeds has written what the first entry of that name holds.
ReadsBack ==
  [][(At("read") /\ l'.pc = "idle" /\ l'.res = "ok" /\ l.cmd.name # NoName) =>
        \E s \in Live : /\ IsFirst(s, Matching(l.cmd.name))
                        /\ l'.out = AbsDir[s].file]_vars

\* The count and the store need host files without a block of zeroes, which the
\* code takes for free, and removals that are not killed, which would leave a
\* name that points to free blocks.
NoZeroBlocks == \A f \in Files : \A i \in 1 .. Len(f) : f[i] # Zero
RemovalsEnd == "myrm" \notin Fragile
=============================================================================
