------------------------------- MODULE MyFSv2 -------------------------------
(***************************************************************************)
(* The block file system of Assignment 8.4 (myfsv2.c).  A volume is a file *)
(* of NB blocks: block 0 holds the superblock, block 1 is the first block  *)
(* of the root directory, and the other blocks are free, hold file data or *)
(* hold directory entries.  The last four bytes of every block point to    *)
(* the next block of its chain (0 ends it).                                *)
(*                                                                         *)
(* A command is a process.  Every pread or pwrite of a block or of the     *)
(* superblock is one step, so commands that run at the same time           *)
(* interleave at system calls, and a command can be killed between two of  *)
(* them.  A command works on the copy of the free-chain head it read when  *)
(* it opened the volume.                                                   *)
(*                                                                         *)
(* File data is abstracted to chunks: one chunk fills one block, and a     *)
(* size counts chunks.                                                     *)
(***************************************************************************)
EXTENDS Naturals, Sequences

CONSTANTS Procs,      \* shells, each running one command at a time
          NB,         \* number of blocks given to mymkfs
          NE,         \* directory entries that fit in a block
          Names,      \* names a path can mention
          LongNames,  \* those of MAX_NAME_LEN characters or more
          Contents,   \* host files that can be copied in
          MaxLen,     \* bound on the length of a host file, in chunks
          NoName, NoContent, SuperContent,
          Menu,       \* Menu[p]: the commands p may be given
          MaxStarts,  \* bound on the number of commands given
          MaxCrashes, \* bound on the number of commands killed
          Fragile     \* the operations that may be killed

Ops == {"mymkfs", "mycopyTo", "mycopyFrom", "myrm", "mymkdir", "myrmdir",
        "myreadBlock", "mystat"}

Blocks == 0 .. NB-1
Ptr    == 0 .. NB           \* mymkfs writes 2 even on a volume of 2 blocks
Slots  == 1 .. NE

FILE == 1    \* FILE_TYPE
DIR  == 2    \* DIR_TYPE

\* A directory entry; name NoName is the empty name that marks a free slot.
Entry == [name : Names \cup {NoName}, type : 0 .. 2, start : Ptr, size : 0 .. MaxLen]
Vacant == [name |-> NoName, type |-> 0, start |-> 0, size |-> 0]

\* Chunk k of content c; NoContent stands for zeroes.
Chunk == [c : Contents \cup {NoContent, SuperContent}, k : 0 .. MaxLen]
Zeroes == [c |-> NoContent, k |-> 0]

Block == [next : Ptr, ents : [Slots -> Entry], data : Chunk]
ZeroBlock == [next |-> 0, ents |-> [s \in Slots |-> Vacant], data |-> Zeroes]
FreeBlock(n) == [ZeroBlock EXCEPT !.next = n]

\* A path is the sequence of its components.  len is the length of the host
\* file of mycopyTo and the block number asked of myreadBlock.
Command == [op : Ops, path : Seq(Names), c : Contents, len : 0 .. MaxLen]

ASSUME SizesAssumption ==
  /\ NB \in Nat /\ NB >= 2
  /\ NE \in Nat /\ NE >= 1
  /\ MaxLen \in Nat /\ MaxStarts \in Nat /\ MaxCrashes \in Nat

ASSUME NamesAssumption ==
  /\ NoName \notin Names
  /\ LongNames \subseteq Names
  /\ {NoContent, SuperContent} \cap Contents = {}
  /\ Contents # {}

ASSUME MenuAssumption ==
  /\ Fragile \subseteq Ops
  /\ \A p \in Procs : Menu[p] \subseteq Command

VARIABLES blk,        \* the blocks on disk
          sbHead,     \* first_free_block in the superblock on disk
          formatted,  \* the volume has a superblock
          pr,         \* pr[p]: the locals of the command p is running
          starts, crashes,  \* commands given and killed so far
          dirty       \* a command was killed, or gave up holding blocks

vars == <<blk, sbHead, formatted, pr, starts, crashes, dirty>>
disk == <<blk, sbHead, formatted>>
counts == <<starts, crashes>>

PCs == {"idle", "resolve", "alloc", "allocZero", "allocSuper", "link", "write",
        "dirZero", "insRead", "insWrite", "insZero", "insLink", "insNew", "find",
        "readData", "skip", "readOne", "rmRead", "rmFree", "rmSuper", "rmdirCheck",
        "clrRead", "clrWrite", "fsSuper", "fsRoot", "fsChain"}

Local == [pc : PCs, cmd : Command,
          head : Ptr,      \* sb.first_free_block of the local superblock
          cur : Ptr,       \* current_block / current
          first : Ptr,     \* first_block
          new : Ptr,       \* the block allocate_block returns
          nxt : Ptr,       \* next_block of myrm
          rem : 0 .. MaxLen,  \* bytes_remaining, filesize, or blocks to skip
          buf : Block,     \* the block buffer
          ent : Entry,     \* new_entry, or the entry dir_find_entry found
          idx : 0 .. NE,   \* entry_index
          at : Ptr,        \* found_block
          out : Seq(Chunk),   \* what was written to the host
          res : {"none", "ok", "err", "segv"}]

Idle == [pc |-> "idle", cmd |-> [op |-> "mymkfs", path |-> <<>>,
                                 c |-> CHOOSE c \in Contents : TRUE, len |-> 0],
         head |-> 0, cur |-> 0, first |-> 0, new |-> 0, nxt |-> 0, rem |-> 0,
         buf |-> ZeroBlock, ent |-> Vacant, idx |-> 0, at |-> 0, out |-> <<>>, res |-> "none"]

Init == /\ blk = [b \in Blocks |-> ZeroBlock]
        /\ sbHead = 0
        /\ formatted = FALSE
        /\ pr = [p \in Procs |-> Idle]
        /\ starts = 0 /\ crashes = 0
        /\ dirty = FALSE

op(p)    == pr[p].cmd.op
path(p)  == pr[p].cmd.path
At(p, l) == pr[p].pc = l

\* The last component, or none for "/": final_token.
HasFinal(p) == path(p) # <<>>
final(p)    == path(p)[1]

\* The locals of p become l.
Now(p, l) == pr' = [pr EXCEPT ![p] = l]

\* The command ends with result r; it keeps no local but its answer.
Ended(p, r, e, o) == [Idle EXCEPT !.cmd = pr[p].cmd, !.res = r, !.ent = e, !.out = o]
Finish(p, r) == /\ Now(p, Ended(p, r, Vacant, <<>>))
                /\ UNCHANGED dirty
\* It gives up; the blocks it allocated and published nowhere are lost.
Fail(p) == /\ Now(p, Ended(p, "err", Vacant, <<>>))
           /\ dirty' = (dirty \/ pr[p].first # 0 \/ pr[p].new # 0)
Segv(p) == Finish(p, "segv")

\* pread past the end of the volume is short: read_block returns -1.
Readable(b) == b \in Blocks

\* strcmp against the stored name.  A name that fills its field has no
\* terminator: the comparison runs on into the type byte and never succeeds.
Matches(e, n) == e.name = n /\ n \notin LongNames
Used(e) == e.name # NoName

FreeSlots(b)    == {s \in Slots : ~Used(b.ents[s])}
Hits(b, n)      == {s \in Slots : Used(b.ents[s]) /\ Matches(b.ents[s], n)}
IsFirst(s, S)   == s \in S /\ \A t \in S : s <= t
PutFirst(b, s, e) == [b EXCEPT !.ents[1] = e]     \* mutant: the slot is ignored
PutEntry(b, s, e) == [b EXCEPT !.ents[s] = e]

-----------------------------------------------------------------------------
(* Opening the volume, and the path.                                       *)

Formatting == \E q \in Procs : pr[q].pc # "idle" /\ op(q) = "mymkfs"

\* open and read_superblock.  No command is given to a volume that mymkfs has
\* not written a superblock to, or while mymkfs runs.
Start(p, c) ==
  /\ At(p, "idle") /\ starts < MaxStarts
  /\ c.op # "mymkfs" /\ formatted /\ ~Formatting
  /\ Now(p, [Idle EXCEPT !.pc = "resolve", !.cmd = c, !.head = sbHead,
                         !.cur = 1])
  /\ starts' = starts + 1
  /\ UNCHANGED <<disk, crashes, dirty>>

\* traverse_path on a path of at most one component, which reads no block,
\* and the checks every command makes of its outcome.
\* Mutant: the size is read from bytes_remaining.
EmptyEntry(p, t, b) == [name |-> final(p), type |-> t, start |-> b, size |-> pr[p].rem]
NewEntry(p, t, b) == [name |-> final(p), type |-> t, start |-> b, size |-> pr[p].cmd.len]

Resolve(p) ==
  /\ At(p, "resolve") /\ Len(path(p)) <= 1
  /\ \/ /\ op(p) = "mycopyTo" /\ ~HasFinal(p)
        /\ Fail(p)
     \/ /\ op(p) = "mycopyTo" /\ HasFinal(p)
        /\ Now(p, [pr[p] EXCEPT !.pc = IF pr[p].cmd.len = 0 THEN "insRead" ELSE "alloc",
                                !.rem = pr[p].cmd.len,
                                !.ent = NewEntry(p, FILE, 0)])
        /\ UNCHANGED dirty
     \/ /\ op(p) = "mymkdir" /\ ~HasFinal(p)     \* strncpy from a null pointer
        /\ Segv(p)
     \/ /\ op(p) = "mymkdir" /\ HasFinal(p)
        /\ Now(p, [pr[p] EXCEPT !.pc = "alloc",
                                !.ent = [NewEntry(p, DIR, 0) EXCEPT !.size = 0]])
        /\ UNCHANGED dirty
     \/ /\ op(p) \notin {"mycopyTo", "mymkdir"}
        /\ Now(p, [pr[p] EXCEPT !.pc = "find"])
        /\ UNCHANGED dirty
  /\ UNCHANGED <<disk, counts>>

\* traverse_path on a longer path: one block of dir_find_entry for the first
\* component.  The found slot is stored through the null entry_index.
Traverse(p) ==
  /\ At(p, "resolve") /\ Len(path(p)) > 1
  /\ LET b == blk[pr[p].cur] IN
     \/ ~Readable(pr[p].cur) /\ Fail(p)
     \/ /\ Readable(pr[p].cur) /\ Hits(b, final(p)) # {}
        /\ Segv(p)
     \/ /\ Readable(pr[p].cur) /\ Hits(b, final(p)) = {}
        /\ IF b.next = 0 THEN Fail(p)
           ELSE /\ Now(p, [pr[p] EXCEPT !.cur = b.next])
                /\ UNCHANGED dirty
  /\ UNCHANGED <<disk, counts>>

-----------------------------------------------------------------------------
(* allocate_block: read the head of the chain, zero it, write superblock.  *)

AllocRead(p) ==
  /\ At(p, "alloc")
  /\ LET h == pr[p].head IN
     IF h = 0 \/ ~Readable(h) THEN Fail(p)
     ELSE /\ Now(p, [pr[p] EXCEPT !.pc = "allocZero", !.new = h,
                                  !.head = blk[h].next])
          /\ UNCHANGED dirty
  /\ UNCHANGED <<disk, counts>>

AllocZero(p) ==
  /\ At(p, "allocZero")
  /\ blk' = [blk EXCEPT ![pr[p].new] = ZeroBlock]
  /\ Now(p, [pr[p] EXCEPT !.pc = "allocSuper"])
  /\ UNCHANGED <<sbHead, formatted, counts, dirty>>

\* The block is wanted for a directory that is full, for a new directory, or
\* for the next chunk of a file.
AfterAlloc(p) ==
  LET l == pr[p] IN
  IF l.idx # 0 THEN "insZero"
  ELSE IF op(p) = "mymkdir" THEN "dirZero"
  ELSE IF l.first = 0 THEN "write" ELSE "link"

\* Mutant: allocate_block leaves out write_superblock.
AllocUnsaved(p) ==
  /\ At(p, "allocSuper")
  /\ LET l == pr[p]
         data == AfterAlloc(p) = "write"
     IN Now(p, [pr[p] EXCEPT !.pc = AfterAlloc(p),
                             !.first = IF data THEN l.new ELSE l.first,
                             !.cur = IF data THEN l.new ELSE l.cur])
  /\ UNCHANGED <<disk, counts, dirty>>

AllocSuper(p) ==
  /\ At(p, "allocSuper")
  /\ sbHead' = pr[p].head
  /\ LET l == pr[p]
         data == AfterAlloc(p) = "write"      \* first_block, current_block
     IN Now(p, [pr[p] EXCEPT !.pc = AfterAlloc(p),
                             !.first = IF data THEN l.new ELSE l.first,
                             !.cur = IF data THEN l.new ELSE l.cur])
  /\ UNCHANGED <<blk, formatted, counts, dirty>>

-----------------------------------------------------------------------------
(* mycopyTo: one chunk after another, then the directory entry.            *)

CopyLink(p) ==
  /\ At(p, "link")
  /\ blk' = [blk EXCEPT ![pr[p].cur] = [pr[p].buf EXCEPT !.next = pr[p].new]]
  /\ Now(p, [pr[p] EXCEPT !.pc = "write", !.cur = pr[p].new])
  /\ UNCHANGED <<sbHead, formatted, counts, dirty>>

CopyWrite(p) ==
  /\ At(p, "write")
  /\ LET l == pr[p]
         chunk == [c |-> l.cmd.c, k |-> l.cmd.len - l.rem + 1]
         b == [ZeroBlock EXCEPT !.data = chunk]
         last == l.rem = 1
     IN /\ blk' = [blk EXCEPT ![l.cur] = b]
        /\ Now(p, [pr[p] EXCEPT !.pc = IF last THEN "insRead" ELSE "alloc",
                                !.rem = l.rem - 1,
                                !.buf = IF last THEN ZeroBlock ELSE b,
                                !.cur = IF last THEN 1 ELSE l.cur,
                                !.ent.start = l.first])
  /\ UNCHANGED <<sbHead, formatted, counts, dirty>>

(* mymkdir: the new directory block, then the entry.                       *)
DirZero(p) ==
  /\ At(p, "dirZero")
  /\ blk' = [blk EXCEPT ![pr[p].new] = ZeroBlock]
  /\ Now(p, [pr[p] EXCEPT !.pc = "insRead", !.ent.start = pr[p].new])
  /\ UNCHANGED <<sbHead, formatted, counts, dirty>>

-----------------------------------------------------------------------------
(* dir_insert_entry: the first free slot of the chain, or a new block.     *)
(* A nonzero idx says that the slot is known.                              *)

InsRead(p) ==
  /\ At(p, "insRead")
  /\ LET b == blk[pr[p].cur] IN
     \/ ~Readable(pr[p].cur) /\ Fail(p)
     \/ /\ Readable(pr[p].cur)
        /\ \E s \in Slots :
              /\ IsFirst(s, FreeSlots(b))
              /\ Now(p, [pr[p] EXCEPT !.pc = "insWrite", !.idx = s,
                                      !.buf = PutEntry(b, s, pr[p].ent)])
        /\ UNCHANGED dirty
     \/ /\ Readable(pr[p].cur) /\ FreeSlots(b) = {}
        /\ Now(p, IF b.next = 0
                  THEN [pr[p] EXCEPT !.pc = "alloc", !.idx = 1, !.buf = b]
                  ELSE [pr[p] EXCEPT !.cur = b.next])
        /\ UNCHANGED dirty
  /\ UNCHANGED <<disk, counts>>

InsWrite(p) ==
  /\ At(p, "insWrite")
  /\ blk' = [blk EXCEPT ![pr[p].cur] = pr[p].buf]
  /\ Finish(p, "ok")
  /\ UNCHANGED <<sbHead, formatted, counts>>

InsZero(p) ==
  /\ At(p, "insZero")
  /\ blk' = [blk EXCEPT ![pr[p].new] = ZeroBlock]
  /\ Now(p, [pr[p] EXCEPT !.pc = "insLink"])
  /\ UNCHANGED <<sbHead, formatted, counts, dirty>>

\* Mutant: links the next free block in place of the one allocated.
InsLinkHead(p) ==
  /\ At(p, "insLink")
  /\ blk' = [blk EXCEPT ![pr[p].cur] = [pr[p].buf EXCEPT !.next = pr[p].head]]
  /\ Now(p, [pr[p] EXCEPT !.pc = "insNew"])
  /\ UNCHANGED <<sbHead, formatted, counts, dirty>>

InsLink(p) ==
  /\ At(p, "insLink")
  /\ blk' = [blk EXCEPT ![pr[p].cur] = [pr[p].buf EXCEPT !.next = pr[p].new]]
  /\ Now(p, [pr[p] EXCEPT !.pc = "insNew"])
  /\ UNCHANGED <<sbHead, formatted, counts, dirty>>

InsNew(p) ==
  /\ At(p, "insNew")
  /\ blk' = [blk EXCEPT ![pr[p].new] = PutEntry(ZeroBlock, 1, pr[p].ent)]
  /\ Finish(p, "ok")
  /\ UNCHANGED <<sbHead, formatted, counts>>

-----------------------------------------------------------------------------
(* dir_find_entry on the root directory, one block a step, and what each   *)
(* command does with the entry it found.                                   *)

AfterFind(p, e) ==
  CASE op(p) = "mycopyFrom"  -> "readData"
    [] op(p) = "myreadBlock" -> IF pr[p].cmd.len = 0 THEN "readOne" ELSE "skip"
    [] op(p) = "myrm"        -> IF e.start = 0 THEN "clrRead" ELSE "rmRead"
    [] op(p) = "myrmdir"     -> "rmdirCheck"

Wanted(p) == IF op(p) = "myrmdir" THEN DIR ELSE FILE
NeverNothing(p, e) == FALSE          \* mutant: an empty file is read like any other
Nothing(p, e) == op(p) = "mycopyFrom" /\ (e.size = 0 \/ e.start = 0)

Found(p, e, s) ==
  \/ /\ \/ op(p) = "mystat"
        \/ e.type = Wanted(p) /\ Nothing(p, e)
     /\ Now(p, Ended(p, "ok", e, <<>>))
     /\ UNCHANGED dirty
  \/ /\ op(p) # "mystat" /\ e.type # Wanted(p)
     /\ Fail(p)
  \/ /\ op(p) \in {"mycopyFrom", "myreadBlock", "myrm", "myrmdir"}
     /\ e.type = Wanted(p) /\ ~Nothing(p, e)
     /\ Now(p, [pr[p] EXCEPT !.pc = AfterFind(p, e), !.ent = e, !.idx = s,
                             !.at = pr[p].cur, !.cur = e.start,
                             !.rem = IF op(p) = "myreadBlock" THEN pr[p].cmd.len
                                     ELSE e.size])
     /\ UNCHANGED dirty

Find(p) ==
  /\ At(p, "find")
  /\ LET b == blk[pr[p].cur] IN
     \/ ~Readable(pr[p].cur) /\ Fail(p)
     \/ /\ Readable(pr[p].cur) /\ ~HasFinal(p)       \* strcmp with a null pointer
        /\ \E s \in Slots : Used(b.ents[s])
        /\ Segv(p)
     \/ /\ Readable(pr[p].cur) /\ HasFinal(p)
        /\ \E s \in Slots : IsFirst(s, Hits(b, final(p))) /\ Found(p, b.ents[s], s)
     \/ /\ Readable(pr[p].cur)
        /\ IF HasFinal(p) THEN Hits(b, final(p)) = {}
           ELSE FreeSlots(b) = Slots
        /\ IF b.next = 0 THEN Fail(p)
           ELSE /\ Now(p, [pr[p] EXCEPT !.cur = b.next])
                /\ UNCHANGED dirty
  /\ UNCHANGED <<disk, counts>>

\* mycopyFrom: the chain, while bytes remain; a failed read ends it quietly.
\* Mutant: the last block is not written out.
ReadShort(p) ==
  /\ At(p, "readData")
  /\ LET l == pr[p]
         b == blk[l.cur]
     IN Now(p, IF ~Readable(l.cur) \/ l.rem = 1 \/ b.next = 0
               THEN Ended(p, "ok", l.ent, l.out)
               ELSE [pr[p] EXCEPT !.out = Append(l.out, b.data), !.rem = l.rem - 1,
                                  !.cur = b.next])
  /\ UNCHANGED <<disk, counts, dirty>>

ReadData(p) ==
  /\ At(p, "readData")
  /\ LET l == pr[p] IN
     IF ~Readable(l.cur) THEN Now(p, Ended(p, "ok", l.ent, l.out))
     ELSE LET b == blk[l.cur]
              o == Append(l.out, b.data)
          IN IF l.rem = 1 \/ b.next = 0
             THEN Now(p, Ended(p, "ok", l.ent, o))
             ELSE Now(p, [pr[p] EXCEPT !.out = o, !.rem = l.rem - 1,
                                       !.cur = b.next])
  /\ UNCHANGED <<disk, counts, dirty>>

\* myreadBlock: skip block_no blocks, then read one.
Skip(p) ==
  /\ At(p, "skip")
  /\ LET l == pr[p] IN
     \/ /\ ~Readable(l.cur)                       \* break
        /\ Now(p, [pr[p] EXCEPT !.pc = "readOne"])
        /\ UNCHANGED dirty
     \/ /\ Readable(l.cur) /\ blk[l.cur].next = 0
        /\ Finish(p, "err")
     \/ /\ Readable(l.cur) /\ blk[l.cur].next # 0
        /\ Now(p, [pr[p] EXCEPT !.pc = IF l.rem = 1 THEN "readOne" ELSE "skip",
                                !.rem = l.rem - 1, !.cur = blk[l.cur].next])
        /\ UNCHANGED dirty
  /\ UNCHANGED <<disk, counts>>

ReadOne(p) ==
  /\ At(p, "readOne")
  /\ LET l == pr[p] IN
     IF Readable(l.cur)
     THEN Now(p, Ended(p, "ok", l.ent, <<blk[l.cur].data>>))
     ELSE Now(p, Ended(p, "err", Vacant, <<>>))
  /\ UNCHANGED <<disk, counts, dirty>>

-----------------------------------------------------------------------------
(* myrm and myrmdir: blocks go to the free chain first, then the slot of   *)
(* the first block of the directory is cleared.                            *)

RmRead(p) ==
  /\ At(p, "rmRead")
  /\ Now(p, IF Readable(pr[p].cur)
            THEN [pr[p] EXCEPT !.pc = "rmFree", !.nxt = blk[pr[p].cur].next]
            ELSE [pr[p] EXCEPT !.pc = "clrRead"])
  /\ UNCHANGED <<disk, counts, dirty>>

\* The only check that a directory is empty looks at its first block.
RmdirCheck(p) ==
  /\ At(p, "rmdirCheck")
  /\ LET b == blk[pr[p].cur] IN
     IF Readable(pr[p].cur) /\ b.data = Zeroes /\ FreeSlots(b) = Slots
     THEN Now(p, [pr[p] EXCEPT !.pc = "rmFree", !.nxt = 0])
     ELSE Now(p, Ended(p, "err", Vacant, <<>>))
  /\ UNCHANGED <<disk, counts, dirty>>

\* free_block.
\* Mutant: the freed block does not point to the rest of the free chain.
FreeUnlinked(p) ==
  /\ At(p, "rmFree")
  /\ blk' = [blk EXCEPT ![pr[p].cur] = ZeroBlock]
  /\ Now(p, [pr[p] EXCEPT !.pc = "rmSuper", !.head = pr[p].cur])
  /\ UNCHANGED <<sbHead, formatted, counts, dirty>>

FreeWrite(p) ==
  /\ At(p, "rmFree")
  /\ blk' = [blk EXCEPT ![pr[p].cur] = FreeBlock(pr[p].head)]
  /\ Now(p, [pr[p] EXCEPT !.pc = "rmSuper", !.head = pr[p].cur])
  /\ UNCHANGED <<sbHead, formatted, counts, dirty>>

\* Mutant: myrm reads next_block from the block it has just freed.
FreeThenNext(p) ==
  /\ At(p, "rmSuper")
  /\ sbHead' = pr[p].head
  /\ Now(p, IF pr[p].nxt = 0 THEN [pr[p] EXCEPT !.pc = "clrRead"]
            ELSE [pr[p] EXCEPT !.pc = "rmFree", !.nxt = blk[pr[p].cur].next])
  /\ UNCHANGED <<blk, formatted, counts, dirty>>

FreeSuper(p) ==
  /\ At(p, "rmSuper")
  /\ sbHead' = pr[p].head
  /\ Now(p, [pr[p] EXCEPT !.pc = IF pr[p].nxt = 0 THEN "clrRead" ELSE "rmRead",
                          !.cur = pr[p].nxt, !.nxt = 0])
  /\ UNCHANGED <<blk, formatted, counts, dirty>>

ClearRead(p) ==
  /\ At(p, "clrRead")
  /\ Now(p, [pr[p] EXCEPT !.pc = "clrWrite", !.buf = PutEntry(blk[1], pr[p].idx, Vacant)])
  /\ UNCHANGED <<disk, counts, dirty>>

\* Mutant: the directory block is not written back.
ClearUnsaved(p) ==
  /\ At(p, "clrWrite") /\ Finish(p, "ok") /\ UNCHANGED <<blk, sbHead, formatted, counts>>

ClearWrite(p) ==
  /\ At(p, "clrWrite")
  /\ blk' = [blk EXCEPT ![1] = pr[p].buf]
  /\ Finish(p, "ok")
  /\ UNCHANGED <<sbHead, formatted, counts>>

-----------------------------------------------------------------------------
(* mymkfs: truncate, superblock, root directory, then the free chain.      *)

MkfsTrunc(p, c) ==
  /\ At(p, "idle") /\ starts < MaxStarts
  /\ c.op = "mymkfs" /\ \A q \in Procs : At(q, "idle")
  /\ blk' = [b \in Blocks |-> ZeroBlock]
  /\ sbHead' = 0 /\ formatted' = FALSE
  /\ pr' = [q \in Procs |-> IF q = p THEN [Idle EXCEPT !.pc = "fsSuper", !.cmd = c]
                            ELSE Idle]
  /\ starts' = starts + 1
  /\ dirty' = FALSE
  /\ UNCHANGED crashes

MkfsSuper(p) ==
  /\ At(p, "fsSuper")
  /\ sbHead' = 2 /\ formatted' = TRUE
  /\ blk' = [blk EXCEPT ![0].data = [c |-> SuperContent, k |-> 0]]
  /\ Now(p, [pr[p] EXCEPT !.pc = "fsRoot"])
  /\ UNCHANGED <<counts, dirty>>

MkfsRoot(p) ==
  /\ At(p, "fsRoot")
  /\ blk' = [blk EXCEPT ![1] = ZeroBlock]
  /\ IF NB > 2 THEN /\ Now(p, [pr[p] EXCEPT !.pc = "fsChain", !.cur = 2])
                    /\ UNCHANGED dirty
     ELSE Finish(p, "ok")
  /\ UNCHANGED <<sbHead, formatted, counts>>

MkfsChain(p) ==
  /\ At(p, "fsChain")
  /\ LET i == pr[p].cur IN
     /\ blk' = [blk EXCEPT ![i] = FreeBlock(IF i < NB-1 THEN i+1 ELSE 0)]
     /\ IF i < NB-1 THEN /\ Now(p, [pr[p] EXCEPT !.cur = i+1])
                         /\ UNCHANGED dirty
        ELSE Finish(p, "ok")
  /\ UNCHANGED <<sbHead, formatted, counts>>

-----------------------------------------------------------------------------
\* The command is killed between two system calls.
Crash(p) ==
  /\ ~At(p, "idle") /\ op(p) \in Fragile /\ crashes < MaxCrashes
  /\ crashes' = crashes + 1
  /\ dirty' = TRUE
  /\ Now(p, Idle)
  /\ UNCHANGED <<disk, starts>>

Step(p) ==
  \/ Resolve(p) \/ Traverse(p)
  \/ AllocRead(p) \/ AllocZero(p) \/ AllocSuper(p)
  \/ CopyLink(p) \/ CopyWrite(p) \/ DirZero(p)
  \/ InsRead(p) \/ InsWrite(p) \/ InsZero(p) \/ InsLink(p) \/ InsNew(p)
  \/ Find(p) \/ ReadData(p) \/ Skip(p) \/ ReadOne(p)
  \/ RmRead(p) \/ RmdirCheck(p) \/ FreeWrite(p) \/ FreeSuper(p)
  \/ ClearRead(p) \/ ClearWrite(p)
  \/ MkfsSuper(p) \/ MkfsRoot(p) \/ MkfsChain(p)

Next == \E p \in Procs : \/ \E c \in Menu[p] : Start(p, c) \/ MkfsTrunc(p, c)
                         \/ Step(p)
                         \/ Crash(p)

Spec == Init /\ [][Next]_vars
\* Every command that is running gets processor time.
FairSpec == Spec /\ \A p \in Procs : WF_vars(Step(p))

-----------------------------------------------------------------------------
\* Every variable stays in its type: no step takes a pointer, a slot number or
\* a size out of range.
TypeOK == /\ blk \in [Blocks -> Block]
          /\ sbHead \in Ptr
          /\ formatted \in BOOLEAN
          /\ pr \in [Procs -> Local]
          /\ starts \in 0 .. MaxStarts /\ crashes \in 0 .. MaxCrashes
          /\ dirty \in BOOLEAN

\* bytes_remaining, filesize and the number of blocks to skip are unsigned in
\* the code: the step that counts one down never meets zero, and the chunk that
\* mycopyTo writes next is one the host file has.
CountOK(l) ==
  /\ (l.pc \in {"link", "write"} \/
      (l.pc \in {"alloc", "allocZero", "allocSuper"} /\ l.idx = 0
         /\ l.cmd.op # "mymkdir"))
        => l.rem \in 1 .. l.cmd.len
  /\ l.pc \in {"readData", "skip"} => l.rem > 0
NoUnderflow == \A p \in Procs : CountOK(pr[p])
=============================================================================
