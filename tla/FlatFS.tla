------------------------------- MODULE FlatFS -------------------------------
(***************************************************************************)
(* The flat file system: MB metadata blocks of EB descriptors each, and    *)
(* one data block for every descriptor.  Two sets of commands share this   *)
(* format: those of Assignment 8.2 (mymkfs.c, mycopy_to.c, mycopy_from.c,  *)
(* myrm.c), which read and write one descriptor at a time, and myfsv1.c of *)
(* Assignment 8.3, which copies the whole table in and out, a block at a   *)
(* time.                                                                   *)
(*                                                                         *)
(* A command is a process; every read or write of the volume is one step,  *)
(* so that commands interleave at system calls and can be killed between   *)
(* two of them.                                                            *)
(***************************************************************************)
EXTENDS Naturals, FiniteSets

CONSTANTS Procs,      \* shells, each running one command at a time
          MB,         \* metadata blocks (8)
          EB,         \* descriptors in a block (256)
          Names,      \* names a command can mention
          Clip,       \* Clip[n]: the first FNLEN characters of n
          Contents,   \* host files that can be copied in
          Size,       \* Size[c]: their sizes
          MaxSize,    \* bound on the sizes; one more is over a block
          NoName, Junk, NoContent,
          Menu,       \* Menu[p]: the commands p may be given
          MaxStarts, MaxCrashes,   \* bounds on commands given and killed
          Fragile     \* the commands that may be killed, <<tool, op>>

Ops   == {"mymkfs", "mycopyTo", "mycopyFrom", "myrm"}
Tools == {"a82", "v1"}
NOFILES == MB * EB
Slots == 0 .. NOFILES-1
NoSlot == NOFILES            \* hole = -1, and not found
BlockOf(s) == s \div EB

\* NoName is a first character '\0'; Junk is file text read as a name.
Desc == [name : Names \cup {NoName, Junk}, size : 0 .. MaxSize]
Hole == [name |-> NoName, size |-> 0]
NoTable == [s \in Slots |-> Hole]

Command == [tool : Tools, op : Ops, name : Names, c : Contents]

\* What a command writes to the host: so many bytes of a data block.
File == [c : Contents \cup {NoContent}, size : 0 .. MaxSize]
Prefix(c, n) == [c |-> IF n = 0 THEN NoContent ELSE c, size |-> n]
Whole(c) == Prefix(c, Size[c])

ASSUME FlatAssumption ==
  /\ MB \in Nat \ {0} /\ EB \in Nat \ {0} /\ MaxSize \in Nat
  /\ Names # {} /\ Contents # {}
  /\ MaxStarts \in Nat /\ MaxCrashes \in Nat
  /\ {NoName, Junk} \cap Names = {} /\ NoContent \notin Contents
  /\ Clip \in [Names -> Names] /\ \A n \in Names : Clip[Clip[n]] = Clip[n]
  /\ Size \in [Contents -> 0 .. MaxSize+1]
  /\ \A p \in Procs : Menu[p] \subseteq Command
  /\ Fragile \subseteq Tools \X Ops

VARIABLES table,     \* the descriptors on the volume
          data,      \* data[s]: the file text in data block s
          pr,        \* pr[p]: the locals of the command p is running
          mixed,     \* a command of 8.2 has written since the last mymkfs
          damaged,   \* a command was killed after it wrote over the table
          starts, crashes

vars == <<table, data, pr, mixed, damaged, starts, crashes>>
volume == <<table, data>>
counts == <<mixed, damaged, starts, crashes>>

PCs == {"idle", "scan", "meta", "data", "clear", "readTable", "writeData",
        "writeTable", "readData", "zero"}
Local == [pc : PCs, cmd : Command,
          i : 0 .. MB + NOFILES,        \* the loop counter
          slot : 0 .. NOFILES,          \* entry_index, or hole
          tbl : [Slots -> Desc],        \* sbuf, or the one descriptor read
          out : File,
          res : {"none", "ok", "err", "segv"}]

NoCommand == CHOOSE c \in Command : TRUE
NoFile == Prefix(NoContent, 0)
Idle == [pc |-> "idle", cmd |-> NoCommand, i |-> 0, slot |-> NoSlot, tbl |-> NoTable,
         out |-> NoFile, res |-> "none"]

Init == /\ table = NoTable
        /\ data = [s \in Slots |-> NoContent]
        /\ pr = [p \in Procs |-> Idle]
        /\ mixed = FALSE /\ damaged = FALSE
        /\ starts = 0 /\ crashes = 0

op(p)    == pr[p].cmd.op
tool(p)  == pr[p].cmd.tool
wanted(p) == Clip[pr[p].cmd.name]
At(p, l) == pr[p].pc = l
Now(p, l) == pr' = [pr EXCEPT ![p] = l]
Ended(p, r, o) == [Idle EXCEPT !.cmd = pr[p].cmd, !.res = r, !.out = o]
Finish(p, r) == Now(p, Ended(p, r, NoFile))

Used(d) == d.name # NoName
Holes(t) == {s \in Slots : ~Used(t[s])}
\* Only the first FNLEN characters are compared.
Named(t, n) == {s \in Slots : t[s].name = n}
Lowest(S)  == CHOOSE s \in S : \A x \in S : s <= x
Highest(S) == CHOOSE s \in S : \A x \in S : s >= x

-----------------------------------------------------------------------------
(* Starting a command.  A volume is not used while it is being formatted.  *)

\* Too long a name, or too big a file, to be stored.
Misfit(c) == Clip[c.name] # c.name \/ Size[c.c] > MaxSize

Start(p, c) ==
  /\ At(p, "idle") /\ starts < MaxStarts
  /\ c.op # "mymkfs"
  /\ \A q \in Procs : ~At(q, "idle") => op(q) # "mymkfs"
  /\ Now(p, LET l == [Idle EXCEPT !.cmd = c] IN
            IF c.op = "mycopyTo"
               /\ (IF c.tool = "v1" THEN Misfit(c) ELSE Size[c.c] > MaxSize)
            THEN [l EXCEPT !.res = "err"]
            ELSE [l EXCEPT !.pc = IF c.tool = "v1" THEN "readTable" ELSE "scan"])
  /\ starts' = starts + 1
  /\ mixed' = (mixed \/ (c.tool = "a82" /\ c.op # "mycopyFrom"))
  /\ UNCHANGED <<volume, damaged, crashes>>

\* mymkfs.c truncates the volume and extends it with zeroes.
Mkfs82(p, c) ==
  /\ At(p, "idle") /\ starts < MaxStarts
  /\ c.op = "mymkfs" /\ c.tool = "a82" /\ \A q \in Procs : At(q, "idle")
  /\ table' = NoTable
  /\ data' = [s \in Slots |-> NoContent]
  /\ Now(p, [Idle EXCEPT !.cmd = c, !.res = "ok"])
  /\ starts' = starts + 1 /\ mixed' = FALSE /\ damaged' = FALSE
  /\ UNCHANGED crashes

\* mymkfs of myfsv1.c overwrites the blocks one by one.
MkfsStart(p, c) ==
  /\ At(p, "idle") /\ starts < MaxStarts
  /\ c.op = "mymkfs" /\ c.tool = "v1" /\ \A q \in Procs : At(q, "idle")
  /\ pr' = [q \in Procs |-> IF q = p THEN [Idle EXCEPT !.pc = "zero", !.cmd = c]
                            ELSE Idle]
  /\ starts' = starts + 1
  /\ UNCHANGED <<volume, mixed, damaged, crashes>>

MkfsZero(p) ==
  /\ At(p, "zero")
  /\ LET i == pr[p].i IN
     /\ table' = [s \in Slots |-> IF BlockOf(s) = i THEN Hole ELSE table[s]]
     /\ data' = [s \in Slots |-> IF MB + s = i THEN NoContent ELSE data[s]]
     /\ IF i = MB + NOFILES - 1 THEN Finish(p, "ok")
        ELSE Now(p, [pr[p] EXCEPT !.i = i+1])
     /\ LET last == i = MB + NOFILES - 1 IN
        mixed' = (mixed /\ ~last) /\ damaged' = (damaged /\ ~last)
  /\ UNCHANGED <<starts, crashes>>

-----------------------------------------------------------------------------
(* The commands of Assignment 8.2.                                         *)

\* find_empty_entry, find_entry_by_name: one descriptor a step.
Fits(p, d) == IF op(p) = "mycopyTo" THEN ~Used(d) ELSE d.name = wanted(p)

After(p) == CASE op(p) = "mycopyTo"   -> "meta"
              [] op(p) = "mycopyFrom" -> "readData"
              [] op(p) = "myrm"       -> "clear"

Scan(p) ==
  /\ At(p, "scan")
  /\ LET i == pr[p].i IN
     \/ /\ Fits(p, table[i])
        /\ IF op(p) = "mycopyTo" /\ Misfit(pr[p].cmd) THEN Finish(p, "err")
           ELSE Now(p, [pr[p] EXCEPT !.pc = After(p), !.slot = i,
                                     !.tbl = [NoTable EXCEPT ![i] = table[i]]])
     \/ /\ ~Fits(p, table[i])
        /\ IF i = NOFILES-1 THEN Finish(p, "err")
           ELSE Now(p, [pr[p] EXCEPT !.i = i+1])
  /\ UNCHANGED <<volume, counts>>

\* mycopy_to: the descriptor goes out before the data.
Descriptor(p) == [name |-> pr[p].cmd.name, size |-> Size[pr[p].cmd.c]]

CopyMeta(p) ==
  /\ At(p, "meta")
  /\ table' = [table EXCEPT ![pr[p].slot] = Descriptor(p)]
  /\ Now(p, [pr[p] EXCEPT !.pc = "data"])
  /\ UNCHANGED <<data, counts>>

CopyData(p) ==
  /\ At(p, "data")
  /\ data' = [data EXCEPT ![pr[p].slot] = pr[p].cmd.c]
  /\ Finish(p, "ok")
  /\ UNCHANGED <<table, counts>>

\* myrm: only the first character of the name is overwritten.
ClearName(p) ==
  /\ At(p, "clear")
  /\ table' = [table EXCEPT ![pr[p].slot].name = NoName]
  /\ Finish(p, "ok")
  /\ UNCHANGED <<data, counts>>

-----------------------------------------------------------------------------
(* The commands of myfsv1.c.                                               *)

\* What mycopyTo, mycopyFrom and myrm do with the table t they have read.
\* mycopyTo takes the last hole.  With none, it writes the descriptor 16 bytes
\* before sbuf, over memory that is not its own: it may die there, or go on.
DecideTo(p, t) ==
  LET l == [pr[p] EXCEPT !.pc = "writeData", !.tbl = t, !.i = 0]
      h == Highest(Holes(t))
  IN \/ Named(t, wanted(p)) # {} /\ Finish(p, "err")
     \/ /\ Named(t, wanted(p)) = {} /\ Holes(t) # {}
        /\ Now(p, [l EXCEPT !.slot = h, !.tbl[h] = Descriptor(p)])
     \/ /\ Named(t, wanted(p)) = {} /\ Holes(t) = {}
        /\ Finish(p, "segv") \/ Now(p, l)

DecideFrom(p, t) ==
  LET hits == Named(t, wanted(p)) IN
  IF hits = {} THEN Finish(p, "err")
  ELSE Now(p, [pr[p] EXCEPT !.pc = "readData", !.tbl = t, !.slot = Lowest(hits)])

DecideRm(p, t) ==
  LET hits == Named(t, wanted(p)) IN
  IF hits = {} THEN Finish(p, "err")
  ELSE Now(p, [pr[p] EXCEPT !.pc = "writeTable", !.i = 0,
                            !.tbl = [t EXCEPT ![Lowest(hits)] = Hole]])

Decide(p, t) == \/ op(p) = "mycopyTo" /\ DecideTo(p, t)
                \/ op(p) = "mycopyFrom" /\ DecideFrom(p, t)
                \/ op(p) = "myrm" /\ DecideRm(p, t)

\* myreadSBlocks: one metadata block a step.
Merged(p, i) == [s \in Slots |-> IF BlockOf(s) = i THEN table[s] ELSE pr[p].tbl[s]]

ReadTable(p) ==
  /\ At(p, "readTable")
  /\ LET i == pr[p].i
         t == Merged(p, i)
     IN IF i = MB-1 THEN Decide(p, t)
        ELSE Now(p, [pr[p] EXCEPT !.tbl = t, !.i = i+1])
  /\ UNCHANGED <<volume, counts>>

\* Mutant: the data blocks are counted from 7.
WriteOther(p) ==
  /\ At(p, "writeData") /\ pr[p].slot # NoSlot
  /\ data' = [data EXCEPT ![(pr[p].slot + NOFILES - 1) % NOFILES] = pr[p].cmd.c]
  /\ Now(p, [pr[p] EXCEPT !.pc = "writeTable"])
  /\ UNCHANGED <<table, counts>>

\* mywriteBlock(8 + hole).  With hole = -1 that is the last metadata block.
WriteData(p) ==
  /\ At(p, "writeData")
  /\ \/ /\ pr[p].slot # NoSlot
        /\ data' = [data EXCEPT ![pr[p].slot] = pr[p].cmd.c]
        /\ UNCHANGED table
     \/ /\ pr[p].slot = NoSlot
        /\ \E text \in SUBSET {s \in Slots : BlockOf(s) = MB-1} :
              table' = [s \in Slots |-> IF BlockOf(s) # MB-1 THEN table[s]
                                        ELSE IF s \in text THEN [Hole EXCEPT !.name = Junk]
                                        ELSE Hole]
        /\ UNCHANGED data
  /\ Now(p, [pr[p] EXCEPT !.pc = "writeTable"])
  /\ UNCHANGED counts

\* mywriteSBlocks: one metadata block a step, changed or not.
\* Mutant: the loop leaves out the last block.
WriteShort(p) ==
  /\ At(p, "writeTable")
  /\ LET i == pr[p].i IN
     /\ table' = [s \in Slots |-> IF BlockOf(s) = i /\ i < MB-1 THEN pr[p].tbl[s]
                                  ELSE table[s]]
     /\ IF i = MB-1 THEN Finish(p, "ok") ELSE Now(p, [pr[p] EXCEPT !.i = i+1])
  /\ UNCHANGED <<data, counts>>

WriteTable(p) ==
  /\ At(p, "writeTable")
  /\ LET i == pr[p].i IN
     /\ table' = [s \in Slots |-> IF BlockOf(s) = i THEN pr[p].tbl[s] ELSE table[s]]
     /\ IF i = MB-1 THEN Finish(p, "ok") ELSE Now(p, [pr[p] EXCEPT !.i = i+1])
  /\ UNCHANGED <<data, counts>>

-----------------------------------------------------------------------------
\* mycopy_from and mycopyFrom: as many bytes of the data block as the descriptor
\* read before says.
\* Mutant: the block of the next descriptor is read.
ReadNext(p) ==
  /\ At(p, "readData")
  /\ LET s == pr[p].slot IN
     Now(p, Ended(p, "ok", Prefix(data[(s+1) % NOFILES], pr[p].tbl[s].size)))
  /\ UNCHANGED <<volume, counts>>

ReadData(p) ==
  /\ At(p, "readData")
  /\ LET s == pr[p].slot IN
     Now(p, Ended(p, "ok", Prefix(data[s], pr[p].tbl[s].size)))
  /\ UNCHANGED <<volume, counts>>

\* A mycopyTo with no hole has written over the last metadata block.
Overfull(p) == At(p, "writeTable") /\ op(p) = "mycopyTo" /\ pr[p].slot = NoSlot

\* The command is killed between two system calls.
Crash(p) ==
  /\ ~At(p, "idle") /\ <<tool(p), op(p)>> \in Fragile /\ crashes < MaxCrashes
  /\ crashes' = crashes + 1
  /\ damaged' = (damaged \/ Overfull(p))
  /\ Now(p, Idle)
  /\ UNCHANGED <<volume, mixed, starts>>

Step(p) == \/ MkfsZero(p) \/ Scan(p) \/ CopyMeta(p) \/ CopyData(p) \/ ClearName(p)
           \/ ReadTable(p) \/ WriteData(p) \/ WriteTable(p) \/ ReadData(p)

Next == \E p \in Procs :
           \/ \E c \in Menu[p] : Start(p, c) \/ Mkfs82(p, c) \/ MkfsStart(p, c)
           \/ Step(p)
           \/ Crash(p)

Spec == Init /\ [][Next]_vars

-----------------------------------------------------------------------------
\* Every variable stays in its type: no counter or slot leaves its range.
TypeOK == /\ table \in [Slots -> Desc]
          /\ data \in [Slots -> Contents \cup {NoContent}]
          /\ pr \in [Procs -> Local]
          /\ mixed \in BOOLEAN /\ damaged \in BOOLEAN
          /\ starts \in 0 .. MaxStarts /\ crashes \in 0 .. MaxCrashes

\* A file copied in is there: when a mycopyTo that found a hole, or mycopy_to,
\* reports success, some descriptor has its name and its data block holds the
\* file.  With no hole mycopyTo reports success as well and stores nothing.
Stored(n, c) == \E s \in Slots : /\ table'[s].name = n
                                 /\ Prefix(data'[s], table'[s].size) = Whole(c)
Ends(p, o) == ~At(p, "idle") /\ op(p) = o /\ pr'[p].pc = "idle" /\ pr'[p].res = "ok"
CopyWithRoomIsStored ==
  [][\A p \in Procs : Ends(p, "mycopyTo") /\ pr[p].slot # NoSlot
                        => Stored(pr[p].cmd.name, pr[p].cmd.c)]_vars

\* A reader of myfsv1.c that runs beside its writer gets one whole file, unless
\* the descriptor it had read is no longer there when it reads the data block.
ReadsWhole ==
  [][\A p \in Procs :
       LET s == pr[p].slot IN
       Ends(p, "mycopyFrom") /\ ~mixed /\ s \in Slots /\ table[s] = pr[p].tbl[s]
         => data[s] \in Contents /\ pr'[p].out = Whole(data[s])]_vars

\* The volume is the abstract file store.  An entry counts from the moment its
\* descriptor and its data are both written.  While a mycopyTo that found no
\* hole runs, the table is the one it read and will write back; a volume that is
\* being formatted, or was damaged, is empty.
Pending == {pr[p].slot : p \in {q \in Procs : At(q, "data")}}
Formatting == \E p \in Procs : At(p, "zero")
Table == [s \in Slots |-> IF \E p \in Procs : Overfull(p)
                          THEN pr[CHOOSE p \in Procs : Overfull(p)].tbl[s]
                          ELSE table[s]]
Visible == IF Formatting \/ damaged THEN {}
           ELSE {s \in Slots : Used(Table[s])} \ Pending
Entries == [s \in Visible |-> [name |-> Table[s].name,
                               file |-> Prefix(data[s], Table[s].size)]]
StoreEntry == [name : Names, file : {Whole(c) : c \in Contents}]

Store == INSTANCE FileStore WITH Cell <- Slots, Entry <- StoreEntry, dir <- Entries
ImplementsStore == Store!Spec

\* The code locks nothing and repairs nothing, so the properties hold for one
\* shell that changes the volume, the others copying files out, and the last
\* one when neither a mycopy_to nor a format of myfsv1.c is killed: the one
\* leaves a descriptor whose data was never written, the other a volume that
\* is formatted in part.
Only(w) == \A p \in Procs : p # w => \A c \in Menu[p] : c.op = "mycopyFrom"
OneWriter == \E w \in Procs : Only(w)
KillsSpare == <<"a82", "mycopyTo">> \notin Fragile /\ <<"v1", "mymkfs">> \notin Fragile
=============================================================================
