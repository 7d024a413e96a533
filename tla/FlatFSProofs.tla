----------------------------- MODULE FlatFSProofs ---------------------------
(***************************************************************************)
(* Proofs about FlatFS: types for any number of shells; and, when one      *)
(* shell writes, that what is copied in is stored, that readers get whole  *)
(* files, and that the volume implements the abstract file store.          *)
(***************************************************************************)
EXTENDS FlatFS, WellFoundedInduction, TLAPS

-----------------------------------------------------------------------------
(* Types, and which step each command can be at.                           *)

\* What the place of a command says of its locals.
StepOK(l) ==
  /\ l.pc = "zero" => l.cmd.op = "mymkfs" /\ l.cmd.tool = "v1" /\ l.i < MB + NOFILES
  /\ l.pc \in {"scan", "readTable"} => l.cmd.op # "mymkfs" /\ l.slot = NoSlot
  /\ l.pc = "scan" => l.cmd.tool = "a82" /\ l.i < NOFILES
  /\ l.pc \in {"meta", "data"} => /\ l.cmd.tool = "a82" /\ l.cmd.op = "mycopyTo"
                                  /\ l.slot \in Slots /\ ~Misfit(l.cmd)
  /\ l.pc = "clear" => l.cmd.tool = "a82" /\ l.cmd.op = "myrm" /\ l.slot \in Slots
  /\ l.pc \in {"readTable", "writeData", "writeTable"} =>
       l.cmd.tool = "v1" /\ (l.cmd.op = "mycopyTo" => ~Misfit(l.cmd))
  /\ l.pc \in {"readTable", "writeTable"} => l.i < MB
  /\ l.pc = "writeData" => l.cmd.op = "mycopyTo" /\ l.i = 0
  /\ l.pc = "writeTable" => l.cmd.op \in {"mycopyTo", "myrm"}
  /\ l.pc = "readData" => /\ l.cmd.op = "mycopyFrom" /\ l.slot \in Slots
                          /\ l.tbl[l.slot].name \in Names

IInv == TypeOK /\ \A p \in Procs : StepOK(pr[p])

LEMMA SlotFacts ==
  /\ NOFILES \in Nat /\ NOFILES >= 1 /\ NoSlot \notin Slots
  /\ NOFILES >= MB
<1>1. NOFILES \in Nat /\ NOFILES >= 1
  BY FlatAssumption DEF NOFILES
<1>2. MB * EB >= MB
  <2>1. \A a, b \in Nat : b >= 1 => a * b >= a
    OBVIOUS
  <2> QED
    BY <2>1, FlatAssumption
<1> QED
  BY <1>1, <1>2 DEF NOFILES, NoSlot, Slots

LEMMA BlockFacts == \A s \in Slots : BlockOf(s) \in 0 .. MB-1
<1> SUFFICES ASSUME NEW s \in Slots
             PROVE  BlockOf(s) \in 0 .. MB-1
  OBVIOUS
<1>1. s \in Nat /\ s < MB * EB
  BY SlotFacts DEF Slots, NOFILES
<1>2. s \div EB \in Nat /\ EB * (s \div EB) <= s
  BY <1>1, FlatAssumption
<1>3. \A a, b, c \in Nat : a >= b => c * a >= b * c
  OBVIOUS
<1> DEFINE b == s \div EB
<1>4. b \in Nat /\ ~(b >= MB)
  BY <1>1, <1>2, <1>3, FlatAssumption
<1> HIDE DEF b
<1>5. b \in 0 .. MB-1
  BY <1>4, FlatAssumption
<1>6. BlockOf(s) = b
  BY DEF b, BlockOf
<1> QED
  BY <1>5, <1>6

LEMMA CommandFacts ==
  /\ NoCommand \in Command
  /\ \A c \in Command : /\ c.op \in Ops /\ c.tool \in Tools /\ c.name \in Names
                        /\ c.c \in Contents /\ Clip[c.name] \in Names
                        /\ Size[c.c] \in 0 .. MaxSize+1
                        /\ ~Misfit(c) => Size[c.c] \in 0 .. MaxSize
<1>1. PICK n \in Names, c \in Contents : TRUE
  BY FlatAssumption
<1>2. [tool |-> "v1", op |-> "myrm", name |-> n, c |-> c] \in Command
  BY DEF Command, Tools, Ops
<1>3. NoCommand \in Command
  BY <1>2 DEF NoCommand
<1>4. ASSUME NEW k \in Command
      PROVE  /\ k.op \in Ops /\ k.tool \in Tools /\ k.name \in Names
             /\ k.c \in Contents /\ Clip[k.name] \in Names
             /\ Size[k.c] \in 0 .. MaxSize+1
             /\ ~Misfit(k) => Size[k.c] \in 0 .. MaxSize
  <2>1. /\ k.op \in Ops /\ k.tool \in Tools /\ k.name \in Names /\ k.c \in Contents
    BY DEF Command
  <2>2. Clip[k.name] \in Names /\ Size[k.c] \in 0 .. MaxSize+1
    BY <2>1, FlatAssumption
  <2>3. ~Misfit(k) => Size[k.c] \in 0 .. MaxSize
    BY <2>2, FlatAssumption DEF Misfit
  <2> QED
    BY <2>1, <2>2, <2>3
<1> QED
  BY <1>3, <1>4

LEMMA HoleType ==
  /\ Hole \in Desc /\ NoTable \in [Slots -> Desc] /\ [Hole EXCEPT !.name = Junk] \in Desc
  /\ [s \in Slots |-> NoContent] \in [Slots -> Contents \cup {NoContent}]
  /\ NoFile \in File
BY FlatAssumption DEF Hole, Desc, NoTable, NoFile, File, Prefix

LEMMA IdleFacts ==
  /\ Idle \in Local /\ Idle.pc = "idle" /\ Idle.i = 0 /\ Idle.slot = NoSlot
  /\ Idle.tbl = NoTable /\ Idle.out = NoFile /\ Idle.res = "none"
<1>1. NoSlot \in 0 .. NOFILES /\ 0 \in 0 .. MB + NOFILES
  BY SlotFacts, FlatAssumption DEF NoSlot
<1> QED
  BY <1>1, CommandFacts, HoleType DEF Idle, Local, PCs

LEMMA EndedOK ==
  ASSUME NEW c \in Command, NEW r \in {"none", "ok", "err", "segv"}, NEW o \in File
  PROVE  LET l == [Idle EXCEPT !.cmd = c, !.res = r, !.out = o]
         IN  l \in Local /\ StepOK(l) /\ l.pc = "idle" /\ l.res = r /\ l.out = o
<1> DEFINE l == [Idle EXCEPT !.cmd = c, !.res = r, !.out = o]
<1>1. l \in Local /\ l.pc = "idle" /\ l.res = r /\ l.out = o
  BY IdleFacts DEF Local
<1> QED
  BY <1>1 DEF StepOK

LEMMA IdleOK == StepOK(Idle)
BY IdleFacts DEF StepOK

LEMMA LocalFacts ==
  ASSUME NEW l \in Local
  PROVE  /\ l.pc \in PCs /\ l.cmd \in Command /\ l.i \in 0 .. MB + NOFILES
         /\ l.slot \in 0 .. NOFILES /\ l.tbl \in [Slots -> Desc] /\ l.out \in File
         /\ l.res \in {"none", "ok", "err", "segv"}
BY DEF Local

LEMMA PrFacts ==
  ASSUME IInv, NEW p \in Procs
  PROVE  pr[p] \in Local /\ StepOK(pr[p]) /\ pr[p].cmd \in Command
BY DEF IInv, TypeOK, Local

LEMMA KeepInv ==
  ASSUME IInv, NEW p \in Procs, NEW l \in Local, StepOK(l), Now(p, l),
         table' \in [Slots -> Desc], data' \in [Slots -> Contents \cup {NoContent}],
         mixed' \in BOOLEAN, damaged' \in BOOLEAN,
         starts' \in 0 .. MaxStarts, crashes' \in 0 .. MaxCrashes
  PROVE  IInv'
<1>1. pr' = [pr EXCEPT ![p] = l]
  BY DEF Now
<1>2. pr' \in [Procs -> Local]
  BY <1>1 DEF IInv, TypeOK
<1>3. \A q \in Procs : StepOK(pr'[q])
  BY <1>1 DEF IInv, TypeOK
<1> QED
  BY <1>2, <1>3 DEF IInv, TypeOK, StepOK, Misfit

\* A step that moves p on and leaves the rest of the types to the volume.
LEMMA StepInv ==
  ASSUME IInv, NEW p \in Procs, NEW l \in Local, StepOK(l), Now(p, l),
         table' \in [Slots -> Desc], data' \in [Slots -> Contents \cup {NoContent}],
         UNCHANGED counts
  PROVE  IInv'
BY KeepInv DEF IInv, TypeOK, counts

LEMMA FinishInv ==
  ASSUME IInv, NEW p \in Procs, NEW r \in {"ok", "err", "segv"}, Finish(p, r),
         table' \in [Slots -> Desc], data' \in [Slots -> Contents \cup {NoContent}],
         UNCHANGED counts
  PROVE  IInv'
<1>1. Ended(p, r, NoFile) \in Local /\ StepOK(Ended(p, r, NoFile))
  BY PrFacts, EndedOK, HoleType DEF Ended
<1> QED
  BY <1>1, StepInv DEF Finish

LEMMA InitInv == Init => IInv
<1> SUFFICES ASSUME Init
             PROVE  IInv
  OBVIOUS
<1>1. 0 \in 0 .. MaxStarts /\ 0 \in 0 .. MaxCrashes
  BY FlatAssumption
<1> QED
  BY <1>1, HoleType, IdleFacts, IdleOK DEF Init, IInv, TypeOK

LEMMA VolumeTypes ==
  ASSUME IInv
  PROVE  /\ table \in [Slots -> Desc] /\ data \in [Slots -> Contents \cup {NoContent}]
         /\ mixed \in BOOLEAN /\ damaged \in BOOLEAN
         /\ starts \in 0 .. MaxStarts /\ crashes \in 0 .. MaxCrashes
BY DEF IInv, TypeOK

LEMMA StartInv ==
  ASSUME IInv, NEW p \in Procs, NEW c \in Menu[p], Start(p, c)
  PROVE  IInv'
<1>1. c \in Command
  BY FlatAssumption
<1> DEFINE k == [Idle EXCEPT !.cmd = c]
           wrong == c.op = "mycopyTo"
                      /\ (IF c.tool = "v1" THEN Misfit(c) ELSE Size[c.c] > MaxSize)
           e == [k EXCEPT !.res = "err"]
           g == [k EXCEPT !.pc = IF c.tool = "v1" THEN "readTable" ELSE "scan"]
<1>2. e \in Local /\ StepOK(e)
  <2>1. e \in Local /\ e.pc = "idle"
    BY <1>1, IdleFacts DEF Local
  <2> QED
    BY <2>1 DEF StepOK
<1>3. ASSUME ~wrong
      PROVE  g \in Local /\ StepOK(g)
  <2>1. /\ g \in Local /\ g.pc = (IF c.tool = "v1" THEN "readTable" ELSE "scan")
        /\ g.cmd = c /\ g.i = 0 /\ g.slot = NoSlot
    BY <1>1, IdleFacts DEF Local, PCs
  <2>2. c.op # "mymkfs" /\ c.tool \in Tools
    BY <1>1, CommandFacts DEF Start
  <2>3. c.op = "mycopyTo" /\ c.tool = "v1" => ~Misfit(c)
    BY <1>3
  <2>4. 0 < MB /\ 0 < NOFILES
    BY SlotFacts, FlatAssumption
  <2> HIDE DEF g
  <2> QED
    BY <2>1, <2>2, <2>3, <2>4 DEF StepOK, Tools
<1>4. starts' \in 0 .. MaxStarts /\ UNCHANGED <<volume, damaged, crashes>>
  BY VolumeTypes, FlatAssumption DEF Start
<1>5. mixed' \in BOOLEAN
  BY DEF Start
<1>6. PICK x \in {e, g} : Now(p, x) /\ (x = e \/ ~wrong)
  BY DEF Start
<1>7. x \in Local /\ StepOK(x)
  BY <1>2, <1>3, <1>6
<1> HIDE DEF wrong, e, g, k
<1> QED
  BY <1>4, <1>5, <1>6, <1>7, VolumeTypes, KeepInv DEF volume

LEMMA Mkfs82Inv ==
  ASSUME IInv, NEW p \in Procs, NEW c \in Menu[p], Mkfs82(p, c)
  PROVE  IInv'
<1>1. c \in Command
  BY FlatAssumption
<1> DEFINE k == [Idle EXCEPT !.cmd = c, !.res = "ok"]
<1>2. k \in Local /\ k.pc = "idle"
  BY <1>1, IdleFacts DEF Local
<1>3. StepOK(k)
  BY <1>2 DEF StepOK
<1>4. starts' \in 0 .. MaxStarts /\ crashes' = crashes
  BY VolumeTypes, FlatAssumption DEF Mkfs82
<1>5. /\ table' = NoTable /\ data' = [s \in Slots |-> NoContent]
      /\ mixed' = FALSE /\ damaged' = FALSE /\ Now(p, k)
  BY DEF Mkfs82
<1> HIDE DEF k
<1> QED
  BY <1>2, <1>3, <1>4, <1>5, VolumeTypes, HoleType, KeepInv

LEMMA MkfsStartInv ==
  ASSUME IInv, NEW p \in Procs, NEW c \in Menu[p], MkfsStart(p, c)
  PROVE  IInv'
<1>1. c \in Command
  BY FlatAssumption
<1> DEFINE k == [Idle EXCEPT !.pc = "zero", !.cmd = c]
<1>2. k \in Local /\ k.pc = "zero" /\ k.cmd = c /\ k.i = 0
  BY <1>1, IdleFacts DEF Local, PCs
<1>3. StepOK(k)
  <2>1. 0 < MB + NOFILES
    BY SlotFacts, FlatAssumption
  <2>2. c.op = "mymkfs" /\ c.tool = "v1"
    BY DEF MkfsStart
  <2> HIDE DEF k
  <2> QED
    BY <1>2, <2>1, <2>2 DEF StepOK
<1>4. starts' \in 0 .. MaxStarts /\ UNCHANGED <<volume, mixed, damaged, crashes>>
  BY VolumeTypes, FlatAssumption DEF MkfsStart
<1>5. pr' = [q \in Procs |-> IF q = p THEN k ELSE Idle]
  BY DEF MkfsStart
<1> HIDE DEF k
<1>6. pr' \in [Procs -> Local] /\ \A q \in Procs : StepOK(pr'[q])
  BY <1>2, <1>3, <1>5, IdleFacts, IdleOK
<1> QED
  BY <1>4, <1>6, VolumeTypes DEF IInv, TypeOK, StepOK, Misfit, volume

LEMMA MkfsZeroInv ==
  ASSUME IInv, NEW p \in Procs, MkfsZero(p)
  PROVE  IInv'
<1> DEFINE i == pr[p].i
           k == [pr[p] EXCEPT !.i = i+1]
           e == Ended(p, "ok", NoFile)
<1>1. /\ pr[p] \in Local /\ StepOK(pr[p]) /\ i \in Nat /\ i < MB + NOFILES
      /\ pr[p].cmd.op = "mymkfs" /\ pr[p].cmd.tool = "v1" /\ pr[p].pc = "zero"
  BY PrFacts, LocalFacts DEF MkfsZero, At, StepOK
<1>2. table' \in [Slots -> Desc] /\ data' \in [Slots -> Contents \cup {NoContent}]
  <2>1. /\ table' = [s \in Slots |-> IF BlockOf(s) = i THEN Hole ELSE table[s]]
        /\ data' = [s \in Slots |-> IF MB + s = i THEN NoContent ELSE data[s]]
    BY DEF MkfsZero
  <2> HIDE DEF i
  <2> QED
    BY <2>1, VolumeTypes, HoleType
<1>3. mixed' \in BOOLEAN /\ damaged' \in BOOLEAN /\ UNCHANGED <<starts, crashes>>
  BY DEF MkfsZero
<1>4. e \in Local /\ StepOK(e)
  BY PrFacts, HoleType, EndedOK DEF Ended
<1>5. ASSUME i # MB + NOFILES - 1
      PROVE  k \in Local /\ StepOK(k)
  <2>1. i + 1 \in 0 .. MB + NOFILES /\ i + 1 < MB + NOFILES
    BY <1>1, <1>5, SlotFacts, FlatAssumption
  <2>2. k \in Local /\ k.pc = "zero" /\ k.cmd = pr[p].cmd /\ k.i = i + 1
    BY <1>1, <2>1 DEF Local
  <2> HIDE DEF k, i
  <2> QED
    BY <1>1, <2>1, <2>2 DEF StepOK
<1>6. \/ Now(p, e)
      \/ i # MB + NOFILES - 1 /\ Now(p, k)
  BY DEF MkfsZero, Finish
<1>7. PICK x \in {e, k} : Now(p, x) /\ x \in Local /\ StepOK(x)
  BY <1>4, <1>5, <1>6
<1> HIDE DEF e, k, i
<1> QED
  BY <1>2, <1>3, <1>7, VolumeTypes, KeepInv

LEMMA ScanInv ==
  ASSUME IInv, NEW p \in Procs, Scan(p)
  PROVE  IInv'
<1> DEFINE i == pr[p].i
           k == [pr[p] EXCEPT !.i = i+1]
           e == Ended(p, "err", NoFile)
           g == [pr[p] EXCEPT !.pc = After(p), !.slot = i,
                              !.tbl = [NoTable EXCEPT ![i] = table[i]]]
<1>1. /\ pr[p] \in Local /\ StepOK(pr[p]) /\ i \in Slots /\ i < NOFILES /\ i \in 0 .. NOFILES
      /\ op(p) \in {"mycopyTo", "mycopyFrom", "myrm"} /\ tool(p) = "a82"
      /\ pr[p].pc = "scan" /\ pr[p].cmd \in Command /\ pr[p].slot = NoSlot
  <2>1. /\ pr[p] \in Local /\ StepOK(pr[p]) /\ pr[p].pc = "scan" /\ pr[p].cmd \in Command
        /\ i \in Nat
    BY PrFacts, LocalFacts DEF Scan, At
  <2>2. i < NOFILES /\ tool(p) = "a82" /\ op(p) # "mymkfs" /\ pr[p].slot = NoSlot
    BY <2>1 DEF StepOK, op, tool
  <2>3. op(p) \in Ops
    BY <2>1, CommandFacts DEF op
  <2> HIDE DEF i
  <2> QED
    BY <2>1, <2>2, <2>3, SlotFacts DEF Slots, Ops
<1>2. e \in Local /\ StepOK(e)
  BY PrFacts, HoleType, EndedOK DEF Ended
<1>3. ASSUME i # NOFILES - 1
      PROVE  k \in Local /\ StepOK(k)
  <2>1. i + 1 \in 0 .. MB + NOFILES /\ i + 1 < NOFILES
    BY <1>1, <1>3, SlotFacts, FlatAssumption DEF Slots
  <2>2. k \in Local /\ k.pc = "scan" /\ k.cmd = pr[p].cmd /\ k.i = i + 1 /\ k.slot = NoSlot
    BY <1>1, <2>1 DEF Local
  <2> HIDE DEF k, i
  <2> QED
    BY <1>1, <2>1, <2>2 DEF StepOK, op, tool
<1>4. ASSUME Fits(p, table[i]), ~(op(p) = "mycopyTo" /\ Misfit(pr[p].cmd))
      PROVE  g \in Local /\ StepOK(g)
  <2>1. [NoTable EXCEPT ![i] = table[i]] \in [Slots -> Desc]
    BY <1>1, VolumeTypes, HoleType
  <2>2. After(p) \in {"meta", "readData", "clear"}
    BY <1>1 DEF After
  <2>3. /\ g \in Local /\ g.pc = After(p) /\ g.cmd = pr[p].cmd /\ g.slot = i
        /\ g.tbl = [NoTable EXCEPT ![i] = table[i]]
    BY <1>1, <2>1, <2>2 DEF Local, PCs
  <2>4. g.tbl[i] = table[i]
    BY <1>1, <2>3, HoleType
  <2>5. op(p) = "mycopyFrom" => table[i].name \in Names
    BY <1>1, <1>4, CommandFacts DEF Fits, wanted
  <2> HIDE DEF g, i
  <2> QED
    BY <1>1, <1>4, <2>3, <2>4, <2>5 DEF StepOK, op, tool, After
<1>5. \/ Now(p, e)
      \/ i # NOFILES - 1 /\ Now(p, k)
      \/ Fits(p, table[i]) /\ ~(op(p) = "mycopyTo" /\ Misfit(pr[p].cmd)) /\ Now(p, g)
  BY DEF Scan, Finish
<1>6. PICK x \in {e, k, g} : Now(p, x) /\ x \in Local /\ StepOK(x)
  BY <1>2, <1>3, <1>4, <1>5
<1>7. UNCHANGED <<volume, counts>>
  BY DEF Scan
<1> HIDE DEF e, k, g, i
<1> QED
  BY <1>6, <1>7, VolumeTypes, StepInv DEF volume

LEMMA DescriptorType ==
  ASSUME IInv, NEW p \in Procs, ~Misfit(pr[p].cmd)
  PROVE  Descriptor(p) \in Desc
BY PrFacts, CommandFacts DEF Descriptor, Desc

LEMMA CopyMetaInv ==
  ASSUME IInv, NEW p \in Procs, CopyMeta(p)
  PROVE  IInv'
<1> DEFINE k == [pr[p] EXCEPT !.pc = "data"]
<1>1. /\ pr[p] \in Local /\ StepOK(pr[p]) /\ pr[p].pc = "meta"
      /\ pr[p].slot \in Slots /\ ~Misfit(pr[p].cmd)
  BY PrFacts DEF CopyMeta, At, StepOK
<1>2. k \in Local /\ k.pc = "data" /\ k.cmd = pr[p].cmd /\ k.slot = pr[p].slot
  BY <1>1 DEF Local, PCs
<1> HIDE DEF k
<1>3. StepOK(k)
  BY <1>1, <1>2 DEF StepOK
<1>4. table' \in [Slots -> Desc]
  BY <1>1, VolumeTypes, DescriptorType DEF CopyMeta
<1>5. Now(p, k) /\ UNCHANGED <<data, counts>>
  BY DEF CopyMeta, k
<1> QED
  BY <1>2, <1>3, <1>4, <1>5, VolumeTypes, StepInv

LEMMA CopyDataInv ==
  ASSUME IInv, NEW p \in Procs, CopyData(p)
  PROVE  IInv'
<1>1. pr[p].slot \in Slots /\ pr[p].cmd.c \in Contents
  BY PrFacts, CommandFacts DEF CopyData, At, StepOK
<1>2. data' \in [Slots -> Contents \cup {NoContent}]
  BY <1>1, VolumeTypes DEF CopyData
<1>3. Finish(p, "ok") /\ UNCHANGED <<table, counts>>
  BY DEF CopyData
<1> QED
  BY <1>2, <1>3, VolumeTypes, FinishInv

LEMMA ClearNameInv ==
  ASSUME IInv, NEW p \in Procs, ClearName(p)
  PROVE  IInv'
<1> DEFINE s == pr[p].slot
<1>1. s \in Slots
  BY PrFacts DEF ClearName, At, StepOK
<1>2. [table[s] EXCEPT !.name = NoName] \in Desc
  BY <1>1, VolumeTypes DEF Desc
<1>3. table' = [table EXCEPT ![s] = [table[s] EXCEPT !.name = NoName]]
  BY DEF ClearName
<1>4. table' \in [Slots -> Desc]
  BY <1>1, <1>2, <1>3, VolumeTypes
<1>5. Finish(p, "ok") /\ UNCHANGED <<data, counts>>
  BY DEF ClearName
<1> QED
  BY <1>4, <1>5, VolumeTypes, FinishInv

LEMMA Least ==
  ASSUME NEW S \in SUBSET Nat, S # {}
  PROVE  \E n \in S : \A m \in S : n <= m
<1>1. PICK n \in S : \A m \in S : ~(<<m, n>> \in OpToRel(<, Nat))
  BY NatLessThanWellFounded, WFMin
<1>2. \A m \in S : ~(m < n)
  BY <1>1 DEF OpToRel
<1> QED
  BY <1>2

\* The lowest of some slots is one of them, and the highest.
LEMMA Extremes ==
  ASSUME NEW S \in SUBSET Slots, S # {}
  PROVE  Lowest(S) \in S /\ Highest(S) \in S
<1>1. S \subseteq Nat /\ NOFILES \in Nat /\ \A s \in S : s < NOFILES
  BY SlotFacts DEF Slots
<1>2. Lowest(S) \in S
  <2>1. \E n \in S : \A m \in S : n <= m
    BY <1>1, Least
  <2> QED
    BY <2>1 DEF Lowest
<1>3. Highest(S) \in S
  <2> DEFINE D == {NOFILES - s : s \in S}
  <2>1. D \subseteq Nat /\ D # {}
    <3>1. \A s \in S : NOFILES - s \in Nat
      BY <1>1
    <3> QED
      BY <3>1
  <2>2. PICK d \in D : \A x \in D : d <= x
    <3> HIDE DEF D
    <3> QED
      BY <2>1, Least
  <2>3. PICK n \in S : d = NOFILES - n
    BY <2>2
  <2>4. \A x \in S : n >= x
    <3> TAKE x \in S
    <3>1. NOFILES - n <= NOFILES - x
      BY <2>2, <2>3
    <3> QED
      BY <3>1, <1>1
  <2> QED
    BY <2>4 DEF Highest
<1> QED
  BY <1>2, <1>3

\* The commands of myfsv1.c: the table they have read, or have changed.
LEMMA ReadTableFacts ==
  ASSUME IInv, NEW p \in Procs, ReadTable(p)
  PROVE  /\ pr[p] \in Local /\ StepOK(pr[p]) /\ pr[p].pc = "readTable"
         /\ pr[p].i \in 0 .. MB-1 /\ tool(p) = "v1" /\ pr[p].slot = NoSlot
         /\ op(p) \in {"mycopyTo", "mycopyFrom", "myrm"}
         /\ op(p) = "mycopyTo" => ~Misfit(pr[p].cmd) /\ Descriptor(p) \in Desc
         /\ Merged(p, pr[p].i) \in [Slots -> Desc]
         /\ UNCHANGED <<volume, counts>>
<1>1. /\ pr[p] \in Local /\ StepOK(pr[p]) /\ pr[p].pc = "readTable" /\ pr[p].cmd \in Command
      /\ pr[p].i \in Nat /\ pr[p].tbl \in [Slots -> Desc]
  BY PrFacts, LocalFacts DEF ReadTable, At
<1>2. pr[p].i < MB /\ tool(p) = "v1" /\ op(p) # "mymkfs" /\ pr[p].slot = NoSlot
      /\ (op(p) = "mycopyTo" => ~Misfit(pr[p].cmd))
  BY <1>1 DEF StepOK, op, tool
<1>3. pr[p].i \in 0 .. MB-1
  BY <1>1, <1>2, FlatAssumption
<1>4. op(p) \in Ops
  BY <1>1, CommandFacts DEF op
<1>5. Merged(p, pr[p].i) \in [Slots -> Desc]
  BY <1>1, VolumeTypes DEF Merged
<1>6. op(p) = "mycopyTo" => Descriptor(p) \in Desc
  BY <1>2, DescriptorType
<1>7. UNCHANGED <<volume, counts>>
  BY DEF ReadTable
<1> QED
  BY <1>1, <1>2, <1>3, <1>4, <1>5, <1>6, <1>7 DEF Ops

LEMMA ReadTableInv ==
  ASSUME IInv, NEW p \in Procs, ReadTable(p)
  PROVE  IInv'
<1> DEFINE i == pr[p].i
           t == Merged(p, i)
<1> SUFFICES \E x \in Local : StepOK(x) /\ Now(p, x)
  BY ReadTableFacts, VolumeTypes, StepInv DEF volume
<1>1. /\ pr[p] \in Local /\ StepOK(pr[p]) /\ pr[p].pc = "readTable"
      /\ i \in 0 .. MB-1 /\ tool(p) = "v1" /\ pr[p].slot = NoSlot
      /\ op(p) \in {"mycopyTo", "mycopyFrom", "myrm"}
      /\ op(p) = "mycopyTo" => ~Misfit(pr[p].cmd) /\ Descriptor(p) \in Desc
      /\ t \in [Slots -> Desc]
  BY ReadTableFacts
<1>2. 0 \in 0 .. MB + NOFILES /\ 0 < MB
  BY SlotFacts, FlatAssumption
<1>3. \A r \in {"err", "segv"} : /\ Ended(p, r, NoFile) \in Local
                                 /\ StepOK(Ended(p, r, NoFile))
  BY PrFacts, HoleType, EndedOK DEF Ended
<1>4. (i = MB-1 /\ Decide(p, t)) \/ (i # MB-1 /\ Now(p, [pr[p] EXCEPT !.tbl = t, !.i = i+1]))
  BY DEF ReadTable
<1> HIDE DEF i, t
<1>5. CASE i # MB-1 /\ Now(p, [pr[p] EXCEPT !.tbl = t, !.i = i+1])
  <2> DEFINE k == [pr[p] EXCEPT !.tbl = t, !.i = i+1]
  <2>1. i+1 \in 0 .. MB + NOFILES /\ i+1 < MB
    BY <1>1, <1>5, SlotFacts, FlatAssumption
  <2>2. /\ k \in Local /\ k.pc = "readTable" /\ k.cmd = pr[p].cmd /\ k.i = i+1
        /\ k.slot = NoSlot
    BY <1>1, <2>1 DEF Local
  <2> HIDE DEF k
  <2>3. StepOK(k)
    BY <1>1, <2>1, <2>2 DEF StepOK, op, tool
  <2> QED
    BY <1>5, <2>2, <2>3 DEF k
<1>6. CASE op(p) = "mycopyTo" /\ DecideTo(p, t)
  <2> DEFINE l == [pr[p] EXCEPT !.pc = "writeData", !.tbl = t, !.i = 0]
             h == Highest(Holes(t))
             k == [l EXCEPT !.slot = h, !.tbl[h] = Descriptor(p)]
  <2>1. /\ l \in Local /\ l.pc = "writeData" /\ l.cmd = pr[p].cmd /\ l.i = 0
        /\ l.tbl = t
    BY <1>1, <1>2 DEF Local, PCs
  <2>2. StepOK(l)
    <3> HIDE DEF l
    <3> QED
      BY <1>1, <1>2, <1>6, <2>1 DEF StepOK, op, tool
  <2>3. ASSUME Holes(t) # {}
        PROVE  k \in Local /\ StepOK(k)
    <3>1. h \in Slots /\ h \in 0 .. NOFILES
      BY <2>3, Extremes, SlotFacts DEF Holes, Slots
    <3> HIDE DEF h
    <3>2. [t EXCEPT ![h] = Descriptor(p)] \in [Slots -> Desc]
      BY <1>1, <1>6, <3>1
    <3>3. /\ k \in Local /\ k.pc = "writeData" /\ k.cmd = pr[p].cmd /\ k.i = 0
      <4> HIDE DEF l
      <4> QED
        BY <2>1, <3>1, <3>2 DEF Local
    <3> HIDE DEF k
    <3> QED
      BY <1>1, <1>2, <1>6, <3>3 DEF StepOK, op, tool
  <2>4. \/ Now(p, Ended(p, "err", NoFile)) \/ Now(p, Ended(p, "segv", NoFile))
        \/ Now(p, l)
        \/ Holes(t) # {} /\ Now(p, k)
    BY <1>6 DEF DecideTo, Finish
  <2> HIDE DEF l, k, h
  <2> QED
    BY <1>3, <2>1, <2>2, <2>3, <2>4
<1>7. CASE op(p) = "mycopyFrom" /\ DecideFrom(p, t)
  <2> DEFINE hits == Named(t, wanted(p))
             k == [pr[p] EXCEPT !.pc = "readData", !.tbl = t, !.slot = Lowest(hits)]
  <2>1. ASSUME hits # {}
        PROVE  k \in Local /\ StepOK(k)
    <3> DEFINE s == Lowest(hits)
    <3>1. s \in Slots /\ s \in 0 .. NOFILES /\ t[s].name = wanted(p)
      BY <2>1, Extremes, SlotFacts DEF Named, Slots
    <3> HIDE DEF s
    <3>2. wanted(p) \in Names
      BY PrFacts, CommandFacts DEF wanted
    <3>3. /\ k \in Local /\ k.pc = "readData" /\ k.cmd = pr[p].cmd /\ k.slot = s /\ k.tbl = t
      BY <1>1, <3>1 DEF Local, PCs, s
    <3> HIDE DEF k
    <3> QED
      BY <1>7, <3>1, <3>2, <3>3 DEF StepOK, op
  <2>2. \/ Now(p, Ended(p, "err", NoFile))
        \/ hits # {} /\ Now(p, k)
    BY <1>7 DEF DecideFrom, Finish
  <2> HIDE DEF k, hits
  <2> QED
    BY <1>3, <2>1, <2>2
<1>8. CASE op(p) = "myrm" /\ DecideRm(p, t)
  <2> DEFINE hits == Named(t, wanted(p))
             u == [t EXCEPT ![Lowest(hits)] = Hole]
             k == [pr[p] EXCEPT !.pc = "writeTable", !.i = 0, !.tbl = u]
  <2>1. k \in Local /\ StepOK(k)
    <3>1. u \in [Slots -> Desc]
      BY <1>1, HoleType
    <3> HIDE DEF u
    <3>2. k \in Local /\ k.pc = "writeTable" /\ k.cmd = pr[p].cmd /\ k.i = 0
      BY <1>1, <1>2, <3>1 DEF Local, PCs
    <3> HIDE DEF k
    <3> QED
      BY <1>1, <1>2, <1>8, <3>2 DEF StepOK, op, tool
  <2>2. \/ Now(p, Ended(p, "err", NoFile))
        \/ Now(p, k)
    BY <1>8 DEF DecideRm, Finish
  <2> HIDE DEF k
  <2> QED
    BY <1>3, <2>1, <2>2
<1> QED
  BY <1>4, <1>5, <1>6, <1>7, <1>8 DEF Decide

LEMMA WriteDataInv ==
  ASSUME IInv, NEW p \in Procs, WriteData(p)
  PROVE  IInv'
<1> DEFINE l == pr[p]
           k == [pr[p] EXCEPT !.pc = "writeTable"]
<1>1. /\ l \in Local /\ StepOK(l) /\ l.pc = "writeData" /\ l.cmd.c \in Contents
      /\ l.slot \in 0 .. NOFILES /\ 0 < MB
  BY PrFacts, LocalFacts, CommandFacts, FlatAssumption DEF WriteData, At
<1>2. /\ k \in Local /\ k.pc = "writeTable" /\ k.cmd = l.cmd /\ k.i = l.i
  BY <1>1 DEF Local, PCs
<1>3. Now(p, k) /\ UNCHANGED counts
  BY DEF WriteData
<1>4. table' \in [Slots -> Desc] /\ data' \in [Slots -> Contents \cup {NoContent}]
  <2>1. CASE l.slot # NoSlot /\ data' = [data EXCEPT ![l.slot] = l.cmd.c] /\ UNCHANGED table
    BY <1>1, <2>1, VolumeTypes
  <2>2. CASE /\ UNCHANGED data
             /\ \E text \in SUBSET {s \in Slots : BlockOf(s) = MB-1} :
                  table' = [s \in Slots |-> IF BlockOf(s) # MB-1 THEN table[s]
                                            ELSE IF s \in text THEN [Hole EXCEPT !.name = Junk]
                                            ELSE Hole]
    BY <2>2, VolumeTypes, HoleType
  <2> QED
    BY <2>1, <2>2 DEF WriteData
<1> HIDE DEF k
<1>5. StepOK(k)
  BY <1>1, <1>2 DEF StepOK
<1> QED
  BY <1>2, <1>3, <1>4, <1>5, StepInv

LEMMA WriteTableInv ==
  ASSUME IInv, NEW p \in Procs, WriteTable(p)
  PROVE  IInv'
<1> DEFINE l == pr[p]
           i == pr[p].i
           k == [pr[p] EXCEPT !.i = i+1]
<1>1. /\ l \in Local /\ StepOK(l) /\ l.pc = "writeTable" /\ i \in Nat /\ i < MB
      /\ l.tbl \in [Slots -> Desc]
  BY PrFacts, LocalFacts DEF WriteTable, At, StepOK
<1>2. table' \in [Slots -> Desc] /\ UNCHANGED <<data, counts>>
  <2>1. table' = [s \in Slots |-> IF BlockOf(s) = i THEN l.tbl[s] ELSE table[s]]
    BY DEF WriteTable
  <2> HIDE DEF i
  <2> QED
    BY <1>1, <2>1, VolumeTypes DEF WriteTable
<1>3. CASE Finish(p, "ok")
  BY <1>2, <1>3, VolumeTypes, FinishInv
<1>4. CASE i # MB-1 /\ Now(p, k)
  <2>1. i+1 \in 0 .. MB + NOFILES /\ i+1 < MB
    BY <1>1, <1>4, SlotFacts, FlatAssumption
  <2>2. k \in Local /\ k.pc = "writeTable" /\ k.cmd = l.cmd /\ k.i = i+1
    BY <1>1, <2>1 DEF Local
  <2> HIDE DEF k, i
  <2>3. StepOK(k)
    BY <1>1, <2>1, <2>2 DEF StepOK
  <2> QED
    BY <1>2, <1>4, <2>2, <2>3, VolumeTypes, StepInv
<1> QED
  BY <1>3, <1>4 DEF WriteTable

LEMMA ReadDataInv ==
  ASSUME IInv, NEW p \in Procs, ReadData(p)
  PROVE  IInv'
<1> DEFINE s == pr[p].slot
           o == Prefix(data[s], pr[p].tbl[s].size)
<1>1. s \in Slots /\ pr[p].tbl \in [Slots -> Desc] /\ pr[p].cmd \in Command
  BY PrFacts, LocalFacts DEF ReadData, At, StepOK
<1>2. o \in File
  BY <1>1, VolumeTypes DEF Prefix, File, Desc
<1>3. Now(p, Ended(p, "ok", o)) /\ UNCHANGED <<volume, counts>>
  BY DEF ReadData
<1> HIDE DEF o
<1>4. Ended(p, "ok", o) \in Local /\ StepOK(Ended(p, "ok", o))
  BY <1>1, <1>2, EndedOK DEF Ended
<1> QED
  BY <1>3, <1>4, VolumeTypes, StepInv DEF volume

LEMMA CrashInv ==
  ASSUME IInv, NEW p \in Procs, Crash(p)
  PROVE  IInv'
<1>1. crashes' \in 0 .. MaxCrashes /\ damaged' \in BOOLEAN
  BY VolumeTypes, FlatAssumption DEF Crash, Overfull
<1>2. Now(p, Idle) /\ UNCHANGED <<volume, mixed, starts>>
  BY DEF Crash
<1> QED
  BY <1>1, <1>2, VolumeTypes, IdleFacts, IdleOK, KeepInv DEF volume

LEMMA NextInv == IInv /\ [Next]_vars => IInv'
<1> SUFFICES ASSUME IInv, [Next]_vars
             PROVE  IInv'
  OBVIOUS
<1>1. CASE UNCHANGED vars
  BY <1>1 DEF vars, IInv, TypeOK, StepOK, Misfit
<1>2. CASE Next
  <2>1. PICK p \in Procs : \/ \E c \in Menu[p] : Start(p, c) \/ Mkfs82(p, c) \/ MkfsStart(p, c)
                           \/ Step(p) \/ Crash(p)
    BY <1>2 DEF Next
  <2>2. CASE Step(p)
    BY <2>2, MkfsZeroInv, ScanInv, CopyMetaInv, CopyDataInv, ClearNameInv, ReadTableInv,
       WriteDataInv, WriteTableInv, ReadDataInv DEF Step
  <2> QED
    BY <2>1, <2>2, StartInv, Mkfs82Inv, MkfsStartInv, CrashInv
<1> QED
  BY <1>1, <1>2

LEMMA IInvAlways == Spec => []IInv
BY InitInv, NextInv, PTL DEF Spec

\* Every variable of the flat volume stays in its type, with any number of
\* shells, commands and kills: a command reads, writes and indexes the table
\* only with a slot it has found.
THEOREM FlatTypeCorrect == Spec => []TypeOK
<1>1. IInv => TypeOK
  BY DEF IInv
<1> QED
  BY <1>1, IInvAlways, PTL

-----------------------------------------------------------------------------
(* One shell writes.                                                       *)

W == CHOOSE w \in Procs : Only(w)

Readers == \A p \in Procs : p # W /\ ~At(p, "idle") => op(p) = "mycopyFrom"

\* What the writer with the locals l knows of the table t and the data d.
Says(c) == [name |-> c.name, size |-> Size[c.c]]
Overfilled(l) == l.pc = "writeTable" /\ l.cmd.op = "mycopyTo" /\ l.slot = NoSlot
Adding(l) == l.pc = "writeTable" /\ l.cmd.op = "mycopyTo" /\ l.slot # NoSlot
Removing(l) == l.pc = "writeTable" /\ l.cmd.op = "myrm"
Hand(t, d, l) ==
  /\ l.pc = "readTable" => \A s \in Slots : BlockOf(s) < l.i => l.tbl[s] = t[s]
  /\ l.pc = "meta" => ~Used(t[l.slot])
  /\ l.pc = "data" => t[l.slot] = Says(l.cmd)
  /\ l.pc = "writeData" /\ l.slot = NoSlot => l.tbl = t
  /\ l.pc = "writeData" /\ l.slot # NoSlot =>
       ~Used(t[l.slot]) /\ l.tbl = [t EXCEPT ![l.slot] = Says(l.cmd)]
  /\ Adding(l) =>
       /\ l.tbl[l.slot] = Says(l.cmd) /\ d[l.slot] = l.cmd.c
       /\ \A s \in Slots \ {l.slot} : t[s] = l.tbl[s]
       /\ BlockOf(l.slot) < l.i => t[l.slot] = l.tbl[l.slot]
       /\ ~(BlockOf(l.slot) < l.i) => ~Used(t[l.slot])
  /\ Overfilled(l) => \A s \in Slots : \/ t[s] = l.tbl[s]
                                       \/ BlockOf(s) = MB-1 /\ t[s].name \notin Names
  /\ Removing(l) =>
       \E x \in Slots : l.tbl[x] = Hole /\ \A s \in Slots \ {x} : t[s] = l.tbl[s]
  /\ l.pc = "zero" => \A s \in Slots : BlockOf(s) < l.i => t[s] = Hole

HInv == Readers /\ Hand(table, data, pr[W])

\* The table that counts; which entries of it a user sees; and that an entry
\* fits the file in its data block.
Counting(t, l) == IF Overfilled(l) THEN l.tbl ELSE t
Shows(t, l, s) == Used(Counting(t, l)[s]) /\ ~(l.pc = "data" /\ l.slot = s)
Right(t, d, l, s) == LET e == Counting(t, l)[s]
                     IN  e.name \in Names /\ d[s] \in Contents /\ e.size = Size[d[s]]

\* What a step does to one slot.
Keeps(s) == /\ Shows(table', pr'[W], s) <=> Shows(table, pr[W], s)
            /\ Shows(table, pr[W], s) =>
                 Counting(table', pr'[W])[s] = Counting(table, pr[W])[s] /\ data'[s] = data[s]
Sets(s) == /\ ~Shows(table, pr[W], s) /\ Shows(table', pr'[W], s)
           /\ Right(table', data', pr'[W], s)
Drops(s) == Shows(table, pr[W], s) /\ ~Shows(table', pr'[W], s)
Effect == \E s \in Slots : /\ Keeps(s) \/ Sets(s) \/ Drops(s)
                           /\ \A x \in Slots \ {s} : Keeps(x)
Empties == \A s \in Slots : ~Shows(table', pr'[W], s)

\* A name that is in the table after a step was there, with its file, or is right.
NamesRight ==
  \A s \in Slots : Counting(table', pr'[W])[s].name \in Names =>
      \/ Counting(table', pr'[W])[s] = Counting(table, pr[W])[s] /\ data'[s] = data[s]
      \/ Right(table', data', pr'[W], s)

LEMMA TheWriter ==
  ASSUME OneWriter
  PROVE  W \in Procs /\ Only(W)
BY DEF OneWriter, W

\* What a shell does, by the command it runs.
LEMMA CommandKept ==
  ASSUME IInv, NEW p \in Procs, Step(p)
  PROVE  \E l : Now(p, l) /\ l.cmd = pr[p].cmd /\ ~At(p, "idle")
<1>1. pr[p] \in Local /\ Idle \in Local
  BY PrFacts, IdleFacts
<1>2. \A r, o : Ended(p, r, o).cmd = pr[p].cmd
  BY <1>1 DEF Ended, Local
<1>3. ASSUME NEW t, Decide(p, t)
      PROVE  \E l : Now(p, l) /\ l.cmd = pr[p].cmd
  <2> DEFINE h == Highest(Holes(t))
             u == Lowest(Named(t, wanted(p)))
             a == [pr[p] EXCEPT !.pc = "writeData", !.tbl = t, !.i = 0]
             b == [a EXCEPT !.slot = h, !.tbl[h] = Descriptor(p)]
             c == [pr[p] EXCEPT !.pc = "readData", !.tbl = t, !.slot = u]
             d == [pr[p] EXCEPT !.pc = "writeTable", !.i = 0, !.tbl = [t EXCEPT ![u] = Hole]]
  <2>1. a.cmd = pr[p].cmd /\ b.cmd = pr[p].cmd /\ c.cmd = pr[p].cmd /\ d.cmd = pr[p].cmd
    BY <1>1 DEF Local
  <2>2. \/ \E r : Now(p, Ended(p, r, NoFile))
        \/ Now(p, a) \/ Now(p, b) \/ Now(p, c) \/ Now(p, d)
    BY <1>3 DEF Decide, DecideTo, DecideFrom, DecideRm, Finish
  <2> HIDE DEF a, b, c, d
  <2> QED
    BY <1>2, <2>1, <2>2
<1> DEFINE i == pr[p].i
           Same(l) == Now(p, l) /\ l.cmd = pr[p].cmd
<1>4. [pr[p] EXCEPT !.i = i+1].cmd = pr[p].cmd
  BY <1>1 DEF Local
<1>5. CASE MkfsZero(p)
  BY <1>2, <1>4, <1>5 DEF MkfsZero, Finish, At
<1>6. CASE Scan(p)
  <2> DEFINE g == [pr[p] EXCEPT !.pc = After(p), !.slot = i,
                                !.tbl = [NoTable EXCEPT ![i] = table[i]]]
  <2>1. g.cmd = pr[p].cmd
    BY <1>1 DEF Local
  <2>2. Now(p, Ended(p, "err", NoFile)) \/ Now(p, g) \/ Now(p, [pr[p] EXCEPT !.i = i+1])
    BY <1>6 DEF Scan, Finish
  <2> HIDE DEF g
  <2> QED
    BY <1>2, <1>4, <1>6, <2>1, <2>2 DEF Scan, At
<1>7. CASE CopyMeta(p)
  <2>1. [pr[p] EXCEPT !.pc = "data"].cmd = pr[p].cmd
    BY <1>1 DEF Local
  <2> QED
    BY <1>7, <2>1 DEF CopyMeta, At
<1>8. CASE CopyData(p) \/ ClearName(p) \/ ReadData(p)
  BY <1>2, <1>8 DEF CopyData, ClearName, ReadData, Finish, At
<1>9. CASE ReadTable(p)
  <2> DEFINE g == [pr[p] EXCEPT !.tbl = Merged(p, i), !.i = i+1]
  <2>1. g.cmd = pr[p].cmd
    BY <1>1 DEF Local
  <2>2. Now(p, g) \/ Decide(p, Merged(p, i))
    BY <1>9 DEF ReadTable
  <2> HIDE DEF g
  <2> QED
    BY <1>3, <1>9, <2>1, <2>2 DEF ReadTable, At
<1>10. CASE WriteData(p)
  <2>1. [pr[p] EXCEPT !.pc = "writeTable"].cmd = pr[p].cmd
    BY <1>1 DEF Local
  <2> QED
    BY <1>10, <2>1 DEF WriteData, At
<1>11. CASE WriteTable(p)
  BY <1>2, <1>4, <1>11 DEF WriteTable, Finish, At
<1> QED
  BY <1>5, <1>6, <1>7, <1>8, <1>9, <1>10, <1>11 DEF Step

\* Beside the writer the volume stays as it is.
LEMMA ReaderStep ==
  ASSUME OneWriter, IInv, Readers, NEW p \in Procs, p # W,
         \/ \E c \in Menu[p] : Start(p, c) \/ Mkfs82(p, c) \/ MkfsStart(p, c)
         \/ Step(p) \/ Crash(p)
  PROVE  /\ UNCHANGED <<table, data, mixed, damaged>> /\ pr'[W] = pr[W]
         /\ \A q \in Procs : q # p => pr'[q] = pr[q]
         /\ pr'[p].pc = "idle" \/ pr'[p].cmd.op = "mycopyFrom"
<1>1. W \in Procs /\ \A c \in Menu[p] : c.op = "mycopyFrom"
  BY TheWriter DEF Only
<1>2. \A l : Now(p, l) => pr'[p] = l /\ \A q \in Procs : q # p => pr'[q] = pr[q]
  BY DEF Now, IInv, TypeOK
<1>3. ASSUME NEW c \in Menu[p], Start(p, c) \/ Mkfs82(p, c) \/ MkfsStart(p, c)
      PROVE  Start(p, c) /\ c.op = "mycopyFrom"
  BY <1>1, <1>3 DEF Mkfs82, MkfsStart
<1>4. ASSUME NEW c \in Menu[p], Start(p, c), c.op = "mycopyFrom"
      PROVE  /\ UNCHANGED <<table, data, mixed, damaged>>
             /\ \E l : Now(p, l) /\ (l.pc = "idle" \/ l.cmd.op = "mycopyFrom")
  <2> DEFINE k == [Idle EXCEPT !.cmd = c]
             g == [k EXCEPT !.pc = IF c.tool = "v1" THEN "readTable" ELSE "scan"]
  <2>1. Now(p, g) /\ UNCHANGED <<volume, damaged>> /\ mixed' = mixed
    BY <1>4, VolumeTypes DEF Start
  <2>2. g.cmd = c
    BY IdleFacts DEF Local
  <2> HIDE DEF g, k
  <2> QED
    BY <1>4, <2>1, <2>2 DEF volume
<1>5. ASSUME ~At(p, "idle"), Step(p)
      PROVE  UNCHANGED <<table, data, mixed, damaged>>
  <2>1. /\ StepOK(pr[p]) /\ op(p) = "mycopyFrom"
    BY <1>5, PrFacts DEF Readers
  <2>2. ~At(p, "zero") /\ ~At(p, "meta") /\ ~At(p, "data") /\ ~At(p, "clear")
        /\ ~At(p, "writeData") /\ ~At(p, "writeTable")
    BY <2>1 DEF StepOK, op, At
  <2>3. Scan(p) \/ ReadTable(p) \/ ReadData(p)
    BY <1>5, <2>2 DEF Step, MkfsZero, CopyMeta, CopyData, ClearName, WriteData, WriteTable
  <2> QED
    BY <2>3 DEF Scan, ReadTable, ReadData, volume, counts
<1>6. CASE Step(p)
  <2>1. PICK l : Now(p, l) /\ l.cmd = pr[p].cmd /\ ~At(p, "idle")
    BY <1>6, CommandKept
  <2>2. pr[p].cmd.op = "mycopyFrom"
    BY <2>1 DEF Readers, op
  <2> QED
    BY <1>1, <1>2, <1>5, <1>6, <2>1, <2>2
<1>7. CASE Crash(p)
  <2>1. ~Overfull(p)
    BY <1>7 DEF Crash, Readers, Overfull
  <2>2. UNCHANGED <<table, data, mixed>> /\ damaged' = damaged /\ Now(p, Idle)
    BY <1>7, <2>1, VolumeTypes DEF Crash, volume
  <2> QED
    BY <1>1, <1>2, <2>2, IdleFacts
<1> QED
  BY <1>1, <1>2, <1>3, <1>4, <1>6, <1>7

\* What a step of the writer does to the other shells.
LEMMA OthersStay ==
  ASSUME OneWriter, IInv, Readers,
         \/ \E c \in Menu[W] : Start(W, c) \/ Mkfs82(W, c) \/ MkfsStart(W, c)
         \/ Step(W) \/ Crash(W)
  PROVE  \A p \in Procs \ {W} : pr'[p] = pr[p] \/ pr'[p] = Idle
<1>1. W \in Procs
  BY TheWriter
<1>2. \A l : Now(W, l) => \A p \in Procs \ {W} : pr'[p] = pr[p]
  BY DEF Now, IInv, TypeOK
<1>3. CASE Step(W)
  BY <1>1, <1>2, <1>3, CommandKept
<1> QED
  BY <1>2, <1>3 DEF Start, Mkfs82, MkfsStart, Crash

LEMMA ReadersNext ==
  ASSUME OneWriter, IInv, Readers, [Next]_vars
  PROVE  Readers'
<1>1. CASE UNCHANGED vars
  BY <1>1 DEF vars, Readers, At, op
<1>2. CASE Next
  <2>1. PICK p \in Procs :
          \/ \E c \in Menu[p] : Start(p, c) \/ Mkfs82(p, c) \/ MkfsStart(p, c)
          \/ Step(p) \/ Crash(p)
    BY <1>2 DEF Next
  <2>2. CASE p = W
    <3>1. \A q \in Procs \ {W} : pr'[q] = pr[q] \/ pr'[q] = Idle
      BY <2>1, <2>2, OthersStay
    <3> QED
      BY <3>1, IdleFacts DEF Readers, At, op
  <2>3. CASE p # W
    <3>1. /\ \A q \in Procs : q # p => pr'[q] = pr[q]
          /\ pr'[p].pc = "idle" \/ pr'[p].cmd.op = "mycopyFrom"
      BY <2>1, <2>3, ReaderStep
    <3> QED
      BY <3>1 DEF Readers, At, op
  <2> QED
    BY <2>2, <2>3
<1> QED
  BY <1>1, <1>2

-----------------------------------------------------------------------------
(* What each step of the writer does to the table.                         *)

LEMMA HandIsNext == HInv' <=> Readers' /\ Hand(table', data', pr'[W])
BY DEF HInv, Hand, Says, Overfilled, Adding, Removing

\* A command that ends has nothing in hand.
LEMMA IdleHand ==
  ASSUME NEW t, NEW d, NEW l, l.pc \in {"idle", "scan", "clear", "readData"}
  PROVE  Hand(t, d, l)
BY DEF Hand, Overfilled, Adding, Removing

\* A step that leaves the volume alone and the table that counts.
LEMMA Quiet ==
  ASSUME UNCHANGED volume, Counting(table', pr'[W]) = Counting(table, pr[W]),
         pr[W].pc # "data", pr'[W].pc # "data"
  PROVE  (\A s \in Slots : Keeps(s)) /\ NamesRight
BY DEF volume, Keeps, Shows, NamesRight

LEMMA WriterFacts ==
  ASSUME OneWriter, IInv
  PROVE  /\ W \in Procs /\ pr[W] \in Local /\ StepOK(pr[W]) /\ pr[W].cmd \in Command
         /\ \A l : Now(W, l) => pr'[W] = l
         /\ Descriptor(W) = Says(pr[W].cmd)
BY TheWriter, PrFacts DEF IInv, TypeOK, Now, Descriptor, Says

LEMMA EndedFacts ==
  ASSUME OneWriter, IInv, NEW r, NEW o, Now(W, Ended(W, r, o))
  PROVE  pr'[W].pc = "idle" /\ pr'[W].res = r /\ pr'[W].out = o
<1>1. pr'[W] = Ended(W, r, o)
  BY WriterFacts
<1> QED
  BY <1>1, IdleFacts DEF Ended, Local

LEMMA StartHand ==
  ASSUME OneWriter, IInv, NEW c \in Menu[W], Start(W, c)
  PROVE  /\ Hand(table', data', pr'[W]) /\ (\A s \in Slots : Keeps(s)) /\ NamesRight
         /\ pr'[W].pc # "idle" => pr'[W].cmd = c
<1> DEFINE k == [Idle EXCEPT !.cmd = c]
           e == [k EXCEPT !.res = "err"]
           g == [k EXCEPT !.pc = IF c.tool = "v1" THEN "readTable" ELSE "scan"]
<1>1. pr'[W] = e \/ pr'[W] = g
  BY WriterFacts DEF Start
<1>2. e.pc = "idle" /\ g.pc \in {"readTable", "scan"} /\ g.i = 0 /\ g.cmd = c
  BY IdleFacts DEF Local
<1> HIDE DEF e, g, k
<1>3. pr'[W].pc \in {"idle", "readTable", "scan"} /\ (pr'[W].pc # "idle" => pr'[W].cmd = c)
      /\ (pr'[W].pc = "readTable" => pr'[W].i = 0)
  BY <1>1, <1>2
<1>4. pr[W].pc = "idle" /\ UNCHANGED volume
  BY DEF Start, At
<1>5. \A s \in Slots : ~(BlockOf(s) < 0)
  BY BlockFacts, FlatAssumption
<1>6. Hand(table', data', pr'[W])
  BY <1>3, <1>5 DEF Hand, Overfilled, Adding, Removing
<1>7. Counting(table', pr'[W]) = Counting(table, pr[W])
  BY <1>3, <1>4 DEF Counting, Overfilled, volume
<1> QED
  BY <1>3, <1>4, <1>6, <1>7, Quiet

LEMMA Mkfs82Hand ==
  ASSUME OneWriter, IInv, NEW c \in Menu[W], Mkfs82(W, c)
  PROVE  /\ Hand(table', data', pr'[W]) /\ Empties /\ NamesRight /\ pr'[W].pc = "idle"
<1>1. pr'[W].pc = "idle" /\ table' = NoTable
  <2>1. pr'[W] = [Idle EXCEPT !.cmd = c, !.res = "ok"]
    BY WriterFacts DEF Mkfs82
  <2> QED
    BY <2>1, IdleFacts DEF Local, Mkfs82
<1>2. \A s \in Slots : Counting(table', pr'[W])[s] = Hole
  BY <1>1 DEF Counting, Overfilled, NoTable
<1>3. Hole.name = NoName /\ NoName \notin Names
  BY FlatAssumption DEF Hole
<1> QED
  BY <1>1, <1>2, <1>3, IdleHand DEF Empties, Shows, Used, NamesRight

LEMMA MkfsStartHand ==
  ASSUME OneWriter, IInv, NEW c \in Menu[W], MkfsStart(W, c)
  PROVE  /\ Hand(table', data', pr'[W]) /\ (\A s \in Slots : Keeps(s)) /\ NamesRight
         /\ pr'[W].pc = "zero" /\ pr'[W].cmd = c
<1>1. pr'[W].pc = "zero" /\ pr'[W].i = 0 /\ pr'[W].cmd = c
  <2>1. pr'[W] = [Idle EXCEPT !.pc = "zero", !.cmd = c]
    BY WriterFacts DEF MkfsStart
  <2> QED
    BY <2>1, IdleFacts DEF Local
<1>2. pr[W].pc = "idle" /\ UNCHANGED volume
  BY WriterFacts DEF MkfsStart, At
<1>3. \A s \in Slots : ~(BlockOf(s) < 0)
  BY BlockFacts, FlatAssumption
<1>4. Hand(table', data', pr'[W])
  BY <1>1, <1>3 DEF Hand, Overfilled, Adding, Removing
<1>5. Counting(table', pr'[W]) = Counting(table, pr[W])
  BY <1>1, <1>2 DEF Counting, Overfilled, volume
<1> QED
  BY <1>1, <1>2, <1>4, <1>5, Quiet

LEMMA MkfsZeroHand ==
  ASSUME OneWriter, IInv, HInv, MkfsZero(W)
  PROVE  /\ Hand(table', data', pr'[W]) /\ NamesRight
         /\ \/ pr'[W].pc = "zero" /\ pr'[W].cmd = pr[W].cmd /\ UNCHANGED <<mixed, damaged>>
            \/ pr'[W].pc = "idle" /\ Empties
<1> DEFINE i == pr[W].i
           k == [pr[W] EXCEPT !.i = i+1]
           last == MB + NOFILES - 1
<1>1. /\ pr[W] \in Local /\ pr[W].pc = "zero" /\ i \in 0 .. last
      /\ \A s \in Slots : BlockOf(s) < i => table[s] = Hole
  <2>1. pr[W] \in Local /\ pr[W].pc = "zero" /\ i \in Nat /\ i < MB + NOFILES
    BY WriterFacts, LocalFacts DEF MkfsZero, At, StepOK
  <2> HIDE DEF i
  <2>2. i \in 0 .. last
    BY <2>1, SlotFacts, FlatAssumption
  <2> QED
    BY <2>1, <2>2 DEF HInv, Hand, i
<1>2. /\ table' = [s \in Slots |-> IF BlockOf(s) = i THEN Hole ELSE table[s]]
      /\ data' = [s \in Slots |-> IF MB + s = i THEN NoContent ELSE data[s]]
      /\ \/ i = last /\ Now(W, Ended(W, "ok", NoFile))
         \/ i # last /\ Now(W, k) /\ mixed' = (mixed /\ TRUE) /\ damaged' = (damaged /\ TRUE)
  BY DEF MkfsZero, Finish
<1>3. k.pc = "zero" /\ k.cmd = pr[W].cmd /\ k.i = i+1
  BY <1>1 DEF Local
<1> HIDE DEF i, k
<1>4. \/ i = last /\ pr'[W].pc = "idle"
      \/ i # last /\ pr'[W] = k /\ UNCHANGED <<mixed, damaged>>
  BY <1>2, WriterFacts, EndedFacts, VolumeTypes
<1>5. \A s \in Slots : BlockOf(s) <= i => table'[s] = Hole
  BY <1>1, <1>2, BlockFacts, FlatAssumption
<1>6. \A s \in Slots : table'[s] = Hole \/ (table'[s] = table[s] /\ data'[s] = data[s])
  <2> TAKE s \in Slots
  <2>1. CASE BlockOf(s) <= i
    BY <1>5, <2>1
  <2>2. CASE ~(BlockOf(s) <= i)
    <3>1. BlockOf(s) \in 0 .. MB-1 /\ s \in Nat
      BY BlockFacts, SlotFacts DEF Slots
    <3>2. BlockOf(s) # i /\ MB + s # i
      BY <1>1, <2>2, <3>1, SlotFacts, FlatAssumption
    <3> QED
      BY <1>2, <3>2
  <2> QED
    BY <2>1, <2>2
<1>7. pr'[W].pc \in {"idle", "zero"}
  BY <1>1, <1>3, <1>4
<1>8. Counting(table', pr'[W]) = table' /\ Counting(table, pr[W]) = table
  BY <1>1, <1>7 DEF Counting, Overfilled
<1>9. Hole.name = NoName /\ NoName \notin Names
  BY FlatAssumption DEF Hole
<1>10. NamesRight
  BY <1>6, <1>8, <1>9 DEF NamesRight
<1>11. ASSUME i = last
       PROVE  Empties
  <2>1. \A s \in Slots : BlockOf(s) <= i
    BY <1>11, BlockFacts, SlotFacts, FlatAssumption
  <2> QED
    BY <1>5, <1>8, <1>9, <2>1 DEF Empties, Shows, Used
<1>12. Hand(table', data', pr'[W])
  <2>1. CASE pr'[W].pc = "idle"
    BY <2>1, IdleHand
  <2>2. CASE pr'[W] = k
    <3>1. \A s \in Slots : BlockOf(s) < i+1 => table'[s] = Hole
      BY <1>1, <1>5, BlockFacts, SlotFacts, FlatAssumption
    <3> QED
      BY <1>3, <2>2, <3>1 DEF Hand, Overfilled, Adding, Removing
  <2> QED
    BY <1>4, <2>1, <2>2
<1> QED
  BY <1>3, <1>4, <1>10, <1>11, <1>12

LEMMA ScanHand ==
  ASSUME OneWriter, IInv, Scan(W)
  PROVE  Hand(table', data', pr'[W]) /\ (\A s \in Slots : Keeps(s)) /\ NamesRight
<1> DEFINE i == pr[W].i
           k == [pr[W] EXCEPT !.i = i+1]
           g == [pr[W] EXCEPT !.pc = After(W), !.slot = i,
                              !.tbl = [NoTable EXCEPT ![i] = table[i]]]
<1>1. pr[W] \in Local /\ pr[W].pc = "scan" /\ op(W) \in {"mycopyTo", "mycopyFrom", "myrm"}
  <2>1. pr[W].cmd.op # "mymkfs" /\ pr[W].cmd.op \in Ops
    BY WriterFacts, CommandFacts DEF Scan, At, StepOK
  <2> QED
    BY <2>1, WriterFacts DEF Scan, At, Ops, op
<1>2. k.pc = "scan" /\ g.pc = After(W) /\ g.slot = i /\ g.cmd = pr[W].cmd
  BY <1>1 DEF Local
<1>3. \/ pr'[W].pc = "idle"
      \/ pr'[W] = k
      \/ pr'[W] = g /\ Fits(W, table[i])
  BY WriterFacts, EndedFacts DEF Scan, Finish
<1>4. After(W) \in {"meta", "readData", "clear"} /\ (After(W) = "meta" => op(W) = "mycopyTo")
  BY <1>1 DEF After
<1>5. UNCHANGED volume
  BY DEF Scan
<1> HIDE DEF i, k, g
<1>6. Hand(table', data', pr'[W])
  <2>1. CASE pr'[W].pc \in {"idle", "scan", "clear", "readData"}
    BY <2>1, IdleHand
  <2>2. CASE pr'[W] = g /\ Fits(W, table[i]) /\ After(W) = "meta"
    <3>1. ~Used(table'[i])
      BY <1>4, <1>5, <2>2 DEF Fits, volume
    <3> QED
      BY <1>2, <2>2, <3>1 DEF Hand, Overfilled, Adding, Removing
  <2> QED
    BY <1>2, <1>3, <1>4, <2>1, <2>2
<1>7. pr'[W].pc \in {"idle", "scan", "meta", "readData", "clear"}
  BY <1>2, <1>3, <1>4
<1>8. Counting(table', pr'[W]) = Counting(table, pr[W])
  BY <1>1, <1>5, <1>7 DEF Counting, Overfilled, volume
<1> QED
  BY <1>1, <1>5, <1>6, <1>7, <1>8, Quiet

\* The descriptor is written, but what it says is not there yet.
LEMMA CopyMetaHand ==
  ASSUME OneWriter, IInv, HInv, CopyMeta(W)
  PROVE  /\ Hand(table', data', pr'[W]) /\ (\A s \in Slots : Keeps(s))
         /\ tool(W) = "a82" /\ op(W) = "mycopyTo" /\ pr'[W].cmd = pr[W].cmd
<1> DEFINE l == pr[W]
           k == [pr[W] EXCEPT !.pc = "data"]
<1>1. /\ l \in Local /\ l.pc = "meta" /\ tool(W) = "a82" /\ op(W) = "mycopyTo"
      /\ l.slot \in Slots /\ ~Used(table[l.slot])
  BY WriterFacts DEF CopyMeta, At, StepOK, tool, op, HInv, Hand
<1>2. k.pc = "data" /\ k.slot = l.slot /\ k.cmd = l.cmd
  BY <1>1 DEF Local
<1>3. pr'[W] = k /\ table' = [table EXCEPT ![l.slot] = Says(l.cmd)] /\ data' = data
  BY WriterFacts DEF CopyMeta
<1> HIDE DEF k
<1>4. /\ table'[l.slot] = Says(l.cmd)
      /\ \A s \in Slots \ {l.slot} : table'[s] = table[s]
  BY <1>1, <1>3, VolumeTypes
<1>5. Hand(table', data', pr'[W])
  BY <1>2, <1>3, <1>4 DEF Hand, Overfilled, Adding, Removing
<1>6. Counting(table', pr'[W]) = table' /\ Counting(table, pr[W]) = table
  BY <1>1, <1>2, <1>3 DEF Counting, Overfilled
<1>7. \A s \in Slots : Keeps(s)
  BY <1>1, <1>2, <1>3, <1>4, <1>6 DEF Keeps, Shows
<1> QED
  BY <1>1, <1>2, <1>3, <1>5, <1>7

\* Now it is.
LEMMA CopyDataHand ==
  ASSUME OneWriter, IInv, HInv, CopyData(W)
  PROVE  /\ Hand(table', data', pr'[W]) /\ Effect
         /\ tool(W) = "a82" /\ op(W) = "mycopyTo" /\ pr'[W].pc = "idle"
         /\ pr[W].slot \in Slots /\ table'[pr[W].slot] = Says(pr[W].cmd)
         /\ data'[pr[W].slot] = pr[W].cmd.c
<1> DEFINE l == pr[W]
<1>1. /\ l \in Local /\ l.pc = "data" /\ tool(W) = "a82" /\ op(W) = "mycopyTo"
      /\ l.slot \in Slots /\ table[l.slot] = Says(l.cmd)
  BY WriterFacts DEF CopyData, At, StepOK, tool, op, HInv, Hand
<1>2. pr'[W].pc = "idle" /\ table' = table /\ data' = [data EXCEPT ![l.slot] = l.cmd.c]
  BY EndedFacts DEF CopyData, Finish
<1>3. data'[l.slot] = l.cmd.c /\ \A s \in Slots \ {l.slot} : data'[s] = data[s]
  BY <1>1, <1>2, VolumeTypes
<1>4. l.cmd.name \in Names /\ l.cmd.c \in Contents /\ NoName \notin Names
  BY WriterFacts, CommandFacts, FlatAssumption
<1>5. Counting(table', pr'[W]) = table' /\ Counting(table, pr[W]) = table
  BY <1>1, <1>2 DEF Counting, Overfilled
<1>6. Sets(l.slot)
  <2>1. Used(table'[l.slot]) /\ Right(table', data', pr'[W], l.slot)
    BY <1>1, <1>2, <1>3, <1>4, <1>5 DEF Used, Says, Right
  <2> QED
    BY <1>1, <1>2, <1>5, <2>1 DEF Sets, Shows
<1>7. \A s \in Slots \ {l.slot} : Keeps(s)
  BY <1>1, <1>2, <1>3, <1>5 DEF Keeps, Shows
<1> QED
  BY <1>1, <1>2, <1>3, <1>6, <1>7, IdleHand DEF Effect

LEMMA ClearNameHand ==
  ASSUME OneWriter, IInv, HInv, ClearName(W)
  PROVE  /\ Hand(table', data', pr'[W]) /\ Effect
         /\ tool(W) = "a82" /\ op(W) = "myrm" /\ pr'[W].pc = "idle"
<1> DEFINE l == pr[W]
<1>1. /\ l \in Local /\ l.pc = "clear" /\ tool(W) = "a82" /\ op(W) = "myrm"
      /\ l.slot \in Slots
  BY WriterFacts DEF ClearName, At, StepOK, tool, op
<1>2. /\ pr'[W].pc = "idle" /\ data' = data
      /\ table' = [table EXCEPT ![l.slot] = [table[l.slot] EXCEPT !.name = NoName]]
  BY EndedFacts DEF ClearName, Finish
<1>3. table[l.slot] \in Desc
  BY <1>1, VolumeTypes
<1>4. table'[l.slot].name = NoName /\ \A s \in Slots \ {l.slot} : table'[s] = table[s]
  BY <1>1, <1>2, <1>3, VolumeTypes DEF Desc
<1>5. Counting(table', pr'[W]) = table' /\ Counting(table, pr[W]) = table
  BY <1>1, <1>2 DEF Counting, Overfilled
<1>6. Keeps(l.slot) \/ Drops(l.slot)
  BY <1>4, <1>5 DEF Keeps, Drops, Shows, Used
<1>7. \A s \in Slots \ {l.slot} : Keeps(s)
  BY <1>1, <1>2, <1>4, <1>5 DEF Keeps, Shows
<1> QED
  BY <1>1, <1>2, <1>6, <1>7, IdleHand DEF Effect

LEMMA ReadTableHand ==
  ASSUME OneWriter, IInv, HInv, ReadTable(W)
  PROVE  Hand(table', data', pr'[W]) /\ (\A s \in Slots : Keeps(s)) /\ NamesRight
<1> DEFINE l == pr[W]
           i == pr[W].i
           t == Merged(W, i)
           g == [pr[W] EXCEPT !.tbl = t, !.i = i+1]
           h == Highest(Holes(t))
           u == Lowest(Named(t, wanted(W)))
           a == [pr[W] EXCEPT !.pc = "writeData", !.tbl = t, !.i = 0]
           b == [a EXCEPT !.slot = h, !.tbl[h] = Descriptor(W)]
           c == [pr[W] EXCEPT !.pc = "readData", !.tbl = t, !.slot = u]
           d == [pr[W] EXCEPT !.pc = "writeTable", !.i = 0, !.tbl = [t EXCEPT ![u] = Hole]]
<1>1. /\ l \in Local /\ l.pc = "readTable" /\ i \in 0 .. MB-1 /\ l.slot = NoSlot
      /\ t \in [Slots -> Desc] /\ UNCHANGED volume
      /\ \A s \in Slots : BlockOf(s) < i => l.tbl[s] = table[s]
  BY WriterFacts, ReadTableFacts DEF HInv, Hand
<1>2. /\ g.pc = "readTable" /\ g.i = i+1 /\ g.tbl = t
      /\ a.pc = "writeData" /\ a.tbl = t /\ a.slot = NoSlot
      /\ b.pc = "writeData" /\ b.tbl = [t EXCEPT ![h] = Says(l.cmd)] /\ b.slot = h
      /\ b.cmd = l.cmd /\ c.pc = "readData"
      /\ d.pc = "writeTable" /\ d.tbl = [t EXCEPT ![u] = Hole] /\ d.cmd = l.cmd
  BY <1>1, WriterFacts DEF Local
<1>3. \/ i # MB-1 /\ pr'[W] = g
      \/ /\ i = MB-1
         /\ \/ pr'[W].pc = "idle"
            \/ pr'[W] = a
            \/ pr'[W] = b /\ Holes(t) # {}
            \/ pr'[W] = c
            \/ pr'[W] = d /\ op(W) = "myrm" /\ Named(t, wanted(W)) # {}
  BY WriterFacts, EndedFacts DEF ReadTable, Decide, DecideTo, DecideFrom, DecideRm, Finish
<1>4. \A s \in Slots : BlockOf(s) <= i => t[s] = table[s]
  BY <1>1, BlockFacts, FlatAssumption DEF Merged
<1>5. ASSUME i = MB-1
      PROVE  t = table
  <2>1. \A s \in Slots : t[s] = table[s]
    BY <1>4, <1>5, BlockFacts, FlatAssumption
  <2> QED
    BY <1>1, <2>1, VolumeTypes
<1> HIDE DEF t, i, g, a, b, c, d, h, u
<1>6. Hand(table', data', pr'[W]) /\ pr'[W].pc # "data" /\ ~Overfilled(pr'[W])
  <2>1. CASE pr'[W].pc \in {"idle", "readData"}
    BY <2>1, IdleHand DEF Overfilled
  <2>2. CASE pr'[W] = g
    <3>1. \A s \in Slots : BlockOf(s) < i+1 => t[s] = table'[s]
      BY <1>1, <1>4, BlockFacts, FlatAssumption DEF volume
    <3> QED
      BY <1>2, <2>2, <3>1 DEF Hand, Overfilled, Adding, Removing
  <2>3. CASE i = MB-1 /\ pr'[W] = a
    BY <1>1, <1>2, <1>5, <2>3 DEF Hand, Overfilled, Adding, Removing, volume
  <2>4. CASE i = MB-1 /\ pr'[W] = b /\ Holes(t) # {}
    <3>1. h \in Slots /\ ~Used(t[h])
      BY <2>4, Extremes DEF Holes, h
    <3> QED
      BY <1>1, <1>2, <1>5, <2>4, <3>1, SlotFacts DEF Hand, Overfilled, Adding, Removing, volume
  <2>5. CASE i = MB-1 /\ pr'[W] = d /\ op(W) = "myrm" /\ Named(t, wanted(W)) # {}
    <3>1. u \in Slots
      BY <2>5, Extremes DEF Named, u
    <3>2. d.tbl[u] = Hole /\ \A s \in Slots \ {u} : table'[s] = d.tbl[s]
      BY <1>1, <1>2, <1>5, <2>5, <3>1 DEF volume
    <3>3. d.cmd.op = "myrm"
      BY <1>2, <2>5 DEF op
    <3>4. Removing(d) => \E x \in Slots : d.tbl[x] = Hole /\ \A s \in Slots \ {x} : table'[s] = d.tbl[s]
      BY <3>1, <3>2
    <3> QED
      BY <1>2, <2>5, <3>3, <3>4 DEF Hand, Overfilled, Adding
  <2> QED
    BY <1>2, <1>3, <2>1, <2>2, <2>3, <2>4, <2>5
<1>7. Counting(table', pr'[W]) = Counting(table, pr[W])
  BY <1>1, <1>6 DEF Counting, Overfilled, volume
<1> QED
  BY <1>1, <1>6, <1>7, Quiet

LEMMA WriteDataHand ==
  ASSUME OneWriter, IInv, HInv, WriteData(W)
  PROVE  /\ Hand(table', data', pr'[W]) /\ (\A s \in Slots : Keeps(s)) /\ NamesRight
         /\ pr'[W].pc = "writeTable" /\ pr'[W].cmd = pr[W].cmd
<1> DEFINE l == pr[W]
           k == [pr[W] EXCEPT !.pc = "writeTable"]
<1>1. /\ l \in Local /\ l.pc = "writeData" /\ l.cmd.op = "mycopyTo" /\ l.i = 0
      /\ l.tbl \in [Slots -> Desc] /\ l.slot \in 0 .. NOFILES
      /\ l.slot = NoSlot => l.tbl = table
      /\ l.slot # NoSlot => /\ ~Used(table[l.slot])
                            /\ l.tbl = [table EXCEPT ![l.slot] = Says(l.cmd)]
  <2>1. l \in Local /\ l.pc = "writeData" /\ StepOK(l)
    BY WriterFacts DEF WriteData, At
  <2>2. l.cmd.op = "mycopyTo" /\ l.i = 0
    BY <2>1 DEF StepOK
  <2>3. /\ l.slot = NoSlot => l.tbl = table
        /\ l.slot # NoSlot => /\ ~Used(table[l.slot])
                              /\ l.tbl = [table EXCEPT ![l.slot] = Says(l.cmd)]
    BY <2>1 DEF HInv, Hand
  <2> QED
    BY <2>1, <2>2, <2>3, LocalFacts
<1>2. /\ k.pc = "writeTable" /\ k.slot = l.slot /\ k.cmd = l.cmd /\ k.i = 0 /\ k.tbl = l.tbl
  BY <1>1 DEF Local
<1>3. pr'[W] = k
  BY WriterFacts DEF WriteData
<1> HIDE DEF k
<1>4. NoName \notin Names /\ Hole.name = NoName /\ Junk \notin Names
  BY FlatAssumption DEF Hole
<1>5. Counting(table, pr[W]) = table
  BY <1>1 DEF Counting, Overfilled
<1>6. CASE l.slot # NoSlot
  <2>1. l.slot \in Slots
    BY <1>1, <1>6, SlotFacts DEF Slots, NoSlot
  <2>2. table' = table /\ data' = [data EXCEPT ![l.slot] = l.cmd.c]
    BY <1>6 DEF WriteData
  <2>3. data'[l.slot] = l.cmd.c /\ \A s \in Slots \ {l.slot} : data'[s] = data[s]
    BY <2>1, <2>2, VolumeTypes
  <2>4. /\ l.tbl[l.slot] = Says(l.cmd)
        /\ \A s \in Slots \ {l.slot} : table'[s] = l.tbl[s]
    BY <1>1, <1>6, <2>1, <2>2, VolumeTypes
  <2>5. ~(BlockOf(l.slot) < 0)
    BY <2>1, BlockFacts, FlatAssumption
  <2>6. Hand(table', data', pr'[W])
    BY <1>1, <1>2, <1>3, <1>6, <2>2, <2>3, <2>4, <2>5 DEF Hand, Overfilled, Adding, Removing
  <2>7. Counting(table', pr'[W]) = table
    BY <1>2, <1>3, <1>6, <2>2 DEF Counting, Overfilled
  <2>8. \A s \in Slots : Keeps(s)
    BY <1>1, <1>2, <1>3, <1>5, <1>6, <2>3, <2>7 DEF Keeps, Shows
  <2>9. NamesRight
    BY <1>1, <1>4, <1>5, <1>6, <2>3, <2>7 DEF NamesRight, Used
  <2> QED
    BY <1>2, <1>3, <2>6, <2>8, <2>9
<1>7. CASE l.slot = NoSlot
  <2>1. /\ data' = data
        /\ \A s \in Slots : \/ table'[s] = table[s]
                            \/ BlockOf(s) = MB-1 /\ table'[s].name \in {NoName, Junk}
    <3>1. PICK text \in SUBSET {s \in Slots : BlockOf(s) = MB-1} :
                table' = [s \in Slots |-> IF BlockOf(s) # MB-1 THEN table[s]
                                          ELSE IF s \in text THEN [Hole EXCEPT !.name = Junk]
                                          ELSE Hole]
      BY <1>7 DEF WriteData
    <3>2. [Hole EXCEPT !.name = Junk].name = Junk
      BY DEF Hole
    <3> QED
      BY <1>4, <1>7, <3>1, <3>2 DEF WriteData
  <2>2. \A s \in Slots : table'[s] = l.tbl[s] \/ (BlockOf(s) = MB-1 /\ table'[s].name \notin Names)
    BY <1>1, <1>4, <1>7, <2>1
  <2>3. Hand(table', data', pr'[W])
    BY <1>1, <1>2, <1>3, <1>7, <2>2 DEF Hand, Overfilled, Adding, Removing
  <2>4. Counting(table', pr'[W]) = table
    BY <1>1, <1>2, <1>3, <1>7 DEF Counting, Overfilled
  <2> QED
    BY <1>1, <1>2, <1>3, <1>5, <2>1, <2>3, <2>4 DEF Keeps, Shows, NamesRight
<1> QED
  BY <1>6, <1>7

LEMMA WriteTableHand ==
  ASSUME OneWriter, IInv, HInv, WriteTable(W)
  PROVE  /\ Hand(table', data', pr'[W]) /\ Effect /\ NamesRight
         /\ pr'[W].pc = "idle" \/ (pr'[W].pc = "writeTable" /\ pr'[W].cmd = pr[W].cmd)
         /\ Adding(pr[W]) /\ pr'[W].pc = "idle" =>
              /\ pr[W].slot \in Slots /\ table'[pr[W].slot] = Says(pr[W].cmd)
              /\ data'[pr[W].slot] = pr[W].cmd.c
<1> DEFINE l == pr[W]
           i == pr[W].i
           k == [pr[W] EXCEPT !.i = i+1]
<1>1. /\ l \in Local /\ l.pc = "writeTable" /\ i \in 0 .. MB-1 /\ l.slot \in 0 .. NOFILES
      /\ l.tbl \in [Slots -> Desc] /\ l.cmd.op \in {"mycopyTo", "myrm"}
      /\ l.cmd.name \in Names /\ l.cmd.c \in Contents
  <2>1. l \in Local /\ l.pc = "writeTable" /\ StepOK(l)
    BY WriterFacts DEF WriteTable, At
  <2>2. i \in Nat /\ i < MB /\ l.cmd.op \in {"mycopyTo", "myrm"}
    BY <2>1, LocalFacts DEF StepOK
  <2> HIDE DEF i
  <2>3. i \in 0 .. MB-1
    BY <2>2, FlatAssumption
  <2> QED
    BY <2>1, <2>2, <2>3, LocalFacts, WriterFacts, CommandFacts
<1>2. k.pc = "writeTable" /\ k.slot = l.slot /\ k.cmd = l.cmd /\ k.i = i+1 /\ k.tbl = l.tbl
  BY <1>1 DEF Local
<1>3. /\ table' = [s \in Slots |-> IF BlockOf(s) = i THEN l.tbl[s] ELSE table[s]]
      /\ data' = data
  BY DEF WriteTable
<1>4. \/ i = MB-1 /\ pr'[W].pc = "idle"
      \/ i # MB-1 /\ pr'[W] = k
  BY WriterFacts, EndedFacts DEF WriteTable, Finish
<1>5. NoName \notin Names /\ Hole.name = NoName
  BY FlatAssumption DEF Hole
<1>6. pr'[W].pc = "idle" => Hand(table', data', pr'[W])
  BY IdleHand
<1> HIDE DEF i, k
<1>7. CASE Adding(l)
  <2> DEFINE s == l.slot
  <2>1. s \in Slots /\ s # NoSlot /\ l.cmd.op = "mycopyTo"
    BY <1>1, <1>7, SlotFacts DEF Slots, NoSlot, Adding
  <2>2. /\ l.tbl[s] = Says(l.cmd) /\ data[s] = l.cmd.c
        /\ \A x \in Slots \ {s} : table[x] = l.tbl[x]
        /\ BlockOf(s) < i => table[s] = l.tbl[s]
        /\ ~(BlockOf(s) < i) => ~Used(table[s])
    BY <1>7 DEF HInv, Hand, i
  <2> HIDE DEF s
  <2>3. \A x \in Slots \ {s} : table'[x] = table[x] /\ table'[x] = l.tbl[x]
    BY <1>3, <2>2
  <2>4. BlockOf(s) \in 0 .. MB-1
    BY <2>1, BlockFacts
  <2>5. BlockOf(s) < i+1 => table'[s] = l.tbl[s]
    BY <1>1, <1>3, <2>1, <2>2, <2>4, FlatAssumption
  <2>6. ~(BlockOf(s) < i+1) => ~Used(table'[s])
    BY <1>1, <1>3, <2>1, <2>2, <2>4, FlatAssumption
  <2>7. ASSUME pr'[W] = k
        PROVE  Hand(table', data', pr'[W])
    <3>1. ~Overfilled(k) /\ ~Removing(k)
      BY <1>2, <2>1 DEF Overfilled, Removing, s
    <3> QED
      BY <1>2, <1>3, <2>1, <2>2, <2>3, <2>5, <2>6, <2>7, <3>1 DEF Hand, s
  <2>8. i = MB-1 => table'[s] = Says(l.cmd)
    BY <1>1, <2>2, <2>4, <2>5, FlatAssumption
  <2>9. Counting(table, pr[W]) = table /\ Counting(table', pr'[W]) = table'
    BY <1>2, <1>4, <2>1 DEF Counting, Overfilled, s
  <2>10. pr[W].pc # "data" /\ pr'[W].pc # "data"
    BY <1>1, <1>2, <1>4
  <2>11. \A x \in Slots \ {s} : Keeps(x)
    BY <1>3, <2>3, <2>9, <2>10 DEF Keeps, Shows
  <2>12. \/ table'[s] = table[s]
         \/ ~Used(table[s]) /\ table'[s] = Says(l.cmd) /\ data'[s] = l.cmd.c
    BY <1>3, <2>1, <2>2, <2>4, <1>1
  <2>13. Says(l.cmd).name \in Names /\ Says(l.cmd).size = Size[l.cmd.c] /\ Used(Says(l.cmd))
    BY <1>1, <1>5 DEF Says, Used
  <2>14. Keeps(s) \/ Sets(s)
    BY <1>1, <1>3, <2>9, <2>10, <2>12, <2>13 DEF Keeps, Sets, Shows, Right
  <2>15. NamesRight
    BY <1>1, <1>3, <2>3, <2>9, <2>12, <2>13 DEF NamesRight, Right
  <2> QED
    BY <1>2, <1>3, <1>4, <1>6, <2>1, <2>2, <2>7, <2>8, <2>11, <2>14, <2>15 DEF Effect, s
<1>8. CASE Removing(l)
  <2>1. PICK x \in Slots : l.tbl[x] = Hole /\ \A s \in Slots \ {x} : table[s] = l.tbl[s]
    BY <1>8 DEF HInv, Hand
  <2>2. \A s \in Slots \ {x} : table'[s] = table[s] /\ table'[s] = l.tbl[s]
    BY <1>3, <2>1
  <2>3. table'[x] = table[x] \/ table'[x] = Hole
    BY <1>3, <2>1
  <2>4. l.cmd.op = "myrm"
    BY <1>8 DEF Removing
  <2>5. ASSUME pr'[W] = k
        PROVE  Hand(table', data', pr'[W])
    <3>1. ~Overfilled(k) /\ ~Adding(k)
      BY <1>2, <2>4 DEF Overfilled, Adding
    <3>2. k.tbl[x] = Hole /\ \A s \in Slots \ {x} : table'[s] = k.tbl[s]
      BY <1>2, <2>1, <2>2
    <3> QED
      BY <1>2, <2>5, <3>1, <3>2 DEF Hand
  <2>6. Counting(table, pr[W]) = table /\ Counting(table', pr'[W]) = table'
    BY <1>2, <1>4, <2>4 DEF Counting, Overfilled
  <2>7. pr[W].pc # "data" /\ pr'[W].pc # "data"
    BY <1>1, <1>2, <1>4
  <2>8. \A s \in Slots \ {x} : Keeps(s)
    BY <1>3, <2>2, <2>6, <2>7 DEF Keeps, Shows
  <2>9. Keeps(x) \/ Drops(x)
    BY <1>3, <1>5, <2>3, <2>6, <2>7 DEF Keeps, Drops, Shows, Used
  <2>10. NamesRight
    BY <1>3, <1>5, <2>2, <2>3, <2>6 DEF NamesRight
  <2> QED
    BY <1>2, <1>4, <1>6, <2>4, <2>5, <2>8, <2>9, <2>10 DEF Effect, Adding
<1>9. CASE Overfilled(l)
  <2>1. \A s \in Slots : table[s] = l.tbl[s] \/ (BlockOf(s) = MB-1 /\ table[s].name \notin Names)
    BY <1>9 DEF HInv, Hand
  <2>2. \A s \in Slots : table'[s] = l.tbl[s] \/ (BlockOf(s) = MB-1 /\ table'[s].name \notin Names)
    BY <1>3, <2>1
  <2>3. ASSUME i = MB-1
        PROVE  table' = l.tbl
    <3>1. \A s \in Slots : table'[s] = l.tbl[s]
      BY <1>3, <2>1, <2>3
    <3> QED
      BY <1>1, <1>3, <3>1
  <2>4. l.cmd.op = "mycopyTo" /\ l.slot = NoSlot
    BY <1>9 DEF Overfilled
  <2>5. ASSUME pr'[W] = k
        PROVE  Hand(table', data', pr'[W])
    BY <1>2, <2>2, <2>4, <2>5 DEF Hand, Overfilled, Adding, Removing
  <2>6. Counting(table, pr[W]) = l.tbl /\ Counting(table', pr'[W]) = l.tbl
    BY <1>2, <1>4, <1>9, <2>3 DEF Counting, Overfilled
  <2>7. pr[W].pc # "data" /\ pr'[W].pc # "data"
    BY <1>1, <1>2, <1>4
  <2>8. \A s \in Slots : Keeps(s)
    BY <1>3, <2>6, <2>7 DEF Keeps, Shows
  <2>9. \E s \in Slots : TRUE
    BY SlotFacts DEF Slots
  <2> QED
    BY <1>2, <1>3, <1>4, <1>6, <2>4, <2>5, <2>6, <2>8, <2>9 DEF Effect, NamesRight, Adding
<1> QED
  BY <1>1, <1>7, <1>8, <1>9 DEF Adding, Removing, Overfilled

LEMMA ReadDataHand ==
  ASSUME OneWriter, IInv, ReadData(W)
  PROVE  /\ Hand(table', data', pr'[W]) /\ (\A s \in Slots : Keeps(s)) /\ NamesRight
         /\ pr'[W].pc = "idle"
<1>1. pr'[W].pc = "idle" /\ pr[W].pc = "readData" /\ UNCHANGED volume
  BY EndedFacts DEF ReadData, At
<1>2. Counting(table', pr'[W]) = Counting(table, pr[W])
  BY <1>1 DEF Counting, Overfilled, volume
<1> QED
  BY <1>1, <1>2, IdleHand, Quiet

\* A writer that is killed.
LEMMA CrashHand ==
  ASSUME OneWriter, IInv, HInv, Crash(W)
  PROVE  /\ Hand(table', data', pr'[W]) /\ NamesRight /\ pr'[W].pc = "idle"
         /\ \/ \A s \in Slots : Keeps(s)
            \/ Overfull(W) /\ damaged' = TRUE
            \/ pr[W].pc = "data" /\ <<"a82", "mycopyTo">> \in Fragile
<1>1. pr'[W].pc = "idle" /\ UNCHANGED volume /\ <<tool(W), op(W)>> \in Fragile
  BY WriterFacts, IdleFacts DEF Crash
<1>2. CASE Overfilled(pr[W])
  <2>1. Overfull(W) /\ damaged' = TRUE
    BY <1>2 DEF Crash, Overfilled, Overfull, At, op
  <2>2. \A s \in Slots : table[s] = pr[W].tbl[s] \/ table[s].name \notin Names
    BY <1>2 DEF HInv, Hand
  <2>3. Counting(table', pr'[W]) = table /\ Counting(table, pr[W]) = pr[W].tbl
    BY <1>1, <1>2 DEF Counting, Overfilled, volume
  <2>4. NamesRight
    BY <1>1, <2>2, <2>3 DEF NamesRight, volume
  <2> QED
    BY <1>1, <2>1, <2>4, IdleHand
<1>3. CASE ~Overfilled(pr[W])
  <2>1. Counting(table', pr'[W]) = Counting(table, pr[W])
    BY <1>1, <1>3 DEF Counting, Overfilled, volume
  <2>2. NamesRight
    BY <1>1, <2>1 DEF NamesRight, volume
  <2>3. CASE pr[W].pc # "data"
    BY <1>1, <2>1, <2>3, IdleHand, Quiet
  <2>4. CASE pr[W].pc = "data"
    <3>1. tool(W) = "a82" /\ op(W) = "mycopyTo"
      BY <2>4, WriterFacts DEF StepOK, tool, op
    <3> QED
      BY <1>1, <2>2, <2>4, <3>1, IdleHand
  <2> QED
    BY <2>3, <2>4
<1> QED
  BY <1>2, <1>3

-----------------------------------------------------------------------------
(* The writer's hand is invariant.                                         *)

LEMMA HandNext ==
  ASSUME OneWriter, IInv, HInv, [Next]_vars
  PROVE  HInv'
<1>1. Readers'
  BY ReadersNext DEF HInv
<1>2. Hand(table', data', pr'[W])
  <2>1. CASE UNCHANGED vars
    BY <2>1 DEF vars, HInv
  <2>2. CASE Next
    <3>1. PICK p \in Procs :
            \/ \E c \in Menu[p] : Start(p, c) \/ Mkfs82(p, c) \/ MkfsStart(p, c)
            \/ Step(p) \/ Crash(p)
      BY <2>2 DEF Next
    <3>2. CASE p # W
      <4>1. UNCHANGED <<table, data>> /\ pr'[W] = pr[W]
        BY <3>1, <3>2, ReaderStep DEF HInv
      <4> QED
        BY <4>1 DEF HInv
    <3>3. CASE p = W /\ \E c \in Menu[p] : Start(p, c) \/ Mkfs82(p, c) \/ MkfsStart(p, c)
      BY <3>3, StartHand, Mkfs82Hand, MkfsStartHand
    <3>4. CASE p = W /\ Step(p)
      BY <3>4, MkfsZeroHand, ScanHand, CopyMetaHand, CopyDataHand, ClearNameHand,
         ReadTableHand, WriteDataHand, WriteTableHand, ReadDataHand DEF Step
    <3>5. CASE p = W /\ Crash(p)
      BY <3>5, CrashHand
    <3> QED
      BY <3>1, <3>2, <3>3, <3>4, <3>5
  <2> QED
    BY <2>1, <2>2
<1> QED
  BY <1>1, <1>2, HandIsNext

LEMMA HandInit ==
  ASSUME OneWriter, Init
  PROVE  HInv
<1>1. pr[W] = Idle /\ \A p \in Procs : At(p, "idle")
  BY TheWriter, IdleFacts DEF Init, At
<1> QED
  BY <1>1, IdleFacts, IdleHand DEF HInv, Readers

LEMMA HInvAlways ==
  ASSUME OneWriter
  PROVE  Spec => []HInv
<1>1. Init => HInv
  BY HandInit
<1>2. IInv /\ HInv /\ [Next]_vars => HInv'
  BY HandNext
<1> QED
  BY <1>1, <1>2, IInvAlways, PTL DEF Spec

-----------------------------------------------------------------------------
(* What is copied in is stored.                                            *)

\* A command that ends with "ok" ends in the step of its own that does it.
LEMMA EndsBy ==
  ASSUME IInv, Next, NEW p \in Procs, ~At(p, "idle"), pr'[p].pc = "idle", pr'[p].res = "ok"
  PROVE  MkfsZero(p) \/ CopyData(p) \/ ClearName(p) \/ WriteTable(p) \/ ReadData(p)
<1>1. PICK q \in Procs :
        \/ \E c \in Menu[q] : Start(q, c) \/ Mkfs82(q, c) \/ MkfsStart(q, c)
        \/ Step(q) \/ Crash(q)
  BY DEF Next
<1>2. \A l : Now(q, l) => pr'[q] = l /\ (q # p => pr'[p] = pr[p])
  BY DEF Now, IInv, TypeOK
<1>3. pr[p].pc # "idle" /\ pr'[p] # pr[p]
  BY DEF At
<1>4. CASE q # p
  <2>1. ~Step(q)
    BY <1>2, <1>3, <1>4, CommandKept
  <2> QED
    BY <1>1, <1>2, <1>3, <1>4, <2>1 DEF Start, Mkfs82, MkfsStart, Crash
<1>5. CASE q = p
  <2>1. ~(\E c \in Menu[q] : Start(q, c) \/ Mkfs82(q, c) \/ MkfsStart(q, c))
    BY <1>5 DEF Start, Mkfs82, MkfsStart
  <2>2. ~Crash(q)
    BY <1>2, <1>5, IdleFacts DEF Crash
  <2>3. Step(p)
    BY <1>1, <1>5, <2>1, <2>2
  <2>4. pr[p] \in Local
    BY PrFacts
  <2>5. \A r : Ended(p, r, NoFile).res = r
    BY IdleFacts DEF Ended, Local
  <2>6. ~CopyMeta(p) /\ ~WriteData(p)
    <3>1. [pr[p] EXCEPT !.pc = "data"].pc = "data"
          /\ [pr[p] EXCEPT !.pc = "writeTable"].pc = "writeTable"
      BY <2>4 DEF Local
    <3> QED
      BY <1>2, <1>5, <3>1 DEF CopyMeta, WriteData
  <2> DEFINE i == pr[p].i
  <2>7. ~Scan(p)
    <3> SUFFICES ASSUME Scan(p)
                 PROVE  FALSE
      OBVIOUS
    <3> DEFINE k == [pr[p] EXCEPT !.i = i+1]
               g == [pr[p] EXCEPT !.pc = After(p), !.slot = i,
                                  !.tbl = [NoTable EXCEPT ![i] = table[i]]]
    <3>1. k.pc = pr[p].pc /\ g.pc = After(p)
      BY <2>4 DEF Local
    <3>2. op(p) # "mymkfs" /\ op(p) \in Ops
      BY PrFacts, CommandFacts DEF Scan, At, StepOK, op
    <3>3. After(p) # "idle"
      BY <3>2 DEF After, Ops
    <3>4. Now(p, Ended(p, "err", NoFile)) \/ Now(p, k) \/ Now(p, g)
      BY DEF Scan, Finish
    <3> HIDE DEF k, g
    <3> QED
      BY <1>2, <1>3, <1>5, <2>5, <3>1, <3>3, <3>4
  <2>8. ~ReadTable(p)
    <3> SUFFICES ASSUME ReadTable(p)
                 PROVE  FALSE
      OBVIOUS
    <3> DEFINE t == Merged(p, i)
               h == Highest(Holes(t))
               u == Lowest(Named(t, wanted(p)))
               g == [pr[p] EXCEPT !.tbl = t, !.i = i+1]
               a == [pr[p] EXCEPT !.pc = "writeData", !.tbl = t, !.i = 0]
               b == [a EXCEPT !.slot = h, !.tbl[h] = Descriptor(p)]
               c == [pr[p] EXCEPT !.pc = "readData", !.tbl = t, !.slot = u]
               d == [pr[p] EXCEPT !.pc = "writeTable", !.i = 0, !.tbl = [t EXCEPT ![u] = Hole]]
    <3>1. /\ g.pc = pr[p].pc /\ a.pc = "writeData" /\ b.pc = "writeData" /\ c.pc = "readData"
          /\ d.pc = "writeTable"
      BY <2>4 DEF Local
    <3>2. \/ Now(p, Ended(p, "err", NoFile)) \/ Now(p, Ended(p, "segv", NoFile))
          \/ Now(p, g) \/ Now(p, a) \/ Now(p, b) \/ Now(p, c) \/ Now(p, d)
      BY DEF ReadTable, Decide, DecideTo, DecideFrom, DecideRm, Finish
    <3> HIDE DEF g, a, b, c, d
    <3> QED
      BY <1>2, <1>3, <1>5, <2>5, <3>1, <3>2
  <2> QED
    BY <2>3, <2>6, <2>7, <2>8 DEF Step
<1> QED
  BY <1>4, <1>5

LEMMA StoredStep ==
  ASSUME OneWriter, IInv, HInv, Next, NEW p \in Procs,
         Ends(p, "mycopyTo"), pr[p].slot # NoSlot
  PROVE  Stored(pr[p].cmd.name, pr[p].cmd.c)
<1>1. p = W /\ op(W) = "mycopyTo"
  BY DEF Ends, HInv, Readers
<1>2. StepOK(pr[W])
  BY WriterFacts
<1>3. CopyData(W) \/ WriteTable(W)
  <2>1. MkfsZero(W) \/ CopyData(W) \/ ClearName(W) \/ WriteTable(W) \/ ReadData(W)
    BY <1>1, EndsBy DEF Ends
  <2> QED
    BY <1>1, <1>2, <2>1 DEF MkfsZero, ClearName, ReadData, At, StepOK, op
<1> DEFINE s == pr[W].slot
<1>4. s \in Slots /\ table'[s] = Says(pr[W].cmd) /\ data'[s] = pr[W].cmd.c
  <2>1. CASE CopyData(W)
    BY <2>1, CopyDataHand
  <2>2. CASE WriteTable(W)
    <3>1. Adding(pr[W])
      BY <1>1, <2>2 DEF Adding, WriteTable, At, op
    <3> QED
      BY <1>1, <2>2, <3>1, WriteTableHand DEF Ends
  <2> QED
    BY <1>3, <2>1, <2>2
<1>5. table'[s].name = pr[W].cmd.name /\ table'[s].size = Size[pr[W].cmd.c]
  BY <1>4 DEF Says
<1> QED
  BY <1>1, <1>4, <1>5 DEF Stored, Whole

\* When a mycopyTo that found a hole, or mycopy_to, reports success, an entry of
\* that name is there and its block holds the file, if only one shell writes.
THEOREM CopiedIsStored ==
  ASSUME OneWriter
  PROVE  Spec => CopyWithRoomIsStored
<1>1. IInv /\ HInv /\ [Next]_vars =>
        [\A p \in Procs : Ends(p, "mycopyTo") /\ pr[p].slot # NoSlot
                            => Stored(pr[p].cmd.name, pr[p].cmd.c)]_vars
  BY StoredStep
<1> QED
  BY <1>1, IInvAlways, HInvAlways, PTL DEF Spec, CopyWithRoomIsStored

-----------------------------------------------------------------------------
(* Readers get whole files.                                                *)

\* While only myfsv1.c has written since the last format, every name in the table
\* has its file: the data block is written before the descriptor is.
Sound ==
  ~mixed =>
    /\ ~At(W, "idle") /\ op(W) # "mycopyFrom" => tool(W) # "a82"
    /\ \A s \in Slots : Counting(table, pr[W])[s].name \in Names
                          => Right(table, data, pr[W], s)

LEMMA SoundIsNext ==
  Sound' <=> (~mixed' =>
    /\ pr'[W].pc # "idle" /\ pr'[W].cmd.op # "mycopyFrom" => pr'[W].cmd.tool # "a82"
    /\ \A s \in Slots : Counting(table', pr'[W])[s].name \in Names
                          => Right(table', data', pr'[W], s))
BY DEF Sound, Counting, Overfilled, Right, At, op, tool

\* An emptied table names nothing.
LEMMA NothingNamed ==
  ASSUME Empties, pr'[W].pc = "idle"
  PROVE  \A s \in Slots : Counting(table', pr'[W])[s].name \notin Names
<1>1. NoName \notin Names
  BY FlatAssumption
<1> QED
  BY <1>1 DEF Empties, Shows, Used

LEMMA SoundNext ==
  ASSUME OneWriter, IInv, HInv, Sound, [Next]_vars
  PROVE  Sound'
<1> SUFFICES ASSUME ~mixed'
             PROVE  /\ pr'[W].pc # "idle" /\ pr'[W].cmd.op # "mycopyFrom"
                         => pr'[W].cmd.tool # "a82"
                    /\ \A s \in Slots : Counting(table', pr'[W])[s].name \in Names
                                          => Right(table', data', pr'[W], s)
  BY SoundIsNext
<1>1. ASSUME UNCHANGED <<table, data, mixed>>, pr'[W] = pr[W]
      PROVE  /\ pr'[W].pc # "idle" /\ pr'[W].cmd.op # "mycopyFrom"
                  => pr'[W].cmd.tool # "a82"
             /\ \A s \in Slots : Counting(table', pr'[W])[s].name \in Names
                                   => Right(table', data', pr'[W], s)
  BY <1>1 DEF Sound, At, op, tool
<1>2. CASE UNCHANGED vars
  BY <1>1, <1>2 DEF vars
<1>3. CASE Next
  <2>1. PICK p \in Procs :
          \/ \E c \in Menu[p] : Start(p, c) \/ Mkfs82(p, c) \/ MkfsStart(p, c)
          \/ Step(p) \/ Crash(p)
    BY <1>3 DEF Next
  <2>2. CASE p # W
    <3>1. UNCHANGED <<table, data, mixed>> /\ pr'[W] = pr[W]
      BY <2>1, <2>2, ReaderStep DEF HInv
    <3> QED
      BY <1>1, <3>1
  <2>3. ASSUME NamesRight, ~mixed
        PROVE  \A s \in Slots : Counting(table', pr'[W])[s].name \in Names
                                  => Right(table', data', pr'[W], s)
    BY <2>3 DEF NamesRight, Sound, Right
  <2>4. CASE \E c \in Menu[W] : Start(W, c)
    <3>1. PICK c \in Menu[W] : Start(W, c)
      BY <2>4
    <3>2. ~mixed /\ ~(c.tool = "a82" /\ c.op # "mycopyFrom")
      BY <3>1 DEF Start
    <3>3. NamesRight /\ (pr'[W].pc # "idle" => pr'[W].cmd = c)
      BY <3>1, StartHand
    <3> QED
      BY <2>3, <3>2, <3>3
  <2>5. CASE \E c \in Menu[W] : Mkfs82(W, c)
    <3>1. Empties /\ pr'[W].pc = "idle"
      BY <2>5, Mkfs82Hand
    <3> QED
      BY <3>1, NothingNamed
  <2>6. CASE \E c \in Menu[W] : MkfsStart(W, c)
    <3>1. PICK c \in Menu[W] : MkfsStart(W, c)
      BY <2>6
    <3>2. NamesRight /\ pr'[W].cmd = c /\ c.tool = "v1" /\ mixed' = mixed
      BY <3>1, MkfsStartHand DEF MkfsStart
    <3> QED
      BY <2>3, <3>2
  <2>7. CASE MkfsZero(W)
    <3>1. NamesRight /\ (\/ pr'[W].cmd = pr[W].cmd /\ mixed' = mixed
                         \/ pr'[W].pc = "idle" /\ Empties)
      BY <2>7, MkfsZeroHand DEF HInv
    <3>2. pr[W].cmd.tool = "v1"
      BY <2>7, WriterFacts DEF MkfsZero, At, StepOK
    <3> QED
      BY <2>3, <3>1, <3>2, NothingNamed
  <2>8. CASE CopyMeta(W) \/ CopyData(W) \/ ClearName(W)
    <3>1. mixed' = mixed
      BY <2>8 DEF CopyMeta, CopyData, ClearName, counts
    <3>2. tool(W) = "a82" /\ op(W) \in {"mycopyTo", "myrm"} /\ ~At(W, "idle")
      BY <2>8, WriterFacts DEF CopyMeta, CopyData, ClearName, At, StepOK, tool, op
    <3> QED
      BY <3>1, <3>2 DEF Sound
  <2>9. CASE Scan(W) \/ ReadTable(W) \/ WriteData(W) \/ WriteTable(W) \/ ReadData(W)
    <3>1. NamesRight
      BY <2>9, ScanHand, ReadTableHand, WriteDataHand, WriteTableHand, ReadDataHand
    <3>2. mixed' = mixed
      BY <2>9 DEF Scan, ReadTable, WriteData, WriteTable, ReadData, counts
    <3>3. pr'[W].cmd = pr[W].cmd /\ ~At(W, "idle")
      <4>1. Step(W)
        BY <2>9 DEF Step
      <4> QED
        BY <4>1, WriterFacts, CommandKept
    <3> QED
      BY <2>3, <3>1, <3>2, <3>3 DEF Sound, op, tool
  <2>10. CASE Crash(W)
    <3>1. NamesRight /\ pr'[W].pc = "idle" /\ mixed' = mixed
      BY <2>10, CrashHand DEF Crash
    <3> QED
      BY <2>3, <3>1
  <2> QED
    BY <2>1, <2>2, <2>4, <2>5, <2>6, <2>7, <2>8, <2>9, <2>10 DEF Step
<1> QED
  BY <1>2, <1>3

LEMMA SoundInit ==
  ASSUME OneWriter, Init
  PROVE  Sound
<1>1. pr[W] = Idle
  BY TheWriter DEF Init
<1>2. \A s \in Slots : Counting(table, pr[W])[s].name = NoName
  BY <1>1, IdleFacts DEF Init, Counting, Overfilled, NoTable, Hole
<1> QED
  BY <1>1, <1>2, IdleFacts, FlatAssumption DEF Sound, At

LEMMA SoundAlways ==
  ASSUME OneWriter
  PROVE  Spec => []Sound
<1>1. Init => Sound
  BY SoundInit
<1>2. IInv /\ HInv /\ Sound /\ [Next]_vars => Sound'
  BY SoundNext
<1> QED
  BY <1>1, <1>2, IInvAlways, HInvAlways, PTL DEF Spec

LEMMA WholeStep ==
  ASSUME OneWriter, IInv, HInv, Sound, Next, NEW p \in Procs, Ends(p, "mycopyFrom"), ~mixed,
         pr[p].slot \in Slots, table[pr[p].slot] = pr[p].tbl[pr[p].slot]
  PROVE  data[pr[p].slot] \in Contents /\ pr'[p].out = Whole(data[pr[p].slot])
<1> DEFINE s == pr[p].slot
<1>1. StepOK(pr[p]) /\ pr[p] \in Local
  BY PrFacts
<1>2. ReadData(p)
  <2>1. MkfsZero(p) \/ CopyData(p) \/ ClearName(p) \/ WriteTable(p) \/ ReadData(p)
    BY EndsBy DEF Ends
  <2> QED
    BY <1>1, <2>1 DEF MkfsZero, CopyData, ClearName, WriteTable, At, StepOK, Ends, op
<1>3. table[s].name \in Names
  BY <1>1, <1>2 DEF ReadData, At, StepOK
<1>4. Counting(table, pr[W])[s] = table[s]
  <2>1. CASE Overfilled(pr[W])
    BY <1>3, <2>1 DEF HInv, Hand, Counting
  <2>2. CASE ~Overfilled(pr[W])
    BY <2>2 DEF Counting
  <2> QED
    BY <2>1, <2>2
<1>5. data[s] \in Contents /\ table[s].size = Size[data[s]]
  BY <1>3, <1>4 DEF Sound, Right
<1>6. pr'[p].out = Prefix(data[s], table[s].size)
  <2> DEFINE o == Prefix(data[s], pr[p].tbl[s].size)
  <2>1. pr'[p] = Ended(p, "ok", o)
    BY <1>2 DEF ReadData, Now, IInv, TypeOK
  <2> HIDE DEF o
  <2>2. Ended(p, "ok", o).out = o
    BY IdleFacts DEF Ended, Local
  <2> QED
    BY <2>1, <2>2 DEF o
<1> QED
  BY <1>5, <1>6 DEF Whole

\* A mycopyFrom of either set, beside one shell that has only used myfsv1.c since
\* the last format, gets one whole file if the descriptor it read is still there
\* when it reads the data block; also when the writer was killed anywhere.
THEOREM ReaderGetsWhole ==
  ASSUME OneWriter
  PROVE  Spec => ReadsWhole
<1>1. IInv /\ HInv /\ Sound /\ [Next]_vars =>
        [\A p \in Procs :
           LET s == pr[p].slot IN
           Ends(p, "mycopyFrom") /\ ~mixed /\ s \in Slots /\ table[s] = pr[p].tbl[s]
             => data[s] \in Contents /\ pr'[p].out = Whole(data[s])]_vars
  BY WholeStep
<1> QED
  BY <1>1, IInvAlways, HInvAlways, SoundAlways, PTL DEF Spec, ReadsWhole

-----------------------------------------------------------------------------
(* The volume implements the abstract file store.                          *)

\* What a user sees of the volume, said of the writer.
Hidden(l) == l.pc = "zero"
ViewFact ==
  /\ Visible = IF Hidden(pr[W]) \/ damaged THEN {}
               ELSE {s \in Slots : Shows(table, pr[W], s)}
  /\ \A s \in Slots : Table[s] = Counting(table, pr[W])[s]

LEMMA ViewIs ==
  ASSUME OneWriter, IInv, HInv
  PROVE  ViewFact
<1>1. W \in Procs
  BY TheWriter
<1>2. \A p \in Procs : p # W => ~At(p, "zero") /\ ~At(p, "data") /\ ~Overfull(p)
  <2> TAKE p \in Procs
  <2> HAVE p # W
  <2>1. At(p, "idle") \/ op(p) = "mycopyFrom"
    BY DEF HInv, Readers
  <2> QED
    BY <2>1, PrFacts DEF At, op, Overfull, StepOK
<1>3. Overfull(W) <=> Overfilled(pr[W])
  BY DEF Overfull, Overfilled, At, op
<1>4. Formatting <=> Hidden(pr[W])
  BY <1>1, <1>2 DEF Formatting, Hidden, At
<1>5. \A s : s \in Pending <=> pr[W].pc = "data" /\ pr[W].slot = s
  BY <1>1, <1>2 DEF Pending, At
<1>6. \A s \in Slots : Table[s] = Counting(table, pr[W])[s]
  <2>1. CASE Overfull(W)
    <3>1. (CHOOSE p \in Procs : Overfull(p)) = W
      BY <1>1, <1>2, <2>1
    <3> QED
      BY <1>1, <1>3, <2>1, <3>1 DEF Table, Counting
  <2>2. CASE ~Overfull(W)
    <3>1. ~\E p \in Procs : Overfull(p)
      BY <1>2, <2>2
    <3> QED
      BY <1>3, <2>2, <3>1 DEF Table, Counting
  <2> QED
    BY <2>1, <2>2
<1>7. \A s \in Slots : s \in {x \in Slots : Used(Table[x])} \ Pending
                         <=> Shows(table, pr[W], s)
  BY <1>5, <1>6 DEF Shows
<1>8. {x \in Slots : Used(Table[x])} \ Pending = {s \in Slots : Shows(table, pr[W], s)}
  BY <1>7
<1> QED
  BY <1>4, <1>6, <1>8 DEF ViewFact, Visible

LEMMA ViewIsNext ==
  ASSUME ViewFact'
  PROVE  /\ Visible' = IF Hidden(pr'[W]) \/ damaged' THEN {}
                       ELSE {s \in Slots : Shows(table', pr'[W], s)}
         /\ \A s \in Slots : Table'[s] = Counting(table', pr'[W])[s]
BY DEF ViewFact, Hidden, Shows, Used, Counting, Overfilled

\* What a step does to what a user sees.
LEMMA NextEffect ==
  ASSUME OneWriter, KillsSpare, IInv, HInv, [Next]_vars
  PROVE  \/ Hidden(pr'[W]) \/ damaged' \/ Empties
         \/ ~Hidden(pr[W]) /\ ~damaged /\ Effect
<1> DEFINE All == \A s \in Slots : Keeps(s)
<1>1. All => Effect
  <2>1. PICK s \in Slots : TRUE
    BY SlotFacts DEF Slots
  <2> QED
    BY <2>1 DEF Effect
<1>2. ASSUME UNCHANGED <<table, data, damaged>>, pr'[W] = pr[W]
      PROVE  All /\ damaged' = damaged /\ Hidden(pr'[W]) = Hidden(pr[W])
  BY <1>2 DEF Keeps
<1>3. CASE UNCHANGED vars
  BY <1>1, <1>2, <1>3 DEF vars
<1>4. CASE Next
  <2>1. PICK p \in Procs :
          \/ \E c \in Menu[p] : Start(p, c) \/ Mkfs82(p, c) \/ MkfsStart(p, c)
          \/ Step(p) \/ Crash(p)
    BY <1>4 DEF Next
  <2>2. CASE p # W
    <3>1. UNCHANGED <<table, data, damaged>> /\ pr'[W] = pr[W]
      BY <2>1, <2>2, ReaderStep DEF HInv
    <3> QED
      BY <1>1, <1>2, <3>1
  <2>3. CASE \E c \in Menu[W] : Start(W, c)
    <3>1. All /\ damaged' = damaged /\ ~Hidden(pr[W])
      BY <2>3, StartHand DEF Start, At, Hidden
    <3> QED
      BY <1>1, <3>1
  <2>4. CASE \E c \in Menu[W] : Mkfs82(W, c)
    BY <2>4, Mkfs82Hand
  <2>5. CASE \E c \in Menu[W] : MkfsStart(W, c)
    BY <2>5, MkfsStartHand DEF Hidden
  <2>6. CASE MkfsZero(W)
    BY <2>6, MkfsZeroHand DEF Hidden
  <2>7. CASE \/ Scan(W) \/ CopyMeta(W) \/ CopyData(W) \/ ClearName(W)
             \/ ReadTable(W) \/ WriteData(W) \/ WriteTable(W) \/ ReadData(W)
    <3>1. All \/ Effect
      BY <2>7, ScanHand, CopyMetaHand, CopyDataHand, ClearNameHand,
         ReadTableHand, WriteDataHand, WriteTableHand, ReadDataHand
    <3>2. damaged' = damaged
      BY <2>7 DEF Scan, CopyMeta, CopyData, ClearName, ReadTable, WriteData, WriteTable,
                  ReadData, counts
    <3>3. ~Hidden(pr[W])
      BY <2>7 DEF Scan, CopyMeta, CopyData, ClearName, ReadTable, WriteData, WriteTable,
                  ReadData, At, Hidden
    <3> QED
      BY <1>1, <3>1, <3>2, <3>3, VolumeTypes
  <2>8. CASE Crash(W)
    <3>1. All \/ damaged'
      BY <2>8, CrashHand DEF KillsSpare
    <3>2. damaged => damaged'
      BY <2>8 DEF Crash
    <3>3. ~Hidden(pr[W])
      <4>1. <<tool(W), op(W)>> \in Fragile
        BY <2>8 DEF Crash
      <4>2. Hidden(pr[W]) => tool(W) = "v1" /\ op(W) = "mymkfs"
        BY WriterFacts DEF StepOK, Hidden, tool, op
      <4> QED
        BY <4>1, <4>2 DEF KillsSpare
    <3> QED
      BY <1>1, <3>1, <3>2, <3>3
  <2> QED
    BY <2>1, <2>2, <2>3, <2>4, <2>5, <2>6, <2>7, <2>8 DEF Step
<1> QED
  BY <1>3, <1>4

LEMMA FlatStep ==
  ASSUME OneWriter, KillsSpare, IInv, HInv, ViewFact, ViewFact', [Next]_vars
  PROVE  [Store!Next]_Entries
<1>1. DOMAIN Entries = Visible /\ DOMAIN Entries' = Visible'
  BY DEF Entries
<1>2. Entries = [s \in Visible |-> Entries[s]] /\ Entries' = [s \in Visible' |-> Entries'[s]]
  BY DEF Entries
<1>3. \A s \in Visible : Entries[s] = [name |-> Table[s].name,
                                       file |-> Prefix(data[s], Table[s].size)]
  BY DEF Entries
<1>4. \A s \in Visible' : Entries'[s] = [name |-> Table'[s].name,
                                         file |-> Prefix(data'[s], Table'[s].size)]
  BY DEF Entries, Prefix
<1>5. Visible' = IF Hidden(pr'[W]) \/ damaged' THEN {}
                 ELSE {s \in Slots : Shows(table', pr'[W], s)}
  BY ViewIsNext
<1>6. Visible = IF Hidden(pr[W]) \/ damaged THEN {}
                ELSE {s \in Slots : Shows(table, pr[W], s)}
  BY DEF ViewFact
<1>7. CASE Visible' = {}
  <2>1. Entries' = [s \in {} |-> {}]
    BY <1>2, <1>7
  <2> QED
    BY <2>1 DEF Store!Next, Store!Format
<1>8. CASE Visible' # {}
  <2>1. ~Hidden(pr'[W]) /\ ~damaged' /\ ~Empties
    BY <1>5, <1>8 DEF Empties
  <2>2. ~Hidden(pr[W]) /\ ~damaged /\ Effect
    BY <2>1, NextEffect
  <2>3. /\ Visible = {s \in Slots : Shows(table, pr[W], s)}
        /\ Visible' = {s \in Slots : Shows(table', pr'[W], s)}
    BY <1>5, <1>6, <2>1, <2>2
  <2>4. ASSUME NEW s \in Visible, Keeps(s)
        PROVE  s \in Visible' /\ Entries'[s] = Entries[s]
    <3>1. /\ s \in Slots /\ s \in Visible' /\ data'[s] = data[s]
          /\ Counting(table', pr'[W])[s] = Counting(table, pr[W])[s]
      BY <2>3, <2>4 DEF Keeps
    <3>2. Table'[s] = Table[s]
      BY <3>1, ViewIsNext DEF ViewFact
    <3> QED
      BY <1>3, <1>4, <3>1, <3>2
  <2>5. ASSUME NEW s \in Slots \ Visible, Keeps(s)
        PROVE  s \notin Visible'
    BY <2>3, <2>5 DEF Keeps
  <2>6. PICK s \in Slots : /\ Keeps(s) \/ Sets(s) \/ Drops(s)
                           /\ \A x \in Slots \ {s} : Keeps(x)
    BY <2>2 DEF Effect
  <2>7. Visible \subseteq Slots /\ Visible' \subseteq Slots
    BY <2>3
  <2>8. \A x \in Visible \ {s} : x \in Visible' /\ Entries'[x] = Entries[x]
    BY <2>4, <2>6, <2>7
  <2>9. \A x \in Visible' \ {s} : x \in Visible
    BY <2>5, <2>6, <2>7
  <2>10. CASE Keeps(s)
    <3>1. Visible' = Visible /\ \A x \in Visible : Entries'[x] = Entries[x]
      BY <2>4, <2>5, <2>6, <2>7, <2>8, <2>9, <2>10
    <3> QED
      BY <1>2, <3>1
  <2>11. CASE Sets(s)
    <3>1. s \notin Visible /\ s \in Visible' /\ Right(table', data', pr'[W], s)
      BY <2>3, <2>11 DEF Sets
    <3>2. Visible' = Visible \cup {s}
      BY <2>8, <2>9, <3>1
    <3>3. /\ Table'[s].name \in Names /\ data'[s] \in Contents
          /\ Table'[s].size = Size[data'[s]]
      BY <3>1, ViewIsNext DEF Right
    <3>4. Entries'[s] \in StoreEntry
      <4> DEFINE e == Entries'[s]
                 c == data'[s]
      <4>1. e = [name |-> Table'[s].name, file |-> Whole(c)] /\ c \in Contents
        BY <1>4, <3>1, <3>3 DEF Whole
      <4>2. Table'[s].name \in Names
        BY <3>3
      <4> HIDE DEF e, c
      <4> QED
        BY <4>1, <4>2 DEF StoreEntry, e
    <3>5. \A x \in Visible : Entries'[x] = Entries[x]
      BY <2>8, <3>1
    <3>6. Store!Create(s)
      BY <1>1, <3>1, <3>2, <3>4, <3>5 DEF Store!Create, Store!Vacant
    <3> QED
      BY <3>6 DEF Store!Next
  <2>12. CASE Drops(s)
    <3>1. s \in Visible /\ s \notin Visible'
      BY <2>3, <2>12 DEF Drops
    <3>2. Visible' = Visible \ {s} /\ \A x \in Visible' : Entries'[x] = Entries[x]
      BY <2>8, <2>9, <3>1
    <3>3. Entries' = [x \in Visible \ {s} |-> Entries[x]]
      BY <1>2, <3>2
    <3>4. Store!Remove(s)
      BY <1>1, <3>1, <3>3 DEF Store!Remove, Store!Vacant
    <3> QED
      BY <3>4 DEF Store!Next
  <2> QED
    BY <2>6, <2>10, <2>11, <2>12
<1> QED
  BY <1>7, <1>8

\* A flat volume on which one shell writes implements the abstract file store: an
\* entry appears with its file, stays as it is, and goes by myrm or a format.
\* A mycopyTo of myfsv1.c that finds no hole writes back the table it has read;
\* one that is killed before that has damaged the volume, which counts as empty.
THEOREM FlatStoreImplemented ==
  ASSUME OneWriter, KillsSpare
  PROVE  Spec => ImplementsStore
<1>1. IInv /\ HInv => ViewFact
  BY ViewIs
<1>2. Spec => []ViewFact
  BY <1>1, IInvAlways, HInvAlways, PTL
<1>3. Init => Store!Init
  <2> SUFFICES ASSUME Init
               PROVE  Store!Init
    OBVIOUS
  <2>1. IInv /\ HInv
    BY InitInv, HandInit
  <2>2. pr[W] = Idle
    BY TheWriter DEF Init
  <2>3. \A s \in Slots : Counting(table, pr[W])[s].name = NoName
    BY <2>2, IdleFacts DEF Init, Counting, Overfilled, NoTable, Hole
  <2>4. \A s \in Slots : ~Shows(table, pr[W], s)
    BY <2>3 DEF Shows, Used
  <2>5. Visible = {}
    BY <2>1, <2>4, ViewIs DEF ViewFact
  <2> QED
    BY <2>5 DEF Store!Init, Entries
<1>4. IInv /\ HInv /\ ViewFact /\ ViewFact' /\ [Next]_vars => [Store!Next]_Entries
  BY FlatStep
<1> QED
  BY <1>2, <1>3, <1>4, IInvAlways, HInvAlways, PTL
  DEF Spec, ImplementsStore, Store!Spec
=============================================================================
