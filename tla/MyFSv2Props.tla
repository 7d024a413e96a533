---------------------------- MODULE MyFSv2Props ----------------------------
(***************************************************************************)
(* What myfsv2 should guarantee, stated over MyFSv2.                       *)
(***************************************************************************)
EXTENDS MyFSv2, FiniteSets

(* Chains.  Position i of the chain that starts at b is i hops away from b; *)
(* a chain that does not end within NB hops is cyclic.                      *)
Data == 1 .. NB-1
Hop(b) == IF b \in Data THEN blk[b].next ELSE 0
Hops(b) == LET h[i \in 0 .. NB] == IF i = 0 THEN b ELSE Hop(h[i-1]) IN h
Chain(b) == {Hops(b)[i] : i \in 0 .. NB} \ {0}
Ends(b)  == Hops(b)[NB] = 0

\* The directory cells that hold an entry a new command would see.
At2(c) == blk[c[1]].ents[c[2]]
Cells == IF formatted THEN {c \in (Chain(1) \cap Data) \X Slots : Used(At2(c))} ELSE {}

\* A removal is settled once its command has found the entry: from then on
\* the blocks may go at any time.
Removing(p) == /\ op(p) \in {"myrm", "myrmdir"}
               /\ pr[p].pc \in {"rmRead", "rmFree", "rmSuper", "clrRead", "clrWrite"}
Doomed == {<<pr[p].at, pr[p].idx>> : p \in {q \in Procs : Removing(q)}}
Live == Cells \ Doomed

Quiet == \A p \in Procs : At(p, "idle")

-----------------------------------------------------------------------------
\* allocate_block and free_block keep the volume in separate chains: the free
\* chain, the directory and the files each end, and no block is in two of
\* them, not even between the writes of a command or after a killed one.
Heads == {sbHead, 1} \cup {At2(c).start : c \in Live}
ChainsApart ==
  formatted =>
    /\ \A h \in Heads : Ends(h)
    /\ Chain(1) \cap Chain(sbHead) = {}
    /\ \A c \in Live : Chain(At2(c).start) \cap (Chain(1) \cup Chain(sbHead)) = {}
    /\ \A c, d \in Live : c # d => Chain(At2(c).start) \cap Chain(At2(d).start) = {}

\* The chain of a file holds as many blocks as its size says, all of them its
\* own chunks in order, as soon as mycopyTo shows its entry.
Content(e) == [i \in 1 .. e.size |-> blk[Hops(e.start)[i-1]].data]
Whole(e) == /\ e.start \in Blocks
            /\ \A b \in Chain(e.start) : b \in Blocks
            /\ Cardinality(Chain(e.start)) = e.size
            /\ \A i \in 1 .. e.size : /\ Content(e)[i].c = Content(e)[1].c
                                      /\ Content(e)[i].k = i
FilesWhole == \A c \in Live : At2(c).type = FILE => Whole(At2(c))

\* When no command was killed and none gave up with blocks in hand, no block
\* is lost: each is free, part of the directory or part of an entry.
NoLeak ==
  (formatted /\ Quiet /\ ~dirty) =>
     Data = Chain(1) \cup (Chain(sbHead) \ {NB})
                     \cup UNION {Chain(At2(c).start) : c \in Cells}

\* mycopyFrom that succeeds wrote every byte of one host file, although
\* mycopyTo commands ran while it read.
ReaderSeesWhole ==
  \A p \in Procs :
    (At(p, "idle") /\ op(p) = "mycopyFrom" /\ pr[p].res = "ok") =>
       LET o == pr[p].out IN
         /\ Len(o) = pr[p].ent.size
         /\ \A i \in 1 .. Len(o) : o[i].k = i /\ o[i].c = o[1].c

\* A command that started ends, whatever it meets on the volume.
EveryCommandEnds == \A p \in Procs : ~At(p, "idle") ~> At(p, "idle")

-----------------------------------------------------------------------------
(* The volume implements FileStore: what a user sees are the live entries.  *)

AbsEntry == [name : Names, type : {FILE, DIR}, content : Seq(Chunk)]
Seen(e) == [name |-> e.name, type |-> e.type, content |-> Content(e)]
AbsDir == [c \in Live |-> Seen(At2(c))]

CellSet == Data \X Slots
Store == INSTANCE FileStore
           WITH Cell <- CellSet,
                Entry <- AbsEntry,
                dir <- AbsDir
\* Seen by its user, every step of a command creates one whole entry, removes
\* one entry and no other, empties the volume, or changes nothing.
ImplementsStore == Store!Spec

\* A removal that reports success has removed what it found, and the blocks of
\* it are free again, if the entry was in the first block of the directory: the
\* code clears the slot of that index there, wherever the entry was.
RmRemoves ==
  [][\A p \in Procs :
       (/\ op(p) \in {"myrm", "myrmdir"} /\ ~At(p, "idle")
        /\ pr'[p].res = "ok" /\ pr[p].at = 1)
         => /\ <<1, pr[p].idx>> \notin Cells'
            /\ pr[p].ent.start \in Chain(sbHead)' \cup {0}]_vars
=============================================================================
