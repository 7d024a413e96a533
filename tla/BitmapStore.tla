----------------------------- MODULE BitmapStore -----------------------------
(***************************************************************************)
(* The block file with a bitmap of Assignment 8.1: solution.c, and its     *)
(* variant never_submit_code.c, which also checks what the blocks hold.    *)
(* Both keep in front of the data a superblock: the number n of blocks,    *)
(* the bitmap ub of the used ones, and the counts ubn and fbn.             *)
(*                                                                         *)
(* Every call opens the file, reads the superblock, writes it back whole   *)
(* and then overwrites one block.  Each read or write of the file is a     *)
(* step: the calls of several processes interleave there, and a process    *)
(* can be killed there.  A block is all ones, all zeroes, a mixture or,    *)
(* while the file is too short, absent.                                    *)
(***************************************************************************)
EXTENDS Integers, FiniteSets

CONSTANTS Procs,      \* processes that use the file
          Cap,        \* blocks the bitmap has room for
          Sizes,      \* numbers of blocks asked of init_File_dd
          MaxCalls,   \* bound on the number of calls
          MaxCrashes  \* bound on the number of processes killed

ASSUME BoundsAssumption == /\ Cap \in Nat
                           /\ Sizes \subseteq Nat
                           /\ MaxCalls \in Nat /\ MaxCrashes \in Nat

Data == 0 .. Cap-1
Numbers(n) == 0 .. n-1                  \* the block numbers of a file of n blocks

Super == [n : Nat, ub : SUBSET Data, ubn : Int, fbn : Int]
NoSuper == [n |-> 0, ub |-> {}, ubn |-> 0, fbn |-> 0]

VARIABLES strict,    \* which program: never_submit_code.c or solution.c
          readable,  \* the file is long enough to read a superblock from
          sb,        \* the superblock on disk
          block,     \* block[b]: what data block b holds on disk
          pr,        \* pr[p]: the call p is making, and its locals
          calls, crashes,
          raced,     \* two calls have overlapped
          held       \* blocks handed out and not freed since

vars == <<strict, readable, sb, block, pr, calls, crashes, raced, held>>
disk == <<readable, sb, block>>
ghosts == <<calls, crashes, raced>>

Calls == {"init_File_dd", "get_freeblock", "free_block", "check_fs"}
Idle == [pc |-> "idle", call |-> "check_fs", arg |-> 0, sb |-> NoSuper, bno |-> 0,
         ret |-> 0]

Init == /\ strict \in BOOLEAN
        /\ readable = FALSE /\ sb = NoSuper
        /\ block = [b \in Data |-> "absent"]
        /\ pr = [p \in Procs |-> Idle]
        /\ calls = 0 /\ crashes = 0 /\ raced = FALSE
        /\ held = {}

At(p, l) == pr[p].pc = l
Now(p, l) == pr' = [pr EXCEPT ![p] = l]
Return(p, r) == Now(p, [pr[p] EXCEPT !.pc = "idle", !.ret = r])

Busy(p) == ~At(p, "idle")

\* A process calls the function c with a number of blocks or a block number.
Call(p, c, a) ==
  /\ At(p, "idle") /\ calls < MaxCalls
  /\ Now(p, [Idle EXCEPT !.pc = IF c = "init_File_dd" THEN "trunc" ELSE "read",
                         !.call = c, !.arg = a])
  /\ calls' = calls + 1
  /\ raced' = (raced \/ \E q \in Procs \ {p} : Busy(q))
  /\ UNCHANGED <<strict, disk, crashes, held>>

-----------------------------------------------------------------------------
(* init_File_dd: the file is cut to nothing, then solution.c grows it and  *)
(* writes the superblock, never_submit_code.c writes the header and then   *)
(* the blocks.                                                             *)

Fresh(n) == [n |-> n, ub |-> {}, ubn |-> 0, fbn |-> n]
Zeroed(n) == [b \in Data |-> IF b < n THEN "zero" ELSE block[b]]
\* One byte is written at the end of the last block; the rest is a hole.
Grown(n) == [b \in Data |-> IF b < n /\ block[b] = "absent" THEN "zero"
                            ELSE IF b = n-1 /\ block[b] = "ones" THEN "mixed"
                            ELSE block[b]]

InitRefuse(p) ==
  /\ At(p, "trunc") /\ strict /\ pr[p].arg > Cap
  /\ Return(p, -1)
  /\ UNCHANGED <<strict, disk, ghosts, held>>

InitTrunc(p) ==
  /\ At(p, "trunc") /\ pr[p].arg <= Cap
  /\ readable' = FALSE /\ sb' = NoSuper
  /\ block' = [b \in Data |-> "absent"]
  /\ held' = {}
  /\ Now(p, [pr[p] EXCEPT !.pc = "grow"])
  /\ UNCHANGED <<strict, ghosts>>

InitGrow(p) ==
  /\ At(p, "grow")
  /\ readable' = TRUE
  /\ IF strict THEN sb' = Fresh(pr[p].arg) /\ UNCHANGED block
     ELSE block' = Grown(pr[p].arg) /\ UNCHANGED sb
  /\ Now(p, [pr[p] EXCEPT !.pc = "finish"])
  /\ UNCHANGED <<strict, ghosts, held>>

InitFinish(p) ==
  /\ At(p, "finish")
  /\ IF strict THEN block' = Zeroed(pr[p].arg) /\ UNCHANGED sb
     ELSE sb' = Fresh(pr[p].arg) /\ UNCHANGED block
  /\ Return(p, 0)
  /\ UNCHANGED <<strict, readable, ghosts, held>>

-----------------------------------------------------------------------------
(* Reading the superblock, and what each call decides from it.             *)

ReadFails(p) ==
  /\ At(p, "read") /\ ~readable
  /\ Return(p, IF pr[p].call = "check_fs" THEN 1
               ELSE IF strict /\ pr[p].call = "free_block" THEN 0 ELSE -1)
  /\ UNCHANGED <<strict, disk, ghosts, held>>

\* get_freeblock: the first clear bit; none is an error.
AnyFree(s) == Numbers(s.n)                       \* mutant: the bits are not tested
Free(s) == {b \in Numbers(s.n) : b \notin s.ub}
IsFirst(b, S) == b \in S /\ \A c \in S : b <= c
Full(s) == Free(s) = {} \/ (strict /\ s.ubn >= s.n)
TakenUncounted(s, b) == [s EXCEPT !.ub = s.ub \cup {b}]     \* mutant
Taken(s, b) == [s EXCEPT !.ub = s.ub \cup {b}, !.ubn = s.ubn + 1, !.fbn = s.fbn - 1]

GetRead(p) ==
  /\ At(p, "read") /\ pr[p].call = "get_freeblock" /\ readable
  /\ \/ Full(sb) /\ Return(p, -1)
     \/ /\ ~Full(sb)
        /\ \E b \in Data :
             /\ IsFirst(b, Free(sb))
             /\ Now(p, [pr[p] EXCEPT !.pc = "super", !.bno = b, !.sb = Taken(sb, b)])
  /\ UNCHANGED <<strict, disk, ghosts, held>>

\* free_block: a block number out of range or already free is left alone.
Released(s, b) == [s EXCEPT !.ub = s.ub \ {b}, !.ubn = s.ubn - 1, !.fbn = s.fbn + 1]

FreeRead(p) ==
  /\ At(p, "read") /\ pr[p].call = "free_block" /\ readable
  /\ LET b == pr[p].arg IN
     IF b \in Numbers(sb.n) /\ b \in sb.ub
     THEN Now(p, [pr[p] EXCEPT !.pc = "super", !.bno = b, !.sb = Released(sb, b)])
     ELSE Return(p, 0)
  /\ UNCHANGED <<strict, disk, ghosts, held>>

\* check_fs: the counts; the variant then reads every block.
CountsMatch(s) == /\ s.ubn + s.fbn = s.n
                  /\ Cardinality(s.ub \cap Numbers(s.n)) = s.ubn

CheckRead(p) ==
  /\ At(p, "read") /\ pr[p].call = "check_fs" /\ readable
  /\ IF ~CountsMatch(sb) THEN Return(p, 1)
     ELSE IF ~strict \/ sb.n = 0 THEN Return(p, 0)
     ELSE Now(p, [pr[p] EXCEPT !.pc = "check", !.bno = 0, !.sb = sb])
  /\ UNCHANGED <<strict, disk, ghosts, held>>

Expected(s, b) == IF b \in s.ub THEN "ones" ELSE "zero"

CheckBlock(p) ==
  /\ At(p, "check")
  /\ LET b == pr[p].bno IN
     IF block[b] # Expected(pr[p].sb, b) THEN Return(p, 1)
     ELSE IF b + 1 = pr[p].sb.n THEN Return(p, 0)
     ELSE Now(p, [pr[p] EXCEPT !.bno = b + 1])
  /\ UNCHANGED <<strict, disk, ghosts, held>>

-----------------------------------------------------------------------------
(* The two writes of get_freeblock and free_block.                         *)

WriteSuper(p) ==
  /\ At(p, "super")
  /\ sb' = pr[p].sb /\ readable' = TRUE
  /\ Now(p, [pr[p] EXCEPT !.pc = "fill"])
  /\ UNCHANGED <<strict, block, ghosts, held>>

\* A write past the end of the file leaves zeroes before it, the superblock
\* included: a fill after another process has cut the file makes it readable.
Put(b, v) == block' = [x \in Data |-> IF x = b THEN v
                                      ELSE IF x < b /\ block[x] = "absent" THEN "zero"
                                      ELSE block[x]]

\* Mutant: the new block is not written.
GetNoFill(p) ==
  /\ At(p, "fill") /\ pr[p].call = "get_freeblock"
  /\ Return(p, pr[p].bno)
  /\ held' = held \cup {pr[p].bno}
  /\ UNCHANGED <<strict, disk, ghosts>>

GetFill(p) ==
  /\ At(p, "fill") /\ pr[p].call = "get_freeblock"
  /\ Put(pr[p].bno, "ones")
  /\ Return(p, pr[p].bno)
  /\ held' = held \cup {pr[p].bno}
  /\ readable' = TRUE
  /\ UNCHANGED <<strict, sb, ghosts>>

\* Mutant: the freed block keeps its bits.
FreeNoFill(p) ==
  /\ At(p, "fill") /\ pr[p].call = "free_block"
  /\ Return(p, 1)
  /\ held' = held \ {pr[p].bno}
  /\ UNCHANGED <<strict, disk, ghosts>>

FreeFill(p) ==
  /\ At(p, "fill") /\ pr[p].call = "free_block"
  /\ Put(pr[p].bno, "zero")
  /\ Return(p, 1)
  /\ held' = held \ {pr[p].bno}
  /\ readable' = TRUE
  /\ UNCHANGED <<strict, sb, ghosts>>

\* The process is killed between two file operations.
Crash(p) ==
  /\ Busy(p) /\ crashes < MaxCrashes
  /\ Now(p, Idle)
  /\ crashes' = crashes + 1
  /\ held' = IF At(p, "fill") /\ pr[p].call = "free_block"
             THEN held \ {pr[p].bno} ELSE held
  /\ UNCHANGED <<strict, disk, calls, raced>>

Step(p) == \/ InitRefuse(p) \/ InitTrunc(p) \/ InitGrow(p) \/ InitFinish(p)
           \/ ReadFails(p) \/ GetRead(p) \/ FreeRead(p) \/ CheckRead(p) \/ CheckBlock(p)
           \/ WriteSuper(p) \/ GetFill(p) \/ FreeFill(p)

\* solution.c does not compare the number of blocks with its bitmap: it is
\* modelled for numbers the bitmap has room for.
Args(c) == CASE c = "init_File_dd" -> {n \in Sizes : strict \/ n <= Cap}
             [] c = "free_block" -> -1 .. Cap
             [] OTHER -> {0}

Next == \E p \in Procs : \/ \E c \in Calls : \E a \in Args(c) : Call(p, c, a)
                         \/ Step(p)
                         \/ Crash(p)

Spec == Init /\ [][Next]_vars

-----------------------------------------------------------------------------
Local == [pc : {"idle", "trunc", "grow", "finish", "read", "super", "fill", "check"},
          call : Calls, arg : Int, sb : Super, bno : Nat, ret : Int]

\* Every variable stays in its type.
TypeOK == /\ strict \in BOOLEAN /\ readable \in BOOLEAN
          /\ sb \in Super
          /\ block \in [Data -> {"absent", "zero", "ones", "mixed"}]
          /\ pr \in [Procs -> Local]
          /\ calls \in 0 .. MaxCalls /\ crashes \in 0 .. MaxCrashes
          /\ raced \in BOOLEAN
          /\ held \subseteq Data

\* The superblock satisfies check_fs at every moment: a get_freeblock or
\* free_block writes bitmap and counts together, so neither processes that
\* overwrite each other's superblock nor a killed one can make them disagree.
SuperSound == CountsMatch(sb)

\* While calls do not overlap, get_freeblock hands out no block that is held,
\* whatever was killed before.
NeverHandedTwice ==
  [][\A p \in Procs :
       (~raced /\ At(p, "fill") /\ pr[p].call = "get_freeblock" /\ pr'[p].pc = "idle"
               /\ crashes' = crashes)
         => pr[p].bno \notin held]_vars

\* While calls do not overlap, each killed call spoils at most one block: no
\* others hold what the bitmap does not say.
Spoilt == {b \in Numbers(sb.n) : block[b] \notin {"absent", Expected(sb, b)}}
OneBlockPerCrash ==
  (~raced /\ \A p \in Procs : At(p, "idle")) => Cardinality(Spoilt) <= crashes

\* check_fs reports an inconsistency only for a file that is too short or, in
\* the variant, when calls overlapped or were killed.
ChecksFailForCause ==
  [][\A p \in Procs :
       (Busy(p) /\ pr[p].call = "check_fs" /\ pr'[p].ret = 1)
         => ~readable \/ (strict /\ (raced \/ crashes > 0))]_vars
=============================================================================
