----------------------------- MODULE SyncProofs -----------------------------
(***************************************************************************)
(* Proofs about what processes and threads share: the semaphores of        *)
(* SemTools, the mutexes of ThreadMutex and the segment of SharedTask, for *)
(* any number of processes, threads and workers. The three components are  *)
(* independent; each has its part below.                                   *)
(*                                                                         *)
(* SemTools, for any menu of command lines, any largest value and any      *)
(* number of processes killed: the types, the mutual exclusion of sem1,    *)
(* and the books that SEM_UNDO keeps.                                      *)
(*                                                                         *)
(* A semaphore that was set to 1 and is only lowered and raised again has  *)
(* its one unit either in its value or in the adjustment of one process,   *)
(* and only the process that has it may be between P and V. Exit, V and a  *)
(* kill all hand it back, and the kernel finds room for it.                *)
(*                                                                         *)
(* Any semaphore, however it is used, has its value and what all processes *)
(* would undo add up to what it was set to. That sum is a fold over the    *)
(* processes: the lemmas on ColSum say what it is and how it changes.      *)
(***************************************************************************)
EXTENDS SemTools, ThreadMutex, SharedTask, FiniteSetTheorems, WellFoundedInduction,
        TLAPS

Pcs == {"idle", "called", "blocked", "init", "fork", "cs", "exit"}
Commands == [op : Ops, i : Nat \cup {All}, v : Int]
Process == [pc : Pcs, cmd : Commands, id : Nat, k : Nat]

\* Every process of sem1 that is not ending holds the set there is.
NoStray == \A q \in Procs : (Cmd(q).op = "sem1" /\ pr[q].pc \notin {"idle", "exit"})
                               => pr[q].id = semid
Free == val[0] = 1 /\ \A q \in Procs : adj[q][0] = 0 /\ ~At(q, "cs")
HeldBy(h) == /\ val[0] = 0 /\ adj[h][0] = 1
             /\ \A q \in Procs : q # h => adj[q][0] = 0 /\ ~At(q, "cs")
OneUnit == semid # 0 /\ NoStray /\ (Free \/ \E h \in Procs : HeldBy(h))

IInv == TypeOK /\ (trusted => OneUnit)

-----------------------------------------------------------------------------
(* The types.                                                              *)

LEMMA Assumptions ==
  /\ SEMVMX \in Nat /\ SEMVMX >= 1 /\ MaxSems \in Nat /\ MaxSems >= 1
  /\ MaxStarts \in Nat /\ MaxKills \in Nat /\ 0 \in Sems /\ 1 \in 1 .. MaxSems
  /\ Menu \subseteq Commands
BY SemAssumption DEF Sems, Commands

LEMMA TypeIs ==
  TypeOK <=> /\ semid \in Nat /\ lastid \in Nat /\ nsems \in 0 .. MaxSems
             /\ semid # 0 => nsems > 0
             /\ val \in [Sems -> 0 .. SEMVMX] /\ adj \in [Procs -> [Sems -> Int]]
             /\ pr \in [Procs -> Process]
             /\ base \in [Sems -> 0 .. SEMVMX] /\ cut \in [Sems -> SUBSET {"low", "high"}]
             /\ trusted \in BOOLEAN
             /\ starts \in 0 .. MaxStarts /\ kills \in 0 .. MaxKills
BY DEF TypeOK, Process, Pcs, Commands

LEMMA TypeKept ==
  ASSUME semid' \in Nat, lastid' \in Nat, nsems' \in 0 .. MaxSems, semid' # 0 => nsems' > 0,
         val' \in [Sems -> 0 .. SEMVMX], adj' \in [Procs -> [Sems -> Int]],
         pr' \in [Procs -> Process],
         base' \in [Sems -> 0 .. SEMVMX], cut' \in [Sems -> SUBSET {"low", "high"}],
         trusted' \in BOOLEAN, starts' \in 0 .. MaxStarts, kills' \in 0 .. MaxKills
  PROVE  TypeOK'
BY DEF TypeOK, Process, Pcs, Commands

\* A process goes to another place of its program.
LEMMA GotoIs ==
  ASSUME pr \in [Procs -> Process], NEW p \in Procs, NEW x \in Pcs, Goto(p, x)
  PROVE  /\ pr' \in [Procs -> Process]
         /\ pr'[p].pc = x /\ pr'[p].cmd = pr[p].cmd /\ pr'[p].id = pr[p].id
         /\ \A q \in Procs : q # p => pr'[q] = pr[q]
BY DEF Goto, Process

LEMMA ShortIsInt ==
  ASSUME NEW n \in Int PROVE Short(n) \in Int
<1> DEFINE w == 2 * (SEMVMX + 1)
<1>1. w \in Nat \ {0}
  BY Assumptions
<1>2. n % w \in Int
  BY <1>1
<1> QED
  BY <1>1, <1>2 DEF Short, UShort

LEMMA DeltaIsInt ==
  ASSUME pr \in [Procs -> Process], NEW p \in Procs
  PROVE  Delta(p) \in Int /\ (Cmd(p).op = "sem1" => Delta(p) = -1)
<1>1. Cmd(p).v \in Int /\ -Cmd(p).v \in Int
  BY DEF Cmd, Process, Commands
<1>2. Short(Cmd(p).v) \in Int /\ Short(-Cmd(p).v) \in Int
  BY <1>1, ShortIsInt
<1>3. -1 \in Int
  OBVIOUS
<1> QED
  BY <1>2, <1>3 DEF Delta

\* A semaphore that a command reaches is one of the model's.
LEMMA ReachedSem ==
  ASSUME TypeOK, NEW p \in Procs, NEW s, Reaches(p, s)
  PROVE  s \in Sems /\ semid # 0
BY Assumptions DEF TypeOK, Reaches, Held, Sems

LEMMA ClampIs ==
  ASSUME NEW n \in Int
  PROVE  Clamp(n) \in 0 .. SEMVMX /\ (n \in 0 .. SEMVMX => Clamp(n) = n)
BY Assumptions DEF Clamp

LEMMA InitInv == Init => IInv
<1> SUFFICES ASSUME Init PROVE IInv
  OBVIOUS
<1>1. Idle \in Process
  BY DEF Idle, Process, Pcs, Commands, Ops
<1>2. TypeOK
  <2>1. 0 \in 0 .. SEMVMX /\ 0 \in Int /\ 0 \in 0 .. MaxSems /\ 0 \in 0 .. MaxStarts
        /\ 0 \in 0 .. MaxKills /\ 0 \in Nat
    BY Assumptions
  <2>2. val \in [Sems -> 0 .. SEMVMX] /\ base \in [Sems -> 0 .. SEMVMX]
    BY <2>1 DEF Init
  <2>3. adj \in [Procs -> [Sems -> Int]]
    BY <2>1 DEF Init
  <2>4. cut \in [Sems -> SUBSET {"low", "high"}] /\ pr \in [Procs -> Process]
    BY <1>1 DEF Init
  <2> QED
    BY <2>1, <2>2, <2>3, <2>4, TypeIs DEF Init
<1> QED
  BY <1>2 DEF Init, IInv

-----------------------------------------------------------------------------
(* What the parts of the actions do.                                       *)

LEMMA NewSetIs ==
  ASSUME TypeOK, NEW n \in 1 .. MaxSems, NewSet(n)
  PROVE  /\ semid' \in Nat /\ lastid' \in Nat /\ nsems' \in 0 .. MaxSems /\ nsems' > 0
         /\ val' \in [Sems -> 0 .. SEMVMX] /\ adj' \in [Procs -> [Sems -> Int]]
         /\ base' \in [Sems -> 0 .. SEMVMX] /\ cut' \in [Sems -> SUBSET {"low", "high"}]
         /\ trusted' = FALSE
<1>1. 0 \in 0 .. SEMVMX /\ 0 \in Int /\ lastid + 1 \in Nat /\ {} \in SUBSET {"low", "high"}
  BY Assumptions DEF TypeOK
<1>2. semid' \in Nat /\ lastid' \in Nat /\ nsems' \in 0 .. MaxSems /\ nsems' > 0 /\ trusted' = FALSE
  BY <1>1 DEF NewSet
<1>3. val' \in [Sems -> 0 .. SEMVMX] /\ base' \in [Sems -> 0 .. SEMVMX]
  BY <1>1 DEF NewSet
<1>4. adj' \in [Procs -> [Sems -> Int]]
  BY <1>1 DEF NewSet
<1>5. cut' \in [Sems -> SUBSET {"low", "high"}]
  BY <1>1 DEF NewSet
<1> QED
  BY <1>2, <1>3, <1>4, <1>5

LEMMA SetValueIs ==
  ASSUME TypeOK, NEW s \in Sems, NEW v \in 0 .. SEMVMX, SetValue(s, v)
  PROVE  /\ UNCHANGED <<semid, lastid, nsems>>
         /\ val' \in [Sems -> 0 .. SEMVMX] /\ adj' \in [Procs -> [Sems -> Int]]
         /\ base' \in [Sems -> 0 .. SEMVMX] /\ cut' \in [Sems -> SUBSET {"low", "high"}]
         /\ trusted' \in BOOLEAN
         /\ (trusted' /\ s = 0) => /\ InCS = {} /\ Strays = {} /\ val'[0] = 1
                                   /\ \A q \in Procs : adj'[q][0] = 0
         /\ s # 0 => /\ trusted' = trusted /\ val'[0] = val[0]
                     /\ \A q \in Procs : adj'[q][0] = adj[q][0]
<1> USE Assumptions
<1>1. UNCHANGED <<semid, lastid, nsems>>
  BY DEF SetValue
<1>2. val' \in [Sems -> 0 .. SEMVMX] /\ val'[s] = v /\ (s # 0 => val'[0] = val[0])
  BY DEF SetValue, TypeOK
<1>3. adj' \in [Procs -> [Sems -> Int]]
  <2>1. \A q \in Procs : [adj[q] EXCEPT ![s] = 0] \in [Sems -> Int]
    BY DEF TypeOK
  <2> QED
    BY <2>1 DEF SetValue
<1>4. \A q \in Procs : adj'[q][s] = 0 /\ (s # 0 => adj'[q][0] = adj[q][0])
  BY DEF SetValue, TypeOK
<1>5. base' \in [Sems -> 0 .. SEMVMX] /\ cut' \in [Sems -> SUBSET {"low", "high"}]
  BY DEF SetValue, TypeOK
<1>6. trusted' = IF s = 0 THEN v = 1 /\ InCS = {} /\ Strays = {} ELSE trusted
  BY DEF SetValue
<1>7. trusted \in BOOLEAN
  BY DEF TypeOK
<1> QED
  BY <1>1, <1>2, <1>3, <1>4, <1>5, <1>6, <1>7

LEMMA ApplyIs ==
  ASSUME TypeOK, NEW p \in Procs, NEW s \in Sems, NEW d \in Int,
         val[s] + d \in 0 .. SEMVMX, Apply(p, s, d)
  PROVE  /\ val' \in [Sems -> 0 .. SEMVMX] /\ adj' \in [Procs -> [Sems -> Int]]
         /\ val'[s] = val[s] + d /\ adj'[p][s] = adj[p][s] - d
         /\ \A t \in Sems : t # s => val'[t] = val[t] /\ \A q \in Procs : adj'[q][t] = adj[q][t]
         /\ \A q \in Procs : q # p => adj'[q] = adj[q]
<1>1. adj[p] \in [Sems -> Int] /\ adj[p][s] - d \in Int
  BY DEF TypeOK
<1>2. [adj[p] EXCEPT ![s] = adj[p][s] - d] \in [Sems -> Int]
  BY <1>1
<1>3. adj' = [adj EXCEPT ![p] = [adj[p] EXCEPT ![s] = adj[p][s] - d]]
  BY DEF Apply, TypeOK
<1>4. /\ adj' \in [Procs -> [Sems -> Int]] /\ adj'[p] = [adj[p] EXCEPT ![s] = adj[p][s] - d]
      /\ \A q \in Procs : q # p => adj'[q] = adj[q]
  BY <1>2, <1>3 DEF TypeOK
<1>5. /\ val' \in [Sems -> 0 .. SEMVMX] /\ val'[s] = val[s] + d
      /\ \A t \in Sems : t # s => val'[t] = val[t]
  BY DEF Apply, TypeOK
<1>6. adj'[p][s] = adj[p][s] - d /\ \A t \in Sems : t # s => adj'[p][t] = adj[p][t]
  BY <1>1, <1>4
<1>7. \A t \in Sems : t # s => \A q \in Procs : adj'[q][t] = adj[q][t]
  BY <1>4, <1>6
<1> QED
  BY <1>4, <1>5, <1>6, <1>7

LEMMA UndoIs ==
  ASSUME TypeOK, NEW p \in Procs, Undo(p)
  PROVE  /\ val' \in [Sems -> 0 .. SEMVMX] /\ adj' \in [Procs -> [Sems -> Int]]
         /\ cut' \in [Sems -> SUBSET {"low", "high"}]
         /\ val'[0] = Clamp(val[0] + adj[p][0]) /\ adj'[p][0] = 0
         /\ \A q \in Procs : q # p => adj'[q] = adj[q]
<1> USE Assumptions
<1>1. \A s \in Sems : val[s] + adj[p][s] \in Int
  BY DEF TypeOK
<1>2. \A s \in Sems : Clamp(val[s] + adj[p][s]) \in 0 .. SEMVMX
  BY <1>1, ClampIs
<1>3. val' \in [Sems -> 0 .. SEMVMX] /\ val'[0] = Clamp(val[0] + adj[p][0])
  BY <1>2 DEF Undo
<1>4. [s \in Sems |-> 0] \in [Sems -> Int]
  OBVIOUS
<1>5. adj' \in [Procs -> [Sems -> Int]] /\ adj'[p] = [s \in Sems |-> 0]
      /\ \A q \in Procs : q # p => adj'[q] = adj[q]
  BY <1>4 DEF Undo, TypeOK
<1>6. cut' \in [Sems -> SUBSET {"low", "high"}]
  BY DEF Undo, TypeOK
<1> QED
  BY <1>3, <1>5, <1>6

LEMMA BeginIs ==
  ASSUME TypeOK, NEW p \in Procs, NEW c \in Commands, NEW st \in Pcs, NEW id \in Nat,
         Begin(p, c, st, id)
  PROVE  /\ pr' \in [Procs -> Process] /\ pr'[p].pc = st /\ pr'[p].id = id
         /\ \A q \in Procs : q # p => pr'[q] = pr[q]
         /\ starts' \in 0 .. MaxStarts /\ kills' = kills
<1>1. [pc |-> st, cmd |-> c, id |-> id, k |-> 0] \in Process
  BY DEF Process
<1>2. pr \in [Procs -> Process]
  BY TypeIs
<1>3. pr' = [pr EXCEPT ![p] = [pc |-> st, cmd |-> c, id |-> id, k |-> 0]]
  BY DEF Begin
<1>4. starts' \in 0 .. MaxStarts /\ kills' = kills
  BY Assumptions DEF Begin, TypeOK
<1> QED
  BY <1>1, <1>2, <1>3, <1>4

\* A step that leaves the semaphore alone and lets nobody in.
LEMMA QuietKeeps ==
  ASSUME trusted => OneUnit, trusted' => trusted, UNCHANGED semid, val'[0] = val[0],
         \A q \in Procs : adj'[q][0] = adj[q][0],
         \A q \in Procs : pr'[q].pc = "cs" => pr[q].pc = "cs",
         NoStray /\ semid # 0 => NoStray'
  PROVE  trusted' => OneUnit'
<1> SUFFICES ASSUME trusted' PROVE OneUnit'
  OBVIOUS
<1>1. semid' # 0 /\ NoStray'
  BY DEF OneUnit
<1>2. CASE Free
  BY <1>1, <1>2 DEF OneUnit, Free, At
<1>3. ASSUME NEW h \in Procs, HeldBy(h) PROVE OneUnit'
  BY <1>1, <1>3 DEF OneUnit, HeldBy, At
<1> QED
  BY <1>2, <1>3 DEF OneUnit

\* A process that goes on inside or out of its program strays no further.
LEMMA GotoStrays ==
  ASSUME TypeOK, NEW p \in Procs, NEW x \in Pcs, Goto(p, x), UNCHANGED semid,
         x = "exit" \/ pr[p].pc \notin {"idle", "exit"}, NoStray
  PROVE  NoStray'
<1>1. pr \in [Procs -> Process]
  BY TypeIs
<1>2. /\ pr'[p].pc = x /\ pr'[p].cmd = pr[p].cmd /\ pr'[p].id = pr[p].id
      /\ \A q \in Procs : q # p => pr'[q] = pr[q]
  BY <1>1, GotoIs
<1> QED
  BY <1>2 DEF NoStray, Cmd

-----------------------------------------------------------------------------
(* One lemma per action.                                                   *)

LEMMA CreateKeeps ==
  ASSUME IInv, NEW p \in Procs, Create(p) PROVE IInv'
<1>1. PICK c \in Menu : /\ Begin(p, c, "exit", 0)
                        /\ IF semid = 0 /\ c.v \in 1 .. MaxSems THEN NewSet(c.v)
                                                                ELSE UNCHANGED <<kernel, history>>
  BY DEF Create
<1>2. c \in Commands /\ "exit" \in Pcs /\ 0 \in Nat
  BY Assumptions DEF Pcs
<1>3. TypeOK
  BY DEF IInv
<1>4. /\ pr' \in [Procs -> Process] /\ pr'[p].pc = "exit" /\ pr'[p].id = 0
      /\ \A q \in Procs : q # p => pr'[q] = pr[q]
      /\ starts' \in 0 .. MaxStarts /\ kills' = kills
  BY <1>1, <1>2, <1>3, BeginIs
<1>5. CASE NewSet(c.v) /\ c.v \in 1 .. MaxSems
  <2>1. TypeOK'
    BY <1>3, <1>4, <1>5, NewSetIs, TypeKept DEF IInv, TypeOK
  <2>2. ~trusted'
    BY <1>5 DEF NewSet
  <2> QED
    BY <2>1, <2>2 DEF IInv
<1>6. CASE UNCHANGED <<kernel, history>>
  <2>1. TypeOK'
    BY <1>3, <1>4, <1>6, TypeKept DEF TypeOK, kernel, history
  <2>2. NoStray => NoStray'
    BY <1>4, <1>6 DEF NoStray, Cmd, kernel
  <2> QED
    BY <2>1, <2>2, <1>4, <1>6, QuietKeeps DEF IInv, kernel, history
<1> QED
  BY <1>1, <1>5, <1>6

LEMMA OpenKeeps ==
  ASSUME IInv, NEW p \in Procs, Open(p) PROVE IInv'
<1>1. PICK c \in Menu : /\ c.op # "sem1"
                        /\ Begin(p, c, IF semid = 0 THEN "exit" ELSE "called", semid)
                        /\ UNCHANGED <<kernel, history>>
  BY DEF Open
<1>2. c \in Commands /\ "exit" \in Pcs /\ "called" \in Pcs
  BY Assumptions DEF Pcs
<1>3. TypeOK /\ semid \in Nat
  BY DEF IInv, TypeOK
<1>4. PICK x \in {"exit", "called"} : Begin(p, c, x, semid)
  BY <1>1
<1>5. /\ pr' \in [Procs -> Process] /\ pr'[p].pc = x /\ pr'[p].id = semid
      /\ \A q \in Procs : q # p => pr'[q] = pr[q]
      /\ starts' \in 0 .. MaxStarts /\ kills' = kills
  BY <1>2, <1>3, <1>4, BeginIs
<1>6. TypeOK'
  BY <1>1, <1>3, <1>5, TypeKept DEF TypeOK, kernel, history
<1>7. NoStray => NoStray'
  BY <1>1, <1>5 DEF NoStray, Cmd, kernel
<1> QED
  BY <1>1, <1>5, <1>6, <1>7, QuietKeeps DEF IInv, kernel, history

LEMMA Sem1OpenKeeps ==
  ASSUME IInv, NEW p \in Procs, Sem1Open(p) PROVE IInv'
<1>1. PICK c \in Menu :
        \/ /\ NewSet(1) /\ Begin(p, c, "init", lastid + 1)
        \/ /\ Begin(p, c, "init", semid) /\ UNCHANGED <<kernel, history>>
  BY DEF Sem1Open
<1>2. c \in Commands /\ "init" \in Pcs
  BY Assumptions DEF Pcs
<1>3. TypeOK /\ semid \in Nat /\ lastid + 1 \in Nat
  BY DEF IInv, TypeOK
<1>4. CASE NewSet(1) /\ Begin(p, c, "init", lastid + 1)
  <2>1. pr' \in [Procs -> Process] /\ starts' \in 0 .. MaxStarts /\ kills' = kills
    BY <1>2, <1>3, <1>4, BeginIs
  <2>2. TypeOK'
    BY <1>3, <1>4, <2>1, Assumptions, NewSetIs, TypeKept DEF IInv, TypeOK
  <2>3. ~trusted'
    BY <1>4 DEF NewSet
  <2> QED
    BY <2>2, <2>3 DEF IInv
<1>5. CASE Begin(p, c, "init", semid) /\ UNCHANGED <<kernel, history>>
  <2>1. /\ pr' \in [Procs -> Process] /\ pr'[p].pc = "init" /\ pr'[p].id = semid
        /\ \A q \in Procs : q # p => pr'[q] = pr[q]
        /\ starts' \in 0 .. MaxStarts /\ kills' = kills
    BY <1>2, <1>3, <1>5, BeginIs
  <2>2. TypeOK'
    BY <1>3, <1>5, <2>1, TypeKept DEF TypeOK, kernel, history
  <2>3. NoStray => NoStray'
    BY <1>5, <2>1 DEF NoStray, Cmd, kernel
  <2> QED
    BY <1>5, <2>1, <2>2, <2>3, QuietKeeps DEF IInv, kernel, history
<1> QED
  BY <1>1, <1>4, <1>5

\* set, and the first step of sem1.
LEMMA SetValueKeeps ==
  ASSUME IInv, NEW p \in Procs, NEW x \in Pcs \ {"cs"}, Goto(p, x), UNCHANGED bounds,
         pr[p].pc \notin {"idle", "exit"},
         NEW s \in Sems, NEW v \in 0 .. SEMVMX, semid # 0, SetValue(s, v)
  PROVE  IInv'
<1>1. TypeOK /\ pr \in [Procs -> Process]
  BY TypeIs DEF IInv
<1>2. /\ pr' \in [Procs -> Process]
      /\ pr'[p].pc = x /\ pr'[p].cmd = pr[p].cmd /\ pr'[p].id = pr[p].id
      /\ \A q \in Procs : q # p => pr'[q] = pr[q]
  BY <1>1, GotoIs
<1>3. /\ UNCHANGED <<semid, lastid, nsems>>
      /\ val' \in [Sems -> 0 .. SEMVMX] /\ adj' \in [Procs -> [Sems -> Int]]
      /\ base' \in [Sems -> 0 .. SEMVMX] /\ cut' \in [Sems -> SUBSET {"low", "high"}]
      /\ trusted' \in BOOLEAN
      /\ (trusted' /\ s = 0) => /\ InCS = {} /\ Strays = {} /\ val'[0] = 1
                                /\ \A q \in Procs : adj'[q][0] = 0
      /\ s # 0 => /\ trusted' = trusted /\ val'[0] = val[0]
                  /\ \A q \in Procs : adj'[q][0] = adj[q][0]
  BY <1>1, SetValueIs
<1>4. TypeOK'
  BY <1>1, <1>2, <1>3, TypeKept DEF TypeOK, bounds
<1>5. CASE s = 0
  <2> SUFFICES ASSUME trusted' PROVE OneUnit'
    BY <1>4 DEF IInv
  <2>1. \A q \in Procs : pr[q].pc # "cs"
    BY <1>3, <1>5 DEF InCS, At
  <2>2. NoStray
    BY <1>3, <1>5 DEF Strays, Held, NoStray
  <2>3. NoStray'
    BY <1>1, <1>2, <1>3, <2>2, GotoStrays
  <2>4. Free'
    BY <1>2, <1>3, <1>5, <2>1 DEF Free, At
  <2> QED
    BY <1>3, <2>3, <2>4 DEF OneUnit
<1>6. CASE s # 0
  <2>1. NoStray => NoStray'
    BY <1>1, <1>3, GotoStrays
  <2>2. \A q \in Procs : pr'[q].pc = "cs" => pr[q].pc = "cs"
    BY <1>2
  <2> QED
    BY <1>3, <1>4, <1>6, <2>1, <2>2, QuietKeeps DEF IInv
<1> QED
  BY <1>5, <1>6

\* A step of p that leaves the kernel alone and does not let p in.
LEMMA StillKeeps ==
  ASSUME IInv, NEW p \in Procs, NEW x \in Pcs \ {"cs"}, Goto(p, x),
         UNCHANGED <<kernel, history, bounds>>, pr[p].pc \notin {"idle", "exit"}
  PROVE  IInv'
<1>1. TypeOK /\ pr \in [Procs -> Process]
  BY TypeIs DEF IInv
<1>2. pr' \in [Procs -> Process] /\ \A q \in Procs : pr'[q].pc = "cs" => pr[q].pc = "cs"
  BY <1>1, GotoIs
<1>3. TypeOK'
  BY <1>1, <1>2, TypeKept DEF TypeOK, kernel, history, bounds
<1>4. NoStray => NoStray'
  BY <1>1, GotoStrays DEF kernel
<1> QED
  BY <1>2, <1>3, <1>4, QuietKeeps DEF IInv, kernel, history

LEMMA SetKeeps ==
  ASSUME IInv, NEW p \in Procs, Set(p) PROVE IInv'
<1>1. Goto(p, "exit") /\ "exit" \in Pcs \ {"cs"} /\ pr[p].pc \notin {"idle", "exit"}
      /\ UNCHANGED bounds
  BY DEF Set, At, Pcs
<1>2. CASE Reaches(p, Cmd(p).i) /\ Cmd(p).v \in 0 .. SEMVMX
  <2>1. Cmd(p).i \in Sems /\ semid # 0
    BY <1>2, ReachedSem DEF IInv
  <2> QED
    BY <1>1, <1>2, <2>1, SetValueKeeps DEF Set
<1>3. CASE UNCHANGED <<kernel, history>>
  BY <1>1, <1>3, StillKeeps
<1> QED
  BY <1>2, <1>3 DEF Set

LEMMA Sem1SetKeeps ==
  ASSUME IInv, NEW p \in Procs, Sem1Set(p) PROVE IInv'
<1>1. pr[p].pc = "init" /\ UNCHANGED bounds /\ "exit" \in Pcs \ {"cs"} /\ "fork" \in Pcs \ {"cs"}
  BY DEF Sem1Set, At, Pcs
<1>2. CASE Held(p) /\ SetValue(0, 1) /\ Goto(p, "fork")
  BY <1>1, <1>2, SetValueKeeps, Assumptions DEF Held
<1>3. CASE Goto(p, "exit") /\ UNCHANGED <<kernel, history>>
  BY <1>1, <1>3, StillKeeps
<1> QED
  BY <1>2, <1>3 DEF Sem1Set

LEMMA RemoveKeeps ==
  ASSUME IInv, NEW p \in Procs, Remove(p) PROVE IInv'
<1>1. Goto(p, "exit") /\ "exit" \in Pcs \ {"cs"} /\ pr[p].pc \notin {"idle", "exit"}
      /\ UNCHANGED <<lastid, nsems, val, adj, base, cut, bounds>>
  BY DEF Remove, At, Pcs
<1>2. CASE semid' = 0 /\ trusted' = FALSE
  <2>1. TypeOK /\ pr \in [Procs -> Process]
    BY TypeIs DEF IInv
  <2>2. pr' \in [Procs -> Process]
    BY <1>1, <2>1, GotoIs
  <2>3. TypeOK'
    BY <1>1, <1>2, <2>1, <2>2, TypeKept DEF TypeOK, bounds
  <2> QED
    BY <1>2, <2>3 DEF IInv
<1>3. CASE UNCHANGED <<semid, trusted>>
  BY <1>1, <1>3, StillKeeps DEF kernel, history
<1> QED
  BY <1>2, <1>3 DEF Remove

LEMMA ReadKeeps ==
  ASSUME IInv, NEW p \in Procs, Read(p) PROVE IInv'
<1>1. /\ pr[p].pc = "called" /\ UNCHANGED <<kernel, history, bounds>>
      /\ pr' = [pr EXCEPT ![p].k = pr[p].k + 1] \/ Goto(p, "exit")
  BY DEF Read, At, Goto
<1>2. CASE Goto(p, "exit")
  BY <1>1, <1>2, StillKeeps DEF Pcs
<1>3. CASE pr' = [pr EXCEPT ![p].k = pr[p].k + 1]
  <2>1. TypeOK /\ pr \in [Procs -> Process]
    BY TypeIs DEF IInv
  <2>2. /\ pr' \in [Procs -> Process]
        /\ \A q \in Procs : pr'[q].pc = pr[q].pc /\ pr'[q].cmd = pr[q].cmd /\ pr'[q].id = pr[q].id
    BY <1>3, <2>1 DEF Process
  <2>3. TypeOK'
    BY <1>1, <2>1, <2>2, TypeKept DEF TypeOK, kernel, history, bounds
  <2>4. NoStray => NoStray'
    BY <1>1, <2>2 DEF NoStray, Cmd, kernel
  <2> QED
    BY <1>1, <2>2, <2>3, <2>4, QuietKeeps DEF IInv, kernel, history
<1> QED
  BY <1>1, <1>2, <1>3

LEMMA SleepKeeps ==
  ASSUME IInv, NEW p \in Procs, Sleep(p) PROVE IInv'
BY StillKeeps DEF Sleep, At, Pcs

\* semop of sem1 cannot fail while the set is there and at most its unit free.
LEMMA SemOpFailsKeeps ==
  ASSUME IInv, NEW p \in Procs, SemOpFails(p) PROVE IInv'
<1>1. TypeOK /\ pr \in [Procs -> Process]
  BY TypeIs DEF IInv
<1>2. /\ pr[p].pc \in {"called", "blocked"} /\ UNCHANGED <<kernel, history, bounds>>
      /\ Goto(p, Returned(p))
      /\ Reaches(p, Sem(p)) => val[Sem(p)] + Delta(p) > SEMVMX
  BY DEF SemOpFails, Calling
<1>3. CASE Cmd(p).op # "sem1"
  BY <1>2, <1>3, StillKeeps DEF Returned, Pcs
<1>4. CASE Cmd(p).op = "sem1"
  <2>1. Delta(p) = -1 /\ Sem(p) = 0 /\ Returned(p) = "cs" /\ "cs" \in Pcs
    BY <1>1, <1>4, DeltaIsInt DEF Sem, Returned, Pcs
  <2>2. ~trusted
    <3> SUFFICES ASSUME trusted PROVE FALSE
      OBVIOUS
    <3>1. semid # 0 /\ pr[p].id = semid
      BY <1>2, <1>4 DEF IInv, OneUnit, NoStray
    <3>2. Reaches(p, 0)
      BY <3>1, <1>1 DEF Reaches, Held, TypeOK
    <3>3. val[0] \in 0 .. SEMVMX
      BY <1>1, Assumptions DEF TypeOK
    <3> QED
      BY <1>2, <2>1, <3>2, <3>3, Assumptions
  <2>3. pr' \in [Procs -> Process]
    BY <1>1, <1>2, <2>1, GotoIs
  <2>4. TypeOK'
    BY <1>1, <1>2, <2>3, TypeKept DEF TypeOK, kernel, history, bounds
  <2> QED
    BY <1>2, <2>2, <2>4 DEF IInv, history
<1> QED
  BY <1>3, <1>4

LEMMA Sem1ForkKeeps ==
  ASSUME IInv, NEW p \in Procs, Sem1Fork(p) PROVE IInv'
<1>1. TypeOK /\ pr \in [Procs -> Process]
  BY TypeIs DEF IInv
<1>a. CASE Goto(p, "exit")
  BY <1>a, StillKeeps DEF Sem1Fork, At, Pcs
<1> SUFFICES ASSUME ~Goto(p, "exit") PROVE IInv'
  BY <1>a
<1>2. PICK q \in Procs :
        /\ pr[q].pc = "idle" /\ pr[p].pc = "fork" /\ UNCHANGED <<kernel, history, bounds>>
        /\ pr' = [pr EXCEPT ![p] = [pr[p] EXCEPT !.pc = "called"],
                            ![q] = [pr[p] EXCEPT !.pc = "called"]]
  BY <1>1 DEF Sem1Fork, At, Process
<1>3. [pr[p] EXCEPT !.pc = "called"] \in Process
      /\ [pr[p] EXCEPT !.pc = "called"].pc = "called"
      /\ [pr[p] EXCEPT !.pc = "called"].cmd = pr[p].cmd
      /\ [pr[p] EXCEPT !.pc = "called"].id = pr[p].id
  BY <1>1 DEF Process, Pcs
<1>4. /\ pr' \in [Procs -> Process]
      /\ \A t \in {p, q} : pr'[t].pc = "called" /\ pr'[t].cmd = pr[p].cmd /\ pr'[t].id = pr[p].id
      /\ \A t \in Procs : t \notin {p, q} => pr'[t] = pr[t]
  BY <1>1, <1>2, <1>3
<1>5. TypeOK'
  BY <1>1, <1>2, <1>4, TypeKept DEF TypeOK, kernel, history, bounds
<1>6. NoStray => NoStray'
  BY <1>2, <1>4 DEF NoStray, Cmd, kernel
<1>7. \A t \in Procs : pr'[t].pc = "cs" => pr[t].pc = "cs"
  BY <1>4
<1> QED
  BY <1>2, <1>5, <1>6, <1>7, QuietKeeps DEF IInv, kernel, history

LEMMA SemOpKeeps ==
  ASSUME IInv, NEW p \in Procs, SemOp(p) PROVE IInv'
<1> DEFINE s == Sem(p)
           d == Delta(p)
<1>1. TypeOK /\ pr \in [Procs -> Process] /\ d \in Int
  BY TypeIs, DeltaIsInt DEF IInv
<1>2. /\ pr[p].pc \in {"called", "blocked"} /\ Reaches(p, s)
      /\ ~WouldBlock(s, d) /\ val[s] + d <= SEMVMX
      /\ Apply(p, s, d) /\ Goto(p, Returned(p)) /\ Returned(p) \in Pcs
      /\ trusted' = (trusted /\ (s = 0 => d <= 0))
      /\ UNCHANGED <<semid, lastid, nsems, base, cut, bounds>>
  BY DEF SemOp, Calling, Returned, Pcs
<1> HIDE DEF s, d
<1>3. s \in Sems /\ val[s] \in 0 .. SEMVMX /\ val[0] \in 0 .. SEMVMX
  BY <1>1, <1>2, ReachedSem, Assumptions DEF TypeOK
<1>4. val[s] + d \in 0 .. SEMVMX /\ (val[s] = 1 /\ d <= 0 => d = -1)
                                 /\ (val[s] = 0 /\ d <= 0 => d = 0)
  BY <1>1, <1>2, <1>3, Assumptions DEF WouldBlock
<1>5. /\ val' \in [Sems -> 0 .. SEMVMX] /\ adj' \in [Procs -> [Sems -> Int]]
      /\ val'[s] = val[s] + d /\ adj'[p][s] = adj[p][s] - d
      /\ \A t \in Sems : t # s => val'[t] = val[t] /\ \A q \in Procs : adj'[q][t] = adj[q][t]
      /\ \A q \in Procs : q # p => adj'[q] = adj[q]
  BY <1>1, <1>2, <1>3, <1>4, ApplyIs
<1>6. /\ pr' \in [Procs -> Process] /\ pr'[p].pc = Returned(p)
      /\ \A q \in Procs : q # p => pr'[q] = pr[q]
  BY <1>1, <1>2, GotoIs
<1>7. TypeOK'
  BY <1>1, <1>2, <1>5, <1>6, TypeKept DEF TypeOK, bounds
<1>8. NoStray => NoStray'
  BY <1>1, <1>2, GotoStrays
<1>9. Cmd(p).op = "sem1" => s = 0 /\ d = -1
  BY <1>1, DeltaIsInt DEF s, d, Sem
<1>10. ASSUME trusted' PROVE OneUnit'
  <2>1. trusted /\ (s = 0 => d <= 0) /\ OneUnit /\ NoStray' /\ semid' # 0
    BY <1>2, <1>8, <1>10 DEF IInv, OneUnit
  <2>2. CASE s # 0
    <3>1. \A q \in Procs : pr'[q].pc = "cs" => pr[q].pc = "cs"
      BY <2>2, <1>6, <1>9 DEF Returned
    <3>2. val'[0] = val[0] /\ \A q \in Procs : adj'[q][0] = adj[q][0]
      BY <2>2, <1>5, Assumptions
    <3> QED
      BY <2>1, <3>1, <3>2, <1>2, <1>8, <1>10, QuietKeeps
  <2>3. CASE s = 0 /\ Free
    <3>1. d = -1 /\ val'[0] = 0 /\ adj'[p][0] = 1
      BY <2>1, <2>3, <1>3, <1>4, <1>5 DEF Free
    <3>2. \A q \in Procs : q # p => adj'[q][0] = 0 /\ pr'[q].pc # "cs"
      BY <2>3, <1>5, <1>6 DEF Free, At
    <3> QED
      BY <2>1, <3>1, <3>2 DEF OneUnit, HeldBy, At
  <2>4. ASSUME s = 0, NEW h \in Procs, HeldBy(h) PROVE OneUnit'
    <3>1. d = 0 /\ val[0] = 0
      BY <2>1, <2>4, <1>4 DEF HeldBy
    <3>2. val'[0] = 0 /\ adj'[p][0] = adj[p][0] /\ Returned(p) # "cs"
      <4>1. adj[p][0] \in Int
        BY <1>1, Assumptions DEF TypeOK
      <4> QED
        BY <3>1, <4>1, <2>4, <1>5, <1>9 DEF Returned
    <3>3. \A q \in Procs : adj'[q][0] = adj[q][0] /\ (pr'[q].pc = "cs" => pr[q].pc = "cs")
      BY <3>2, <1>5, <1>6
    <3> QED
      BY <2>1, <2>4, <3>2, <3>3 DEF OneUnit, HeldBy, At
  <2> QED
    BY <2>1, <2>2, <2>3, <2>4 DEF OneUnit
<1> QED
  BY <1>7, <1>10 DEF IInv

\* V raises the semaphore only for the process that lowered it.
LEMMA VKeeps ==
  ASSUME IInv, NEW p \in Procs, V(p) PROVE IInv'
<1>1. TypeOK /\ pr \in [Procs -> Process] /\ 0 \in Sems /\ val[0] \in 0 .. SEMVMX
  BY TypeIs, Assumptions DEF IInv, TypeOK
<1>2. /\ pr[p].pc = "cs" /\ Goto(p, "exit") /\ "exit" \in Pcs
      /\ UNCHANGED <<semid, lastid, nsems, history, bounds>>
  BY DEF V, At, Pcs
<1>3. /\ pr' \in [Procs -> Process] /\ pr'[p].pc = "exit"
      /\ \A q \in Procs : q # p => pr'[q] = pr[q]
  BY <1>1, <1>2, GotoIs
<1>4. CASE UNCHANGED <<val, adj>>
  BY <1>2, <1>4, StillKeeps DEF kernel, Pcs
<1>5. CASE Apply(p, 0, 1) /\ val[0] + 1 <= SEMVMX
  <2>1. val[0] + 1 \in 0 .. SEMVMX /\ 1 \in Int
    BY <1>1, <1>5
  <2>2. /\ val' \in [Sems -> 0 .. SEMVMX] /\ adj' \in [Procs -> [Sems -> Int]]
        /\ val'[0] = val[0] + 1 /\ adj'[p][0] = adj[p][0] - 1
        /\ \A q \in Procs : q # p => adj'[q] = adj[q]
    BY <1>1, <1>5, <2>1, ApplyIs
  <2>3. TypeOK'
    BY <1>1, <1>2, <1>3, <2>2, TypeKept DEF TypeOK, history, bounds
  <2>4. ASSUME trusted' PROVE OneUnit'
    <3>1. OneUnit /\ NoStray' /\ semid' # 0
      BY <2>4, <1>1, <1>2, GotoStrays DEF IInv, OneUnit, history
    <3>2. HeldBy(p)
      BY <3>1, <1>2 DEF OneUnit, Free, HeldBy, At
    <3>3. val'[0] = 1 /\ adj'[p][0] = 0
      BY <3>2, <2>2 DEF HeldBy
    <3>4. \A q \in Procs : q # p => adj'[q][0] = 0 /\ pr'[q].pc # "cs"
      BY <3>2, <2>2, <1>3 DEF HeldBy, At
    <3> QED
      BY <3>1, <3>3, <3>4, <1>3 DEF OneUnit, Free, At
  <2> QED
    BY <2>3, <2>4 DEF IInv
<1> QED
  BY <1>4, <1>5 DEF V

\* A process ends or is killed: what it had goes back.
LEMMA EndsKeeps ==
  ASSUME IInv, NEW p \in Procs, Exit(p) \/ Kill(p) PROVE IInv'
<1>1. TypeOK /\ pr \in [Procs -> Process] /\ val[0] \in 0 .. SEMVMX
  BY TypeIs, Assumptions DEF IInv, TypeOK
<1>2. /\ Undo(p) /\ pr' = [pr EXCEPT ![p] = Idle] /\ kills' \in 0 .. MaxKills
      /\ UNCHANGED <<semid, lastid, nsems, base, trusted, starts>>
  BY <1>1, Assumptions DEF Exit, Kill, Ends, TypeOK
<1>3. Idle \in Process /\ Idle.pc = "idle"
  BY DEF Idle, Process, Pcs, Commands, Ops
<1>4. /\ pr' \in [Procs -> Process] /\ pr'[p].pc = "idle"
      /\ \A q \in Procs : q # p => pr'[q] = pr[q]
  BY <1>1, <1>2, <1>3
<1>5. /\ val' \in [Sems -> 0 .. SEMVMX] /\ adj' \in [Procs -> [Sems -> Int]]
      /\ cut' \in [Sems -> SUBSET {"low", "high"}]
      /\ val'[0] = Clamp(val[0] + adj[p][0]) /\ adj'[p][0] = 0
      /\ \A q \in Procs : q # p => adj'[q] = adj[q]
  BY <1>1, <1>2, UndoIs
<1>6. TypeOK'
  BY <1>1, <1>2, <1>4, <1>5, TypeKept DEF TypeOK
<1>7. ASSUME trusted' PROVE OneUnit'
  <2>1. OneUnit /\ semid' # 0
    BY <1>2, <1>7 DEF IInv, OneUnit
  <2>2. NoStray'
    BY <2>1, <1>2, <1>4 DEF OneUnit, NoStray, Cmd
  <2>3. Clamp(0) = 0 /\ Clamp(1) = 1
    BY Assumptions DEF Clamp
  <2>4. CASE Free
    <3>1. val'[0] = 1
      BY <2>3, <2>4, <1>5 DEF Free
    <3>2. \A q \in Procs : adj'[q][0] = 0 /\ pr'[q].pc # "cs"
      BY <2>4, <1>4, <1>5 DEF Free, At
    <3> QED
      BY <2>1, <2>2, <3>1, <3>2 DEF OneUnit, Free, At
  <2>5. CASE HeldBy(p)
    <3>1. val'[0] = 1
      BY <2>3, <2>5, <1>5 DEF HeldBy
    <3>2. \A q \in Procs : adj'[q][0] = 0 /\ pr'[q].pc # "cs"
      BY <2>5, <1>4, <1>5 DEF HeldBy, At
    <3> QED
      BY <2>1, <2>2, <3>1, <3>2 DEF OneUnit, Free, At
  <2>6. ASSUME NEW h \in Procs, h # p, HeldBy(h) PROVE OneUnit'
    <3>1. val'[0] = 0 /\ adj'[h][0] = 1
      BY <2>3, <2>6, <1>5 DEF HeldBy
    <3>2. \A q \in Procs : q # h => adj'[q][0] = 0 /\ pr'[q].pc # "cs"
      BY <2>6, <1>4, <1>5 DEF HeldBy, At
    <3> QED
      BY <2>1, <2>2, <3>1, <3>2 DEF OneUnit, HeldBy, At
  <2> QED
    BY <2>1, <2>4, <2>5, <2>6 DEF OneUnit
<1> QED
  BY <1>6, <1>7 DEF IInv

-----------------------------------------------------------------------------
LEMMA NextInv == IInv /\ [Next]_vars => IInv'
<1> SUFFICES ASSUME IInv, [Next]_vars PROVE IInv'
  OBVIOUS
<1>1. CASE Next
  <2>1. PICK p \in Procs : Create(p) \/ Open(p) \/ Sem1Open(p) \/ Step(p) \/ SemOp(p) \/ Kill(p)
    BY <1>1 DEF Next
  <2>2. CASE Step(p)
    BY <2>2, SetKeeps, RemoveKeeps, ReadKeeps, SleepKeeps, SemOpFailsKeeps, Sem1SetKeeps,
       Sem1ForkKeeps, VKeeps, EndsKeeps DEF Step
  <2> QED
    BY <2>1, <2>2, CreateKeeps, OpenKeeps, Sem1OpenKeeps, SemOpKeeps, EndsKeeps
<1>2. CASE UNCHANGED vars
  BY <1>2 DEF IInv, TypeOK, OneUnit, NoStray, Free, HeldBy, Cmd, At, vars, kernel, history, bounds
<1> QED
  BY <1>1, <1>2

LEMMA Invariant == Spec => []IInv
BY InitInv, NextInv, PTL DEF Spec

\* The type invariant: no sequence of commands, sleeps, kills and undos takes a
\* semaphore out of 0 .. SEMVMX.
THEOREM TypeCorrect == Spec => []TypeOK
<1>1. IInv => TypeOK
  BY DEF IInv
<1> QED
  BY <1>1, Invariant, PTL

\* At most one process is between P and V, however many run sem1 and whichever
\* are killed, while nothing else sets or raises the semaphore.
THEOREM OneInside == Spec => []MutualExclusion
<1>1. IInv => MutualExclusion
  <2> SUFFICES ASSUME IInv, trusted PROVE Cardinality(InCS) <= 1
    BY DEF MutualExclusion
  <2>1. CASE Free
    <3>1. InCS = {}
      BY <2>1 DEF Free, InCS
    <3> QED
      BY <3>1, FS_EmptySet
  <2>2. ASSUME NEW h \in Procs, HeldBy(h) PROVE Cardinality(InCS) <= 1
    <3>1. InCS = {} \/ InCS = {h}
      BY <2>2 DEF HeldBy, InCS
    <3>2. Cardinality({}) = 0 /\ Cardinality({h}) = 1
      BY FS_EmptySet, FS_Singleton
    <3> QED
      BY <3>1, <3>2
  <2> QED
    BY <2>1, <2>2 DEF IInv, OneUnit
<1> QED
  BY <1>1, Invariant, PTL

-----------------------------------------------------------------------------
(* What is still to be undone on a semaphore: the sum over the processes.  *)
(* MapThenSumSet is defined by recursion over the subsets of a finite set, *)
(* and what holds of it is proved by a smallest subset for which it fails. *)

ColSum(a, s, S) == MapThenSumSet(LAMBDA p : a[p][s], S)
Pick(T) == CHOOSE x \in T : TRUE
SumStep(f, a, s, T) == IF T = {} THEN 0 ELSE a[Pick(T)][s] + f[T \ {Pick(T)}]
IsSum(f, a, s, S) == f = [T \in SUBSET S |-> SumStep(f, a, s, T)]

Books == \A s : Total(s) = val[s] + ColSum(adj, s, Procs)

LEMMA TotalIs == Books
BY DEF Books, Total, ColSum

LEMMA TotalIsPrimed == Books'
BY TotalIs, PTL

LEMMA ColSumIs ==
  ASSUME NEW a, NEW s, NEW S
  PROVE  ColSum(a, s, S) = (CHOOSE f : IsSum(f, a, s, S))[S]
BY DEF ColSum, IsSum, SumStep, Pick, MapThenSumSet, MapThenFoldSet

LEMMA PickIs == \A T : T # {} => Pick(T) \in T
BY DEF Pick

\* A property of the subsets of a finite set that fails, fails for a subset of
\* whose proper subsets it holds.
LEMMA Smallest ==
  ASSUME NEW S, IsFiniteSet(S), NEW B, B \subseteq SUBSET S, B # {}
  PROVE  \E T \in B : \A U \in SUBSET T : U # T => U \notin B
<1>1. IsWellFoundedOn(StrictSubsetOrdering(S), SUBSET S)
  BY FS_StrictSubsetOrderingWellFounded, FS_FiniteSubsetsOfFinite
<1>2. PICK T \in B : \A U \in B : ~(<<U, T>> \in StrictSubsetOrdering(S))
  BY <1>1, WFMin
<1>3. ASSUME NEW U \in SUBSET T, U # T, U \in B
      PROVE  FALSE
  <2>1. <<U, T>> \in StrictSubsetOrdering(S)
    BY <1>3 DEF StrictSubsetOrdering
  <2> QED
    BY <1>2, <1>3, <2>1
<1> QED
  BY <1>3

LEMMA SumUnique ==
  ASSUME NEW a, NEW s, NEW S, IsFiniteSet(S), NEW U \in SUBSET S, NEW Y \in SUBSET U,
         NEW f, IsSum(f, a, s, U), NEW g, IsSum(g, a, s, Y)
  PROVE  \A T \in SUBSET Y : f[T] = g[T]
<1> DEFINE B == {T \in SUBSET Y : f[T] # g[T]}
<1> SUFFICES ASSUME B # {} PROVE FALSE
  OBVIOUS
<1>1. PICK T \in B : \A W \in SUBSET T : W # T => W \notin B
  <2>1. B \subseteq SUBSET S
    OBVIOUS
  <2> HIDE DEF B
  <2> QED
    BY <2>1, Smallest
<1>2. f[T] = SumStep(f, a, s, T) /\ g[T] = SumStep(g, a, s, T)
  BY DEF IsSum
<1>3. CASE T = {}
  BY <1>2, <1>3 DEF SumStep
<1>4. CASE T # {}
  <2> DEFINE x == Pick(T)
  <2>1. x \in T
    BY <1>4, PickIs
  <2>2. T \ {x} \in SUBSET T /\ T \ {x} # T /\ T \ {x} \in SUBSET Y
    BY <2>1
  <2>3. f[T \ {x}] = g[T \ {x}]
    BY <1>1, <2>2
  <2> QED
    BY <1>2, <1>4, <2>3 DEF SumStep
<1> QED
  BY <1>3, <1>4

LEMMA SumExists ==
  ASSUME NEW a, NEW s, NEW S, IsFiniteSet(S)
  PROVE  \E f : IsSum(f, a, s, S)
<1> DEFINE B == {U \in SUBSET S : ~ \E f : IsSum(f, a, s, U)}
           F(Y) == CHOOSE f : IsSum(f, a, s, Y)
<1> SUFFICES ASSUME B # {} PROVE FALSE
  OBVIOUS
<1>1. PICK U \in B : \A Y \in SUBSET U : Y # U => Y \notin B
  <2>1. B \subseteq SUBSET S
    OBVIOUS
  <2> HIDE DEF B
  <2> QED
    BY <2>1, Smallest
<1>2. ASSUME NEW Y \in SUBSET U, Y # U
      PROVE  IsSum(F(Y), a, s, Y)
  <2>1. \E f : IsSum(f, a, s, Y)
    BY <1>1, <1>2
  <2> QED
    BY <2>1
<1> DEFINE g == [T \in SUBSET U |-> IF T = {} THEN 0
                                    ELSE a[Pick(T)][s] + F(T \ {Pick(T)})[T \ {Pick(T)}]]
<1> HIDE DEF F
<1>3. ASSUME NEW T \in SUBSET U, T # U
      PROVE  g[T] = F(T)[T]
  <2>1. F(T)[T] = SumStep(F(T), a, s, T)
    BY <1>2, <1>3 DEF IsSum
  <2>2. CASE T = {}
    BY <2>1, <2>2 DEF SumStep
  <2>3. CASE T # {}
    <3> DEFINE W == T \ {Pick(T)}
    <3>1. W \in SUBSET T /\ W \in SUBSET U /\ W # U
      BY <1>3, <2>3, PickIs
    <3>2. F(T)[W] = F(W)[W]
      <4>1. IsSum(F(T), a, s, T) /\ IsSum(F(W), a, s, W)
        BY <1>2, <1>3, <3>1
      <4>2. T \in SUBSET S
        OBVIOUS
      <4> HIDE DEF W
      <4>3. \A Q \in SUBSET W : F(T)[Q] = F(W)[Q]
        BY <3>1, <4>1, <4>2, SumUnique
      <4> QED
        BY <4>3
    <3> QED
      BY <2>1, <2>3, <3>2 DEF SumStep
  <2> QED
    BY <2>2, <2>3
<1>4. ASSUME NEW T \in SUBSET U
      PROVE  g[T] = SumStep(g, a, s, T)
  <2>1. CASE T = {}
    BY <2>1 DEF SumStep
  <2>2. CASE T # {}
    <3> DEFINE W == T \ {Pick(T)}
    <3>1. W \in SUBSET U /\ W # U
      BY <2>2, PickIs
    <3>2. g[W] = F(W)[W]
      BY <1>3, <3>1
    <3> QED
      BY <2>2, <3>2 DEF SumStep
  <2> QED
    BY <2>1, <2>2
<1>5. g = [T \in SUBSET U |-> g[T]]
  OBVIOUS
<1>6. IsSum(g, a, s, U)
  <2> HIDE DEF g
  <2> QED
    BY <1>4, <1>5 DEF IsSum
<1> QED
  BY <1>1, <1>6

LEMMA ColSumDef ==
  ASSUME NEW a, NEW s, NEW S, IsFiniteSet(S)
  PROVE  \E f : IsSum(f, a, s, S) /\ ColSum(a, s, S) = f[S]
BY SumExists, ColSumIs

LEMMA ColSumInt ==
  ASSUME NEW a, NEW s, NEW S, IsFiniteSet(S), \A p \in S : a[p][s] \in Int
  PROVE  ColSum(a, s, S) \in Int
<1>1. PICK f : IsSum(f, a, s, S) /\ ColSum(a, s, S) = f[S]
  BY ColSumDef
<1> DEFINE B == {T \in SUBSET S : f[T] \notin Int}
<1> SUFFICES ASSUME B # {} PROVE FALSE
  BY <1>1
<1>2. PICK T \in B : \A W \in SUBSET T : W # T => W \notin B
  <2>1. B \subseteq SUBSET S
    OBVIOUS
  <2> HIDE DEF B
  <2> QED
    BY <2>1, Smallest
<1>3. f[T] = SumStep(f, a, s, T)
  BY <1>1 DEF IsSum
<1>4. CASE T # {}
  <2> DEFINE x == Pick(T)
  <2>1. x \in T
    BY <1>4, PickIs
  <2>2. T \ {x} \in SUBSET T /\ T \ {x} # T /\ T \ {x} \in SUBSET S
    BY <2>1
  <2>3. f[T \ {x}] \in Int /\ a[x][s] \in Int
    BY <1>2, <2>1, <2>2
  <2> QED
    BY <1>3, <1>4, <2>3 DEF SumStep
<1> QED
  BY <1>3, <1>4 DEF SumStep

LEMMA ColSumZero ==
  ASSUME NEW a, NEW s, NEW S, IsFiniteSet(S), \A p \in S : a[p][s] = 0
  PROVE  ColSum(a, s, S) = 0
<1>1. PICK f : IsSum(f, a, s, S) /\ ColSum(a, s, S) = f[S]
  BY ColSumDef
<1> DEFINE B == {T \in SUBSET S : f[T] # 0}
<1> SUFFICES ASSUME B # {} PROVE FALSE
  BY <1>1
<1>2. PICK T \in B : \A W \in SUBSET T : W # T => W \notin B
  <2>1. B \subseteq SUBSET S
    OBVIOUS
  <2> HIDE DEF B
  <2> QED
    BY <2>1, Smallest
<1>3. f[T] = SumStep(f, a, s, T)
  BY <1>1 DEF IsSum
<1>4. CASE T # {}
  <2> DEFINE x == Pick(T)
  <2>1. x \in T
    BY <1>4, PickIs
  <2>2. T \ {x} \in SUBSET T /\ T \ {x} # T /\ T \ {x} \in SUBSET S
    BY <2>1
  <2>3. f[T \ {x}] = 0 /\ a[x][s] = 0
    BY <1>2, <2>1, <2>2
  <2> QED
    BY <1>3, <1>4, <2>3 DEF SumStep
<1> QED
  BY <1>3, <1>4 DEF SumStep

\* One process more or less to undo changes the sum by as much.
LEMMA ColSumChange ==
  ASSUME NEW a, NEW b, NEW s, NEW S, IsFiniteSet(S), NEW p \in S,
         \A q \in S : a[q][s] \in Int /\ b[q][s] \in Int,
         \A q \in S : q # p => b[q][s] = a[q][s]
  PROVE  ColSum(b, s, S) = ColSum(a, s, S) + (b[p][s] - a[p][s])
<1>1. PICK f : IsSum(f, a, s, S) /\ ColSum(a, s, S) = f[S]
  BY ColSumDef
<1>2. PICK g : IsSum(g, b, s, S) /\ ColSum(b, s, S) = g[S]
  BY ColSumDef
<1>3. ASSUME NEW T \in SUBSET S
      PROVE  IsFiniteSet(T) /\ f[T] = ColSum(a, s, T)
  <2>1. IsFiniteSet(T)
    BY <1>3, FS_Subset
  <2>2. PICK h : IsSum(h, a, s, T) /\ ColSum(a, s, T) = h[T]
    BY <2>1, ColSumDef
  <2>3. \A Q \in SUBSET T : f[Q] = h[Q]
    <3>1. S \in SUBSET S
      OBVIOUS
    <3> QED
      BY <1>1, <1>3, <2>2, <3>1, SumUnique
  <2> QED
    BY <2>1, <2>2, <2>3
<1>4. \A T \in SUBSET S : f[T] \in Int
  BY <1>3, ColSumInt
<1> DEFINE diff == b[p][s] - a[p][s]
           B == {T \in SUBSET S : g[T] # f[T] + (IF p \in T THEN diff ELSE 0)}
<1>5. diff \in Int
  OBVIOUS
<1>6. ASSUME B # {} PROVE FALSE
  <2>1. PICK T \in B : \A W \in SUBSET T : W # T => W \notin B
    <3>1. B \subseteq SUBSET S
      OBVIOUS
    <3> HIDE DEF B
    <3> QED
      BY <1>6, <3>1, Smallest
  <2>2. f[T] = SumStep(f, a, s, T) /\ g[T] = SumStep(g, b, s, T)
    BY <1>1, <1>2 DEF IsSum
  <2>3. CASE T = {}
    <3>1. f[T] = 0 /\ g[T] = 0
      BY <2>2, <2>3 DEF SumStep
    <3> QED
      BY <2>1, <2>3, <3>1
  <2>4. CASE T # {}
    <3> DEFINE x == Pick(T)
               W == T \ {x}
    <3>1. x \in T
      BY <2>4, PickIs
    <3>2. W \in SUBSET T /\ W # T /\ W \in SUBSET S /\ x \in S
      BY <3>1
    <3>3. g[W] = f[W] + (IF p \in W THEN diff ELSE 0)
      BY <2>1, <3>2
    <3>4. f[T] = a[x][s] + f[W] /\ g[T] = b[x][s] + g[W]
      BY <2>2, <2>4 DEF SumStep
    <3>5. f[W] \in Int /\ a[x][s] \in Int /\ b[x][s] \in Int
      BY <1>4, <3>2
    <3>6. g[T] # f[T] + (IF p \in T THEN diff ELSE 0)
      BY <2>1
    <3>7. CASE x = p
      <4>1. p \in T /\ p \notin W
        BY <3>1, <3>7
      <4>2. g[W] = f[W] /\ g[T] # f[T] + (b[x][s] - a[x][s])
        BY <3>3, <3>5, <3>6, <3>7, <4>1
      <4> HIDE DEF x, W, diff
      <4> QED
        BY <3>4, <3>5, <4>2
    <3>8. CASE x # p
      <4>1. (p \in T <=> p \in W) /\ b[x][s] = a[x][s]
        BY <3>2, <3>8
      <4> HIDE DEF x, W, diff
      <4> QED
        BY <1>5, <3>3, <3>4, <3>5, <3>6, <4>1
    <3> QED
      BY <3>7, <3>8
  <2> QED
    BY <2>3, <2>4
<1>7. g[S] = f[S] + (IF p \in S THEN diff ELSE 0)
  BY <1>6
<1> QED
  BY <1>1, <1>2, <1>7

\* Where a value and all that would be undone on it stand to what it was set to.
Balanced(s) == /\ "low" \notin cut[s] => Total(s) <= base[s]
               /\ "high" \notin cut[s] => Total(s) >= base[s]

LEMMA ColumnsAreInt ==
  TypeOK => \A s \in Sems : ColSum(adj, s, Procs) \in Int
<1> SUFFICES ASSUME TypeOK, NEW s \in Sems PROVE ColSum(adj, s, Procs) \in Int
  OBVIOUS
<1>1. \A p \in Procs : adj[p][s] \in Int
  BY DEF TypeOK
<1> QED
  BY <1>1, ColSumInt, SemAssumption

\* A semaphore whose value, adjustments, base and cuts do not change.
LEMMA UntouchedBalance ==
  ASSUME TypeOK, TypeOK', NEW s \in Sems, Balanced(s), val'[s] = val[s],
         \A q \in Procs : adj'[q][s] = adj[q][s], base'[s] = base[s], cut'[s] = cut[s]
  PROVE  Balanced(s)'
<1>1. CASE Procs = {}
  <2>1. ColSum(adj, s, Procs) = 0 /\ ColSum(adj', s, Procs) = 0
    BY <1>1, ColSumZero, SemAssumption
  <2> QED
    BY <2>1, TotalIs, TotalIsPrimed DEF Balanced, Books
<1>2. ASSUME NEW p \in Procs PROVE Balanced(s)'
  <2>1. \A q \in Procs : adj[q][s] \in Int /\ adj'[q][s] \in Int
    BY DEF TypeOK
  <2>2. ColSum(adj', s, Procs) = ColSum(adj, s, Procs) + (adj'[p][s] - adj[p][s])
    BY <2>1, ColSumChange, SemAssumption
  <2>3. ColSum(adj', s, Procs) = ColSum(adj, s, Procs)
    BY <2>1, <2>2, ColumnsAreInt
  <2> QED
    BY <2>3, TotalIs, TotalIsPrimed DEF Balanced, Books
<1> QED
  BY <1>1, <1>2

\* A semaphore that has just been given a value that nobody would undo.
LEMMA FreshBalance ==
  ASSUME TypeOK', NEW s \in Sems, val'[s] = base'[s], \A q \in Procs : adj'[q][s] = 0
  PROVE  Balanced(s)'
<1>1. ColSum(adj', s, Procs) = 0
  BY ColSumZero, SemAssumption
<1>2. val'[s] \in Int
  BY Assumptions DEF TypeOK
<1>3. Total(s)' = val'[s]
  BY <1>1, <1>2, TotalIsPrimed DEF Books
<1> QED
  BY <1>2, <1>3 DEF Balanced

\* An operation moves d from what p would undo to the value.
LEMMA ApplyBalance ==
  ASSUME TypeOK, TypeOK', NEW p \in Procs, NEW s \in Sems, NEW d \in Int,
         val[s] + d \in 0 .. SEMVMX, Apply(p, s, d), UNCHANGED <<base, cut>>,
         NEW t \in Sems, Balanced(t)
  PROVE  Balanced(t)'
<1>1. /\ val'[s] = val[s] + d /\ adj'[p][s] = adj[p][s] - d
      /\ \A x \in Sems : x # s => val'[x] = val[x] /\ \A q \in Procs : adj'[q][x] = adj[q][x]
      /\ \A q \in Procs : q # p => adj'[q] = adj[q]
  BY ApplyIs
<1>2. CASE t = s
  <2>1. \A q \in Procs : adj[q][t] \in Int /\ adj'[q][t] \in Int
    BY DEF TypeOK
  <2>2. ColSum(adj', t, Procs) = ColSum(adj, t, Procs) + (adj'[p][t] - adj[p][t])
    BY <1>1, <2>1, ColSumChange, SemAssumption
  <2>3. ColSum(adj', t, Procs) = ColSum(adj, t, Procs) - d
    BY <1>1, <1>2, <2>1, <2>2, ColumnsAreInt
  <2>4. val[t] \in Int /\ val'[t] = val[t] + d
    BY <1>1, <1>2, Assumptions DEF TypeOK
  <2>5. Total(t)' = Total(t)
    BY <2>3, <2>4, ColumnsAreInt, TotalIs, TotalIsPrimed DEF Books
  <2> QED
    BY <2>5 DEF Balanced
<1>3. CASE t # s
  BY <1>1, <1>3, UntouchedBalance
<1> QED
  BY <1>2, <1>3

\* The undo of a process moves its adjustment to the value, as far as it fits.
LEMMA UndoBalance ==
  ASSUME TypeOK, TypeOK', NEW p \in Procs, Undo(p), UNCHANGED base,
         NEW s \in Sems, Balanced(s)
  PROVE  Balanced(s)'
<1> DEFINE a == adj[p][s]
           v == val[s]
<1>1. a \in Int /\ v \in Int /\ base[s] \in Int
  BY Assumptions DEF TypeOK
<1>2. adj'[p][s] = 0 /\ (\A q \in Procs : q # p => adj'[q][s] = adj[q][s])
  BY DEF Undo, TypeOK
<1>3. val'[s] = Clamp(v + a)
  BY DEF Undo
<1>4. /\ "low" \notin cut'[s] => "low" \notin cut[s] /\ ~(v + a < 0)
      /\ "high" \notin cut'[s] => "high" \notin cut[s] /\ ~(v + a > SEMVMX)
  BY DEF Undo
<1>5. ColSum(adj', s, Procs) = ColSum(adj, s, Procs) + (0 - a)
  <2>1. \A q \in Procs : adj[q][s] \in Int /\ adj'[q][s] \in Int
    BY DEF TypeOK
  <2>2. ColSum(adj', s, Procs) = ColSum(adj, s, Procs) + (adj'[p][s] - adj[p][s])
    BY <1>2, <2>1, ColSumChange, SemAssumption
  <2> QED
    BY <1>2, <2>2
<1>6. ColSum(adj, s, Procs) \in Int
  BY ColumnsAreInt
<1>7. Total(s) = v + ColSum(adj, s, Procs)
      /\ Total(s)' = Clamp(v + a) + ColSum(adj, s, Procs) + (0 - a)
  <2>1. Clamp(v + a) \in Int
    BY <1>1, ClampIs, Assumptions
  <2>2. Total(s)' = Clamp(v + a) + ColSum(adj', s, Procs)
    BY <1>3, TotalIsPrimed DEF Books
  <2>3. Total(s) = v + ColSum(adj, s, Procs)
    BY TotalIs DEF Books
  <2> HIDE DEF a, v
  <2> QED
    BY <1>1, <1>5, <1>6, <2>1, <2>2, <2>3
<1> HIDE DEF a, v
<1>8. ASSUME "low" \notin cut'[s] PROVE Total(s)' <= base'[s]
  <2>1. Clamp(v + a) <= v + a
    BY <1>1, <1>4, <1>8, Assumptions DEF Clamp
  <2>2. Clamp(v + a) \in Int /\ Total(s) <= base[s]
    BY <1>1, <1>4, <1>8, ClampIs, Assumptions DEF Balanced
  <2> QED
    BY <1>1, <1>6, <1>7, <2>1, <2>2
<1>9. ASSUME "high" \notin cut'[s] PROVE Total(s)' >= base'[s]
  <2>1. Clamp(v + a) >= v + a
    BY <1>1, <1>4, <1>9, Assumptions DEF Clamp
  <2>2. Clamp(v + a) \in Int /\ Total(s) >= base[s]
    BY <1>1, <1>4, <1>9, ClampIs, Assumptions DEF Balanced
  <2> QED
    BY <1>1, <1>6, <1>7, <2>1, <2>2
<1> QED
  BY <1>8, <1>9 DEF Balanced

\* What a step does to the kernel: nothing, a removal, a new set, a value set,
\* an operation, or the undo of a process.
LEMMA KernelSteps ==
  ASSUME IInv, Next
  PROVE  \/ UNCHANGED <<nsems, val, adj, base, cut>> /\ semid' \in {0, semid}
         \/ \E n \in 1 .. MaxSems : NewSet(n)
         \/ \E s \in Sems, v \in 0 .. SEMVMX : SetValue(s, v)
         \/ \E p \in Procs, s \in Sems, d \in Int :
              /\ val[s] + d \in 0 .. SEMVMX /\ Apply(p, s, d)
              /\ UNCHANGED <<semid, nsems, base, cut>>
         \/ \E p \in Procs : Undo(p) /\ UNCHANGED <<semid, nsems, base>>
<1>1. TypeOK /\ pr \in [Procs -> Process]
  BY TypeIs DEF IInv
<1>2. ASSUME NEW p \in Procs, Create(p) \/ Sem1Open(p) \/ Open(p)
      PROVE  (UNCHANGED <<kernel, history>>) \/ \E n \in 1 .. MaxSems : NewSet(n)
  BY <1>2, Assumptions DEF Create, Sem1Open, Open
<1>3. ASSUME NEW p \in Procs, Set(p) \/ Sem1Set(p)
      PROVE  (UNCHANGED <<kernel, history>>)
             \/ \E s \in Sems, v \in 0 .. SEMVMX : SetValue(s, v)
  BY <1>1, <1>3, ReachedSem, Assumptions DEF Set, Sem1Set
<1>4. ASSUME NEW p \in Procs, Remove(p) \/ Read(p) \/ Sleep(p) \/ SemOpFails(p) \/ Sem1Fork(p)
      PROVE  UNCHANGED <<nsems, val, adj, base, cut>> /\ semid' \in {0, semid}
  BY <1>4 DEF Remove, Read, Sleep, SemOpFails, Sem1Fork, kernel, history
<1>5. ASSUME NEW p \in Procs, SemOp(p)
      PROVE  \E s \in Sems, d \in Int : /\ val[s] + d \in 0 .. SEMVMX /\ Apply(p, s, d)
                                        /\ UNCHANGED <<semid, nsems, base, cut>>
  <2> DEFINE s == Sem(p)
             d == Delta(p)
  <2>1. d \in Int
    BY <1>1, DeltaIsInt
  <2>2. /\ Reaches(p, s) /\ ~WouldBlock(s, d) /\ val[s] + d <= SEMVMX
        /\ Apply(p, s, d) /\ UNCHANGED <<semid, nsems, base, cut>>
    BY <1>5 DEF SemOp
  <2> HIDE DEF s, d
  <2>3. s \in Sems /\ val[s] \in 0 .. SEMVMX
    BY <1>1, <2>2, ReachedSem DEF TypeOK
  <2>4. val[s] + d \in 0 .. SEMVMX
    BY <2>1, <2>2, <2>3, Assumptions DEF WouldBlock
  <2> QED
    BY <2>1, <2>2, <2>3, <2>4
<1>6. ASSUME NEW p \in Procs, V(p)
      PROVE  \/ UNCHANGED <<nsems, val, adj, base, cut>> /\ semid' \in {0, semid}
             \/ /\ val[0] + 1 \in 0 .. SEMVMX /\ Apply(p, 0, 1)
                /\ UNCHANGED <<semid, nsems, base, cut>>
  <2>1. val[0] \in 0 .. SEMVMX
    BY <1>1, Assumptions DEF TypeOK
  <2> QED
    BY <1>6, <2>1, Assumptions DEF V, history
<1>7. ASSUME NEW p \in Procs, Exit(p) \/ Kill(p)
      PROVE  Undo(p) /\ UNCHANGED <<semid, nsems, base>>
  BY <1>7 DEF Exit, Kill, Ends
<1>8. 0 \in Sems /\ 1 \in Int
  BY Assumptions
<1>9. PICK p \in Procs : Create(p) \/ Open(p) \/ Sem1Open(p) \/ Step(p) \/ SemOp(p) \/ Kill(p)
  BY DEF Next
<1>10. UNCHANGED <<kernel, history>>
         => UNCHANGED <<nsems, val, adj, base, cut>> /\ semid' \in {0, semid}
  BY DEF kernel, history
<1>11. CASE Create(p) \/ Open(p) \/ Sem1Open(p)
  BY <1>2, <1>10, <1>11
<1>12. CASE Set(p) \/ Sem1Set(p)
  BY <1>3, <1>10, <1>12
<1>13. CASE Remove(p) \/ Read(p) \/ Sleep(p) \/ SemOpFails(p) \/ Sem1Fork(p)
  BY <1>4, <1>13
<1>14. CASE SemOp(p)
  BY <1>5, <1>14
<1>15. CASE V(p)
  BY <1>6, <1>8, <1>15
<1>16. CASE Exit(p) \/ Kill(p)
  BY <1>7, <1>16
<1> QED
  BY <1>9, <1>11, <1>12, <1>13, <1>14, <1>15, <1>16 DEF Step

LEMMA BalanceNext == IInv /\ UndoBalances /\ [Next]_vars => UndoBalances'
<1> SUFFICES ASSUME IInv, UndoBalances, [Next]_vars, semid' # 0,
                    NEW s \in 0 .. nsems' - 1
             PROVE  Balanced(s)'
  BY DEF UndoBalances, Balanced
<1>1. TypeOK /\ TypeOK'
  BY NextInv DEF IInv
<1>2. s \in Sems
  <2>1. PICK n \in 0 .. MaxSems : n = nsems'
    BY <1>1 DEF TypeOK
  <2>2. s \in 0 .. n - 1 /\ MaxSems \in Nat
    BY <2>1, Assumptions
  <2> QED
    BY <2>2 DEF Sems
<1>3. ASSUME semid' = semid, nsems' = nsems PROVE Balanced(s)
  BY <1>3 DEF UndoBalances, Balanced
<1>4. CASE UNCHANGED <<nsems, val, adj, base, cut>> /\ semid' \in {0, semid}
  BY <1>1, <1>2, <1>3, <1>4, UntouchedBalance
<1>5. ASSUME NEW n \in 1 .. MaxSems, NewSet(n) PROVE Balanced(s)'
  <2>1. val'[s] = base'[s] /\ \A q \in Procs : adj'[q][s] = 0
    BY <1>2, <1>5 DEF NewSet
  <2> QED
    BY <1>1, <1>2, <2>1, FreshBalance
<1>6. ASSUME NEW t \in Sems, NEW v \in 0 .. SEMVMX, SetValue(t, v) PROVE Balanced(s)'
  <2>1. CASE s = t
    <3>1. val'[s] = base'[s] /\ \A q \in Procs : adj'[q][s] = 0
      BY <1>1, <1>6, <2>1 DEF SetValue, TypeOK
    <3> QED
      BY <1>1, <1>2, <3>1, FreshBalance
  <2>2. CASE s # t
    <3>1. /\ val'[s] = val[s] /\ base'[s] = base[s] /\ cut'[s] = cut[s]
          /\ \A q \in Procs : adj'[q][s] = adj[q][s]
      BY <1>1, <1>2, <1>6, <2>2 DEF SetValue, TypeOK
    <3>2. Balanced(s)
      BY <1>3, <1>6 DEF SetValue
    <3> QED
      BY <1>1, <1>2, <3>1, <3>2, UntouchedBalance
  <2> QED
    BY <2>1, <2>2
<1>7. ASSUME NEW p \in Procs, NEW t \in Sems, NEW d \in Int, val[t] + d \in 0 .. SEMVMX,
             Apply(p, t, d), UNCHANGED <<semid, nsems, base, cut>>
      PROVE  Balanced(s)'
  BY <1>1, <1>2, <1>3, <1>7, ApplyBalance
<1>8. ASSUME NEW p \in Procs, Undo(p), UNCHANGED <<semid, nsems, base>> PROVE Balanced(s)'
  BY <1>1, <1>2, <1>3, <1>8, UndoBalance
<1>9. CASE UNCHANGED vars
  BY <1>4, <1>9 DEF vars, kernel, history
<1> QED
  BY <1>4, <1>5, <1>6, <1>7, <1>8, <1>9, KernelSteps

\* SEM_UNDO keeps the books: for any number of processes, commands and kills the
\* value and what is still to be undone add up to what the semaphore was set to,
\* unless an undo was cut short.
THEOREM BooksBalance == Spec => []UndoBalances
<1>1. Init => UndoBalances
  BY DEF Init, UndoBalances
<1> QED
  BY <1>1, Invariant, BalanceNext, PTL DEF Spec

-----------------------------------------------------------------------------
(***************************************************************************)
(* ThreadMutex, for any number of producers and consumers: in both         *)
(* programs every increment counts, and in threadMutex2.c each value is    *)
(* read exactly once before the next is made.                              *)
(*                                                                         *)
(* In threadMutex2.c the right to go on is one token: it is p_mutex free,  *)
(* c_mutex free, or held by the one thread inside. Where the token is says *)
(* whether sharedData has been read.                                       *)
(***************************************************************************)
PIn(p) == pc[p] \in {"inc", "store", "unlock"}
CIn(c) == pc[c] \in {"read", "unlock"}

\* A producer inside holds p_mutex, and no other producer is inside.
Apart == /\ \A p \in Producers : PIn(p) => pLocked
         /\ \A p, q \in Producers : PIn(p) /\ PIn(q) => p = q

\* A producer between reading and writing has the present value.
Kept == \A p \in Producers : pc[p] = "store" => reg[p] = sharedData

\* The token of threadMutex2.c.
Token == /\ pLocked \/ cLocked
         /\ \A p \in Producers : PIn(p) => cLocked
         /\ \A c \in Consumers : CIn(c) => pLocked /\ cLocked
         /\ \A c, d \in Consumers : CIn(c) /\ CIn(d) => c = d
         /\ \A p \in Producers, c \in Consumers : ~(PIn(p) /\ CIn(c))

\* Where the token is, and what has been read.
Known == /\ ~pLocked => sharedData = taken
         /\ ~cLocked => sharedData = Next1(taken)
         /\ \A p \in Producers : /\ pc[p] \in {"inc", "store"} => sharedData = taken
                                 /\ pc[p] = "unlock" => sharedData = Next1(taken)
         /\ \A c \in Consumers : /\ pc[c] = "read" => sharedData = Next1(taken)
                                 /\ pc[c] = "unlock" => sharedData = taken

MutexInv == /\ MutexTypeOK /\ Apart /\ Kept /\ EveryIncrementCounts
            /\ two => Token /\ Known

-----------------------------------------------------------------------------
LEMMA Next1Value == \A v \in Value : Next1(v) \in Value
BY ThreadAssumption DEF Value, Next1

LEMMA MutexInitInv == MutexInit => MutexInv
<1> SUFFICES ASSUME MutexInit PROVE MutexInv
  OBVIOUS
<1>1. 0 \in Value
  BY ThreadAssumption DEF Value
<1>2. MutexTypeOK
  BY <1>1 DEF MutexInit, MutexTypeOK, PCs
<1>3. \A t \in Threads : pc[t] = "lock"
  BY DEF MutexInit
<1>4. Apart /\ Kept
  BY <1>3 DEF Apart, Kept, PIn, Threads
<1>5. two => Token /\ Known
  BY <1>3 DEF MutexInit, Token, Known, PIn, CIn, Threads
<1>6. EveryIncrementCounts
  BY DEF MutexInit, EveryIncrementCounts
<1> QED
  BY <1>2, <1>4, <1>5, <1>6 DEF MutexInv

\* Every step keeps the types.
LEMMA MutexTypeInv ==
  ASSUME MutexTypeOK, NEW t \in Threads,
         \/ t \in Producers /\ Producer(t)
         \/ t \in Consumers /\ Consumer(t)
  PROVE  MutexTypeOK'
<1>1. \A l \in PCs : ThreadGoto(t, l) => pc' \in [Threads -> PCs]
  BY DEF MutexTypeOK, ThreadGoto
<1>2. {"lock", "inc", "store", "read", "unlock", "key"} \subseteq PCs
  BY DEF PCs
<1>3. ASSUME t \in Producers, Producer(t)
      PROVE  MutexTypeOK'
  <2>1. pc' \in [Threads -> PCs]
    BY <1>1, <1>2, <1>3
       DEF Producer, ProducerLock, Load, Store, ProducerUnlock, Key
  <2>2. CASE ProducerLock(t) \/ ProducerUnlock(t) \/ Key(t)
    BY <2>1, <2>2 DEF ProducerLock, ProducerUnlock, Key, MutexTypeOK
  <2>3. CASE Load(t)
    BY <1>3, <2>1, <2>3 DEF Load, MutexTypeOK
  <2>4. CASE Store(t)
    BY <1>3, <2>1, <2>4, Next1Value DEF Store, MutexTypeOK
  <2> QED
    BY <1>3, <2>2, <2>3, <2>4 DEF Producer
<1>4. ASSUME t \in Consumers, Consumer(t)
      PROVE  MutexTypeOK'
  <2>1. pc' \in [Threads -> PCs]
    BY <1>1, <1>2, <1>4 DEF Consumer, ConsumerLock, ReadValue, ConsumerUnlock, Key
  <2>2. CASE ConsumerLock(t) \/ ConsumerUnlock(t) \/ Key(t)
    BY <2>1, <2>2 DEF ConsumerLock, ConsumerUnlock, Key, MutexTypeOK
  <2>3. CASE ReadValue(t)
    BY <2>1, <2>3 DEF ReadValue, MutexTypeOK
  <2> QED
    BY <1>4, <2>2, <2>3 DEF Consumer
<1> QED
  BY <1>3, <1>4

\* What Goto does to the program counters.
LEMMA ThreadGotoFacts ==
  ASSUME MutexTypeOK, NEW t \in Threads, NEW l, ThreadGoto(t, l)
  PROVE  pc'[t] = l /\ \A u \in Threads : u # t => pc'[u] = pc[u]
BY DEF MutexTypeOK, ThreadGoto

-----------------------------------------------------------------------------
LEMMA ProducerInv ==
  ASSUME MutexInv, NEW p \in Producers, Producer(p)
  PROVE  MutexInv'
<1>1. MutexTypeOK /\ Apart /\ Kept /\ EveryIncrementCounts /\ (two => Token /\ Known)
  BY DEF MutexInv
<1>2. MutexTypeOK' /\ p \in Threads /\ Producers \subseteq Threads /\ Consumers \subseteq Threads
      /\ \A c \in Consumers : c # p
  BY <1>1, MutexTypeInv, ThreadAssumption DEF Threads
<1>3. CASE ProducerLock(p)
  <2>1. pc'[p] = "inc" /\ \A u \in Threads : u # p => pc'[u] = pc[u]
    BY <1>1, <1>2, <1>3, ThreadGotoFacts DEF ProducerLock
  <2>2. /\ ~pLocked /\ pLocked'
        /\ UNCHANGED <<two, cLocked, sharedData, reg, made, taken>>
    BY <1>3 DEF ProducerLock
  <2>3. Apart' /\ Kept' /\ EveryIncrementCounts'
    BY <1>1, <1>2, <2>1, <2>2 DEF Apart, Kept, EveryIncrementCounts, PIn
  <2>4. two => Token'
    BY <1>1, <1>2, <2>1, <2>2 DEF Token, PIn, CIn
  <2>5. two => Known'
    BY <1>1, <1>2, <2>1, <2>2 DEF Known, Token
  <2> QED
    BY <1>2, <2>2, <2>3, <2>4, <2>5 DEF MutexInv
<1>4. CASE Load(p)
  <2>1. pc'[p] = "store" /\ \A u \in Threads : u # p => pc'[u] = pc[u]
    BY <1>1, <1>2, <1>4, ThreadGotoFacts DEF Load
  <2>2. /\ pc[p] = "inc" /\ UNCHANGED <<two, pLocked, cLocked, sharedData, made, taken>>
    BY <1>4 DEF Load, ThreadAt
  <2>3. reg'[p] = sharedData /\ \A q \in Producers : q # p => reg'[q] = reg[q]
    BY <1>1, <1>4 DEF Load, MutexTypeOK
  <2>4. Apart' /\ Kept' /\ EveryIncrementCounts'
    BY <1>1, <1>2, <2>1, <2>2, <2>3 DEF Apart, Kept, EveryIncrementCounts, PIn
  <2>5. two => Token'
    BY <1>1, <1>2, <2>1, <2>2 DEF Token, PIn, CIn
  <2>6. two => Known'
    BY <1>1, <1>2, <2>1, <2>2 DEF Known
  <2> QED
    BY <1>2, <2>2, <2>4, <2>5, <2>6 DEF MutexInv
<1>5. CASE Store(p)
  <2>1. pc'[p] = "unlock" /\ \A u \in Threads : u # p => pc'[u] = pc[u]
    BY <1>1, <1>2, <1>5, ThreadGotoFacts DEF Store
  <2>2. /\ pc[p] = "store" /\ UNCHANGED <<two, pLocked, cLocked, reg, taken>>
        /\ reg[p] = sharedData /\ sharedData' = Next1(sharedData) /\ made' = Next1(made)
    BY <1>1, <1>5 DEF Store, ThreadAt, Kept
  <2>3. \A q \in Producers : q # p => ~PIn(q) /\ pc'[q] = pc[q]
    BY <1>1, <1>2, <2>1, <2>2 DEF Apart, PIn
  <2>4. Apart' /\ Kept' /\ EveryIncrementCounts'
    BY <1>1, <1>2, <2>1, <2>2, <2>3 DEF Apart, Kept, EveryIncrementCounts, PIn
  <2>5. two => Token'
    BY <1>1, <1>2, <2>1, <2>2 DEF Token, PIn, CIn
  <2>6. two => Known'
    BY <1>1, <1>2, <2>1, <2>2, <2>3 DEF Known, Token, Apart, PIn, CIn
  <2> QED
    BY <1>2, <2>2, <2>4, <2>5, <2>6 DEF MutexInv
<1>6. CASE ProducerUnlock(p)
  <2>1. pc'[p] = "key" /\ \A u \in Threads : u # p => pc'[u] = pc[u]
    BY <1>1, <1>2, <1>6, ThreadGotoFacts DEF ProducerUnlock
  <2>2. /\ pc[p] = "unlock" /\ UNCHANGED <<two, sharedData, reg, made, taken>>
        /\ two => ~cLocked' /\ pLocked' = pLocked
        /\ ~two => ~pLocked' /\ cLocked' = cLocked
    BY <1>6 DEF ProducerUnlock, ThreadAt
  <2>3. \A q \in Producers : q # p => ~PIn(q) /\ pc'[q] = pc[q]
    BY <1>1, <1>2, <2>1, <2>2 DEF Apart, PIn
  <2>4. Apart' /\ Kept' /\ EveryIncrementCounts'
    BY <1>1, <1>2, <2>1, <2>2, <2>3 DEF Apart, Kept, EveryIncrementCounts, PIn
  <2>5. two => Token'
    BY <1>1, <1>2, <2>1, <2>2, <2>3 DEF Token, Apart, PIn, CIn
  <2>6. two => Known'
    BY <1>1, <1>2, <2>1, <2>2, <2>3 DEF Known, Token, Apart, PIn, CIn
  <2> QED
    BY <1>2, <2>2, <2>4, <2>5, <2>6 DEF MutexInv
<1>7. CASE Key(p)
  <2>1. pc'[p] = "lock" /\ \A u \in Threads : u # p => pc'[u] = pc[u]
    BY <1>1, <1>2, <1>7, ThreadGotoFacts DEF Key
  <2>2. UNCHANGED <<two, pLocked, cLocked, sharedData, reg, made, taken>>
    BY <1>7 DEF Key
  <2> QED
    BY <1>1, <1>2, <2>1, <2>2
       DEF MutexInv, Apart, Kept, EveryIncrementCounts, Token, Known, PIn, CIn
<1> QED
  BY <1>3, <1>4, <1>5, <1>6, <1>7 DEF Producer

LEMMA ConsumerInv ==
  ASSUME MutexInv, NEW c \in Consumers, Consumer(c)
  PROVE  MutexInv'
<1>1. MutexTypeOK /\ Apart /\ Kept /\ EveryIncrementCounts /\ (two => Token /\ Known)
  BY DEF MutexInv
<1>2. MutexTypeOK' /\ c \in Threads /\ Producers \subseteq Threads /\ Consumers \subseteq Threads
      /\ \A p \in Producers : c # p
  BY <1>1, MutexTypeInv, ThreadAssumption DEF Threads
<1>3. CASE ConsumerLock(c)
  <2>1. pc'[c] = "read" /\ \A u \in Threads : u # c => pc'[u] = pc[u]
    BY <1>1, <1>2, <1>3, ThreadGotoFacts DEF ConsumerLock
  <2>2. /\ two => ~cLocked /\ cLocked'
        /\ UNCHANGED <<two, pLocked, sharedData, reg, made, taken>>
    BY <1>3 DEF ConsumerLock
  <2>3. Apart' /\ Kept' /\ EveryIncrementCounts'
    BY <1>1, <1>2, <2>1, <2>2 DEF Apart, Kept, EveryIncrementCounts, PIn
  <2>4. two => Token'
    BY <1>1, <1>2, <2>1, <2>2 DEF Token, PIn, CIn
  <2>5. two => Known'
    BY <1>1, <1>2, <2>1, <2>2 DEF Known, Token
  <2> QED
    BY <1>2, <2>2, <2>3, <2>4, <2>5 DEF MutexInv
<1>4. CASE ReadValue(c)
  <2>1. pc'[c] = "unlock" /\ \A u \in Threads : u # c => pc'[u] = pc[u]
    BY <1>1, <1>2, <1>4, ThreadGotoFacts DEF ReadValue
  <2>2. /\ pc[c] = "read" /\ taken' = sharedData
        /\ UNCHANGED <<two, pLocked, cLocked, sharedData, reg, made>>
    BY <1>4 DEF ReadValue, ThreadAt
  <2>3. Apart' /\ Kept' /\ EveryIncrementCounts'
    BY <1>1, <1>2, <2>1, <2>2 DEF Apart, Kept, EveryIncrementCounts, PIn
  <2>4. two => Token'
    BY <1>1, <1>2, <2>1, <2>2 DEF Token, PIn, CIn
  <2>5. two => Known'
    BY <1>1, <1>2, <2>1, <2>2 DEF Known, Token, PIn, CIn
  <2> QED
    BY <1>2, <2>2, <2>3, <2>4, <2>5 DEF MutexInv
<1>5. CASE ConsumerUnlock(c)
  <2>1. pc'[c] = "key" /\ \A u \in Threads : u # c => pc'[u] = pc[u]
    BY <1>1, <1>2, <1>5, ThreadGotoFacts DEF ConsumerUnlock
  <2>2. /\ pc[c] = "unlock" /\ (two => ~pLocked') /\ (~two => pLocked' = pLocked)
        /\ UNCHANGED <<two, cLocked, sharedData, reg, made, taken>>
    BY <1>1, <1>5 DEF ConsumerUnlock, ThreadAt, MutexTypeOK
  <2>3. two => \A p \in Producers : ~PIn(p) /\ pc'[p] = pc[p]
    BY <1>1, <1>2, <2>1, <2>2 DEF Token, CIn
  <2>4. Apart' /\ Kept' /\ EveryIncrementCounts'
    BY <1>1, <1>2, <2>1, <2>2, <2>3 DEF Apart, Kept, EveryIncrementCounts, PIn
  <2>5. two => Token'
    BY <1>1, <1>2, <2>1, <2>2, <2>3 DEF Token, PIn, CIn
  <2>6. two => Known'
    BY <1>1, <1>2, <2>1, <2>2 DEF Known, Token, PIn, CIn
  <2> QED
    BY <1>2, <2>2, <2>4, <2>5, <2>6 DEF MutexInv
<1>6. CASE Key(c)
  <2>1. pc'[c] = "lock" /\ \A u \in Threads : u # c => pc'[u] = pc[u]
    BY <1>1, <1>2, <1>6, ThreadGotoFacts DEF Key
  <2>2. UNCHANGED <<two, pLocked, cLocked, sharedData, reg, made, taken>>
    BY <1>6 DEF Key
  <2> QED
    BY <1>1, <1>2, <2>1, <2>2
       DEF MutexInv, Apart, Kept, EveryIncrementCounts, Token, Known, PIn, CIn
<1> QED
  BY <1>3, <1>4, <1>5, <1>6 DEF Consumer

LEMMA MutexNextInv == MutexInv /\ [MutexNext]_mutexVars => MutexInv'
<1> SUFFICES ASSUME MutexInv, [MutexNext]_mutexVars PROVE MutexInv'
  OBVIOUS
<1>1. CASE UNCHANGED mutexVars
  BY <1>1 DEF mutexVars, MutexInv, MutexTypeOK, Apart, Kept, EveryIncrementCounts, Token, Known, PIn, CIn
<1>2. CASE MutexNext
  BY <1>2, ProducerInv, ConsumerInv DEF MutexNext
<1> QED
  BY <1>1, <1>2

-----------------------------------------------------------------------------
\* Every variable of the two programs keeps its type.
THEOREM MutexTypeCorrect == MutexSpec => []MutexTypeOK
<1>1. MutexInv => MutexTypeOK
  BY DEF MutexInv
<1> QED
  BY <1>1, MutexInitInv, MutexNextInv, PTL DEF MutexSpec

\* No increment of sharedData is lost, in either program.
THEOREM NoIncrementLost == MutexSpec => []EveryIncrementCounts
<1>1. MutexInv => EveryIncrementCounts
  BY DEF MutexInv
<1> QED
  BY <1>1, MutexInitInv, MutexNextInv, PTL DEF MutexSpec

\* In threadMutex2.c each value is read once, before the next is made.
THEOREM EachValueHandedOver == MutexSpec => HandedOver
<1>1. MutexInv /\ [MutexNext]_mutexVars => [ReadBetween]_mutexVars
  <2> SUFFICES ASSUME MutexInv, two, MutexNext PROVE ReadBetween
    BY DEF ReadBetween
  <2>1. Known
    BY DEF MutexInv
  <2>2. sharedData' # sharedData => taken = sharedData
    <3>1. ASSUME NEW p \in Producers, Producer(p), sharedData' # sharedData
          PROVE  pc[p] = "store"
      BY <3>1 DEF Producer, ProducerLock, Load, Store, ProducerUnlock, Key, ThreadAt
    <3>2. ASSUME NEW c \in Consumers, Consumer(c)
          PROVE  sharedData' = sharedData
      BY <3>2 DEF Consumer, ConsumerLock, ReadValue, ConsumerUnlock, Key
    <3> QED
      BY <2>1, <3>1, <3>2 DEF MutexNext, Known
  <2>3. \A c \in Consumers : ThreadAt(c, "read") => sharedData = Next1(taken)
    BY <2>1 DEF Known, ThreadAt
  <2> QED
    BY <2>2, <2>3 DEF ReadBetween
<1> QED
  BY <1>1, MutexInitInv, MutexNextInv, PTL DEF MutexSpec, HandedOver

-----------------------------------------------------------------------------
(***************************************************************************)
(* SharedTask, for any number of workers, server starts and texts: a       *)
(* report is right when one worker alone was at work on the text.          *)
(*                                                                         *)
(* Status 1 is seen only while the server waits (Offered). From the new    *)
(* text to the report, the one worker that claimed it goes through its     *)
(* steps in order, and what it has done so far can be read off its program *)
(* counter (Progress); status 3 is its doing.                              *)
(***************************************************************************)
Offered == status = 1 => server = "wait"

\* The server has made a text and not yet finished with the answer.
Answering == server \in {"post", "wait", "took", "print", "clear"}

\* How far w is with the text: what the segment holds then.
Progress(w) ==
  /\ worker[w] = "claim" => status = 1
  /\ worker[w] \in {"claim", "sign", "strlen"} => data = Text(asked)
  /\ worker[w] \in {"sign", "strlen", "sprintf", "done"} => status = 2
  /\ worker[w] \notin {"claim", "sign"} => worker_pid = w
  /\ worker[w] = "sprintf" => length[w] = asked
  /\ w \notin AtWork \/ worker[w] = "done" => data = Decimal(asked)
  /\ w \in AtWork => server = "wait"

OneClaim ==
  (alone /\ Answering) =>
     /\ AtWork \subseteq seen
     /\ \A v, w \in seen : v = w
     /\ \A w \in seen : Progress(w)
     /\ seen = {} => /\ server \in {"post", "wait"}
                     /\ server = "wait" => status = 1
                     /\ data = Text(asked)
     /\ server = "post" => seen = {}

TaskInv == TaskTypeOK /\ Offered /\ OneClaim

\* The actions are written with these.
USE DEF ServerGoes, ServerSets, WorkerSets

-----------------------------------------------------------------------------
LEMMA DataFacts ==
  ASSUME NEW d \in {Text(n) : n \in Numbers} \cup {Decimal(n) : n \in Numbers}
  PROVE  d.len \in Numbers
BY DEF Text, Decimal, Numbers

LEMMA TaskInitInv == TaskInit => TaskInv
<1> SUFFICES ASSUME TaskInit PROVE TaskInv
  OBVIOUS
<1>1. TaskTypeOK
  <2>1. 0 \in Numbers /\ 0 \in -1 .. 4 /\ 0 \in 0 .. MaxServers
    BY TaskAssumption DEF Numbers
  <2>2. data \in {Text(n) : n \in Numbers}
    BY <2>1 DEF TaskInit
  <2>3. worker \in [Workers -> WorkerPCs] /\ length \in [Workers -> Numbers]
    BY <2>1 DEF TaskInit, WorkerPCs
  <2>4. created \in BOOLEAN /\ alone \in BOOLEAN
    BY Zenon DEF TaskInit
  <2>5. server \in ServerPCs /\ stop \in {"none", "early", "rest", "busy"}
    BY DEF TaskInit, ServerPCs
  <2> QED
    BY <2>1, <2>2, <2>3, <2>4, <2>5, Zenon DEF TaskInit, TaskTypeOK
<1>2. Offered /\ OneClaim
  BY DEF TaskInit, Offered, OneClaim, Answering
<1> QED
  BY <1>1, <1>2 DEF TaskInv

\* Every step keeps the types.
LEMMA TaskTypeInv == TaskTypeOK /\ [TaskNext]_taskVars => TaskTypeOK'
<1> SUFFICES ASSUME TaskTypeOK, [TaskNext]_taskVars PROVE TaskTypeOK'
  OBVIOUS
<1> USE TaskAssumption DEF TaskTypeOK
<1>1. CASE UNCHANGED taskVars
  BY <1>1 DEF taskVars, segment, taskHistory
<1>2. CASE ServerStart
  BY <1>2 DEF ServerStart, segment, ServerPCs
<1>3. CASE Serve
  <2>1. CASE ServerInit \/ Arm \/ Post \/ SeeDone \/ Took \/ Report \/ ClearStatus
    BY <2>1 DEF ServerInit, Arm, Post, SeeDone, Took, Report, ClearStatus, segment,
                taskHistory, ServerPCs
  <2>2. CASE Generate
    BY <2>2 DEF Generate, ServerPCs, Numbers
  <2> QED
    BY <1>3, <2>1, <2>2 DEF Serve
<1>4. CASE Interrupt
  BY <1>4 DEF Interrupt, Manner, ServerPCs
<1>5. ASSUME NEW w \in Workers, WorkerStart(w) \/ Work(w)
      PROVE  TaskTypeOK'
  <2>1. worker' \in [Workers -> WorkerPCs]
    BY <1>5 DEF Work, WorkerStart, Poll, Test, Claim, Sign, Measure, WriteLength, Finish,
                WorkerGoto, WorkerPCs
  <2>2. CASE WorkerStart(w) \/ Poll(w)
    BY <2>1, <2>2 DEF WorkerStart, Poll, segment, taskHistory
  <2>5. CASE Test(w)
    <3>1. alone' \in BOOLEAN
      BY <2>5, Zenon DEF Test
    <3>2. seen' \subseteq Workers
      BY <2>5, Zenon DEF Test
    <3> QED
      BY <2>1, <2>5, <3>1, <3>2, Zenon DEF Test, segment
  <2>6. CASE Claim(w) \/ Finish(w)
    <3>1. status' \in -1 .. 4
      BY <2>6 DEF Claim, Finish
    <3> QED
      BY <2>1, <2>6, <3>1, Zenon DEF Claim, Finish, taskHistory
  <2>7. CASE Sign(w)
    BY <2>1, <2>7 DEF Sign, taskHistory
  <2>3. CASE Measure(w)
    <3>1. data.len \in Numbers
      BY DataFacts
    <3> QED
      BY <2>1, <2>3, <3>1 DEF Measure, segment, taskHistory
  <2>4. CASE WriteLength(w)
    <3>1. length[w] \in Numbers
      OBVIOUS
    <3> QED
      BY <2>1, <2>4, <3>1 DEF WriteLength, taskHistory
  <2> QED
    BY <1>5, <2>2, <2>3, <2>4, <2>5, <2>6, <2>7 DEF Work
<1> QED
  BY <1>1, <1>2, <1>3, <1>4, <1>5 DEF TaskNext

\* The server's steps.
LEMMA ServerInv ==
  ASSUME TaskInv, ServerStart \/ Serve \/ Interrupt
  PROVE  Offered' /\ OneClaim'
<1>1. Offered /\ OneClaim
  BY DEF TaskInv
<1>2. CASE ServerStart \/ ServerInit \/ Arm \/ Interrupt \/ ClearStatus
  <2>1. ~Answering'
    BY <1>2 DEF ServerStart, ServerInit, Arm, Interrupt, ClearStatus, Answering
  <2>2. Offered'
    BY <1>1, <1>2 DEF ServerStart, ServerInit, Arm, Interrupt, ClearStatus, Offered,
                      segment, Unarmed
  <2> QED
    BY <2>1, <2>2 DEF OneClaim
<1>3. CASE Generate
  BY <1>1, <1>3 DEF Generate, Offered, OneClaim, Answering, AtWork
<1>4. CASE Post
  BY <1>1, <1>4 DEF Post, Offered, OneClaim, Answering, AtWork, taskHistory
<1>5. CASE SeeDone
  <2>1. Offered'
    BY <1>5 DEF SeeDone, Offered, segment
  <2>2. ASSUME alone
        PROVE  seen # {} /\ \A w \in seen : w \notin AtWork
    BY <1>1, <1>5, <2>2 DEF SeeDone, OneClaim, Answering, Progress, AtWork
  <2>3. OneClaim'
    BY <1>1, <1>5, <2>2 DEF SeeDone, OneClaim, Answering, Progress, AtWork, segment, taskHistory
  <2> QED
    BY <2>1, <2>3
<1>6. CASE Took \/ Report
  <2>1. Offered'
    BY <1>1, <1>6 DEF Took, Report, Offered, segment
  <2>2. ASSUME alone
        PROVE  seen # {} /\ \A w \in seen : w \notin AtWork
    BY <1>1, <1>6, <2>2 DEF Took, Report, OneClaim, Answering, Progress
  <2>3. /\ Answering /\ Answering' /\ server' \in {"print", "clear"} /\ AtWork' = AtWork
        /\ UNCHANGED <<data, worker_pid, worker, length, taskHistory>>
    BY <1>6 DEF Took, Report, Answering, AtWork, segment
  <2>4. ASSUME alone, NEW w \in seen
        PROVE  Progress(w)'
    <3>1. Progress(w) /\ w \notin AtWork /\ w \in Workers
      BY <1>1, <2>2, <2>3, <2>4 DEF OneClaim, TaskInv, TaskTypeOK
    <3>2. worker[w] \notin {"claim", "sign", "strlen", "sprintf", "done"}
      BY <3>1 DEF AtWork
    <3> QED
      BY <2>3, <3>1, <3>2 DEF Progress, taskHistory
  <2>5. OneClaim'
    BY <1>1, <2>2, <2>3, <2>4 DEF OneClaim, taskHistory
  <2> QED
    BY <2>1, <2>5
<1> QED
  BY <1>2, <1>3, <1>4, <1>5, <1>6 DEF Serve

-----------------------------------------------------------------------------
LEMMA WorkerGotoFacts ==
  ASSUME TaskTypeOK, NEW w \in Workers, NEW l, WorkerGoto(w, l)
  PROVE  worker'[w] = l /\ \A v \in Workers : v # w => worker'[v] = worker[v]
BY DEF TaskTypeOK, WorkerGoto

\* A worker that is not at work takes a step and does not claim the text.
LEMMA IdleInv ==
  ASSUME TaskInv, NEW w \in Workers, WorkerStart(w) \/ Poll(w) \/ (Test(w) /\ status # 1)
  PROVE  Offered' /\ OneClaim'
<1>1. TaskTypeOK /\ Offered /\ OneClaim
  BY DEF TaskInv
<1>2. worker[w] \in {"none", "poll", "test"} /\ worker'[w] \in {"poll", "test", "ended"}
  BY <1>1, WorkerGotoFacts DEF WorkerStart, Poll, Test
<1>3. \A v \in Workers : v # w => worker'[v] = worker[v]
  BY <1>1, WorkerGotoFacts DEF WorkerStart, Poll, Test
<1>4. UNCHANGED <<segment, server, length, taskHistory>>
  BY DEF WorkerStart, Poll, Test, taskHistory
<1>5. AtWork' = AtWork
  BY <1>2, <1>3 DEF AtWork
<1>6. Offered'
  BY <1>1, <1>4 DEF Offered, segment
<1>7. ASSUME alone, Answering, NEW v \in seen, Progress(v)
      PROVE  Progress(v)'
  <2>1. v \in Workers
    BY <1>1, <1>7 DEF TaskTypeOK
  <2> QED
    BY <1>2, <1>3, <1>4, <1>5, <1>7, <2>1 DEF Progress, segment, taskHistory, AtWork
<1> QED
  BY <1>1, <1>4, <1>5, <1>6, <1>7 DEF OneClaim, Answering, segment, taskHistory

\* The first worker to find status 1.
LEMMA TestInv ==
  ASSUME TaskInv, NEW w \in Workers, Test(w), status = 1
  PROVE  Offered' /\ OneClaim'
<1>1. TaskTypeOK /\ Offered /\ OneClaim
  BY DEF TaskInv
<1>2. worker[w] = "test" /\ worker'[w] = "claim"
  BY <1>1, WorkerGotoFacts DEF Test
<1>3. \A v \in Workers : v # w => worker'[v] = worker[v]
  BY <1>1, WorkerGotoFacts DEF Test
<1>4. /\ UNCHANGED <<segment, server, length, asked>>
      /\ seen' = seen \cup {w} /\ alone' = (alone /\ seen = {})
  BY DEF Test
<1>5. server = "wait" /\ Offered'
  BY <1>1, <1>4 DEF Offered, segment
<1>6. ASSUME alone'
      PROVE  /\ seen' = {w} /\ AtWork' \subseteq {w}
             /\ Progress(w)'
  <2>1. alone /\ seen = {}
    BY <1>4, <1>6 DEF TaskTypeOK
  <2>2. AtWork = {} /\ data = Text(asked)
    BY <1>1, <1>5, <2>1 DEF OneClaim, Answering
  <2>3. AtWork' \subseteq {w}
    BY <1>3, <2>2 DEF AtWork
  <2>4. Progress(w)'
    BY <1>2, <1>4, <1>5, <2>2 DEF Progress, segment, AtWork
  <2> QED
    BY <1>4, <2>1, <2>3, <2>4
<1> QED
  BY <1>4, <1>5, <1>6 DEF OneClaim

\* A worker at work takes a step.
LEMMA WorkInv ==
  ASSUME TaskInv, NEW w \in Workers,
         Claim(w) \/ Sign(w) \/ Measure(w) \/ WriteLength(w) \/ Finish(w)
  PROVE  Offered' /\ OneClaim'
<1>1. TaskTypeOK /\ Offered /\ OneClaim
  BY DEF TaskInv
<1>2. w \in AtWork
  BY DEF AtWork, Claim, Sign, Measure, WriteLength, Finish
<1>3. \A v \in Workers : v # w => worker'[v] = worker[v]
  BY <1>1, WorkerGotoFacts DEF Claim, Sign, Measure, WriteLength, Finish
<1>4. UNCHANGED <<server, taskHistory>>
  BY DEF Claim, Sign, Measure, WriteLength, Finish
<1>5. Offered'
  BY <1>1, <1>4 DEF Claim, Sign, Measure, WriteLength, Finish, Offered, segment
<1>6. AtWork' \subseteq AtWork
  BY <1>2, <1>3 DEF AtWork
<1>7. ASSUME alone, Answering
      PROVE  w \in seen /\ (\A v \in seen : v = w) /\ Progress(w)
  BY <1>1, <1>2, <1>7 DEF OneClaim
<1>8. ASSUME alone, Answering
      PROVE  Progress(w)'
  <2>1. Progress(w)
    BY <1>7, <1>8
  <2>2. CASE Claim(w)
    <3>1. worker[w] = "claim" /\ worker'[w] = "sign"
      BY <1>1, <2>2, WorkerGotoFacts DEF Claim
    <3> QED
      BY <1>4, <2>1, <2>2, <3>1 DEF Claim, Progress, AtWork, taskHistory
  <2>3. CASE Sign(w)
    <3>1. worker[w] = "sign" /\ worker'[w] = "strlen"
      BY <1>1, <2>3, WorkerGotoFacts DEF Sign
    <3> QED
      BY <1>4, <2>1, <2>3, <3>1 DEF Sign, Progress, AtWork, taskHistory
  <2>4. CASE Measure(w)
    <3>1. worker[w] = "strlen" /\ worker'[w] = "sprintf"
      BY <1>1, <2>4, WorkerGotoFacts DEF Measure
    <3>2. length'[w] = asked
      BY <1>1, <2>1, <2>4, <3>1 DEF Measure, Progress, Text, TaskTypeOK
    <3> QED
      BY <1>4, <2>1, <2>4, <3>1, <3>2 DEF Measure, Progress, AtWork, taskHistory, segment
  <2>5. CASE WriteLength(w)
    <3>1. worker[w] = "sprintf" /\ worker'[w] = "done"
      BY <1>1, <2>5, WorkerGotoFacts DEF WriteLength
    <3> QED
      BY <1>4, <2>1, <2>5, <3>1 DEF WriteLength, Progress, AtWork, taskHistory
  <2>6. CASE Finish(w)
    <3>1. worker[w] = "done" /\ worker'[w] = "poll"
      BY <1>1, <2>6, WorkerGotoFacts DEF Finish
    <3> QED
      BY <1>4, <2>1, <2>6, <3>1 DEF Finish, Progress, AtWork, taskHistory
  <2> QED
    BY <2>2, <2>3, <2>4, <2>5, <2>6
<1>9. ASSUME alone, Answering
      PROVE  server = "wait"
  BY <1>2, <1>7, <1>9 DEF Progress
<1> QED
  BY <1>1, <1>4, <1>5, <1>6, <1>7, <1>8, <1>9 DEF OneClaim, Answering, taskHistory

LEMMA TaskNextInv == TaskInv /\ [TaskNext]_taskVars => TaskInv'
<1> SUFFICES ASSUME TaskInv, [TaskNext]_taskVars PROVE TaskInv'
  OBVIOUS
<1>1. TaskTypeOK'
  BY TaskTypeInv DEF TaskInv
<1>2. CASE UNCHANGED taskVars
  <2>1. Offered' /\ OneClaim'
    BY <1>2 DEF TaskInv, Offered, OneClaim, Answering, Progress, AtWork, taskVars, segment, taskHistory
  <2> QED
    BY <1>1, <2>1 DEF TaskInv
<1>3. CASE TaskNext
  <2>1. Offered' /\ OneClaim'
    BY <1>3, ServerInv, IdleInv, TestInv, WorkInv DEF TaskNext, Work
  <2> QED
    BY <1>1, <2>1 DEF TaskInv
<1> QED
  BY <1>2, <1>3

\* The type invariant of the server and any number of workers.
THEOREM TaskTypeCorrect == TaskSpec => []TaskTypeOK
<1>1. TaskInv => TaskTypeOK
  BY DEF TaskInv
<1> QED
  BY <1>1, TaskInitInv, TaskNextInv, PTL DEF TaskSpec

\* What the server prints is the length of its text and the process that computed
\* it, however often the server was restarted, as long as no second worker was at
\* work on that text.
THEOREM ReportsRight == TaskSpec => []ReportRight
<1>1. TaskInv => ReportRight
  <2> SUFFICES ASSUME TaskInv, server = "print", alone
               PROVE  data.num = asked /\ worker_pid \in seen
    BY DEF ReportRight
  <2>1. PICK w \in seen : Progress(w)
    BY DEF TaskInv, OneClaim, Answering
  <2>2. w \notin AtWork
    BY <2>1 DEF Progress
  <2>3. worker_pid = w /\ data = Decimal(asked)
    BY <2>1, <2>2 DEF Progress, AtWork, TaskInv, TaskTypeOK
  <2> QED
    BY <2>1, <2>3 DEF Decimal
<1> QED
  BY <1>1, TaskInitInv, TaskNextInv, PTL DEF TaskSpec
=============================================================================
