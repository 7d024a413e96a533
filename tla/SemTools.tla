------------------------------ MODULE SemTools ------------------------------
(***************************************************************************)
(* The System V semaphore programs of Assignment 6.  semDemo.c and t.c are *)
(* the same tool: every run of it is a process that looks a set up, makes  *)
(* one call on it and ends.  sem1.c is a program that forks, and both      *)
(* processes pass one semaphore as a mutex.  All of them share one key.    *)
(*                                                                         *)
(* Every operation carries SEM_UNDO, so that the kernel takes it back when *)
(* the process ends, however it ends.  The kernel is modelled as far as    *)
(* the programs rely on it: a value per semaphore, an adjustment per       *)
(* process and semaphore, and processes that sleep in semop.               *)
(***************************************************************************)
EXTENDS Integers, FiniteSets, FiniteSetsExt

CONSTANTS Procs,      \* processes that may run one of the programs
          Menu,       \* command lines: [op, i, v]
          SEMVMX,     \* largest value of a semaphore, and of a C short
          MaxSems,    \* most semaphores a set is created with
          MaxStarts,  \* bound on the programs started
          MaxKills    \* bound on the processes killed

All == -1             \* no semaphore number on the command line

Ops == {"create", "set", "get", "inc", "dcr", "rm", "listp", "sem1"}
Sems == 0 .. MaxSems - 1

ASSUME SemAssumption ==
  /\ IsFiniteSet(Procs)
  /\ SEMVMX \in Nat \ {0} /\ MaxSems \in Nat \ {0}
  /\ MaxStarts \in Nat /\ MaxKills \in Nat
  /\ Menu \subseteq [op : Ops, i : Nat \cup {All}, v : Int]

VARIABLES semid,      \* the set the key names, 0 when there is none
          lastid,     \* the identifier given to the last set
          nsems, val, \* its size and values
          adj,        \* adj[p][s]: what the kernel adds to s when p ends
          pr,         \* what each process is doing
          base,       \* history: what s was created with or last set to
          cut,        \* history: the sides on which an undo was cut short since
          trusted,    \* history: nothing but P, V, dcr and reading commands
                      \* has touched semaphore 0 since it was set to 1
          starts, kills

kernel  == <<semid, lastid, nsems, val, adj>>
history == <<base, cut, trusted>>
bounds  == <<starts, kills>>
vars    == <<kernel, pr, history, bounds>>

Idle == [pc |-> "idle", cmd |-> [op |-> "get", i |-> All, v |-> 0], id |-> 0, k |-> 0]
At(p, pc) == pr[p].pc = pc
Cmd(p) == pr[p].cmd
Goto(p, pc) == pr' = [pr EXCEPT ![p].pc = pc]

\* The identifier semget returned still names the set, and s is one of its
\* semaphores; otherwise semop and semctl fail.
Held(p) == semid # 0 /\ pr[p].id = semid
Reaches(p, s) == Held(p) /\ s \in 0 .. nsems - 1

InCS == {p \in Procs : At(p, "cs")}
\* A process of sem1 whose set was removed: its P will fail and be ignored.
Strays == {p \in Procs : /\ Cmd(p).op = "sem1"
                         /\ pr[p].pc \notin {"idle", "exit"} /\ ~Held(p)}

Init ==
  /\ semid = 0 /\ lastid = 0 /\ nsems = 0
  /\ val = [s \in Sems |-> 0]
  /\ adj = [p \in Procs |-> [s \in Sems |-> 0]]
  /\ pr = [p \in Procs |-> Idle]
  /\ base = [s \in Sems |-> 0] /\ cut = [s \in Sems |-> {}] /\ trusted = FALSE
  /\ starts = 0 /\ kills = 0

-----------------------------------------------------------------------------
(* Looking the set up.                                                     *)

NewSet(n) ==
  /\ semid' = lastid + 1 /\ lastid' = lastid + 1 /\ nsems' = n
  /\ val' = [s \in Sems |-> 0] /\ adj' = [p \in Procs |-> [s \in Sems |-> 0]]
  /\ base' = [s \in Sems |-> 0] /\ cut' = [s \in Sems |-> {}] /\ trusted' = FALSE

Begin(p, c, pc, id) ==
  /\ At(p, "idle") /\ starts < MaxStarts
  /\ starts' = starts + 1 /\ kills' = kills
  /\ pr' = [pr EXCEPT ![p] = [pc |-> pc, cmd |-> c, id |-> id, k |-> 0]]

\* create fails when the key has a set (IPC_EXCL) or the size is wrong.
Create(p) ==
  \E c \in {m \in Menu : m.op = "create"} :
     /\ Begin(p, c, "exit", 0)
     /\ IF semid = 0 /\ c.v \in 1 .. MaxSems THEN NewSet(c.v) ELSE UNCHANGED <<kernel, history>>

\* The other commands give up when the key has no set.
Open(p) ==
  \E c \in {m \in Menu : m.op \notin {"create", "sem1"}} :
     /\ Begin(p, c, IF semid = 0 THEN "exit" ELSE "called", semid)
     /\ UNCHANGED <<kernel, history>>

\* sem1 takes the set there is or creates one of one semaphore.
Sem1Open(p) ==
  \E c \in {m \in Menu : m.op = "sem1"} :
     \/ /\ semid = 0 /\ NewSet(1) /\ Begin(p, c, "init", lastid + 1)
     \/ /\ semid # 0 /\ Begin(p, c, "init", semid) /\ UNCHANGED <<kernel, history>>

-----------------------------------------------------------------------------
(* The one call of a command.                                              *)

\* SETVAL also forgets what every process would have undone on s.
SetValue(s, v) ==
  /\ val' = [val EXCEPT ![s] = v]
  /\ adj' = [p \in Procs |-> [adj[p] EXCEPT ![s] = 0]]
  /\ base' = [base EXCEPT ![s] = v] /\ cut' = [cut EXCEPT ![s] = {}]
  /\ trusted' = IF s = 0 THEN v = 1 /\ InCS = {} /\ Strays = {} ELSE trusted
  /\ UNCHANGED <<semid, lastid, nsems>>

Set(p) ==
  /\ At(p, "called") /\ Cmd(p).op = "set" /\ Goto(p, "exit")
  /\ IF Reaches(p, Cmd(p).i) /\ Cmd(p).v \in 0 .. SEMVMX
       THEN SetValue(Cmd(p).i, Cmd(p).v)
       ELSE UNCHANGED <<kernel, history>>
  /\ UNCHANGED bounds

Remove(p) ==
  /\ At(p, "called") /\ Cmd(p).op = "rm" /\ Goto(p, "exit")
  /\ IF Held(p) THEN semid' = 0 /\ trusted' = FALSE ELSE UNCHANGED <<semid, trusted>>
  /\ UNCHANGED <<lastid, nsems, val, adj, base, cut, bounds>>

\* get and listp: one semctl for a semaphore, or one for each in turn, until
\* one fails because the set has gone.
Read(p) ==
  LET c == Cmd(p)
      last == IF c.i = All THEN pr[p].k = nsems - 1 ELSE TRUE
      s == IF c.i = All THEN pr[p].k ELSE c.i
  IN /\ At(p, "called") /\ c.op \in {"get", "listp"}
     /\ pr' = IF Reaches(p, s) /\ ~last THEN [pr EXCEPT ![p].k = @ + 1]
                                        ELSE [pr EXCEPT ![p].pc = "exit"]
     /\ UNCHANGED <<kernel, history, bounds>>

-----------------------------------------------------------------------------
(* semop.                                                                  *)

\* The command line gives two ints; sem_op is a short, sem_num an unsigned one.
UShort(n) == n % (2 * (SEMVMX + 1))
Short(n) == IF UShort(n) > SEMVMX THEN UShort(n) - 2 * (SEMVMX + 1) ELSE UShort(n)

Delta(p) == CASE Cmd(p).op = "inc" -> Short(Cmd(p).v)
              [] Cmd(p).op = "dcr" -> Short(-Cmd(p).v)
              [] OTHER -> -1                       \* the P of sem1
Sem(p) == IF Cmd(p).op = "sem1" THEN 0 ELSE UShort(Cmd(p).i)

Calling(p) == pr[p].pc \in {"called", "blocked"} /\ Cmd(p).op \in {"inc", "dcr", "sem1"}
\* sem1 does not look at what semop returns.
Returned(p) == IF Cmd(p).op = "sem1" THEN "cs" ELSE "exit"

\* Mutant: an operation without SEM_UNDO.
ApplyKept(p, s, d) == val' = [val EXCEPT ![s] = @ + d] /\ adj' = adj

WouldBlock(s, d) == IF d = 0 THEN val[s] # 0 ELSE val[s] + d < 0
Apply(p, s, d) ==
  /\ val' = [val EXCEPT ![s] = @ + d]
  /\ adj' = [adj EXCEPT ![p][s] = @ - d]

SemOp(p) ==
  LET s == Sem(p)  d == Delta(p)
  IN /\ Calling(p) /\ Reaches(p, s)
     /\ ~WouldBlock(s, d) /\ val[s] + d <= SEMVMX
     /\ Apply(p, s, d) /\ Goto(p, Returned(p))
     /\ trusted' = (trusted /\ (s = 0 => d <= 0))
     /\ UNCHANGED <<semid, lastid, nsems, base, cut, bounds>>

\* Mutant: semop with IPC_NOWAIT.
SleepNot(p) ==
  /\ At(p, "called") /\ Calling(p) /\ Reaches(p, Sem(p)) /\ WouldBlock(Sem(p), Delta(p))
  /\ Goto(p, Returned(p)) /\ UNCHANGED <<kernel, history, bounds>>

Sleep(p) ==
  /\ At(p, "called") /\ Calling(p) /\ Reaches(p, Sem(p)) /\ WouldBlock(Sem(p), Delta(p))
  /\ Goto(p, "blocked") /\ UNCHANGED <<kernel, history, bounds>>

\* ERANGE, EFBIG, EINVAL, or EIDRM for a process that slept.
SemOpFails(p) ==
  /\ Calling(p)
  /\ Reaches(p, Sem(p)) => ~WouldBlock(Sem(p), Delta(p)) /\ val[Sem(p)] + Delta(p) > SEMVMX
  /\ Goto(p, Returned(p)) /\ UNCHANGED <<kernel, history, bounds>>

-----------------------------------------------------------------------------
(* sem1: set the semaphore to 1, fork, and in both processes P, V, end.    *)

Sem1Set(p) ==
  /\ At(p, "init")
  /\ IF Held(p) THEN SetValue(0, 1) /\ Goto(p, "fork")
                ELSE Goto(p, "exit") /\ UNCHANGED <<kernel, history>>
  /\ UNCHANGED bounds

\* When fork fails the program ends, and the semaphore stays at 1.
Sem1Fork(p) ==
  /\ At(p, "fork")
  /\ \/ \E q \in Procs :
           /\ At(q, "idle")
           /\ pr' = [pr EXCEPT ![p].pc = "called", ![q] = [pr[p] EXCEPT !.pc = "called"]]
     \/ Goto(p, "exit")
  /\ UNCHANGED <<kernel, history, bounds>>

\* Mutant: V without SEM_UNDO.
VNoUndo(p) ==
  /\ At(p, "cs") /\ Goto(p, "exit")
  /\ val' = IF Held(p) /\ val[0] + 1 <= SEMVMX THEN [val EXCEPT ![0] = @ + 1] ELSE val
  /\ UNCHANGED <<semid, lastid, nsems, adj, history, bounds>>

V(p) ==
  /\ At(p, "cs") /\ Goto(p, "exit")
  /\ IF Held(p) /\ val[0] + 1 <= SEMVMX THEN Apply(p, 0, 1) ELSE UNCHANGED <<val, adj>>
  /\ UNCHANGED <<semid, lastid, nsems, history, bounds>>

-----------------------------------------------------------------------------
(* The end of a process: the kernel undoes its operations, as far as the   *)
(* value stays between 0 and SEMVMX.                                       *)

Clamp(n) == IF n < 0 THEN 0 ELSE IF n > SEMVMX THEN SEMVMX ELSE n
Undo(p) ==
  /\ val' = [s \in Sems |-> Clamp(val[s] + adj[p][s])]
  /\ adj' = [adj EXCEPT ![p] = [s \in Sems |-> 0]]
  /\ cut' = [s \in Sems |-> cut[s] \cup (IF val[s] + adj[p][s] < 0 THEN {"low"} ELSE {})
                                   \cup (IF val[s] + adj[p][s] > SEMVMX THEN {"high"} ELSE {})]
Ends(p) == /\ Undo(p) /\ pr' = [pr EXCEPT ![p] = Idle]
           /\ UNCHANGED <<semid, lastid, nsems, base, trusted, starts>>

Exit(p) == At(p, "exit") /\ Ends(p) /\ kills' = kills
Kill(p) == ~At(p, "idle") /\ kills < MaxKills /\ kills' = kills + 1 /\ Ends(p)

Step(p) == \/ Set(p) \/ Remove(p) \/ Read(p) \/ Sleep(p) \/ SemOpFails(p)
           \/ Sem1Set(p) \/ Sem1Fork(p) \/ V(p) \/ Exit(p)
Next == \E p \in Procs : Create(p) \/ Open(p) \/ Sem1Open(p) \/ Step(p) \/ SemOp(p) \/ Kill(p)

Spec == Init /\ [][Next]_vars

\* The processes run.  The kernel looks at the sleepers in the order in which
\* they came whenever a value changes, so that one whose turn comes again and
\* again is served.
Fairness == \A p \in Procs : WF_vars(Step(p)) /\ SF_vars(SemOp(p))
FairSpec == Spec /\ Fairness

-----------------------------------------------------------------------------
TypeOK ==
  /\ semid \in Nat /\ lastid \in Nat /\ nsems \in 0 .. MaxSems
  /\ semid # 0 => nsems > 0
  /\ val \in [Sems -> 0 .. SEMVMX]
  /\ adj \in [Procs -> [Sems -> Int]]
  /\ pr \in [Procs -> [pc : {"idle", "called", "blocked", "init", "fork", "cs", "exit"},
                       cmd : [op : Ops, i : Nat \cup {All}, v : Int],
                       id : Nat, k : Nat]]
  /\ base \in [Sems -> 0 .. SEMVMX] /\ cut \in [Sems -> SUBSET {"low", "high"}]
  /\ trusted \in BOOLEAN
  /\ starts \in 0 .. MaxStarts /\ kills \in 0 .. MaxKills

\* SEM_UNDO keeps the books: the value of a semaphore and all that is still to
\* be undone add up to what it was set to, killed processes included, as long
\* as no undo was cut short at 0 (which leaves the value too high) or at
\* SEMVMX (too low).  So an inc or a dcr, whatever it prints, is gone when its
\* process has ended.
Total(s) == val[s] + MapThenSumSet(LAMBDA p : adj[p][s], Procs)
UndoBalances ==
  semid # 0 => \A s \in 0 .. nsems - 1 :
                  /\ "low" \notin cut[s] => Total(s) <= base[s]
                  /\ "high" \notin cut[s] => Total(s) >= base[s]

\* The two processes of sem1, and those of another sem1 started later, are
\* never between P and V at once, whichever of them is killed, as long as
\* nothing sets, raises, creates or removes the semaphore meanwhile.
MutualExclusion == trusted => Cardinality(InCS) <= 1

\* A process that sleeps for an amount the semaphore was set to is served
\* although others were killed with the semaphore in hand, unless an undo was
\* cut at the top of the range.
WaiterServed ==
  \A p \in Procs :
     (At(p, "blocked") /\ Delta(p) < 0)
       ~> (~At(p, "blocked") \/ base[Sem(p)] + Delta(p) < 0 \/ "high" \in cut[Sem(p)])
=============================================================================
