----------------------------- MODULE SharedTask -----------------------------
(***************************************************************************)
(* The server and the workers of Assignment 5, which meet in one segment   *)
(* of shared memory: a text, the process that computed it, and a status    *)
(* word that says whose turn it is.  Nothing but the status word keeps     *)
(* them apart.  Every read and every write of the segment is a step, in    *)
(* the order of the program.                                               *)
(*                                                                         *)
(* A text is known by its length and, when it is one, by the number it     *)
(* spells.  The server writes a new text in one step.                      *)
(***************************************************************************)
EXTENDS Integers, FiniteSets

CONSTANTS Workers,     \* worker processes that may be started
          Nobody,      \* what worker_pid holds at first
          Lengths,     \* lengths of the texts the server makes up
          MaxServers   \* bound on the times a server is started

ASSUME TaskAssumption == /\ Nobody \notin Workers
                         /\ Lengths \subseteq 5 .. 20
                         /\ MaxServers \in Nat

VARIABLES created,     \* the segment exists; nobody ever removes it
          data, worker_pid, status,
          server,      \* where the server is
          worker, length,   \* where a worker is, and what strlen told it
          servers,     \* servers started
          asked,       \* the length of the last text generated
          seen,        \* the workers that have found status 1 since then
          alone,       \* and there was never more than one of them at work
          stop         \* how the last server ended: "none", "early" (before it
                       \* had a handler), "rest" (no worker was at work), "busy"

segment == <<data, worker_pid, status>>
taskHistory == <<asked, seen, alone, stop>>
taskVars == <<created, segment, server, worker, length, servers, taskHistory>>

Text(n)    == [len |-> n, num |-> -1]
Decimal(n) == [len |-> IF n < 10 THEN 1 ELSE 2, num |-> n]

ServerPCs == {"down", "init", "unarmed", "gen", "post", "wait", "took", "print", "clear"}
WorkerPCs == {"none", "poll", "test", "claim", "sign", "strlen", "sprintf", "done",
              "ended"}
AtWork == {w \in Workers : worker[w] \in {"claim", "sign", "strlen", "sprintf", "done"}}

TaskInit == /\ created = FALSE
            /\ data = Text(0) /\ worker_pid = Nobody /\ status = 0
            /\ server = "down"
            /\ worker = [w \in Workers |-> "none"] /\ length = [w \in Workers |-> 0]
            /\ servers = 0
            /\ asked = 0 /\ seen = {} /\ alone = FALSE /\ stop = "none"

-----------------------------------------------------------------------------
(* The server.                                                             *)

ServerStart ==
  /\ server = "down" /\ servers < MaxServers
  /\ server' = "init" /\ created' = TRUE /\ servers' = servers + 1
  /\ stop' = "none"
  /\ UNCHANGED <<segment, worker, length, asked, seen, alone>>

\* The server goes on without a change to the segment, or with a new status.
ServerGoes(from, to) ==
  /\ server = from /\ server' = to
  /\ UNCHANGED <<created, segment, worker, length, servers, taskHistory>>
ServerSets(from, n, to) ==
  /\ server = from /\ server' = to
  /\ status' = n
  /\ UNCHANGED <<created, data, worker_pid, worker, length, servers, taskHistory>>

\* status = 0, and only then signal(SIGINT, cleanup).
ServerInit == ServerSets("init", 0, "unarmed")
Arm == ServerGoes("unarmed", "gen")

Generate ==
  /\ server = "gen" /\ server' = "post"
  /\ \E n \in Lengths : data' = Text(n) /\ asked' = n
  /\ seen' = {} /\ alone' = (AtWork = {})
  /\ UNCHANGED <<created, worker_pid, status, worker, length, servers, stop>>

Post == ServerSets("post", 1, "wait")

\* Mutant: the server does not wait for the answer, only for a worker.
SeeClaimed == status \in {2, 3} /\ ServerGoes("wait", "took")
SeeDone == status = 3 /\ ServerGoes("wait", "took")

Took == ServerSets("took", 4, "print")
Report == ServerGoes("print", "clear")       \* printf of worker_pid and data
ClearStatus == ServerSets("clear", 0, "gen")

Serve == \/ ServerInit \/ Arm \/ Generate \/ Post \/ SeeDone \/ Took \/ Report
         \/ ClearStatus

Unarmed == server \in {"init", "unarmed"}
Manner == IF Unarmed THEN "early" ELSE IF AtWork = {} THEN "rest" ELSE "busy"

\* Ctrl+C.  Before signal it ends the server at once.
\* Mutant: cleanup leaves the status word alone.
InterruptSilent ==
  /\ server # "down"
  /\ server' = "down"
  /\ stop' = Manner
  /\ UNCHANGED <<created, segment, worker, length, servers, asked, seen, alone>>

Interrupt ==
  /\ server # "down"
  /\ server' = "down"
  /\ IF Unarmed THEN UNCHANGED status ELSE status' = -1
  /\ stop' = Manner
  /\ UNCHANGED <<created, data, worker_pid, worker, length, servers, asked, seen, alone>>

-----------------------------------------------------------------------------
(* A worker.                                                               *)

WorkerGoto(w, l) == worker' = [worker EXCEPT ![w] = l]

\* shmget finds no segment before the first server has made it.
WorkerStart(w) ==
  /\ worker[w] = "none" /\ created
  /\ WorkerGoto(w, "poll")
  /\ UNCHANGED <<created, segment, server, length, servers, taskHistory>>

Poll(w) ==
  /\ worker[w] = "poll"
  /\ WorkerGoto(w, IF status = -1 THEN "ended" ELSE "test")
  /\ UNCHANGED <<created, segment, server, length, servers, taskHistory>>

\* The second read of the status word; a worker that finds no task sleeps.
Test(w) ==
  /\ worker[w] = "test"
  /\ \/ /\ status = 1
        /\ WorkerGoto(w, "claim")
        /\ seen' = seen \cup {w} /\ alone' = (alone /\ seen = {})
     \/ /\ status # 1
        /\ WorkerGoto(w, "poll")
        /\ UNCHANGED <<seen, alone>>
  /\ UNCHANGED <<created, segment, server, length, servers, asked, stop>>

\* A worker stores a new status.
WorkerSets(w, from, n, to) ==
  /\ worker[w] = from /\ WorkerGoto(w, to)
  /\ status' = n
  /\ UNCHANGED <<created, data, worker_pid, server, length, servers, taskHistory>>

Claim(w) == WorkerSets(w, "claim", 2, "sign")

Sign(w) ==
  /\ worker[w] = "sign"
  /\ worker_pid' = w
  /\ WorkerGoto(w, "strlen")
  /\ UNCHANGED <<created, data, status, server, length, servers, taskHistory>>

Measure(w) ==
  /\ worker[w] = "strlen"
  /\ length' = [length EXCEPT ![w] = data.len]
  /\ WorkerGoto(w, "sprintf")
  /\ UNCHANGED <<created, segment, server, servers, taskHistory>>

WriteLength(w) ==
  /\ worker[w] = "sprintf"
  /\ data' = Decimal(length[w])
  /\ WorkerGoto(w, "done")
  /\ UNCHANGED <<created, worker_pid, status, server, length, servers, taskHistory>>

\* Mutant: the worker goes back to waiting without a word.
FinishSilent(w) ==
  /\ worker[w] = "done"
  /\ WorkerGoto(w, "poll")
  /\ UNCHANGED <<created, segment, server, length, servers, taskHistory>>

Finish(w) == WorkerSets(w, "done", 3, "poll")

Work(w) == \/ Poll(w) \/ Test(w) \/ Claim(w) \/ Sign(w) \/ Measure(w) \/ WriteLength(w)
           \/ Finish(w)

TaskNext == \/ ServerStart \/ Serve \/ Interrupt
            \/ \E w \in Workers : WorkerStart(w) \/ Work(w)

TaskSpec == TaskInit /\ [][TaskNext]_taskVars
\* The server and every worker that runs get processor time.
TaskFairSpec == TaskSpec /\ WF_taskVars(Serve) /\ \A w \in Workers : WF_taskVars(Work(w))

-----------------------------------------------------------------------------
\* Every variable stays in its type.
Numbers == {0, 1, 2} \cup Lengths
TaskTypeOK == /\ created \in BOOLEAN /\ alone \in BOOLEAN
              /\ stop \in {"none", "early", "rest", "busy"}
              /\ data \in {Text(n) : n \in Numbers} \cup {Decimal(n) : n \in Numbers}
              /\ worker_pid \in Workers \cup {Nobody} /\ status \in -1 .. 4
              /\ server \in ServerPCs
              /\ worker \in [Workers -> WorkerPCs] /\ length \in [Workers -> Numbers]
              /\ servers \in 0 .. MaxServers
              /\ asked \in Numbers /\ seen \subseteq Workers

\* What the server prints is the length of the text it made up, and the process
\* that computed it, unless a second worker slipped in between the test and the
\* claim of the first, or one was still at work on an earlier text.
ReportRight ==
  (server = "print" /\ alone) =>
     data.num = asked /\ worker_pid \in seen

\* A server that waits is answered as long as some worker runs, however the
\* workers get into each other's way.
Running == {w \in Workers : worker[w] \notin {"none", "ended"}}
ServerAnswered == (server = "wait" /\ Running # {}) ~> server # "wait"

\* When the server is stopped for good while no worker is at work, all workers
\* end, although each reads the status word twice a round.  One that is at work
\* when it is stopped writes 2 or 3 over the -1, and polls for ever.
WorkersEndAfterRest ==
  <>[](server = "down" /\ stop = "rest") => <>[](Running = {})
=============================================================================
