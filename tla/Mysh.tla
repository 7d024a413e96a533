-------------------------------- MODULE Mysh --------------------------------
(***************************************************************************)
(* The shell of Assignment 9.  A line is a list of pipelines joined by ";",*)
(* "&&" and "||".  The shell runs a command that is alone in its pipeline  *)
(* in itself (a builtin) or in a child; for "a | b" it makes a pipe and    *)
(* forks a process for a, its stage, and one for b, the rest, which does   *)
(* the same again when b holds another "|".  So the processes of a line    *)
(* form a chain: <<"rest", 0>> is the shell, and <<"rest", d>> makes pipe  *)
(* d+1, <<"stage", d+1>> and <<"rest", d+1>>.  Each of them forks a child  *)
(* for an external command, and waits for its children.                    *)
(*                                                                         *)
(* External programs are modelled by how they use their descriptors.       *)
(***************************************************************************)
EXTENDS Integers, Sequences, FiniteSetsExt

CONSTANTS Menu,         \* the lines that may be given to the shell
          Depth,        \* most pipes in one pipeline of theirs
          Openable,     \* the files a redirection can open
          Capacity,     \* what a pipe holds
          MaxLines,     \* bound on the lines read
          MaxFailures   \* bound on the calls of fork and pipe that fail

\* A word is an operator or a command with its redirections.
Builtins == {"print", "set", "exit"}      \* echo pwd clear; cd export; exit
Programs == {"writer", "reader", "head", "yes", "missing"}
Operators == {";", "&&", "||", "|"}
Word == [kind : Operators \cup Builtins \cup Programs, redir : Seq({"<", ">"} \X STRING)]

ASSUME MyshAssumption ==
  /\ Menu \subseteq Seq(Word) /\ Depth \in Nat /\ Openable \subseteq STRING
  /\ Capacity \in Nat \ {0} /\ MaxLines \in Nat /\ MaxFailures \in Nat

\* The text between two operators is one command with its arguments, and Depth
\* is as large as the lines need.
ASSUME LinesAssumption ==
  \A l \in Menu :
     /\ \A i \in 1 .. Len(l) - 1 : {l[i].kind, l[i+1].kind} \cap Operators # {}
     /\ \A i, j \in 1 .. Len(l) :
           (\A k \in i .. j : l[k].kind \notin {";", "&&", "||"}) =>
              Cardinality({k \in i .. j : l[k].kind = "|"}) <= Depth

VARIABLES line,      \* the line being executed
          pr,        \* the processes: alive, or ended and not yet waited for
          chan,      \* what each pipe holds
          log,       \* history: the pipelines of the line the shell has begun,
                     \* [pos, st]: the status its last command ended with
          own,       \* history: directions redirected by external commands
                     \* that were alone in their pipeline
          lines, failures

history == <<log, own>>
vars == <<line, pr, chan, history, lines, failures>>

Shell == <<"rest", 0>>
Stage(d) == <<"stage", d>>
Rest(d)  == <<"rest", d>>
Prog(p)  == p \o <<"program">>
Helpers  == {Rest(d) : d \in 0 .. Depth} \cup {Stage(d) : d \in 1 .. Depth}
Pids     == Helpers \cup {Prog(p) : p \in Helpers}

\* Where a descriptor leads.
Tty == <<"terminal">>
R(k) == <<"read", k>>
W(k) == <<"write", k>>

Alive == {p \in DOMAIN pr : pr[p].pc # "zombie"}
HasOpen(p, e) == p \in Alive /\ (pr[p].in = e \/ pr[p].out = e \/ e \in pr[p].held)
Open(e) == \E p \in Alive : HasOpen(p, e)

At(p, pc) == p \in DOMAIN pr /\ pr[p].pc = pc
Now(p, l) == pr' = [pr EXCEPT ![p] = l]
Goto(p, pc) == Now(p, [pr[p] EXCEPT !.pc = pc])
Without(q, p, l) == pr' = [x \in DOMAIN pr \ {q} |-> IF x = p THEN l ELSE pr[x]]
With(q, m, p, l) == pr' = [x \in DOMAIN pr \cup {q} |-> IF x = q THEN m ELSE IF x = p THEN l ELSE pr[x]]

\* words: of the shell, the rest of the line; pipe: the pipeline to run, or the
\* command of a program; n: what a program has still to write.
Process(pc, pipe, in, out, held, n) ==
  [pc |-> pc, words |-> <<>>, pipe |-> pipe, in |-> in, out |-> out, held |-> held,
   n |-> n, st |-> 0]
Zombie(st) == [Process("zombie", <<>>, Tty, Tty, {}, 0) EXCEPT !.st = st]

Init == /\ line = <<>> /\ chan = [k \in 1 .. Depth |-> 0]
        /\ pr = [p \in {Shell} |-> Process("read", <<>>, Tty, Tty, {}, 0)]
        /\ log = <<>> /\ own = {} /\ lines = 0 /\ failures = 0

-----------------------------------------------------------------------------
(* The operators of a line.                                                *)

First(ws, K) == Min({i \in 1 .. Len(ws) : ws[i].kind \in K} \cup {Len(ws) + 1})
Before(ws, K) == SubSeq(ws, 1, First(ws, K) - 1)
After(ws, K) == SubSeq(ws, First(ws, K) + 1, Len(ws))

\* What is left of the line when the pipeline at its head has ended with st.
\* Where && or || does not let it go on, everything up to the next ; is left
\* out, whatever operators follow.
GoesOn(w, st) == (w.kind = "&&" /\ st = 0) \/ (w.kind = "||" /\ st # 0)
Continue(ws, st) ==
  LET o == First(ws, {";", "&&", "||"})
  IN IF o <= Len(ws) /\ GoesOn(ws[o], st) THEN SubSeq(ws, o + 1, Len(ws)) ELSE After(ws, {";"})

\* The shell turns to the pipeline at the head of ws, or to the next line.
Turn(ws) ==
  LET p == Before(ws, {";", "&&", "||"})
      alone == Len(p) = 1 /\ p[1].kind \in Programs
  IN IF ws = <<>>
       THEN Now(Shell, [pr[Shell] EXCEPT !.pc = "read", !.words = <<>>]) /\ UNCHANGED history
       ELSE /\ Now(Shell, [pr[Shell] EXCEPT !.pc = "run", !.words = ws, !.pipe = p])
            /\ log' = Append(log, [pos |-> Len(line') - Len(ws) + 1, st |-> 0])
            /\ own' = IF alone THEN own \cup {p[1].redir[i][1] : i \in DOMAIN p[1].redir} ELSE own

\* The lines come from the terminal, from a script, or from the file that the
\* shell's own standard input was last redirected to.
ReadLine ==
  /\ At(Shell, "read") /\ lines < MaxLines /\ lines' = lines + 1
  /\ \E l \in Menu :
        /\ line' = l
        /\ Now(Shell, [pr[Shell] EXCEPT !.pc = "turn", !.words = l])
  /\ log' = <<>> /\ UNCHANGED <<own, chan, failures>>

Begin == /\ At(Shell, "turn") /\ line' = line /\ Turn(pr[Shell].words)
         /\ UNCHANGED <<chan, lines, failures>>

EndOfInput == /\ At(Shell, "read") /\ Goto(Shell, "ended")
              /\ UNCHANGED <<line, chan, history, lines, failures>>

-----------------------------------------------------------------------------
(* execute_command.                                                        *)

\* The status of the pipeline is that of the command its last process runs.
Status(p, st) ==
  log' = IF p[1] = "rest" THEN [log EXCEPT ![Len(log)].st = st] ELSE log

Returns(p, st) ==
  Now(p, [pr[p] EXCEPT !.pc = "done", !.st = st]) /\ Status(p, st)

Simple(p) == At(p, "run") /\ p \in Helpers /\ First(pr[p].pipe, {"|"}) > Len(pr[p].pipe)
Command(p, K) == Simple(p) /\ pr[p].pipe # <<>> /\ pr[p].pipe[1].kind \in K

Nothing(p) == /\ Simple(p) /\ pr[p].pipe = <<>> /\ Returns(p, 0)
              /\ UNCHANGED <<line, chan, own, lines, failures>>

\* What is written to a pipe waits for room; when nobody can read it any more
\* SIGPIPE kills the writer.
IsPipe(e) == Len(e) = 2
Broken(e) == IsPipe(e) /\ ~Open(R(e[2]))
Put(e) == IF IsPipe(e) THEN chan[e[2]] < Capacity /\ chan' = [chan EXCEPT ![e[2]] = @ + 1]
                       ELSE chan' = chan

\* handle_redirection changes the descriptors of the process itself, up to the
\* first file that cannot be opened, and leaves the old ones open besides;
\* nothing puts them back.
Redirected(l, rs) ==
  LET bad  == Min({i \in DOMAIN rs : rs[i][2] \notin Openable} \cup {Len(rs) + 1})
      done(dir) == {i \in 1 .. bad - 1 : rs[i][1] = dir}
      to(dir, old) == IF done(dir) = {} THEN old ELSE <<rs[Max(done(dir))][2]>>
  IN [l EXCEPT !.in = to("<", @), !.out = to(">", @), !.held = @ \cup {l.in, l.out}]
Opens(rs) == \A i \in DOMAIN rs : rs[i][2] \in Openable

\* A builtin comes before the redirections, which are arguments to it.
\* Mutant: the redirections come first.
ShowRedirected(p) ==
  /\ Command(p, {"print"}) /\ Status(p, 0)
  /\ Now(p, [Redirected(pr[p], pr[p].pipe[1].redir) EXCEPT !.pc = "done", !.st = 0])
  /\ UNCHANGED <<line, chan, own, lines, failures>>

Show(p) == /\ Command(p, {"print"}) /\ ~Broken(pr[p].out) /\ Put(pr[p].out)
           /\ Returns(p, 0) /\ UNCHANGED <<line, own, lines, failures>>
ShowBroken(p) == /\ Command(p, {"print"}) /\ Broken(pr[p].out)
                 /\ Now(p, Zombie(1)) /\ Status(p, 1)
                 /\ UNCHANGED <<line, chan, own, lines, failures>>
Set(p) == Command(p, {"set"}) /\ Returns(p, 0) /\ UNCHANGED <<line, chan, own, lines, failures>>

\* exit ends the process that runs it: in a pipeline, not the shell.
Exit(p) ==
  /\ Command(p, {"exit"})
  /\ \E st \in {0, 1} : /\ Status(p, st)
                        /\ IF p = Shell THEN Goto(p, "ended") ELSE Now(p, Zombie(st))
  /\ UNCHANGED <<line, chan, own, lines, failures>>

RedirectionFails(p) ==
  /\ Command(p, Programs) /\ ~Opens(pr[p].pipe[1].redir)
  /\ Now(p, [Redirected(pr[p], pr[p].pipe[1].redir) EXCEPT !.pc = "done", !.st = 1])
  /\ Status(p, 1) /\ UNCHANGED <<line, chan, own, lines, failures>>

Writes(c) == IF c.kind = "writer" THEN Capacity + 1 ELSE 0

Fork(p) ==
  /\ Command(p, Programs) /\ Opens(pr[p].pipe[1].redir)
  /\ LET c == pr[p].pipe[1]
         l == Redirected(pr[p], c.redir)
     IN \/ /\ With(Prog(p), Process("main", <<c>>, l.in, l.out, l.held, Writes(c)),
                   p, [l EXCEPT !.pc = "wait"])
           /\ UNCHANGED <<log, failures>>
        \/ /\ failures < MaxFailures /\ failures' = failures + 1
           /\ Now(p, [l EXCEPT !.pc = "done", !.st = 1]) /\ Status(p, 1)
  /\ UNCHANGED <<line, chan, own, lines>>

Wait(p) ==
  /\ At(p, "wait") /\ At(Prog(p), "zombie")
  /\ Without(Prog(p), p, [pr[p] EXCEPT !.pc = "done", !.st = pr[Prog(p)].st])
  /\ UNCHANGED <<line, chan, history, lines, failures>>

-----------------------------------------------------------------------------
(* execute_pipe_commands.                                                  *)

Piped(p) == At(p, "run") /\ p \in Helpers /\ First(pr[p].pipe, {"|"}) <= Len(pr[p].pipe)
K(p) == p[2] + 1          \* the pipe p makes, and the depth of its children
Ends(p) == {R(K(p)), W(K(p))}
Shut(p) == [pr[p] EXCEPT !.held = @ \ Ends(p)]

Pipe(p) ==
  /\ Piped(p)
  /\ \/ /\ Now(p, [pr[p] EXCEPT !.pc = "fork1", !.held = @ \cup Ends(p)])
        /\ chan' = [chan EXCEPT ![K(p)] = 0] /\ UNCHANGED <<log, failures>>
     \/ /\ failures < MaxFailures /\ failures' = failures + 1
        /\ Returns(p, 1) /\ chan' = chan
  /\ UNCHANGED <<line, own, lines>>

Fork1(p) ==
  /\ At(p, "fork1")
  /\ \/ /\ With(Stage(K(p)), Process("run", Before(pr[p].pipe, {"|"}), pr[p].in, W(K(p)),
                                     Shut(p).held, 0),
                p, [pr[p] EXCEPT !.pc = "fork2"])
        /\ UNCHANGED <<log, failures>>
     \/ /\ failures < MaxFailures /\ failures' = failures + 1
        /\ Now(p, [Shut(p) EXCEPT !.pc = "done", !.st = 1]) /\ Status(p, 1)
  /\ UNCHANGED <<line, chan, own, lines>>

Fork2(p) ==
  /\ At(p, "fork2")
  /\ \/ /\ With(Rest(K(p)), Process("run", After(pr[p].pipe, {"|"}), R(K(p)), pr[p].out,
                                    Shut(p).held, 0),
                p, [pr[p] EXCEPT !.pc = "close"])
        /\ UNCHANGED <<log, failures>>
     \/ /\ failures < MaxFailures /\ failures' = failures + 1
        /\ Now(p, [Shut(p) EXCEPT !.pc = "waitOnly"]) /\ Status(p, 1)
  /\ UNCHANGED <<line, chan, own, lines>>

\* Mutant: the parent closes the read end only.
ClosePipeHalf(p) ==
  /\ At(p, "close") /\ Now(p, [pr[p] EXCEPT !.pc = "wait1", !.held = @ \ {R(K(p))}])
  /\ UNCHANGED <<line, chan, history, lines, failures>>

ClosePipe(p) == /\ At(p, "close") /\ Now(p, [Shut(p) EXCEPT !.pc = "wait1"])
                /\ UNCHANGED <<line, chan, history, lines, failures>>

\* Mutant: pid1 is not waited for.
Wait1Skipped(p) ==
  /\ pr[p].pc \in {"wait1", "waitOnly"}
  /\ Now(p, IF At(p, "wait1") THEN [pr[p] EXCEPT !.pc = "wait2"]
                              ELSE [pr[p] EXCEPT !.pc = "done", !.st = 1])
  /\ UNCHANGED <<line, chan, history, lines, failures>>

Wait1(p) ==
  /\ pr[p].pc \in {"wait1", "waitOnly"} /\ At(Stage(K(p)), "zombie")
  /\ Without(Stage(K(p)), p,
             IF At(p, "wait1") THEN [pr[p] EXCEPT !.pc = "wait2"]
                               ELSE [pr[p] EXCEPT !.pc = "done", !.st = 1])
  /\ UNCHANGED <<line, chan, history, lines, failures>>

Wait2(p) ==
  /\ At(p, "wait2") /\ At(Rest(K(p)), "zombie")
  /\ Without(Rest(K(p)), p, [pr[p] EXCEPT !.pc = "done", !.st = pr[Rest(K(p))].st])
  /\ UNCHANGED <<line, chan, history, lines, failures>>

\* Mutant: pid2 ends with exit(0), as pid1 does.
ExitZero(p) == 0

\* The shell goes on with the line; a child exits, a stage always with 0.
ExitCode(p) == IF p[1] = "stage" THEN 0 ELSE pr[p].st

Done(p) ==
  /\ At(p, "done") /\ line' = line
  /\ IF p = Shell THEN Turn(Continue(pr[p].words, pr[p].st))
                  ELSE Now(p, Zombie(ExitCode(p))) /\ UNCHANGED history
  /\ UNCHANGED <<chan, lines, failures>>

-----------------------------------------------------------------------------
(* The programs.                                                           *)

Kind(q) == pr[q].pipe[1].kind
Running(q) == At(q, "main") \/ At(q, "eof")
Over(q, st) == Now(q, Zombie(st)) /\ Status(q, st)

Write(q) ==
  /\ Running(q) /\ (pr[q].n > 0 \/ Kind(q) = "yes")
  /\ IF Broken(pr[q].out) THEN Over(q, 1) /\ chan' = chan
     ELSE /\ Put(pr[q].out) /\ log' = log
          /\ Now(q, [pr[q] EXCEPT !.n = IF @ > 0 THEN @ - 1 ELSE 0])
  /\ UNCHANGED <<line, own, lines, failures>>

\* A reader copies what it reads until the end; head is content with one item.
\* A terminal or a file ends after one item.
Read(q) ==
  /\ At(q, "main") /\ Kind(q) \in {"reader", "head"} /\ pr[q].n = 0
  /\ LET e == pr[q].in
         got(pc) == Now(q, [pr[q] EXCEPT !.n = 1, !.pc = pc])
     IN IF ~IsPipe(e) THEN got("eof") /\ chan' = chan
        ELSE \/ /\ chan[e[2]] > 0 /\ chan' = [chan EXCEPT ![e[2]] = @ - 1]
                /\ got(IF Kind(q) = "head" THEN "eof" ELSE "main")
             \/ chan[e[2]] = 0 /\ ~Open(W(e[2])) /\ chan' = chan /\ Goto(q, "eof")
  /\ UNCHANGED <<line, history, lines, failures>>

Finish(q) ==
  /\ Running(q) /\ pr[q].n = 0
  /\ \/ Kind(q) = "missing" /\ Over(q, 127)
     \/ /\ Kind(q) = "writer" \/ At(q, "eof")
        /\ \E st \in {0, 1} : Over(q, st)
  /\ UNCHANGED <<line, chan, own, lines, failures>>

-----------------------------------------------------------------------------
Step(p) ==
  \/ Nothing(p) \/ Show(p) \/ ShowBroken(p) \/ Set(p) \/ Exit(p)
  \/ RedirectionFails(p) \/ Fork(p) \/ Wait(p)
  \/ Pipe(p) \/ Fork1(p) \/ Fork2(p) \/ ClosePipe(p) \/ Wait1(p) \/ Wait2(p) \/ Done(p)
  \/ Write(p) \/ Read(p) \/ Finish(p)
Next == ReadLine \/ Begin \/ EndOfInput \/ \E p \in DOMAIN pr : Step(p)
Spec == Init /\ [][Next]_vars

\* Every process runs, until it ends or waits.
FairSpec == /\ Spec /\ WF_vars(Begin)
            /\ \A p \in Pids : WF_vars(p \in DOMAIN pr /\ Step(p))

-----------------------------------------------------------------------------
TypeOK ==
  /\ line \in Seq(Word) /\ chan \in [1 .. Depth -> 0 .. Capacity]
  /\ Shell \in DOMAIN pr /\ DOMAIN pr \subseteq Pids
  /\ \A p \in DOMAIN pr :
        /\ pr[p].pc \in {"read", "turn", "run", "wait", "fork1", "fork2", "close", "wait1",
                         "wait2", "waitOnly", "done", "main", "eof", "zombie", "ended"}
        /\ pr[p].st \in {0, 1, 127} /\ pr[p].n \in 0 .. Capacity + 1
  /\ own \subseteq {"<", ">"} /\ lines \in 0 .. MaxLines /\ failures \in 0 .. MaxFailures

\* When the shell turns to the next pipeline or line, every process of the one
\* before has ended and been waited for, and the shell has no end of a pipe
\* open, although stages end in any order, are killed, or were never forked.
NothingLeftBehind ==
  pr[Shell].pc \in {"read", "turn", "ended", "run"} =>
     /\ DOMAIN pr = {Shell}
     /\ \A e \in pr[Shell].held \cup {pr[Shell].in, pr[Shell].out} : ~IsPipe(e)

\* Which pipelines of a line are run depends on how the last command of each
\* ended, whatever its other stages did, through however many processes the
\* status came: with a status that && or || does not go on with, nothing is
\* run up to the next ;.
Follows(pos, st) ==
  LET ops(S) == {i \in pos .. Len(line) : line[i].kind \in S}
      semi == Min(ops({";"}) \cup {Len(line)}) + 1
      o == Min(ops({";", "&&", "||"}) \cup {Len(line)})
  IN IF o \in ops({"&&", "||"}) /\ (line[o].kind = "&&" <=> st = 0) THEN o + 1 ELSE semi
RunsByStatus ==
  /\ \A k \in 1 .. Len(log) - 1 : log[k+1].pos = Follows(log[k].pos, log[k].st)
  /\ (pr[Shell].pc = "read" /\ log # <<>>) =>
        Follows(log[Len(log)].pos, log[Len(log)].st) = Len(line) + 1

\* A redirection that is never undone reaches the shell only from an external
\* command that was alone in its pipeline; one of a builtin or inside a
\* pipeline leaves the shell at the terminal.
TerminalKept ==
  /\ pr[Shell].in # Tty => "<" \in own
  /\ pr[Shell].out # Tty => ">" \in own

\* Every line comes to its end: stages that wait for input see the end of it,
\* and those that write find out that nobody reads, also after a fork failed.
EveryLineEnds == pr[Shell].pc \notin {"read", "ended"} ~> pr[Shell].pc \in {"read", "ended"}
=============================================================================
