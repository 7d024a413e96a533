----------------------------- MODULE MyshProofs -----------------------------
(***************************************************************************)
(* Proofs about the shell.                                                 *)
(*                                                                         *)
(* The inductive invariant has five parts.  Tree says which processes      *)
(* exist: those of a line form a chain of "rest" processes, of which all   *)
(* but the last are waiting for the next, and the step a process is at     *)
(* says which children it has.  From it follows that nothing is left when  *)
(* the shell has none (NothingLeftBehind), and that one process at a time  *)
(* decides the status of a pipeline (Reported), from which RunsByStatus    *)
(* follows.  ShellEnds and Noted follow the descriptors of the shell.      *)
(* Deep says how many pipes a process still has to make at most, which     *)
(* bounds the chain.                                                       *)
(***************************************************************************)
EXTENDS Mysh, SequenceTheorems, FiniteSetTheorems, WellFoundedInduction, TLAPS

-----------------------------------------------------------------------------
(* The operators of a line.                                                *)

LEMMA Least ==
  ASSUME NEW S \in SUBSET Nat, S # {}
  PROVE  \E n \in S : \A m \in S : n <= m
<1>1. PICK n \in S : \A m \in S : ~(<<m, n>> \in OpToRel(<, Nat))
  BY NatLessThanWellFounded, WFMin
<1>2. \A m \in S : ~(m < n)
  BY <1>1 DEF OpToRel
<1> QED
  BY <1>2

LEMMA MinIs ==
  ASSUME NEW S \in SUBSET Nat, S # {}
  PROVE  Min(S) \in S /\ \A m \in S : Min(S) <= m
<1>1. \E n \in S : \A m \in S : n =< m
  BY Least
<1> QED
  BY <1>1 DEF Min

LEMMA MaxIs ==
  ASSUME NEW n \in Nat, NEW S \in SUBSET (1 .. n), S # {}
  PROVE  Max(S) \in S
<1> DEFINE T == {n - x : x \in S}
<1>1. T \in SUBSET Nat /\ T # {}
  <2>1. \A x \in S : n - x \in Nat
    OBVIOUS
  <2> QED
    BY <2>1
<1>2. PICK t \in T : \A u \in T : t <= u
  BY <1>1, Least
<1>3. PICK x \in S : t = n - x
  BY <1>2
<1>4. \A y \in S : x >= y
  <2> TAKE y \in S
  <2>1. n - y \in T
    OBVIOUS
  <2> QED
    BY <2>1, <1>2, <1>3
<1>5. \E z \in S : \A y \in S : z >= y
  BY <1>4
<1> QED
  BY <1>5 DEF Max

\* The first word of one of the kinds K, or the place after the last word.
LEMMA FirstIs ==
  ASSUME NEW ws \in Seq(Word), NEW KS
  PROVE  /\ First(ws, KS) \in 1 .. Len(ws) + 1
         /\ \A i \in 1 .. Len(ws) : i < First(ws, KS) => ws[i].kind \notin KS
         /\ First(ws, KS) <= Len(ws) => ws[First(ws, KS)].kind \in KS
<1> DEFINE S == {i \in 1 .. Len(ws) : ws[i].kind \in KS} \cup {Len(ws) + 1}
<1>1. S \in SUBSET Nat /\ S # {} /\ First(ws, KS) = Min(S)
  BY DEF First
<1>2. Min(S) \in S /\ \A m \in S : Min(S) <= m
  BY <1>1, MinIs
<1>3. Len(ws) \in Nat
  OBVIOUS
<1>4. \A i \in 1 .. Len(ws) : ws[i].kind \in KS => i \in S
  OBVIOUS
<1>5. \A i \in S : i \in 1 .. Len(ws) + 1 /\ (i <= Len(ws) => ws[i].kind \in KS)
  BY <1>3
<1> HIDE DEF S
<1>6. Min(S) \in 1 .. Len(ws) + 1
  BY <1>2, <1>5
<1>7. \A i \in 1 .. Len(ws) : ws[i].kind \in KS => Min(S) <= i
  BY <1>2, <1>4
<1> QED
  BY <1>1, <1>2, <1>3, <1>5, <1>6, <1>7

\* A pipeline without "|" is run by one process.
NoBar(ws) == \A i \in 1 .. Len(ws) : ws[i].kind # "|"

LEMMA NoBarIs ==
  ASSUME NEW ws \in Seq(Word)
  PROVE  NoBar(ws) <=> First(ws, {"|"}) > Len(ws)
<1>1. /\ First(ws, {"|"}) \in 1 .. Len(ws) + 1
      /\ \A i \in 1 .. Len(ws) : i < First(ws, {"|"}) => ws[i].kind \notin {"|"}
      /\ First(ws, {"|"}) <= Len(ws) => ws[First(ws, {"|"})].kind \in {"|"}
  BY FirstIs
<1>2. Len(ws) \in Nat
  OBVIOUS
<1> QED
  BY <1>1, <1>2 DEF NoBar

LEMMA BeforeIs ==
  ASSUME NEW ws \in Seq(Word), NEW KS
  PROVE  /\ Before(ws, KS) \in Seq(Word) /\ Len(Before(ws, KS)) = First(ws, KS) - 1
         /\ \A i \in 1 .. First(ws, KS) - 1 :
               Before(ws, KS)[i] = ws[i] /\ ws[i].kind \notin KS
<1>1. /\ First(ws, KS) \in 1 .. Len(ws) + 1 /\ Len(ws) \in Nat
      /\ \A i \in 1 .. Len(ws) : i < First(ws, KS) => ws[i].kind \notin KS
  BY FirstIs
<1>2. \A i \in 1 .. First(ws, KS) - 1 : ws[i] \in Word
  BY <1>1
<1> QED
  BY <1>1, <1>2 DEF Before

LEMMA AfterIs ==
  ASSUME NEW ws \in Seq(Word), NEW KS
  PROVE  After(ws, KS) \in Seq(Word)
<1>1. First(ws, KS) \in 1 .. Len(ws) + 1 /\ Len(ws) \in Nat
  BY FirstIs
<1>2. \A i \in First(ws, KS) + 1 .. Len(ws) : ws[i] \in Word
  BY <1>1
<1> QED
  BY <1>1, <1>2 DEF After

-----------------------------------------------------------------------------
(* What follows a pipeline.  The shell keeps the rest of the line; Follows *)
(* counts places in the whole line.                                        *)

\* The rest of the line from the place pos.
From(pos) == SubSeq(line, pos, Len(line))

LEMMA FromIs ==
  ASSUME line \in Seq(Word), NEW pos \in 1 .. Len(line) + 1
  PROVE  /\ From(pos) \in Seq(Word) /\ Len(From(pos)) = Len(line) - pos + 1
         /\ \A i \in 1 .. Len(From(pos)) : From(pos)[i] = line[pos + i - 1]
<1>1. \A i \in pos .. Len(line) : line[i] \in Word
  OBVIOUS
<1> QED
  BY <1>1 DEF From

LEMMA SameWords ==
  ASSUME NEW s \in Seq(Word), NEW t \in Seq(Word), Len(s) = Len(t),
         \A i \in 1 .. Len(s) : s[i] = t[i]
  PROVE  s = t
<1>1. s \in [1 .. Len(s) -> Word] /\ t \in [1 .. Len(t) -> Word]
  OBVIOUS
<1> QED
  BY <1>1

LEMMA FromFrom ==
  ASSUME line \in Seq(Word), NEW pos \in 1 .. Len(line) + 1,
         NEW a \in 1 .. Len(From(pos)) + 1
  PROVE  SubSeq(From(pos), a, Len(From(pos))) = From(pos + a - 1)
<1> DEFINE n == Len(line)
           w == From(pos)
           m == Len(w)
           u == SubSeq(w, a, m)
           b == pos + a - 1
<1>1. n \in Nat /\ w \in Seq(Word) /\ m = n - pos + 1 /\ \A i \in 1 .. m : w[i] = line[pos + i - 1]
  BY FromIs
<1>2. b \in 1 .. n + 1 /\ m \in Nat
  BY <1>1
<1>3. From(b) \in Seq(Word) /\ Len(From(b)) = n - b + 1 /\ \A i \in 1 .. n - b + 1 : From(b)[i] = line[b + i - 1]
  BY <1>2, FromIs
<1>4. \A i \in a .. m : w[i] \in Word
  BY <1>1
<1> HIDE DEF w
<1>5. u \in Seq(Word) /\ Len(u) = m - a + 1 /\ \A i \in 1 .. m - a + 1 : u[i] = w[a + i - 1]
  BY <1>1, <1>2, <1>4
<1>6. \A i \in 1 .. m - a + 1 : u[i] = From(b)[i]
  <2> TAKE i \in 1 .. m - a + 1
  <2>1. a + i - 1 \in 1 .. m /\ i \in 1 .. n - b + 1
    BY <1>1, <1>2
  <2>2. u[i] = line[pos + (a + i - 1) - 1] /\ From(b)[i] = line[b + i - 1]
    BY <1>1, <1>3, <1>5, <2>1
  <2>3. pos + (a + i - 1) - 1 = b + i - 1
    BY <1>1, <1>2, <2>1
  <2> QED
    BY <2>2, <2>3
<1>7. m - a + 1 = n - b + 1
  BY <1>1, <1>2
<1> HIDE DEF u, b
<1>8. u = From(b)
  <2>1. Len(u) = Len(From(b)) /\ \A i \in 1 .. Len(u) : u[i] = From(b)[i]
    BY <1>3, <1>5, <1>6, <1>7
  <2> QED
    BY <1>3, <1>5, <2>1, SameWords
<1> QED
  BY <1>8 DEF u, b, w

\* The places of Follows, from those of the rest of the line.
LEMMA Places ==
  ASSUME line \in Seq(Word), NEW pos \in 1 .. Len(line), NEW KS
  PROVE  LET ops == {i \in pos .. Len(line) : line[i].kind \in KS}
             o == Min(ops \cup {Len(line)})
             g == First(From(pos), KS)
         IN IF g <= Len(From(pos)) THEN o = pos + g - 1 /\ o \in ops /\ From(pos)[g] = line[o]
            ELSE o = Len(line) /\ ops = {}
<1> DEFINE n == Len(line)
           ops == {i \in pos .. n : line[i].kind \in KS}
           S == ops \cup {n}
           o == Min(S)
           w == From(pos)
           m == Len(w)
           g == First(w, KS)
<1>1. n \in Nat /\ w \in Seq(Word) /\ m = n - pos + 1 /\ \A i \in 1 .. m : w[i] = line[pos + i - 1]
  BY FromIs
<1>2. /\ g \in 1 .. m + 1
      /\ \A i \in 1 .. m : i < g => w[i].kind \notin KS
      /\ g <= m => w[g].kind \in KS
  BY <1>1, FirstIs
<1>3. S \in SUBSET Nat /\ S # {}
  BY <1>1
<1>4. o \in S /\ \A i \in S : o <= i
  BY <1>3, MinIs
<1> HIDE DEF w, g, o
<1>5. \A i \in ops : i - pos + 1 \in 1 .. m /\ w[i - pos + 1] = line[i] /\ ~(i - pos + 1 < g)
  <2> TAKE i \in ops
  <2>1. i - pos + 1 \in 1 .. m
    BY <1>1
  <2>2. w[i - pos + 1] = line[pos + (i - pos + 1) - 1]
    BY <1>1, <2>1
  <2>3. pos + (i - pos + 1) - 1 = i
    BY <1>1
  <2> QED
    BY <1>2, <2>1, <2>2, <2>3
<1>6. ASSUME g <= m
      PROVE  o = pos + g - 1 /\ o \in ops /\ w[g] = line[o]
  <2>1. g \in 1 .. m /\ w[g] = line[pos + g - 1] /\ pos + g - 1 \in pos .. n /\ pos + g - 1 \in Int
    BY <1>1, <1>2, <1>6
  <2>2. pos + g - 1 \in ops
    BY <1>2, <1>6, <2>1
  <2>3. o <= pos + g - 1 /\ o \in ops
    BY <1>1, <1>4, <2>1, <2>2
  <2>4. pos + g - 1 <= o
    BY <1>1, <1>2, <1>5, <2>3
  <2>5. o = pos + g - 1
    BY <1>1, <2>1, <2>3, <2>4
  <2> QED
    BY <2>1, <2>2, <2>5
<1>7. ASSUME ~(g <= m)
      PROVE  o = n /\ ops = {}
  <2>1. ops = {}
    BY <1>1, <1>2, <1>5, <1>7
  <2> QED
    BY <1>4, <2>1
<1> QED
  BY <1>6, <1>7 DEF w, g, o

LEMMA ContinueFollows ==
  ASSUME line \in Seq(Word), NEW pos \in 1 .. Len(line), NEW st
  PROVE  /\ Follows(pos, st) \in pos + 1 .. Len(line) + 1
         /\ Continue(From(pos), st) = From(Follows(pos, st))
<1> DEFINE n == Len(line)
           w == From(pos)
           m == Len(w)
           ops(S) == {i \in pos .. n : line[i].kind \in S}
           Ends3 == {";", "&&", "||"}
           semi == Min(ops({";"}) \cup {n})
           o == Min(ops(Ends3) \cup {n})
           gs == First(w, {";"})
           g == First(w, Ends3)
<1>1. n \in Nat /\ w \in Seq(Word) /\ m = n - pos + 1 /\ m \in Nat /\ pos \in 1 .. n
  BY FromIs
<1>2. gs \in 1 .. m + 1 /\ g \in 1 .. m + 1 /\ (g <= m => w[g].kind \in Ends3)
  BY <1>1, FirstIs
<1>3. IF gs <= m THEN semi = pos + gs - 1 ELSE semi = n
  BY Places
<1>4. IF g <= m THEN o = pos + g - 1 /\ o \in ops(Ends3) /\ w[g] = line[o] ELSE o = n /\ ops(Ends3) = {}
  BY Places
<1>5. \A a \in 1 .. m + 1 : SubSeq(w, a, m) = From(pos + a - 1)
  BY FromFrom
<1>6. o \in ops({"&&", "||"}) <=> g <= m /\ w[g].kind \in {"&&", "||"}
  BY <1>4
<1>7. Follows(pos, st) = IF o \in ops({"&&", "||"}) /\ (line[o].kind = "&&" <=> st = 0)
                           THEN o + 1 ELSE semi + 1
  BY DEF Follows
<1>8. Continue(w, st) = IF g <= m /\ GoesOn(w[g], st) THEN SubSeq(w, g + 1, m) ELSE SubSeq(w, gs + 1, m)
  BY DEF Continue, After
<1> HIDE DEF o, semi, gs, g, w, ops, m, n, Ends3
<1>20. m + pos = n + 1
  BY <1>1
<1>21. n \in Nat /\ m \in Nat /\ pos \in 1 .. n
  BY <1>1
<1>22. ASSUME NEW a \in 1 .. m
       PROVE  SubSeq(w, a + 1, m) = From(pos + a) /\ pos + a \in pos + 1 .. n + 1
  <2>1. a + 1 \in 1 .. m + 1
    BY <1>21
  <2>2. pos + (a + 1) - 1 = pos + a
    BY <1>21
  <2>3. pos + a \in pos + 1 .. n + 1
    BY <1>20, <1>21
  <2> QED
    BY <1>5, <2>1, <2>2, <2>3
<1>9. SubSeq(w, m + 2, m) = From(n + 1)
  <2>1. m + 1 \in 1 .. m + 1
    BY <1>21
  <2>2. pos + (m + 1) - 1 = n + 1
    BY <1>20, <1>21
  <2>3. SubSeq(w, m + 1, m) = <<>> /\ SubSeq(w, m + 2, m) = <<>>
    BY <1>1
  <2> QED
    BY <1>5, <2>1, <2>2, <2>3
<1>10. SubSeq(w, gs + 1, m) = From(semi + 1) /\ semi + 1 \in pos + 1 .. n + 1
  <2>1. CASE gs <= m
    <3>1. gs \in 1 .. m
      BY <1>2, <1>21, <2>1
    <3>2. semi + 1 = pos + gs
      BY <1>21, <1>3, <2>1, <3>1
    <3> QED
      BY <1>22, <3>1, <3>2
  <2>2. CASE ~(gs <= m)
    <3>1. gs + 1 = m + 2
      BY <1>2, <1>21, <2>2
    <3>2. semi + 1 = n + 1
      BY <1>3, <2>2
    <3>3. n + 1 \in pos + 1 .. n + 1
      BY <1>21
    <3> QED
      BY <1>9, <3>1, <3>2, <3>3
  <2> QED
    BY <2>1, <2>2
<1>11. g <= m => SubSeq(w, g + 1, m) = From(o + 1) /\ o + 1 \in pos + 1 .. n + 1
  <2> HAVE g <= m
  <2>1. g \in 1 .. m
    BY <1>2, <1>21
  <2>2. o + 1 = pos + g
    BY <1>21, <1>4, <2>1
  <2> QED
    BY <1>22, <2>1, <2>2
<1>12. g <= m => (GoesOn(w[g], st) <=> o \in ops({"&&", "||"}) /\ (line[o].kind = "&&" <=> st = 0))
  BY <1>2, <1>4, <1>6, Zenon DEF GoesOn, Ends3, ops
<1>13. (g <= m /\ GoesOn(w[g], st)) <=> (o \in ops({"&&", "||"}) /\ (line[o].kind = "&&" <=> st = 0))
  BY <1>6, <1>12
<1>14. CASE g <= m /\ GoesOn(w[g], st)
  BY <1>7, <1>8, <1>11, <1>13, <1>14 DEF w, n
<1>15. CASE ~(g <= m /\ GoesOn(w[g], st))
  BY <1>7, <1>8, <1>10, <1>13, <1>15 DEF w, n
<1> QED
  BY <1>14, <1>15

-----------------------------------------------------------------------------
(* The processes.                                                          *)

AnyRest    == {Rest(d) : d \in Nat}
AnyStage   == {Stage(d) : d \in Nat \ {0}}
AnyHelper  == AnyRest \cup AnyStage
AnyProgram == {Prog(h) : h \in AnyHelper}

LEMMA NamesDiffer ==
  /\ \A d, e \in Nat : (Rest(d) = Rest(e) => d = e) /\ Rest(d) # Stage(e)
  /\ \A d, e \in Nat : Stage(d) = Stage(e) => d = e
  /\ \A d \in Nat : Rest(d)[1] = "rest" /\ Rest(d)[2] = d /\ Stage(d)[1] = "stage" /\ Stage(d)[2] = d
  BY DEF Rest, Stage

LEMMA Longer ==
  ASSUME NEW S, NEW x \in Seq(S), Len(x) = 2, NEW y \in Seq(S), Len(y) = 1
  PROVE  Len(x \o y) = 3 /\ (x \o y)[1] = x[1] /\ (x \o y)[2] = x[2]
<1>1. /\ Len(x \o y) = Len(x) + Len(y)
      /\ \A i \in 1 .. Len(x) + Len(y) :
            (x \o y)[i] = IF i <= Len(x) THEN x[i] ELSE y[i - Len(x)]
  BY ConcatProperties
<1>2. Len(x) + Len(y) = 3
  OBVIOUS
<1>3. \A i \in 1 .. 3 : (x \o y)[i] = IF i <= 2 THEN x[i] ELSE y[i - 2]
  BY <1>1, <1>2
<1> QED
  BY <1>1, <1>2, <1>3

LEMMA ProgramName ==
  ASSUME NEW h \in AnyHelper
  PROVE  Len(h) = 2 /\ h = <<h[1], h[2]>> /\ Len(Prog(h)) = 3 /\ Prog(h)[1] = h[1] /\ Prog(h)[2] = h[2]
<1>1. PICK a \in {"rest", "stage"}, d \in Nat : h = <<a, d>>
  BY DEF AnyHelper, AnyRest, AnyStage, Rest, Stage
<1> DEFINE S == {"rest", "stage", "program"} \cup Nat
           x == <<a, d>>
           y == <<"program">>
<1>2. x \in Seq(S) /\ Len(x) = 2 /\ x = <<x[1], x[2]>>
  OBVIOUS
<1>3. y \in Seq(S) /\ Len(y) = 1
  OBVIOUS
<1>4. h = x /\ Prog(h) = h \o y
  BY <1>1 DEF Prog
<1> HIDE DEF x, y, S
<1>5. Len(x \o y) = 3 /\ (x \o y)[1] = x[1] /\ (x \o y)[2] = x[2]
  BY <1>2, <1>3, Longer
<1> QED
  BY <1>2, <1>4, <1>5

LEMMA ProgramNames ==
  ASSUME NEW p \in AnyHelper
  PROVE  /\ Prog(p)[1] = p[1] /\ Prog(p) \notin AnyHelper /\ Prog(p) # p
         /\ \A q \in AnyHelper : Prog(q) = Prog(p) => q = p
<1>1. \A h \in AnyHelper : Len(h) = 2 /\ h = <<h[1], h[2]>>
  BY ProgramName
<1>2. \A h \in AnyHelper : Len(Prog(h)) = 3 /\ Prog(h)[1] = h[1] /\ Prog(h)[2] = h[2]
  BY ProgramName
<1>3. \A h \in AnyHelper : Prog(h) \notin AnyHelper
  BY <1>1, <1>2
<1>4. ASSUME NEW q \in AnyHelper, Prog(q) = Prog(p)
      PROVE  q = p
  <2>1. q[1] = p[1] /\ q[2] = p[2]
    BY <1>2, <1>4
  <2>2. q = <<q[1], q[2]>> /\ p = <<p[1], p[2]>>
    BY <1>1
  <2> QED
    BY <2>1, <2>2, Zenon
<1> QED
  BY <1>2, <1>3, <1>4

LEMMA HelpersAny == Helpers \subseteq AnyHelper
  BY MyshAssumption DEF Helpers, AnyHelper, AnyRest, AnyStage

LEMMA ShellIs ==
  Shell = Rest(0) /\ Shell \in AnyRest /\ Shell \in AnyHelper /\ Shell[1] = "rest" /\ Shell[2] = 0
  BY DEF Shell, AnyRest, AnyHelper, Rest

Statuses == {0, 1, 127}
Descr == {Tty} \cup {<<f>> : f \in STRING} \cup {R(k) : k \in Nat} \cup {W(k) : k \in Nat}
Pcs == {"read", "turn", "run", "wait", "fork1", "fork2", "close", "wait1", "wait2", "waitOnly",
        "done", "main", "eof", "zombie", "ended"}
Local == [pc : Pcs, words : Seq(Word), pipe : Seq(Word), in : Descr, out : Descr,
          held : SUBSET Descr, n : 0 .. Capacity + 1, st : Statuses]

\* Where each kind of process can be; a stage runs a pipeline without "|".
RestPcs  == {"run", "wait", "fork1", "fork2", "close", "wait1", "wait2", "waitOnly", "done", "zombie"}
ShellPcs == (RestPcs \ {"zombie"}) \cup {"read", "turn", "ended"}
PlacedAt(p, l) ==
  \/ p \in AnyProgram /\ l.pc \in {"main", "eof", "zombie"}
  \/ p \in AnyStage /\ l.pc \in {"run", "wait", "done", "zombie"} /\ NoBar(l.pipe)
  \/ p = Shell /\ l.pc \in ShellPcs
  \/ p \in AnyRest \ {Shell} /\ l.pc \in RestPcs

Procs == Shell \in DOMAIN pr /\ \A p \in DOMAIN pr : pr[p] \in Local /\ PlacedAt(p, pr[p])

\* The children of a process at a step, and that no others are left.
HasRest  == {"close", "wait1", "wait2"}
HasStage == {"fork2", "close", "wait1", "waitOnly"}
Kids(p, pc) ==
  {q \in {Prog(p)} : p \in AnyHelper /\ pc = "wait"}
  \cup {q \in {Rest(K(p))} : p \in AnyRest /\ pc \in HasRest}
  \cup {q \in {Stage(K(p))} : p \in AnyRest /\ pc \in HasStage}
Tree == \A x : x \in DOMAIN pr <=> x = Shell \/ \E p \in DOMAIN pr : x \in Kids(p, pr[p].pc)

LEMMA KidsApart ==
  ASSUME NEW p, NEW q, NEW a, NEW b, NEW x \in Kids(p, a), x \in Kids(q, b)
  PROVE  p = q /\ x # p /\ x # Shell
<1>1. \/ p \in AnyHelper /\ x = Prog(p)
      \/ p \in AnyRest /\ (x = Rest(K(p)) \/ x = Stage(K(p)))
  BY DEF Kids
<1>2. \/ q \in AnyHelper /\ x = Prog(q)
      \/ q \in AnyRest /\ (x = Rest(K(q)) \/ x = Stage(K(q)))
  BY DEF Kids
<1>3. \A r \in AnyRest : \E d \in Nat : r = Rest(d) /\ K(r) = d + 1
  BY NamesDiffer DEF AnyRest, K
<1>4. \A r \in AnyRest : Rest(K(r)) \in AnyHelper /\ Stage(K(r)) \in AnyHelper
  <2> TAKE r \in AnyRest
  <2>1. PICK d \in Nat : K(r) = d + 1
    BY <1>3
  <2>2. d + 1 \in Nat \ {0}
    OBVIOUS
  <2> QED
    BY <2>1, <2>2 DEF AnyHelper, AnyRest, AnyStage
<1>5. \A h \in AnyHelper : Prog(h) \notin AnyHelper
  BY ProgramNames
<1>6. CASE p \in AnyHelper /\ x = Prog(p)
  <2>1. q \in AnyHelper /\ x = Prog(q)
    BY <1>2, <1>4, <1>5, <1>6
  <2> QED
    BY <1>6, <2>1, ProgramNames, ShellIs
<1>7. CASE p \in AnyRest /\ (x = Rest(K(p)) \/ x = Stage(K(p)))
  <2>1. q \in AnyRest /\ (x = Rest(K(q)) \/ x = Stage(K(q)))
    BY <1>2, <1>4, <1>5, <1>7
  <2>2. PICK d \in Nat : p = Rest(d) /\ K(p) = d + 1
    BY <1>3, <1>7
  <2>3. PICK e \in Nat : q = Rest(e) /\ K(q) = e + 1
    BY <1>3, <2>1
  <2>4. (x = Rest(d + 1) \/ x = Stage(d + 1)) /\ (x = Rest(e + 1) \/ x = Stage(e + 1))
    BY <1>7, <2>1, <2>2, <2>3
  <2>5. d + 1 \in Nat /\ e + 1 \in Nat /\ d + 1 # d /\ d + 1 # 0 /\ (d + 1 = e + 1 => d = e)
    OBVIOUS
  <2>6. d + 1 = e + 1
    BY <2>4, <2>5, NamesDiffer
  <2> QED
    BY <2>2, <2>3, <2>4, <2>5, <2>6, NamesDiffer, ShellIs
<1> QED
  BY <1>1, <1>6, <1>7

\* The three kinds of step: of one process, one that makes a process, and one
\* that waits for one.
LEMMA NowIs ==
  ASSUME NEW p \in DOMAIN pr, NEW l, Now(p, l)
  PROVE  DOMAIN pr' = DOMAIN pr /\ \A x \in DOMAIN pr : pr'[x] = IF x = p THEN l ELSE pr[x]
  BY DEF Now

LEMMA WithIs ==
  ASSUME NEW p \in DOMAIN pr, NEW q, NEW l, NEW m, With(q, m, p, l)
  PROVE  /\ DOMAIN pr' = DOMAIN pr \cup {q}
         /\ \A x \in DOMAIN pr' : pr'[x] = IF x = q THEN m ELSE IF x = p THEN l ELSE pr[x]
  BY DEF With

LEMMA WithoutIs ==
  ASSUME NEW p \in DOMAIN pr, NEW q, NEW l, Without(q, p, l)
  PROVE  /\ DOMAIN pr' = DOMAIN pr \ {q}
         /\ \A x \in DOMAIN pr' : pr'[x] = IF x = p THEN l ELSE pr[x]
  BY DEF Without

LEMMA NowProcs ==
  ASSUME Procs, NEW p \in DOMAIN pr, NEW l \in Local, PlacedAt(p, l), Now(p, l)
  PROVE  Procs'
<1>1. DOMAIN pr' = DOMAIN pr /\ \A x \in DOMAIN pr : pr'[x] = IF x = p THEN l ELSE pr[x]
  BY NowIs
<1> QED
  BY <1>1, Zenon DEF Procs

LEMMA WithProcs ==
  ASSUME Procs, NEW p \in DOMAIN pr, NEW q, NEW l \in Local, NEW m \in Local,
         PlacedAt(p, l), PlacedAt(q, m), With(q, m, p, l)
  PROVE  Procs'
<1>1. /\ DOMAIN pr' = DOMAIN pr \cup {q}
      /\ \A x \in DOMAIN pr' : pr'[x] = IF x = q THEN m ELSE IF x = p THEN l ELSE pr[x]
  BY WithIs
<1> QED
  BY <1>1, Zenon DEF Procs

LEMMA WithoutProcs ==
  ASSUME Procs, NEW p \in DOMAIN pr, NEW q, NEW l \in Local, PlacedAt(p, l), q # Shell,
         Without(q, p, l)
  PROVE  Procs'
<1>1. DOMAIN pr' = DOMAIN pr \ {q} /\ \A x \in DOMAIN pr' : pr'[x] = IF x = p THEN l ELSE pr[x]
  BY WithoutIs
<1> QED
  BY <1>1, Zenon DEF Procs

LEMMA NowTree ==
  ASSUME Tree, NEW p \in DOMAIN pr, NEW l, Now(p, l), Kids(p, l.pc) = Kids(p, pr[p].pc)
  PROVE  Tree'
<1>1. DOMAIN pr' = DOMAIN pr /\ \A x \in DOMAIN pr : pr'[x] = IF x = p THEN l ELSE pr[x]
  BY NowIs
<1>2. \A x \in DOMAIN pr : Kids(x, pr'[x].pc) = Kids(x, pr[x].pc)
  BY <1>1
<1> QED
  BY <1>1, <1>2, Zenon DEF Tree

LEMMA WithTree ==
  ASSUME Tree, NEW p \in DOMAIN pr, NEW q, NEW l, NEW m, With(q, m, p, l),
         Kids(p, l.pc) = Kids(p, pr[p].pc) \cup {q}, q \notin Kids(p, pr[p].pc),
         Kids(q, m.pc) = {}
  PROVE  Tree' /\ q \notin DOMAIN pr /\ q # Shell
<1>1. /\ DOMAIN pr' = DOMAIN pr \cup {q}
      /\ \A x \in DOMAIN pr' : pr'[x] = IF x = q THEN m ELSE IF x = p THEN l ELSE pr[x]
  BY WithIs
<1>2. q \in Kids(p, l.pc)
  OBVIOUS
<1>3. q # Shell /\ q # p
  BY <1>2, KidsApart
<1>4. q \notin DOMAIN pr
  <2> SUFFICES ASSUME q \in DOMAIN pr
               PROVE  FALSE
    OBVIOUS
  <2>1. PICK x \in DOMAIN pr : q \in Kids(x, pr[x].pc)
    BY <1>3 DEF Tree
  <2> QED
    BY <1>2, <2>1, KidsApart
<1>5. \A x \in DOMAIN pr \ {p} : pr'[x] = pr[x]
  BY <1>1, <1>4
<1>6. pr'[p] = l /\ pr'[q] = m /\ p \in DOMAIN pr' /\ q \in DOMAIN pr'
  BY <1>1, <1>3
<1>7. ASSUME NEW x
      PROVE  x \in DOMAIN pr' <=> x = Shell \/ \E y \in DOMAIN pr' : x \in Kids(y, pr'[y].pc)
  <2>1. ASSUME x = q
        PROVE  \E y \in DOMAIN pr' : x \in Kids(y, pr'[y].pc)
    BY <1>2, <1>6, <2>1
  <2>2. ASSUME NEW y \in DOMAIN pr, x \in Kids(y, pr[y].pc)
        PROVE  \E z \in DOMAIN pr' : x \in Kids(z, pr'[z].pc)
    <3>1. CASE y = p
      BY <1>6, <2>2, <3>1
    <3>2. CASE y # p
      BY <1>1, <1>5, <2>2, <3>2
    <3> QED
      BY <3>1, <3>2
  <2>3. ASSUME NEW y \in DOMAIN pr', x \in Kids(y, pr'[y].pc)
        PROVE  x = q \/ \E z \in DOMAIN pr : x \in Kids(z, pr[z].pc)
    <3>1. y # q
      BY <1>6, <2>3
    <3>2. CASE y = p
      BY <1>6, <2>3, <3>2
    <3>3. CASE y # p
      BY <1>1, <1>5, <2>3, <3>1, <3>3
    <3> QED
      BY <3>2, <3>3
  <2> QED
    BY <1>1, <2>1, <2>2, <2>3, Zenon DEF Tree
<1> QED
  BY <1>3, <1>4, <1>7 DEF Tree

LEMMA WithoutTree ==
  ASSUME Tree, NEW p \in DOMAIN pr, NEW q \in DOMAIN pr, NEW l, Without(q, p, l),
         q \in Kids(p, pr[p].pc), Kids(p, l.pc) = Kids(p, pr[p].pc) \ {q},
         Kids(q, pr[q].pc) = {}
  PROVE  Tree' /\ q # Shell /\ q # p
<1>1. DOMAIN pr' = DOMAIN pr \ {q} /\ \A x \in DOMAIN pr' : pr'[x] = IF x = p THEN l ELSE pr[x]
  BY WithoutIs
<1>2. q # Shell /\ q # p
  BY KidsApart
<1>3. p \in DOMAIN pr' /\ pr'[p] = l /\ \A x \in DOMAIN pr' \ {p} : x \in DOMAIN pr /\ x # q /\ pr'[x] = pr[x]
  BY <1>1, <1>2
<1>4. ASSUME NEW x
      PROVE  x \in DOMAIN pr' <=> x = Shell \/ \E y \in DOMAIN pr' : x \in Kids(y, pr'[y].pc)
  <2>1. ASSUME NEW y \in DOMAIN pr, x \in Kids(y, pr[y].pc), x # q
        PROVE  \E z \in DOMAIN pr' : x \in Kids(z, pr'[z].pc)
    <3>1. y # q
      BY <2>1
    <3>2. CASE y = p
      BY <1>3, <2>1, <3>2
    <3>3. CASE y # p
      BY <1>1, <1>3, <2>1, <3>1, <3>3
    <3> QED
      BY <3>2, <3>3
  <2>2. ASSUME NEW y \in DOMAIN pr', x \in Kids(y, pr'[y].pc)
        PROVE  x # q /\ \E z \in DOMAIN pr : x \in Kids(z, pr[z].pc)
    <3>1. CASE y = p
      BY <1>3, <2>2, <3>1
    <3>2. CASE y # p
      <4>1. y \in DOMAIN pr /\ x \in Kids(y, pr[y].pc)
        BY <1>3, <2>2, <3>2
      <4>2. x # q
        BY <4>1, <3>2, KidsApart
      <4> QED
        BY <4>1, <4>2
    <3> QED
      BY <3>1, <3>2
  <2> QED
    BY <1>1, <1>2, <2>1, <2>2, Zenon DEF Tree
<1> QED
  BY <1>2, <1>4 DEF Tree

\* Where a process can be, by the step it is at.
LEMMA KindOf ==
  ASSUME Procs, NEW p \in DOMAIN pr
  PROVE  /\ pr[p] \in Local /\ PlacedAt(p, pr[p])
         /\ p \in AnyHelper \cup AnyProgram
         /\ pr[p].pc \in {"run", "wait", "done"} => p \in AnyHelper
         /\ pr[p].pc \in {"fork1", "fork2", "close", "wait1", "wait2", "waitOnly"} => p \in AnyRest
         /\ pr[p].pc \in {"main", "eof"} => p \in AnyProgram
         /\ pr[p].pc = "zombie" => p # Shell
<1>1. pr[p] \in Local /\ PlacedAt(p, pr[p])
  BY DEF Procs
<1>2. Shell \notin AnyProgram /\ Shell \notin AnyStage
  BY ShellIs, ProgramNames, NamesDiffer DEF AnyProgram, AnyStage
<1> QED
  BY <1>1, <1>2, ShellIs DEF PlacedAt, AnyHelper, RestPcs, ShellPcs

LEMMA DonePlaced ==
  ASSUME Procs, NEW p \in DOMAIN pr, p \in AnyHelper, NEW l, l.pipe = pr[p].pipe,
         l.pc \in {"wait", "done"}, pr[p].pc \notin {"main", "eof"}
  PROVE  PlacedAt(p, l)
<1>1. PlacedAt(p, pr[p])
  BY DEF Procs
<1>2. p \notin AnyProgram
  BY ProgramNames DEF AnyProgram
<1>3. CASE p \in AnyStage
  <2>1. p # Shell /\ p \notin AnyRest
    BY <1>3, NamesDiffer, ShellIs DEF AnyStage, AnyRest
  <2>2. NoBar(pr[p].pipe)
    BY <1>1, <1>2, <2>1 DEF PlacedAt
  <2> QED
    BY <1>3, <2>2 DEF PlacedAt
<1>4. CASE p \in AnyRest
  BY <1>4 DEF PlacedAt, RestPcs, ShellPcs
<1> QED
  BY <1>3, <1>4 DEF AnyHelper

LEMMA RestPlaced ==
  ASSUME NEW p \in AnyRest, NEW l, l.pc \in RestPcs, l.pc # "zombie"
  PROVE  PlacedAt(p, l)
  BY DEF PlacedAt, RestPcs, ShellPcs

LEMMA StatementEmpty == <<>> \in Seq(Word) /\ NoBar(<<>>)
  BY DEF NoBar

LEMMA FilesOpen ==
  ASSUME NEW f \in STRING
  PROVE  <<f>> \in Descr /\ ~IsPipe(<<f>>)
<1>1. <<f>> \in {<<g>> : g \in STRING}
  BY Zenon
<1>2. Len(<<f>>) = 1
  OBVIOUS
<1>3. <<f>> \in Descr
  BY <1>1, Zenon DEF Descr
<1>4. ~IsPipe(<<f>>)
  BY <1>2 DEF IsPipe
<1> QED
  BY <1>3, <1>4

LEMMA TtyOpen == Tty \in Descr /\ ~IsPipe(Tty)
<1>1. ~IsPipe(Tty)
  BY DEF Tty, IsPipe
<1> QED
  BY <1>1 DEF Descr

LEMMA ZombiePlaced ==
  ASSUME Procs, NEW p \in DOMAIN pr, p # Shell, NEW st \in Statuses
  PROVE  Zombie(st) \in Local /\ PlacedAt(p, Zombie(st)) /\ Zombie(st).pc = "zombie" /\ Zombie(st).st = st
<1> DEFINE z == Process("zombie", <<>>, Tty, Tty, {}, 0)
<1>2. 0 \in 0 .. Capacity + 1 /\ 0 \in Statuses
  BY MyshAssumption DEF Statuses
<1>3. z \in Local /\ z.pc = "zombie" /\ z.pipe = <<>>
  <2>1. "zombie" \in Pcs /\ {} \in SUBSET Descr
    BY DEF Pcs
  <2> QED
    BY <1>2, <2>1, TtyOpen, StatementEmpty DEF Process, Local
<1> HIDE DEF z
<1>4. Zombie(st) = [z EXCEPT !.st = st]
  BY DEF Zombie, z
<1>5. Zombie(st) \in Local /\ Zombie(st).pc = "zombie" /\ Zombie(st).pipe = <<>> /\ Zombie(st).st = st
  BY <1>3, <1>4 DEF Local
<1>6. p \in AnyHelper \cup AnyProgram
  BY KindOf
<1> QED
  BY <1>5, <1>6, StatementEmpty DEF PlacedAt, AnyHelper, RestPcs

\* handle_redirection changes the descriptors of a process to files only.
LEMMA RedirectedIs ==
  ASSUME NEW l \in Local, NEW rs \in Seq({"<", ">"} \X STRING)
  PROVE  LET m == Redirected(l, rs)
         IN /\ m \in Local /\ m = [l EXCEPT !.in = m.in, !.out = m.out, !.held = m.held]
            /\ m.in = l.in \/ (~IsPipe(m.in) /\ \E i \in DOMAIN rs : rs[i][1] = "<")
            /\ m.out = l.out \/ (~IsPipe(m.out) /\ \E i \in DOMAIN rs : rs[i][1] = ">")
            /\ m.held = l.held \cup {l.in, l.out}
<1> DEFINE S == {i \in DOMAIN rs : rs[i][2] \notin Openable} \cup {Len(rs) + 1}
           bad == Min(S)
           done(dir) == {i \in 1 .. bad - 1 : rs[i][1] = dir}
           to(dir, old) == IF done(dir) = {} THEN old ELSE <<rs[Max(done(dir))][2]>>
           m == Redirected(l, rs)
<1>1. Len(rs) \in Nat /\ DOMAIN rs = 1 .. Len(rs) /\ \A i \in 1 .. Len(rs) : rs[i][2] \in STRING
  OBVIOUS
<1>2. S \in SUBSET Nat /\ S # {} /\ \A i \in S : i \in 1 .. Len(rs) + 1
  BY <1>1
<1>3. bad \in 1 .. Len(rs) + 1
  <2> HIDE DEF S
  <2> QED
    BY <1>2, MinIs
<1>4. m = [l EXCEPT !.in = to("<", l.in), !.out = to(">", l.out), !.held = l.held \cup {l.in, l.out}]
  BY DEF Redirected, Local
<1> HIDE DEF bad
<1>5. ASSUME NEW dir, NEW old \in Descr
      PROVE  /\ to(dir, old) \in Descr
             /\ to(dir, old) = old \/ (~IsPipe(to(dir, old)) /\ \E i \in DOMAIN rs : rs[i][1] = dir)
  <2>1. CASE done(dir) = {}
    BY <1>5, <2>1
  <2>2. CASE done(dir) # {}
    <3>1. bad - 1 \in Nat /\ done(dir) \in SUBSET (1 .. bad - 1)
      BY <1>1, <1>3
    <3>2. Max(done(dir)) \in done(dir)
      <4> DEFINE D == done(dir)
                 k == bad - 1
      <4>1. k \in Nat /\ D \in SUBSET (1 .. k) /\ D # {}
        BY <2>2, <3>1
      <4> HIDE DEF D, k
      <4>2. Max(D) \in D
        BY <4>1, MaxIs
      <4> QED
        BY <4>2 DEF D
    <3> DEFINE i == Max(done(dir))
    <3>3. i \in 1 .. bad - 1 /\ rs[i][1] = dir
      BY <3>2
    <3>4. to(dir, old) = <<rs[i][2]>>
      BY <2>2
    <3> HIDE DEF i, to, done
    <3>5. i \in 1 .. Len(rs)
      BY <1>1, <1>3, <3>3
    <3>6. rs[i][2] \in STRING
      BY <1>1, <3>5
    <3>7. <<rs[i][2]>> \in Descr /\ ~IsPipe(<<rs[i][2]>>)
      BY <3>6, FilesOpen
    <3> QED
      BY <1>1, <3>3, <3>4, <3>5, <3>7
  <2> QED
    BY <2>1, <2>2
<1>6. l.in \in Descr /\ l.out \in Descr /\ l.held \subseteq Descr
  BY DEF Local
<1> DEFINE a == to("<", l.in)
           b == to(">", l.out)
<1>7. /\ a \in Descr /\ (a = l.in \/ (~IsPipe(a) /\ \E i \in DOMAIN rs : rs[i][1] = "<"))
      /\ b \in Descr /\ (b = l.out \/ (~IsPipe(b) /\ \E i \in DOMAIN rs : rs[i][1] = ">"))
  BY <1>5, <1>6
<1>8. m = [l EXCEPT !.in = a, !.out = b, !.held = l.held \cup {l.in, l.out}]
  BY <1>4
<1> HIDE DEF a, b, m
<1>9. m \in Local /\ m.in = a /\ m.out = b /\ m.held = l.held \cup {l.in, l.out}
  BY <1>6, <1>7, <1>8 DEF Local
<1> QED
  BY <1>7, <1>8, <1>9 DEF m

-----------------------------------------------------------------------------
(* What the tree of processes means.                                       *)

LEMMA ParentOf ==
  ASSUME Tree
  PROVE  /\ \A d \in Nat : Rest(d + 1) \in DOMAIN pr => Rest(d) \in DOMAIN pr /\ pr[Rest(d)].pc \in HasRest
         /\ \A d \in Nat : Stage(d + 1) \in DOMAIN pr => Rest(d) \in DOMAIN pr /\ pr[Rest(d)].pc \in HasStage
         /\ \A h \in AnyHelper : Prog(h) \in DOMAIN pr => h \in DOMAIN pr /\ pr[h].pc = "wait"
<1>1. \A d \in Nat : Rest(d) \in AnyRest /\ Rest(d) \in AnyHelper /\ K(Rest(d)) = d + 1
  BY NamesDiffer DEF AnyRest, AnyHelper, K
<1>2. ASSUME NEW d \in Nat, Rest(d + 1) \in DOMAIN pr
      PROVE  Rest(d) \in DOMAIN pr /\ pr[Rest(d)].pc \in HasRest
  <2>1. d + 1 \in Nat /\ d + 1 # 0
    OBVIOUS
  <2>2. Rest(d + 1) # Shell /\ Rest(d + 1) \in AnyHelper
    BY <1>1, <2>1, ShellIs, NamesDiffer
  <2>3. PICK p \in DOMAIN pr : Rest(d + 1) \in Kids(p, pr[p].pc)
    BY <1>2, <2>2 DEF Tree
  <2>4. Rest(d + 1) \in Kids(Rest(d), "close")
    BY <1>1 DEF Kids, HasRest
  <2>5. p = Rest(d)
    BY <2>3, <2>4, KidsApart
  <2>6. Rest(d + 1) # Prog(p) /\ Rest(d + 1) # Stage(K(p))
    BY <1>1, <2>1, <2>2, <2>5, ProgramNames, NamesDiffer
  <2> QED
    BY <2>3, <2>5, <2>6 DEF Kids
<1>3. ASSUME NEW d \in Nat, Stage(d + 1) \in DOMAIN pr
      PROVE  Rest(d) \in DOMAIN pr /\ pr[Rest(d)].pc \in HasStage
  <2>1. d + 1 \in Nat /\ d + 1 # 0
    OBVIOUS
  <2>2. Stage(d + 1) # Shell /\ Stage(d + 1) \in AnyHelper
    BY <2>1, ShellIs, NamesDiffer DEF AnyHelper, AnyStage
  <2>3. PICK p \in DOMAIN pr : Stage(d + 1) \in Kids(p, pr[p].pc)
    BY <1>3, <2>2 DEF Tree
  <2>4. Stage(d + 1) \in Kids(Rest(d), "close")
    BY <1>1 DEF Kids, HasStage
  <2>5. p = Rest(d)
    BY <2>3, <2>4, KidsApart
  <2>6. Stage(d + 1) # Prog(p) /\ Stage(d + 1) # Rest(K(p))
    BY <1>1, <2>1, <2>2, <2>5, ProgramNames, NamesDiffer
  <2> QED
    BY <2>3, <2>5, <2>6 DEF Kids
<1>4. ASSUME NEW h \in AnyHelper, Prog(h) \in DOMAIN pr
      PROVE  h \in DOMAIN pr /\ pr[h].pc = "wait"
  <2>1. Prog(h) # Shell
    BY ProgramNames, ShellIs
  <2>2. PICK p \in DOMAIN pr : Prog(h) \in Kids(p, pr[p].pc)
    BY <1>4, <2>1 DEF Tree
  <2>3. Prog(h) \in Kids(h, "wait")
    BY DEF Kids
  <2>4. p = h
    BY <2>2, <2>3, KidsApart
  <2>5. h \in AnyRest => Rest(K(h)) \in AnyHelper /\ Stage(K(h)) \in AnyHelper
    <3> HAVE h \in AnyRest
    <3>1. PICK d \in Nat : h = Rest(d)
      BY DEF AnyRest
    <3>2. K(h) = d + 1 /\ d + 1 \in Nat \ {0}
      BY <1>1, <3>1
    <3> QED
      BY <1>1, <3>2 DEF AnyHelper, AnyStage
  <2>6. Prog(h) \notin AnyHelper
    BY ProgramNames
  <2> QED
    BY <2>2, <2>4, <2>5, <2>6 DEF Kids
<1> QED
  BY <1>2, <1>3, <1>4

\* All but the last of the chain wait for the next.
LEMMA Chain ==
  ASSUME Tree, NEW d \in Nat, Rest(d) \in DOMAIN pr, NEW e \in 0 .. d - 1
  PROVE  Rest(e) \in DOMAIN pr /\ pr[Rest(e)].pc \in HasRest
<1> DEFINE In(x) == Rest(x) \in DOMAIN pr /\ pr[Rest(x)].pc \in HasRest
           S == {k \in 1 .. d : ~In(d - k)}
<1>1. S = {}
  <2> SUFFICES ASSUME S # {}
               PROVE  FALSE
    OBVIOUS
  <2>1. PICK k \in S : \A m \in S : k <= m
    <3>1. S \in SUBSET Nat
      OBVIOUS
    <3> HIDE DEF S
    <3> QED
      BY <3>1, Least
  <2>2. k \in 1 .. d /\ ~In(d - k) /\ d - k \in Nat
    BY <2>1
  <2>3. Rest(d - k + 1) \in DOMAIN pr
    <3>1. CASE k = 1
      BY <3>1, <2>2
    <3>2. CASE k # 1
      <4>1. k - 1 \in 1 .. d /\ k - 1 \notin S /\ d - (k - 1) = d - k + 1
        BY <2>1, <2>2, <3>2
      <4> QED
        BY <4>1
    <3> QED
      BY <3>1, <3>2
  <2>4. In(d - k)
    <3> DEFINE j == d - k
    <3>1. j \in Nat /\ Rest(j + 1) \in DOMAIN pr
      BY <2>2, <2>3
    <3> HIDE DEF j
    <3>2. In(j)
      BY <3>1, ParentOf
    <3> QED
      BY <3>2 DEF j
  <2> QED
    BY <2>2, <2>4
<1>2. d - e \in 1 .. d /\ d - (d - e) = e
  OBVIOUS
<1>3. d - e \notin S
  BY <1>1
<1> QED
  BY <1>2, <1>3

\* A process whose status is that of the pipeline is of the last of the chain.
LEMMA RestOf ==
  ASSUME Procs, Tree, NEW p \in DOMAIN pr, p[1] = "rest", pr[p].pc \notin HasRest \cup {"wait"}
  PROVE  \E d \in Nat : /\ Rest(d) \in DOMAIN pr /\ pr[Rest(d)].pc \notin HasRest
                        /\ p = IF pr[Rest(d)].pc = "wait" THEN Prog(Rest(d)) ELSE Rest(d)
<1>1. p \in AnyHelper \cup AnyProgram
  BY KindOf
<1>2. CASE p \in AnyHelper
  <2>1. PICK d \in Nat : p = Rest(d)
    BY <1>2, NamesDiffer DEF AnyHelper, AnyRest, AnyStage
  <2> QED
    BY <2>1
<1>3. CASE p \in AnyProgram
  <2>1. PICK h \in AnyHelper : p = Prog(h)
    BY <1>3 DEF AnyProgram
  <2>2. h[1] = "rest" /\ h \in DOMAIN pr /\ pr[h].pc = "wait"
    BY <2>1, ProgramNames, ParentOf
  <2>3. PICK d \in Nat : h = Rest(d)
    BY <2>2, NamesDiffer DEF AnyHelper, AnyRest, AnyStage
  <2> QED
    BY <2>1, <2>2, <2>3 DEF HasRest
<1> QED
  BY <1>1, <1>2, <1>3

LEMMA OneDecides ==
  ASSUME Procs, Tree, NEW p \in DOMAIN pr, NEW q \in DOMAIN pr, p[1] = "rest", q[1] = "rest",
         pr[p].pc \notin HasRest \cup {"wait"}, pr[q].pc \notin HasRest \cup {"wait"}
  PROVE  p = q
<1>1. PICK d \in Nat : /\ Rest(d) \in DOMAIN pr /\ pr[Rest(d)].pc \notin HasRest
                       /\ p = IF pr[Rest(d)].pc = "wait" THEN Prog(Rest(d)) ELSE Rest(d)
  BY RestOf
<1>2. PICK e \in Nat : /\ Rest(e) \in DOMAIN pr /\ pr[Rest(e)].pc \notin HasRest
                       /\ q = IF pr[Rest(e)].pc = "wait" THEN Prog(Rest(e)) ELSE Rest(e)
  BY RestOf
<1>3. ~(e < d) /\ ~(d < e)
  <2>1. e < d => e \in 0 .. d - 1
    OBVIOUS
  <2>2. d < e => d \in 0 .. e - 1
    OBVIOUS
  <2> QED
    BY <1>1, <1>2, <2>1, <2>2, Chain
<1>4. d = e
  BY <1>3
<1> QED
  BY <1>1, <1>2, <1>4

\* A shell without children is alone.
LEMMA Alone ==
  ASSUME Procs, Tree, pr[Shell].pc \notin HasRest \cup HasStage \cup {"wait"}
  PROVE  DOMAIN pr = {Shell}
<1>1. \A d \in Nat \ {0} : Rest(d) \notin DOMAIN pr
  <2> SUFFICES ASSUME NEW d \in Nat \ {0}, Rest(d) \in DOMAIN pr
               PROVE  FALSE
    OBVIOUS
  <2>1. 0 \in 0 .. d - 1
    OBVIOUS
  <2> QED
    BY <2>1, Chain, ShellIs
<1>2. \A d \in Nat \ {0} : Stage(d) \notin DOMAIN pr
  <2> SUFFICES ASSUME NEW d \in Nat \ {0}, Stage(d) \in DOMAIN pr
               PROVE  FALSE
    OBVIOUS
  <2>1. d - 1 \in Nat /\ (d - 1) + 1 = d
    OBVIOUS
  <2>2. Rest(d - 1) \in DOMAIN pr /\ pr[Rest(d - 1)].pc \in HasStage
    <3> DEFINE j == d - 1
    <3>1. j \in Nat /\ Stage(j + 1) \in DOMAIN pr
      BY <2>1
    <3> HIDE DEF j
    <3>2. Rest(j) \in DOMAIN pr /\ pr[Rest(j)].pc \in HasStage
      BY <3>1, ParentOf
    <3> QED
      BY <3>2 DEF j
  <2>3. d - 1 = 0
    BY <1>1, <2>1, <2>2
  <2> QED
    BY <2>2, <2>3, ShellIs
<1>3. \A h \in AnyHelper : h \in DOMAIN pr => h = Shell
  BY <1>1, <1>2, ShellIs DEF AnyHelper, AnyRest, AnyStage
<1>4. \A h \in AnyHelper : Prog(h) \notin DOMAIN pr
  BY <1>3, ParentOf
<1>5. \A p \in DOMAIN pr : p \in AnyHelper \cup AnyProgram
  BY KindOf
<1> QED
  BY <1>3, <1>4, <1>5 DEF AnyProgram, Procs

-----------------------------------------------------------------------------
(* The invariant.                                                          *)

\* The shell itself reads from and writes to no pipe, and has the ends of one
\* open only while it makes a pipeline.
ShellFits(l) ==
  /\ ~IsPipe(l.in) /\ ~IsPipe(l.out)
  /\ \A e \in l.held : IsPipe(e) => e \in Ends(Shell) /\ l.pc \in {"fork1", "fork2", "close"}
ShellEnds == ShellFits(pr[Shell])

\* The status that the line goes on with is the one a last command reported, in
\* whichever process of the chain it has arrived.
Entry == [pos : Int, st : Statuses]
Result == log[Len(log)].st
ReportedAt(p) ==
  p[1] = "rest" => /\ pr[p].pc \in {"done", "zombie"} => pr[p].st = Result
                   /\ pr[p].pc = "waitOnly" => Result = 1
Reported == \A p \in DOMAIN pr : ReportedAt(p)

\* The shell has the rest of the line from the pipeline it runs.
Where ==
  /\ pr[Shell].pc = "turn" => pr[Shell].words = line /\ log = <<>>
  /\ pr[Shell].pc \notin {"read", "turn", "ended"} =>
        /\ log # <<>> /\ log[Len(log)].pos \in 1 .. Len(line)
        /\ pr[Shell].words = From(log[Len(log)].pos)

Inv == /\ line \in Seq(Word) /\ log \in Seq(Entry)
       /\ Procs /\ Tree /\ ShellEnds /\ Reported /\ Where /\ RunsByStatus

-----------------------------------------------------------------------------
(* What a step of a process does, but for the shell that turns to the next *)
(* pipeline.                                                               *)

\* A descriptor of the process changes only by a redirection of its command.
Files(p, l) ==
  /\ l.in = pr[p].in \/ (Command(p, Programs) /\ \E i \in DOMAIN pr[p].pipe[1].redir :
                                                    pr[p].pipe[1].redir[i][1] = "<")
  /\ l.out = pr[p].out \/ (Command(p, Programs) /\ \E i \in DOMAIN pr[p].pipe[1].redir :
                                                      pr[p].pipe[1].redir[i][1] = ">")
OnShell(p, l) ==
  p = Shell => ShellFits(l) /\ Files(p, l) /\ l.words = pr[p].words /\ l.pc \notin {"read", "turn", "run"}
Reports(p, l) ==
  \/ /\ log' = log /\ l.pc # "waitOnly"
     /\ (p[1] = "rest" /\ l.pc \in {"done", "zombie"}) => l.st = Result
  \/ /\ pr[p].pc \notin HasRest \cup {"wait"}
     /\ \E st \in Statuses : /\ Status(p, st)
                             /\ l.pc \in {"done", "zombie"} => l.st = st
                             /\ l.pc = "waitOnly" => st = 1
Others(p) ==
  \A x \in DOMAIN pr' \ {p} : \/ x \in DOMAIN pr /\ pr'[x] = pr[x]
                              \/ x # Shell /\ pr'[x].pc \in {"run", "main"}
Effects(p) == /\ Procs' /\ Tree' /\ p \in DOMAIN pr' /\ Others(p)
              /\ OnShell(p, pr'[p]) /\ Reports(p, pr'[p]) /\ line' = line /\ own' = own

LEMMA NoKids ==
  ASSUME NEW p, NEW pc, pc \notin HasRest \cup HasStage \cup {"wait"}
  PROVE  Kids(p, pc) = {}
  BY DEF Kids

LEMMA NowEffects ==
  ASSUME Inv, NEW p \in DOMAIN pr, NEW l \in Local, Now(p, l), PlacedAt(p, l),
         Kids(p, l.pc) = Kids(p, pr[p].pc), OnShell(p, l), Reports(p, l), line' = line, own' = own
  PROVE  Effects(p)
<1>1. DOMAIN pr' = DOMAIN pr /\ \A x \in DOMAIN pr : pr'[x] = IF x = p THEN l ELSE pr[x]
  BY NowIs
<1>2. Procs' /\ Tree'
  BY NowProcs, NowTree DEF Inv
<1>3. Others(p)
  BY <1>1, Zenon DEF Others
<1> QED
  BY <1>1, <1>2, <1>3, Zenon DEF Effects

LEMMA WithEffects ==
  ASSUME Inv, NEW p \in DOMAIN pr, NEW q, NEW l \in Local, NEW m \in Local, With(q, m, p, l),
         PlacedAt(p, l), PlacedAt(q, m), m.pc \in {"run", "main"},
         Kids(p, l.pc) = Kids(p, pr[p].pc) \cup {q}, q \notin Kids(p, pr[p].pc),
         OnShell(p, l), Reports(p, l), line' = line, own' = own
  PROVE  Effects(p)
<1>1. /\ DOMAIN pr' = DOMAIN pr \cup {q}
      /\ \A x \in DOMAIN pr' : pr'[x] = IF x = q THEN m ELSE IF x = p THEN l ELSE pr[x]
  BY DEF With
<1>2. Procs'
  BY WithProcs DEF Inv
<1>3. Kids(q, m.pc) = {}
  <2>1. "run" \notin HasRest \cup HasStage /\ "main" \notin HasRest \cup HasStage
    BY DEF HasRest, HasStage
  <2>2. m.pc \notin HasRest \cup HasStage \cup {"wait"}
    BY <2>1
  <2> QED
    BY <2>2, NoKids
<1>4. Tree' /\ q \notin DOMAIN pr /\ q # Shell
  BY <1>3, WithTree DEF Inv
<1>5. Others(p)
  BY <1>1, <1>4, Zenon DEF Others
<1>6. p \in DOMAIN pr' /\ pr'[p] = l
  BY <1>1, <1>4
<1> QED
  BY <1>2, <1>4, <1>5, <1>6, Zenon DEF Effects

LEMMA WithoutEffects ==
  ASSUME Inv, NEW p \in DOMAIN pr, NEW q \in DOMAIN pr, NEW l \in Local, Without(q, p, l),
         PlacedAt(p, l), pr[q].pc = "zombie", q \in Kids(p, pr[p].pc),
         Kids(p, l.pc) = Kids(p, pr[p].pc) \ {q},
         OnShell(p, l), Reports(p, l), line' = line, own' = own
  PROVE  Effects(p)
<1>1. DOMAIN pr' = DOMAIN pr \ {q} /\ \A x \in DOMAIN pr' : pr'[x] = IF x = p THEN l ELSE pr[x]
  BY WithoutIs
<1>2. Kids(q, pr[q].pc) = {}
  BY NoKids DEF HasRest, HasStage
<1>3. Tree' /\ q # Shell /\ q # p
  BY <1>2, WithoutTree DEF Inv
<1>4. Procs'
  BY <1>3, WithoutProcs DEF Inv
<1>5. Others(p)
  BY <1>1, Zenon DEF Others
<1>6. p \in DOMAIN pr' /\ pr'[p] = l
  BY <1>1, <1>3
<1> QED
  BY <1>3, <1>4, <1>5, <1>6, Zenon DEF Effects

\* A helper that has come to the end of what it runs, with or without a child.
LEMMA DoneEffects ==
  ASSUME Inv, NEW p \in DOMAIN pr, pr[p].pc = "run", NEW l \in Local, NEW st \in Statuses,
         Now(p, l), Status(p, st), l.pc = "done", l.st = st, l.pipe = pr[p].pipe,
         OnShell(p, l), line' = line, own' = own
  PROVE  Effects(p)
<1>1. p \in AnyHelper
  BY KindOf DEF Inv
<1>2. PlacedAt(p, l)
  BY <1>1, DonePlaced DEF Inv
<1>3. Kids(p, l.pc) = {} /\ Kids(p, pr[p].pc) = {}
  BY NoKids DEF HasRest, HasStage
<1>4. Reports(p, l)
  BY DEF Reports, HasRest
<1> QED
  BY <1>2, <1>3, <1>4, NowEffects

LEMMA ZombieEffects ==
  ASSUME Inv, NEW p \in DOMAIN pr, p # Shell, pr[p].pc \in {"run", "main", "eof"}, NEW st \in Statuses,
         Now(p, Zombie(st)), Status(p, st), line' = line, own' = own
  PROVE  Effects(p)
<1>1. Zombie(st) \in Local /\ PlacedAt(p, Zombie(st)) /\ Zombie(st).pc = "zombie" /\ Zombie(st).st = st
  BY ZombiePlaced DEF Inv
<1>2. Kids(p, Zombie(st).pc) = {} /\ Kids(p, pr[p].pc) = {}
  BY <1>1, NoKids DEF HasRest, HasStage
<1>3. Reports(p, Zombie(st)) /\ OnShell(p, Zombie(st))
  BY <1>1 DEF Reports, OnShell, HasRest
<1> QED
  BY <1>1, <1>2, <1>3, NowEffects

LEMMA ReturnsEffects ==
  ASSUME Inv, NEW p \in DOMAIN pr, pr[p].pc = "run", NEW st \in Statuses, Returns(p, st),
         line' = line, own' = own
  PROVE  Effects(p)
<1> DEFINE l == [pr[p] EXCEPT !.pc = "done", !.st = st]
<1>1. pr[p] \in Local /\ (p = Shell => ShellFits(pr[p]))
  BY KindOf DEF Inv, ShellEnds
<1>2. /\ l \in Local /\ l.pc = "done" /\ l.st = st /\ l.pipe = pr[p].pipe /\ l.words = pr[p].words
      /\ l.in = pr[p].in /\ l.out = pr[p].out /\ l.held = pr[p].held
  BY <1>1 DEF Local, Pcs
<1>3. Now(p, l) /\ Status(p, st)
  BY DEF Returns
<1> HIDE DEF l
<1>4. OnShell(p, l)
  BY <1>1, <1>2 DEF OnShell, ShellFits, Files
<1> QED
  BY <1>2, <1>3, <1>4, DoneEffects

LEMMA StatusesAre == 0 \in Statuses /\ 1 \in Statuses /\ 127 \in Statuses /\ {0, 1} \subseteq Statuses
  BY DEF Statuses

LEMMA CommandIs ==
  ASSUME Inv, NEW p \in DOMAIN pr, NEW KS, Command(p, KS)
  PROVE  /\ pr[p].pc = "run" /\ p \in AnyHelper /\ pr[p] \in Local /\ pr[p].pipe[1] \in Word
         /\ p = Shell => ShellFits(pr[p]) /\ \A e \in pr[p].held : ~IsPipe(e)
<1>1. pr[p].pc = "run" /\ p \in AnyHelper /\ pr[p].pipe # <<>>
  BY HelpersAny DEF Command, Simple, At
<1>2. pr[p] \in Local
  BY KindOf DEF Inv
<1>3. pr[p].pipe \in Seq(Word)
  BY <1>2 DEF Local
<1>4. pr[p].pipe[1] \in Word
  BY <1>1, <1>3
<1> QED
  BY <1>1, <1>2, <1>4 DEF Inv, ShellEnds, ShellFits

LEMMA NothingEffects ==
  ASSUME Inv, NEW p \in DOMAIN pr, Nothing(p)
  PROVE  Effects(p)
  BY ReturnsEffects, StatusesAre DEF Nothing, Simple, At

LEMMA ShowEffects ==
  ASSUME Inv, NEW p \in DOMAIN pr, Show(p)
  PROVE  Effects(p)
<1>1. pr[p].pc = "run"
  BY CommandIs DEF Show
<1> QED
  BY <1>1, ReturnsEffects, StatusesAre DEF Show

LEMMA ShowBrokenEffects ==
  ASSUME Inv, NEW p \in DOMAIN pr, ShowBroken(p)
  PROVE  Effects(p)
<1>1. pr[p].pc = "run" /\ (p = Shell => ShellFits(pr[p]))
  BY CommandIs DEF ShowBroken
<1>2. p # Shell
  BY <1>1 DEF ShowBroken, Broken, ShellFits
<1> QED
  BY <1>1, <1>2, ZombieEffects, StatusesAre DEF ShowBroken

LEMMA SetEffects ==
  ASSUME Inv, NEW p \in DOMAIN pr, Set(p)
  PROVE  Effects(p)
<1>1. pr[p].pc = "run"
  BY CommandIs DEF Set
<1> QED
  BY <1>1, ReturnsEffects, StatusesAre DEF Set

LEMMA ExitEffects ==
  ASSUME Inv, NEW p \in DOMAIN pr, Exit(p)
  PROVE  Effects(p)
<1>1. /\ pr[p].pc = "run" /\ pr[p] \in Local
      /\ p = Shell => ShellFits(pr[p]) /\ \A e \in pr[p].held : ~IsPipe(e)
  BY CommandIs DEF Exit
<1>2. PICK st \in {0, 1} : Status(p, st) /\ IF p = Shell THEN Goto(p, "ended") ELSE Now(p, Zombie(st))
  BY DEF Exit
<1>3. st \in Statuses /\ line' = line /\ own' = own
  BY StatusesAre DEF Exit
<1>4. CASE p # Shell
  BY <1>1, <1>2, <1>3, <1>4, ZombieEffects
<1>5. CASE p = Shell
  <2> DEFINE l == [pr[p] EXCEPT !.pc = "ended"]
  <2>1. /\ l \in Local /\ l.pc = "ended" /\ l.words = pr[p].words
        /\ l.in = pr[p].in /\ l.out = pr[p].out /\ l.held = pr[p].held
    BY <1>1 DEF Local, Pcs
  <2>2. Now(p, l)
    BY <1>2, <1>5 DEF Goto
  <2> HIDE DEF l
  <2>3. PlacedAt(p, l)
    BY <2>1, <1>5 DEF PlacedAt, ShellPcs
  <2>4. Kids(p, l.pc) = {} /\ Kids(p, pr[p].pc) = {}
    BY <1>1, <2>1, NoKids DEF HasRest, HasStage
  <2>5. OnShell(p, l)
    BY <1>1, <2>1 DEF OnShell, ShellFits, Files
  <2>6. Reports(p, l)
    BY <1>1, <1>2, <1>3, <2>1 DEF Reports, HasRest
  <2> QED
    BY <1>3, <2>1, <2>2, <2>3, <2>4, <2>5, <2>6, NowEffects
<1> QED
  BY <1>4, <1>5

\* A command with its redirections applied to the process itself.
LEMMA CommandRedirected ==
  ASSUME Inv, NEW p \in DOMAIN pr, Command(p, Programs)
  PROVE  LET m == Redirected(pr[p], pr[p].pipe[1].redir)
         IN /\ m \in Local /\ m.pipe = pr[p].pipe /\ m.words = pr[p].words /\ Files(p, m)
            /\ p = Shell => ~IsPipe(m.in) /\ ~IsPipe(m.out) /\ \A e \in m.held : ~IsPipe(e)
<1> DEFINE l == pr[p]
           rs == l.pipe[1].redir
           m == Redirected(l, rs)
<1>1. /\ l \in Local /\ l.pipe[1] \in Word
      /\ p = Shell => ShellFits(l) /\ \A e \in l.held : ~IsPipe(e)
  BY CommandIs
<1>2. rs \in Seq({"<", ">"} \X STRING)
  BY <1>1 DEF Word
<1>3. /\ m \in Local /\ m = [l EXCEPT !.in = m.in, !.out = m.out, !.held = m.held]
      /\ m.in = l.in \/ (~IsPipe(m.in) /\ \E i \in DOMAIN rs : rs[i][1] = "<")
      /\ m.out = l.out \/ (~IsPipe(m.out) /\ \E i \in DOMAIN rs : rs[i][1] = ">")
      /\ m.held = l.held \cup {l.in, l.out}
  <2> HIDE DEF rs, l
  <2> QED
    BY <1>1, <1>2, RedirectedIs
<1> HIDE DEF m
<1>4. m.pipe = l.pipe /\ m.words = l.words
  BY <1>1, <1>3 DEF Local
<1>5. Files(p, m)
  BY <1>3 DEF Files
<1>6. p = Shell => ~IsPipe(m.in) /\ ~IsPipe(m.out) /\ \A e \in m.held : ~IsPipe(e)
  BY <1>1, <1>3 DEF ShellFits
<1> QED
  BY <1>3, <1>4, <1>5, <1>6 DEF m

LEMMA RedirectedDone ==
  ASSUME Inv, NEW p \in DOMAIN pr, Command(p, Programs),
         Now(p, [Redirected(pr[p], pr[p].pipe[1].redir) EXCEPT !.pc = "done", !.st = 1]),
         Status(p, 1), line' = line, own' = own
  PROVE  Effects(p)
<1> DEFINE m == Redirected(pr[p], pr[p].pipe[1].redir)
           l == [m EXCEPT !.pc = "done", !.st = 1]
<1>1. /\ m \in Local /\ m.pipe = pr[p].pipe /\ m.words = pr[p].words /\ Files(p, m)
      /\ p = Shell => ~IsPipe(m.in) /\ ~IsPipe(m.out) /\ \A e \in m.held : ~IsPipe(e)
  BY CommandRedirected
<1>2. pr[p].pc = "run"
  BY CommandIs
<1>3. Now(p, l)
  OBVIOUS
<1> HIDE DEF m
<1>4. /\ l \in Local /\ l.pc = "done" /\ l.st = 1 /\ l.pipe = m.pipe /\ l.words = m.words
      /\ l.in = m.in /\ l.out = m.out /\ l.held = m.held
  BY <1>1 DEF Local, Pcs, Statuses
<1> HIDE DEF l
<1>5. OnShell(p, l)
  BY <1>1, <1>4 DEF OnShell, ShellFits, Files
<1> QED
  BY <1>1, <1>2, <1>3, <1>4, <1>5, StatusesAre, DoneEffects

LEMMA RedirectionFailsEffects ==
  ASSUME Inv, NEW p \in DOMAIN pr, RedirectionFails(p)
  PROVE  Effects(p)
  BY RedirectedDone DEF RedirectionFails

LEMMA ForkEffects ==
  ASSUME Inv, NEW p \in DOMAIN pr, Fork(p)
  PROVE  Effects(p)
<1> DEFINE c == pr[p].pipe[1]
           m == Redirected(pr[p], c.redir)
           l == [m EXCEPT !.pc = "wait"]
           q == Process("main", <<c>>, m.in, m.out, m.held, Writes(c))
<1>1. Command(p, Programs) /\ line' = line /\ own' = own
  BY DEF Fork
<1>2. \/ With(Prog(p), q, p, l) /\ log' = log
      \/ Now(p, [m EXCEPT !.pc = "done", !.st = 1]) /\ Status(p, 1)
  BY DEF Fork
<1>3. CASE Now(p, [m EXCEPT !.pc = "done", !.st = 1]) /\ Status(p, 1)
  BY <1>1, <1>3, RedirectedDone
<1>4. CASE With(Prog(p), q, p, l) /\ log' = log
  <2>1. /\ m \in Local /\ m.pipe = pr[p].pipe /\ m.words = pr[p].words /\ Files(p, m)
        /\ p = Shell => ~IsPipe(m.in) /\ ~IsPipe(m.out) /\ \A e \in m.held : ~IsPipe(e)
    BY <1>1, CommandRedirected
  <2>2. pr[p].pc = "run" /\ p \in AnyHelper /\ c \in Word
    BY <1>1, CommandIs
  <2>3. <<c>> \in Seq(Word) /\ Writes(c) \in 0 .. Capacity + 1
    BY <2>2, MyshAssumption DEF Writes
  <2> HIDE DEF m, c
  <2>4. /\ l \in Local /\ l.pc = "wait" /\ l.pipe = m.pipe /\ l.words = m.words
        /\ l.in = m.in /\ l.out = m.out /\ l.held = m.held
    BY <2>1 DEF Local, Pcs
  <2>5. m.in \in Descr /\ m.out \in Descr /\ m.held \in SUBSET Descr
    BY <2>1 DEF Local
  <2>6. q \in Local /\ q.pc = "main"
    BY <2>3, <2>5, StatementEmpty DEF Process, Local, Pcs, Statuses
  <2> HIDE DEF l, q
  <2>7. PlacedAt(p, l)
    BY <2>1, <2>2, <2>4, DonePlaced DEF Inv
  <2>8. PlacedAt(Prog(p), q)
    BY <2>2, <2>6 DEF PlacedAt, AnyProgram
  <2>9. Kids(p, pr[p].pc) = {} /\ Kids(p, l.pc) = {Prog(p)}
    <3>1. Kids(p, "wait") = {Prog(p)}
      BY <2>2 DEF Kids, HasRest, HasStage
    <3> QED
      BY <2>2, <2>4, <3>1, NoKids DEF HasRest, HasStage
  <2>10. OnShell(p, l)
    BY <2>1, <2>4 DEF OnShell, ShellFits, Files
  <2>11. Reports(p, l)
    BY <1>4, <2>4 DEF Reports
  <2> QED
    BY <1>1, <1>4, <2>4, <2>6, <2>7, <2>8, <2>9, <2>10, <2>11, WithEffects
<1> QED
  BY <1>2, <1>3, <1>4

LEMMA KidsAt ==
  ASSUME NEW p \in AnyRest
  PROVE  /\ K(p) \in Nat \ {0} /\ Stage(K(p)) \in AnyStage /\ Rest(K(p)) \in AnyRest \ {Shell}
         /\ Stage(K(p)) # Rest(K(p)) /\ Prog(p) # Stage(K(p)) /\ Prog(p) # Rest(K(p))
         /\ Rest(K(p))[1] = "rest"
         /\ \A pc : /\ Stage(K(p)) \in Kids(p, pc) <=> pc \in HasStage
                    /\ Rest(K(p)) \in Kids(p, pc) <=> pc \in HasRest
                    /\ pc # "wait" => Kids(p, pc) \subseteq {Stage(K(p)), Rest(K(p))}
<1>1. PICK d \in Nat : p = Rest(d)
  BY DEF AnyRest
<1>2. K(p) = d + 1 /\ d + 1 \in Nat \ {0}
  BY <1>1, NamesDiffer DEF K
<1> DEFINE k == d + 1
<1>3. K(p) = k /\ k \in Nat \ {0}
  BY <1>2
<1> HIDE DEF k
<1>4. Stage(k) \in AnyStage /\ Rest(k) \in AnyRest /\ Rest(k) # Shell /\ Stage(k) # Rest(k) /\ Rest(k)[1] = "rest"
  BY <1>3, NamesDiffer, ShellIs DEF AnyStage, AnyRest
<1>5. p \in AnyHelper /\ Prog(p) \notin AnyHelper
  BY ProgramNames DEF AnyHelper
<1>6. Prog(p) # Stage(k) /\ Prog(p) # Rest(k)
  BY <1>4, <1>5 DEF AnyHelper
<1> QED
  BY <1>3, <1>4, <1>6 DEF Kids

LEMMA EndsOpen ==
  ASSUME NEW p \in AnyRest
  PROVE  R(K(p)) \in Descr /\ W(K(p)) \in Descr /\ Ends(p) \subseteq Descr
  BY KidsAt DEF Ends, Descr

LEMMA PipedIs ==
  ASSUME Inv, NEW p \in DOMAIN pr, Piped(p)
  PROVE  pr[p].pc = "run" /\ p \in AnyRest
<1>1. pr[p].pc = "run" /\ p \in AnyHelper /\ First(pr[p].pipe, {"|"}) <= Len(pr[p].pipe)
  BY HelpersAny DEF Piped, At
<1>2. pr[p] \in Local /\ PlacedAt(p, pr[p])
  BY KindOf DEF Inv
<1>3. pr[p].pipe \in Seq(Word)
  BY <1>2 DEF Local
<1>4. First(pr[p].pipe, {"|"}) \in 1 .. Len(pr[p].pipe) + 1 /\ Len(pr[p].pipe) \in Nat
  BY <1>3, FirstIs
<1>5. ~NoBar(pr[p].pipe)
  <2> DEFINE f == First(pr[p].pipe, {"|"})
             n == Len(pr[p].pipe)
  <2>1. f \in 1 .. n + 1 /\ n \in Nat /\ f <= n /\ (NoBar(pr[p].pipe) <=> f > n)
    BY <1>1, <1>3, <1>4, NoBarIs
  <2> HIDE DEF f, n
  <2> QED
    BY <2>1
<1>6. p \notin AnyProgram
  BY <1>1, ProgramNames DEF AnyProgram
<1> QED
  BY <1>1, <1>2, <1>5, <1>6, ShellIs DEF PlacedAt

LEMMA PipeEffects ==
  ASSUME Inv, NEW p \in DOMAIN pr, Pipe(p)
  PROVE  Effects(p)
<1> DEFINE l == [pr[p] EXCEPT !.pc = "fork1", !.held = @ \cup Ends(p)]
<1>1. pr[p].pc = "run" /\ p \in AnyRest /\ line' = line /\ own' = own
  BY PipedIs DEF Pipe
<1>2. pr[p] \in Local /\ (p = Shell => ShellFits(pr[p]))
  BY KindOf DEF Inv, ShellEnds
<1>3. CASE Returns(p, 1)
  BY <1>1, <1>3, ReturnsEffects, StatusesAre
<1>4. CASE Now(p, l) /\ log' = log
  <2>1. pr[p].held \cup Ends(p) \subseteq Descr
    BY <1>1, <1>2, EndsOpen DEF Local
  <2>2. /\ l \in Local /\ l.pc = "fork1" /\ l.words = pr[p].words
        /\ l.in = pr[p].in /\ l.out = pr[p].out /\ l.held = pr[p].held \cup Ends(p)
    BY <1>2, <2>1 DEF Local, Pcs
  <2> HIDE DEF l
  <2>3. PlacedAt(p, l)
    BY <1>1, <2>2, RestPlaced DEF RestPcs
  <2>4. Kids(p, l.pc) = {} /\ Kids(p, pr[p].pc) = {}
    BY <1>1, <2>2, NoKids DEF HasRest, HasStage
  <2>5. OnShell(p, l)
    BY <1>1, <1>2, <2>2 DEF OnShell, ShellFits, Files
  <2>6. Reports(p, l)
    BY <1>4, <2>2 DEF Reports
  <2> QED
    BY <1>1, <1>4, <2>2, <2>3, <2>4, <2>5, <2>6, NowEffects
<1> QED
  BY <1>3, <1>4 DEF Pipe

\* A process of the chain before it has closed its pipe.
LEMMA ChainAt ==
  ASSUME Inv, NEW p \in DOMAIN pr, pr[p].pc \in {"fork1", "fork2", "close", "wait1", "wait2", "waitOnly"}
  PROVE  /\ p \in AnyRest /\ pr[p] \in Local /\ (p = Shell => ShellFits(pr[p]))
         /\ Shut(p) = [pr[p] EXCEPT !.held = Shut(p).held] /\ Shut(p) \in Local
         /\ Shut(p).held \in SUBSET Descr
         /\ p = Shell => \A e \in Shut(p).held : ~IsPipe(e)
<1>1. p \in AnyRest /\ pr[p] \in Local /\ (p = Shell => ShellFits(pr[p]))
  BY KindOf DEF Inv, ShellEnds
<1>2. Shut(p) = [pr[p] EXCEPT !.held = pr[p].held \ Ends(p)]
  BY <1>1 DEF Shut, Local
<1>3. Shut(p).held = pr[p].held \ Ends(p) /\ Shut(p) \in Local
  BY <1>1, <1>2 DEF Local
<1> QED
  BY <1>1, <1>2, <1>3 DEF ShellFits, Local

LEMMA Fork1Effects ==
  ASSUME Inv, NEW p \in DOMAIN pr, Fork1(p)
  PROVE  Effects(p)
<1> DEFINE q == Process("run", Before(pr[p].pipe, {"|"}), pr[p].in, W(K(p)), Shut(p).held, 0)
<1>1. pr[p].pc = "fork1" /\ line' = line /\ own' = own
  BY DEF Fork1, At
<1>2. /\ p \in AnyRest /\ pr[p] \in Local /\ (p = Shell => ShellFits(pr[p]))
      /\ Shut(p) = [pr[p] EXCEPT !.held = Shut(p).held] /\ Shut(p) \in Local
      /\ Shut(p).held \in SUBSET Descr
      /\ p = Shell => \A e \in Shut(p).held : ~IsPipe(e)
  BY <1>1, ChainAt
<1>3. CASE With(Stage(K(p)), q, p, [pr[p] EXCEPT !.pc = "fork2"]) /\ log' = log
  <2> DEFINE l == [pr[p] EXCEPT !.pc = "fork2"]
             b == Before(pr[p].pipe, {"|"})
  <2>1. /\ l \in Local /\ l.pc = "fork2" /\ l.words = pr[p].words
        /\ l.in = pr[p].in /\ l.out = pr[p].out /\ l.held = pr[p].held
    BY <1>2 DEF Local, Pcs
  <2>2. b \in Seq(Word) /\ NoBar(b)
    <3>1. pr[p].pipe \in Seq(Word)
      BY <1>2 DEF Local
    <3>2. /\ b \in Seq(Word) /\ Len(b) = First(pr[p].pipe, {"|"}) - 1
          /\ \A i \in 1 .. First(pr[p].pipe, {"|"}) - 1 :
                b[i] = pr[p].pipe[i] /\ pr[p].pipe[i].kind \notin {"|"}
      BY <3>1, BeforeIs
    <3>3. \A i \in 1 .. Len(b) : b[i].kind \notin {"|"}
      BY <3>2, Zenon
    <3> QED
      BY <3>2, <3>3 DEF NoBar
  <2>3. pr[p].in \in Descr /\ W(K(p)) \in Descr /\ 0 \in 0 .. Capacity + 1
    BY <1>2, EndsOpen, MyshAssumption DEF Local
  <2> HIDE DEF b
  <2>4. q \in Local /\ q.pc = "run" /\ q.pipe = b
    <3>1. q = Process("run", b, pr[p].in, W(K(p)), Shut(p).held, 0)
      BY DEF b
    <3> HIDE DEF q
    <3> QED
      BY <1>2, <2>2, <2>3, <3>1, StatementEmpty DEF Process, Local, Pcs, Statuses
  <2>5. With(Stage(K(p)), q, p, l)
    BY <1>3
  <2> HIDE DEF l, q
  <2>6. PlacedAt(p, l)
    BY <1>2, <2>1, RestPlaced DEF RestPcs
  <2>7. PlacedAt(Stage(K(p)), q)
    BY <1>2, <2>2, <2>4, KidsAt DEF PlacedAt
  <2>8. Kids(p, pr[p].pc) = {} /\ Kids(p, l.pc) = {Stage(K(p))}
    BY <1>1, <1>2, <2>1, NoKids, KidsAt DEF HasRest, HasStage
  <2>9. OnShell(p, l)
    BY <1>2, <2>1 DEF OnShell, ShellFits, Files
  <2>10. Reports(p, l)
    BY <1>3, <2>1 DEF Reports
  <2> QED
    BY <1>1, <2>1, <2>4, <2>5, <2>6, <2>7, <2>8, <2>9, <2>10, WithEffects
<1>4. CASE Now(p, [Shut(p) EXCEPT !.pc = "done", !.st = 1]) /\ Status(p, 1)
  <2> DEFINE l == [Shut(p) EXCEPT !.pc = "done", !.st = 1]
             h == Shut(p)
  <2>1. /\ h \in Local /\ h.words = pr[p].words /\ h.in = pr[p].in /\ h.out = pr[p].out
        /\ l = [h EXCEPT !.pc = "done", !.st = 1]
    BY <1>2 DEF Local
  <2>2. Now(p, l)
    BY <1>4
  <2> HIDE DEF l, h
  <2>3. /\ l \in Local /\ l.pc = "done" /\ l.st = 1 /\ l.words = h.words
        /\ l.in = h.in /\ l.out = h.out /\ l.held = h.held
    BY <2>1 DEF Local, Pcs, Statuses
  <2>4. PlacedAt(p, l)
    BY <1>2, <2>3, RestPlaced DEF RestPcs
  <2>5. Kids(p, pr[p].pc) = {} /\ Kids(p, l.pc) = {}
    BY <1>1, <2>3, NoKids DEF HasRest, HasStage
  <2>6. OnShell(p, l)
    BY <1>2, <2>1, <2>3 DEF OnShell, ShellFits, Files, h
  <2>7. Reports(p, l)
    BY <1>1, <1>4, <2>3, StatusesAre DEF Reports, HasRest
  <2> QED
    BY <1>1, <2>2, <2>3, <2>4, <2>5, <2>6, <2>7, NowEffects
<1> QED
  BY <1>3, <1>4 DEF Fork1

LEMMA Fork2Effects ==
  ASSUME Inv, NEW p \in DOMAIN pr, Fork2(p)
  PROVE  Effects(p)
<1> DEFINE q == Process("run", After(pr[p].pipe, {"|"}), R(K(p)), pr[p].out, Shut(p).held, 0)
<1>1. pr[p].pc = "fork2" /\ line' = line /\ own' = own
  BY DEF Fork2, At
<1>2. /\ p \in AnyRest /\ pr[p] \in Local /\ (p = Shell => ShellFits(pr[p]))
      /\ Shut(p) = [pr[p] EXCEPT !.held = Shut(p).held] /\ Shut(p) \in Local
      /\ Shut(p).held \in SUBSET Descr
      /\ p = Shell => \A e \in Shut(p).held : ~IsPipe(e)
  BY <1>1, ChainAt
<1>3. CASE With(Rest(K(p)), q, p, [pr[p] EXCEPT !.pc = "close"]) /\ log' = log
  <2> DEFINE l == [pr[p] EXCEPT !.pc = "close"]
             a == After(pr[p].pipe, {"|"})
  <2>1. /\ l \in Local /\ l.pc = "close" /\ l.words = pr[p].words
        /\ l.in = pr[p].in /\ l.out = pr[p].out /\ l.held = pr[p].held
    BY <1>2 DEF Local, Pcs
  <2>2. a \in Seq(Word)
    BY <1>2, AfterIs DEF Local
  <2>3. pr[p].out \in Descr /\ R(K(p)) \in Descr /\ 0 \in 0 .. Capacity + 1
    BY <1>2, EndsOpen, MyshAssumption DEF Local
  <2> HIDE DEF a
  <2>4. q \in Local /\ q.pc = "run"
    <3>1. q = Process("run", a, R(K(p)), pr[p].out, Shut(p).held, 0)
      BY DEF a
    <3> HIDE DEF q
    <3> QED
      BY <1>2, <2>2, <2>3, <3>1, StatementEmpty DEF Process, Local, Pcs, Statuses
  <2>5. With(Rest(K(p)), q, p, l)
    BY <1>3
  <2> HIDE DEF l, q
  <2>6. PlacedAt(p, l)
    BY <1>2, <2>1, RestPlaced DEF RestPcs
  <2>7. PlacedAt(Rest(K(p)), q)
    BY <1>2, <2>4, KidsAt DEF PlacedAt, RestPcs
  <2>8. Kids(p, pr[p].pc) = {Stage(K(p))} /\ Kids(p, l.pc) = {Stage(K(p)), Rest(K(p))}
    BY <1>1, <1>2, <2>1, KidsAt DEF HasRest, HasStage
  <2>9. OnShell(p, l)
    BY <1>2, <2>1 DEF OnShell, ShellFits, Files
  <2>10. Reports(p, l)
    BY <1>3, <2>1 DEF Reports
  <2>11. Stage(K(p)) # Rest(K(p))
    BY <1>2, KidsAt
  <2> QED
    BY <1>1, <2>1, <2>4, <2>5, <2>6, <2>7, <2>8, <2>9, <2>10, <2>11, WithEffects
<1>4. CASE Now(p, [Shut(p) EXCEPT !.pc = "waitOnly"]) /\ Status(p, 1)
  <2> DEFINE l == [Shut(p) EXCEPT !.pc = "waitOnly"]
             h == Shut(p)
  <2>1. /\ h \in Local /\ h.words = pr[p].words /\ h.in = pr[p].in /\ h.out = pr[p].out
        /\ l = [h EXCEPT !.pc = "waitOnly"]
    BY <1>2 DEF Local
  <2>2. Now(p, l)
    BY <1>4
  <2> HIDE DEF l, h
  <2>3. /\ l \in Local /\ l.pc = "waitOnly" /\ l.words = h.words
        /\ l.in = h.in /\ l.out = h.out /\ l.held = h.held
    BY <2>1 DEF Local, Pcs
  <2>4. PlacedAt(p, l)
    BY <1>2, <2>3, RestPlaced DEF RestPcs
  <2>5. Kids(p, pr[p].pc) = {Stage(K(p))} /\ Kids(p, l.pc) = {Stage(K(p))}
    BY <1>1, <1>2, <2>3, KidsAt DEF HasRest, HasStage
  <2>6. OnShell(p, l)
    BY <1>2, <2>1, <2>3 DEF OnShell, ShellFits, Files, h
  <2>7. Reports(p, l)
    BY <1>1, <1>4, <2>3, StatusesAre DEF Reports, HasRest
  <2> QED
    BY <1>1, <2>2, <2>3, <2>4, <2>5, <2>6, <2>7, NowEffects
<1> QED
  BY <1>3, <1>4 DEF Fork2

LEMMA ClosePipeEffects ==
  ASSUME Inv, NEW p \in DOMAIN pr, ClosePipe(p)
  PROVE  Effects(p)
<1> DEFINE h == Shut(p)
           l == [h EXCEPT !.pc = "wait1"]
<1>1. pr[p].pc = "close" /\ line' = line /\ own' = own /\ log' = log /\ Now(p, l)
  BY DEF ClosePipe, At, history
<1>2. /\ p \in AnyRest /\ pr[p] \in Local /\ (p = Shell => ShellFits(pr[p]))
      /\ h \in Local /\ h.words = pr[p].words /\ h.in = pr[p].in /\ h.out = pr[p].out
      /\ p = Shell => \A e \in h.held : ~IsPipe(e)
  <2>1. h = [pr[p] EXCEPT !.held = h.held] /\ pr[p] \in Local
    BY <1>1, ChainAt
  <2>2. h.words = pr[p].words /\ h.in = pr[p].in /\ h.out = pr[p].out
    BY <2>1 DEF Local
  <2> QED
    BY <1>1, <2>2, ChainAt
<1> HIDE DEF h
<1>3. /\ l \in Local /\ l.pc = "wait1" /\ l.words = h.words
      /\ l.in = h.in /\ l.out = h.out /\ l.held = h.held
  BY <1>2 DEF Local, Pcs
<1> HIDE DEF l
<1>4. PlacedAt(p, l)
  BY <1>2, <1>3, RestPlaced DEF RestPcs
<1>5. Kids(p, pr[p].pc) = Kids(p, l.pc)
  BY <1>1, <1>3 DEF Kids, HasRest, HasStage
<1>6. OnShell(p, l)
  BY <1>2, <1>3 DEF OnShell, ShellFits, Files
<1>7. Reports(p, l)
  BY <1>1, <1>3 DEF Reports
<1> QED
  BY <1>1, <1>3, <1>4, <1>5, <1>6, <1>7, NowEffects

\* A process that has waited for q goes on.
LEMMA WaitedEffects ==
  ASSUME Inv, NEW p \in DOMAIN pr, NEW q, At(q, "zombie"), p \in AnyHelper,
         pr[p].pc \in {"wait", "wait1", "wait2", "waitOnly"},
         NEW pc \in {"wait2", "done"}, NEW st \in Statuses,
         Without(q, p, [pr[p] EXCEPT !.pc = pc, !.st = st]),
         p \in AnyRest \/ pc = "done",
         q \in Kids(p, pr[p].pc), Kids(p, pc) = Kids(p, pr[p].pc) \ {q},
         (p[1] = "rest" /\ pc = "done") => st = Result,
         log' = log, line' = line, own' = own
  PROVE  Effects(p)
<1> DEFINE l == [pr[p] EXCEPT !.pc = pc, !.st = st]
<1>1. pr[p] \in Local /\ (p = Shell => ShellFits(pr[p])) /\ q \in DOMAIN pr /\ pr[q].pc = "zombie"
  BY KindOf DEF Inv, ShellEnds, At
<1>2. /\ l \in Local /\ l.pc = pc /\ l.st = st /\ l.words = pr[p].words /\ l.pipe = pr[p].pipe
      /\ l.in = pr[p].in /\ l.out = pr[p].out /\ l.held = pr[p].held
  BY <1>1 DEF Local, Pcs
<1>3. Without(q, p, l)
  OBVIOUS
<1> HIDE DEF l
<1>4. PlacedAt(p, l)
  <2>1. CASE p \in AnyRest
    BY <2>1, <1>2, RestPlaced DEF RestPcs
  <2>2. CASE pc = "done"
    BY <2>2, <1>2, DonePlaced DEF Inv
  <2> QED
    BY <2>1, <2>2
<1>5. OnShell(p, l)
  BY <1>1, <1>2 DEF OnShell, ShellFits, Files
<1>6. Reports(p, l)
  BY <1>2 DEF Reports
<1> QED
  BY <1>1, <1>2, <1>3, <1>4, <1>5, <1>6, WithoutEffects

LEMMA WaitEffects ==
  ASSUME Inv, NEW p \in DOMAIN pr, Wait(p)
  PROVE  Effects(p)
<1> DEFINE q == Prog(p)
           st == pr[q].st
<1>1. /\ pr[p].pc = "wait" /\ At(q, "zombie") /\ q \in DOMAIN pr /\ pr[q].pc = "zombie"
      /\ Without(q, p, [pr[p] EXCEPT !.pc = "done", !.st = st])
      /\ log' = log /\ line' = line /\ own' = own
  BY DEF Wait, At, history
<1>2. p \in AnyHelper /\ st \in Statuses
  BY <1>1, KindOf DEF Inv, Local
<1>3. q \in Kids(p, pr[p].pc) /\ Kids(p, "done") = Kids(p, pr[p].pc) \ {q}
  BY <1>1, <1>2 DEF Kids, HasRest, HasStage
<1>4. p[1] = "rest" => st = Result
  BY <1>1, <1>2, ProgramNames DEF Inv, Reported, ReportedAt
<1> HIDE DEF q, st
<1> QED
  BY <1>1, <1>2, <1>3, <1>4, WaitedEffects

LEMMA Wait1Effects ==
  ASSUME Inv, NEW p \in DOMAIN pr, Wait1(p)
  PROVE  Effects(p)
<1> DEFINE q == Stage(K(p))
<1>1. /\ pr[p].pc \in {"wait1", "waitOnly"} /\ At(q, "zombie")
      /\ Without(q, p, IF pr[p].pc = "wait1" THEN [pr[p] EXCEPT !.pc = "wait2"]
                                            ELSE [pr[p] EXCEPT !.pc = "done", !.st = 1])
      /\ log' = log /\ line' = line /\ own' = own
  BY DEF Wait1, At, history
<1>2. p \in AnyRest /\ p \in AnyHelper /\ pr[p] \in Local /\ pr[p].st \in Statuses /\ p[1] = "rest"
  BY <1>1, KindOf, NamesDiffer DEF Inv, Local, AnyHelper, AnyRest
<1>3. q \in Kids(p, pr[p].pc)
  BY <1>1, <1>2, KidsAt DEF HasStage
<1>4. CASE pr[p].pc = "wait1"
  <2>1. [pr[p] EXCEPT !.pc = "wait2"] = [pr[p] EXCEPT !.pc = "wait2", !.st = pr[p].st]
    BY <1>2 DEF Local
  <2>2. Kids(p, "wait2") = Kids(p, pr[p].pc) \ {q}
    BY <1>2, <1>4, KidsAt DEF HasStage, HasRest
  <2> DEFINE st == pr[p].st
  <2>3. Without(q, p, [pr[p] EXCEPT !.pc = "wait2", !.st = st]) /\ st \in Statuses
    BY <1>1, <1>2, <1>4, <2>1
  <2> HIDE DEF q, st
  <2> QED
    BY <1>1, <1>2, <1>3, <2>2, <2>3, WaitedEffects
<1>5. CASE pr[p].pc = "waitOnly"
  <2>1. Kids(p, "done") = Kids(p, pr[p].pc) \ {q}
    BY <1>2, <1>5, KidsAt DEF HasStage, HasRest
  <2>2. Result = 1
    BY <1>2, <1>5 DEF Inv, Reported, ReportedAt
  <2>3. Without(q, p, [pr[p] EXCEPT !.pc = "done", !.st = 1]) /\ 1 \in Statuses
    BY <1>1, <1>5, StatusesAre
  <2> HIDE DEF q
  <2> QED
    BY <1>1, <1>2, <1>3, <2>1, <2>2, <2>3, WaitedEffects
<1> QED
  BY <1>1, <1>4, <1>5

LEMMA Wait2Effects ==
  ASSUME Inv, NEW p \in DOMAIN pr, Wait2(p)
  PROVE  Effects(p)
<1> DEFINE q == Rest(K(p))
           st == pr[q].st
<1>1. /\ pr[p].pc = "wait2" /\ At(q, "zombie") /\ q \in DOMAIN pr /\ pr[q].pc = "zombie"
      /\ Without(q, p, [pr[p] EXCEPT !.pc = "done", !.st = st])
      /\ log' = log /\ line' = line /\ own' = own
  BY DEF Wait2, At, history
<1>2. p \in AnyRest /\ p \in AnyHelper /\ st \in Statuses
  BY <1>1, KindOf DEF Inv, Local, AnyHelper
<1>3. q \in Kids(p, pr[p].pc) /\ Kids(p, "done") = Kids(p, pr[p].pc) \ {q}
  BY <1>1, <1>2, KidsAt DEF HasStage, HasRest
<1>4. st = Result
  BY <1>1, <1>2, KidsAt DEF Inv, Reported, ReportedAt
<1> HIDE DEF q, st
<1> QED
  BY <1>1, <1>2, <1>3, <1>4, WaitedEffects

\* A child is done: its status is its exit code, if it is the rest.
LEMMA ChildDoneEffects ==
  ASSUME Inv, NEW p \in DOMAIN pr, p # Shell, Done(p)
  PROVE  Effects(p)
<1> DEFINE st == ExitCode(p)
<1>1. /\ pr[p].pc = "done" /\ Now(p, Zombie(st)) /\ log' = log /\ line' = line /\ own' = own
  BY DEF Done, At, history
<1>2. p \in AnyHelper /\ pr[p] \in Local
  BY <1>1, KindOf DEF Inv
<1>3. st \in Statuses /\ (p[1] = "rest" => st = Result)
  BY <1>1, <1>2 DEF ExitCode, Local, Statuses, Inv, Reported, ReportedAt
<1> HIDE DEF st
<1>4. Zombie(st) \in Local /\ PlacedAt(p, Zombie(st)) /\ Zombie(st).pc = "zombie" /\ Zombie(st).st = st
  BY <1>3, ZombiePlaced DEF Inv
<1>5. Kids(p, Zombie(st).pc) = {} /\ Kids(p, pr[p].pc) = {}
  BY <1>1, <1>4, NoKids DEF HasRest, HasStage
<1>6. Reports(p, Zombie(st)) /\ OnShell(p, Zombie(st))
  BY <1>1, <1>3, <1>4 DEF Reports, OnShell
<1> QED
  BY <1>1, <1>4, <1>5, <1>6, NowEffects

\* A program at its work.
LEMMA ProgramEffects ==
  ASSUME Inv, NEW p \in DOMAIN pr, pr[p].pc \in {"main", "eof"}, NEW pc \in {"main", "eof"},
         NEW n \in 0 .. Capacity + 1, Now(p, [pr[p] EXCEPT !.n = n, !.pc = pc]),
         log' = log, line' = line, own' = own
  PROVE  Effects(p)
<1> DEFINE l == [pr[p] EXCEPT !.n = n, !.pc = pc]
<1>1. pr[p] \in Local /\ p \in AnyProgram
  BY KindOf DEF Inv
<1>2. l \in Local /\ l.pc = pc
  BY <1>1 DEF Local, Pcs
<1>3. p # Shell
  BY <1>1, ShellIs, ProgramNames DEF AnyProgram
<1>4. Now(p, l)
  OBVIOUS
<1> HIDE DEF l
<1>5. PlacedAt(p, l)
  BY <1>1, <1>2 DEF PlacedAt
<1>6. Kids(p, l.pc) = {} /\ Kids(p, pr[p].pc) = {}
  BY <1>2, NoKids DEF HasRest, HasStage
<1>7. Reports(p, l) /\ OnShell(p, l)
  BY <1>2, <1>3 DEF Reports, OnShell
<1> QED
  BY <1>2, <1>4, <1>5, <1>6, <1>7, NowEffects

LEMMA OverEffects ==
  ASSUME Inv, NEW p \in DOMAIN pr, pr[p].pc \in {"main", "eof"}, NEW st \in Statuses, Over(p, st),
         line' = line, own' = own
  PROVE  Effects(p)
<1>1. p # Shell
  BY KindOf, ShellIs, ProgramNames DEF Inv, AnyProgram
<1> QED
  BY <1>1, ZombieEffects DEF Over

LEMMA WriteEffects ==
  ASSUME Inv, NEW p \in DOMAIN pr, Write(p)
  PROVE  Effects(p)
<1>1. pr[p].pc \in {"main", "eof"} /\ line' = line /\ own' = own
  BY DEF Write, Running, At
<1>2. CASE Over(p, 1)
  BY <1>1, <1>2, OverEffects, StatusesAre
<1>3. CASE log' = log /\ Now(p, [pr[p] EXCEPT !.n = IF @ > 0 THEN @ - 1 ELSE 0])
  <2>1. pr[p] \in Local /\ pr[p].n \in 0 .. Capacity + 1 /\ Capacity \in Nat
    BY KindOf, MyshAssumption DEF Inv, Local
  <2> DEFINE n == IF pr[p].n > 0 THEN pr[p].n - 1 ELSE 0
             pc == pr[p].pc
  <2>2. n \in 0 .. Capacity + 1
    BY <2>1
  <2>3. [pr[p] EXCEPT !.n = IF @ > 0 THEN @ - 1 ELSE 0] = [pr[p] EXCEPT !.n = n, !.pc = pc]
    <3>1. [pr[p] EXCEPT !.n = IF @ > 0 THEN @ - 1 ELSE 0] = [pr[p] EXCEPT !.n = n]
      BY <2>1 DEF Local
    <3> HIDE DEF n
    <3> QED
      BY <2>1, <3>1 DEF Local
  <2>4. Now(p, [pr[p] EXCEPT !.n = n, !.pc = pc]) /\ pc \in {"main", "eof"}
    BY <1>1, <1>3, <2>3
  <2> HIDE DEF n, pc
  <2> QED
    BY <1>1, <1>3, <2>2, <2>4, ProgramEffects
<1> QED
  BY <1>2, <1>3 DEF Write

LEMMA ReadEffects ==
  ASSUME Inv, NEW p \in DOMAIN pr, Read(p)
  PROVE  Effects(p)
<1>1. pr[p].pc = "main" /\ line' = line /\ own' = own /\ log' = log
  BY DEF Read, At, history
<1>2. pr[p] \in Local /\ pr[p].n \in 0 .. Capacity + 1 /\ 1 \in 0 .. Capacity + 1
  BY KindOf, MyshAssumption DEF Inv, Local
<1>3. \E pc \in {"main", "eof"} : Now(p, [pr[p] EXCEPT !.n = 1, !.pc = pc]) \/ Goto(p, "eof")
  BY DEF Read
<1>4. PICK pc \in {"main", "eof"} : Now(p, [pr[p] EXCEPT !.n = 1, !.pc = pc]) \/ Goto(p, "eof")
  BY <1>3
<1>5. CASE Now(p, [pr[p] EXCEPT !.n = 1, !.pc = pc])
  BY <1>1, <1>2, <1>5, ProgramEffects
<1>6. CASE Goto(p, "eof")
  <2> DEFINE n == pr[p].n
  <2>1. [pr[p] EXCEPT !.pc = "eof"] = [pr[p] EXCEPT !.n = n, !.pc = "eof"]
    BY <1>2 DEF Local
  <2>2. Now(p, [pr[p] EXCEPT !.n = n, !.pc = "eof"]) /\ n \in 0 .. Capacity + 1
    BY <1>2, <1>6, <2>1 DEF Goto
  <2> HIDE DEF n
  <2> QED
    BY <1>1, <2>2, ProgramEffects
<1> QED
  BY <1>4, <1>5, <1>6

LEMMA FinishEffects ==
  ASSUME Inv, NEW p \in DOMAIN pr, Finish(p)
  PROVE  Effects(p)
<1>1. pr[p].pc \in {"main", "eof"} /\ line' = line /\ own' = own
  BY DEF Finish, Running, At
<1>2. \E st \in Statuses : Over(p, st)
  BY StatusesAre DEF Finish
<1> QED
  BY <1>1, <1>2, OverEffects

LEMMA StepEffects ==
  ASSUME Inv, NEW p \in DOMAIN pr, Step(p), ~(p = Shell /\ Done(p))
  PROVE  Effects(p)
<1>1. CASE Nothing(p)
  BY <1>1, NothingEffects
<1>2. CASE Show(p)
  BY <1>2, ShowEffects
<1>3. CASE ShowBroken(p)
  BY <1>3, ShowBrokenEffects
<1>4. CASE Set(p)
  BY <1>4, SetEffects
<1>5. CASE Exit(p)
  BY <1>5, ExitEffects
<1>6. CASE RedirectionFails(p)
  BY <1>6, RedirectionFailsEffects
<1>7. CASE Fork(p)
  BY <1>7, ForkEffects
<1>8. CASE Wait(p)
  BY <1>8, WaitEffects
<1>9. CASE Pipe(p)
  BY <1>9, PipeEffects
<1>10. CASE Fork1(p)
  BY <1>10, Fork1Effects
<1>11. CASE Fork2(p)
  BY <1>11, Fork2Effects
<1>12. CASE ClosePipe(p)
  BY <1>12, ClosePipeEffects
<1>13. CASE Wait1(p)
  BY <1>13, Wait1Effects
<1>14. CASE Wait2(p)
  BY <1>14, Wait2Effects
<1>15. CASE Done(p)
  BY <1>15, ChildDoneEffects
<1>16. CASE Write(p)
  BY <1>16, WriteEffects
<1>17. CASE Read(p)
  BY <1>17, ReadEffects
<1>18. CASE Finish(p)
  BY <1>18, FinishEffects
<1> QED
  BY <1>1, <1>2, <1>3, <1>4, <1>5, <1>6, <1>7, <1>8, <1>9, <1>10, <1>11, <1>12, <1>13, <1>14,
     <1>15, <1>16, <1>17, <1>18, Zenon DEF Step

-----------------------------------------------------------------------------
(* The invariant is kept.                                                  *)

\* RunsByStatus, of any line, step of the shell and history.
FollowsIn(ln, pos, st) ==
  LET ops(S) == {i \in pos .. Len(ln) : ln[i].kind \in S}
      semi == Min(ops({";"}) \cup {Len(ln)}) + 1
      o == Min(ops({";", "&&", "||"}) \cup {Len(ln)})
  IN IF o \in ops({"&&", "||"}) /\ (ln[o].kind = "&&" <=> st = 0) THEN o + 1 ELSE semi
RunsIn(ln, pc, lg) ==
  /\ \A k \in 1 .. Len(lg) - 1 : lg[k+1].pos = FollowsIn(ln, lg[k].pos, lg[k].st)
  /\ (pc = "read" /\ lg # <<>>) =>
        FollowsIn(ln, lg[Len(lg)].pos, lg[Len(lg)].st) = Len(ln) + 1

LEMMA FollowsIs ==
  ASSUME NEW pos, NEW st
  PROVE  Follows(pos, st) = FollowsIn(line, pos, st)
  BY Zenon DEF Follows, FollowsIn

LEMMA RunsIs == RunsByStatus <=> RunsIn(line, pr[Shell].pc, log)
  BY Zenon DEF RunsByStatus, RunsIn, Follows, FollowsIn

LEMMA RunsIsNext == RunsByStatus' <=> RunsIn(line', pr'[Shell].pc, log')
  BY Zenon DEF RunsByStatus, RunsIn, Follows, FollowsIn

LEMMA StatusIs ==
  ASSUME log \in Seq(Entry), log # <<>>, NEW p, NEW st \in Statuses, Status(p, st)
  PROVE  /\ log' \in Seq(Entry) /\ Len(log') = Len(log) /\ log' # <<>>
         /\ \A k \in 1 .. Len(log) : log'[k].pos = log[k].pos /\ (k # Len(log) => log'[k] = log[k])
         /\ IF p[1] = "rest" THEN log'[Len(log)].st = st ELSE log' = log
<1>1. Len(log) \in Nat \ {0} /\ \A k \in 1 .. Len(log) : log[k] \in Entry
  OBVIOUS
<1>2. CASE p[1] # "rest"
  BY <1>1, <1>2 DEF Status
<1>3. CASE p[1] = "rest"
  <2> DEFINE n == Len(log)
             e == [log[n] EXCEPT !.st = st]
  <2>1. log' = [log EXCEPT ![n] = e]
    BY <1>3 DEF Status
  <2>2. e \in Entry /\ e.pos = log[n].pos /\ e.st = st
    BY <1>1 DEF Entry
  <2> HIDE DEF e
  <2>3. log' \in Seq(Entry) /\ Len(log') = n
    BY <2>1, <2>2
  <2>4. \A k \in 1 .. n : log'[k] = IF k = n THEN e ELSE log[k]
    BY <2>1
  <2> QED
    BY <1>1, <1>3, <2>2, <2>3, <2>4
<1> QED
  BY <1>2, <1>3

\* While a process runs, the shell is at a pipeline.
LEMMA Busy ==
  ASSUME Inv, NEW p \in DOMAIN pr, Step(p)
  PROVE  pr[Shell].pc \notin {"read", "turn", "ended"}
<1>1. CASE p = Shell
  <2>1. pr[p].pc \in {"run", "wait", "fork1", "fork2", "close", "wait1", "wait2", "waitOnly",
                      "done", "main", "eof"}
    BY DEF Step, Nothing, Show, ShowBroken, Set, Exit, RedirectionFails, Fork, Wait, Pipe, Fork1,
           Fork2, ClosePipe, Wait1, Wait2, Done, Write, Read, Finish, Running, Command, Simple,
           Piped, At
  <2> QED
    BY <1>1, <2>1
<1>2. CASE p # Shell
  <2>1. DOMAIN pr # {Shell}
    BY <1>2
  <2>2. pr[Shell].pc \in HasRest \cup HasStage \cup {"wait"}
    BY <2>1, Alone DEF Inv
  <2> QED
    BY <2>2 DEF HasRest, HasStage
<1> QED
  BY <1>1, <1>2

LEMMA EffectsKeep ==
  ASSUME Inv, NEW p \in DOMAIN pr, Effects(p), pr[Shell].pc \notin {"read", "turn", "ended"}
  PROVE  Inv'
<1>1. Procs' /\ Tree' /\ line' = line /\ own' = own /\ p \in DOMAIN pr' /\ Shell \in DOMAIN pr'
  BY DEF Effects, Procs
<1>2. p # Shell => pr'[Shell] = pr[Shell]
  BY <1>1 DEF Effects, Others
<1>3. pr'[Shell].words = pr[Shell].words /\ pr'[Shell].pc \notin {"read", "turn"} /\ ShellFits(pr'[Shell])
  BY <1>2 DEF Effects, OnShell, Inv, ShellEnds
<1>4. log \in Seq(Entry) /\ log # <<>> /\ Len(log) \in Nat \ {0}
  BY DEF Inv, Where
<1>5. /\ log' \in Seq(Entry) /\ Len(log') = Len(log) /\ log' # <<>>
      /\ \A k \in 1 .. Len(log) : log'[k].pos = log[k].pos /\ (k # Len(log) => log'[k] = log[k])
  BY <1>4, StatusIs DEF Effects, Reports
<1>6. Reported'
  <2> SUFFICES ASSUME NEW x \in DOMAIN pr', x[1] = "rest",
                      pr'[x].pc \in {"done", "zombie", "waitOnly"}
               PROVE  /\ pr'[x].pc \in {"done", "zombie"} => pr'[x].st = log'[Len(log')].st
                      /\ pr'[x].pc = "waitOnly" => log'[Len(log')].st = 1
    BY DEF Reported, ReportedAt, Result
  <2>1. CASE x = p
    <3>1. CASE /\ log' = log /\ pr'[p].pc # "waitOnly"
               /\ (p[1] = "rest" /\ pr'[p].pc \in {"done", "zombie"}) => pr'[p].st = Result
      BY <2>1, <3>1 DEF Result
    <3>2. CASE \E st \in Statuses : /\ Status(p, st)
                                    /\ pr'[p].pc \in {"done", "zombie"} => pr'[p].st = st
                                    /\ pr'[p].pc = "waitOnly" => st = 1
      <4>1. PICK st \in Statuses : /\ Status(p, st)
                                   /\ pr'[p].pc \in {"done", "zombie"} => pr'[p].st = st
                                   /\ pr'[p].pc = "waitOnly" => st = 1
        BY <3>2
      <4>2. log'[Len(log')].st = st
        BY <1>4, <1>5, <2>1, <4>1, StatusIs
      <4> QED
        BY <2>1, <4>1, <4>2
    <3> QED
      BY <3>1, <3>2 DEF Effects, Reports
  <2>2. CASE x # p
    <3>1. x \in DOMAIN pr /\ pr'[x] = pr[x]
      BY <2>2 DEF Effects, Others
    <3>2. /\ pr[x].pc \in {"done", "zombie"} => pr[x].st = log[Len(log)].st
          /\ pr[x].pc = "waitOnly" => log[Len(log)].st = 1
      BY <3>1 DEF Inv, Reported, ReportedAt, Result
    <3>3. log' = log
      <4>1. CASE pr[p].pc \notin HasRest \cup {"wait"} /\ \E st \in Statuses : Status(p, st)
        <5>1. pr[x].pc \notin HasRest \cup {"wait"}
          BY <3>1 DEF HasRest
        <5>2. p[1] # "rest"
          BY <2>2, <3>1, <4>1, <5>1, OneDecides DEF Inv
        <5> QED
          BY <4>1, <5>2 DEF Status
      <4> QED
        BY <4>1 DEF Effects, Reports
    <3> QED
      BY <3>1, <3>2, <3>3
  <2> QED
    BY <2>1, <2>2
<1>7. Where'
  <2>1. /\ log[Len(log)].pos \in 1 .. Len(line)
        /\ pr[Shell].words = SubSeq(line, log[Len(log)].pos, Len(line))
    BY DEF Inv, Where, From
  <2>2. log'[Len(log')].pos = log[Len(log)].pos
    BY <1>4, <1>5
  <2> QED
    BY <1>1, <1>3, <1>5, <2>1, <2>2 DEF Where, From
<1>8. RunsByStatus'
  <2>1. RunsIn(line, pr[Shell].pc, log)
    BY RunsIs DEF Inv
  <2>2. ASSUME NEW k \in 1 .. Len(log') - 1
        PROVE  log'[k+1].pos = FollowsIn(line', log'[k].pos, log'[k].st)
    <3>1. k \in 1 .. Len(log) - 1 /\ k \in 1 .. Len(log) /\ k+1 \in 1 .. Len(log) /\ k # Len(log)
      BY <1>4, <1>5
    <3>2. log[k+1].pos = FollowsIn(line, log[k].pos, log[k].st)
      BY <2>1, <3>1 DEF RunsIn
    <3> QED
      BY <1>1, <1>5, <3>1, <3>2
  <2>3. RunsIn(line', pr'[Shell].pc, log')
    BY <1>3, <2>2 DEF RunsIn
  <2> QED
    BY <2>3, RunsIsNext
<1>9. ShellEnds'
  BY <1>3 DEF ShellEnds, ShellFits, Ends, R, W, K, Shell, Rest, IsPipe
<1> QED
  BY <1>1, <1>5, <1>6, <1>7, <1>8, <1>9 DEF Inv

JoinOps == {";", "&&", "||"}

LEMMA TurnKeeps ==
  ASSUME Inv, NEW f \in 1 .. Len(line) + 1, Turn(From(f)), line' = line,
         pr[Shell].pc \in {"turn", "done"},
         IF log = <<>> THEN f = 1 ELSE FollowsIn(line, log[Len(log)].pos, log[Len(log)].st) = f
  PROVE  Inv'
<1> DEFINE ws == From(f)
           b == Before(ws, JoinOps)
           n == Len(log)
<1>1. line \in Seq(Word) /\ Len(line) \in Nat /\ ws \in Seq(Word) /\ Len(ws) = Len(line) - f + 1
  BY FromIs DEF Inv
<1>2. Shell \in DOMAIN pr /\ pr[Shell] \in Local /\ ShellFits(pr[Shell]) /\ DOMAIN pr = {Shell}
  <2>1. DOMAIN pr = {Shell}
    BY Alone DEF Inv, HasRest, HasStage
  <2> QED
    BY <2>1, KindOf DEF Inv, ShellEnds, Procs
<1>3. b \in Seq(Word)
  BY <1>1, BeforeIs
<1>4. log \in Seq(Entry) /\ n \in Nat /\ RunsIn(line, pr[Shell].pc, log)
  BY RunsIs DEF Inv
<1>5. ASSUME NEW l \in Local, Now(Shell, l), l.pc \in {"read", "run"},
             l.in = pr[Shell].in, l.out = pr[Shell].out, l.held = pr[Shell].held
      PROVE  /\ Procs' /\ Tree' /\ ShellEnds' /\ Reported' /\ pr'[Shell] = l
  <2>1. DOMAIN pr' = {Shell} /\ pr'[Shell] = l
    BY <1>2, <1>5, NowIs
  <2>2. PlacedAt(Shell, l)
    BY <1>5 DEF PlacedAt, ShellPcs, RestPcs
  <2>3. Kids(Shell, l.pc) = {} /\ Kids(Shell, pr[Shell].pc) = {}
    BY <1>5, NoKids DEF HasRest, HasStage
  <2>4. Procs' /\ Tree'
    BY <1>2, <1>5, <2>2, <2>3, NowProcs, NowTree DEF Inv
  <2>5. ShellEnds'
    BY <1>2, <1>5, <2>1 DEF ShellEnds, ShellFits, Ends, R, W, K, Shell, Rest, IsPipe
  <2>6. Reported'
    BY <1>5, <2>1 DEF Reported, ReportedAt
  <2> QED
    BY <2>1, <2>4, <2>5, <2>6
<1>6. CASE ws = <<>>
  <2> DEFINE l == [pr[Shell] EXCEPT !.pc = "read", !.words = <<>>]
  <2>1. Now(Shell, l) /\ log' = log
    BY <1>6 DEF Turn, history
  <2>2. /\ l \in Local /\ l.pc = "read"
        /\ l.in = pr[Shell].in /\ l.out = pr[Shell].out /\ l.held = pr[Shell].held
    BY <1>2, StatementEmpty DEF Local, Pcs
  <2> HIDE DEF l
  <2>3. Procs' /\ Tree' /\ ShellEnds' /\ Reported' /\ pr'[Shell] = l
    BY <1>5, <2>1, <2>2
  <2>4. f = Len(line) + 1
    BY <1>1, <1>6
  <2>5. RunsIn(line', pr'[Shell].pc, log')
    BY <1>4, <2>1, <2>4 DEF RunsIn
  <2>6. Where'
    BY <2>2, <2>3 DEF Where
  <2> QED
    BY <1>1, <1>4, <2>1, <2>3, <2>5, <2>6, RunsIsNext DEF Inv
<1>7. CASE ws # <<>>
  <2> DEFINE l == [pr[Shell] EXCEPT !.pc = "run", !.words = ws, !.pipe = b]
             e == [pos |-> Len(line') - Len(ws) + 1, st |-> 0]
  <2>1. Now(Shell, l) /\ log' = Append(log, e)
    <3>1. Now(Shell, [pr[Shell] EXCEPT !.pc = "run", !.words = ws, !.pipe = Before(ws, {";", "&&", "||"})])
          /\ log' = Append(log, e)
      BY <1>7, Zenon DEF Turn
    <3> QED
      BY <3>1, Zenon DEF JoinOps
  <2>2. Len(ws) \in Nat \ {0} /\ f \in 1 .. Len(line)
    BY <1>1, <1>7
  <2>3. e \in Entry /\ e.pos = f
    <3>1. Len(line') - Len(ws) + 1 = f
      BY <1>1, <2>2
    <3> QED
      BY <2>2, <3>1, StatusesAre DEF Entry
  <2> HIDE DEF ws, b, e
  <2>4. /\ l \in Local /\ l.pc = "run" /\ l.words = ws
        /\ l.in = pr[Shell].in /\ l.out = pr[Shell].out /\ l.held = pr[Shell].held
    BY <1>1, <1>2, <1>3 DEF Local, Pcs
  <2> HIDE DEF l
  <2>5. Procs' /\ Tree' /\ ShellEnds' /\ Reported' /\ pr'[Shell] = l
    BY <1>5, <2>1, <2>4
  <2>6. /\ log' \in Seq(Entry) /\ Len(log') = n + 1 /\ log'[n + 1] = e
        /\ \A k \in 1 .. n : log'[k] = log[k]
    BY <1>4, <2>1, <2>3
  <2>7. ASSUME NEW k \in 1 .. n
        PROVE  log'[k+1].pos = FollowsIn(line, log[k].pos, log[k].st)
    <3>1. CASE k = n
      <4>1. log # <<>>
        BY <1>4
      <4> QED
        BY <2>3, <2>6, <3>1, <4>1
    <3>2. CASE k # n
      <4>1. k \in 1 .. n - 1 /\ k + 1 \in 1 .. n
        BY <1>4, <3>2
      <4>2. log[k+1].pos = FollowsIn(line, log[k].pos, log[k].st)
        BY <1>4, <4>1 DEF RunsIn
      <4> QED
        BY <2>6, <4>1, <4>2
    <3> QED
      BY <3>1, <3>2
  <2>8. RunsIn(line', pr'[Shell].pc, log')
    <3>1. \A k \in 1 .. Len(log') - 1 : k \in 1 .. n
      BY <1>4, <2>6
    <3>2. \A k \in 1 .. Len(log') - 1 : log'[k+1].pos = FollowsIn(line', log'[k].pos, log'[k].st)
      BY <2>6, <2>7, <3>1
    <3> QED
      BY <2>4, <2>5, <3>2 DEF RunsIn
  <2>9. Where'
    <3>1. log'[Len(log')].pos = f /\ log' # <<>>
      BY <1>4, <2>3, <2>6
    <3>2. pr'[Shell].words = SubSeq(line, f, Len(line))
      BY <2>4, <2>5 DEF ws, From
    <3> QED
      BY <2>2, <2>4, <2>5, <3>1, <3>2 DEF Where, From
  <2> QED
    BY <1>1, <2>5, <2>6, <2>8, <2>9, RunsIsNext DEF Inv
<1> QED
  BY <1>6, <1>7

\* The shell that is done turns to what follows.
LEMMA DoneTurns ==
  ASSUME Inv, Done(Shell)
  PROVE  /\ pr[Shell].pc = "done" /\ line' = line /\ log # <<>>
         /\ \E f \in 1 .. Len(line) + 1 :
               Turn(From(f)) /\ FollowsIn(line, log[Len(log)].pos, log[Len(log)].st) = f
<1> DEFINE pos == log[Len(log)].pos
           st == pr[Shell].st
           f == Follows(pos, st)
<1>1. /\ pr[Shell].pc = "done" /\ line' = line /\ Turn(Continue(pr[Shell].words, st))
  BY DEF Done, At
<1>2. line \in Seq(Word) /\ log # <<>> /\ pos \in 1 .. Len(line) /\ pr[Shell].words = From(pos)
  BY <1>1 DEF Inv, Where
<1>3. st = log[Len(log)].st
  BY <1>1, ShellIs DEF Inv, Procs, Reported, ReportedAt, Result
<1>4. f \in pos + 1 .. Len(line) + 1 /\ Continue(From(pos), st) = From(f)
  <2> HIDE DEF pos, st
  <2> QED
    BY <1>2, ContinueFollows
<1>5. f \in 1 .. Len(line) + 1
  <2>1. pos \in Nat /\ pos >= 1 /\ Len(line) \in Nat
    BY <1>2
  <2> HIDE DEF pos, f
  <2> QED
    BY <1>4, <2>1
<1>6. Turn(From(f)) /\ FollowsIn(line, pos, log[Len(log)].st) = f
  BY <1>1, <1>2, <1>3, <1>4, FollowsIs
<1> HIDE DEF f
<1> QED
  BY <1>1, <1>2, <1>5, <1>6

LEMMA BeginTurns ==
  ASSUME Inv, Begin
  PROVE  pr[Shell].pc = "turn" /\ line' = line /\ log = <<>> /\ Turn(From(1)) /\ 1 \in 1 .. Len(line) + 1
<1>1. pr[Shell].pc = "turn" /\ line' = line /\ Turn(pr[Shell].words)
  BY DEF Begin, At
<1>2. pr[Shell].words = line /\ log = <<>> /\ line \in Seq(Word)
  BY <1>1 DEF Inv, Where
<1>3. From(1) = line
  BY <1>2 DEF From
<1> QED
  BY <1>1, <1>2, <1>3

LEMMA ReadLineKeeps ==
  ASSUME Inv, ReadLine
  PROVE  Inv'
<1>1. PICK m \in Menu : line' = m /\ Now(Shell, [pr[Shell] EXCEPT !.pc = "turn", !.words = m])
  BY DEF ReadLine
<1>2. pr[Shell].pc = "read" /\ log' = <<>> /\ m \in Seq(Word)
  BY MyshAssumption DEF ReadLine, At
<1> DEFINE l == [pr[Shell] EXCEPT !.pc = "turn", !.words = m]
<1>3. Shell \in DOMAIN pr /\ pr[Shell] \in Local /\ ShellFits(pr[Shell]) /\ DOMAIN pr = {Shell}
  <2>1. DOMAIN pr = {Shell}
    BY <1>2, Alone DEF Inv, HasRest, HasStage
  <2> QED
    BY <2>1, KindOf DEF Inv, ShellEnds, Procs
<1>4. /\ l \in Local /\ l.pc = "turn" /\ l.words = m
      /\ l.in = pr[Shell].in /\ l.out = pr[Shell].out /\ l.held = pr[Shell].held
  BY <1>2, <1>3 DEF Local, Pcs
<1>5. Now(Shell, l)
  BY <1>1
<1> HIDE DEF l
<1>6. DOMAIN pr' = {Shell} /\ pr'[Shell] = l
  BY <1>3, <1>5, NowIs
<1>7. PlacedAt(Shell, l)
  BY <1>4 DEF PlacedAt, ShellPcs
<1>8. Kids(Shell, l.pc) = {} /\ Kids(Shell, pr[Shell].pc) = {}
  BY <1>2, <1>4, NoKids DEF HasRest, HasStage
<1>9. Procs' /\ Tree'
  BY <1>3, <1>4, <1>5, <1>7, <1>8, NowProcs, NowTree DEF Inv
<1>10. ShellEnds'
  BY <1>2, <1>3, <1>4, <1>6 DEF ShellEnds, ShellFits, Ends, R, W, K, Shell, Rest, IsPipe
<1>11. Reported' /\ Where'
  BY <1>1, <1>2, <1>4, <1>6 DEF Reported, ReportedAt, Where
<1>12. RunsIn(line', pr'[Shell].pc, log')
  <2>1. \A lg : lg = <<>> => RunsIn(line', "turn", lg)
    BY DEF RunsIn
  <2> QED
    BY <1>2, <1>4, <1>6, <2>1
<1>13. log' \in Seq(Entry)
  BY <1>2
<1> QED
  BY <1>1, <1>2, <1>9, <1>10, <1>11, <1>12, <1>13, RunsIsNext DEF Inv

LEMMA EndOfInputKeeps ==
  ASSUME Inv, EndOfInput
  PROVE  Inv'
<1> DEFINE l == [pr[Shell] EXCEPT !.pc = "ended"]
<1>1. pr[Shell].pc = "read" /\ log' = log /\ line' = line /\ Now(Shell, l)
  BY DEF EndOfInput, At, Goto, history
<1>3. Shell \in DOMAIN pr /\ pr[Shell] \in Local /\ ShellFits(pr[Shell]) /\ DOMAIN pr = {Shell}
  <2>1. DOMAIN pr = {Shell}
    BY <1>1, Alone DEF Inv, HasRest, HasStage
  <2> QED
    BY <2>1, KindOf DEF Inv, ShellEnds, Procs
<1>4. /\ l \in Local /\ l.pc = "ended"
      /\ l.in = pr[Shell].in /\ l.out = pr[Shell].out /\ l.held = pr[Shell].held
  BY <1>3 DEF Local, Pcs
<1> HIDE DEF l
<1>6. DOMAIN pr' = {Shell} /\ pr'[Shell] = l
  BY <1>1, <1>3, NowIs
<1>7. PlacedAt(Shell, l)
  BY <1>4 DEF PlacedAt, ShellPcs
<1>8. Kids(Shell, l.pc) = {} /\ Kids(Shell, pr[Shell].pc) = {}
  BY <1>1, <1>4, NoKids DEF HasRest, HasStage
<1>9. Procs' /\ Tree'
  BY <1>1, <1>3, <1>4, <1>7, <1>8, NowProcs, NowTree DEF Inv
<1>10. ShellEnds'
  BY <1>1, <1>3, <1>4, <1>6 DEF ShellEnds, ShellFits, Ends, R, W, K, Shell, Rest, IsPipe
<1>11. Reported' /\ Where'
  BY <1>4, <1>6 DEF Reported, ReportedAt, Where
<1>12. RunsIn(line', pr'[Shell].pc, log')
  <2>1. RunsIn(line, pr[Shell].pc, log)
    BY RunsIs DEF Inv
  <2> QED
    BY <1>1, <1>4, <1>6, <2>1 DEF RunsIn
<1> QED
  BY <1>1, <1>9, <1>10, <1>11, <1>12, RunsIsNext DEF Inv

LEMMA InitInv ==
  ASSUME Init
  PROVE  Inv
<1> DEFINE l == Process("read", <<>>, Tty, Tty, {}, 0)
<1>1. DOMAIN pr = {Shell} /\ pr[Shell] = l /\ line = <<>> /\ log = <<>>
  BY DEF Init
<1>2. l \in Local /\ l.pc = "read" /\ ShellFits(l)
  <2>1. 0 \in 0 .. Capacity + 1
    BY MyshAssumption
  <2> QED
    BY <2>1, TtyOpen, StatementEmpty DEF Process, Local, Pcs, Statuses, ShellFits
<1> HIDE DEF l
<1>3. PlacedAt(Shell, l) /\ Kids(Shell, l.pc) = {}
  BY <1>2, NoKids DEF PlacedAt, ShellPcs, HasRest, HasStage
<1>4. Procs /\ ShellEnds
  BY <1>1, <1>2, <1>3 DEF Procs, ShellEnds
<1>5. Tree
  BY <1>1, <1>3 DEF Tree
<1>6. Reported /\ Where
  BY <1>1, <1>2 DEF Reported, ReportedAt, Where
<1>7. RunsIn(line, pr[Shell].pc, log)
  <2>1. \A lg : lg = <<>> => RunsIn(line, "read", lg)
    BY DEF RunsIn
  <2> QED
    BY <1>1, <1>2, <2>1
<1>8. line \in Seq(Word) /\ log \in Seq(Entry)
  BY <1>1
<1> QED
  BY <1>4, <1>5, <1>6, <1>7, <1>8, RunsIs DEF Inv

LEMMA StepKeeps ==
  ASSUME Inv, NEW p \in DOMAIN pr, Step(p)
  PROVE  Inv'
<1>1. CASE p = Shell /\ Done(p)
  BY <1>1, DoneTurns, TurnKeeps
<1>2. CASE ~(p = Shell /\ Done(p))
  BY <1>2, StepEffects, Busy, EffectsKeep
<1> QED
  BY <1>1, <1>2

LEMMA StutterKeeps ==
  ASSUME Inv, UNCHANGED vars
  PROVE  Inv'
<1>1. line' = line /\ log' = log /\ pr' = pr
  BY DEF vars, history
<1>2. RunsByStatus'
  BY <1>1, RunsIs, RunsIsNext DEF Inv
<1>3. ShellEnds'
  BY <1>1 DEF Inv, ShellEnds, ShellFits, Ends, R, W, K, Shell, Rest, IsPipe
<1>4. Procs' /\ Tree'
  BY <1>1 DEF Inv, Procs, Tree
<1>5. Reported' /\ Where'
  BY <1>1 DEF Inv, Reported, ReportedAt, Result, Where, From
<1> QED
  BY <1>1, <1>2, <1>3, <1>4, <1>5 DEF Inv

LEMMA NextKeeps ==
  ASSUME Inv, [Next]_vars
  PROVE  Inv'
<1>1. CASE ReadLine
  BY <1>1, ReadLineKeeps
<1>2. CASE Begin
  BY <1>2, BeginTurns, TurnKeeps
<1>3. CASE EndOfInput
  BY <1>3, EndOfInputKeeps
<1>4. ASSUME NEW p \in DOMAIN pr, Step(p)
      PROVE  Inv'
  BY <1>4, StepKeeps
<1>5. CASE UNCHANGED vars
  BY <1>5, StutterKeeps
<1> QED
  BY <1>1, <1>2, <1>3, <1>4, <1>5, Zenon DEF Next

LEMMA InvAlways == Spec => []Inv
<1>1. Init => Inv
  BY InitInv
<1>2. Inv /\ [Next]_vars => Inv'
  BY NextKeeps
<1> QED
  BY <1>1, <1>2, PTL DEF Spec

\* However many processes a line was given to, and in whatever order they end,
\* are killed or fail to start, the shell turns to the next pipeline or line
\* alone and with no end of a pipe open.
THEOREM ShellIsAlone == Spec => []NothingLeftBehind
<1>1. Inv => NothingLeftBehind
  <2> SUFFICES ASSUME Inv, pr[Shell].pc \in {"read", "turn", "ended", "run"}
               PROVE  DOMAIN pr = {Shell} /\ \A e \in pr[Shell].held \cup {pr[Shell].in, pr[Shell].out} : ~IsPipe(e)
    BY DEF NothingLeftBehind
  <2>1. DOMAIN pr = {Shell}
    BY Alone DEF Inv, HasRest, HasStage
  <2> QED
    BY <2>1 DEF Inv, ShellEnds, ShellFits
<1> QED
  BY <1>1, InvAlways, PTL

\* Which pipelines of a line are run is decided by the status of the last
\* command of each, through however long a chain of processes it came.
THEOREM LineRunsByStatus == Spec => []RunsByStatus
<1>1. Inv => RunsByStatus
  BY DEF Inv
<1> QED
  BY <1>1, InvAlways, PTL

-----------------------------------------------------------------------------
(* The redirections of the shell.                                          *)

\* A word is a command with its arguments, so an operator stands between two
\* commands.
Spaced(ws) == \A i \in 1 .. Len(ws) - 1 : ws[i].kind \in Operators \/ ws[i+1].kind \in Operators

LEMMA MenuSpaced == \A m \in Menu : Spaced(m)
  BY LinesAssumption DEF Spaced

\* An external command that the shell is about to run itself has had its
\* redirections noted.
Noted ==
  LET l == pr[Shell]
  IN l.pc = "run" /\ NoBar(l.pipe) /\ l.pipe # <<>> /\ l.pipe[1].kind \in Programs =>
       \A i \in DOMAIN l.pipe[1].redir : l.pipe[1].redir[i][1] \in own

OInv == Inv /\ Spaced(line) /\ Noted /\ TerminalKept

LEMMA OperatorsAre == \A k : k \in Operators => k \in JoinOps \/ k = "|"
  BY Zenon DEF Operators, JoinOps

\* A pipeline of one process is one command.
LEMMA OneCommand ==
  ASSUME line \in Seq(Word), Spaced(line), NEW f \in 1 .. Len(line) + 1,
         NEW b, b = Before(From(f), JoinOps), NoBar(b), b # <<>>
  PROVE  Len(b) = 1
<1> DEFINE w == From(f)
           n == Len(line)
<1>1. /\ w \in Seq(Word) /\ Len(w) = n - f + 1 /\ n \in Nat
      /\ \A i \in 1 .. Len(w) : w[i] = line[f + i - 1]
  BY FromIs
<1>2. /\ b \in Seq(Word) /\ Len(b) = First(w, JoinOps) - 1
      /\ \A i \in 1 .. First(w, JoinOps) - 1 : b[i] = w[i] /\ w[i].kind \notin JoinOps
  BY <1>1, BeforeIs
<1>3. First(w, JoinOps) \in 1 .. Len(w) + 1
  BY <1>1, FirstIs
<1> HIDE DEF w, n
<1>4. Len(b) \in Nat \ {0}
  BY <1>2
<1>5. ASSUME Len(b) >= 2
      PROVE  FALSE
  <2>1. 1 \in 1 .. Len(b) /\ 2 \in 1 .. Len(b) /\ 2 <= Len(w)
    BY <1>1, <1>2, <1>3, <1>4, <1>5
  <2>2. /\ b[1] = w[1] /\ b[2] = w[2] /\ b[1].kind \notin JoinOps /\ b[2].kind \notin JoinOps
        /\ b[1].kind # "|" /\ b[2].kind # "|"
    BY <1>2, <2>1 DEF NoBar
  <2>3. w[1] = line[f] /\ w[2] = line[f + 1]
    <3>1. w[1] = line[f + 1 - 1] /\ w[2] = line[f + 2 - 1]
      BY <1>1, <2>1
    <3>2. f + 1 - 1 = f /\ f + 2 - 1 = f + 1
      BY DEF n
    <3> QED
      BY <3>1, <3>2
  <2>4. f \in 1 .. Len(line) - 1
    BY <1>1, <2>1 DEF n
  <2>5. line[f].kind \in Operators \/ line[f + 1].kind \in Operators
    BY <2>4 DEF Spaced
  <2> QED
    BY <2>2, <2>3, <2>5, OperatorsAre
<1>6. ~(Len(b) >= 2)
  BY <1>5
<1> DEFINE k == Len(b)
<1>7. k \in Nat \ {0} /\ ~(k >= 2)
  BY <1>4, <1>6
<1> HIDE DEF k
<1>8. k = 1
  BY <1>7
<1> QED
  BY <1>8 DEF k

\* What turning to the next pipeline does to the shell and to own.
LEMMA TurnNotes ==
  ASSUME OInv, NEW f \in 1 .. Len(line) + 1, Turn(From(f)), line' = line, Inv'
  PROVE  OInv'
<1> DEFINE ws == From(f)
           b == Before(ws, JoinOps)
           alone == Len(b) = 1 /\ b[1].kind \in Programs
<1>1. line \in Seq(Word) /\ Shell \in DOMAIN pr /\ pr[Shell] \in Local
  BY KindOf DEF OInv, Inv, Procs
<1>2. b \in Seq(Word)
  BY <1>1, FromIs, BeforeIs
<1>3. CASE ws = <<>>
  <2>1. Now(Shell, [pr[Shell] EXCEPT !.pc = "read", !.words = <<>>]) /\ own' = own
    BY <1>3 DEF Turn, history
  <2>2. pr'[Shell] = [pr[Shell] EXCEPT !.pc = "read", !.words = <<>>]
    BY <1>1, <2>1, NowIs
  <2>3. pr'[Shell].pc = "read" /\ pr'[Shell].in = pr[Shell].in /\ pr'[Shell].out = pr[Shell].out
    BY <1>1, <2>2 DEF Local
  <2> QED
    BY <2>1, <2>3 DEF OInv, Noted, TerminalKept, Spaced
<1>4. CASE ws # <<>>
  <2>1. /\ Now(Shell, [pr[Shell] EXCEPT !.pc = "run", !.words = ws, !.pipe = b])
        /\ own' = IF alone THEN own \cup {b[1].redir[i][1] : i \in DOMAIN b[1].redir} ELSE own
    BY <1>4, Zenon DEF Turn, JoinOps
  <2>2. pr'[Shell] = [pr[Shell] EXCEPT !.pc = "run", !.words = ws, !.pipe = b]
    BY <1>1, <2>1, NowIs
  <2> HIDE DEF ws
  <2>3. pr'[Shell].pipe = b /\ pr'[Shell].in = pr[Shell].in /\ pr'[Shell].out = pr[Shell].out
    BY <1>1, <2>2 DEF Local
  <2>4. own \subseteq own'
    BY <2>1
  <2>5. ASSUME NoBar(b), b # <<>>, b[1].kind \in Programs
        PROVE  \A i \in DOMAIN b[1].redir : b[1].redir[i][1] \in own'
    <3>1. Len(b) = 1
      BY <1>1, <2>5, OneCommand DEF OInv, ws
    <3> QED
      BY <2>1, <2>5, <3>1
  <2> HIDE DEF b
  <2>6. Noted'
    BY <2>3, <2>5 DEF Noted, NoBar
  <2>7. TerminalKept'
    BY <2>3, <2>4 DEF OInv, TerminalKept
  <2> QED
    BY <2>6, <2>7 DEF OInv, Spaced
<1> QED
  BY <1>3, <1>4

LEMMA EffectsNote ==
  ASSUME OInv, NEW p \in DOMAIN pr, Effects(p), pr[Shell].pc \notin {"read", "turn", "ended"}, Inv'
  PROVE  OInv'
<1>1. line' = line /\ own' = own /\ Shell \in DOMAIN pr'
  BY DEF Effects, Procs
<1>2. CASE p # Shell
  <2>1. pr'[Shell] = pr[Shell]
    BY <1>1, <1>2 DEF Effects, Others
  <2> QED
    BY <1>1, <2>1 DEF OInv, Noted, TerminalKept, Spaced, NoBar
<1>3. CASE p = Shell
  <2>1. Files(Shell, pr'[Shell]) /\ pr'[Shell].pc # "run"
    BY <1>3 DEF Effects, OnShell
  <2>2. ASSUME Command(Shell, Programs)
        PROVE  \A i \in DOMAIN pr[Shell].pipe[1].redir : pr[Shell].pipe[1].redir[i][1] \in own
    <3>1. /\ pr[Shell].pc = "run" /\ pr[Shell].pipe # <<>> /\ pr[Shell].pipe[1].kind \in Programs
          /\ First(pr[Shell].pipe, {"|"}) > Len(pr[Shell].pipe)
      BY <2>2 DEF Command, Simple, At
    <3>2. pr[Shell].pipe \in Seq(Word)
      BY KindOf DEF OInv, Inv, Procs, Local
    <3>3. NoBar(pr[Shell].pipe)
      BY <3>1, <3>2, NoBarIs
    <3> QED
      BY <3>1, <3>3 DEF OInv, Noted
  <2>3. TerminalKept'
    BY <1>1, <2>1, <2>2 DEF OInv, TerminalKept, Files
  <2> QED
    BY <1>1, <2>1, <2>3 DEF OInv, Noted, Spaced
<1> QED
  BY <1>2, <1>3

LEMMA NextNotes ==
  ASSUME OInv, [Next]_vars
  PROVE  OInv'
<1>1. Inv /\ Inv'
  BY NextKeeps DEF OInv
<1>2. CASE ReadLine
  <2>1. PICK m \in Menu : line' = m /\ Now(Shell, [pr[Shell] EXCEPT !.pc = "turn", !.words = m])
    BY <1>2 DEF ReadLine
  <2>2. Shell \in DOMAIN pr /\ pr[Shell] \in Local /\ own' = own
    BY <1>1, <1>2, KindOf DEF Inv, Procs, ReadLine
  <2>3. pr'[Shell] = [pr[Shell] EXCEPT !.pc = "turn", !.words = m]
    BY <2>1, <2>2, NowIs
  <2>4. pr'[Shell].pc = "turn" /\ pr'[Shell].in = pr[Shell].in /\ pr'[Shell].out = pr[Shell].out
    BY <2>2, <2>3 DEF Local
  <2>5. Spaced(line')
    BY <2>1, MenuSpaced
  <2> QED
    BY <1>1, <2>2, <2>4, <2>5 DEF OInv, Noted, TerminalKept, Spaced
<1>3. CASE Begin
  BY <1>1, <1>3, BeginTurns, TurnNotes
<1>4. CASE EndOfInput
  <2>1. Now(Shell, [pr[Shell] EXCEPT !.pc = "ended"]) /\ own' = own /\ line' = line
    BY <1>4 DEF EndOfInput, Goto, history
  <2>2. Shell \in DOMAIN pr /\ pr[Shell] \in Local
    BY <1>1, KindOf DEF Inv, Procs
  <2>3. pr'[Shell] = [pr[Shell] EXCEPT !.pc = "ended"]
    BY <2>1, <2>2, NowIs
  <2>4. pr'[Shell].pc = "ended" /\ pr'[Shell].in = pr[Shell].in /\ pr'[Shell].out = pr[Shell].out
    BY <2>2, <2>3 DEF Local
  <2> QED
    BY <1>1, <2>1, <2>4 DEF OInv, Noted, TerminalKept, Spaced
<1>5. ASSUME NEW p \in DOMAIN pr, Step(p)
      PROVE  OInv'
  <2>1. CASE p = Shell /\ Done(p)
    BY <1>1, <2>1, DoneTurns, TurnNotes
  <2>2. CASE ~(p = Shell /\ Done(p))
    BY <1>1, <1>5, <2>2, StepEffects, Busy, EffectsNote
  <2> QED
    BY <2>1, <2>2
<1>6. CASE UNCHANGED vars
  <2>1. line' = line /\ pr' = pr /\ own' = own
    BY <1>6 DEF vars, history
  <2> QED
    BY <1>1, <2>1 DEF OInv, Noted, TerminalKept, Spaced, NoBar
<1> QED
  BY <1>2, <1>3, <1>4, <1>5, <1>6, Zenon DEF Next

\* The shell's own input and output stay at the terminal until an external
\* command that is alone in its pipeline redirects them.
THEOREM ShellKeepsTerminal == Spec => []TerminalKept
<1>1. Init => OInv
  <2> SUFFICES ASSUME Init
               PROVE  OInv
    OBVIOUS
  <2>1. Inv /\ line = <<>> /\ pr[Shell] = Process("read", <<>>, Tty, Tty, {}, 0)
    BY InitInv DEF Init
  <2>2. pr[Shell].pc = "read" /\ pr[Shell].in = Tty /\ pr[Shell].out = Tty
    BY <2>1 DEF Process
  <2>3. Spaced(line)
    BY <2>1 DEF Spaced
  <2> QED
    BY <2>1, <2>2, <2>3 DEF OInv, Noted, TerminalKept
<1>2. OInv /\ [Next]_vars => OInv'
  BY NextNotes
<1>3. OInv => TerminalKept
  BY DEF OInv
<1> QED
  BY <1>1, <1>2, <1>3, PTL DEF Spec

-----------------------------------------------------------------------------
(* Types.  No process stands deeper than Depth, and no pipe has a higher   *)
(* number: the process at depth d has at most Depth - d pipes to make.     *)

\* ws has at least n pipes.
Pipes(ws, n) ==
  \E g \in [1 .. n -> 1 .. Len(ws)] :
     /\ \A a \in 1 .. n : ws[g[a]].kind = "|"
     /\ \A a, b \in 1 .. n : g[a] = g[b] => a = b

LEMMA OnePipe ==
  ASSUME NEW ws \in Seq(Word), First(ws, {"|"}) <= Len(ws)
  PROVE  Pipes(ws, 1)
<1> DEFINE f == First(ws, {"|"})
           g == [a \in 1 .. 1 |-> f]
<1>1. f \in 1 .. Len(ws) /\ ws[f].kind = "|"
  <2>1. f \in 1 .. Len(ws) + 1 /\ (f <= Len(ws) => ws[f].kind \in {"|"}) /\ f <= Len(ws)
    BY FirstIs
  <2> HIDE DEF f
  <2> QED
    BY <2>1
<1> HIDE DEF f
<1>2. /\ g \in [1 .. 1 -> 1 .. Len(ws)]
      /\ \A a \in 1 .. 1 : ws[g[a]].kind = "|"
      /\ \A a, b \in 1 .. 1 : g[a] = g[b] => a = b
  BY <1>1
<1> QED
  BY <1>2 DEF Pipes

\* What follows the first pipe has one pipe less.
LEMMA PipesAfter ==
  ASSUME NEW ws \in Seq(Word), First(ws, {"|"}) <= Len(ws), NEW n \in Nat,
         Pipes(After(ws, {"|"}), n)
  PROVE  Pipes(ws, n + 1)
<1> DEFINE f == First(ws, {"|"})
           m == Len(ws)
           w == After(ws, {"|"})
<1>1. f \in 1 .. m /\ m \in Nat /\ ws[f].kind = "|"
  <2>1. f \in 1 .. m + 1 /\ (f <= m => ws[f].kind \in {"|"}) /\ f <= m /\ m \in Nat
    BY FirstIs
  <2> HIDE DEF f, m
  <2> QED
    BY <2>1
<1>2. Len(w) = m - f /\ \A i \in 1 .. m - f : w[i] = ws[f + i]
  <2>1. w = SubSeq(ws, f + 1, m)
    BY DEF After
  <2>2. \A i \in f + 1 .. m : ws[i] \in Word
    BY <1>1
  <2> HIDE DEF f, m, w
  <2>3. /\ Len(SubSeq(ws, f + 1, m)) = m - f
        /\ \A i \in 1 .. m - f : SubSeq(ws, f + 1, m)[i] = ws[(f + 1) + i - 1]
    BY <1>1, <2>2
  <2>4. \A i \in 1 .. m - f : (f + 1) + i - 1 = f + i
    BY <1>1
  <2> QED
    BY <2>1, <2>3, <2>4
<1>3. PICK g \in [1 .. n -> 1 .. Len(w)] :
         /\ \A a \in 1 .. n : w[g[a]].kind = "|"
         /\ \A a, b \in 1 .. n : g[a] = g[b] => a = b
  BY DEF Pipes
<1> DEFINE h == [a \in 1 .. n + 1 |-> IF a = 1 THEN f ELSE f + g[a - 1]]
<1> HIDE DEF f, m, w
<1>4. ASSUME NEW a \in 1 .. n + 1
      PROVE  /\ h[a] \in 1 .. m /\ ws[h[a]].kind = "|"
             /\ a # 1 => a - 1 \in 1 .. n /\ h[a] = f + g[a - 1] /\ g[a - 1] \in 1 .. m - f
  <2>1. CASE a = 1
    BY <1>1, <2>1
  <2>2. CASE a # 1
    <3>1. a - 1 \in 1 .. n /\ h[a] = f + g[a - 1]
      BY <2>2
    <3>2. g[a - 1] \in 1 .. m - f /\ w[g[a - 1]].kind = "|"
      BY <1>2, <1>3, <3>1
    <3>3. ws[f + g[a - 1]].kind = "|"
      BY <1>2, <3>2
    <3>4. f + g[a - 1] \in 1 .. m
      BY <1>1, <3>2
    <3> QED
      BY <3>1, <3>2, <3>3, <3>4
  <2> QED
    BY <2>1, <2>2
<1>5. ASSUME NEW a \in 1 .. n + 1, NEW b \in 1 .. n + 1, h[a] = h[b]
      PROVE  a = b
  <2>1. h[1] = f /\ f \in Nat /\ 1 \in 1 .. n + 1
    BY <1>1
  <2>2. CASE a # 1 /\ b # 1
    <3>1. g[a - 1] = g[b - 1]
      BY <1>4, <1>5, <2>1, <2>2
    <3>2. a - 1 = b - 1
      BY <1>3, <1>4, <2>2, <3>1
    <3> QED
      BY <3>2
  <2>3. CASE a = 1 \/ b = 1
    <3>1. \A c \in 1 .. n + 1 : c # 1 => h[c] # f
      BY <1>4, <2>1
    <3> QED
      BY <1>5, <2>1, <2>3, <3>1
  <2> QED
    BY <2>2, <2>3
<1>6. h \in [1 .. n + 1 -> 1 .. m]
  BY <1>4
<1>7. Pipes(ws, n + 1)
  <2> HIDE DEF h
  <2> QED
    BY <1>4, <1>5, <1>6 DEF Pipes, m
<1> QED
  BY <1>7

\* The pipelines of a line have Depth pipes at most.
Narrow(ws) ==
  \A i, j \in 1 .. Len(ws) :
     (\A k \in i .. j : ws[k].kind \notin JoinOps) =>
        Cardinality({k \in i .. j : ws[k].kind = "|"}) <= Depth

LEMMA MenuNarrow == \A m \in Menu : Narrow(m)
  BY LinesAssumption, Zenon DEF Narrow, JoinOps

LEMMA FewPipes ==
  ASSUME line \in Seq(Word), Narrow(line), NEW f \in 1 .. Len(line) + 1
  PROVE  ~Pipes(Before(From(f), JoinOps), Depth + 1)
<1> DEFINE w == From(f)
           b == Before(w, JoinOps)
           n == Len(b)
<1>1. /\ w \in Seq(Word) /\ Len(w) = Len(line) - f + 1 /\ Len(line) \in Nat
      /\ \A i \in 1 .. Len(w) : w[i] = line[f + i - 1]
  BY FromIs
<1>2. /\ n = First(w, JoinOps) - 1 /\ n \in Nat
      /\ \A i \in 1 .. n : b[i] = w[i] /\ w[i].kind \notin JoinOps
  BY <1>1, BeforeIs
<1>3. First(w, JoinOps) \in 1 .. Len(w) + 1
  BY <1>1, FirstIs
<1> SUFFICES ASSUME Pipes(b, Depth + 1)
             PROVE  FALSE
  OBVIOUS
<1>4. PICK g \in [1 .. Depth + 1 -> 1 .. n] :
         /\ \A a \in 1 .. Depth + 1 : b[g[a]].kind = "|"
         /\ \A c, d \in 1 .. Depth + 1 : g[c] = g[d] => c = d
  BY DEF Pipes
<1> HIDE DEF w, b, n
<1>5. Depth \in Nat /\ 1 \in 1 .. Depth + 1
  BY MyshAssumption
<1> DEFINE j == f + n - 1
           S == {k \in f .. j : line[k].kind = "|"}
           h == [a \in 1 .. Depth + 1 |-> f + g[a] - 1]
<1>6. g[1] \in 1 .. n
  BY <1>4, <1>5
<1>7. n \in Nat \ {0} /\ n <= Len(w)
  BY <1>1, <1>2, <1>3, <1>6
<1>8. f \in 1 .. Len(line) /\ j \in 1 .. Len(line)
  BY <1>1, <1>7
<1>9. \A i \in 1 .. n : f + i - 1 \in f .. j /\ line[f + i - 1] = b[i] /\ b[i].kind \notin JoinOps
  <2> TAKE i \in 1 .. n
  <2>1. i \in 1 .. Len(w) /\ f + i - 1 \in f .. j
    BY <1>1, <1>7
  <2> QED
    BY <1>1, <1>2, <2>1
<1>10. \A k \in f .. j : line[k].kind \notin JoinOps
  <2> TAKE k \in f .. j
  <2>1. k - f + 1 \in 1 .. n /\ f + (k - f + 1) - 1 = k
    BY <1>7, <1>8
  <2> QED
    BY <1>9, <2>1
<1>11. Cardinality(S) <= Depth
  <2> HIDE DEF j
  <2> QED
    BY <1>8, <1>10 DEF Narrow
<1>12. \A a \in 1 .. Depth + 1 : h[a] \in S
  <2> TAKE a \in 1 .. Depth + 1
  <2>1. g[a] \in 1 .. n /\ b[g[a]].kind = "|"
    BY <1>4
  <2> QED
    BY <1>9, <2>1
<1>13. IsFiniteSet(S) /\ Cardinality(S) \in Nat
  <2>1. f \in Int /\ j \in Int
    BY <1>8
  <2>2. IsFiniteSet(f .. j)
    BY <2>1, FS_Interval
  <2> QED
    BY <2>2, FS_Subset, FS_CardinalityType
<1>14. IsFiniteSet(1 .. Depth + 1) /\ Cardinality(1 .. Depth + 1) = Depth + 1
  BY <1>5, FS_Interval
<1> DEFINE T == 1 .. Depth + 1
<1>15. h \in [T -> S] /\ IsFiniteSet(T) /\ Cardinality(S) < Cardinality(T)
  BY <1>5, <1>11, <1>12, <1>13, <1>14
<1>16. PICK x, y \in T : x # y /\ h[x] = h[y]
  <2> HIDE DEF T, S, h
  <2> QED
    BY <1>13, <1>15, FS_PigeonHole
<1>17. g[x] = g[y]
  <2>1. g[x] \in 1 .. n /\ g[y] \in 1 .. n /\ f + g[x] - 1 = f + g[y] - 1
    BY <1>4, <1>16
  <2> QED
    BY <1>8, <2>1
<1> QED
  BY <1>4, <1>16, <1>17

\* The processes that have pipes to make, and how deep a process stands.
Piping == {"run", "fork1", "fork2"}
DeepAt(p, l) ==
  /\ p \in Pids
  /\ p \in AnyRest /\ l.pc \in Piping => ~Pipes(l.pipe, Depth - p[2] + 1)
  /\ l.pc \in {"fork1", "fork2"} => First(l.pipe, {"|"}) <= Len(l.pipe)
Deep == \A p \in DOMAIN pr : DeepAt(p, pr[p])

LEMMA PidsAre ==
  ASSUME NEW p \in Pids, p \in AnyHelper
  PROVE  /\ Prog(p) \in Pids
         /\ p \in AnyRest =>
              /\ p[2] \in 0 .. Depth
              /\ p[2] # Depth => /\ Stage(K(p)) \in Pids /\ Rest(K(p)) \in Pids
                                 /\ Rest(K(p))[2] = p[2] + 1
<1>1. p \in Helpers
  BY HelpersAny, ProgramNames DEF Pids
<1>2. Prog(p) \in Pids
  BY <1>1 DEF Pids
<1>3. ASSUME p \in AnyRest
      PROVE  p[2] \in 0 .. Depth
  <2>1. PICK d \in Nat : p = Rest(d)
    BY <1>3 DEF AnyRest
  <2>2. \E e \in 0 .. Depth : p = Rest(e) \/ p = Stage(e)
    BY <1>1, MyshAssumption DEF Helpers
  <2>3. PICK e \in 0 .. Depth : p = Rest(e) \/ p = Stage(e)
    BY <2>2
  <2>4. e \in Nat
    BY <2>3, MyshAssumption
  <2> QED
    BY <2>1, <2>3, <2>4, NamesDiffer
<1>4. ASSUME p \in AnyRest, p[2] # Depth
      PROVE  /\ Stage(K(p)) \in Pids /\ Rest(K(p)) \in Pids /\ Rest(K(p))[2] = p[2] + 1
  <2> DEFINE k == p[2] + 1
  <2>1. K(p) = k /\ k \in 1 .. Depth /\ k \in Nat
    BY <1>3, <1>4, MyshAssumption DEF K
  <2> HIDE DEF k
  <2>2. Stage(k) \in Helpers /\ Rest(k) \in Helpers
    BY <2>1 DEF Helpers
  <2>3. Rest(k)[2] = k
    BY <2>1, NamesDiffer
  <2> QED
    BY <2>1, <2>2, <2>3 DEF Pids, k
<1> QED
  BY <1>2, <1>3, <1>4

\* A process that has made a pipe has room for its children.
LEMMA RoomFor ==
  ASSUME Inv, Deep, NEW p \in DOMAIN pr, pr[p].pc \in {"fork1", "fork2"}
  PROVE  p \in AnyRest /\ p[2] \in 0 .. Depth /\ p[2] # Depth
<1>1. p \in AnyRest /\ pr[p].pipe \in Seq(Word)
  BY KindOf DEF Inv, Local
<1>2. DeepAt(p, pr[p])
  BY DEF Deep
<1>3. Pipes(pr[p].pipe, 1) /\ ~Pipes(pr[p].pipe, Depth - p[2] + 1) /\ p \in Pids
  BY <1>1, <1>2, OnePipe DEF DeepAt, Piping
<1>4. p[2] \in 0 .. Depth
  BY <1>1, <1>3, PidsAre DEF AnyHelper
<1>5. ASSUME p[2] = Depth
      PROVE  FALSE
  <2>1. Depth - p[2] + 1 = 1
    BY <1>5, MyshAssumption
  <2> QED
    BY <1>3, <2>1, Zenon
<1> QED
  BY <1>1, <1>4, <1>5

LEMMA NowDeep ==
  ASSUME Deep, NEW p \in DOMAIN pr, NEW l, Now(p, l), DeepAt(p, l)
  PROVE  Deep'
<1>1. DOMAIN pr' = DOMAIN pr /\ \A x \in DOMAIN pr : pr'[x] = IF x = p THEN l ELSE pr[x]
  BY NowIs
<1> QED
  BY <1>1, Zenon DEF Deep

LEMMA WithDeep ==
  ASSUME Deep, NEW p \in DOMAIN pr, NEW q, NEW l, NEW m, With(q, m, p, l),
         DeepAt(p, l), DeepAt(q, m)
  PROVE  Deep'
<1>1. /\ DOMAIN pr' = DOMAIN pr \cup {q}
      /\ \A x \in DOMAIN pr' : pr'[x] = IF x = q THEN m ELSE IF x = p THEN l ELSE pr[x]
  BY WithIs
<1> QED
  BY <1>1, Zenon DEF Deep

LEMMA WithoutDeep ==
  ASSUME Deep, NEW p \in DOMAIN pr, NEW q, NEW l, Without(q, p, l), DeepAt(p, l)
  PROVE  Deep'
<1>1. DOMAIN pr' = DOMAIN pr \ {q} /\ \A x \in DOMAIN pr' : pr'[x] = IF x = p THEN l ELSE pr[x]
  BY WithoutIs
<1> QED
  BY <1>1, Zenon DEF Deep

\* A process with no more pipes to make.
LEMMA PastPiping ==
  ASSUME Deep, NEW p \in DOMAIN pr, NEW l, l.pc \notin Piping
  PROVE  DeepAt(p, l)
  BY DEF Deep, DeepAt, Piping

LEMMA ReturnsDeep ==
  ASSUME Inv, Deep, NEW p \in DOMAIN pr, NEW st, Returns(p, st)
  PROVE  Deep'
<1> DEFINE l == [pr[p] EXCEPT !.pc = "done", !.st = st]
<1>1. l.pc = "done" /\ Now(p, l)
  BY KindOf DEF Inv, Local, Returns
<1> HIDE DEF l
<1> QED
  BY <1>1, PastPiping, NowDeep DEF Piping

LEMMA ZombieDeep ==
  ASSUME Deep, NEW p \in DOMAIN pr, NEW st, Now(p, Zombie(st))
  PROVE  Deep'
<1>1. Zombie(st).pc = "zombie"
  BY DEF Zombie, Process
<1> QED
  BY <1>1, PastPiping, NowDeep DEF Piping

\* A process that goes on from its step to pc.
LEMMA GotoDeep ==
  ASSUME Inv, Deep, NEW p \in DOMAIN pr, NEW pc, pc \notin Piping, Goto(p, pc)
  PROVE  Deep'
<1> DEFINE l == [pr[p] EXCEPT !.pc = pc]
<1>1. l.pc = pc /\ Now(p, l)
  BY KindOf DEF Inv, Local, Goto
<1> HIDE DEF l
<1> QED
  BY <1>1, PastPiping, NowDeep

LEMMA RedirectedDeep ==
  ASSUME Inv, Deep, NEW p \in DOMAIN pr, Command(p, Programs),
         Now(p, [Redirected(pr[p], pr[p].pipe[1].redir) EXCEPT !.pc = "done", !.st = 1])
  PROVE  Deep'
<1> DEFINE m == Redirected(pr[p], pr[p].pipe[1].redir)
           l == [m EXCEPT !.pc = "done", !.st = 1]
<1>1. m \in Local /\ Now(p, l)
  BY CommandRedirected
<1> HIDE DEF m
<1>2. l.pc = "done"
  BY <1>1 DEF Local
<1> HIDE DEF l
<1> QED
  BY <1>1, <1>2, PastPiping, NowDeep DEF Piping

LEMMA ForkDeep ==
  ASSUME Inv, Deep, NEW p \in DOMAIN pr, Fork(p)
  PROVE  Deep'
<1> DEFINE c == pr[p].pipe[1]
           m == Redirected(pr[p], c.redir)
           l == [m EXCEPT !.pc = "wait"]
           q == Process("main", <<c>>, m.in, m.out, m.held, Writes(c))
<1>1. Command(p, Programs) /\ (With(Prog(p), q, p, l) \/ Now(p, [m EXCEPT !.pc = "done", !.st = 1]))
  BY DEF Fork
<1>2. CASE Now(p, [m EXCEPT !.pc = "done", !.st = 1])
  BY <1>1, <1>2, RedirectedDeep
<1>3. CASE With(Prog(p), q, p, l)
  <2>1. m \in Local /\ p \in AnyHelper
    BY <1>1, CommandRedirected, CommandIs
  <2>2. q.pc = "main"
    BY DEF Process
  <2> HIDE DEF m, q
  <2>3. l.pc = "wait"
    BY <2>1 DEF Local
  <2> HIDE DEF l
  <2>4. DeepAt(p, l)
    BY <2>3, PastPiping DEF Piping
  <2>5. DeepAt(Prog(p), q)
    <3>1. Prog(p) \in Pids
      BY <2>1, PidsAre DEF Deep, DeepAt
    <3> QED
      BY <2>2, <3>1 DEF DeepAt, Piping
  <2> QED
    BY <1>3, <2>4, <2>5, WithDeep
<1> QED
  BY <1>1, <1>2, <1>3

LEMMA PipeDeep ==
  ASSUME Inv, Deep, NEW p \in DOMAIN pr, Pipe(p)
  PROVE  Deep'
<1> DEFINE l == [pr[p] EXCEPT !.pc = "fork1", !.held = @ \cup Ends(p)]
<1>1. Now(p, l) \/ Returns(p, 1)
  BY DEF Pipe
<1>2. /\ pr[p] \in Local /\ pr[p].pc = "run"
      /\ First(pr[p].pipe, {"|"}) <= Len(pr[p].pipe)
  BY PipedIs, KindOf DEF Pipe, Piped, Inv
<1>3. CASE Now(p, l)
  <2>1. l.pc = "fork1" /\ l.pipe = pr[p].pipe
    BY <1>2 DEF Local
  <2> HIDE DEF l
  <2>2. DeepAt(p, pr[p])
    BY DEF Deep
  <2>3. DeepAt(p, l)
    BY <1>2, <2>1, <2>2 DEF DeepAt, Piping
  <2> QED
    BY <1>3, <2>3, NowDeep
<1> QED
  BY <1>1, <1>3, ReturnsDeep

LEMMA Fork1Deep ==
  ASSUME Inv, Deep, NEW p \in DOMAIN pr, Fork1(p)
  PROVE  Deep'
<1> DEFINE l == [pr[p] EXCEPT !.pc = "fork2"]
           b == Before(pr[p].pipe, {"|"})
           q == Process("run", b, pr[p].in, W(K(p)), Shut(p).held, 0)
           d == [Shut(p) EXCEPT !.pc = "done", !.st = 1]
<1>1. pr[p].pc = "fork1" /\ (With(Stage(K(p)), q, p, l) \/ Now(p, d))
  BY DEF Fork1, At
<1>2. pr[p] \in Local /\ Shut(p) \in Local /\ p \in AnyRest
  BY <1>1, ChainAt
<1>3. CASE Now(p, d)
  <2>1. d.pc = "done"
    BY <1>2 DEF Local
  <2> HIDE DEF d
  <2> QED
    BY <1>3, <2>1, PastPiping, NowDeep DEF Piping
<1>4. CASE With(Stage(K(p)), q, p, l)
  <2>1. l.pc = "fork2" /\ l.pipe = pr[p].pipe
    BY <1>2 DEF Local
  <2>2. q.pc = "run"
    BY DEF Process
  <2> HIDE DEF l, q
  <2>3. DeepAt(p, pr[p])
    BY DEF Deep
  <2>4. DeepAt(p, l)
    BY <1>1, <2>1, <2>3 DEF DeepAt, Piping
  <2>5. Stage(K(p)) \in Pids /\ Stage(K(p)) \notin AnyRest
    <3>1. p \in Pids /\ p[2] # Depth
      BY <1>1, <2>3, RoomFor DEF DeepAt
    <3>2. Stage(K(p)) \in Pids
      BY <1>2, <3>1, PidsAre DEF AnyHelper
    <3>3. Stage(K(p)) \notin AnyRest
      BY <1>2, KidsAt, NamesDiffer DEF AnyStage, AnyRest
    <3> QED
      BY <3>2, <3>3
  <2>6. DeepAt(Stage(K(p)), q)
    BY <2>2, <2>5 DEF DeepAt
  <2> QED
    BY <1>4, <2>4, <2>6, WithDeep
<1> QED
  BY <1>1, <1>3, <1>4

LEMMA Fork2Deep ==
  ASSUME Inv, Deep, NEW p \in DOMAIN pr, Fork2(p)
  PROVE  Deep'
<1> DEFINE l == [pr[p] EXCEPT !.pc = "close"]
           a == After(pr[p].pipe, {"|"})
           q == Process("run", a, R(K(p)), pr[p].out, Shut(p).held, 0)
           d == [Shut(p) EXCEPT !.pc = "waitOnly"]
<1>1. pr[p].pc = "fork2" /\ (With(Rest(K(p)), q, p, l) \/ Now(p, d))
  BY DEF Fork2, At
<1>2. pr[p] \in Local /\ Shut(p) \in Local /\ p \in AnyRest
  BY <1>1, ChainAt
<1>3. CASE Now(p, d)
  <2>1. d.pc = "waitOnly"
    BY <1>2 DEF Local
  <2> HIDE DEF d
  <2> QED
    BY <1>3, <2>1, PastPiping, NowDeep DEF Piping
<1>4. CASE With(Rest(K(p)), q, p, l)
  <2>1. l.pc = "close"
    BY <1>2 DEF Local
  <2>2. q.pc = "run" /\ q.pipe = a
    BY DEF Process
  <2> HIDE DEF l, q
  <2>3. DeepAt(p, l)
    BY <2>1, PastPiping DEF Piping
  <2>4. /\ p \in Pids /\ pr[p].pipe \in Seq(Word) /\ First(pr[p].pipe, {"|"}) <= Len(pr[p].pipe)
        /\ ~Pipes(pr[p].pipe, Depth - p[2] + 1)
    BY <1>1, <1>2 DEF Deep, DeepAt, Piping, Local
  <2>5. p[2] \in 0 .. Depth /\ p[2] # Depth
    BY <1>1, RoomFor
  <2> DEFINE n == Depth - p[2]
  <2>6. n \in Nat /\ Depth - (p[2] + 1) + 1 = n
    BY <2>5, MyshAssumption
  <2>7. ~Pipes(a, n)
    <3>1. ~Pipes(pr[p].pipe, n + 1)
      BY <2>4
    <3> HIDE DEF n
    <3> QED
      BY <2>4, <2>6, <3>1, PipesAfter
  <2>8. Rest(K(p)) \in Pids /\ Rest(K(p))[2] = p[2] + 1
    BY <1>2, <2>4, <2>5, PidsAre DEF AnyHelper
  <2>9. ~Pipes(q.pipe, Depth - Rest(K(p))[2] + 1)
    BY <2>2, <2>6, <2>7, <2>8
  <2>10. DeepAt(Rest(K(p)), q)
    BY <2>2, <2>8, <2>9 DEF DeepAt
  <2> QED
    BY <1>4, <2>3, <2>10, WithDeep
<1> QED
  BY <1>1, <1>3, <1>4

LEMMA WaitsDeep ==
  ASSUME Inv, Deep, NEW p \in DOMAIN pr, Wait(p) \/ Wait1(p) \/ Wait2(p)
  PROVE  Deep'
<1>1. pr[p] \in Local
  BY KindOf DEF Inv
<1>2. \E q, l : Without(q, p, l) /\ l.pc \notin Piping
  <2>1. CASE Wait(p)
    <3> DEFINE l == [pr[p] EXCEPT !.pc = "done", !.st = pr[Prog(p)].st]
    <3>1. Without(Prog(p), p, l) /\ l.pc = "done"
      BY <1>1, <2>1 DEF Wait, Local
    <3> QED
      BY <3>1 DEF Piping
  <2>2. CASE Wait1(p)
    <3> DEFINE l == IF At(p, "wait1") THEN [pr[p] EXCEPT !.pc = "wait2"]
                                      ELSE [pr[p] EXCEPT !.pc = "done", !.st = 1]
    <3>1. Without(Stage(K(p)), p, l) /\ l.pc \in {"wait2", "done"}
      BY <1>1, <2>2 DEF Wait1, Local
    <3> QED
      BY <3>1 DEF Piping
  <2>3. CASE Wait2(p)
    <3> DEFINE l == [pr[p] EXCEPT !.pc = "done", !.st = pr[Rest(K(p))].st]
    <3>1. Without(Rest(K(p)), p, l) /\ l.pc = "done"
      BY <1>1, <2>3 DEF Wait2, Local
    <3> QED
      BY <3>1 DEF Piping
  <2> QED
    BY <2>1, <2>2, <2>3
<1>3. PICK q, l : Without(q, p, l) /\ l.pc \notin Piping
  BY <1>2
<1> QED
  BY <1>3, PastPiping, WithoutDeep

LEMMA ProgramsDeep ==
  ASSUME Inv, Deep, NEW p \in DOMAIN pr, Write(p) \/ Read(p) \/ Finish(p)
  PROVE  Deep'
<1>1. pr[p] \in Local /\ pr[p].pc \in {"main", "eof"}
  BY KindOf DEF Inv, Write, Read, Finish, Running, At
<1>2. CASE \E st : Over(p, st)
  BY <1>2, ZombieDeep DEF Over
<1>3. CASE Now(p, [pr[p] EXCEPT !.n = IF @ > 0 THEN @ - 1 ELSE 0])
  <2> DEFINE l == [pr[p] EXCEPT !.n = IF @ > 0 THEN @ - 1 ELSE 0]
  <2>1. l.pc = pr[p].pc /\ Now(p, l)
    BY <1>1, <1>3 DEF Local
  <2> HIDE DEF l
  <2> QED
    BY <1>1, <2>1, PastPiping, NowDeep DEF Piping
<1>4. CASE \E pc \in {"main", "eof"} : Now(p, [pr[p] EXCEPT !.n = 1, !.pc = pc])
  <2>1. PICK pc \in {"main", "eof"} : Now(p, [pr[p] EXCEPT !.n = 1, !.pc = pc])
    BY <1>4
  <2> DEFINE l == [pr[p] EXCEPT !.n = 1, !.pc = pc]
  <2>2. l.pc = pc /\ Now(p, l)
    BY <1>1, <2>1 DEF Local
  <2> HIDE DEF l
  <2> QED
    BY <2>2, PastPiping, NowDeep DEF Piping
<1>5. CASE Goto(p, "eof")
  BY <1>5, GotoDeep DEF Piping
<1>6. \/ \E st : Over(p, st)
      \/ Now(p, [pr[p] EXCEPT !.n = IF @ > 0 THEN @ - 1 ELSE 0])
      \/ \E pc \in {"main", "eof"} : Now(p, [pr[p] EXCEPT !.n = 1, !.pc = pc])
      \/ Goto(p, "eof")
  BY DEF Write, Read, Finish
<1> QED
  BY <1>2, <1>3, <1>4, <1>5, <1>6

LEMMA StepDeep ==
  ASSUME Inv, Deep, NEW p \in DOMAIN pr, Step(p), ~(p = Shell /\ Done(p))
  PROVE  Deep'
<1>1. CASE Nothing(p) \/ Show(p) \/ Set(p)
  BY <1>1, ReturnsDeep DEF Nothing, Show, Set
<1>2. CASE ShowBroken(p)
  BY <1>2, ZombieDeep DEF ShowBroken
<1>3. CASE Exit(p)
  <2>1. Goto(p, "ended") \/ \E st : Now(p, Zombie(st))
    BY <1>3 DEF Exit
  <2> QED
    BY <2>1, GotoDeep, ZombieDeep DEF Piping
<1>4. CASE RedirectionFails(p)
  BY <1>4, RedirectedDeep DEF RedirectionFails
<1>5. CASE Fork(p)
  BY <1>5, ForkDeep
<1>6. CASE Wait(p) \/ Wait1(p) \/ Wait2(p)
  BY <1>6, WaitsDeep
<1>7. CASE Pipe(p)
  BY <1>7, PipeDeep
<1>8. CASE Fork1(p)
  BY <1>8, Fork1Deep
<1>9. CASE Fork2(p)
  BY <1>9, Fork2Deep
<1>10. CASE ClosePipe(p)
  <2> DEFINE l == [Shut(p) EXCEPT !.pc = "wait1"]
  <2>1. Shut(p) \in Local /\ Now(p, l)
    BY <1>10, ChainAt DEF ClosePipe, At
  <2>2. l.pc = "wait1"
    BY <2>1 DEF Local
  <2> HIDE DEF l
  <2> QED
    BY <2>1, <2>2, PastPiping, NowDeep DEF Piping
<1>11. CASE Done(p)
  BY <1>11, ZombieDeep DEF Done
<1>12. CASE Write(p) \/ Read(p) \/ Finish(p)
  BY <1>12, ProgramsDeep
<1> QED
  BY <1>1, <1>2, <1>3, <1>4, <1>5, <1>6, <1>7, <1>8, <1>9, <1>10, <1>11, <1>12, Zenon DEF Step

LEMMA TurnDeep ==
  ASSUME Inv, Deep, Narrow(line), line' = line, NEW f \in 1 .. Len(line) + 1, Turn(From(f))
  PROVE  Deep'
<1> DEFINE ws == From(f)
           b == Before(ws, JoinOps)
           r == [pr[Shell] EXCEPT !.pc = "read", !.words = <<>>]
           l == [pr[Shell] EXCEPT !.pc = "run", !.words = ws, !.pipe = b]
<1>1. Shell \in DOMAIN pr /\ pr[Shell] \in Local /\ Shell \in Pids
  BY KindOf DEF Inv, Procs, Deep, DeepAt
<1>2. Now(Shell, r) \/ Now(Shell, l)
  BY Zenon DEF Turn, JoinOps
<1>3. ~Pipes(b, Depth + 1)
  BY FewPipes DEF Inv
<1> HIDE DEF ws, b
<1>4. r.pc = "read" /\ l.pc = "run" /\ l.pipe = b
  BY <1>1 DEF Local
<1> HIDE DEF r, l
<1>5. DeepAt(Shell, r)
  BY <1>1, <1>4, PastPiping DEF Piping
<1>6. DeepAt(Shell, l)
  <2>1. Shell[2] = 0 /\ Depth - 0 = Depth
    BY ShellIs, MyshAssumption
  <2> QED
    BY <1>1, <1>3, <1>4, <2>1 DEF DeepAt
<1> QED
  BY <1>1, <1>2, <1>5, <1>6, NowDeep

LEMMA NextDeep ==
  ASSUME Inv, Deep, Narrow(line), [Next]_vars
  PROVE  Deep' /\ Narrow(line')
<1>1. Shell \in DOMAIN pr /\ pr[Shell] \in Local
  BY KindOf DEF Inv, Procs
<1>2. CASE ReadLine
  <2>1. PICK m \in Menu : line' = m /\ Now(Shell, [pr[Shell] EXCEPT !.pc = "turn", !.words = m])
    BY <1>2 DEF ReadLine
  <2> DEFINE l == [pr[Shell] EXCEPT !.pc = "turn", !.words = m]
  <2>2. l.pc = "turn" /\ Now(Shell, l)
    BY <1>1, <2>1 DEF Local
  <2> HIDE DEF l
  <2> QED
    BY <1>1, <2>1, <2>2, MenuNarrow, PastPiping, NowDeep DEF Piping
<1>3. CASE Begin
  BY <1>3, BeginTurns, TurnDeep
<1>4. CASE EndOfInput
  BY <1>1, <1>4, GotoDeep DEF EndOfInput, Piping
<1>5. ASSUME NEW p \in DOMAIN pr, Step(p)
      PROVE  Deep' /\ line' = line
  <2>1. CASE p = Shell /\ Done(p)
    BY <2>1, DoneTurns, TurnDeep
  <2>2. CASE ~(p = Shell /\ Done(p))
    BY <1>5, <2>2, StepDeep, StepEffects DEF Effects
  <2> QED
    BY <2>1, <2>2
<1>6. CASE UNCHANGED vars
  BY <1>6 DEF vars, Deep
<1> QED
  BY <1>2, <1>3, <1>4, <1>5, <1>6, Zenon DEF Next

\* What the pipes hold, and the counts.
Small ==
  /\ chan \in [1 .. Depth -> 0 .. Capacity] /\ own \subseteq {"<", ">"}
  /\ lines \in 0 .. MaxLines /\ failures \in 0 .. MaxFailures

LEMMA StepSmall ==
  ASSUME Inv, Small, NEW p \in DOMAIN pr, Step(p), ~(p = Shell /\ Done(p))
  PROVE  Small'
<1>1. own' = own
  BY StepEffects DEF Effects
<1>2. lines' = lines
  BY DEF Step, Nothing, Show, ShowBroken, Set, Exit, RedirectionFails, Fork, Wait, Pipe, Fork1,
         Fork2, ClosePipe, Wait1, Wait2, Done, Write, Read, Finish
<1>3. failures' \in 0 .. MaxFailures
  <2>1. failures' = failures \/ (failures < MaxFailures /\ failures' = failures + 1)
    BY DEF Step, Nothing, Show, ShowBroken, Set, Exit, RedirectionFails, Fork, Wait, Pipe, Fork1,
           Fork2, ClosePipe, Wait1, Wait2, Done, Write, Read, Finish
  <2> QED
    BY <2>1, MyshAssumption DEF Small
<1>4. chan' \in [1 .. Depth -> 0 .. Capacity]
  <2>1. \/ chan' = chan
        \/ \E k : chan[k] < Capacity /\ chan' = [chan EXCEPT ![k] = @ + 1]
        \/ \E k : chan[k] > 0 /\ chan' = [chan EXCEPT ![k] = @ - 1]
        \/ \E k : chan' = [chan EXCEPT ![k] = 0]
    BY DEF Step, Nothing, Show, ShowBroken, Set, Exit, RedirectionFails, Fork, Wait, Pipe, Fork1,
           Fork2, ClosePipe, Wait1, Wait2, Done, Write, Read, Finish, Put
  <2>2. chan \in [1 .. Depth -> 0 .. Capacity] /\ Capacity \in Nat
    BY MyshAssumption DEF Small
  <2> QED
    BY <2>1, <2>2
<1> QED
  BY <1>1, <1>2, <1>3, <1>4 DEF Small

LEMMA TurnSmall ==
  ASSUME Inv, Small, NEW f \in 1 .. Len(line) + 1, Turn(From(f)),
         UNCHANGED <<chan, lines, failures>>
  PROVE  Small'
<1> DEFINE ws == From(f)
           b == Before(ws, JoinOps)
<1>1. b \in Seq(Word)
  BY FromIs, BeforeIs DEF Inv
<1>2. \/ own' = own
      \/ Len(b) = 1 /\ own' = own \cup {b[1].redir[i][1] : i \in DOMAIN b[1].redir}
  BY Zenon DEF Turn, JoinOps, history
<1> HIDE DEF b
<1>3. ASSUME Len(b) = 1
      PROVE  \A i \in DOMAIN b[1].redir : b[1].redir[i][1] \in {"<", ">"}
  <2>1. b[1] \in Word
    BY <1>1, <1>3
  <2>2. b[1].redir \in Seq({"<", ">"} \X STRING)
    BY <2>1 DEF Word
  <2> QED
    BY <2>2
<1> QED
  BY <1>2, <1>3 DEF Small

LEMMA NextSmall ==
  ASSUME Inv, Small, [Next]_vars
  PROVE  Small'
<1>1. CASE ReadLine
  BY <1>1, MyshAssumption DEF ReadLine, Small
<1>2. CASE Begin
  BY <1>2, BeginTurns, TurnSmall DEF Begin
<1>3. CASE EndOfInput
  BY <1>3 DEF EndOfInput, history, Small
<1>4. ASSUME NEW p \in DOMAIN pr, Step(p)
      PROVE  Small'
  <2>1. CASE p = Shell /\ Done(p)
    BY <2>1, DoneTurns, TurnSmall DEF Done
  <2>2. CASE ~(p = Shell /\ Done(p))
    BY <1>4, <2>2, StepSmall
  <2> QED
    BY <2>1, <2>2
<1>5. CASE UNCHANGED vars
  BY <1>5 DEF vars, history, Small
<1> QED
  BY <1>1, <1>2, <1>3, <1>4, <1>5, Zenon DEF Next

\* However deep its pipelines, the shell and its children stay within the
\* processes and pipes that the longest pipeline needs, and no pipe ever holds
\* more than its capacity or less than nothing.
THEOREM ShellTypeCorrect == Spec => []TypeOK
<1> DEFINE TInv == Inv /\ Deep /\ Narrow(line) /\ Small
<1>1. Init => TInv
  <2> SUFFICES ASSUME Init
               PROVE  TInv
    OBVIOUS
  <2>1. line = <<>> /\ pr = [p \in {Shell} |-> Process("read", <<>>, Tty, Tty, {}, 0)]
    BY DEF Init
  <2>2. DOMAIN pr = {Shell} /\ pr[Shell].pc = "read"
    BY <2>1 DEF Process
  <2>3. Shell \in Pids
    <3>1. Shell = Rest(0) /\ 0 \in 0 .. Depth
      BY ShellIs, MyshAssumption
    <3> QED
      BY <3>1 DEF Helpers, Pids
  <2>4. Deep
    BY <2>2, <2>3 DEF Deep, DeepAt, Piping
  <2>5. Narrow(line)
    BY <2>1 DEF Narrow
  <2>6. Small
    BY MyshAssumption DEF Init, Small
  <2> QED
    BY <2>4, <2>5, <2>6, InitInv
<1>2. TInv /\ [Next]_vars => TInv'
  <2> SUFFICES ASSUME TInv, [Next]_vars
               PROVE  TInv'
    OBVIOUS
  <2>1. Inv'
    BY NextKeeps
  <2>2. Deep' /\ Narrow(line')
    BY NextDeep
  <2>3. Small'
    BY NextSmall
  <2>4. Narrow(line)'
    BY <2>2 DEF Narrow
  <2> QED
    BY <2>1, <2>2, <2>3, <2>4
<1>3. TInv => TypeOK
  BY DEF Inv, Procs, Local, Pcs, Statuses, Deep, DeepAt, Small, TypeOK
<1> QED
  BY <1>1, <1>2, <1>3, PTL DEF Spec

=============================================================================
