----------------------------- MODULE ChatPeers -----------------------------
(***************************************************************************)
(* The two chat programs of Assignment 3(ext), Problem 4, from the moment  *)
(* they are connected.  Each has a thread that sends what its user types   *)
(* and one that shows what arrives; they share the flag running.  The      *)
(* programs are alike but for the call that connects them.                 *)
(*                                                                         *)
(* The connection is a stream of bytes in which nothing separates the      *)
(* lines: one recv returns some of them, of one line or of several, and    *)
(* what it returned is compared with Bye, whatever lines it is made of.    *)
(* A peer that closes its end is noticed by recv at the end of the stream, *)
(* and by send as an error or as SIGPIPE.                                  *)
(***************************************************************************)
EXTENDS Integers, Sequences

CONSTANTS Bytes,           \* what a line is made of
          Lines,           \* what a user types, without the newline
          BUFFER_SIZE,     \* of the array a thread reads into
          Capacity         \* bytes the buffers of a connection hold

Bye == <<"B", "y", "e">>

ASSUME ChatAssumption ==
  /\ BUFFER_SIZE \in Nat /\ Capacity \in Nat
  /\ {<<>>, Bye} \subseteq Lines /\ Lines \subseteq Seq(Bytes)
  /\ \A line \in Lines : Len(line) < BUFFER_SIZE /\ Len(line) <= Capacity

Peers == {"server", "client"}
Other(s) == IF s = "server" THEN "client" ELSE "server"

VARIABLES running,         \* the flag of each program
          snd, rcv,        \* where its two threads are
          buffer,          \* the line in send_thread's buffer
          chan,            \* the bytes it has sent and its peer has not read
          up,              \* "up", "closed" its socket, or "killed"
          reset,           \* its peer's end is gone, and a send will find out
          said, eof,       \* history: its user typed Bye; ended the input
          missed,          \* history: it read the peer's Bye and overlooked it
          mistaken         \* history: it took other bytes for the peer's Bye

threads == <<running, snd, rcv, buffer>>
socket  == <<chan, up, reset>>
history == <<said, eof, missed, mistaken>>
chatVars == <<threads, socket, history>>

ChatInit ==
  /\ running = [s \in Peers |-> TRUE]
  /\ snd = [s \in Peers |-> "test"] /\ rcv = [s \in Peers |-> "test"]
  /\ buffer = [s \in Peers |-> <<>>]
  /\ chan = [s \in Peers |-> <<>>] /\ up = [s \in Peers |-> "up"]
  /\ reset = [s \in Peers |-> FALSE]
  /\ said = [s \in Peers |-> FALSE] /\ eof = [s \in Peers |-> FALSE]
  /\ missed = [s \in Peers |-> FALSE] /\ mistaken = [s \in Peers |-> FALSE]

Sending(s, pc)   == up[s] = "up" /\ snd[s] = pc
Receiving(s, pc) == up[s] = "up" /\ rcv[s] = pc
SndGoto(s, pc)   == snd' = [snd EXCEPT ![s] = pc]
RcvGoto(s, pc)   == rcv' = [rcv EXCEPT ![s] = pc]
Stop(s)          == running' = [running EXCEPT ![s] = FALSE]

\* The socket of s is closed.  Bytes it has not read make the close a reset,
\* and of what it sent itself the peer may then get only a part.
Gone(s, how) ==
  LET unread == chan[Other(s)] # <<>>
  IN /\ up' = [up EXCEPT ![s] = how]
     /\ reset' = [reset EXCEPT ![Other(s)] = @ \/ unread]
     /\ \E n \in 0 .. Len(chan[s]) :
           /\ ~unread => n = Len(chan[s])
           /\ chan' = [chan EXCEPT ![s] = SubSeq(@, 1, n)]

-----------------------------------------------------------------------------
(* send_thread.                                                            *)

SendTest(s) ==
  /\ Sending(s, "test") /\ SndGoto(s, IF running[s] THEN "fgets" ELSE "ended")
  /\ UNCHANGED <<running, rcv, buffer, socket, history>>

Type(s, line) ==
  /\ Sending(s, "fgets") /\ SndGoto(s, "send")
  /\ buffer' = [buffer EXCEPT ![s] = line]
  /\ said' = [said EXCEPT ![s] = @ \/ line = Bye]
  /\ UNCHANGED <<running, rcv, socket, eof, missed, mistaken>>

\* Mutant: the end of the input clears the flag.
EndOfInputStops(s) ==
  /\ Sending(s, "fgets") /\ SndGoto(s, "ended") /\ Stop(s)
  /\ eof' = [eof EXCEPT ![s] = TRUE]
  /\ UNCHANGED <<rcv, buffer, socket, said, missed, mistaken>>

\* The thread ends, and the flag is left as it is.
EndOfInput(s) ==
  /\ Sending(s, "fgets") /\ SndGoto(s, "ended")
  /\ eof' = [eof EXCEPT ![s] = TRUE]
  /\ UNCHANGED <<running, rcv, buffer, socket, said, missed, mistaken>>

AfterSend(s) == SndGoto(s, IF buffer[s] = Bye THEN "bye" ELSE "test")

\* send waits for room in the buffers.  An empty line sends nothing.
SendLine(s) ==
  /\ Sending(s, "send") /\ up[Other(s)] = "up" /\ Len(chan[s]) + Len(buffer[s]) <= Capacity
  /\ chan' = [chan EXCEPT ![s] = @ \o buffer[s]]
  /\ AfterSend(s)
  /\ UNCHANGED <<running, rcv, buffer, up, reset, history>>

\* The first line to a peer that has gone is lost, and answered with a reset.
SendLost(s) ==
  /\ Sending(s, "send") /\ up[Other(s)] # "up"
  /\ reset' = [reset EXCEPT ![s] = @ \/ buffer[s] # <<>>] /\ AfterSend(s)
  /\ UNCHANGED <<running, rcv, buffer, chan, up, history>>

\* After the reset, send fails, or SIGPIPE ends the program.
SendFails(s) ==
  /\ Sending(s, "send") /\ reset[s] /\ SndGoto(s, "ended")
  /\ UNCHANGED <<running, rcv, buffer, socket, history>>
BrokenPipe(s) ==
  /\ Sending(s, "send") /\ reset[s] /\ Gone(s, "killed")
  /\ UNCHANGED <<threads, history>>

SendBye(s) ==
  /\ Sending(s, "bye") /\ Stop(s) /\ SndGoto(s, "ended")
  /\ UNCHANGED <<rcv, buffer, socket, history>>

-----------------------------------------------------------------------------
(* recv_thread.                                                            *)

RecvTest(s) ==
  /\ Receiving(s, "test") /\ RcvGoto(s, IF running[s] THEN "recv" ELSE "ended")
  /\ UNCHANGED <<running, snd, buffer, socket, history>>

\* Bytes count as a Bye when they are all that recv returned.
Recognised(c, n) == SubSeq(c, 1, n) = Bye

\* The peer has said Bye and sent it: no byte follows its last ones.
ByeSent(t) == said[t] /\ snd[t] # "send"

\* recv returns the n oldest bytes, which need not be a line.
Recv(s) ==
  /\ Receiving(s, "recv")
  /\ LET c == chan[Other(s)]
     IN \E n \in 1 .. Len(c) :
           LET isBye == ByeSent(Other(s)) /\ n = Len(c)
           IN /\ n < BUFFER_SIZE
              /\ chan' = [chan EXCEPT ![Other(s)] = SubSeq(c, n + 1, Len(c))]
              /\ IF Recognised(c, n)
                   THEN Stop(s) /\ RcvGoto(s, "ended")
                   ELSE running' = running /\ RcvGoto(s, "test")
              /\ missed' = [missed EXCEPT ![s] = @ \/ (isBye /\ ~Recognised(c, n))]
              /\ mistaken' = [mistaken EXCEPT ![s] = @ \/ (Recognised(c, n) /\ ~isBye)]
  /\ UNCHANGED <<snd, buffer, up, reset, said, eof>>

\* Mutant: only a negative result of recv ends the thread.
RecvEndIgnored(s) ==
  /\ Receiving(s, "recv") /\ chan[Other(s)] = <<>> /\ up[Other(s)] # "up"
  /\ RcvGoto(s, "test")
  /\ UNCHANGED <<running, snd, buffer, socket, history>>

\* recv returns 0, or an error after a reset.
RecvEnd(s) ==
  /\ Receiving(s, "recv") /\ chan[Other(s)] = <<>> /\ up[Other(s)] # "up"
  /\ Stop(s) /\ RcvGoto(s, "ended")
  /\ UNCHANGED <<snd, buffer, socket, history>>

-----------------------------------------------------------------------------
\* main: both threads are joined and the socket is closed.
Close(s) ==
  /\ Sending(s, "ended") /\ Receiving(s, "ended") /\ Gone(s, "closed")
  /\ UNCHANGED <<threads, history>>

Program(s) == \/ SendTest(s) \/ SendLine(s) \/ SendLost(s) \/ SendFails(s) \/ BrokenPipe(s)
              \/ SendBye(s) \/ RecvTest(s) \/ Recv(s) \/ RecvEnd(s) \/ Close(s)
User(s) == (\E line \in Lines : Type(s, line)) \/ EndOfInput(s)
ChatNext == \E s \in Peers : Program(s) \/ User(s)
ChatSpec == ChatInit /\ [][ChatNext]_chatVars

\* The threads run.  A user who is asked for lines again and again types one
\* that is not empty now and then; nobody has to say Bye.
Fairness ==
  \A s \in Peers :
     /\ WF_chatVars(SendTest(s)) /\ WF_chatVars(SendLine(s) \/ SendLost(s)) /\ WF_chatVars(SendBye(s))
     /\ WF_chatVars(RecvTest(s)) /\ WF_chatVars(Recv(s)) /\ WF_chatVars(RecvEnd(s)) /\ WF_chatVars(Close(s))
     /\ SF_chatVars(\E line \in Lines \ {<<>>} : Type(s, line))
ChatFairSpec == ChatSpec /\ Fairness

-----------------------------------------------------------------------------
ChatTypeOK ==
  /\ running \in [Peers -> BOOLEAN]
  /\ snd \in [Peers -> {"test", "fgets", "send", "bye", "ended"}]
  /\ rcv \in [Peers -> {"test", "recv", "ended"}]
  /\ buffer \in [Peers -> Lines]
  /\ chan \in [Peers -> Seq(Bytes)]
  /\ \A s \in Peers : Len(chan[s]) <= Capacity
  /\ up \in [Peers -> {"up", "closed", "killed"}]
  /\ reset \in [Peers -> BOOLEAN]
  /\ said \in [Peers -> BOOLEAN] /\ eof \in [Peers -> BOOLEAN]
  /\ missed \in [Peers -> BOOLEAN] /\ mistaken \in [Peers -> BOOLEAN]

\* The thread that shows lines stops before its own user says Bye only when
\* all that arrived was shown and the other side is done, because its user has
\* said Bye, although the flag that stops it is shared with the other thread,
\* one's own input may end, a send may fail and a Bye may come in the same recv
\* as other lines.  The exception is a program that takes other bytes, the end
\* of "GoodBye" or the lines "B" and "ye", for a Bye: it is done then and there.
ShowsToTheEnd ==
  \A s \in Peers :
     (rcv[s] = "ended" /\ ~said[s] /\ ~mistaken[s]) =>
        chan[Other(s)] = <<>> /\ (said[Other(s)] \/ mistaken[Other(s)])

\* A Bye that one user types ends both programs, seen or overlooked, for users
\* who go on typing: the program that saw it waits for its own user to type a
\* line, and the one that said it for a line of the other.  A program that
\* overlooks it when its own user has said Bye too, or has ended the input, has
\* nobody left to wake the two: both wait for ever.
Ended(s) == up[s] # "up"
BothWait == \A s \in Peers : Sending(s, "ended") /\ Receiving(s, "recv") /\ chan[s] = <<>>
ByeEndsBoth ==
  \A s \in Peers :
     said[s] ~> \/ \A t \in Peers : Ended(t)
                \/ BothWait /\ \E t \in Peers : missed[t] /\ (said[t] \/ eof[t])
=============================================================================
