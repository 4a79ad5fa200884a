------------------------------- MODULE WebGet -------------------------------
(***************************************************************************)
(* apps/webget.cc: get_URL() and main(), over a TCPSocket and a server     *)
(* that answers, ends the connection or resets it at any moment.           *)
(*                                                                         *)
(* The response is a number of chunks.  The kernel's connection, the       *)
(* resolver and the server are external; read() is the one of              *)
(* FileDescriptor: it waits for data or the end, and sets the eof flag     *)
(* when it gets no bytes.  No name here is one of module Sockets, so that  *)
(* both can be reasoned about together.                                    *)
(***************************************************************************)
EXTENDS Naturals

CONSTANTS MaxChunks,  \* bound on the length of the response
          MaxRead     \* the most chunks one read() takes: BUFFER_SIZE

ASSUME WebGetAssumption == MaxChunks \in Nat /\ MaxRead \in Nat \ {0}

VARIABLES
  at,       \* where get_URL() stands, or "exited"
  eof,      \* the socket's _eof
  printed,  \* history: chunks written to std::cout
  cout,     \* "good", or "bad" once a write to std::cout has failed
  exit,     \* how the process ended
  server,   \* "away", "waits", "answers", "ended" or "reset"
  sent,     \* history: chunks the server has sent
  inbox     \* chunks the client's kernel holds

webVars == <<at, eof, printed, cout, exit, server, sent, inbox>>

process == <<at, eof, printed, cout, exit>>
network == <<server, sent, inbox>>

WebInit ==
  /\ at = "main"
  /\ eof = FALSE
  /\ printed = 0
  /\ cout = "good"
  /\ exit = "running"
  /\ server = "away"
  /\ sent = 0 /\ inbox = 0
-----------------------------------------------------------------------------
(***************************************************************************)
(* The client.                                                             *)
(***************************************************************************)
\* An exception leaves get_URL(), whose socket is destroyed on the way, and
\* main() reports the failure.
Fail ==
  /\ at' = "exited"
  /\ exit' = "failure"
  /\ UNCHANGED <<eof, printed, cout>>

\* A signal or abort() ends the process.
Killed ==
  /\ at' = "exited"
  /\ exit' = "killed"
  /\ UNCHANGED <<eof, printed, cout>>

\* A call that succeeds: on to the next.
Proceed(then) == at' = then /\ UNCHANGED <<eof, printed, cout, exit>>

\* main(): abort() without arguments at all, the usage message unless there
\* are two.
Main ==
  /\ at = "main"
  /\ \/ Proceed("socket")
     \/ Fail
     \/ Killed
  /\ UNCHANGED network

\* TCPSocket socket;
OpenSocket ==
  /\ at = "socket"
  /\ \/ Proceed("resolve")
     \/ Fail
  /\ UNCHANGED network

\* Address(host, "http"): the lookup fails, or has no result, or the first
\* result is taken.
Resolve ==
  /\ at = "resolve"
  /\ \/ Proceed("connect")
     \/ Fail
  /\ UNCHANGED network

\* socket.connect(add)
Connect ==
  /\ at = "connect"
  /\ \/ Proceed("write") /\ server' = "waits"
     \/ Fail /\ UNCHANGED server
  /\ UNCHANGED <<sent, inbox>>

\* socket.write(data_send): on a connection the server has left it throws,
\* or the process dies of SIGPIPE.
Write ==
  /\ at = "write"
  /\ \/ /\ server \in {"waits", "ended"}
        /\ Proceed("loop")
        /\ server' = IF server = "waits" THEN "answers" ELSE server
     \/ /\ server \in {"ended", "reset"}
        /\ Fail \/ Killed
        /\ UNCHANGED server
  /\ UNCHANGED <<sent, inbox>>

EndOfStreamOrReset == server \in {"ended", "reset"}

\* read(2) returns 0.
EndOfStream == server = "ended"

EofNever(n) == eof

\* FileDescriptor::read() sets the flag when it gets no bytes.
EofAfter(n) == eof \/ n = 0

\* The chunks on standard output after std::cout << data_recv.
Printed(n) == printed + n

\* How many chunks read() may return.
Obtainable ==
  {n \in 1..MaxRead : n <= inbox} \cup (IF inbox = 0 /\ EndOfStream THEN {0} ELSE {})

\* One turn of while (!socket.eof()): read(), and print what it returns.
\* After a reset read() throws.  Once a write to it has failed std::cout
\* drops everything, and nobody asks it.
Read ==
  /\ at = "loop" /\ ~eof
  /\ \/ \E n \in Obtainable :
          /\ inbox' = inbox - n
          /\ eof' = EofAfter(n)
          /\ cout' \in {cout, "bad"}
          /\ printed' = IF cout' = "good" THEN Printed(n) ELSE printed
          /\ UNCHANGED <<at, exit>>
     \/ /\ server = "reset"
        /\ Fail
        /\ UNCHANGED inbox
  /\ UNCHANGED <<server, sent>>

\* The loop is left and socket.close() is called: it throws, or main() returns.
Close ==
  /\ at = "loop" /\ eof
  /\ \/ at' = "exited" /\ exit' = "success" /\ UNCHANGED <<eof, printed, cout>>
     \/ Fail
  /\ UNCHANGED network
-----------------------------------------------------------------------------
(***************************************************************************)
(* The server and the network.                                             *)
(***************************************************************************)
ServerSends ==
  /\ server = "answers" /\ sent < MaxChunks
  /\ sent' = sent + 1 /\ inbox' = inbox + 1
  /\ UNCHANGED <<process, server>>

\* The end of the stream, behind all the data; the request asks for it with
\* "Connection: close".
ServerEnds ==
  /\ server \in {"waits", "answers"}
  /\ server' = "ended"
  /\ UNCHANGED <<process, sent, inbox>>

\* A reset may destroy what has not been read.
Reset ==
  /\ server \in {"waits", "answers"}
  /\ server' = "reset"
  /\ inbox' \in {0, inbox}
  /\ UNCHANGED <<process, sent>>

GetURL == Main \/ OpenSocket \/ Resolve \/ Connect \/ Write \/ Read \/ Close

WebNext == GetURL \/ ServerSends \/ ServerEnds \/ Reset

WebSpec == WebInit /\ [][WebNext]_webVars

\* The client runs whenever it is not waiting, and the server closes the
\* connection in the end, as the request asks it to.
WebFairSpec == WebSpec /\ WF_webVars(GetURL) /\ WF_webVars(ServerEnds)
-----------------------------------------------------------------------------
\* webget exits with success only when the server has ended the stream and
\* everything it sent is printed ("not just one call to read() --
\* everything"): a reset in mid-answer, or an end between two reads, is never
\* taken for a complete answer.  The exception is a standard output that
\* fails: the answer is then cut short and the exit code is 0 all the same.
SuccessMeansEverything ==
  exit = "success" => server = "ended" /\ (cout = "good" => printed = sent)

\* webget ends, whatever the server does short of never closing.
WebGetEnds == <>(at = "exited")
=============================================================================
