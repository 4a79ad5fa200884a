--------------------------- MODULE SocketsProofs ---------------------------
(***************************************************************************)
(* Proofs about module Sockets, for any number of peers and clients and    *)
(* any limits on sizes, queues and descriptors, and about module WebGet.   *)
(*                                                                         *)
(* What a callback knows of the datagram it answers is kept over its calls *)
(* (ReceivedAsSent, ConnectedToTheSender), whatever arrives meanwhile.     *)
(***************************************************************************)
EXTENDS Sockets, WebGet, SequenceTheorems, TLAPS

\* send() goes where the last connect() has pointed.
ConnectedToTheSender == pc = "send" => peer = datagram.source_address

\* accept() is called on a queue with a connection in it.
SomeoneWaits == pc = "accept" => backlog # <<>>

IInv ==
  /\ TypeOK
  /\ ReceivedAsSent
  /\ AnswersGoToTheSender
  /\ ConnectedToTheSender
  /\ SomeoneWaits

\* The parts that do not depend on where the server stands.
DataOK ==
  /\ rcvq \in Seq(Datagram) /\ Len(rcvq) <= MaxRcv
  /\ peer \in Peer \cup {None}
  /\ backlog \in Seq(Client) /\ Len(backlog) <= Backlog
  /\ datagram \in [source_address : Peer \cup {None},
                   of : Datagram \cup {NoDatagram}, got : 0..Mtu, size : 0..Mtu]
  /\ reply \in [to : Peer \cup {None}, of : Datagram \cup {NoDatagram}]
  /\ AnswersGoToTheSender
-----------------------------------------------------------------------------
(***************************************************************************)
(* What the steps have in common.                                          *)
(***************************************************************************)

\* A step to a point where nothing is claimed of the datagram: the set-up,
\* the loop, or the end.
LEMMA OtherStep ==
  ASSUME IInv, DataOK',
         pc' \in {"udp", "bind udp", "tcp", "reuseaddr", "bind tcp", "listen", "loop",
                 "recv", "retry", "ended"},
         open' \subseteq {"udp", "tcp"} \cup Client, conns' \subseteq Client
  PROVE  IInv'
<1>1. TypeOK'
  BY DEF TypeOK, DataOK
<1>2. ReceivedAsSent' /\ ConnectedToTheSender' /\ SomeoneWaits'
  BY DEF ReceivedAsSent, ConnectedToTheSender, SomeoneWaits
<1> QED
  BY <1>1, <1>2 DEF IInv, DataOK

\* What the type invariant says of the queues, the datagram and the sockets.
LEMMA Facts ==
  ASSUME IInv
  PROVE  DataOK /\ open \subseteq {"udp", "tcp"} \cup Client /\ conns \subseteq Client
  BY DEF IInv, TypeOK, DataOK

\* The server ends, and its sockets with it.
LEMMA EndStep ==
  ASSUME IInv, DataOK', End
  PROVE  IInv'
<1>1. open' \subseteq {"udp", "tcp"} \cup Client /\ conns' \subseteq Client
  BY Facts DEF End, Destroyed
<1> QED
  BY <1>1, OtherStep DEF End

\* A callback returns, or ends the loop.
LEMMA CallbackReturnsStep ==
  ASSUME IInv, DataOK', NEW registered \in BOOLEAN, NEW newOpen, NEW newConns,
         CallbackReturns(registered, newOpen, newConns),
         newOpen \subseteq {"udp", "tcp"} \cup Client, newConns \subseteq Client
  PROVE  IInv'
<1>1. CASE registered
  BY <1>1, OtherStep DEF CallbackReturns
<1>2. CASE ~registered
  BY <1>2, EndStep DEF CallbackReturns
<1> QED
  BY <1>1, <1>2
-----------------------------------------------------------------------------
(***************************************************************************)
(* The steps.                                                              *)
(***************************************************************************)
LEMMA SetUpIInv ==
  ASSUME IInv, UDPSocket \/ TCPSocket \/ bind \/ set_reuseaddr \/ listen
  PROVE  IInv'
<1>1. UNCHANGED <<rcvq, peer, backlog, datagram, reply>>
  BY DEF UDPSocket, TCPSocket, bind, set_reuseaddr, listen, Prepare
<1>2. DataOK /\ open \subseteq {"udp", "tcp"} \cup Client /\ conns \subseteq Client
  BY Facts
<1>3. DataOK'
  BY <1>1, <1>2 DEF DataOK, AnswersGoToTheSender
<1>4. CASE End
  BY <1>3, <1>4, EndStep
<1>5. CASE ~End
  <2>1. /\ pc' \in {"bind udp", "tcp", "reuseaddr", "bind tcp", "listen", "loop"}
        /\ open' \subseteq open \cup {"udp", "tcp"} /\ conns' = conns
    BY <1>5 DEF UDPSocket, TCPSocket, NewSocket, bind, set_reuseaddr, listen, Prepare
  <2> QED
    BY <1>2, <1>3, <2>1, OtherStep
<1> QED
  BY <1>4, <1>5

\* The loop calls a callback back.
LEMMA ReadyIInv ==
  ASSUME IInv, DatagramReady \/ ConnectionReady
  PROVE  IInv'
<1>1. UNCHANGED <<open, rcvq, peer, backlog, conns>>
  BY DEF DatagramReady, ConnectionReady
<1>2. DataOK /\ open \subseteq {"udp", "tcp"} \cup Client /\ conns \subseteq Client
  BY Facts
<1>3. NoStorage \in [source_address : Peer \cup {None},
                    of : Datagram \cup {NoDatagram}, got : 0..Mtu, size : 0..Mtu]
  BY SocketsAssumption DEF NoStorage
<1>4. /\ NoReply \in [to : Peer \cup {None}, of : Datagram \cup {NoDatagram}]
      /\ NoReply.to = NoReply.of.from
  BY DEF NoReply, NoDatagram
<1>5. DataOK'
  BY <1>2, <1>3, <1>4 DEF DatagramReady, ConnectionReady, DataOK, AnswersGoToTheSender
<1>6. TypeOK'
  BY <1>1, <1>2, <1>5 DEF DatagramReady, ConnectionReady, TypeOK, DataOK
<1>7. ReceivedAsSent' /\ ConnectedToTheSender' /\ SomeoneWaits'
  BY DEF DatagramReady, ConnectionReady, ReceivedAsSent, ConnectedToTheSender, SomeoneWaits
<1> QED
  BY <1>5, <1>6, <1>7 DEF IInv, DataOK

Storage == [source_address : Peer \cup {None}, of : Datagram \cup {NoDatagram},
            got : 0..Mtu, size : 0..Mtu]

\* Room for mtu bytes, whatever the storage held.
LEMMA PreparedStorage ==
  ASSUME NEW storage \in Storage
  PROVE  Prepared(storage) \in Storage /\ Prepared(storage).size = Mtu
<1>1. storage.got \in 0..Mtu /\ Mtu \in Nat
  BY SocketsAssumption DEF Storage
<1> DEFINE g == Least(storage.got, Mtu)
<1>2. g \in 0..Mtu /\ Mtu \in 0..Mtu
  BY <1>1 DEF Least
<1>3. Prepared(storage) = [storage EXCEPT !.size = Mtu, !.got = g]
  BY DEF Prepared, Resized
<1> HIDE DEF g
<1> QED
  BY <1>2, <1>3 DEF Storage

\* Into such a storage comes a datagram, whole or cut at the mtu.
LEMMA FilledStorage ==
  ASSUME NEW storage \in Storage, storage.size = Mtu, NEW d \in Datagram
  PROVE  /\ Filled(storage, d) \in Storage
         /\ Filled(storage, d).of = d
         /\ d.size <= Mtu => Filled(storage, d).got = d.size
<1>1. d.size \in Nat /\ Mtu \in Nat
  BY SocketsAssumption DEF Datagram
<1>2. Least(storage.size, d.size) \in 0..Mtu /\ (d.size <= Mtu => Least(storage.size, d.size) = d.size)
  BY <1>1 DEF Least
<1> QED
  BY <1>2 DEF Filled, Storage

\* recv(): a whole datagram with its source, or an exception.
LEMMA RecvIInv ==
  ASSUME IInv, recv
  PROVE  IInv'
<1>1. UNCHANGED <<peer, backlog, reply>>
  BY DEF recv
<1>2. /\ DataOK /\ open \subseteq {"udp", "tcp"} \cup Client /\ conns \subseteq Client
      /\ datagram \in Storage
  BY Facts DEF DataOK, Storage
<1>3. rcvq # <<>> => /\ Head(rcvq) \in Datagram
                     /\ Tail(rcvq) \in Seq(Datagram) /\ Len(Tail(rcvq)) <= MaxRcv
  BY <1>2, SocketsAssumption, HeadTailProperties, LenProperties DEF DataOK
<1> DEFINE p == Prepared(datagram)
           d == Head(rcvq)
<1>4. p \in Storage /\ p.size = Mtu
  BY <1>2, PreparedStorage
<1>5. rcvq # <<>> => /\ Filled(p, d) \in Storage /\ Filled(p, d).of = d
                     /\ d.size <= Mtu => Filled(p, d).got = d.size
  BY <1>3, <1>4, FilledStorage
<1>6. CASE /\ datagram' = Prepared(datagram)
           /\ CallbackReturns(FALSE, open, conns)
           /\ UNCHANGED rcvq
  <2>1. DataOK'
    BY <1>1, <1>2, <1>4, <1>6 DEF DataOK, AnswersGoToTheSender, Storage
  <2> QED
    BY <1>2, <1>6, <2>1, CallbackReturnsStep
<1>7. CASE /\ rcvq # <<>>
           /\ datagram' = Filled(Prepared(datagram), Head(rcvq))
           /\ rcvq' = Tail(rcvq)
           /\ \/ CallbackReturns(FALSE, open, conns)
              \/ pc = "recv" /\ pc' = "retry" /\ UNCHANGED <<open, conns>>
  <2>1. DataOK'
    BY <1>1, <1>2, <1>3, <1>5, <1>7 DEF DataOK, AnswersGoToTheSender, Storage
  <2>2. CASE CallbackReturns(FALSE, open, conns)
    BY <1>2, <2>1, <2>2, CallbackReturnsStep
  <2>3. CASE pc' = "retry" /\ UNCHANGED <<open, conns>>
    BY <1>2, <2>1, <2>3, OtherStep
  <2> QED
    BY <1>7, <2>2, <2>3
<1>8. CASE /\ rcvq # <<>> /\ ~Oversized(Head(rcvq).size)
           /\ datagram' =
                [Resized(Filled(Prepared(datagram), Head(rcvq)), Head(rcvq).size)
                   EXCEPT !.source_address = Source(datagram, Head(rcvq))]
           /\ pc' = "answer"
           /\ rcvq' = Tail(rcvq)
           /\ UNCHANGED <<open, conns>>
  <2>1. d \in Datagram
    BY <1>3, <1>8
  <2>2. d.from \in Peer /\ d.size \in 0..Mtu /\ d.size \in Nat /\ d.size <= Mtu
    <3>1. d.from \in Peer /\ d.size \in Nat /\ Mtu \in Nat
      BY <2>1, SocketsAssumption DEF Datagram
    <3>2. ~(d.size > Mtu)
      BY <1>8 DEF Oversized
    <3> QED
      BY <3>1, <3>2
  <2> DEFINE f == Filled(p, d)
  <2>3. f \in Storage /\ f.of = d /\ f.got = d.size
    BY <1>5, <1>8, <2>2
  <2>4. datagram' = [Resized(f, d.size) EXCEPT !.source_address = d.from]
    BY <1>8 DEF Source
  <2> HIDE DEF f, d, p
  <2>5. Least(f.got, d.size) = d.size
    BY <2>2, <2>3 DEF Least
  <2>6. /\ datagram' \in Storage /\ datagram'.source_address = d.from
        /\ datagram'.of = d /\ datagram'.got = d.size /\ datagram'.size = d.size
    BY <2>1, <2>2, <2>3, <2>4, <2>5 DEF Resized, Storage
  <2>7. DataOK'
    BY <1>1, <1>2, <1>3, <1>8, <2>6 DEF DataOK, AnswersGoToTheSender, Storage
  <2>8. ReceivedAsSent' /\ ConnectedToTheSender' /\ SomeoneWaits'
    BY <1>8, <2>6 DEF ReceivedAsSent, ConnectedToTheSender, SomeoneWaits
  <2>9. TypeOK'
    BY <1>2, <1>8, <2>7 DEF TypeOK, DataOK
  <2> QED
    BY <2>7, <2>8, <2>9 DEF IInv, DataOK
<1> QED
  BY <1>6, <1>7, <1>8 DEF recv

\* connect() to the source of the datagram, or an exception.
LEMMA ConnectIInv ==
  ASSUME IInv, connect
  PROVE  IInv'
<1>1. pc = "answer" /\ UNCHANGED <<rcvq, backlog, datagram, reply>>
  BY DEF connect
<1>2. DataOK /\ open \subseteq {"udp", "tcp"} \cup Client /\ conns \subseteq Client
  BY Facts
<1>3. CASE /\ peer' = datagram.source_address
           /\ pc' = "send"
           /\ UNCHANGED <<open, conns>>
  <2>1. DataOK'
    BY <1>1, <1>2, <1>3 DEF DataOK, AnswersGoToTheSender
  <2>2. TypeOK'
    BY <1>2, <1>3, <2>1 DEF TypeOK, DataOK
  <2>3. ReceivedAsSent' /\ ConnectedToTheSender' /\ SomeoneWaits'
    BY <1>1, <1>3 DEF IInv, ReceivedAsSent, ConnectedToTheSender, SomeoneWaits
  <2> QED
    BY <2>1, <2>2, <2>3 DEF IInv, DataOK
<1>4. CASE CallbackReturns(TRUE, open, conns) /\ UNCHANGED peer
  <2>1. DataOK'
    BY <1>1, <1>2, <1>4 DEF DataOK, AnswersGoToTheSender
  <2> QED
    BY <1>2, <1>4, <2>1, CallbackReturnsStep
<1> QED
  BY <1>3, <1>4 DEF connect

\* Both ways of sending name the sender of the datagram that is answered.
LEMMA SendIInv ==
  ASSUME IInv, sendto \/ send
  PROVE  IInv'
<1>1. PICK to : sendmsg_helper(to) /\ to = datagram.source_address
  BY DEF sendto, send, IInv, ConnectedToTheSender
<1>2. pc \in {"answer", "send"}
  BY DEF sendto, send
<1>3. DataOK /\ open \subseteq {"udp", "tcp"} \cup Client /\ conns \subseteq Client
  BY Facts
<1>4. to = datagram.of.from
  BY <1>1, <1>2 DEF IInv, ReceivedAsSent
<1>5. /\ NoReply \in [to : Peer \cup {None}, of : Datagram \cup {NoDatagram}]
      /\ NoReply.to = NoReply.of.from
  BY DEF NoReply, NoDatagram
<1>6. /\ reply' \in [to : Peer \cup {None}, of : Datagram \cup {NoDatagram}]
      /\ reply'.to = reply'.of.from
  <2> DEFINE r == [to |-> to, of |-> datagram.of]
  <2>1. reply' \in {NoReply, r}
    BY <1>1 DEF sendmsg_helper
  <2>2. to \in Peer \cup {None} /\ datagram.of \in Datagram \cup {NoDatagram}
    BY <1>1, <1>3 DEF DataOK
  <2>3. r \in [to : Peer \cup {None}, of : Datagram \cup {NoDatagram}] /\ r.to = r.of.from
    BY <1>4, <2>2
  <2> QED
    BY <1>5, <2>1, <2>3
<1>7. DataOK'
  BY <1>1, <1>3, <1>6 DEF sendmsg_helper, DataOK, AnswersGoToTheSender
<1> QED
  BY <1>1, <1>3, <1>7, CallbackReturnsStep DEF sendmsg_helper

\* accept(): a connection that is held at once, or an exception.
LEMMA AcceptIInv ==
  ASSUME IInv, accept
  PROVE  IInv'
<1>1. backlog # <<>> /\ UNCHANGED <<rcvq, peer, datagram, reply>>
  BY DEF accept, IInv, SomeoneWaits
<1>2. DataOK /\ open \subseteq {"udp", "tcp"} \cup Client /\ conns \subseteq Client
  BY Facts
<1> DEFINE c == Head(backlog)
<1>3. c \in Client /\ Tail(backlog) \in Seq(Client) /\ Len(Tail(backlog)) <= Backlog
  BY <1>1, <1>2, SocketsAssumption, HeadTailProperties, LenProperties DEF DataOK
<1>4. CASE CallbackReturns(TRUE, open, conns) /\ UNCHANGED backlog
  <2>1. DataOK'
    BY <1>1, <1>2, <1>4 DEF DataOK, AnswersGoToTheSender
  <2> QED
    BY <1>2, <1>4, <2>1, CallbackReturnsStep
<1>5. CASE /\ backlog' = Tail(backlog)
           /\ \/ CallbackReturns(TRUE, open \cup {c}, conns \cup {c})
              \/ CallbackReturns(TRUE, Destroyed(open \cup {c}, {c}), conns)
  <2>1. DataOK'
    BY <1>1, <1>2, <1>3, <1>5 DEF DataOK, AnswersGoToTheSender
  <2>2. /\ open \cup {c} \subseteq {"udp", "tcp"} \cup Client
        /\ Destroyed(open \cup {c}, {c}) \subseteq {"udp", "tcp"} \cup Client
        /\ conns \cup {c} \subseteq Client
    BY <1>2, <1>3 DEF Destroyed
  <2> HIDE DEF c
  <2>3. CASE CallbackReturns(TRUE, open \cup {c}, conns \cup {c})
    BY <2>1, <2>2, <2>3, CallbackReturnsStep
  <2>4. CASE CallbackReturns(TRUE, Destroyed(open \cup {c}, {c}), conns)
    BY <1>2, <2>1, <2>2, <2>4, CallbackReturnsStep
  <2> QED
    BY <1>5, <2>3, <2>4
<1> QED
  BY <1>4, <1>5 DEF accept

\* shutdown() and close(): the connection is gone, whatever the outcome.
LEMMA ShutdownIInv ==
  ASSUME IInv, NEW c \in Client, NEW how \in How, shutdown(c, how)
  PROVE  IInv'
<1>1. UNCHANGED <<rcvq, peer, backlog, datagram, reply>>
  BY DEF shutdown
<1>2. DataOK /\ open \subseteq {"udp", "tcp"} \cup Client /\ conns \subseteq Client
  BY Facts
<1>3. PICK fails \in BOOLEAN :
        CallbackReturns(~fails /\ how # "SHUT_WR", open \ {c}, conns \ {c})
  BY DEF shutdown
<1>4. DataOK'
  BY <1>1, <1>2 DEF DataOK, AnswersGoToTheSender
<1>5. open \ {c} \subseteq {"udp", "tcp"} \cup Client /\ conns \ {c} \subseteq Client
  BY <1>2
<1> DEFINE registered == ~fails /\ how # "SHUT_WR"
<1>6. registered \in BOOLEAN
  OBVIOUS
<1> HIDE DEF registered
<1>7. CallbackReturns(registered, open \ {c}, conns \ {c})
  BY <1>3 DEF registered
<1> QED
  BY <1>4, <1>5, <1>6, <1>7, CallbackReturnsStep

\* The network and the clients.
LEMMA NetworkIInv ==
  ASSUME IInv, (\E d \in Datagram : Deliver(d)) \/ (\E c \in Client : Dial(c))
  PROVE  IInv'
<1>1. UNCHANGED <<pc, open, peer, datagram, reply, conns>>
  BY DEF Deliver, Dial
<1>2. rcvq' \in Seq(Datagram) /\ Len(rcvq') <= MaxRcv
  <2>1. CASE \E d \in Datagram : Deliver(d)
    <3>1. PICK d \in Datagram : rcvq' = Append(rcvq, d) /\ Len(rcvq) < MaxRcv
      BY <2>1 DEF Deliver
    <3>2. rcvq \in Seq(Datagram) /\ Len(rcvq) \in Nat
      BY LenProperties DEF IInv, TypeOK
    <3>3. rcvq' \in Seq(Datagram) /\ Len(rcvq') = Len(rcvq) + 1
      BY <3>1, <3>2, AppendProperties
    <3> QED
      BY <3>1, <3>2, <3>3, SocketsAssumption
  <2>2. CASE \E c \in Client : Dial(c)
    BY <2>2 DEF Dial, IInv, TypeOK
  <2> QED
    BY <2>1, <2>2
<1>3. backlog' \in Seq(Client) /\ Len(backlog') <= Backlog /\ (backlog # <<>> => backlog' # <<>>)
  <2>1. CASE \E d \in Datagram : Deliver(d)
    BY <2>1 DEF Deliver, IInv, TypeOK
  <2>2. CASE \E c \in Client : Dial(c)
    <3>1. PICK c \in Client : backlog' = Append(backlog, c) /\ Len(backlog) < Backlog
      BY <2>2 DEF Dial
    <3>2. backlog \in Seq(Client) /\ Len(backlog) \in Nat
      BY LenProperties DEF IInv, TypeOK
    <3>3. backlog' \in Seq(Client) /\ Len(backlog') = Len(backlog) + 1 /\ backlog' # <<>>
      BY <3>1, <3>2, AppendProperties
    <3> QED
      BY <3>1, <3>2, <3>3, SocketsAssumption
  <2> QED
    BY <2>1, <2>2
<1>4. TypeOK'
  <2>1. pc' \in {"udp", "bind udp", "tcp", "reuseaddr", "bind tcp", "listen", "loop",
                "recv", "retry", "answer", "send", "accept", "ended"}
    BY <1>1 DEF IInv, TypeOK
  <2>2. open' \subseteq {"udp", "tcp"} \cup Client /\ conns' \subseteq Client
    BY <1>1 DEF IInv, TypeOK
  <2>3. DataOK'
    BY <1>1, <1>2, <1>3 DEF IInv, TypeOK, DataOK, AnswersGoToTheSender, Datagram, NoDatagram
  <2> QED
    BY <2>1, <2>2, <2>3 DEF TypeOK, DataOK
<1>5. ReceivedAsSent' /\ AnswersGoToTheSender'
  BY <1>1 DEF IInv, ReceivedAsSent, AnswersGoToTheSender
<1>6. ConnectedToTheSender' /\ SomeoneWaits'
  BY <1>1, <1>3 DEF IInv, ConnectedToTheSender, SomeoneWaits
<1> QED
  BY <1>4, <1>5, <1>6 DEF IInv
-----------------------------------------------------------------------------
(***************************************************************************)
(* The invariant, and what follows from it.                                *)
(***************************************************************************)
LEMMA InitIInv == Init => IInv
<1> SUFFICES ASSUME Init PROVE IInv
  OBVIOUS
<1> USE DEF Init
<1>1. /\ NoStorage \in [source_address : Peer \cup {None},
                        of : Datagram \cup {NoDatagram}, got : 0..Mtu, size : 0..Mtu]
      /\ NoReply \in [to : Peer \cup {None}, of : Datagram \cup {NoDatagram}]
      /\ NoReply.to = NoReply.of.from
  BY SocketsAssumption DEF NoStorage, NoReply, NoDatagram
<1>2. TypeOK
  BY <1>1, SocketsAssumption, EmptySeq DEF TypeOK
<1>3. ReceivedAsSent /\ AnswersGoToTheSender
  BY <1>1 DEF ReceivedAsSent, AnswersGoToTheSender
<1>4. ConnectedToTheSender /\ SomeoneWaits
  BY DEF ConnectedToTheSender, SomeoneWaits
<1> QED
  BY <1>2, <1>3, <1>4 DEF IInv

\* Every call of the server and every arrival keeps IInv.
LEMMA NextIInv == IInv /\ [Next]_vars => IInv'
<1> SUFFICES ASSUME IInv, [Next]_vars PROVE IInv'
  OBVIOUS
<1>1. CASE UDPSocket \/ TCPSocket \/ bind \/ set_reuseaddr \/ listen
  BY <1>1, SetUpIInv
<1>2. CASE DatagramReady \/ ConnectionReady
  BY <1>2, ReadyIInv
<1>3. CASE recv
  BY <1>3, RecvIInv
<1>4. CASE connect
  BY <1>4, ConnectIInv
<1>5. CASE sendto \/ send
  BY <1>5, SendIInv
<1>6. CASE accept
  BY <1>6, AcceptIInv
<1>7. CASE \E c \in Client, how \in How : shutdown(c, how)
  BY <1>7, ShutdownIInv
<1>8. CASE (\E d \in Datagram : Deliver(d)) \/ (\E c \in Client : Dial(c))
  BY <1>8, NetworkIInv
<1>9. CASE UNCHANGED vars
  <2>1. TypeOK'
    <3>1. pc' \in {"udp", "bind udp", "tcp", "reuseaddr", "bind tcp", "listen", "loop",
                  "recv", "retry", "answer", "send", "accept", "ended"}
      BY <1>9 DEF vars, IInv, TypeOK
    <3>2. open' \subseteq {"udp", "tcp"} \cup Client /\ conns' \subseteq Client
      BY <1>9 DEF vars, IInv, TypeOK
    <3>3. DataOK'
      BY <1>9 DEF vars, IInv, TypeOK, DataOK, AnswersGoToTheSender, Datagram, NoDatagram
    <3> QED
      BY <3>1, <3>2, <3>3 DEF TypeOK, DataOK
  <2>2. ReceivedAsSent' /\ AnswersGoToTheSender'
    BY <1>9 DEF vars, IInv, ReceivedAsSent, AnswersGoToTheSender
  <2>3. ConnectedToTheSender' /\ SomeoneWaits'
    BY <1>9 DEF vars, IInv, ConnectedToTheSender, SomeoneWaits
  <2> QED
    BY <2>1, <2>2, <2>3 DEF IInv
<1> QED
  BY <1>1, <1>2, <1>3, <1>4, <1>5, <1>6, <1>7, <1>8, <1>9 DEF Next

\* Fairness plays no part in what never happens.
LEMMA Invariance == Spec => []IInv
<1>1. Spec => Init /\ [][Next]_vars
  BY PTL DEF Spec
<1> QED
  BY <1>1, InitIInv, NextIInv, PTL

\* The types of the server's and the kernel's state.
THEOREM TypeCorrect == Spec => []TypeOK
<1>1. IInv => TypeOK
  BY DEF IInv
<1> QED
  BY <1>1, Invariance, PTL

\* recv() hands back whole datagrams, under their own senders' names.
THEOREM DatagramsArriveWhole == Spec => []ReceivedAsSent
<1>1. IInv => ReceivedAsSent
  BY DEF IInv
<1> QED
  BY <1>1, Invariance, PTL

\* An answer goes to the sender of the datagram it answers.
THEOREM AnswersArrive == Spec => []AnswersGoToTheSender
<1>1. IInv => AnswersGoToTheSender
  BY DEF IInv
<1> QED
  BY <1>1, Invariance, PTL
-----------------------------------------------------------------------------
(***************************************************************************)
(* webget, the client of a TCPSocket: module WebGet, for answers of any    *)
(* length and read()s of any size.                                         *)
(*                                                                         *)
(* That success means a complete answer depends on what was true long      *)
(* before the exit: no chunk is lost on the way (NothingLost), and the eof *)
(* flag is set only by a read() that found the queue empty behind the end  *)
(* of the stream (EofIsTheEnd).                                            *)
(***************************************************************************)

WebGetType ==
  /\ eof \in BOOLEAN
  /\ printed \in Nat /\ sent \in Nat /\ inbox \in Nat

\* As long as the connection was not reset and standard output works, what
\* the server sent is on standard output or waits to be read.
NothingLost == cout = "good" /\ server # "reset" => sent = printed + inbox

EofIsTheEnd == eof => server = "ended" /\ inbox = 0

\* Success is reported after the loop only.
ExitIsFinal == exit = "success" => eof

Connecting == {"main", "socket", "resolve", "connect"}

\* There is no connection before connect(2).
NotConnectedYet == at \in Connecting => server = "away"

WebInv == WebGetType /\ NothingLost /\ EofIsTheEnd /\ ExitIsFinal /\ NotConnectedYet
-----------------------------------------------------------------------------
\* Before the socket is made nothing is printed or owed.
LEMMA InitWebInv == WebInit => WebInv
<1>1. WebInit => eof \in BOOLEAN
  BY DEF WebInit
<1>2. WebInit => printed \in Nat /\ sent \in Nat /\ inbox \in Nat /\ sent = printed + inbox
  BY DEF WebInit
<1>3. WebInit => EofIsTheEnd /\ ExitIsFinal /\ NotConnectedYet
  BY DEF WebInit, EofIsTheEnd, ExitIsFinal, NotConnectedYet
<1> QED
  BY <1>1, <1>2, <1>3 DEF WebInv, WebGetType, NothingLost

\* A step of the client that takes nothing from the network.
LEMMA ControlStep ==
  ASSUME WebInv, UNCHANGED <<eof, printed, cout, sent, inbox>>,
         exit' = "success" => eof,
         server' = server \/ (~eof /\ server # "reset" /\ server' # "reset"),
         at' \in Connecting => server' = "away"
  PROVE  WebInv'
  BY DEF WebInv, WebGetType, NothingLost, EofIsTheEnd, ExitIsFinal, NotConnectedYet

\* The client fails or is killed: nothing but the process ends.
LEMMA FailStep ==
  ASSUME WebInv, Fail \/ Killed, UNCHANGED network
  PROVE  WebInv'
<1>1. /\ UNCHANGED <<eof, printed, cout, sent, inbox, server>>
      /\ exit' # "success" /\ at' \notin Connecting
  BY DEF Fail, Killed, network, Connecting
<1> QED
  BY <1>1, ControlStep

\* read(): what leaves the inbox is printed, or the call throws.
LEMMA ReadStep ==
  ASSUME WebInv, Read
  PROVE  WebInv'
<1>1. CASE server = "reset" /\ Fail /\ UNCHANGED inbox
  BY <1>1, FailStep DEF Read, network
<1>2. CASE \E n \in Obtainable :
             /\ inbox' = inbox - n
             /\ eof' = EofAfter(n)
             /\ cout' \in {cout, "bad"}
             /\ printed' = IF cout' = "good" THEN Printed(n) ELSE printed
             /\ UNCHANGED <<at, exit>>
  <2>1. PICK n \in Obtainable :
             /\ inbox' = inbox - n
             /\ eof' = EofAfter(n)
             /\ cout' \in {cout, "bad"}
             /\ printed' = IF cout' = "good" THEN Printed(n) ELSE printed
             /\ UNCHANGED <<at, exit>>
    BY <1>2
  <2>2. /\ n \in Nat /\ n <= inbox
        /\ n = 0 => inbox = 0 /\ server = "ended"
    BY WebGetAssumption DEF Obtainable, EndOfStream, WebInv, WebGetType
  <2>3. ~eof /\ UNCHANGED <<server, sent>>
    BY DEF Read
  <2>4. inbox' \in Nat /\ printed' \in Nat /\ eof' = (n = 0)
    BY <2>1, <2>2, <2>3 DEF WebInv, WebGetType, Printed, EofAfter
  <2>5. WebGetType'
    BY <2>1, <2>3, <2>4 DEF WebInv, WebGetType
  <2>6. NothingLost'
    BY <2>1, <2>2, <2>3 DEF WebInv, WebGetType, NothingLost, Printed
  <2>7. EofIsTheEnd' /\ ExitIsFinal' /\ NotConnectedYet'
    BY <2>1, <2>2, <2>3, <2>4
      DEF WebInv, WebGetType, EofIsTheEnd, ExitIsFinal, NotConnectedYet
  <2> QED
    BY <2>5, <2>6, <2>7 DEF WebInv
<1> QED
  BY <1>1, <1>2 DEF Read

\* Every statement of get_URL() and every step of the server keeps WebInv.
LEMMA NextWebInv ==
  ASSUME WebInv, [WebNext]_webVars
  PROVE  WebInv'
<1>1. CASE Main
  <2>1. CASE Fail \/ Killed
    BY <1>1, <2>1, FailStep DEF Main
  <2>2. CASE Proceed("socket")
    BY <1>1, <2>2, ControlStep
      DEF Main, Proceed, network, Connecting, WebInv, WebGetType, ExitIsFinal,
          NotConnectedYet
  <2> QED
    BY <1>1, <2>1, <2>2 DEF Main
<1>2. CASE OpenSocket
  <2>1. CASE Fail
    BY <1>2, <2>1, FailStep DEF OpenSocket
  <2>2. CASE Proceed("resolve")
    BY <1>2, <2>2, ControlStep
      DEF OpenSocket, Proceed, network, Connecting, WebInv, ExitIsFinal, NotConnectedYet
  <2> QED
    BY <1>2, <2>1, <2>2 DEF OpenSocket
<1>3. CASE Resolve
  <2>1. CASE Fail
    BY <1>3, <2>1, FailStep DEF Resolve
  <2>2. CASE Proceed("connect")
    BY <1>3, <2>2, ControlStep
      DEF Resolve, Proceed, network, Connecting, WebInv, WebGetType, ExitIsFinal,
          NotConnectedYet
  <2> QED
    BY <1>3, <2>1, <2>2 DEF Resolve
<1>4. CASE Connect
  <2>1. CASE Fail /\ UNCHANGED server
    BY <1>4, <2>1, FailStep DEF Connect, network
  <2>2. CASE Proceed("write") /\ server' = "waits"
    <3>1. server = "away" /\ ~eof
      BY <1>4 DEF Connect, Connecting, WebInv, NotConnectedYet, EofIsTheEnd
    <3> QED
      BY <1>4, <2>2, <3>1, ControlStep
        DEF Connect, Proceed, Connecting, WebInv, WebGetType, ExitIsFinal
  <2> QED
    BY <1>4, <2>1, <2>2 DEF Connect
<1>5. CASE Write
  <2>1. CASE (Fail \/ Killed) /\ UNCHANGED server
    BY <1>5, <2>1, FailStep DEF Write, network
  <2>2. CASE /\ server \in {"waits", "ended"} /\ Proceed("loop")
             /\ server' = IF server = "waits" THEN "answers" ELSE server
    <3>1. server' = server \/ (~eof /\ server # "reset" /\ server' # "reset")
      BY <2>2 DEF WebInv, EofIsTheEnd
    <3> QED
      BY <1>5, <2>2, <3>1, ControlStep
        DEF Write, Proceed, Connecting, WebInv, WebGetType, ExitIsFinal
  <2> QED
    BY <1>5, <2>1, <2>2 DEF Write
<1>6. CASE Read
  BY <1>6, ReadStep
<1>7. CASE Close
  <2>1. CASE Fail
    BY <1>7, <2>1, FailStep DEF Close
  <2>2. CASE at' = "exited" /\ exit' = "success" /\ UNCHANGED <<eof, printed, cout>>
    BY <1>7, <2>2, ControlStep DEF Close, network, Connecting
  <2> QED
    BY <1>7, <2>1, <2>2 DEF Close
<1>8. CASE ServerSends
  BY <1>8 DEF ServerSends, process, WebInv, WebGetType, NothingLost, EofIsTheEnd,
     ExitIsFinal, NotConnectedYet
<1>9. CASE ServerEnds
  BY <1>9 DEF ServerEnds, process, WebInv, WebGetType, NothingLost, EofIsTheEnd,
     ExitIsFinal, NotConnectedYet
<1>10. CASE Reset
  BY <1>10 DEF Reset, process, WebInv, WebGetType, NothingLost, EofIsTheEnd,
     ExitIsFinal, NotConnectedYet
<1>11. CASE UNCHANGED webVars
  BY <1>11 DEF webVars, WebInv, WebGetType, NothingLost, EofIsTheEnd, ExitIsFinal,
     NotConnectedYet
<1> QED
  BY <1>1, <1>2, <1>3, <1>4, <1>5, <1>6, <1>7, <1>8, <1>9, <1>10, <1>11
    DEF WebNext, GetURL

\* WebInv holds throughout.
LEMMA WebInvariance == WebSpec => []WebInv
<1>1. WebInv /\ [WebNext]_webVars => WebInv'
  BY NextWebInv
<1> QED
  BY <1>1, InitWebInv, PTL DEF WebSpec

\* webget reports success only for an answer it has read to the end and, if
\* standard output works, printed in full.
THEOREM SuccessIsComplete == WebSpec => []SuccessMeansEverything
<1>1. WebInv => SuccessMeansEverything
  BY DEF WebInv, WebGetType, NothingLost, EofIsTheEnd, ExitIsFinal, SuccessMeansEverything
<1> QED
  BY <1>1, WebInvariance, PTL
=============================================================================
