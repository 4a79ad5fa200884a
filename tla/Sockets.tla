------------------------------ MODULE Sockets ------------------------------
(***************************************************************************)
(* class Socket, UDPSocket and TCPSocket (libsponge/util/socket.hh,        *)
(* socket.cc) at work in one server: a UDP socket that answers datagrams   *)
(* and a TCP socket that accepts connections, both served by the callbacks *)
(* of an EventLoop.                                                        *)
(*                                                                         *)
(* The sequence of calls is that of doctests/socket_example_1.cc and       *)
(* socket_example_2.cc: receive, connect to the sender, send (or           *)
(* sendto()); bind, listen, accept, shut down, close.  A callback catches  *)
(* what these calls throw, and then the loop compares the service count of *)
(* the descriptor with the count before the callback: all that matters of  *)
(* the count is whether it has changed.  Which ready rule is next is       *)
(* EventLoop's business, and left open here.  The UDP socket does not      *)
(* block.                                                                  *)
(*                                                                         *)
(* The kernel's queues, the senders of datagrams and the clients are       *)
(* external.  A datagram may arrive at any moment and any number of times: *)
(* this covers loss, duplication and reordering.  A datagram is its sender *)
(* and its size; two of them never have the same bytes.                    *)
(***************************************************************************)
EXTENDS Naturals, FiniteSets, Sequences

CONSTANTS Peer,      \* addresses datagrams come from
          Client,    \* TCP clients, one connection each at a time
          None,      \* no address
          Mtu,       \* the argument of recv()
          Sizes,     \* the sizes of the datagrams
          MaxRcv,    \* room in the receive queue of the UDP socket
          Backlog,   \* the argument of listen()
          FdLimit    \* how many descriptors the process may have open

ASSUME SocketsAssumption ==
  /\ None \notin Peer
  /\ Client \cap {"udp", "tcp"} = {}
  /\ Mtu \in Nat /\ Sizes \subseteq Nat
  /\ MaxRcv \in Nat /\ Backlog \in Nat /\ FdLimit \in Nat

VARIABLES
  pc,       \* where the server's thread stands
  open,     \* kernel: the sockets open in the server
  rcvq,     \* kernel: datagrams that have arrived at the UDP socket
  peer,     \* kernel: the address the UDP socket is connected to
  backlog,  \* kernel: connections waiting to be accepted
  datagram, \* the received_datagram the server passes to recv()
  reply,    \* the last datagram the server has sent
  conns     \* the TCPSockets that accept() has returned and the server holds

vars == <<pc, open, rcvq, peer, backlog, datagram, reply, conns>>

Datagram == [from : Peer, size : Sizes]

NoDatagram == [from |-> None, size |-> 0]

\* received_datagram: payload holds `size` bytes, the first `got` of them from
\* the datagram `of`.
NoStorage == [source_address |-> None, of |-> NoDatagram, got |-> 0, size |-> 0]

NoReply == [to |-> None, of |-> NoDatagram]

Init ==
  /\ pc = "udp"
  /\ open = {}
  /\ rcvq = <<>> /\ peer = None
  /\ backlog = <<>>
  /\ datagram = NoStorage
  /\ reply = NoReply
  /\ conns = {}
-----------------------------------------------------------------------------
(***************************************************************************)
(* Setting up.                                                             *)
(***************************************************************************)
DestroyedStillOpen(sockets, gone) == sockets

\* What is left open of these sockets when some of their objects go out of
\* scope, each the last reference to its descriptor: ~FDWrapper() closes it.
Destroyed(sockets, gone) == sockets \ gone

\* An exception ends the server, and the objects it holds are destroyed.
End ==
  /\ pc' = "ended"
  /\ open' = Destroyed(open, {"udp", "tcp"} \cup conns)
  /\ conns' = {}

\* Socket(domain, type), then on to the next call.
NewSocket(sock, then) ==
  \/ /\ Cardinality(open) < FdLimit
     /\ open' = open \cup {sock}
     /\ pc' = then
     /\ UNCHANGED conns
  \/ End

UDPSocket ==
  /\ pc = "udp"
  /\ NewSocket("udp", "bind udp")
  /\ UNCHANGED <<rcvq, peer, backlog, datagram, reply>>

TCPSocket ==
  /\ pc = "tcp"
  /\ NewSocket("tcp", "reuseaddr")
  /\ UNCHANGED <<rcvq, peer, backlog, datagram, reply>>

\* A call on a socket that only changes what the kernel knows of it, or throws.
Prepare(at, then) ==
  /\ pc = at
  /\ \/ pc' = then /\ UNCHANGED <<open, conns>>
     \/ End
  /\ UNCHANGED <<rcvq, peer, backlog, datagram, reply>>

bind == Prepare("bind udp", "tcp") \/ Prepare("bind tcp", "listen")

set_reuseaddr == Prepare("reuseaddr", "bind tcp")

listen == Prepare("listen", "loop")

Bound == "udp" \in open /\ pc # "bind udp"

Listening == "tcp" \in open /\ pc \notin {"reuseaddr", "bind tcp", "listen"}
-----------------------------------------------------------------------------
(***************************************************************************)
(* The kernel and the network.                                             *)
(***************************************************************************)
\* A connected UDP socket is given its peer's datagrams only; those already
\* in the queue stay there.
Deliver(d) ==
  /\ Bound
  /\ peer \in {None, d.from}
  /\ Len(rcvq) < MaxRcv
  /\ rcvq' = Append(rcvq, d)
  /\ UNCHANGED <<pc, open, peer, backlog, datagram, reply, conns>>

Dial(c) ==
  /\ Listening
  /\ c \notin conns /\ \A i \in DOMAIN backlog : backlog[i] # c
  /\ Len(backlog) < Backlog
  /\ backlog' = Append(backlog, c)
  /\ UNCHANGED <<pc, open, rcvq, peer, datagram, reply, conns>>
-----------------------------------------------------------------------------
(***************************************************************************)
(* The loop.                                                               *)
(***************************************************************************)
\* A callback is over, and the sockets are those given: a service count that
\* has not changed, with the rule still interested, is taken for a busy wait.
CallbackReturns(registered, newOpen, newConns) ==
  \/ /\ registered
     /\ pc' = "loop"
     /\ open' = newOpen /\ conns' = newConns
  \/ ~registered /\ End

\* The rule of the UDP socket: recv(datagram, mtu) into the storage of the
\* time before, or recv(mtu) into a new one.
DatagramReady ==
  /\ pc = "loop" /\ rcvq # <<>>
  /\ pc' = "recv"
  /\ datagram' \in {datagram, NoStorage}
  /\ reply' = NoReply
  /\ UNCHANGED <<open, rcvq, peer, backlog, conns>>

\* The rule of the listening socket.
ConnectionReady ==
  /\ pc = "loop" /\ backlog # <<>>
  /\ pc' = "accept"
  /\ UNCHANGED <<open, rcvq, peer, backlog, datagram, reply, conns>>
-----------------------------------------------------------------------------
(***************************************************************************)
(* UDPSocket.                                                              *)
(***************************************************************************)
OversizedNever(recv_len) == FALSE

\* MSG_TRUNC makes recvfrom(2) return the true size of the datagram.
Oversized(recv_len) == recv_len > Mtu

Least(a, b) == IF a <= b THEN a ELSE b

\* payload.resize(n): shorter, or longer by bytes of no datagram.
Resized(storage, n) ==
  [storage EXCEPT !.size = n, !.got = Least(storage.got, n)]

PreparedAsItWas(storage) == storage

\* Before recvfrom(2) the payload is given room for mtu bytes, whatever the
\* last recv() has left in it.
Prepared(storage) == Resized(storage, Mtu)

\* recvfrom(2) fills the payload as far as it goes and drops the rest.
Filled(storage, d) ==
  [storage EXCEPT !.of = d, !.got = Least(storage.size, d.size)]

SourceKept(storage, d) ==
  IF storage.source_address = None THEN d.from ELSE storage.source_address

\* The address that recvfrom(2) has stored becomes the source of the storage.
Source(storage, d) == d.from

\* recv(): the source is assigned and the payload cut to what has come after
\* every test, and only a call that gets there is counted.  The callback may
\* skip one datagram that was too long, and call recv() once more.
recv ==
  /\ pc \in {"recv", "retry"}
  /\ \/ \* recvfrom(2) fails, with EAGAIN if there is nothing
        /\ datagram' = Prepared(datagram)
        /\ CallbackReturns(FALSE, open, conns)
        /\ UNCHANGED rcvq
     \/ /\ rcvq # <<>> /\ Oversized(Head(rcvq).size)
        /\ datagram' = Filled(Prepared(datagram), Head(rcvq))
        /\ rcvq' = Tail(rcvq)
        /\ \/ CallbackReturns(FALSE, open, conns)
           \/ pc = "recv" /\ pc' = "retry" /\ UNCHANGED <<open, conns>>
     \/ /\ rcvq # <<>> /\ ~Oversized(Head(rcvq).size)
        /\ datagram' =
             [Resized(Filled(Prepared(datagram), Head(rcvq)), Head(rcvq).size)
                EXCEPT !.source_address = Source(datagram, Head(rcvq))]
        /\ pc' = "answer"
        /\ rcvq' = Tail(rcvq)
        /\ UNCHANGED <<open, conns>>
  /\ UNCHANGED <<peer, backlog, reply>>

\* connect(source_address), so that send() goes to the sender: on a UDP socket
\* the new peer takes the place of the old one.
connect ==
  /\ pc = "answer"
  /\ \/ /\ peer' = datagram.source_address
        /\ pc' = "send"
        /\ UNCHANGED <<open, conns>>
     \/ /\ CallbackReturns(TRUE, open, conns)
        /\ UNCHANGED peer
  /\ UNCHANGED <<rcvq, backlog, datagram, reply>>

\* sendmsg_helper(): what sendmsg(2) has taken goes out; if it fails the call
\* throws.  recv() has been counted before, so the loop goes on either way.
sendmsg_helper(to) ==
  /\ reply' \in {NoReply, [to |-> to, of |-> datagram.of]}
  /\ CallbackReturns(TRUE, open, conns)
  /\ UNCHANGED <<rcvq, peer, backlog, datagram>>

sendto == pc = "answer" /\ sendmsg_helper(datagram.source_address)

send == pc = "send" /\ sendmsg_helper(peer)
-----------------------------------------------------------------------------
(***************************************************************************)
(* TCPSocket.                                                              *)
(***************************************************************************)
\* accept(): register_read() comes first, so that the call is counted even if
\* it throws.  Without a descriptor accept(2) fails and the connection stays in
\* the queue.  The constructor of the TCPSocket it returns asks for the
\* socket's domain and type, and throws if it does not get the right answer:
\* then the FileDescriptor that accept(2) filled is destroyed.
accept ==
  /\ pc = "accept"
  /\ LET c == Head(backlog) IN
     \/ /\ Cardinality(open) >= FdLimit
        /\ CallbackReturns(TRUE, open, conns)
        /\ UNCHANGED backlog
     \/ /\ Cardinality(open) < FdLimit
        /\ backlog' = Tail(backlog)
        /\ \/ CallbackReturns(TRUE, open \cup {c}, conns \cup {c})
           \/ CallbackReturns(TRUE, Destroyed(open \cup {c}, {c}), conns)
  /\ UNCHANGED <<rcvq, peer, datagram, reply>>

How == {"SHUT_RD", "SHUT_WR", "SHUT_RDWR"}

\* The rule of an accepted connection: the callback shuts it down and closes
\* it.  shutdown(2) fails when the client is gone, and nothing is counted; a
\* rule on In looks at the count of reads.
shutdown(c, how) ==
  /\ pc = "loop" /\ c \in conns
  /\ \E fails \in BOOLEAN :
       CallbackReturns(~fails /\ how # "SHUT_WR", open \ {c}, conns \ {c})
  /\ UNCHANGED <<rcvq, peer, backlog, datagram, reply>>
-----------------------------------------------------------------------------
Next ==
  \/ UDPSocket \/ TCPSocket \/ bind \/ set_reuseaddr \/ listen
  \/ DatagramReady \/ ConnectionReady
  \/ recv \/ connect \/ sendto \/ send
  \/ accept
  \/ \E c \in Client, how \in How : shutdown(c, how)
  \/ \E d \in Datagram : Deliver(d)
  \/ \E c \in Client : Dial(c)

\* The server's thread runs.  No ready rule is passed over for ever: that is
\* what EventLoop!ReadyRuleIsServed says.  The server closes every connection
\* in the end.  Nothing is assumed of the network and the clients.
Spec ==
  /\ Init /\ [][Next]_vars
  /\ WF_vars(recv \/ connect \/ sendto \/ send \/ accept)
  /\ SF_vars(ConnectionReady)
  /\ \A c \in Client : SF_vars(\E how \in How : shutdown(c, how))
-----------------------------------------------------------------------------
(***************************************************************************)
(* Properties.                                                             *)
(***************************************************************************)

\* The types of the server's and the kernel's state.
TypeOK ==
  /\ pc \in {"udp", "bind udp", "tcp", "reuseaddr", "bind tcp", "listen", "loop",
             "recv", "retry", "answer", "send", "accept", "ended"}
  /\ open \subseteq {"udp", "tcp"} \cup Client
  /\ rcvq \in Seq(Datagram) /\ Len(rcvq) <= MaxRcv
  /\ peer \in Peer \cup {None}
  /\ backlog \in Seq(Client) /\ Len(backlog) <= Backlog
  /\ datagram \in [source_address : Peer \cup {None},
                   of : Datagram \cup {NoDatagram}, got : 0..Mtu, size : 0..Mtu]
  /\ reply \in [to : Peer \cup {None}, of : Datagram \cup {NoDatagram}]
  /\ conns \subseteq Client

\* A datagram that recv() hands back is one that was sent: whole, neither cut
\* at the mtu nor padded to it, and with its own sender's address, also when
\* the caller's storage still holds the datagram before it, or was left half
\* filled by a recv() that threw.
ReceivedAsSent ==
  pc \in {"answer", "send"} =>
    /\ datagram.size = datagram.of.size /\ datagram.got = datagram.of.size
    /\ datagram.source_address = datagram.of.from

\* An answer goes to whoever sent the datagram it answers, although others'
\* datagrams arrived, in any number, before the socket was connected.
AnswersGoToTheSender == reply.to = reply.of.from

\* A connection in the queue is accepted, or given up by a constructor that
\* throws, however busy the server is and although descriptors run out
\* meanwhile, unless the server ends.
WaitingIsAccepted ==
  \A c \in Client :
    (\E i \in DOMAIN backlog : backlog[i] = c)
      ~> (pc = "ended" \/ \A i \in DOMAIN backlog : backlog[i] # c)
=============================================================================
