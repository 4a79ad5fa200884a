------------------------------ MODULE FdWrite ------------------------------
(***************************************************************************)
(* FileDescriptor::write(BufferViewList, write_all)                        *)
(* (libsponge/util/file_descriptor.cc): one call, its loop of writev(2),   *)
(* and the peer that reads, or goes away, between two turns of the loop.   *)
(*                                                                         *)
(* writev(2) is the kernel's: it takes as many of the bytes as there is    *)
(* room for at the most, perhaps none; without room it waits on a blocking *)
(* descriptor and fails with EAGAIN on another; it fails with EPIPE once   *)
(* the peer is gone (the process ignores SIGPIPE), with EINTR on a signal  *)
(* while it waits, and with EINVAL on more than IovMax pieces.             *)
(***************************************************************************)
EXTENDS Buffers, FiniteSets

CONSTANTS Byte,
          Room,       \* capacity of the kernel's send buffer
          IovMax,     \* IOV_MAX
          MaxViews,   \* bound on the pieces of one call
          MaxLen      \* bound on the length of one piece

ASSUME FdWriteAssumption ==
  /\ Room \in Nat \ {0} /\ IovMax \in Nat \ {0}
  /\ MaxViews \in Nat /\ MaxLen \in Nat

VARIABLES
  buffer,               \* what is still to be written: a list of strings
  write_all,            \* the argument
  total_bytes_written,
  registered,           \* has the call invoked register_write()?
  pc,                   \* "loop", "returned" or "threw"
  blocking,             \* kernel: no O_NONBLOCK
  queued,               \* kernel: how many bytes the peer has still to read
  peer,                 \* kernel: "open" or "gone"
  input,                \* history: all that the caller passed
  sent                  \* history: all that writev(2) took

vars == <<buffer, write_all, total_bytes_written, registered, pc,
          blocking, queued, peer, input, sent>>

Pieces == UNION {[1..n -> Byte] : n \in 0..MaxLen}
Inputs == UNION {[1..n -> Pieces] : n \in 0..MaxViews}

Init ==
  /\ buffer \in Inputs
  /\ write_all \in BOOLEAN
  /\ total_bytes_written = 0
  /\ registered = FALSE
  /\ pc = "loop"
  /\ blocking \in BOOLEAN
  /\ queued \in 0..Room
  /\ peer = "open"
  /\ input = FlattenSeq(buffer)
  /\ sent = <<>>
-----------------------------------------------------------------------------
\* When writev(2) fails at once.
Refused ==
  \/ Len(buffer) > IovMax
  \/ /\ ViewListSize(buffer) > 0
     /\ peer = "gone" \/ (queued = Room /\ ~blocking)

\* SystemCall() throws: the count so far is lost with the call.
WritevFails ==
  /\ pc = "loop"
  /\ Refused
  /\ pc' = "threw"
  /\ UNCHANGED <<buffer, write_all, total_bytes_written, registered,
                 blocking, queued, peer, input, sent>>

\* A signal ends a writev(2) that waits for room.
WritevInterrupted ==
  /\ pc = "loop"
  /\ ~Refused
  /\ ViewListSize(buffer) > 0 /\ queued = Room
  /\ pc' = "threw"
  /\ UNCHANGED <<buffer, write_all, total_bytes_written, registered,
                 blocking, queued, peer, input, sent>>

\* The numbers a writev(2) that succeeds may return.
BytesWritten ==
  LET size == ViewListSize(buffer) IN
  IF Len(buffer) > IovMax THEN {}
  ELSE IF size = 0 THEN {0}
  ELSE IF peer = "gone" \/ queued = Room THEN {}
  ELSE {n \in 0..size : n <= Room - queued}

\* "write returned 0 given non-empty input buffer"
NothingTaken(bytes_written) == bytes_written = 0 /\ ViewListSize(buffer) # 0

WritevReturnsNothing ==
  /\ pc = "loop"
  /\ \E bytes_written \in BytesWritten : NothingTaken(bytes_written)
  /\ pc' = "threw"
  /\ UNCHANGED <<buffer, write_all, total_bytes_written, registered,
                 blocking, queued, peer, input, sent>>

AgainNever(rest) == FALSE

AgainWithoutSize(rest) == write_all

\* while (write_all and buffer.size())
Again(rest) == write_all /\ ViewListSize(rest) > 0

\* One turn of the loop.
Writev ==
  /\ pc = "loop"
  /\ \E bytes_written \in BytesWritten :
       LET rest == ViewListRemovePrefix(buffer, bytes_written).kept IN
       /\ ~NothingTaken(bytes_written)
       /\ sent' = sent \o SubSeq(FlattenSeq(buffer), 1, bytes_written)
       /\ queued' = queued + bytes_written
       /\ registered' = TRUE
       /\ buffer' = rest
       /\ total_bytes_written' = total_bytes_written + bytes_written
       /\ pc' = IF Again(rest) THEN "loop" ELSE "returned"
  /\ UNCHANGED <<write_all, blocking, peer, input>>

PeerReads ==
  /\ peer = "open" /\ queued > 0
  /\ queued' = queued - 1
  /\ UNCHANGED <<buffer, write_all, total_bytes_written, registered, pc,
                 blocking, peer, input, sent>>

PeerGoes ==
  /\ peer = "open"
  /\ peer' = "gone"
  /\ UNCHANGED <<buffer, write_all, total_bytes_written, registered, pc,
                 blocking, queued, input, sent>>

Next ==
  \/ Writev \/ WritevFails \/ WritevInterrupted \/ WritevReturnsNothing
  \/ PeerReads \/ PeerGoes

Spec == Init /\ [][Next]_vars

\* The thread in write() runs on whenever writev(2) can return, and a peer
\* that stays keeps reading.  Nothing is assumed of signals.
FairSpec == Spec /\ WF_vars(Writev \/ WritevFails) /\ WF_vars(PeerReads)
-----------------------------------------------------------------------------
\* However writev(2) cuts the data, also in the middle of a piece or across
\* pieces and with empty pieces between them, what it took and what is still
\* in buffer are together the caller's bytes, in order.  This holds when the
\* call throws, too: the peer then has a prefix of the data.
NothingLostNothingTwice == sent \o FlattenSeq(buffer) = input

\* A call that returns tells the truth: its result is the number of bytes
\* the kernel took, all of them if write_all, and some if there were any.
\* It has been counted, so the event loop sees the descriptor served.
ResultTellsTruth ==
  pc = "returned" =>
    /\ total_bytes_written = Len(sent)
    /\ write_all => sent = input
    /\ input # <<>> => sent # <<>>
    /\ registered

\* The call ends: it does not spin on empty pieces, and waits only for a
\* peer that reads.
WriteEnds == <>(pc # "loop")
=============================================================================
