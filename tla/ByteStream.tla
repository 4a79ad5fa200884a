----------------------------- MODULE ByteStream -----------------------------
(***************************************************************************)
(* class ByteStream (libsponge/byte_stream.hh, byte_stream.cc): the        *)
(* in-order, flow-controlled byte stream between one writer and one        *)
(* reader.  Each public operation is one action; the caller picks its      *)
(* arguments.                                                              *)
(*                                                                         *)
(* The member dataStream is a BufferList; here it is the string that list  *)
(* concatenates to.  Module BufferedByteStream keeps the list of Buffers   *)
(* and is shown to implement this module.                                  *)
(***************************************************************************)
EXTENDS Integers, Sequences

CONSTANTS Byte,      \* the byte values
          Capacity,  \* the constructor's argument: cap, never reassigned
          SizeMod,   \* 2^w, the range of size_t
          MaxBytes,  \* bound on the number of bytes ever accepted
          MaxLen     \* bound on the length of one write and of one request

ASSUME CapacityAssumption ==
  /\ Capacity \in Nat
  /\ SizeMod \in Nat /\ Capacity < SizeMod
  /\ MaxBytes \in Nat
  /\ MaxLen \in Nat

VARIABLES
  dataStream,  \* bytes written and not yet popped, oldest first
  writeByte,   \* total number of bytes written
  readByte,    \* total number of bytes popped
  endInput,    \* _end_input
  hasError,    \* _error
  accepted,    \* history: every byte write() has accepted, in order
  removed,     \* history: every byte that has left the front, in order
  dropped,     \* history: how many of them left in a pop that then threw
  ret          \* what the last operation handed back to its caller

vars == <<dataStream, writeByte, readByte, endInput, hasError,
          accepted, removed, dropped, ret>>

MinOf(a, b) == IF a <= b THEN a ELSE b

Strings == UNION {[1..n -> Byte] : n \in 0..MaxLen}

Result(op, str, threw) == [op |-> op, str |-> str, threw |-> threw]

Returned ==
  [op : {"none", "write", "peek", "pop", "read", "end", "error"},
   str : Seq(Byte), threw : BOOLEAN]
-----------------------------------------------------------------------------
(***************************************************************************)
(* Accessors.                                                              *)
(***************************************************************************)
buffer_size == Len(dataStream)

remaining_capacity_of_empty_stream == Capacity

\* cap - buffer_size() on size_t: a difference below zero wraps around.
remaining_capacity ==
  IF buffer_size <= Capacity THEN Capacity - buffer_size
                             ELSE SizeMod + Capacity - buffer_size
-----------------------------------------------------------------------------
Init ==
  /\ dataStream = <<>>
  /\ writeByte = 0
  /\ readByte = 0
  /\ endInput = FALSE
  /\ hasError = FALSE
  /\ accepted = <<>>
  /\ removed = <<>>
  /\ dropped = 0
  /\ ret = Result("none", <<>>, FALSE)

AcceptedTail(data, len) == SubSeq(data, Len(data) - len + 1, Len(data))

\* data.substr(0, len)
AcceptedPart(data, len) == SubSeq(data, 1, len)

\* Accept as much of data as fits.  There is no test of _end_input.
write(data) ==
  LET len == MinOf(remaining_capacity, Len(data)) IN
  /\ Len(accepted) + len <= MaxBytes
  /\ dataStream' = dataStream \o AcceptedPart(data, len)
  /\ writeByte' = writeByte + len
  /\ accepted' = accepted \o SubSeq(data, 1, len)
  /\ ret' = Result("write", SubSeq(data, 1, len), FALSE)
  /\ UNCHANGED <<readByte, endInput, hasError, removed, dropped>>

\* The strings std::string(concatenate().data(), len) may be: len is not
\* compared with the size, so what lies past the end is whatever is there.
Peekable(len) ==
  {s \in [1..len -> Byte] :
     \A i \in 1..MinOf(len, buffer_size) : s[i] = dataStream[i]}

peek_output(len) ==
  /\ \E s \in Peekable(len) : ret' = Result("peek", s, FALSE)
  /\ UNCHANGED <<dataStream, writeByte, readByte, endInput, hasError,
                 accepted, removed, dropped>>

ReadCountFirst(len) == readByte + len

ReadCountDown(len) == readByte - len

\* remove_prefix(len), then readByte += len.  Asked for more than there is,
\* remove_prefix empties the list before it throws out_of_range, and the
\* counter is never reached.
ReadCount(len) == IF len <= buffer_size THEN readByte + len ELSE readByte

pop(len) ==
  /\ dataStream' = SubSeq(dataStream, len + 1, buffer_size)
  /\ readByte' = ReadCount(len)
  /\ removed' = removed \o SubSeq(dataStream, 1, MinOf(len, buffer_size))
  /\ dropped' = IF len <= buffer_size THEN dropped ELSE dropped + buffer_size

pop_output(len) ==
  /\ pop(len)
  /\ ret' = Result("pop", <<>>, len > buffer_size)
  /\ UNCHANGED <<writeByte, endInput, hasError, accepted>>

ReadLengthAsked(len) == len

\* min(buffer_size(), len)
ReadLength(len) == MinOf(buffer_size, len)

\* Peek, then pop, at most what is there.
read(len) ==
  /\ \E s \in Peekable(ReadLength(len)) : ret' = Result("read", s, FALSE)
  /\ pop(ReadLength(len))
  /\ UNCHANGED <<writeByte, endInput, hasError, accepted>>

end_input ==
  /\ endInput' = TRUE
  /\ ret' = Result("end", <<>>, FALSE)
  /\ UNCHANGED <<dataStream, writeByte, readByte, hasError,
                 accepted, removed, dropped>>

set_error ==
  /\ hasError' = TRUE
  /\ ret' = Result("error", <<>>, FALSE)
  /\ UNCHANGED <<dataStream, writeByte, readByte, endInput,
                 accepted, removed, dropped>>

Next ==
  \/ \E data \in Strings : write(data)
  \/ \E len \in 0..MaxLen : peek_output(len)
  \/ \E len \in 0..MaxLen : pop_output(len)
  \/ \E len \in 0..MaxLen : read(len)
  \/ end_input
  \/ set_error

Spec == Init /\ [][Next]_vars
-----------------------------------------------------------------------------
(***************************************************************************)
(* Properties.                                                             *)
(***************************************************************************)

\* The type of the stream's members and of the histories.
TypeOK ==
  /\ dataStream \in Seq(Byte)
  /\ writeByte \in Nat
  /\ readByte \in Nat
  /\ endInput \in BOOLEAN
  /\ hasError \in BOOLEAN
  /\ accepted \in Seq(Byte)
  /\ removed \in Seq(Byte)
  /\ dropped \in Nat
  /\ ret \in Returned

\* write() stays within the room for `capacity` bytes, so cap -
\* buffer_size() never wraps, however writes and pops alternate.
WithinCapacity == buffer_size <= Capacity

\* What has left the stream followed by what it holds is exactly what
\* write() accepted: no byte is lost, duplicated or reordered, whatever mix
\* of pop_output(), read() and failing pops emptied it.
StreamOrder == removed \o dataStream = accepted

\* bytes_written() and bytes_read() account for every byte, except that the
\* bytes a throwing pop_output() discards are in neither the buffer nor the
\* count.
Accounting ==
  /\ writeByte = Len(accepted)
  /\ readByte + dropped = Len(removed)
  /\ writeByte = readByte + dropped + buffer_size

\* What read() returned is the slice of the accepted bytes that ends where
\* the counters say the reader now is: read() never hands out memory past
\* the end of the buffer, never skips and never repeats.
ReadReturnsTheSlice ==
  ret.op = "read" =>
    LET position == readByte + dropped IN
    /\ Len(ret.str) <= position
    /\ ret.str = SubSeq(accepted, position - Len(ret.str) + 1, position)

\* byte_stream.hh, of bytes_read(): "Total number of bytes popped".
BytesReadIsBytesPopped == readByte = Len(removed)
=============================================================================
