-------------------------- MODULE BufferedByteStream --------------------------
(***************************************************************************)
(* class ByteStream as it is coded: dataStream is a BufferList, every      *)
(* write() appends one Buffer to it, pop_output() removes a prefix of it   *)
(* that may end inside a Buffer, and the size is summed over the list each *)
(* time it is asked for.  The other members and the histories are those of *)
(* module ByteStream.                                                      *)
(***************************************************************************)
EXTENDS Buffers

CONSTANTS Byte, Capacity, SizeMod, MaxBytes, MaxLen,
          MaxBuffers  \* bound on the length of the list

ASSUME BufferedAssumption ==
  /\ Capacity \in Nat
  /\ SizeMod \in Nat /\ Capacity < SizeMod
  /\ MaxBytes \in Nat /\ MaxLen \in Nat /\ MaxBuffers \in Nat
  /\ NoStorage \notin Seq(Byte)

VARIABLES dataStream, writeByte, readByte, endInput, hasError,
          accepted, removed, dropped, ret

vars == <<dataStream, writeByte, readByte, endInput, hasError,
          accepted, removed, dropped, ret>>

\* The stream this one is meant to be: its contents are what the list
\* concatenates to.
Flat == INSTANCE ByteStream WITH dataStream <- Concatenate(dataStream)
-----------------------------------------------------------------------------
buffer_size == BufferListSize(dataStream)

remaining_capacity ==
  IF buffer_size <= Capacity THEN Capacity - buffer_size
                             ELSE SizeMod + Capacity - buffer_size

Init ==
  /\ dataStream = <<>>
  /\ writeByte = 0
  /\ readByte = 0
  /\ endInput = FALSE
  /\ hasError = FALSE
  /\ accepted = <<>>
  /\ removed = <<>>
  /\ dropped = 0
  /\ ret = Flat!Result("none", <<>>, FALSE)

ListOfWholeString(data, len) ==
  <<BufferRemovePrefix(BufferOf(data \o SubSeq(data, 1, len)), Len(data))>>

\* BufferList(data.substr(0, len))
ListOf(data, len) == BufferListOf(SubSeq(data, 1, len))

\* Appends a Buffer even when nothing was accepted.
write(data) ==
  LET len == Flat!MinOf(remaining_capacity, Len(data)) IN
  /\ Len(dataStream) < MaxBuffers
  /\ Len(accepted) + len <= MaxBytes
  /\ dataStream' = BufferListAppend(dataStream, ListOf(data, len))
  /\ writeByte' = writeByte + len
  /\ accepted' = accepted \o SubSeq(data, 1, len)
  /\ ret' = Flat!Result("write", SubSeq(data, 1, len), FALSE)
  /\ UNCHANGED <<readByte, endInput, hasError, removed, dropped>>

Peekable(len) ==
  LET str == Concatenate(dataStream) IN
  {s \in [1..len -> Byte] : \A i \in 1..Flat!MinOf(len, Len(str)) : s[i] = str[i]}

peek_output(len) ==
  /\ \E s \in Peekable(len) : ret' = Flat!Result("peek", s, FALSE)
  /\ UNCHANGED <<dataStream, writeByte, readByte, endInput, hasError,
                 accepted, removed, dropped>>

pop(len) ==
  LET result == BufferListRemovePrefix(dataStream, len)
      threw == result.rest > 0 IN
  /\ dataStream' = result.kept
  /\ readByte' = IF threw THEN readByte ELSE readByte + len
  /\ removed' = removed \o SubSeq(Concatenate(dataStream), 1, len - result.rest)
  /\ dropped' = IF threw THEN dropped + len - result.rest ELSE dropped

pop_output(len) ==
  /\ pop(len)
  /\ ret' = Flat!Result("pop", <<>>, BufferListRemovePrefix(dataStream, len).rest > 0)
  /\ UNCHANGED <<writeByte, endInput, hasError, accepted>>

read(len) ==
  LET length == Flat!MinOf(buffer_size, len) IN
  /\ \E s \in Peekable(length) : ret' = Flat!Result("read", s, FALSE)
  /\ pop(length)
  /\ UNCHANGED <<writeByte, endInput, hasError, accepted>>

end_input ==
  /\ UNCHANGED dataStream
  /\ Flat!end_input

set_error ==
  /\ UNCHANGED dataStream
  /\ Flat!set_error

Next ==
  \/ \E data \in Flat!Strings : write(data)
  \/ \E len \in 0..MaxLen : peek_output(len)
  \/ \E len \in 0..MaxLen : pop_output(len)
  \/ \E len \in 0..MaxLen : read(len)
  \/ end_input
  \/ set_error

Spec == Init /\ [][Next]_vars
-----------------------------------------------------------------------------
\* remove_prefix() never leaves a fully consumed Buffer in the list, and only
\* the front Buffer is ever partly consumed: a Buffer's memory is given up
\* with its last byte.
OnlyTheFrontIsPartlyRead ==
  \A i \in DOMAIN dataStream :
    /\ dataStream[i].storage # NoStorage
    /\ dataStream[i].offset > 0 => i = 1 /\ BufferSize(dataStream[i]) > 0

\* "Doesn't free any memory until the whole string has been discarded": the
\* prefix already read of the front Buffer stays allocated, so the stream
\* may hold more than Capacity bytes of storage, but always fewer than twice
\* as many.
RetainedWithinTwiceCapacity ==
  LET retained == RetainedBytes(dataStream) IN
  retained = 0 \/ retained < 2 * Capacity

\* The list of Buffers implements the plain stream: every operation on it
\* is that operation on the bytes it concatenates to.
ImplementsByteStream == Flat!Spec
=============================================================================
