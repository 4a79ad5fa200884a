---------------------- MODULE BufferedByteStreamProofs ----------------------
(***************************************************************************)
(* Proofs about module BufferedByteStream, for every set of bytes, every   *)
(* capacity and every bound: what the list of Buffers looks like, how much *)
(* memory it keeps alive, and that it implements the plain stream of       *)
(* module ByteStream.                                                      *)
(*                                                                         *)
(* IInv is the inductive invariant.  The bound on the memory needs the     *)
(* shape of the list, and both need what no run states: that every Buffer  *)
(* of the list is live and was accepted whole, hence at most Capacity long.*)
(***************************************************************************)
EXTENDS BufferedByteStream, BuffersProofs

Buffer == Live(Byte, Capacity)

IInv ==
  /\ dataStream \in Seq(Buffer)
  /\ FrontOnly(dataStream)
  /\ buffer_size <= Capacity
  /\ dropped \in Nat
-----------------------------------------------------------------------------
(***************************************************************************)
(* What an operation reads of the list, and what it makes of it.           *)
(***************************************************************************)

\* The list as the plain stream sees it.
LEMMA FlatView ==
  ASSUME IInv
  PROVE  /\ Concatenate(dataStream) \in Seq(Byte)
         /\ buffer_size = Flat!buffer_size
         /\ buffer_size = Len(Concatenate(dataStream))
         /\ buffer_size \in Nat
         /\ remaining_capacity = Flat!remaining_capacity
         /\ remaining_capacity = Capacity - buffer_size
         /\ \A len : Peekable(len) = Flat!Peekable(len)
<1> USE BufferedAssumption
<1>1. dataStream \in Seq(Live(Byte, Capacity))
  BY DEF IInv, Buffer
<1>2. Concatenate(dataStream) \in Seq(Byte)
  BY <1>1, ConcatenateAppend
<1>3. buffer_size = Len(Concatenate(dataStream)) /\ buffer_size \in Nat
  BY <1>1, SizeIsLength, SizeAppend DEF buffer_size
<1>4. Flat!buffer_size = Len(Concatenate(dataStream))
  BY DEF Flat!buffer_size
<1>5. remaining_capacity = Flat!remaining_capacity
  BY <1>3, <1>4 DEF remaining_capacity, Flat!remaining_capacity
<1>6. remaining_capacity = Capacity - buffer_size
  BY DEF IInv, remaining_capacity
<1>7. ASSUME NEW len PROVE Peekable(len) = Flat!Peekable(len)
  BY <1>4 DEF Peekable, Flat!Peekable
<1> QED
  BY <1>2, <1>3, <1>4, <1>5, <1>6, <1>7

\* write() appends one whole Buffer that fits.
LEMMA WriteAppends ==
  ASSUME IInv, NEW data \in Flat!Strings, write(data)
  PROVE  /\ IInv'
         /\ Concatenate(dataStream') =
              Concatenate(dataStream)
                \o SubSeq(data, 1, Flat!MinOf(remaining_capacity, Len(data)))
<1> USE BufferedAssumption
<1> DEFINE len == Flat!MinOf(remaining_capacity, Len(data))
           str == SubSeq(data, 1, len)
           b == BufferOf(str)
<1>1. data \in Seq(Byte) /\ Len(data) \in Nat
  BY DEF Flat!Strings
<1>2. dataStream \in Seq(Buffer) /\ FrontOnly(dataStream) /\ dropped \in Nat
  BY DEF IInv
<1>3. /\ buffer_size \in Nat /\ buffer_size <= Capacity
      /\ remaining_capacity = Capacity - buffer_size
  BY FlatView DEF IInv
<1>4. len \in 0..Len(data) /\ len <= Capacity - buffer_size /\ len \in Nat
  BY <1>1, <1>3 DEF Flat!MinOf
<1> HIDE DEF len
<1>5. str \in Seq(Byte) /\ Len(str) = len
  BY <1>1, <1>4, SubSeqProperties, ElementOfSeq
<1>6. dataStream' = Append(dataStream, b)
  <2>1. dataStream' = dataStream \o <<b>>
    BY DEF write, BufferListAppend, ListOf, BufferListOf, len
  <2> QED
    BY <1>2, <2>1, AppendIsConcat
<1> HIDE DEF str
<1>7. b \in Buffer /\ b.offset = 0
  <2>1. str # NoStorage /\ len <= Capacity
    BY <1>3, <1>4, <1>5
  <2> QED
    BY <1>4, <1>5, <2>1 DEF BufferOf, Buffer, Live
<1>8. Str(b) = str
  <2>1. str # NoStorage
    BY <1>5
  <2>2. SubSeq(str, 1, Len(str)) = str
    BY <1>5, SubSeqFull
  <2> QED
    BY <2>1, <2>2 DEF Str, BufferOf
<1> HIDE DEF b
<1>9. dataStream' \in Seq(Buffer)
  BY <1>2, <1>6, <1>7, AppendProperties
<1>10. FrontOnly(dataStream')
  BY <1>2, <1>6, <1>7, FrontOnlyAppend DEF Buffer
<1>11. BufferListSize(dataStream') = buffer_size + len
  <2>1. BufferListSize(Append(dataStream, b)) = BufferListSize(dataStream) + BufferSize(b)
    BY <1>2, <1>7, SizeAppend DEF Buffer
  <2>2. BufferSize(b) = len
    BY <1>5, <1>8 DEF BufferSize
  <2> QED
    BY <1>6, <2>1, <2>2 DEF buffer_size
<1>12. IInv'
  <2>1. buffer_size' <= Capacity
    <3>1. buffer_size' = buffer_size + len
      BY <1>11 DEF buffer_size
    <3> QED
      BY <1>3, <1>4, <3>1
  <2>2. dropped' \in Nat
    BY <1>2 DEF write
  <2> QED
    BY <1>9, <1>10, <2>1, <2>2 DEF IInv
<1>13. Concatenate(dataStream') = Concatenate(dataStream) \o str
  BY <1>2, <1>6, <1>7, <1>8, ConcatenateAppend DEF Buffer
<1> QED
  BY <1>12, <1>13 DEF str, len

\* pop() on the list is pop() on the bytes, also when it throws.
LEMMA PopIsFlat ==
  ASSUME IInv, NEW len \in Nat, pop(len)
  PROVE  /\ IInv'
         /\ Flat!pop(len)
         /\ BufferListRemovePrefix(dataStream, len).rest > 0
              <=> len > Flat!buffer_size
<1> USE BufferedAssumption
<1> DEFINE r == BufferListRemovePrefix(dataStream, len)
           c == Concatenate(dataStream)
<1>1. /\ dataStream \in Seq(Live(Byte, Capacity)) /\ FrontOnly(dataStream)
      /\ dropped \in Nat
  BY DEF IInv, Buffer
<1>2. /\ r.rest = IF len > Len(c) THEN len - Len(c) ELSE 0
      /\ Concatenate(r.kept) = SubSeq(c, len + 1, Len(c))
  <2>1. RemovesPrefix(dataStream, len)
    BY <1>1, RemovePrefixIsRight
  <2> QED
    BY <2>1 DEF RemovesPrefix
<1>3. r \in [rest : Nat, kept : Seq(Live(Byte, Capacity))]
  BY <1>1, RemovePrefixAppend
<1>4. FrontOnly(r.kept)
  BY <1>1, RemovePrefixKeepsFront
<1>5. /\ c \in Seq(Byte) /\ Len(c) \in Nat
      /\ buffer_size = Len(c) /\ Flat!buffer_size = Len(c)
      /\ Len(c) <= Capacity
  BY FlatView DEF IInv
<1>6. /\ dataStream' = r.kept
      /\ readByte' = IF r.rest > 0 THEN readByte ELSE readByte + len
      /\ removed' = removed \o SubSeq(c, 1, len - r.rest)
      /\ dropped' = IF r.rest > 0 THEN dropped + len - r.rest ELSE dropped
  BY DEF pop
<1>7. Concatenate(dataStream') = SubSeq(c, len + 1, Len(c))
  BY <1>2, <1>6
<1>8. Len(SubSeq(c, len + 1, Len(c))) <= Len(c)
  <2>1. \A i \in (len + 1)..Len(c) : c[i] \in Byte
    BY <1>5, ElementOfSeq
  <2> QED
    BY <1>5, <2>1, SubSeqProperties
<1>9. r.rest \in Nat /\ r.kept \in Seq(Buffer)
  BY <1>3 DEF Buffer
<1> HIDE DEF r, c
<1>10. r.rest > 0 <=> len > Len(c)
  BY <1>2, <1>5
<1>11. len - r.rest = IF len <= Len(c) THEN len ELSE Len(c)
  <2>1. CASE len > Len(c)
    BY <1>2, <1>5, <2>1
  <2>2. CASE ~(len > Len(c))
    BY <1>2, <1>5, <2>2
  <2> QED
    BY <2>1, <2>2
<1>12. dropped' = IF len <= Len(c) THEN dropped ELSE dropped + Len(c)
  <2>1. CASE len > Len(c)
    <3>1. r.rest > 0 /\ r.rest = len - Len(c)
      BY <1>2, <1>10, <2>1
    <3>2. dropped' = dropped + len - r.rest
      BY <1>6, <3>1
    <3> QED
      BY <1>1, <1>5, <2>1, <3>1, <3>2
  <2>2. CASE ~(len > Len(c))
    BY <1>5, <1>6, <1>10, <2>2
  <2> QED
    BY <2>1, <2>2
<1>13. IInv'
  <2>1. BufferListSize(dataStream') <= Capacity
    <3>1. dataStream' \in Seq(Live(Byte, Capacity))
      BY <1>6, <1>9 DEF Buffer
    <3>2. BufferListSize(dataStream') = Len(Concatenate(dataStream'))
      BY <3>1, SizeIsLength
    <3>3. BufferListSize(dataStream') \in Nat
      BY <3>1, SizeAppend
    <3> QED
      BY <1>5, <1>7, <1>8, <3>2, <3>3
  <2>2. dropped' \in Nat
    BY <1>1, <1>5, <1>12
  <2> QED
    BY <1>4, <1>6, <1>9, <2>1, <2>2 DEF IInv, buffer_size
<1>14. Flat!pop(len)
  <2>1. readByte' = Flat!ReadCount(len)
    BY <1>5, <1>6, <1>10 DEF Flat!ReadCount
  <2>2. Concatenate(dataStream)' = SubSeq(c, len + 1, Flat!buffer_size)
    BY <1>5, <1>7
  <2>3. removed' = removed \o SubSeq(c, 1, Flat!MinOf(len, Flat!buffer_size))
    BY <1>5, <1>6, <1>11 DEF Flat!MinOf
  <2>4. dropped' = IF len <= Flat!buffer_size THEN dropped ELSE dropped + Flat!buffer_size
    BY <1>5, <1>12
  <2> QED
    BY <2>1, <2>2, <2>3, <2>4 DEF Flat!pop, c
<1> QED
  BY <1>5, <1>10, <1>13, <1>14 DEF r
-----------------------------------------------------------------------------
(***************************************************************************)
(* The refinement.                                                         *)
(***************************************************************************)

\* The empty list is the empty stream.
LEMMA InitRefines == Init => IInv /\ Flat!Init
<1> USE BufferedAssumption
<1> SUFFICES ASSUME Init PROVE IInv /\ Flat!Init
  OBVIOUS
<1>1. dataStream = <<>> /\ dropped = 0
  BY DEF Init
<1>2. Concatenate(<<>>) = <<>> /\ BufferListSize(<<>>) = 0
  BY ConcatenateAppend, SizeAppend
<1>3. IInv
  BY <1>1, <1>2, EmptySeq DEF IInv, FrontOnly, buffer_size
<1>4. Flat!Init
  BY <1>1, <1>2 DEF Init, Flat!Init
<1> QED
  BY <1>3, <1>4

\* Every operation on the list is the same operation on the bytes, and a
\* step that changes nothing here changes nothing there.
LEMMA StepRefines == IInv /\ [Next]_vars => IInv' /\ [Flat!Next]_(Flat!vars)
<1> USE BufferedAssumption
<1> SUFFICES ASSUME IInv, [Next]_vars PROVE IInv' /\ [Flat!Next]_(Flat!vars)
  OBVIOUS
<1>0. /\ remaining_capacity = Flat!remaining_capacity
      /\ buffer_size = Flat!buffer_size /\ buffer_size \in Nat
      /\ \A len : Peekable(len) = Flat!Peekable(len)
  BY FlatView
<1>1. ASSUME NEW data \in Flat!Strings, write(data)
      PROVE  IInv' /\ Flat!Next
  <2>1. /\ IInv'
        /\ Concatenate(dataStream') =
             Concatenate(dataStream)
               \o SubSeq(data, 1, Flat!MinOf(remaining_capacity, Len(data)))
    BY <1>1, WriteAppends
  <2>2. Flat!write(data)
    BY <1>0, <1>1, <2>1 DEF write, Flat!write, Flat!AcceptedPart
  <2> QED
    BY <2>1, <2>2 DEF Flat!Next
<1>2. ASSUME NEW len \in 0..MaxLen, peek_output(len)
      PROVE  IInv' /\ Flat!Next
  <2>1. IInv'
    BY <1>2 DEF peek_output, IInv, buffer_size
  <2>2. Flat!peek_output(len)
    BY <1>0, <1>2 DEF peek_output, Flat!peek_output
  <2> QED
    BY <2>1, <2>2 DEF Flat!Next
<1>3. ASSUME NEW len \in 0..MaxLen, pop_output(len)
      PROVE  IInv' /\ Flat!Next
  <2>1. len \in Nat /\ pop(len)
    BY <1>3 DEF pop_output
  <2>2. /\ IInv' /\ Flat!pop(len)
        /\ BufferListRemovePrefix(dataStream, len).rest > 0 <=> len > Flat!buffer_size
    BY <2>1, PopIsFlat
  <2>3. ret' = Flat!Result("pop", <<>>, len > Flat!buffer_size)
    <3>1. ret' = Flat!Result("pop", <<>>, BufferListRemovePrefix(dataStream, len).rest > 0)
      BY <1>3 DEF pop_output
    <3>2. (BufferListRemovePrefix(dataStream, len).rest > 0) = (len > Flat!buffer_size)
      BY <2>2
    <3> QED
      BY <3>1, <3>2
  <2>4. Flat!pop_output(len)
    BY <1>3, <2>2, <2>3 DEF pop_output, Flat!pop_output
  <2> QED
    BY <2>2, <2>4 DEF Flat!Next
<1>4. ASSUME NEW len \in 0..MaxLen, read(len)
      PROVE  IInv' /\ Flat!Next
  <2> DEFINE length == Flat!MinOf(buffer_size, len)
  <2>1. length \in Nat /\ length = Flat!ReadLength(len)
    BY <1>0 DEF Flat!MinOf, Flat!ReadLength
  <2>2. pop(length) /\ \E s \in Peekable(length) : ret' = Flat!Result("read", s, FALSE)
    BY <1>4 DEF read
  <2> HIDE DEF length
  <2>3. IInv' /\ Flat!pop(length)
    BY <2>1, <2>2, PopIsFlat
  <2>4. \E s \in Flat!Peekable(length) : ret' = Flat!Result("read", s, FALSE)
    BY <1>0, <2>2
  <2>5. Flat!read(len)
    BY <1>4, <2>1, <2>3, <2>4 DEF read, Flat!read
  <2> QED
    BY <2>3, <2>5 DEF Flat!Next
<1>5. CASE end_input
  BY <1>5 DEF end_input, Flat!end_input, Flat!Next, IInv, buffer_size
<1>6. CASE set_error
  BY <1>6 DEF set_error, Flat!set_error, Flat!Next, IInv, buffer_size
<1>7. CASE UNCHANGED vars
  <2>1. IInv'
    BY <1>7 DEF vars, IInv, buffer_size
  <2>2. UNCHANGED Flat!vars
    BY <1>7 DEF vars, Flat!vars
  <2> QED
    BY <2>1, <2>2
<1> QED
  BY <1>1, <1>2, <1>3, <1>4, <1>5, <1>6, <1>7 DEF Next
-----------------------------------------------------------------------------
(***************************************************************************)
(* The theorems.                                                           *)
(***************************************************************************)

\* The list of Buffers implements the plain byte stream, whatever the
\* capacity and however writes, pops, reads and failing pops alternate: all
\* that is proved of module ByteStream holds of the code's BufferList.
THEOREM ListImplementsStream == Spec => ImplementsByteStream
  BY InitRefines, StepRefines, PTL DEF Spec, ImplementsByteStream, Flat!Spec

\* remove_prefix() leaves no consumed Buffer in the list, and only the front
\* is ever partly consumed.
THEOREM FrontIsPartlyRead == Spec => []OnlyTheFrontIsPartlyRead
<1>1. IInv => OnlyTheFrontIsPartlyRead
  <2> SUFFICES ASSUME IInv, NEW i \in DOMAIN dataStream
               PROVE  /\ dataStream[i].storage # NoStorage
                      /\ dataStream[i].offset > 0 => i = 1 /\ BufferSize(dataStream[i]) > 0
    BY DEF OnlyTheFrontIsPartlyRead
  <2>1. dataStream[i] \in Buffer
    BY ElementOfSeq, LenProperties DEF IInv
  <2> QED
    BY <2>1 DEF IInv, FrontOnly, Buffer, Live
<1> QED
  BY <1>1, InitRefines, StepRefines, PTL DEF Spec

\* The stream's storage, read prefixes included, stays below twice the
\* capacity.
THEOREM MemoryIsBounded == Spec => []RetainedWithinTwiceCapacity
<1> USE BufferedAssumption
<1>1. IInv => RetainedWithinTwiceCapacity
  <2> SUFFICES ASSUME IInv
               PROVE  RetainedBytes(dataStream) = 0
                        \/ RetainedBytes(dataStream) < 2 * Capacity
    BY DEF RetainedWithinTwiceCapacity
  <2> DEFINE size == BufferListSize(dataStream)
             retained == RetainedBytes(dataStream)
             front == dataStream[1]
  <2>1. /\ dataStream \in Seq(Live(Byte, Capacity)) /\ FrontOnly(dataStream)
        /\ size <= Capacity
    BY DEF IInv, Buffer, buffer_size
  <2>2. size \in Nat
    BY <2>1, SizeAppend
  <2>3. retained = IF dataStream = <<>> THEN 0 ELSE size + front.offset
    BY <2>1, RetainedIsSizeAndPrefix
  <2>4. CASE dataStream # <<>>
    <3>1. 1 \in DOMAIN dataStream /\ front \in Live(Byte, Capacity)
      BY <2>1, <2>4, LenProperties, ElementOfSeq, EmptySeq
    <3>2. /\ front.offset \in Nat /\ Len(front.storage) \in Nat
          /\ BufferSize(front) = Len(front.storage) - front.offset
          /\ Len(front.storage) <= Capacity
      BY <3>1, LiveBuffer
    <3>3. front.offset > 0 => BufferSize(front) > 0
      BY <2>1, <3>1 DEF FrontOnly
    <3> HIDE DEF size, retained, front
    <3>4. retained = size + front.offset
      BY <2>3, <2>4
    <3> QED
      BY <2>1, <2>2, <3>2, <3>3, <3>4 DEF size, retained
  <2> QED
    BY <2>3, <2>4
<1> QED
  BY <1>1, InitRefines, StepRefines, PTL DEF Spec
-----------------------------------------------------------------------------
(***************************************************************************)
(* The theorems about module ByteStream, said of the BufferList.           *)
(***************************************************************************)
FlatProofs == INSTANCE ByteStreamProofs WITH dataStream <- Concatenate(dataStream)

\* What the stream promises its writer and its reader, of the bytes the list
\* concatenates to.
StreamPromises ==
  /\ Flat!WithinCapacity
  /\ Flat!StreamOrder
  /\ Flat!Accounting
  /\ Flat!ReadReturnsTheSlice

\* The two instances of module ByteStream are one.
LEMMA OneFlatStream ==
  /\ Flat!Init <=> FlatProofs!Init
  /\ [Flat!Next]_(Flat!vars) <=> [FlatProofs!Next]_(FlatProofs!vars)
<1>1. Flat!Init <=> FlatProofs!Init
  BY DEF Flat!Init, FlatProofs!Init, Flat!Result, FlatProofs!Result
<1>2. [Flat!Next]_(Flat!vars) <=> [FlatProofs!Next]_(FlatProofs!vars)
  BY DEF
      Flat!MinOf, Flat!Strings, Flat!Result, Flat!buffer_size,
      Flat!remaining_capacity, Flat!AcceptedPart, Flat!write,
      Flat!Peekable, Flat!peek_output, Flat!ReadCount, Flat!pop,
      Flat!pop_output, Flat!ReadLength, Flat!read, Flat!end_input,
      Flat!set_error, Flat!Next, Flat!vars,
      FlatProofs!MinOf, FlatProofs!Strings, FlatProofs!Result,
      FlatProofs!buffer_size, FlatProofs!remaining_capacity,
      FlatProofs!AcceptedPart, FlatProofs!write, FlatProofs!Peekable,
      FlatProofs!peek_output, FlatProofs!ReadCount, FlatProofs!pop,
      FlatProofs!pop_output, FlatProofs!ReadLength, FlatProofs!read,
      FlatProofs!end_input, FlatProofs!set_error, FlatProofs!Next,
      FlatProofs!vars
<1> QED
  BY <1>1, <1>2

\* The class as it is coded keeps every byte it accepts, in order, within the
\* capacity; its counters account for them; read() returns the next slice:
\* no Buffer boundary is ever visible to a caller.
THEOREM ListKeepsThePromises == Spec => []StreamPromises
<1>1. FlatProofs!Spec => []FlatProofs!WithinCapacity
  BY BufferedAssumption, FlatProofs!CapacityHolds DEF FlatProofs!CapacityAssumption
<1>2. FlatProofs!Spec => []FlatProofs!StreamOrder
  BY BufferedAssumption, FlatProofs!OrderHolds DEF FlatProofs!CapacityAssumption
<1>3. FlatProofs!Spec => []FlatProofs!Accounting
  BY BufferedAssumption, FlatProofs!AccountingHolds DEF FlatProofs!CapacityAssumption
<1>4. FlatProofs!Spec => []FlatProofs!ReadReturnsTheSlice
  BY BufferedAssumption, FlatProofs!ReadsAreSlices DEF FlatProofs!CapacityAssumption
<1>5. /\ FlatProofs!WithinCapacity /\ FlatProofs!StreamOrder /\ FlatProofs!Accounting
      /\ FlatProofs!ReadReturnsTheSlice
      => StreamPromises
  BY DEF StreamPromises, Flat!WithinCapacity, FlatProofs!WithinCapacity,
     Flat!StreamOrder, FlatProofs!StreamOrder, Flat!Accounting, FlatProofs!Accounting,
     Flat!ReadReturnsTheSlice, FlatProofs!ReadReturnsTheSlice,
     Flat!buffer_size, FlatProofs!buffer_size
<1> QED
  BY <1>1, <1>2, <1>3, <1>4, <1>5, OneFlatStream, ListImplementsStream, PTL
  DEF ImplementsByteStream, Flat!Spec, FlatProofs!Spec
=============================================================================
