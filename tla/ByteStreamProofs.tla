-------------------------- MODULE ByteStreamProofs --------------------------
(***************************************************************************)
(* Proofs about module ByteStream, for every set of bytes, every capacity  *)
(* and every bound.                                                        *)
(*                                                                         *)
(* IInv is the inductive invariant: the order of the bytes and the         *)
(* accounting depend on one another (read() returns a slice located by the *)
(* counters, the counters are the lengths of the histories), so the parts  *)
(* are proved together.                                                    *)
(***************************************************************************)
EXTENDS ByteStream, SequenceTheorems, TLAPS

IInv ==
  /\ TypeOK
  /\ WithinCapacity
  /\ StreamOrder
  /\ Accounting
  /\ ReadReturnsTheSlice
-----------------------------------------------------------------------------
(***************************************************************************)
(* Facts about sequences.                                                  *)
(***************************************************************************)

\* substr(0, k) of a string of at least k bytes is a string of k bytes.
LEMMA PrefixType ==
  ASSUME NEW S, NEW s \in Seq(S), NEW k \in 0..Len(s)
  PROVE  /\ SubSeq(s, 1, k) \in Seq(S)
         /\ Len(SubSeq(s, 1, k)) = k
  BY SubSeqProperties, ElementOfSeq

\* What remove_prefix leaves: at most k bytes are gone, and none remain when
\* k exceeds the size.
LEMMA SuffixType ==
  ASSUME NEW S, NEW s \in Seq(S), NEW k \in Nat
  PROVE  /\ SubSeq(s, k + 1, Len(s)) \in Seq(S)
         /\ Len(SubSeq(s, k + 1, Len(s))) = IF k <= Len(s) THEN Len(s) - k ELSE 0
<1>1. \A i \in (k + 1)..Len(s) : s[i] \in S
  BY ElementOfSeq
<1> QED
  BY <1>1, SubSeqProperties

\* Cutting a string in two and joining the parts gives it back; a cut past
\* the end leaves an empty second part.
LEMMA SplitAndJoin ==
  ASSUME NEW S, NEW s \in Seq(S), NEW k \in Nat
  PROVE  SubSeq(s, 1, MinOf(k, Len(s))) \o SubSeq(s, k + 1, Len(s)) = s
<1>0. Len(s) \in Nat
  BY LenProperties
<1>1. CASE k <= Len(s)
  <2>1. MinOf(k, Len(s)) = k
    BY <1>0, <1>1 DEF MinOf
  <2>2. SubSeq(s, 1, k) \o SubSeq(s, k + 1, Len(s)) = SubSeq(s, 1, Len(s))
    <3>1. 1 \in 1..(Len(s) + 1) /\ k \in (1 - 1)..Len(s) /\ Len(s) \in k..Len(s)
      BY <1>0, <1>1
    <3> QED
      BY <3>1, ConcatAdjacentSubSeq
  <2> QED
    BY <2>1, <2>2, SubSeqFull
<1>2. CASE k > Len(s)
  <2>1. SubSeq(s, k + 1, Len(s)) = <<>>
    BY <1>0, <1>2, SubSeqEmpty
  <2>2. SubSeq(s, 1, MinOf(k, Len(s))) = s
    BY <1>0, <1>2, SubSeqFull DEF MinOf
  <2> QED
    BY <2>1, <2>2, ConcatEmptySeq
<1>3. k <= Len(s) \/ k > Len(s)
  BY <1>0
<1> QED
  BY <1>1, <1>2, <1>3

\* Concatenation of byte strings is associative.
LEMMA BytesAssociative ==
  \A s, t, u \in Seq(Byte) : (s \o t) \o u = s \o (t \o u)
  BY ConcatAssociative

\* A string that agrees with the first k bytes of t is the slice of s \o t
\* that follows s.
LEMMA SliceAfter ==
  ASSUME NEW S, NEW s \in Seq(S), NEW t \in Seq(S), NEW k \in 0..Len(t),
         NEW u \in [1..k -> S], \A i \in 1..k : u[i] = t[i]
  PROVE  /\ u \in Seq(S)
         /\ Len(u) = k
         /\ u = SubSeq(s \o t, Len(s) + 1, Len(s) + k)
<1>1. u \in Seq(S) /\ Len(u) = k
  OBVIOUS
<1>2. /\ s \o t \in Seq(S)
      /\ Len(s \o t) = Len(s) + Len(t)
      /\ \A i \in 1..k : (s \o t)[Len(s) + i] = t[i]
  BY ConcatProperties
<1>3. \A i \in (Len(s) + 1)..(Len(s) + k) : (s \o t)[i] \in S
  BY <1>2, ElementOfSeq
<1> DEFINE v == SubSeq(s \o t, Len(s) + 1, Len(s) + k)
<1>4. /\ v \in Seq(S)
      /\ Len(v) = k
      /\ \A i \in 1..k : v[i] = (s \o t)[Len(s) + i]
  BY <1>3, SubSeqProperties
<1>5. u = v
  BY <1>1, <1>2, <1>4, SeqEqual
<1> QED
  BY <1>1, <1>5

\* The same, for the strings of the stream.
LEMMA SliceOfBytes ==
  \A s, t \in Seq(Byte) : \A k \in 0..Len(t) : \A u \in [1..k -> Byte] :
    (\A i \in 1..k : u[i] = t[i])
    => /\ u \in Seq(Byte)
       /\ Len(u) = k
       /\ u = SubSeq(s \o t, Len(s) + 1, Len(s) + k)
  BY SliceAfter
-----------------------------------------------------------------------------
(***************************************************************************)
(* The operations, one by one.                                             *)
(***************************************************************************)

\* pop(len) moves the first bytes from the buffer to the history, and the
\* counters follow.
LEMMA PopMovesAPrefix ==
  ASSUME IInv, NEW len \in Nat, pop(len)
  PROVE  /\ dataStream' \in Seq(Byte)
         /\ removed' \in Seq(Byte)
         /\ readByte' \in Nat
         /\ dropped' \in Nat
         /\ Len(dataStream') <= Len(dataStream)
         /\ removed' \o dataStream' = removed \o dataStream
         /\ readByte' + dropped' = Len(removed')
         /\ Len(removed') = Len(removed) + MinOf(len, Len(dataStream))
         /\ Len(dataStream') = Len(dataStream) - MinOf(len, Len(dataStream))
<1> DEFINE k == MinOf(len, Len(dataStream))
           head == SubSeq(dataStream, 1, k)
           tail == SubSeq(dataStream, len + 1, Len(dataStream))
<1>1. /\ dataStream \in Seq(Byte) /\ removed \in Seq(Byte)
      /\ readByte \in Nat /\ dropped \in Nat
      /\ readByte + dropped = Len(removed)
  BY DEF IInv, TypeOK, Accounting
<1>2. Len(dataStream) \in Nat /\ Len(removed) \in Nat
  BY <1>1, LenProperties
<1>3. k \in 0..Len(dataStream)
  BY <1>2 DEF MinOf
<1>4. head \in Seq(Byte) /\ Len(head) = k
  BY <1>1, <1>3, PrefixType
<1>5. tail \in Seq(Byte) /\ Len(tail) = Len(dataStream) - k
  <2>1. tail \in Seq(Byte)
    BY <1>1, SuffixType
  <2>2. Len(tail) = IF len <= Len(dataStream) THEN Len(dataStream) - len ELSE 0
    BY <1>1, SuffixType
  <2> HIDE DEF tail
  <2>3. Len(tail) = Len(dataStream) - k
    BY <2>2, <1>2 DEF MinOf
  <2> QED
    BY <2>1, <2>3
<1>6. dataStream' = tail /\ removed' = removed \o head
  BY DEF pop, ReadCount, buffer_size
<1>7. removed' \in Seq(Byte) /\ Len(removed') = Len(removed) + k
  <2> HIDE DEF head, k
  <2> QED
    BY <1>1, <1>4, <1>6, ConcatProperties
<1>8. removed' \o dataStream' = removed \o dataStream
  <2>1. head \o tail = dataStream
    BY <1>1, SplitAndJoin
  <2>2. (removed \o head) \o tail = removed \o (head \o tail)
    <3> HIDE DEF head, tail, k
    <3>1. removed \in Seq(Byte) /\ head \in Seq(Byte) /\ tail \in Seq(Byte)
      BY <1>1, <1>4, <1>5
    <3> QED
      BY <3>1, BytesAssociative
  <2> QED
    BY <2>1, <2>2, <1>6
<1>9. /\ readByte' \in Nat /\ dropped' \in Nat
      /\ readByte' + dropped' = Len(removed) + k
  <2>1. /\ readByte' = IF len <= Len(dataStream) THEN readByte + len ELSE readByte
        /\ dropped' = IF len <= Len(dataStream) THEN dropped
                                                ELSE dropped + Len(dataStream)
    BY DEF pop, ReadCount, buffer_size
  <2> QED
    BY <1>1, <1>2, <2>1 DEF MinOf
<1> HIDE DEF head, tail
<1>10. /\ dataStream' \in Seq(Byte)
       /\ Len(dataStream') = Len(dataStream) - k
       /\ Len(dataStream') <= Len(dataStream)
  BY <1>2, <1>3, <1>5, <1>6
<1> QED
  BY <1>7, <1>8, <1>9, <1>10

\* write(): what it appends fits, and is what the writer is told.
LEMMA WriteStep ==
  ASSUME IInv, NEW data \in Strings, write(data)
  PROVE  IInv'
<1> USE CapacityAssumption
<1> DEFINE len == MinOf(remaining_capacity, Len(data))
           head == SubSeq(data, 1, len)
<1>1. /\ dataStream \in Seq(Byte) /\ removed \in Seq(Byte) /\ accepted \in Seq(Byte)
      /\ writeByte \in Nat /\ readByte \in Nat /\ dropped \in Nat
      /\ Len(dataStream) <= Capacity
      /\ removed \o dataStream = accepted
      /\ writeByte = Len(accepted)
      /\ readByte + dropped = Len(removed)
      /\ writeByte = readByte + dropped + Len(dataStream)
  BY DEF IInv, TypeOK, WithinCapacity, StreamOrder, Accounting, buffer_size
<1>2. Len(dataStream) \in Nat /\ Len(removed) \in Nat /\ Len(accepted) \in Nat
  BY <1>1, LenProperties
<1>3. data \in Seq(Byte) /\ Len(data) \in Nat
  BY DEF Strings
<1>4. remaining_capacity = Capacity - Len(dataStream)
  BY <1>1, <1>2 DEF remaining_capacity, buffer_size
<1>5. len \in 0..Len(data) /\ Len(dataStream) + len <= Capacity
  BY <1>1, <1>2, <1>3, <1>4 DEF MinOf
<1>6. head \in Seq(Byte) /\ Len(head) = len
  BY <1>3, <1>5, PrefixType
<1>7. /\ dataStream' = dataStream \o head
      /\ accepted' = accepted \o head
      /\ writeByte' = writeByte + len
      /\ ret' = Result("write", head, FALSE)
      /\ UNCHANGED <<readByte, endInput, hasError, removed, dropped>>
  BY DEF write, AcceptedPart
<1> HIDE DEF head, len
<1>8. /\ dataStream' \in Seq(Byte) /\ Len(dataStream') = Len(dataStream) + len
      /\ accepted' \in Seq(Byte) /\ Len(accepted') = Len(accepted) + len
  BY <1>1, <1>6, <1>7, ConcatProperties
<1>9. removed' \o dataStream' = accepted'
  <2>1. removed \in Seq(Byte) /\ dataStream \in Seq(Byte) /\ head \in Seq(Byte)
    BY <1>1, <1>6
  <2>2. (removed \o dataStream) \o head = removed \o (dataStream \o head)
    BY <2>1, BytesAssociative
  <2> QED
    BY <1>1, <1>7, <2>2
<1>10. ret' \in Returned /\ ret'.op = "write"
  BY <1>6, <1>7 DEF Returned, Result
<1>11. TypeOK'
  <2>1. writeByte' \in Nat
    BY <1>1, <1>3, <1>5, <1>7
  <2> QED
    BY <1>7, <1>8, <1>10, <2>1 DEF IInv, TypeOK
<1>12. WithinCapacity' /\ StreamOrder' /\ Accounting'
  BY <1>1, <1>2, <1>5, <1>7, <1>8, <1>9
  DEF WithinCapacity, StreamOrder, Accounting, buffer_size
<1>13. ReadReturnsTheSlice'
  BY <1>10 DEF ReadReturnsTheSlice
<1> QED
  BY <1>11, <1>12, <1>13 DEF IInv

\* pop_output() and read() both pop; what they leave alone and what they
\* return is all that differs.
LEMMA PopKeeps ==
  ASSUME IInv, NEW len \in Nat, pop(len),
         UNCHANGED <<writeByte, endInput, hasError, accepted>>,
         ret' \in Returned, ReadReturnsTheSlice'
  PROVE  IInv'
<1>1. /\ dataStream' \in Seq(Byte) /\ removed' \in Seq(Byte)
      /\ readByte' \in Nat /\ dropped' \in Nat
      /\ Len(dataStream') <= Len(dataStream)
      /\ removed' \o dataStream' = removed \o dataStream
      /\ readByte' + dropped' = Len(removed')
  BY PopMovesAPrefix
<1>2. TypeOK'
  BY <1>1 DEF IInv, TypeOK
<1>3. WithinCapacity'
  <2>1. Len(dataStream) \in Nat /\ Len(dataStream') \in Nat
    BY <1>1, LenProperties DEF IInv, TypeOK
  <2> QED
    BY <1>1, <2>1, CapacityAssumption DEF IInv, WithinCapacity, buffer_size
<1>4. StreamOrder'
  BY <1>1 DEF IInv, StreamOrder
<1>5. Accounting'
  <2>1. accepted' = removed' \o dataStream'
    BY <1>1 DEF IInv, StreamOrder
  <2>2. Len(accepted') = Len(removed') + Len(dataStream')
    BY <1>1, <2>1, ConcatProperties
  <2> QED
    BY <1>1, <2>2 DEF IInv, Accounting, buffer_size
<1> QED
  BY <1>2, <1>3, <1>4, <1>5 DEF IInv

\* pop_output(), the throwing call included.
LEMMA PopOutputStep ==
  ASSUME IInv, NEW len \in 0..MaxLen, pop_output(len)
  PROVE  IInv'
<1>0. len \in Nat
  BY CapacityAssumption
<1>1. ret' \in Returned /\ ret'.op = "pop"
  <2>1. (len > Len(dataStream)) \in BOOLEAN /\ <<>> \in Seq(Byte)
    OBVIOUS
  <2> QED
    BY <2>1 DEF pop_output, Returned, Result, buffer_size
<1>2. ReadReturnsTheSlice'
  BY <1>1 DEF ReadReturnsTheSlice
<1> QED
  BY <1>0, <1>1, <1>2, PopKeeps DEF pop_output

\* read(): the slice it returns starts where the reader was.
LEMMA ReadStep ==
  ASSUME IInv, NEW len \in 0..MaxLen, read(len)
  PROVE  IInv'
<1> DEFINE k == MinOf(Len(dataStream), len)
<1>0. /\ len \in Nat /\ Len(dataStream) \in Nat /\ Len(removed) \in Nat
      /\ dataStream \in Seq(Byte) /\ removed \in Seq(Byte)
      /\ removed \o dataStream = accepted
  BY CapacityAssumption, LenProperties DEF IInv, TypeOK, StreamOrder
<1>1. k \in 0..Len(dataStream) /\ k \in Nat /\ MinOf(k, Len(dataStream)) = k
  BY <1>0 DEF MinOf
<1>2. pop(k) /\ UNCHANGED <<writeByte, endInput, hasError, accepted>>
  BY DEF read, ReadLength, buffer_size
<1>3. PICK s \in Peekable(k) : ret' = Result("read", s, FALSE)
  BY DEF read, ReadLength, buffer_size
<1>4. s \in [1..k -> Byte] /\ \A i \in 1..k : s[i] = dataStream[i]
  BY <1>1 DEF Peekable, buffer_size
<1> HIDE DEF k
<1>5. /\ s \in Seq(Byte) /\ Len(s) = k
      /\ s = SubSeq(removed \o dataStream, Len(removed) + 1, Len(removed) + k)
  <2>1. /\ k \in 0..Len(dataStream)
        /\ s \in [1..k -> Byte]
        /\ \A i \in 1..k : s[i] = dataStream[i]
    BY <1>1, <1>4
  <2> QED
    BY <1>0, <2>1, SliceOfBytes
<1>6. ret' \in Returned /\ ret'.str = s
  BY <1>3, <1>5 DEF Returned, Result
<1>7. readByte' + dropped' = Len(removed) + k
  BY <1>1, <1>2, PopMovesAPrefix
<1>8. ReadReturnsTheSlice'
  <2>1. Len(ret'.str) = k /\ Len(ret'.str) <= readByte' + dropped'
    BY <1>0, <1>1, <1>5, <1>6, <1>7
  <2>2. (readByte' + dropped') - Len(ret'.str) + 1 = Len(removed) + 1
    <3>1. (Len(removed) + k) - k + 1 = Len(removed) + 1
      BY <1>0, <1>1
    <3> QED
      BY <1>7, <2>1, <3>1
  <2>3. ret'.str = SubSeq(accepted', Len(removed) + 1, readByte' + dropped')
    BY <1>0, <1>2, <1>5, <1>6, <1>7
  <2> QED
    BY <2>1, <2>2, <2>3, Zenon DEF ReadReturnsTheSlice
<1> QED
  BY <1>1, <1>2, <1>6, <1>8, PopKeeps

\* peek_output(), end_input() and set_error() move no byte.
LEMMA QuietStep ==
  ASSUME IInv, ret' \in Returned, ret'.op # "read",
         endInput' \in BOOLEAN, hasError' \in BOOLEAN,
         UNCHANGED <<dataStream, writeByte, readByte, accepted, removed, dropped>>
  PROVE  IInv'
<1>1. ReadReturnsTheSlice'
  BY DEF ReadReturnsTheSlice
<1> QED
  BY <1>1 DEF IInv, TypeOK, WithinCapacity, StreamOrder, Accounting, buffer_size

\* peek_output() returns a string of the length asked for, whatever lies
\* past the end of the buffer.
LEMMA PeekStep ==
  ASSUME IInv, NEW len \in 0..MaxLen, peek_output(len)
  PROVE  IInv'
<1>1. PICK s \in Peekable(len) : ret' = Result("peek", s, FALSE)
  BY DEF peek_output
<1>2. s \in Seq(Byte)
  BY CapacityAssumption DEF Peekable
<1>3. ret' \in Returned /\ ret'.op # "read"
  BY <1>1, <1>2 DEF Returned, Result
<1> QED
  BY <1>3, QuietStep DEF peek_output, IInv, TypeOK
-----------------------------------------------------------------------------
(***************************************************************************)
(* The theorems.                                                           *)
(***************************************************************************)

\* IInv holds of a stream that has just been constructed.
LEMMA InitIInv == Init => IInv
<1> SUFFICES ASSUME Init PROVE IInv
  OBVIOUS
<1>1. <<>> \in Seq(Byte) /\ Len(<<>>) = 0 /\ <<>> \o <<>> = <<>>
  BY ConcatEmptySeq, EmptySeq
<1>2. ret \in Returned /\ ret.op = "none"
  BY <1>1 DEF Init, Result, Returned
<1>3. TypeOK
  BY <1>1, <1>2 DEF Init, TypeOK
<1>4. WithinCapacity /\ StreamOrder /\ Accounting
  BY <1>1, CapacityAssumption
  DEF Init, WithinCapacity, StreamOrder, Accounting, buffer_size
<1>5. ReadReturnsTheSlice
  BY <1>2 DEF ReadReturnsTheSlice
<1> QED
  BY <1>3, <1>4, <1>5 DEF IInv

\* Every operation keeps IInv.
LEMMA NextIInv == IInv /\ [Next]_vars => IInv'
<1> SUFFICES ASSUME IInv, [Next]_vars PROVE IInv'
  OBVIOUS
<1>1. ASSUME NEW data \in Strings, write(data) PROVE IInv'
  BY <1>1, WriteStep
<1>2. ASSUME NEW len \in 0..MaxLen, peek_output(len) PROVE IInv'
  BY <1>2, PeekStep
<1>3. ASSUME NEW len \in 0..MaxLen, pop_output(len) PROVE IInv'
  BY <1>3, PopOutputStep
<1>4. ASSUME NEW len \in 0..MaxLen, read(len) PROVE IInv'
  BY <1>4, ReadStep
<1>5. CASE end_input
  <2>1. ret' \in Returned /\ ret'.op # "read"
    BY <1>5 DEF end_input, Result, Returned
  <2> QED
    BY <1>5, <2>1, QuietStep DEF end_input, IInv, TypeOK
<1>6. CASE set_error
  <2>1. ret' \in Returned /\ ret'.op # "read"
    BY <1>6 DEF set_error, Result, Returned
  <2> QED
    BY <1>6, <2>1, QuietStep DEF set_error, IInv, TypeOK
<1>7. CASE UNCHANGED vars
  BY <1>7 DEF vars, IInv, TypeOK, WithinCapacity, StreamOrder, Accounting,
              ReadReturnsTheSlice, buffer_size
<1> QED
  BY <1>1, <1>2, <1>3, <1>4, <1>5, <1>6, <1>7 DEF Next

\* IInv is an invariant of the stream.
THEOREM Invariance == Spec => []IInv
  BY InitIInv, NextIInv, PTL DEF Spec

\* The members and histories keep their types under any sequence of calls.
THEOREM TypeCorrect == Spec => []TypeOK
<1>1. IInv => TypeOK
  BY DEF IInv
<1> QED
  BY <1>1, Invariance, PTL

\* The stream never holds more than its capacity, for every capacity.
THEOREM CapacityHolds == Spec => []WithinCapacity
<1>1. IInv => WithinCapacity
  BY DEF IInv
<1> QED
  BY <1>1, Invariance, PTL

\* No byte is lost, duplicated or reordered.
THEOREM OrderHolds == Spec => []StreamOrder
<1>1. IInv => StreamOrder
  BY DEF IInv
<1> QED
  BY <1>1, Invariance, PTL

\* The counters account for every byte, those a throwing pop drops included.
THEOREM AccountingHolds == Spec => []Accounting
<1>1. IInv => Accounting
  BY DEF IInv
<1> QED
  BY <1>1, Invariance, PTL

\* read() returns the next bytes of the stream, and nothing else.
THEOREM ReadsAreSlices == Spec => []ReadReturnsTheSlice
<1>1. IInv => ReadReturnsTheSlice
  BY DEF IInv
<1> QED
  BY <1>1, Invariance, PTL
=============================================================================
