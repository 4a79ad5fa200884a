--------------------------- MODULE FdWriteProofs ---------------------------
(***************************************************************************)
(* Proofs about module FdWrite, for every list of pieces, every size of    *)
(* the kernel's buffer and every number of pieces writev(2) takes.         *)
(*                                                                         *)
(* IInv is the inductive invariant.  What a call that returns says of its  *)
(* result follows from three facts that hold all along: nothing is lost,   *)
(* the count is the number of bytes sent, and what returns under write_all *)
(* has nothing left.                                                       *)
(***************************************************************************)
EXTENDS FdWrite, BuffersProofs

\* The types the proofs need.
Types ==
  /\ buffer \in Seq(Seq(Byte))
  /\ sent \in Seq(Byte)
  /\ input \in Seq(Byte)

\* The count is the number of bytes that writev(2) took.
CountIsSent == total_bytes_written = Len(sent)

\* A call returns after a turn of its loop: something was taken if there was
\* anything, and everything under write_all.
ReturnedAfterATurn ==
  pc = "returned" =>
    /\ registered
    /\ write_all => FlattenSeq(buffer) = <<>>
    /\ sent = <<>> => FlattenSeq(buffer) = <<>>

IInv == Types /\ NothingLostNothingTwice /\ CountIsSent /\ ReturnedAfterATurn
-----------------------------------------------------------------------------
\* Nothing has been sent of the caller's pieces.
LEMMA InitIInv == Init => IInv
<1> SUFFICES ASSUME Init PROVE IInv
  OBVIOUS
<1>1. buffer \in Seq(Seq(Byte))
  <2>1. PICK n \in 0..MaxViews : buffer \in [1..n -> Pieces]
    BY DEF Init, Inputs
  <2>2. \A s \in Pieces : s \in Seq(Byte)
    BY FdWriteAssumption DEF Pieces
  <2>3. n \in Nat /\ \A i \in 1..n : buffer[i] \in Seq(Byte)
    BY <2>1, <2>2, FdWriteAssumption
  <2>4. buffer \in [1..n -> Seq(Byte)]
    BY <2>1, <2>3
  <2> QED
    BY <2>3, <2>4
<1>2. FlattenSeq(buffer) \in Seq(Byte)
  BY <1>1, FlattenAppend
<1>3. input = FlattenSeq(buffer) /\ sent = <<>> /\ total_bytes_written = 0 /\ pc = "loop"
  BY DEF Init
<1>4. <<>> \in Seq(Byte) /\ Len(<<>>) = 0 /\ <<>> \o FlattenSeq(buffer) = FlattenSeq(buffer)
  BY <1>2, EmptySeq, ConcatEmptySeq
<1> QED
  BY <1>1, <1>2, <1>3, <1>4
  DEF IInv, Types, NothingLostNothingTwice, CountIsSent, ReturnedAfterATurn

\* Concatenation of byte strings is associative.
LEMMA BytesAssociative ==
  \A s, t, u \in Seq(Byte) : (s \o t) \o u = s \o (t \o u)
  BY ConcatAssociative

\* One turn of the loop: remove_prefix() takes from buffer what writev(2)
\* took, wherever that cuts the pieces.
LEMMA WritevIInv == IInv /\ Writev => IInv'
<1> SUFFICES ASSUME IInv, Writev PROVE IInv'
  OBVIOUS
<1> DEFINE all == FlattenSeq(buffer)
<1>0. /\ buffer \in Seq(Seq(Byte)) /\ sent \in Seq(Byte) /\ input \in Seq(Byte)
      /\ sent \o all = input
      /\ total_bytes_written = Len(sent)
  BY DEF IInv, Types, NothingLostNothingTwice, CountIsSent
<1>1. PICK n \in BytesWritten :
        LET rest == ViewListRemovePrefix(buffer, n).kept IN
        /\ ~NothingTaken(n)
        /\ sent' = sent \o SubSeq(all, 1, n)
        /\ registered' = TRUE
        /\ buffer' = rest
        /\ total_bytes_written' = total_bytes_written + n
        /\ pc' = IF Again(rest) THEN "loop" ELSE "returned"
  BY DEF Writev
<1>2. write_all' = write_all /\ input' = input
  BY DEF Writev
<1>3. /\ all \in Seq(Byte) /\ Len(all) \in Nat
      /\ ViewListSize(buffer) = Len(all)
      /\ Len(sent) \in Nat
  BY <1>0, FlattenAppend, ViewSizeIsLength, LenProperties
<1>4. n \in 0..Len(all) /\ (n = 0 => Len(all) = 0)
  <2>1. n \in (IF ViewListSize(buffer) = 0 THEN {0} ELSE 0..ViewListSize(buffer))
    BY <1>1 DEF BytesWritten
  <2>2. n = 0 => ViewListSize(buffer) = 0
    BY <1>1 DEF NothingTaken
  <2> HIDE DEF all
  <2> QED
    BY <1>3, <2>1, <2>2
<1>5. n \in Nat /\ n <= Len(all)
  BY <1>3, <1>4
<1>6. /\ buffer' \in Seq(Seq(Byte))
      /\ FlattenSeq(buffer') = SubSeq(all, n + 1, Len(all))
  <2>1. RemovesViewPrefix(buffer, n)
    BY <1>0, <1>5, RemoveViewPrefixIsRight
  <2>2. ViewListRemovePrefix(buffer, n) \in [rest : Nat, kept : Seq(Seq(Byte))]
    BY <1>0, <1>5, RemoveViewAppend
  <2>3. buffer' = ViewListRemovePrefix(buffer, n).kept
    BY <1>1
  <2> QED
    BY <2>1, <2>2, <2>3 DEF RemovesViewPrefix
<1> DEFINE head == SubSeq(all, 1, n)
           tail == SubSeq(all, n + 1, Len(all))
<1>7. /\ head \in Seq(Byte) /\ Len(head) = n
      /\ tail \in Seq(Byte) /\ Len(tail) = Len(all) - n
  <2> HIDE DEF all
  <2>1. \A i \in 1..Len(all) : all[i] \in Byte
    BY <1>3, ElementOfSeq
  <2>2. head \in Seq(Byte) /\ Len(head) = n
    BY <1>3, <1>5, <2>1, SubSeqProperties
  <2>3. tail \in Seq(Byte) /\ Len(tail) = Len(all) - n
    BY <1>3, <1>5, <2>1, SubSeqProperties
  <2> QED
    BY <2>2, <2>3
<1>8. head \o tail = all
  <2> HIDE DEF all
  <2>1. 1 \in 1..(Len(all) + 1) /\ n \in (1 - 1)..Len(all) /\ Len(all) \in n..Len(all)
    BY <1>3, <1>5
  <2>2. head \o tail = SubSeq(all, 1, Len(all))
    BY <1>3, <2>1, ConcatAdjacentSubSeq
  <2> QED
    BY <1>3, <2>2, SubSeqFull
<1> HIDE DEF head, tail, all
<1>9. sent' = sent \o head /\ FlattenSeq(buffer') = tail
  BY <1>1, <1>6 DEF head, tail
<1>10. sent' \in Seq(Byte) /\ Len(sent') = Len(sent) + n
  BY <1>0, <1>7, <1>9, ConcatProperties
<1>11. Types'
  BY <1>0, <1>2, <1>6, <1>10 DEF Types
<1>12. NothingLostNothingTwice'
  <2>1. (sent \o head) \o tail = sent \o (head \o tail)
    <3>1. sent \in Seq(Byte) /\ head \in Seq(Byte) /\ tail \in Seq(Byte)
      BY <1>0, <1>7
    <3> QED
      BY <3>1, BytesAssociative
  <2>2. sent' \o FlattenSeq(buffer') = input'
    BY <1>0, <1>2, <1>8, <1>9, <2>1
  <2> QED
    BY <2>2 DEF NothingLostNothingTwice
<1>13. CountIsSent'
  BY <1>0, <1>1, <1>10 DEF CountIsSent
<1>14. ReturnedAfterATurn'
  <2> SUFFICES ASSUME pc' = "returned"
               PROVE  /\ registered'
                      /\ write_all' => FlattenSeq(buffer') = <<>>
                      /\ sent' = <<>> => FlattenSeq(buffer') = <<>>
    BY DEF ReturnedAfterATurn
  <2>1. registered'
    BY <1>1
  <2>2. ~Again(buffer')
    BY <1>1
  <2>3. ASSUME write_all' PROVE FlattenSeq(buffer') = <<>>
    <3>1. ~(ViewListSize(buffer') > 0)
      BY <1>2, <2>2, <2>3 DEF Again
    <3>2. ViewListSize(buffer') = Len(tail)
      BY <1>6, <1>9, ViewSizeIsLength
    <3>3. Len(tail) = 0
      BY <1>7, <3>1, <3>2, LenProperties
    <3> QED
      BY <1>7, <1>9, <3>3, EmptySeq
  <2>4. ASSUME sent' = <<>> PROVE FlattenSeq(buffer') = <<>>
    <3>1. Len(sent') = 0
      BY <2>4, EmptySeq
    <3>2. n = 0
      <4>1. Len(sent) + n = 0 /\ Len(sent) \in Nat /\ n \in Nat
        BY <1>3, <1>5, <1>10, <3>1
      <4> QED
        BY <4>1
    <3>3. Len(tail) = 0
      BY <1>4, <1>7, <3>2
    <3> QED
      BY <1>7, <1>9, <3>3, EmptySeq
  <2> QED
    BY <2>1, <2>3, <2>4
<1> QED
  BY <1>11, <1>12, <1>13, <1>14 DEF IInv

\* The other steps touch neither the data nor the count; a writev(2) that
\* fails does not return.
LEMMA NextIInv == IInv /\ [Next]_vars => IInv'
<1> SUFFICES ASSUME IInv, [Next]_vars PROVE IInv'
  OBVIOUS
<1> USE DEF IInv, Types, NothingLostNothingTwice, CountIsSent, ReturnedAfterATurn
<1>1. CASE Writev
  BY <1>1, WritevIInv
<1>2. CASE WritevFails
  BY <1>2 DEF WritevFails
<1>3. CASE WritevInterrupted
  BY <1>3 DEF WritevInterrupted
<1>4. CASE WritevReturnsNothing
  BY <1>4 DEF WritevReturnsNothing
<1>5. CASE PeerReads
  BY <1>5 DEF PeerReads
<1>6. CASE PeerGoes
  BY <1>6 DEF PeerGoes
<1>7. CASE UNCHANGED vars
  BY <1>7 DEF vars
<1> QED
  BY <1>1, <1>2, <1>3, <1>4, <1>5, <1>6, <1>7 DEF Next
-----------------------------------------------------------------------------
\* What writev(2) took and what is still to be written are the caller's
\* bytes, in order, for every way writev(2) may cut them, also when the call
\* throws half way.
THEOREM NothingIsLost == Spec => []NothingLostNothingTwice
<1>1. IInv => NothingLostNothingTwice
  BY DEF IInv
<1> QED
  BY <1>1, InitIInv, NextIInv, PTL DEF Spec

\* A write() that returns has sent what it says, all of it if write_all.
THEOREM WriteTellsTheTruth == Spec => []ResultTellsTruth
<1>1. IInv => ResultTellsTruth
  <2> SUFFICES ASSUME IInv, pc = "returned"
               PROVE  /\ total_bytes_written = Len(sent)
                      /\ write_all => sent = input
                      /\ input # <<>> => sent # <<>>
                      /\ registered
    BY DEF ResultTellsTruth
  <2>1. /\ sent \in Seq(Byte) /\ sent \o FlattenSeq(buffer) = input
        /\ total_bytes_written = Len(sent) /\ registered
        /\ write_all => FlattenSeq(buffer) = <<>>
        /\ sent = <<>> => FlattenSeq(buffer) = <<>>
    BY DEF IInv, Types, NothingLostNothingTwice, CountIsSent, ReturnedAfterATurn
  <2>2. sent \o <<>> = sent
    BY <2>1, ConcatEmptySeq
  <2> QED
    BY <2>1, <2>2
<1> QED
  BY <1>1, InitIInv, NextIInv, PTL DEF Spec
=============================================================================
