-------------------------- MODULE InternetChecksum --------------------------
(***************************************************************************)
(* class InternetChecksum (libsponge/util/util.hh, util.cc): the checksum  *)
(* of IP and TCP, fed with the data piece by piece.                        *)
(*                                                                         *)
(* A 16-bit word has B^2 values and the 32-bit accumulator B^4.  The       *)
(* reference adds whole words in one's complement, each carry wrapped      *)
(* around at once, and keeps the odd byte aside.  No name here is one of   *)
(* module NetParser, so that both can be reasoned about together.          *)
(***************************************************************************)
EXTENDS Bytes, SequencesExt

CONSTANTS MaxAdded,  \* bound on the bytes added
          MaxPiece,  \* bound on the length of one piece
          MaxInitial \* bound on the sum to start from

WordMod == B * B
SumMod == WordMod * WordMod

ASSUME ChecksumAssumption ==
  MaxAdded \in Nat /\ MaxPiece \in Nat /\ MaxInitial \in 0..SumMod - 1

VARIABLES
  _sum,     \* uint32_t
  _parity,  \* an odd number of bytes has been added
  count,    \* history: how many bytes have been added
  words,    \* reference: one's complement sum of the complete words
  odd       \* reference: the byte that is still without a partner, or 0

checksumVars == <<_sum, _parity, count, words, odd>>

\* One's complement addition of two words.
Plus(x, y) == IF x + y >= WordMod THEN x + y - WordMod + 1 ELSE x + y

\* InternetChecksum(initial_sum): the initial sum stands for its two words.
ChecksumInit ==
  /\ _sum \in 0..MaxInitial
  /\ _parity = FALSE
  /\ count = 0
  /\ words = Plus(_sum \div WordMod, _sum % WordMod)
  /\ odd = 0

\* The reference, after one more byte.
WordStep(before, byte) ==
  IF before.half
  THEN [words |-> Plus(before.words, before.odd * B + byte), odd |-> 0, half |-> FALSE]
  ELSE [before EXCEPT !.odd = byte, !.half = TRUE]

WordsOf(data) ==
  FoldLeft(WordStep, [words |-> words, odd |-> odd, half |-> count % 2 = 1], data)
-----------------------------------------------------------------------------
StartWithFreshParity == [sum |-> _sum, parity |-> FALSE]

\* The parity is kept from one piece to the next.
Start == [sum |-> _sum, parity |-> _parity]

\* One turn of the loop of add(): high bytes and low bytes alternate.
AddByte(before, byte) ==
  [sum |-> (before.sum + (IF before.parity THEN byte ELSE byte * B)) % SumMod,
   parity |-> ~before.parity]

SumOf(data) == FoldLeft(AddByte, Start, data)

add(data) ==
  /\ count + Len(data) <= MaxAdded
  /\ _sum' = SumOf(data).sum
  /\ _parity' = SumOf(data).parity
  /\ count' = count + Len(data)
  /\ words' = WordsOf(data).words
  /\ odd' = WordsOf(data).odd

FoldedOnce(sum) == (sum \div WordMod) + (sum % WordMod)

\* The loop of value(): fold the carries until the sum fits in a word.
Folded(sum) ==
  LET Fold[ret \in Nat] ==
        IF ret >= WordMod THEN Fold[(ret \div WordMod) + (ret % WordMod)] ELSE ret
  IN  Fold[sum]

\* ~ret as a uint16_t
value(sum) == WordMod - 1 - (Folded(sum) % WordMod)

Pieces == UNION {[1..n -> 0..B - 1] : n \in 0..MaxPiece}

ChecksumNext == \E data \in Pieces : add(data)

ChecksumSpec == ChecksumInit /\ [][ChecksumNext]_checksumVars
-----------------------------------------------------------------------------
\* value() is the complement of the one's complement sum of the data, padded
\* with a zero byte to whole words, wherever add() was called to cut it.
ValueIsTheChecksum == value(_sum) = WordMod - 1 - Plus(words, odd * B)

\* Data that ends with its own checksum checks out: adding the two bytes of
\* value() to an even number of bytes gives 0, which is what a receiver
\* tests.
ChecksumVerifies ==
  ~_parity =>
    LET v == value(_sum) IN
    value(SumOf(<<v \div B, v % B>>).sum) = 0
=============================================================================
