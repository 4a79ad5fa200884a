---------------------------- MODULE HeaderProofs ----------------------------
(***************************************************************************)
(* Proofs about the code that reads and writes the headers of packets:     *)
(* modules NetParser and Addresses, and InternetChecksum at the end, for   *)
(* bytes of any size, headers of any length and any order of calls.        *)
(***************************************************************************)
EXTENDS NetParser, InternetChecksum, BuffersProofs

Byte == 0..B - 1

Field == {f \in [width : Width, val : Nat] : f.val < Weight(f.width)}

ParserType ==
  /\ s \in Seq(Byte)
  /\ fields \in Seq(Field)
  /\ phase \in {"unparse", "parse"}
  /\ arrived \in Nat /\ taken \in Nat
  /\ result \in [ok : BOOLEAN, width : {0, 1, 2, 4}, val : Nat, at : Nat]

\* Nothing is parsed before the parser is made.
NotYetParsed ==
  phase = "unparse" =>
    taken = 0 /\ _error = "NoError" /\ result = NoResult

\* The parser's Buffer: the part of the string that arrived, read up to taken;
\* or drained, and its storage given up.
BufferIsTheRest ==
  phase = "parse" =>
    /\ _buffer.offset = taken
    /\ taken <= arrived /\ arrived <= Len(s)
    /\ _buffer.storage = NoStorage => taken = arrived
    /\ _buffer.storage # NoStorage => _buffer.storage = SubSeq(s, 1, arrived)

ParserInv == ParserType /\ NotYetParsed /\ BufferIsTheRest
-----------------------------------------------------------------------------
(***************************************************************************)
(* Weights and bytes.                                                      *)
(***************************************************************************)

\* A weight is a product of as many B.
LEMMA Weights ==
  /\ Weight(0) = 1 /\ Weight(1) = B /\ Weight(2) = B * B
  /\ Weight(3) = B * B * B /\ Weight(4) = B * B * B * B
  /\ \A n \in 0..4 : Weight(n) \in Nat \ {0}
<1>1. /\ Weight(0) = 1 /\ Weight(1) = B /\ Weight(2) = B * B
      /\ Weight(3) = B * B * B /\ Weight(4) = B * B * B * B
  BY DEF Weight
<1>2. B \in Nat \ {0}
  BY ByteAssumption
<1>3. \A x, y \in Nat \ {0} : x * y \in Nat \ {0}
  OBVIOUS
<1>4. B * B \in Nat \ {0}
  BY <1>2, <1>3
<1>5. B * B * B \in Nat \ {0}
  BY <1>2, <1>3, <1>4
<1>6. B * B * B * B \in Nat \ {0}
  BY <1>2, <1>3, <1>5
<1>7. \A n \in 0..4 : n = 0 \/ n = 1 \/ n = 2 \/ n = 3 \/ n = 4
  OBVIOUS
<1> QED
  BY <1>1, <1>2, <1>4, <1>5, <1>6, <1>7

\* _unparse_int() appends len bytes.
LEMMA UnparsedType ==
  ASSUME NEW len \in Width, NEW val \in Nat
  PROVE  /\ Unparsed(len, val) \in Seq(Byte)
         /\ Len(Unparsed(len, val)) = len
         /\ \A i \in 1..len : Unparsed(len, val)[i] = (val \div Weight(len - i)) % B
<1>1. len \in Nat /\ len \in 0..4
  BY DEF Width
<1>2. \A x \in Nat : x % B \in Byte
  BY ByteAssumption DEF Byte
<1>3. \A x \in Nat, y \in Nat \ {0} : x \div y \in Nat
  OBVIOUS
<1>4. \A i \in 1..len : len - i \in 0..4
  BY <1>1
<1>5. \A i \in 1..len : (val \div Weight(len - i)) % B \in Byte
  BY <1>2, <1>3, <1>4, Weights
<1>6. Unparsed(len, val) \in [1..len -> Byte]
  BY <1>5 DEF Unparsed
<1>7. Unparsed(len, val) \in Seq(Byte) /\ Len(Unparsed(len, val)) = len
  BY <1>1, <1>6
<1> QED
  BY <1>7 DEF Unparsed
-----------------------------------------------------------------------------
(***************************************************************************)
(* The parser's Buffer.                                                    *)
(***************************************************************************)

\* A part of a part of a string.
LEMMA PartOfPart ==
  ASSUME NEW E, NEW t \in Seq(E), NEW n \in 0..Len(t), NEW a \in Nat, a <= n
  PROVE  /\ SubSeq(SubSeq(t, 1, n), a + 1, Len(SubSeq(t, 1, n))) = SubSeq(t, a + 1, n)
         /\ Len(SubSeq(t, 1, n)) = n
         /\ Len(SubSeq(t, a + 1, n)) = n - a
         /\ SubSeq(t, a + 1, n) \in Seq(E)
<1>0. Len(t) \in Nat /\ \A i \in 1..Len(t) : t[i] \in E
  BY LenProperties, ElementOfSeq
<1>1. /\ SubSeq(t, 1, n) \in Seq(E) /\ Len(SubSeq(t, 1, n)) = n
      /\ \A i \in 1..n : SubSeq(t, 1, n)[i] = t[i]
  BY <1>0, SubSeqProperties
<1>2. /\ SubSeq(t, a + 1, n) \in Seq(E) /\ Len(SubSeq(t, a + 1, n)) = n - a
      /\ \A i \in 1..(n - a) : SubSeq(t, a + 1, n)[i] = t[a + i]
  BY <1>0, SubSeqProperties
<1> DEFINE p == SubSeq(t, 1, n)
           v == SubSeq(p, a + 1, n)
           w == SubSeq(t, a + 1, n)
<1>3. \A i \in (a + 1)..n : p[i] \in E
  BY <1>0, <1>1
<1> HIDE DEF p
<1>4. /\ v \in Seq(E) /\ Len(v) = n - a
      /\ \A i \in 1..(n - a) : v[i] = p[a + i]
  BY <1>3, SubSeqProperties
<1>5. \A i \in 1..(n - a) : p[a + i] = t[a + i]
  BY <1>1 DEF p
<1> HIDE DEF v, w
<1>6. v = w
  <2>1. w \in Seq(E) /\ Len(w) = n - a /\ \A i \in 1..(n - a) : w[i] = t[a + i]
    BY <1>2 DEF w
  <2>2. \A i \in 1..Len(v) : v[i] = w[i]
    BY <1>4, <1>5, <2>1
  <2> QED
    BY <1>4, <2>1, <2>2, SeqEqual
<1> QED
  BY <1>1, <1>2, <1>6 DEF v, w, p

\* What the parser has left is what follows the bytes it has taken.
LEMMA RestOfTheString ==
  ASSUME ParserType, BufferIsTheRest, phase = "parse"
  PROVE  /\ BufferSize(_buffer) \in Nat
         /\ taken + BufferSize(_buffer) = arrived /\ arrived <= Len(s)
         /\ Str(_buffer) = SubSeq(s, taken + 1, arrived)
<1>0. /\ s \in Seq(Byte) /\ Len(s) \in Nat /\ taken \in Nat /\ arrived \in Nat
      /\ taken <= arrived /\ arrived <= Len(s)
  BY LenProperties DEF ParserType, BufferIsTheRest
<1>1. CASE _buffer.storage = NoStorage
  <2>1. Str(_buffer) = <<>> /\ BufferSize(_buffer) = 0
    BY <1>1, EmptySeq DEF Str, BufferSize
  <2>2. taken = arrived
    BY <1>1 DEF BufferIsTheRest
  <2>3. SubSeq(s, taken + 1, taken + 0) = <<>> /\ taken + 0 = arrived
    BY <1>0, <2>2, SubSeqEmpty
  <2> QED
    BY <1>0, <2>1, <2>2, <2>3
<1>2. CASE _buffer.storage # NoStorage
  <2>1. Str(_buffer) = SubSeq(SubSeq(s, 1, arrived), taken + 1, Len(SubSeq(s, 1, arrived)))
    BY <1>2 DEF Str, BufferIsTheRest
  <2>2. arrived \in 0..Len(s)
    BY <1>0
  <2>3. Str(_buffer) = SubSeq(s, taken + 1, arrived) /\ BufferSize(_buffer) = arrived - taken
    BY <1>0, <2>1, <2>2, PartOfPart DEF BufferSize
  <2> QED
    BY <1>0, <2>3
<1> QED
  BY <1>1, <1>2

\* Buffer::remove_prefix() on the parser's Buffer.
LEMMA RestAfterRemoval ==
  ASSUME ParserType, BufferIsTheRest, phase = "parse",
         NEW n \in Nat, n <= BufferSize(_buffer),
         _buffer' = BufferRemovePrefix(_buffer, n), taken' = taken + n,
         s' = s, arrived' = arrived
  PROVE  BufferIsTheRest' /\ taken' \in Nat
<1>0. /\ Len(s) \in Nat /\ taken \in Nat /\ arrived \in Nat /\ BufferSize(_buffer) \in Nat
      /\ taken + BufferSize(_buffer) = arrived /\ arrived <= Len(s)
  BY LenProperties, RestOfTheString DEF ParserType
<1>1. taken + n <= arrived /\ taken + n \in Nat
  BY <1>0
<1>2. _buffer.offset = taken
  BY DEF BufferIsTheRest
<1>3. CASE _buffer.storage = NoStorage
  <2>1. _buffer'.storage = NoStorage /\ _buffer'.offset = taken + n
    BY <1>2, <1>3 DEF BufferRemovePrefix
  <2>2. taken + n = arrived
    BY <1>0, <1>1, <1>3 DEF BufferIsTheRest
  <2> QED
    BY <1>0, <1>1, <2>1, <2>2 DEF BufferIsTheRest
<1>4. CASE _buffer.storage # NoStorage
  <2>1. _buffer.storage = SubSeq(s, 1, arrived)
    BY <1>4 DEF BufferIsTheRest
  <2>2. Len(_buffer.storage) = arrived
    <3>1. arrived \in 0..Len(s) /\ s \in Seq(Byte) /\ 0 \in Nat /\ 0 <= arrived
      BY <1>0 DEF ParserType
    <3> QED
      BY <2>1, <3>1, PartOfPart
  <2>3. /\ _buffer'.offset = taken + n
        /\ _buffer'.storage =
             IF taken + n = arrived THEN NoStorage ELSE _buffer.storage
    BY <1>2, <1>4, <2>2 DEF BufferRemovePrefix
  <2> QED
    BY <1>0, <1>1, <1>4, <2>1, <2>3 DEF BufferIsTheRest
<1> QED
  BY <1>3, <1>4
-----------------------------------------------------------------------------
(***************************************************************************)
(* The loops over bytes and fields, as folds.                              *)
(***************************************************************************)

\* Reading in network byte order, one byte more.
LEMMA NetworkOrderAppend ==
  /\ NetworkOrder(<<>>) = 0
  /\ \A list \in Seq(Byte) : NetworkOrder(list) \in Nat
  /\ \A list \in Seq(Byte), b \in Byte :
       NetworkOrder(Append(list, b)) = NetworkOrder(list) * B + b
<1> DEFINE L == Byte
           V == Nat
           f == [p \in V \X L |-> p[1] * B + p[2]]
<1>0. B \in Nat /\ \A b \in L : b \in Nat
  BY ByteAssumption DEF Byte
<1> HIDE DEF L
<1>1. FoldsInto(f, 0, V, L)
  BY <1>0 DEF FoldsInto
<1>2. \A v \in V, b \in L : f[<<v, b>>] = v * B + b
  OBVIOUS
<1> HIDE DEF f, V
<1>3. ASSUME NEW list \in Seq(L)
      PROVE  NetworkOrder(list) = Fold(f, 0, list, V)
  <2> DEFINE R(iter) == iter = [d \in SUBSET DOMAIN list |->
               IF d = {} THEN 0
               ELSE iter[d \ {Max(d)}] * B + list[Max(d)]]
             it == CHOOSE iter : R(iter)
  <2>1. NetworkOrder(list) = it[DOMAIN list]
    BY DEF NetworkOrder, FoldLeft, MapThenFoldSet
  <2>2. \A d \in SUBSET DOMAIN list : d # {} => list[Max(d)] \in L
    BY LastIndex
  <2>3. DOMAIN list = 1..Len(list)
    BY LenProperties
  <2>4. \E iter : R(iter)
    <3>1. PICK iter : IsIter(iter, f, 0, list, V)
      BY <1>1, IterExists
    <3>2. R(iter)
      BY <1>2, <2>2, <2>3, <3>1 DEF IsIter
    <3> QED
      BY <3>2
  <2>5. R(it)
    BY <2>4
  <2> HIDE DEF it
  <2>6. Recurses(it, f, 0, list, V)
    BY <1>2, <2>2, <2>5 DEF Recurses
  <2> QED
    BY <1>1, <2>1, <2>6, IterIsFold
<1>4. /\ Fold(f, 0, <<>>, V) = 0
      /\ \A list \in Seq(L) : Fold(f, 0, list, V) \in V
      /\ \A list \in Seq(L), b \in L :
           Fold(f, 0, Append(list, b), V) = f[<<Fold(f, 0, list, V), b>>]
  BY <1>1, FoldAppend
<1>5. <<>> \in Seq(L) /\ \A list \in Seq(L), b \in L : Append(list, b) \in Seq(L)
  BY EmptySeq, AppendProperties
<1>6. NetworkOrder(<<>>) = 0
  BY <1>3, <1>4, <1>5
<1>7. ASSUME NEW list \in Seq(L) PROVE NetworkOrder(list) \in V
  BY <1>3, <1>4
<1>8. ASSUME NEW list \in Seq(L), NEW b \in L
      PROVE  NetworkOrder(Append(list, b)) = NetworkOrder(list) * B + b
  <2>1. NetworkOrder(Append(list, b)) = Fold(f, 0, Append(list, b), V)
    BY <1>3, <1>5
  <2>2. Fold(f, 0, Append(list, b), V) = f[<<Fold(f, 0, list, V), b>>]
    BY <1>4
  <2>3. NetworkOrder(list) = Fold(f, 0, list, V) /\ NetworkOrder(list) \in V
    BY <1>3, <1>7
  <2> QED
    BY <1>2, <2>1, <2>2, <2>3
<1> QED
  BY <1>6, <1>7, <1>8 DEF L, V

\* be32toh(), one byte more.
LEMMA be32tohAppend ==
  /\ be32toh(<<>>) = 0
  /\ \A list \in Seq(Byte) : be32toh(list) \in Nat
  /\ \A list \in Seq(Byte), b \in Byte :
       be32toh(Append(list, b)) = be32toh(list) * B + b
<1> DEFINE L == Byte
           V == Nat
           f == [p \in V \X L |-> p[1] * B + p[2]]
<1>0. B \in Nat /\ \A b \in L : b \in Nat
  BY ByteAssumption DEF Byte
<1> HIDE DEF L
<1>1. FoldsInto(f, 0, V, L)
  BY <1>0 DEF FoldsInto
<1>2. \A v \in V, b \in L : f[<<v, b>>] = v * B + b
  OBVIOUS
<1> HIDE DEF f, V
<1>3. ASSUME NEW list \in Seq(L)
      PROVE  be32toh(list) = Fold(f, 0, list, V)
  <2> DEFINE R(iter) == iter = [d \in SUBSET DOMAIN list |->
               IF d = {} THEN 0
               ELSE iter[d \ {Max(d)}] * B + list[Max(d)]]
             it == CHOOSE iter : R(iter)
  <2>1. be32toh(list) = it[DOMAIN list]
    BY DEF be32toh, FoldLeft, MapThenFoldSet
  <2>2. \A d \in SUBSET DOMAIN list : d # {} => list[Max(d)] \in L
    BY LastIndex
  <2>3. DOMAIN list = 1..Len(list)
    BY LenProperties
  <2>4. \E iter : R(iter)
    <3>1. PICK iter : IsIter(iter, f, 0, list, V)
      BY <1>1, IterExists
    <3>2. R(iter)
      BY <1>2, <2>2, <2>3, <3>1 DEF IsIter
    <3> QED
      BY <3>2
  <2>5. R(it)
    BY <2>4
  <2> HIDE DEF it
  <2>6. Recurses(it, f, 0, list, V)
    BY <1>2, <2>2, <2>5 DEF Recurses
  <2> QED
    BY <1>1, <2>1, <2>6, IterIsFold
<1>4. /\ Fold(f, 0, <<>>, V) = 0
      /\ \A list \in Seq(L) : Fold(f, 0, list, V) \in V
      /\ \A list \in Seq(L), b \in L :
           Fold(f, 0, Append(list, b), V) = f[<<Fold(f, 0, list, V), b>>]
  BY <1>1, FoldAppend
<1>5. <<>> \in Seq(L) /\ \A list \in Seq(L), b \in L : Append(list, b) \in Seq(L)
  BY EmptySeq, AppendProperties
<1>6. be32toh(<<>>) = 0
  BY <1>3, <1>4, <1>5
<1>7. ASSUME NEW list \in Seq(L) PROVE be32toh(list) \in V
  BY <1>3, <1>4
<1>8. ASSUME NEW list \in Seq(L), NEW b \in L
      PROVE  be32toh(Append(list, b)) = be32toh(list) * B + b
  <2>1. be32toh(Append(list, b)) = Fold(f, 0, Append(list, b), V)
    BY <1>3, <1>5
  <2>2. Fold(f, 0, Append(list, b), V) = f[<<Fold(f, 0, list, V), b>>]
    BY <1>4
  <2>3. be32toh(list) = Fold(f, 0, list, V) /\ be32toh(list) \in V
    BY <1>3, <1>7
  <2> QED
    BY <1>2, <2>1, <2>2, <2>3
<1> QED
  BY <1>6, <1>7, <1>8 DEF L, V

\* The length of one field more.
LEMMA TotalAppend ==
  /\ Total(<<>>) = 0
  /\ \A list \in Seq(Field) : Total(list) \in Nat
  /\ \A list \in Seq(Field), b \in Field :
       Total(Append(list, b)) = Total(list) + b.width
<1> DEFINE L == Field
           V == Nat
           f == [p \in V \X L |-> p[1] + p[2].width]
<1>0. \A b \in L : b.width \in Nat
  BY DEF Field, Width
<1> HIDE DEF L
<1>1. FoldsInto(f, 0, V, L)
  BY <1>0 DEF FoldsInto
<1>2. \A v \in V, b \in L : f[<<v, b>>] = v + b.width
  OBVIOUS
<1> HIDE DEF f, V
<1>3. ASSUME NEW list \in Seq(L)
      PROVE  Total(list) = Fold(f, 0, list, V)
  <2> DEFINE R(iter) == iter = [d \in SUBSET DOMAIN list |->
               IF d = {} THEN 0
               ELSE iter[d \ {Max(d)}] + list[Max(d)].width]
             it == CHOOSE iter : R(iter)
  <2>1. Total(list) = it[DOMAIN list]
    BY DEF Total, FoldLeft, MapThenFoldSet
  <2>2. \A d \in SUBSET DOMAIN list : d # {} => list[Max(d)] \in L
    BY LastIndex
  <2>3. DOMAIN list = 1..Len(list)
    BY LenProperties
  <2>4. \E iter : R(iter)
    <3>1. PICK iter : IsIter(iter, f, 0, list, V)
      BY <1>1, IterExists
    <3>2. R(iter)
      BY <1>2, <2>2, <2>3, <3>1 DEF IsIter
    <3> QED
      BY <3>2
  <2>5. R(it)
    BY <2>4
  <2> HIDE DEF it
  <2>6. Recurses(it, f, 0, list, V)
    BY <1>2, <2>2, <2>5 DEF Recurses
  <2> QED
    BY <1>1, <2>1, <2>6, IterIsFold
<1>4. /\ Fold(f, 0, <<>>, V) = 0
      /\ \A list \in Seq(L) : Fold(f, 0, list, V) \in V
      /\ \A list \in Seq(L), b \in L :
           Fold(f, 0, Append(list, b), V) = f[<<Fold(f, 0, list, V), b>>]
  BY <1>1, FoldAppend
<1>5. <<>> \in Seq(L) /\ \A list \in Seq(L), b \in L : Append(list, b) \in Seq(L)
  BY EmptySeq, AppendProperties
<1>6. Total(<<>>) = 0
  BY <1>3, <1>4, <1>5
<1>7. ASSUME NEW list \in Seq(L) PROVE Total(list) \in V
  BY <1>3, <1>4
<1>8. ASSUME NEW list \in Seq(L), NEW b \in L
      PROVE  Total(Append(list, b)) = Total(list) + b.width
  <2>1. Total(Append(list, b)) = Fold(f, 0, Append(list, b), V)
    BY <1>3, <1>5
  <2>2. Fold(f, 0, Append(list, b), V) = f[<<Fold(f, 0, list, V), b>>]
    BY <1>4
  <2>3. Total(list) = Fold(f, 0, list, V) /\ Total(list) \in V
    BY <1>3, <1>7
  <2> QED
    BY <1>2, <2>1, <2>2, <2>3
<1> QED
  BY <1>6, <1>7, <1>8 DEF L, V
-----------------------------------------------------------------------------
(***************************************************************************)
(* The inductive invariant.                                                *)
(***************************************************************************)

\* Before anything is unparsed.
LEMMA InitParser == Init => ParserInv
<1> SUFFICES ASSUME Init PROVE ParserInv
  OBVIOUS
<1>1. s \in Seq(Byte) /\ fields \in Seq(Field)
  BY EmptySeq DEF Init
<1>2. ParserType
  BY <1>1 DEF Init, ParserType, NoResult
<1> QED
  BY <1>2 DEF Init, ParserInv, NotYetParsed, BufferIsTheRest

\* The part of the string from a on, of n bytes, read in network byte order.
ReadAt(a, n) == NetworkOrder(SubSeq(s, a + 1, a + n)) % Weight(n)

\* What the parser reads is the string behind the bytes taken.
LEMMA ReadsTheString ==
  ASSUME ParserType, BufferIsTheRest, phase = "parse",
         NEW n \in Width, n <= BufferSize(_buffer)
  PROVE  /\ SubSeq(Str(_buffer), 1, n) = SubSeq(s, taken + 1, taken + n)
         /\ SubSeq(s, taken + 1, taken + n) \in Seq(Byte)
         /\ Len(SubSeq(s, taken + 1, taken + n)) = n
<1> DEFINE m == arrived
<1>0. n \in Nat /\ n >= 1 /\ s \in Seq(Byte) /\ taken \in Nat /\ Len(s) \in Nat
  BY LenProperties DEF Width, ParserType
<1>1. /\ m \in 0..Len(s) /\ taken + n <= m /\ m \in Nat
      /\ Str(_buffer) = SubSeq(s, taken + 1, m)
  BY <1>0, RestOfTheString DEF ParserType
<1> HIDE DEF m
<1>2. SubSeq(SubSeq(s, taken + 1, m), 1, n) = SubSeq(s, taken + 1 + 1 - 1, taken + 1 + n - 1)
  <2>1. /\ taken + 1 \in 1..Len(s) /\ m \in 1..Len(s)
        /\ 1 \in 1..(m - (taken + 1) + 1) /\ n \in 1..(m - (taken + 1) + 1)
    BY <1>0, <1>1
  <2> QED
    BY <1>0, <2>1, SubSeqOfSubSeq
<1>3. taken + 1 + 1 - 1 = taken + 1 /\ taken + 1 + n - 1 = taken + n
  BY <1>0
<1>4. \A i \in (taken + 1)..(taken + n) : s[i] \in Byte
  BY <1>0, <1>1, ElementOfSeq
<1>5. /\ SubSeq(s, taken + 1, taken + n) \in Seq(Byte)
      /\ Len(SubSeq(s, taken + 1, taken + n)) = n
  BY <1>0, <1>4, SubSeqProperties
<1> QED
  BY <1>1, <1>2, <1>3, <1>5

\* NetUnparser::u8(), u16(), u32()
LEMMA UnparseStep ==
  ASSUME ParserInv, NEW len \in Width, NEW val \in 0..Weight(len) - 1, unparse(len, val)
  PROVE  ParserInv'
<1>1. len \in 0..4 /\ val \in Nat /\ val < Weight(len)
  BY Weights DEF Width
<1>2. s' \in Seq(Byte)
  BY <1>1, UnparsedType, ConcatProperties DEF ParserInv, ParserType, unparse
<1>3. [width |-> len, val |-> val] \in Field
  BY <1>1 DEF Field
<1>4. fields' \in Seq(Field)
  BY <1>3, AppendProperties DEF ParserInv, ParserType, unparse
<1>5. ParserType'
  BY <1>2, <1>4 DEF ParserInv, ParserType, unparse
<1> QED
  BY <1>5 DEF ParserInv, unparse, NotYetParsed, BufferIsTheRest

\* NetParser(buffer)
LEMMA NetParserStep ==
  ASSUME ParserInv, NEW n \in 0..Len(s), NetParser(n)
  PROVE  ParserInv'
<1>1. ParserType'
  BY DEF ParserInv, ParserType, NetParser
<1>2. /\ Len(s) \in Nat /\ n \in Nat /\ taken = 0 /\ s \in Seq(Byte)
      /\ taken' = 0 /\ arrived' = n /\ s' = s
  BY LenProperties DEF ParserInv, ParserType, NotYetParsed, NetParser
<1>3. _buffer'.storage = SubSeq(s, 1, n) /\ _buffer'.offset = 0
  BY DEF NetParser, BufferOf
<1>4. _buffer'.storage # NoStorage
  <2>1. \A i \in 1..n : s[i] \in Byte
    BY <1>2, ElementOfSeq
  <2>2. SubSeq(s, 1, n) \in Seq(Byte)
    BY <1>2, <2>1, SubSeqProperties
  <2> QED
    BY <1>3, <2>2, ParserAssumption DEF Byte
<1>5. BufferIsTheRest'
  BY <1>2, <1>3, <1>4 DEF BufferIsTheRest
<1> QED
  BY <1>1, <1>5 DEF ParserInv, NetParser, NotYetParsed

\* NetParser::u8(), u16(), u32(): what they return, when there is no error.
LEMMA IntReads ==
  ASSUME ParserInv, NEW len \in Width, u(len)
  PROVE  /\ CheckSize(len) = "NoError" =>
              /\ len <= BufferSize(_buffer)
              /\ result' = [ok |-> TRUE, width |-> len, at |-> taken, val |-> ReadAt(taken, len)]
              /\ ReadAt(taken, len) \in Nat
         /\ CheckSize(len) # "NoError" =>
              /\ _error' # "NoError"
              /\ result' = [ok |-> FALSE, width |-> len, val |-> 0, at |-> taken]
              /\ UNCHANGED <<_buffer, taken>>
<1>0. len \in Nat /\ len \in 0..4 /\ BufferSize(_buffer) \in Nat
  BY RestOfTheString DEF Width, ParserInv, u
<1>1. ASSUME CheckSize(len) = "NoError"
      PROVE  /\ len <= BufferSize(_buffer)
             /\ result' = [ok |-> TRUE, width |-> len, at |-> taken, val |-> ReadAt(taken, len)]
             /\ ReadAt(taken, len) \in Nat
  <2>1. len <= BufferSize(_buffer)
    BY <1>0, <1>1 DEF CheckSize
  <2>3. /\ SubSeq(Str(_buffer), 1, len) = SubSeq(s, taken + 1, taken + len)
        /\ SubSeq(s, taken + 1, taken + len) \in Seq(Byte)
    BY <2>1, ReadsTheString DEF ParserInv, u
  <2>4. result' = [ok |-> TRUE, width |-> len, at |-> taken,
                   val |-> NetworkOrder(SubSeq(Str(_buffer), 1, len)) % Weight(len)]
    BY <1>1 DEF u
  <2>5. NetworkOrder(SubSeq(s, taken + 1, taken + len)) \in Nat
    BY <2>3, NetworkOrderAppend
  <2>6. \A x \in Nat, y \in Nat \ {0} : x % y \in Nat
    OBVIOUS
  <2>7. ReadAt(taken, len) \in Nat
    BY <1>0, <2>5, <2>6, Weights DEF ReadAt
  <2> QED
    BY <2>1, <2>3, <2>4, <2>7 DEF ReadAt
<1>2. ASSUME CheckSize(len) # "NoError"
      PROVE  /\ _error' # "NoError"
             /\ result' = [ok |-> FALSE, width |-> len, val |-> 0, at |-> taken]
             /\ UNCHANGED <<_buffer, taken>>
  BY <1>2 DEF u
<1> QED
  BY <1>1, <1>2

\* ... and what they do to the parser.
LEMMA IntStep ==
  ASSUME ParserInv, NEW len \in Width, u(len)
  PROVE  ParserInv'
<1>0. len \in Nat /\ phase = "parse"
  BY DEF Width, u
<1>1. BufferIsTheRest' /\ taken' \in Nat
  <2>1. CASE CheckSize(len) = "NoError"
    <3>1. /\ _buffer' = BufferRemovePrefix(_buffer, len) /\ taken' = taken + len
          /\ s' = s /\ arrived' = arrived
      BY <2>1 DEF u
    <3> QED
      BY <1>0, <2>1, <3>1, IntReads, RestAfterRemoval DEF ParserInv
  <2>2. CASE CheckSize(len) # "NoError"
    BY <2>2, IntReads DEF ParserInv, ParserType, BufferIsTheRest, u
  <2> QED
    BY <2>1, <2>2
<1>2. result' \in [ok : BOOLEAN, width : {0, 1, 2, 4}, val : Nat, at : Nat]
  <2>1. len \in {0, 1, 2, 4} /\ taken \in Nat /\ 0 \in Nat
    BY DEF ParserInv, ParserType, Width
  <2>2. CASE CheckSize(len) = "NoError"
    <3>1. /\ result' = [ok |-> TRUE, width |-> len, at |-> taken, val |-> ReadAt(taken, len)]
          /\ ReadAt(taken, len) \in Nat
      BY <2>2, IntReads
    <3> QED
      BY <2>1, <3>1
  <2>3. CASE CheckSize(len) # "NoError"
    <3>1. result' = [ok |-> FALSE, width |-> len, val |-> 0, at |-> taken]
      BY <2>3, IntReads
    <3> QED
      BY <2>1, <3>1
  <2> QED
    BY <2>2, <2>3
<1>3. ParserType' /\ NotYetParsed'
  BY <1>1, <1>2 DEF ParserInv, ParserType, NotYetParsed, u
<1> QED
  BY <1>1, <1>3 DEF ParserInv

\* NetParser::remove_prefix()
LEMMA RemovePrefixStep ==
  ASSUME ParserInv, NEW n \in 0..3, remove_prefix(n)
  PROVE  /\ ParserInv'
         /\ CheckSize(n) # "NoError" => _error' # "NoError" /\ UNCHANGED <<_buffer, taken>>
<1>0. n \in Nat /\ phase = "parse" /\ BufferSize(_buffer) \in Nat
  BY RestOfTheString DEF ParserInv, remove_prefix
<1>1. CASE CheckSize(n) = "NoError"
  <2>1. n <= BufferSize(_buffer) /\ _error = "NoError"
    BY <1>0, <1>1 DEF CheckSize
  <2>2. /\ _buffer' = BufferRemovePrefix(_buffer, n) /\ taken' = taken + n
        /\ s' = s /\ arrived' = arrived
    BY <1>1 DEF remove_prefix
  <2>3. BufferIsTheRest' /\ taken' \in Nat
    BY <1>0, <2>1, <2>2, RestAfterRemoval DEF ParserInv
  <2> QED
    BY <1>1, <2>1, <2>3
      DEF ParserInv, ParserType, NotYetParsed, remove_prefix
<1>2. CASE CheckSize(n) # "NoError"
  <2>1. UNCHANGED <<s, fields, phase, arrived, taken, result, _buffer>> /\ _error' # "NoError"
    BY <1>2 DEF remove_prefix
  <2>2. BufferIsTheRest'
    BY <2>1 DEF ParserInv, BufferIsTheRest
  <2> QED
    BY <1>2, <2>1, <2>2
      DEF ParserInv, ParserType, NotYetParsed, remove_prefix
<1> QED
  BY <1>1, <1>2

\* set_error()
LEMMA SetErrorStep ==
  ASSUME ParserInv, NEW res \in ParseResult, set_error(res)
  PROVE  ParserInv'
<1>1. UNCHANGED <<s, fields, phase, arrived, taken, result, _buffer>>
  BY DEF set_error
<1>2. BufferIsTheRest'
  BY <1>1 DEF ParserInv, BufferIsTheRest
<1>3. ParserType' /\ NotYetParsed'
  BY <1>1 DEF ParserInv, ParserType, NotYetParsed, set_error
<1> QED
  BY <1>2, <1>3 DEF ParserInv

\* Every call keeps ParserInv.
LEMMA NextParser == ParserInv /\ [Next]_vars => ParserInv'
<1> SUFFICES ASSUME ParserInv, [Next]_vars PROVE ParserInv'
  OBVIOUS
<1>1. CASE UNCHANGED vars
  BY <1>1
    DEF vars, ParserInv, ParserType, NotYetParsed, BufferIsTheRest
<1> QED
  BY <1>1, UnparseStep, NetParserStep, IntStep, RemovePrefixStep, SetErrorStep DEF Next

\* ParserInv holds throughout.
LEMMA ParserInvariance == Spec => []ParserInv
  BY InitParser, NextParser, PTL DEF Spec

\* Whatever integers are read, however many bytes are skipped and whatever
\* errors are cleared, _check_size() keeps the parser inside the bytes that
\* arrived, and what its Buffer holds is those that it has not taken.
THEOREM ParserStaysInside == Spec => []NeverPastTheEnd
<1>1. ParserInv => NeverPastTheEnd
  BY RestOfTheString DEF ParserInv, BufferIsTheRest, NeverPastTheEnd
<1> QED
  BY <1>1, ParserInvariance, PTL

\* With an error, whether a short packet or one that set_error() was told of,
\* no call of the parser consumes anything or returns an integer other than
\* 0, and none but set_error(NoError) clears the error.
THEOREM AnErrorStopsTheParser == Spec => ErrorStops
<1>1. ParserInv /\ [Next]_vars =>
        [_error # "NoError" =>
           /\ _error' # "NoError" \/ set_error("NoError")
           /\ UNCHANGED <<_buffer, taken>>
           /\ result' # result => result'.val = 0 /\ ~result'.ok]_vars
  <2> SUFFICES ASSUME ParserInv, Next, _error # "NoError"
               PROVE  /\ _error' # "NoError" \/ set_error("NoError")
                      /\ UNCHANGED <<_buffer, taken>>
                      /\ result' # result => result'.val = 0 /\ ~result'.ok
    OBVIOUS
  <2>0. phase = "parse"
    BY DEF ParserInv, ParserType, NotYetParsed
  <2>1. \A n : CheckSize(n) # "NoError"
    BY DEF CheckSize
  <2>2. ASSUME NEW len \in Width, u(len)
        PROVE  /\ _error' # "NoError" /\ UNCHANGED <<_buffer, taken>>
               /\ result'.val = 0 /\ ~result'.ok
    <3>1. /\ _error' # "NoError" /\ UNCHANGED <<_buffer, taken>>
          /\ result' = [ok |-> FALSE, width |-> len, val |-> 0, at |-> taken]
      BY <2>1, <2>2, IntReads
    <3> QED
      BY <3>1
  <2>3. ASSUME NEW n \in 0..3, remove_prefix(n)
        PROVE  _error' # "NoError" /\ UNCHANGED <<_buffer, taken, result>>
    BY <2>1, <2>3, RemovePrefixStep DEF remove_prefix
  <2>4. ASSUME NEW res \in ParseResult, set_error(res)
        PROVE  /\ _error' # "NoError" \/ set_error("NoError")
               /\ UNCHANGED <<_buffer, taken, result>>
    BY <2>4 DEF set_error
  <2> QED
    BY <2>0, <2>2, <2>3, <2>4 DEF Next, unparse, NetParser
<1> QED
  BY <1>1, ParserInvariance, PTL DEF Spec, ErrorStops
-----------------------------------------------------------------------------
(***************************************************************************)
(* What is read is what was written.                                       *)
(***************************************************************************)

\* The i-th field is in the string, where the fields before it end.
FieldAt(i) ==
  /\ Position(i) \in Nat
  /\ Position(i) + fields[i].width <= Len(s)
  /\ SubSeq(s, Position(i) + 1, Position(i) + fields[i].width)
       = Unparsed(fields[i].width, fields[i].val)

FieldsWritten == Len(s) = Total(fields) /\ \A i \in 1..Len(fields) : FieldAt(i)

\* The integer last returned, if it was read without error, is what the string
\* has at the place where the parser stood.
ReadRight ==
  result.ok =>
    /\ result.width # 0
    /\ phase = "parse"
    /\ result.at + result.width <= Len(s)
    /\ result.val = ReadAt(result.at, result.width)

RoundTripInv == ParserInv /\ FieldsWritten /\ ReadRight

\* A part of a string that is not changed by what is appended.
LEMMA PartOfConcat ==
  ASSUME NEW E, NEW t \in Seq(E), NEW w \in Seq(E),
         NEW a \in Nat, NEW n \in Nat, a + n <= Len(t)
  PROVE  SubSeq(t \o w, a + 1, a + n) = SubSeq(t, a + 1, a + n)
<1>0. Len(t) \in Nat
  BY LenProperties
<1>1. CASE n = 0
  BY <1>0, <1>1, SubSeqEmpty
<1>2. CASE n # 0
  <2>1. a + 1 \in 1..Len(t) /\ a + n \in 1..Len(t)
    BY <1>0, <1>2
  <2> QED
    BY <2>1, SubSeqOfConcat1
<1> QED
  BY <1>1, <1>2

\* The part of a string that was appended.
LEMMA PartAppended ==
  ASSUME NEW E, NEW t \in Seq(E), NEW w \in Seq(E)
  PROVE  SubSeq(t \o w, Len(t) + 1, Len(t) + Len(w)) = w
<1>0. Len(t) \in Nat /\ Len(w) \in Nat
  BY LenProperties
<1>1. CASE Len(w) = 0
  BY <1>0, <1>1, SubSeqEmpty, EmptySeq
<1>2. CASE Len(w) # 0
  <2>1. /\ Len(t) + 1 \in (Len(t) + 1)..(Len(t) + Len(w))
        /\ Len(t) + Len(w) \in (Len(t) + 1)..(Len(t) + Len(w))
    BY <1>0, <1>2
  <2>2. SubSeq(t \o w, Len(t) + 1, Len(t) + Len(w))
          = SubSeq(w, Len(t) + 1 - Len(t), Len(t) + Len(w) - Len(t))
    BY <2>1, SubSeqOfConcat2
  <2>3. Len(t) + 1 - Len(t) = 1 /\ Len(t) + Len(w) - Len(t) = Len(w)
    BY <1>0
  <2> QED
    BY <2>2, <2>3, SubSeqFull
<1> QED
  BY <1>1, <1>2

\* One field more leaves the positions of the others alone, and stands at
\* the end.
LEMMA PositionAfterAppend ==
  ASSUME NEW fs \in Seq(Field), NEW f \in Field
  PROVE  /\ \A i \in 1..Len(fs) :
              SubSeq(Append(fs, f), 1, i - 1) = SubSeq(fs, 1, i - 1)
         /\ SubSeq(Append(fs, f), 1, Len(fs)) = fs
<1>0. Len(fs) \in Nat /\ <<f>> \in Seq(Field) /\ Append(fs, f) = fs \o <<f>>
  BY LenProperties, AppendIsConcat
<1>1. ASSUME NEW i \in 1..Len(fs)
      PROVE  SubSeq(Append(fs, f), 1, i - 1) = SubSeq(fs, 1, i - 1)
  <2>1. i - 1 \in Nat /\ 0 + (i - 1) <= Len(fs) /\ 0 + 1 = 1 /\ 0 + (i - 1) = i - 1
    BY <1>0
  <2>2. SubSeq(fs \o <<f>>, 0 + 1, 0 + (i - 1)) = SubSeq(fs, 0 + 1, 0 + (i - 1))
    BY <1>0, <2>1, PartOfConcat
  <2> QED
    BY <1>0, <2>1, <2>2
<1>2. SubSeq(Append(fs, f), 1, Len(fs)) = fs
  <2>1. SubSeq(fs \o <<f>>, 0 + 1, 0 + Len(fs)) = SubSeq(fs, 0 + 1, 0 + Len(fs))
    BY <1>0, PartOfConcat
  <2>2. 0 + 1 = 1 /\ 0 + Len(fs) = Len(fs)
    BY <1>0
  <2> QED
    BY <1>0, <2>1, <2>2, SubSeqFull
<1> QED
  BY <1>1, <1>2

\* An integer that is unparsed is one field more in the string.
LEMMA UnparseWrites ==
  ASSUME ParserInv, FieldsWritten,
         NEW len \in Width, NEW val \in 0..Weight(len) - 1, unparse(len, val)
  PROVE  FieldsWritten'
<1> DEFINE f == [width |-> len, val |-> val]
           w == Unparsed(len, val)
<1>1. len \in 0..4 /\ len \in Nat /\ val \in Nat /\ val < Weight(len)
  BY Weights DEF Width
<1>2. f \in Field /\ f.width = len /\ f.val = val
  BY <1>1 DEF Field
<1>3. w \in Seq(Byte) /\ Len(w) = len
  BY <1>1, UnparsedType
<1>4. /\ s \in Seq(Byte) /\ fields \in Seq(Field)
      /\ s' = s \o w /\ fields' = Append(fields, f)
  BY DEF ParserInv, ParserType, unparse
<1> HIDE DEF f, w
<1>5. /\ Len(s) \in Nat /\ Len(s') = Len(s) + len
      /\ Len(fields) \in Nat /\ Len(fields') = Len(fields) + 1
      /\ \A i \in 1..Len(fields) : fields'[i] = fields[i]
      /\ fields'[Len(fields) + 1] = f
  BY <1>1, <1>2, <1>3, <1>4, LenProperties, ConcatProperties, AppendProperties
<1>6. Len(s') = Total(fields')
  BY <1>2, <1>4, <1>5, TotalAppend DEF FieldsWritten
<1>7. ASSUME NEW i \in 1..Len(fields') PROVE FieldAt(i)'
  <2>0. Position(i)' = Total(SubSeq(fields', 1, i - 1))
    BY DEF Position
  <2>1. CASE i \in 1..Len(fields)
    <3>1. FieldAt(i) /\ fields[i] \in Field
      BY <1>4, <2>1, ElementOfSeq DEF FieldsWritten
    <3>2. Position(i)' = Position(i)
      BY <1>2, <1>4, <2>0, <2>1, PositionAfterAppend DEF Position
    <3>3. fields'[i] = fields[i] /\ fields[i].width \in Nat
      BY <1>5, <2>1, <3>1 DEF Field, Width
    <3>4. SubSeq(s', Position(i) + 1, Position(i) + fields[i].width)
            = SubSeq(s, Position(i) + 1, Position(i) + fields[i].width)
      BY <1>3, <1>4, <3>1, <3>3, PartOfConcat DEF FieldAt
    <3>5. Position(i) + fields[i].width <= Len(s')
      BY <1>1, <1>5, <3>1, <3>3 DEF FieldAt
    <3> QED
      BY <3>1, <3>2, <3>3, <3>4, <3>5 DEF FieldAt
  <2>2. CASE i = Len(fields) + 1
    <3>1. i - 1 = Len(fields)
      BY <1>5, <2>2
    <3>2. Position(i)' = Len(s)
      BY <1>2, <1>4, <2>0, <3>1, PositionAfterAppend DEF FieldsWritten
    <3>3. SubSeq(s', Len(s) + 1, Len(s) + len) = w
      BY <1>3, <1>4, PartAppended
    <3>4. fields'[i].width = len /\ fields'[i].val = val
      BY <1>2, <1>5, <2>2
    <3>5. /\ Position(i)' \in Nat
          /\ Position(i)' + fields'[i].width <= Len(s')
      BY <1>1, <1>5, <3>2, <3>4
    <3>6. SubSeq(s', Position(i)' + 1, Position(i)' + fields'[i].width)
            = Unparsed(fields'[i].width, fields'[i].val)
      BY <3>2, <3>3, <3>4 DEF w
    <3> QED
      BY <3>5, <3>6 DEF FieldAt
  <2> QED
    BY <1>5, <2>1, <2>2
<1> QED
  BY <1>6, <1>7 DEF FieldsWritten
-----------------------------------------------------------------------------
(***************************************************************************)
(* The digits of a number.                                                 *)
(***************************************************************************)

\* Division with remainder.
LEMMA DivMod ==
  /\ \A x \in Nat, y \in Nat \ {0} :
       /\ x \div y \in Nat /\ x % y \in 0..y - 1
       /\ x = (x \div y) * y + (x % y)
  /\ \A y \in Nat \ {0} : \A q \in Nat, t \in 0..y - 1 :
       (q * y + t) \div y = q /\ (q * y + t) % y = t
<1>1. \A x \in Nat, y \in Nat \ {0} :
       /\ x \div y \in Nat /\ x % y \in 0..y - 1
       /\ x = (x \div y) * y + (x % y)
  OBVIOUS
<1>2. \A y \in Nat \ {0} : \A q \in Nat, t \in 0..y - 1 :
       (q * y + t) \div y = q /\ (q * y + t) % y = t
  OBVIOUS
<1> QED
  BY <1>1, <1>2

\* Dividing twice.
LEMMA DivDiv ==
  ASSUME NEW x \in Nat, NEW y \in Nat \ {0}, NEW z \in Nat \ {0}
  PROVE  x \div (y * z) = (x \div y) \div z
<1> DEFINE q == x \div y
           r == x % y
           p == q \div z
           t == q % z
<1>1. q \in Nat /\ r \in 0..y - 1 /\ x = q * y + r
  BY DivMod
<1> HIDE DEF q, r
<1>2. p \in Nat /\ t \in 0..z - 1 /\ q = p * z + t
  BY <1>1, DivMod
<1> HIDE DEF p, t
<1>3. y * z \in Nat \ {0}
  OBVIOUS
<1>4. x = p * (y * z) + (t * y + r)
  BY <1>1, <1>2
<1>5. t * y <= (z - 1) * y
  BY <1>2
<1>6. t * y + r \in 0..(y * z) - 1
  <2>1. t * y \in Nat /\ (z - 1) * y = y * z - y
    BY <1>2
  <2> QED
    BY <1>1, <1>3, <1>5, <2>1
<1>7. x \div (y * z) = p
  <2> DEFINE m == y * z
             n == t * y + r
  <2>1. m \in Nat \ {0} /\ n \in 0..m - 1 /\ x = p * m + n
    BY <1>3, <1>4, <1>6
  <2> HIDE DEF m, n
  <2>2. x \div m = p
    BY <1>2, <2>1, DivMod
  <2> QED
    BY <2>2 DEF m
<1> QED
  BY <1>7 DEF p, q

\* The quotient of a number that is less than a product.
LEMMA DivLess ==
  ASSUME NEW x \in Nat, NEW y \in Nat \ {0}, NEW z \in Nat \ {0}, x < z * y
  PROVE  x \div y < z
<1> DEFINE q == x \div y
<1>1. q \in Nat /\ x >= q * y
  BY DivMod
<1> HIDE DEF q
<1>2. ASSUME q >= z PROVE FALSE
  <2>1. q * y >= z * y
    BY <1>1, <1>2
  <2> QED
    BY <1>1, <2>1
<1> QED
  BY <1>1, <1>2 DEF q

\* One byte more at the end of a number.
LEMMA Digit ==
  ASSUME NEW q \in Nat, NEW d \in Byte, NEW m \in Nat, q < m
  PROVE  /\ q * B + d \in Nat
         /\ (q * B + d) % B = d
         /\ (q * B + d) \div B = q
         /\ (q * B + d) \div 1 = q * B + d
         /\ q * B + d < m * B
<1>1. B \in Nat \ {0} /\ d \in 0..B - 1 /\ d \in Nat
  BY ByteAssumption DEF Byte
<1>2. (q * B + d) % B = d /\ (q * B + d) \div B = q
  BY <1>1, DivMod
<1>3. q * B \in Nat /\ m * B \in Nat
  BY <1>1
<1>4. q * B + d \in Nat
  BY <1>1, <1>3
<1>5. \A x \in Nat : x \div 1 = x
  OBVIOUS
<1>6. (m - 1) * B = m * B - B
  BY <1>1
<1>7. q * B <= (m - 1) * B
  BY <1>1
<1>8. q * B + d < m * B
  BY <1>1, <1>3, <1>6, <1>7
<1> QED
  BY <1>2, <1>4, <1>5, <1>8

\* Dividing by B two and three times.
LEMMA DivTwice ==
  \A x \in Nat : /\ x \div (B * B) = (x \div B) \div B
                 /\ x \div (B * B * B) = ((x \div B) \div B) \div B
<1> SUFFICES ASSUME NEW x \in Nat
             PROVE  /\ x \div (B * B) = (x \div B) \div B
                    /\ x \div (B * B * B) = ((x \div B) \div B) \div B
  OBVIOUS
<1>1. B \in Nat \ {0} /\ B * B \in Nat \ {0}
  BY ByteAssumption, Weights
<1>2. x \div (B * B) = (x \div B) \div B
  BY <1>1, DivDiv
<1>3. x \div ((B * B) * B) = (x \div (B * B)) \div B
  BY <1>1, DivDiv
<1> QED
  BY <1>2, <1>3

\* A number of one byte, and its byte.
LEMMA Digits1 ==
  ASSUME NEW d \in Byte
  PROVE  /\ d \in Nat /\ d < Weight(1)
         /\ (d \div Weight(0)) % B = d
<1>1. B \in Nat \ {0} /\ d \in Nat /\ d < B
  BY ByteAssumption DEF Byte
<1> QED
  BY <1>1, Weights

\* A number of two bytes, and its bytes.
LEMMA Digits2 ==
  ASSUME NEW d1 \in Byte, NEW d2 \in Byte, NEW v, v = d1 * B + d2
  PROVE  /\ v \in Nat /\ v < Weight(2)
         /\ (v \div Weight(0)) % B = d2
         /\ (v \div Weight(1)) % B = d1
<1>1. B \in Nat \ {0} /\ d1 \in Nat /\ d1 < B
  BY ByteAssumption DEF Byte
<1>2. v \in Nat /\ v % B = d2 /\ v \div B = d1 /\ v \div 1 = v /\ v < B * B
  BY <1>1, Digit
<1>3. d1 % B = d1
  BY <1>1
<1> QED
  BY <1>2, <1>3, Weights

\* A number of four bytes, and its bytes.
LEMMA Digits4 ==
  ASSUME NEW d1 \in Byte, NEW d2 \in Byte, NEW d3 \in Byte, NEW d4 \in Byte, NEW v,
         v = ((d1 * B + d2) * B + d3) * B + d4
  PROVE  /\ v \in Nat /\ v < Weight(4)
         /\ (v \div Weight(0)) % B = d4
         /\ (v \div Weight(1)) % B = d3
         /\ (v \div Weight(2)) % B = d2
         /\ (v \div Weight(3)) % B = d1
<1> DEFINE q == d1 * B + d2
           r == q * B + d3
<1>1. B \in Nat \ {0} /\ d1 \in Nat /\ d1 < B
  BY ByteAssumption DEF Byte
<1>2. q \in Nat /\ q % B = d2 /\ q \div B = d1 /\ q < B * B
  BY <1>1, Digit
<1> HIDE DEF q
<1>3. B * B \in Nat \ {0} /\ B * B * B \in Nat \ {0}
  BY Weights
<1>4. r \in Nat /\ r % B = d3 /\ r \div B = q /\ r < B * B * B
  BY <1>2, <1>3, Digit
<1>5. v = r * B + d4
  BY DEF r, q
<1> HIDE DEF r
<1>6. v \in Nat /\ v % B = d4 /\ v \div B = r /\ v \div 1 = v /\ v < B * B * B * B
  <2> DEFINE m == B * B * B
  <2>1. m \in Nat /\ r < m
    BY <1>3, <1>4
  <2> HIDE DEF m
  <2>2. v \in Nat /\ v % B = d4 /\ v \div B = r /\ v \div 1 = v /\ v < m * B
    BY <1>4, <1>5, <2>1, Digit
  <2> QED
    BY <2>2 DEF m
<1>7. v \div (B * B) = q /\ v \div (B * B * B) = d1
  <2>1. v \in Nat /\ v \div B = r /\ r \div B = q /\ q \div B = d1
    BY <1>2, <1>4, <1>6
  <2>2. v \div (B * B) = (v \div B) \div B
    BY <2>1, DivTwice
  <2>3. v \div (B * B * B) = ((v \div B) \div B) \div B
    BY <2>1, DivTwice
  <2> QED
    BY <2>1, <2>2, <2>3
<1>8. d1 % B = d1
  BY <1>1
<1> QED
  BY <1>2, <1>4, <1>6, <1>7, <1>8, Weights

\* A prefix and the byte after it.
LEMMA PrefixAppend ==
  ASSUME NEW E, NEW t \in Seq(E), NEW k \in Nat, k < Len(t)
  PROVE  /\ SubSeq(t, 1, k + 1) = Append(SubSeq(t, 1, k), t[k + 1])
         /\ SubSeq(t, 1, k) \in Seq(E) /\ t[k + 1] \in E
<1>0. Len(t) \in Nat /\ k + 1 \in 1..Len(t) /\ 1 \in 1..Len(t) /\ k + 1 - 1 = k
  BY LenProperties
<1>1. \A i \in 1..k : t[i] \in E
  BY <1>0, ElementOfSeq
<1>2. SubSeq(t, 1, k) \in Seq(E) /\ t[k + 1] \in E
  BY <1>0, <1>1, SubSeqProperties, ElementOfSeq
<1>3. k + 1 \in 1..Len(t) /\ SubSeq(t, 1, k + 1) = SubSeq(t, 1, k + 1 - 1) \o <<t[k + 1]>>
  BY <1>0, SubSeqRecursiveSecond
<1> QED
  BY <1>0, <1>2, <1>3, AppendIsConcat

\* The value of one, two and four bytes.
LEMMA ValueOfBytes ==
  ASSUME NEW t \in Seq(Byte)
  PROVE  /\ Len(t) = 1 => t[1] \in Byte /\ NetworkOrder(t) = t[1]
         /\ Len(t) = 2 => t[1] \in Byte /\ t[2] \in Byte /\ NetworkOrder(t) = t[1] * B + t[2]
         /\ Len(t) = 4 =>
              /\ t[1] \in Byte /\ t[2] \in Byte /\ t[3] \in Byte /\ t[4] \in Byte
              /\ NetworkOrder(t) = ((t[1] * B + t[2]) * B + t[3]) * B + t[4]
              /\ be32toh(t) = NetworkOrder(t)
<1> DEFINE N(k) == NetworkOrder(SubSeq(t, 1, k))
           H(k) == be32toh(SubSeq(t, 1, k))
<1>0. Len(t) \in Nat /\ B \in Nat
  BY LenProperties, ByteAssumption
<1>1. ASSUME NEW k \in Nat, k < Len(t)
      PROVE  /\ t[k + 1] \in Byte
             /\ N(k + 1) = N(k) * B + t[k + 1]
             /\ H(k + 1) = H(k) * B + t[k + 1]
  <2>1. /\ SubSeq(t, 1, k + 1) = Append(SubSeq(t, 1, k), t[k + 1])
        /\ SubSeq(t, 1, k) \in Seq(Byte) /\ t[k + 1] \in Byte
    BY <1>1, PrefixAppend
  <2>2. N(k + 1) = N(k) * B + t[k + 1]
    BY <2>1, NetworkOrderAppend
  <2>3. H(k + 1) = H(k) * B + t[k + 1]
    BY <2>1, be32tohAppend
  <2> QED
    BY <2>1, <2>2, <2>3
<1>2. N(0) = 0 /\ H(0) = 0
  <2>1. SubSeq(t, 1, 0) = <<>>
    BY SubSeqEmpty
  <2> QED
    BY <2>1, NetworkOrderAppend, be32tohAppend
<1>3. N(Len(t)) = NetworkOrder(t) /\ H(Len(t)) = be32toh(t)
  BY SubSeqFull
<1> HIDE DEF N, H
<1>4. ASSUME Len(t) >= 1 PROVE t[1] \in Byte /\ N(1) = t[1] /\ H(1) = t[1]
  <2>1. t[0 + 1] \in Byte /\ N(0 + 1) = N(0) * B + t[0 + 1] /\ H(0 + 1) = H(0) * B + t[0 + 1]
    BY <1>0, <1>1, <1>4
  <2>2. t[1] \in Byte /\ N(1) = 0 * B + t[1] /\ H(1) = 0 * B + t[1]
    BY <1>2, <2>1
  <2>3. t[1] \in Nat
    BY <2>2 DEF Byte
  <2> QED
    BY <1>0, <2>2, <2>3
<1>5. ASSUME Len(t) >= 2
      PROVE  t[2] \in Byte /\ N(2) = N(1) * B + t[2] /\ H(2) = H(1) * B + t[2]
  <2>1. t[1 + 1] \in Byte /\ N(1 + 1) = N(1) * B + t[1 + 1] /\ H(1 + 1) = H(1) * B + t[1 + 1]
    BY <1>0, <1>1, <1>5
  <2> QED
    BY <2>1
<1>6. ASSUME Len(t) >= 4
      PROVE  /\ t[3] \in Byte /\ N(3) = N(2) * B + t[3] /\ H(3) = H(2) * B + t[3]
             /\ t[4] \in Byte /\ N(4) = N(3) * B + t[4] /\ H(4) = H(3) * B + t[4]
  <2>1. t[2 + 1] \in Byte /\ N(2 + 1) = N(2) * B + t[2 + 1] /\ H(2 + 1) = H(2) * B + t[2 + 1]
    BY <1>0, <1>1, <1>6
  <2>2. t[3 + 1] \in Byte /\ N(3 + 1) = N(3) * B + t[3 + 1] /\ H(3 + 1) = H(3) * B + t[3 + 1]
    BY <1>0, <1>1, <1>6
  <2> QED
    BY <2>1, <2>2
<1>7. CASE Len(t) = 1
  BY <1>3, <1>4, <1>7
<1>8. CASE Len(t) = 2
  BY <1>3, <1>4, <1>5, <1>8
<1>9. CASE Len(t) = 4
  BY <1>3, <1>4, <1>5, <1>6, <1>9
<1> QED
  BY <1>7, <1>8, <1>9

\* _parse_int() undoes _unparse_int().
LEMMA ParseUnparsed ==
  ASSUME NEW len \in Width, NEW val \in Nat, val < Weight(len)
  PROVE  NetworkOrder(Unparsed(len, val)) = val
<1> DEFINE t == Unparsed(len, val)
<1>0. /\ t \in Seq(Byte) /\ Len(t) = len
      /\ \A i \in 1..len : t[i] = (val \div Weight(len - i)) % B
  BY UnparsedType
<1>1. B \in Nat \ {0} /\ \A x \in Nat : x \div 1 = x /\ (x < B => x % B = x)
  BY ByteAssumption
<1> HIDE DEF t
<1>2. CASE len = 1
  <2>1. t[1] = (val \div Weight(0)) % B /\ val < B
    BY <1>0, <1>2, Weights
  <2>2. t[1] = val
    BY <1>1, <2>1, Weights
  <2> QED
    BY <1>0, <1>2, <2>2, ValueOfBytes DEF t
<1>3. CASE len = 2
  <2>1. t[1] = (val \div B) % B /\ t[2] = (val \div 1) % B /\ val < B * B
    BY <1>0, <1>3, Weights
  <2>2. val \div B \in Nat /\ val = (val \div B) * B + (val % B)
    BY <1>1, DivMod
  <2>3. val \div B < B
    BY <1>1, <2>1, DivLess
  <2>4. t[1] = val \div B /\ t[2] = val % B
    BY <1>1, <2>1, <2>2, <2>3
  <2> QED
    BY <1>0, <1>3, <2>2, <2>4, ValueOfBytes DEF t
<1>4. CASE len = 4
  <2> DEFINE p == val \div B
             q == p \div B
             r == q \div B
  <2>1. /\ t[1] = (val \div (B * B * B)) % B /\ t[2] = (val \div (B * B)) % B
        /\ t[3] = (val \div B) % B /\ t[4] = (val \div 1) % B
        /\ val < B * B * B * B
    BY <1>0, <1>4, Weights
  <2>2. B * B \in Nat \ {0} /\ B * B * B \in Nat \ {0}
    BY Weights
  <2>3. p \in Nat /\ val = p * B + (val % B)
    BY <1>1, DivMod
  <2>4. p < B * B * B
    BY <1>1, <2>1, <2>2, DivLess
  <2>5. val \div (B * B) = q /\ val \div (B * B * B) = r
    BY DivTwice
  <2>6. t[3] = p % B
    BY <2>1
  <2> HIDE DEF p
  <2>7. q \in Nat /\ p = q * B + (p % B)
    BY <1>1, <2>3, DivMod
  <2>8. q < B * B
    BY <1>1, <2>2, <2>3, <2>4, DivLess
  <2> HIDE DEF q
  <2>9. r \in Nat /\ q = r * B + (q % B)
    BY <1>1, <2>7, DivMod
  <2>10. r < B
    BY <1>1, <2>7, <2>8, DivLess
  <2> HIDE DEF r
  <2>11. t[1] = r /\ t[2] = q % B /\ t[4] = val % B
    BY <1>1, <2>1, <2>5, <2>9, <2>10
  <2>12. NetworkOrder(t) = ((t[1] * B + t[2]) * B + t[3]) * B + t[4]
    BY <1>0, <1>4, ValueOfBytes
  <2>13. t[1] * B + t[2] = q
    BY <2>9, <2>11
  <2>14. q * B + t[3] = p
    BY <2>6, <2>7
  <2>15. p * B + t[4] = val
    BY <2>3, <2>11
  <2> QED
    BY <2>12, <2>13, <2>14, <2>15 DEF t
<1> QED
  BY <1>2, <1>3, <1>4 DEF Width

\* ... and _unparse_int() undoes _parse_int(), of four bytes.
LEMMA UnparseParsed ==
  ASSUME NEW t \in Seq(Byte), Len(t) = 4
  PROVE  /\ NetworkOrder(t) \in Nat /\ NetworkOrder(t) < Weight(4)
         /\ Unparsed(4, NetworkOrder(t)) = t
<1> DEFINE v == NetworkOrder(t)
           w == Unparsed(4, v)
<1>1. /\ t[1] \in Byte /\ t[2] \in Byte /\ t[3] \in Byte /\ t[4] \in Byte
      /\ v = ((t[1] * B + t[2]) * B + t[3]) * B + t[4]
  BY ValueOfBytes
<1> HIDE DEF v
<1>2. /\ v \in Nat /\ v < Weight(4)
      /\ (v \div Weight(0)) % B = t[4] /\ (v \div Weight(1)) % B = t[3]
      /\ (v \div Weight(2)) % B = t[2] /\ (v \div Weight(3)) % B = t[1]
  BY <1>1, Digits4
<1>3. 4 \in Width /\ 4 - 1 = 3 /\ 4 - 2 = 2 /\ 4 - 3 = 1 /\ 4 - 4 = 0
  BY DEF Width
<1>4. /\ w \in Seq(Byte) /\ Len(w) = 4
      /\ \A i \in 1..4 : w[i] = (v \div Weight(4 - i)) % B
  BY <1>2, <1>3, UnparsedType
<1> HIDE DEF w
<1>5. w[1] = t[1] /\ w[2] = t[2] /\ w[3] = t[3] /\ w[4] = t[4]
  BY <1>2, <1>3, <1>4
<1>6. \A i \in 1..4 : i = 1 \/ i = 2 \/ i = 3 \/ i = 4
  OBVIOUS
<1>7. w = t
  BY <1>4, <1>5, <1>6, SeqEqual
<1> QED
  BY <1>2, <1>7 DEF v, w
-----------------------------------------------------------------------------
\* Before anything is unparsed.
LEMMA InitRoundTrip == Init => RoundTripInv
<1> SUFFICES ASSUME Init PROVE RoundTripInv
  OBVIOUS
<1>1. Len(s) = 0 /\ Len(fields) = 0
  BY EmptySeq DEF Init
<1>2. FieldsWritten
  BY <1>1, TotalAppend DEF Init, FieldsWritten
<1>3. ReadRight
  BY DEF Init, ReadRight, NoResult
<1> QED
  BY <1>2, <1>3, InitParser DEF RoundTripInv

\* A step that leaves the string alone.
LEMMA SameFields ==
  ASSUME FieldsWritten, UNCHANGED <<s, fields>>
  PROVE  FieldsWritten'
<1>1. ASSUME NEW i \in 1..Len(fields) PROVE FieldAt(i) => FieldAt(i)'
  BY DEF FieldAt, Position
<1> QED
  BY <1>1 DEF FieldsWritten

\* Every call keeps RoundTripInv.
LEMMA NextRoundTrip == RoundTripInv /\ [Next]_vars => RoundTripInv'
<1> SUFFICES ASSUME RoundTripInv, [Next]_vars PROVE RoundTripInv'
  OBVIOUS
<1>0. ParserInv /\ FieldsWritten /\ ReadRight /\ ParserInv'
  BY NextParser DEF RoundTripInv
<1>1. ASSUME NEW len \in Width, NEW val \in 0..Weight(len) - 1, unparse(len, val)
      PROVE  FieldsWritten' /\ ReadRight'
  <2>1. result' = NoResult
    BY <1>0, <1>1 DEF unparse, ParserInv, NotYetParsed
  <2> QED
    BY <1>0, <1>1, <2>1, UnparseWrites DEF ReadRight, NoResult
<1>2. ASSUME NEW n \in 0..Len(s), NetParser(n)
      PROVE  FieldsWritten' /\ ReadRight'
  <2>1. result' = NoResult /\ UNCHANGED <<s, fields>>
    BY <1>0, <1>2 DEF NetParser, ParserInv, NotYetParsed
  <2> QED
    BY <1>0, <2>1, SameFields DEF ReadRight, NoResult
<1>3. ASSUME NEW len \in Width, u(len)
      PROVE  FieldsWritten' /\ ReadRight'
  <2>1. UNCHANGED <<s, fields, phase>> /\ phase = "parse"
    BY <1>3 DEF u
  <2>2. CASE CheckSize(len) = "NoError"
    <3>1. /\ len <= BufferSize(_buffer)
          /\ result' = [ok |-> TRUE, width |-> len, at |-> taken, val |-> ReadAt(taken, len)]
      BY <1>0, <1>3, <2>2, IntReads
    <3>2. /\ len \in Nat /\ taken \in Nat /\ Len(s) \in Nat /\ BufferSize(_buffer) \in Nat
          /\ taken + BufferSize(_buffer) <= Len(s) /\ len # 0
      BY <1>0, <2>1, RestOfTheString, LenProperties DEF ParserInv, ParserType, Width
    <3>3. taken + len <= Len(s)
      BY <3>1, <3>2
    <3>4. result'.width = len /\ result'.at = taken /\ result'.val = ReadAt(taken, len)
      BY <3>1
    <3>5. ReadRight'
      BY <2>1, <3>2, <3>3, <3>4 DEF ReadRight, ReadAt
    <3> QED
      BY <1>0, <2>1, <3>5, SameFields
  <2>3. CASE CheckSize(len) # "NoError"
    <3>1. result' = [ok |-> FALSE, width |-> len, val |-> 0, at |-> taken]
      BY <1>0, <1>3, <2>3, IntReads
    <3> QED
      BY <1>0, <2>1, <3>1, SameFields DEF ReadRight
  <2> QED
    BY <2>2, <2>3
<1>4. ASSUME UNCHANGED <<s, fields, phase, result>>
      PROVE  FieldsWritten' /\ ReadRight'
  <2>1. ReadRight'
    BY <1>0, <1>4 DEF ReadRight, ReadAt
  <2> QED
    BY <1>0, <1>4, <2>1, SameFields
<1>5. ASSUME NEW n \in 0..3, remove_prefix(n)
      PROVE  FieldsWritten' /\ ReadRight'
  BY <1>4, <1>5 DEF remove_prefix
<1>6. ASSUME NEW res \in ParseResult, set_error(res)
      PROVE  FieldsWritten' /\ ReadRight'
  BY <1>4, <1>6 DEF set_error
<1>7. CASE UNCHANGED vars
  BY <1>0, <1>4, <1>7 DEF vars, RoundTripInv
<1> QED
  BY <1>0, <1>1, <1>2, <1>3, <1>5, <1>6, <1>7 DEF Next, RoundTripInv

\* RoundTripInv holds throughout.
LEMMA RoundTripInvariance == Spec => []RoundTripInv
  BY InitRoundTrip, NextRoundTrip, PTL DEF Spec

\* An integer that the parser reads, without error, where one of the same
\* width was unparsed is that integer, whatever was parsed or skipped before.
THEOREM ReadsWhatWasWritten == Spec => []RoundTrip
<1>1. RoundTripInv => RoundTrip
  <2> SUFFICES ASSUME RoundTripInv, result.ok, NEW i \in DOMAIN fields,
                      result.width = fields[i].width, result.at = Position(i)
               PROVE  result.val = fields[i].val
    BY DEF RoundTrip
  <2> DEFINE f == fields[i]
  <2>1. fields \in Seq(Field) /\ i \in 1..Len(fields)
    BY LenProperties DEF RoundTripInv, ParserInv, ParserType
  <2>2. f \in Field
    BY <2>1, ElementOfSeq
  <2>3. f.width \in Width /\ f.val \in Nat /\ f.val < Weight(f.width) /\ f.width \in 0..4
    BY <2>2 DEF Field, Width
  <2>4. SubSeq(s, result.at + 1, result.at + f.width) = Unparsed(f.width, f.val)
    BY <2>1 DEF RoundTripInv, FieldsWritten, FieldAt
  <2>5. result.val = NetworkOrder(SubSeq(s, result.at + 1, result.at + f.width)) % Weight(f.width)
    BY <2>3 DEF RoundTripInv, ReadRight, ReadAt, Width
  <2> HIDE DEF f
  <2>6. result.val = f.val % Weight(f.width)
    BY <2>3, <2>4, <2>5, ParseUnparsed
  <2>7. \A x \in Nat, y \in Nat \ {0} : x < y => x % y = x
    OBVIOUS
  <2> QED
    BY <2>3, <2>6, <2>7, Weights DEF f
<1> QED
  BY <1>1, RoundTripInvariance, PTL
-----------------------------------------------------------------------------
(***************************************************************************)
(* Addresses.                                                              *)
(***************************************************************************)

\* The bytes of a sockaddr_in.
SockaddrByte == Byte \cup {AF_INET, 0}

\* Two bytes before four.
LEMMA TwoAndFour ==
  ASSUME NEW p \in Seq(SockaddrByte), NEW x \in Seq(SockaddrByte), Len(p) = 2, Len(x) = 4
  PROVE  /\ p \o x \in Seq(SockaddrByte) /\ Len(p \o x) = 6
         /\ (p \o x)[1] = p[1]
         /\ \A i \in 1..4 : (p \o x)[2 + i] = x[i]
<1> DEFINE c == p \o x
<1>1. /\ c \in Seq(SockaddrByte)
      /\ Len(c) = Len(p) + Len(x)
      /\ \A i \in 1..(Len(p) + Len(x)) :
           c[i] = IF i <= Len(p) THEN p[i] ELSE x[i - Len(p)]
  BY ConcatProperties
<1> HIDE DEF c
<1>2. \A i \in 1..6 : c[i] = IF i <= 2 THEN p[i] ELSE x[i - 2]
  BY <1>1
<1>3. \A i \in 1..4 : 2 + i \in 1..6 /\ ~ (2 + i <= 2) /\ (2 + i) - 2 = i
  OBVIOUS
<1> QED
  BY <1>1, <1>2, <1>3 DEF c

\* Strings that agree behind the same two bytes.
LEMMA SameAfterTwo ==
  ASSUME NEW p \in Seq(SockaddrByte), NEW x \in Seq(SockaddrByte),
         NEW y \in Seq(SockaddrByte), Len(p) = 2, Len(x) = 4, Len(y) = 4, p \o x = p \o y
  PROVE  x = y
<1>1. \A i \in 1..4 : (p \o x)[2 + i] = x[i]
  BY TwoAndFour
<1>2. \A i \in 1..4 : (p \o y)[2 + i] = y[i]
  BY TwoAndFour
<1>3. \A i \in 1..4 : x[i] = y[i]
  BY <1>1, <1>2
<1> QED
  BY <1>3, SeqEqual

\* The memory of an Address made of a number.
LEMMA AddressStorage ==
  ASSUME NEW v \in Nat, v < Weight(4)
  PROVE  LET a == from_ipv4_numeric(v) IN
         /\ a.size = SockaddrInSize
         /\ a.storage[1] = AF_INET
         /\ SubSeq(a.storage, 3, 6) = Unparsed(4, v)
         /\ SubSeq(a.storage, 1, 6) = <<AF_INET, 0>> \o Unparsed(4, v)
         /\ ipv4_numeric(a) = v
<1> DEFINE a == from_ipv4_numeric(v)
           w == Unparsed(4, v)
           p == <<AF_INET, 0>>
           t == p \o w
<1>0. 4 \in Width /\ w \in Seq(Byte) /\ Len(w) = 4
  BY UnparsedType DEF Width
<1>1. s_addr(v) = w
  <2> DEFINE h == host32(v)
  <2>1. h \in [1..4 -> {(v \div Weight(i - 1)) % B : i \in 1..4}]
    BY DEF host32
  <2>2. Len(h) = 4
    BY <2>1
  <2>3. Reverse(h) = [i \in 1..4 |-> h[(4 - i) + 1]]
    BY <2>2 DEF Reverse
  <2>4. \A i \in 1..4 : h[(4 - i) + 1] = (v \div Weight(4 - i)) % B
    <3>1. \A i \in 1..4 : (4 - i) + 1 \in 1..4 /\ ((4 - i) + 1) - 1 = 4 - i
      OBVIOUS
    <3> QED
      BY <3>1 DEF host32
  <2>5. Reverse(h) = [i \in 1..4 |-> (v \div Weight(4 - i)) % B]
    BY <2>3, <2>4
  <2> QED
    BY <2>5 DEF s_addr, htobe32, Unparsed
<1> HIDE DEF w
<1>2. w \in Seq(SockaddrByte) /\ Len(w) = 4 /\ p \in Seq(SockaddrByte) /\ Len(p) = 2 /\ p[1] = AF_INET
  BY <1>0, SeqMonotonic DEF SockaddrByte
<1> HIDE DEF p
<1>3. /\ t \in Seq(SockaddrByte) /\ Len(t) = 6 /\ t[1] = AF_INET
      /\ \A i \in 1..4 : t[2 + i] = w[i]
  <2>1. p \o w \in Seq(SockaddrByte) /\ Len(p \o w) = 6 /\ (p \o w)[1] = p[1]
    BY <1>2, TwoAndFour
  <2>2. \A i \in 1..4 : (p \o w)[2 + i] = w[i]
    BY <1>2, TwoAndFour
  <2> QED
    BY <1>2, <2>1, <2>2
<1> HIDE DEF t
<1>4. /\ a.size = SockaddrInSize
      /\ a.storage = [i \in 1..8 |-> IF i <= 6 THEN t[i] ELSE 0]
  <2>1. a = AddressOf(t, 6)
    BY <1>1 DEF from_ipv4_numeric, SockaddrInSize, t, p
  <2>2. AddressOf(t, 6)
          = [size |-> 6, storage |-> [i \in 1..8 |-> IF i <= 6 THEN t[i] ELSE 0]]
    BY DEF AddressOf, StorageSize
  <2> HIDE DEF a
  <2> QED
    BY <2>1, <2>2 DEF SockaddrInSize
<1> HIDE DEF a
<1>5. \A i \in 1..6 : a.storage[i] = t[i] /\ t[i] \in SockaddrByte
  <2>1. \A i \in 1..6 : t[i] \in SockaddrByte
    BY <1>3, ElementOfSeq
  <2>2. \A i \in 1..6 : i \in 1..8 /\ i <= 6
    OBVIOUS
  <2> QED
    BY <1>4, <2>1, <2>2
<1>6. SubSeq(a.storage, 1, 6) = t
  <2>1. /\ SubSeq(a.storage, 1, 6) \in Seq(SockaddrByte) /\ Len(SubSeq(a.storage, 1, 6)) = 6
        /\ \A i \in 1..6 : SubSeq(a.storage, 1, 6)[i] = a.storage[i]
    BY <1>5, SubSeqProperties
  <2> QED
    BY <1>3, <1>5, <2>1, SeqEqual
<1>7. SubSeq(a.storage, 3, 6) = w
  <2> DEFINE x == SubSeq(a.storage, 3, 6)
  <2>1. x \in Seq(SockaddrByte) /\ Len(x) = 4 /\ \A i \in 1..4 : x[i] = a.storage[3 + i - 1]
    BY <1>5, SubSeqProperties
  <2>2. \A i \in 1..4 : 3 + i - 1 = 2 + i /\ 2 + i \in 1..6
    OBVIOUS
  <2> HIDE DEF x
  <2>3. \A i \in 1..4 : x[i] = w[i]
    BY <1>3, <1>5, <2>1, <2>2
  <2>4. x = w
    BY <1>0, <1>2, <2>1, <2>3, SeqEqual
  <2> QED
    BY <2>4 DEF x
<1>8. a.storage[1] = AF_INET
  BY <1>3, <1>5
<1>9. ipv4_numeric(a) = v
  <2>1. ipv4_numeric(a) = be32toh(w)
    BY <1>4, <1>7, <1>8 DEF ipv4_numeric, SockaddrInSize
  <2>2. NetworkOrder(w) = v
    BY <1>0, ParseUnparsed DEF w
  <2> QED
    BY <1>0, <2>1, <2>2, ValueOfBytes
<1> QED
  BY <1>4, <1>6, <1>7, <1>8, <1>9 DEF a, w, t, p

\* operator== on two Addresses made of numbers.
LEMMA EqualAddresses ==
  ASSUME NEW v \in Nat, v < Weight(4), NEW w \in Nat, w < Weight(4)
  PROVE  Equal(from_ipv4_numeric(v), from_ipv4_numeric(w)) <=> w = v
<1> DEFINE a == from_ipv4_numeric(v)
           b == from_ipv4_numeric(w)
<1>1. /\ a.size = 6 /\ b.size = 6
      /\ SubSeq(a.storage, 1, 6) = <<AF_INET, 0>> \o Unparsed(4, v)
      /\ SubSeq(b.storage, 1, 6) = <<AF_INET, 0>> \o Unparsed(4, w)
  BY AddressStorage DEF SockaddrInSize
<1> HIDE DEF a, b
<1>2. Equal(a, b) <=> <<AF_INET, 0>> \o Unparsed(4, v) = <<AF_INET, 0>> \o Unparsed(4, w)
  BY <1>1 DEF Equal
<1>3. ASSUME <<AF_INET, 0>> \o Unparsed(4, v) = <<AF_INET, 0>> \o Unparsed(4, w)
      PROVE  w = v
  <2> DEFINE p == <<AF_INET, 0>>
             x == Unparsed(4, v)
             y == Unparsed(4, w)
  <2>1. 4 \in Width /\ x \in Seq(Byte) /\ Len(x) = 4 /\ y \in Seq(Byte) /\ Len(y) = 4
    BY UnparsedType DEF Width
  <2>2. NetworkOrder(x) = v /\ NetworkOrder(y) = w
    BY <2>1, ParseUnparsed
  <2> HIDE DEF x, y
  <2>3. x \in Seq(SockaddrByte) /\ y \in Seq(SockaddrByte) /\ p \in Seq(SockaddrByte) /\ Len(p) = 2
    BY <2>1, SeqMonotonic DEF SockaddrByte
  <2>4. p \o x = p \o y
    BY <1>3 DEF x, y
  <2>5. x = y
    <3> HIDE DEF p
    <3>1. Len(x) = 4 /\ Len(y) = 4
      BY <2>1
    <3> QED
      BY <2>3, <2>4, <3>1, SameAfterTwo
  <2> QED
    BY <2>2, <2>5
<1> QED
  BY <1>2, <1>3 DEF a, b

\* An Address made of an integer that was parsed holds the bytes of the
\* packet, gives the integer back, and compares as the integer does, on any
\* packet.
THEOREM AddressIsWhatArrived == Spec => []AddressHoldsThePacket
<1>1. RoundTripInv => AddressHoldsThePacket
  <2> SUFFICES ASSUME RoundTripInv, result.ok, result.width = 4
               PROVE  LET address == from_ipv4_numeric(result.val) IN
                      /\ SubSeq(address.storage, 3, 6) = SubSeq(s, result.at + 1, result.at + 4)
                      /\ ipv4_numeric(address) = result.val
                      /\ \A i \in DOMAIN fields :
                           Equal(address, from_ipv4_numeric(fields[i].val))
                             <=> fields[i].val = result.val
    BY DEF AddressHoldsThePacket
  <2> DEFINE t == SubSeq(s, result.at + 1, result.at + 4)
             v == NetworkOrder(t)
  <2>1. /\ s \in Seq(Byte) /\ Len(s) \in Nat /\ result.at \in Nat
        /\ result.at + 4 <= Len(s) /\ result.val = v % Weight(4)
    BY LenProperties DEF RoundTripInv, ParserInv, ParserType, ReadRight, ReadAt
  <2>2. t \in Seq(Byte) /\ Len(t) = 4
    <3>1. \A i \in (result.at + 1)..(result.at + 4) : s[i] \in Byte
      BY <2>1, ElementOfSeq
    <3> QED
      BY <2>1, <3>1, SubSeqProperties
  <2> HIDE DEF t
  <2>3. v \in Nat /\ v < Weight(4) /\ Unparsed(4, v) = t
    BY <2>2, UnparseParsed
  <2> HIDE DEF v
  <2>4. result.val = v
    <3>1. \A x \in Nat, y \in Nat \ {0} : x < y => x % y = x
      OBVIOUS
    <3>2. Weight(4) \in Nat \ {0}
      BY Weights
    <3> QED
      BY <2>1, <2>3, <3>1, <3>2
  <2>5. ASSUME NEW i \in DOMAIN fields
        PROVE  fields[i].val \in Nat /\ fields[i].val < Weight(4)
    <3>1. fields \in Seq(Field) /\ i \in 1..Len(fields)
      BY LenProperties DEF RoundTripInv, ParserInv, ParserType
    <3>2. fields[i] \in Field
      BY <3>1, ElementOfSeq
    <3>3. /\ fields[i].val \in Nat
          /\ \/ fields[i].val < Weight(1) \/ fields[i].val < Weight(2)
             \/ fields[i].val < Weight(4)
      BY <3>2 DEF Field, Width
    <3>4. Weight(1) <= Weight(4) /\ Weight(2) <= Weight(4)
      <4>1. B \in Nat \ {0} /\ B * B \in Nat \ {0} /\ B * B * B \in Nat \ {0}
        BY ByteAssumption, Weights
      <4>2. \A x, y \in Nat \ {0} : x <= x * y
        OBVIOUS
      <4>3. B <= B * B /\ B * B <= (B * B) * B /\ B * B * B <= (B * B * B) * B
        BY <4>1, <4>2
      <4> QED
        BY <4>1, <4>3, Weights
    <3>5. Weight(1) \in Nat /\ Weight(2) \in Nat /\ Weight(4) \in Nat
      BY Weights
    <3> QED
      BY <3>3, <3>4, <3>5
  <2>6. \A i \in DOMAIN fields :
          Equal(from_ipv4_numeric(v), from_ipv4_numeric(fields[i].val)) <=> fields[i].val = v
    BY <2>3, <2>5, EqualAddresses
  <2> QED
    BY <2>3, <2>4, <2>6, AddressStorage DEF t
<1> QED
  BY <1>1, RoundTripInvariance, PTL
-----------------------------------------------------------------------------
(***************************************************************************)
(* InternetChecksum.  One's complement addition is addition modulo         *)
(* WordMod - 1 in which only nothing at all sums up to 0: every other      *)
(* multiple of WordMod - 1 is WordMod - 1 (Norm).  Folding the carries of  *)
(* the plain sum at the end, as value() does, then comes to the same as    *)
(* wrapping each carry around at once, as the reference does, as long as   *)
(* the 32-bit accumulator does not overflow.                               *)
(***************************************************************************)
Carry == WordMod - 1

\* The one's complement sum of words that add up to x.
Norm(x) == IF x = 0 THEN 0 ELSE ((x - 1) % Carry) + 1

\* A word has at least four values.
LEMMA WordType ==
  /\ B \in Nat \ {0, 1} /\ WordMod = B * B /\ WordMod \in Nat /\ WordMod >= 4
  /\ Carry \in Nat \ {0} /\ WordMod = Carry + 1
  /\ SumMod = WordMod * WordMod
<1>1. B \in Nat /\ B >= 2 /\ WordMod = B * B
  BY ByteAssumption DEF WordMod
<1>2. B * B \in Nat /\ B * B >= 2 * B
  BY <1>1
<1>3. WordMod \in Nat /\ WordMod >= 4
  BY <1>1, <1>2
<1> QED
  BY <1>1, <1>3 DEF Carry, SumMod

\* Norm, without the remainder.
LEMMA NormType ==
  /\ \A x \in 0..Carry : Norm(x) = x
  /\ \A x \in Nat : /\ Norm(x) \in 0..Carry
                    /\ Norm(x) = 0 <=> x = 0
                    /\ \E k \in Nat : x = Norm(x) + k * Carry
  /\ \A x \in Nat \ {0}, k \in Nat : Norm(x + k * Carry) = Norm(x)
<1>0. Carry \in Nat \ {0}
  BY WordType
<1>1. ASSUME NEW x \in 0..Carry PROVE Norm(x) = x
  <2>1. CASE x = 0
    BY <2>1 DEF Norm
  <2>2. CASE x # 0
    <3>1. x - 1 \in 0..Carry - 1
      BY <1>0, <2>2
    <3>2. \A y \in Nat \ {0} : \A z \in 0..y - 1 : z % y = z
      OBVIOUS
    <3>3. (x - 1) % Carry = x - 1
      BY <1>0, <3>1, <3>2
    <3> QED
      BY <1>0, <2>2, <3>3 DEF Norm
  <2> QED
    BY <2>1, <2>2
<1>2. ASSUME NEW x \in Nat
      PROVE  /\ Norm(x) \in 0..Carry
             /\ Norm(x) = 0 <=> x = 0
             /\ \E k \in Nat : x = Norm(x) + k * Carry
  <2>1. CASE x = 0
    <3>1. Norm(x) = 0
      BY <2>1 DEF Norm
    <3>2. x = Norm(x) + 0 * Carry
      BY <1>0, <2>1, <3>1
    <3> QED
      BY <1>0, <2>1, <3>1, <3>2
  <2>2. CASE x # 0
    <3> DEFINE q == (x - 1) \div Carry
               r == (x - 1) % Carry
    <3>0. x - 1 \in Nat
      BY <2>2
    <3>1. q \in Nat /\ r \in 0..Carry - 1 /\ x - 1 = q * Carry + r
      BY <1>0, <3>0, DivMod
    <3>2. Norm(x) = r + 1
      BY <2>2 DEF Norm
    <3> HIDE DEF q, r
    <3>3. q * Carry \in Nat
      BY <1>0, <3>1
    <3>4. x = Norm(x) + q * Carry
      BY <3>1, <3>2, <3>3
    <3> QED
      BY <1>0, <2>2, <3>1, <3>2, <3>4
  <2> QED
    BY <2>1, <2>2
<1>3. ASSUME NEW x \in Nat \ {0}, NEW k \in Nat PROVE Norm(x + k * Carry) = Norm(x)
  <2> DEFINE q == (x - 1) \div Carry
             r == (x - 1) % Carry
             m == k * Carry
             z == q + k
  <2>0. x - 1 \in Nat
    OBVIOUS
  <2>1. q \in Nat /\ r \in 0..Carry - 1 /\ x - 1 = q * Carry + r
    BY <1>0, <2>0, DivMod
  <2>2. Norm(x) = r + 1
    BY DEF Norm
  <2> HIDE DEF q, r
  <2>3. m \in Nat /\ z \in Nat /\ q * Carry \in Nat
    BY <1>0, <2>1
  <2>4. z * Carry = q * Carry + m
    BY <1>0, <2>1
  <2> HIDE DEF m, z
  <2>5. x + m # 0 /\ (x + m) - 1 = z * Carry + r
    BY <2>1, <2>3, <2>4
  <2>6. (z * Carry + r) % Carry = r
    BY <1>0, <2>1, <2>3, DivMod
  <2>7. Norm(x + m) = r + 1
    BY <2>5, <2>6 DEF Norm
  <2> QED
    BY <2>2, <2>7 DEF m
<1> QED
  BY <1>1, <1>2, <1>3

\* It does not matter when the carries are wrapped around.
LEMMA NormPlus ==
  ASSUME NEW a \in Nat, NEW b \in Nat
  PROVE  Norm(Norm(a) + b) = Norm(a + b)
<1>0. Carry \in Nat \ {0}
  BY WordType
<1>1. CASE a = 0
  BY <1>1, NormType
<1>2. CASE a # 0
  <2>1. PICK k \in Nat : a = Norm(a) + k * Carry
    BY NormType
  <2> DEFINE c == Norm(a)
             m == k * Carry
  <2>2. c \in Nat \ {0}
    BY <1>0, <1>2, NormType
  <2>3. m \in Nat /\ a = c + m
    BY <1>0, <2>1
  <2>4. Norm((c + b) + m) = Norm(c + b)
    <3>1. c + b \in Nat \ {0}
      BY <2>2
    <3> QED
      BY <3>1, NormType
  <2> HIDE DEF c, m
  <2>5. a + b = (c + b) + m
    BY <2>2, <2>3
  <2> QED
    BY <2>4, <2>5 DEF c
<1> QED
  BY <1>1, <1>2

\* The reference's addition.
LEMMA PlusIsNorm ==
  ASSUME NEW x \in 0..Carry, NEW y \in 0..Carry
  PROVE  Plus(x, y) = Norm(x + y) /\ Norm(x + y) \in 0..Carry
<1>0. Carry \in Nat \ {0} /\ WordMod = Carry + 1
  BY WordType
<1>1. CASE x + y >= WordMod
  <2>1. x + y - WordMod + 1 \in 0..Carry /\ x + y - WordMod + 1 # 0
    BY <1>0, <1>1
  <2> DEFINE z == x + y - WordMod + 1
  <2>2. x + y = z + 1 * Carry /\ z \in Nat \ {0} /\ z \in 0..Carry
    BY <1>0, <1>1, <2>1
  <2>3. Plus(x, y) = z
    BY <1>0, <1>1 DEF Plus
  <2> HIDE DEF z
  <2>4. Norm(z + 1 * Carry) = Norm(z) /\ Norm(z) = z
    BY <2>2, NormType
  <2> QED
    BY <2>2, <2>3, <2>4
<1>2. CASE ~ (x + y >= WordMod)
  <2>1. x + y \in 0..Carry
    BY <1>0, <1>2
  <2>2. Plus(x, y) = x + y
    BY <1>0, <1>2 DEF Plus
  <2> QED
    BY <2>1, <2>2, NormType
<1> QED
  BY <1>1, <1>2

\* The loop of value(): the carries folded in until the sum fits in a word.
LEMMA FoldedIsNorm ==
  ASSUME NEW x \in Nat
  PROVE  Folded(x) = Norm(x)
<1> DEFINE Less(y) == (y \div WordMod) + (y % WordMod)
           R(f) == f = [y \in Nat |-> IF y >= WordMod THEN f[Less(y)] ELSE y]
           F == CHOOSE f : R(f)
<1>0. WordMod \in Nat \ {0} /\ Carry \in Nat \ {0} /\ WordMod = Carry + 1
  BY WordType
<1>1. Folded(x) = F[x]
  BY DEF Folded
<1>2. ASSUME NEW y \in Nat, y >= WordMod
      PROVE  Less(y) \in Nat /\ Less(y) < y /\ Norm(Less(y)) = Norm(y)
  <2> DEFINE q == y \div WordMod
             t == y % WordMod
             m == q * Carry
  <2>1. q \in Nat /\ t \in 0..WordMod - 1 /\ y = q * WordMod + t
    BY <1>0, DivMod
  <2> HIDE DEF q, t
  <2>2. q # 0
    BY <1>0, <1>2, <2>1
  <2>3. m \in Nat /\ m >= 1 /\ q * WordMod = m + q
    BY <1>0, <2>1, <2>2
  <2> HIDE DEF m
  <2>4. y = (q + t) + m /\ q + t \in Nat \ {0} /\ q + t < y
    BY <2>1, <2>2, <2>3
  <2>5. Norm((q + t) + m) = Norm(q + t)
    BY <2>1, <2>4, NormType DEF m
  <2>6. Less(y) = q + t
    BY DEF q, t
  <2> QED
    BY <2>4, <2>5, <2>6
<1>3. \A y \in Nat : ~ (y >= WordMod) => Norm(y) = y
  <2>1. \A y \in Nat : ~ (y >= WordMod) => y \in 0..Carry
    BY <1>0
  <2> QED
    BY <2>1, NormType
<1> HIDE DEF Less
<1>4. \E f : R(f)
  <2> DEFINE f == [y \in Nat |-> Norm(y)]
  <2>1. \A y \in Nat : f[y] = IF y >= WordMod THEN f[Less(y)] ELSE y
    BY <1>2, <1>3
  <2>2. R(f)
    BY <2>1
  <2> QED
    BY <2>2
<1>5. R(F)
  BY <1>4
<1> HIDE DEF F
<1>6. \A y \in Nat : F[y] = IF y >= WordMod THEN F[Less(y)] ELSE y
  BY <1>5
<1> DEFINE S == {y \in Nat : F[y] # Norm(y)}
<1>7. S = {}
  <2> SUFFICES ASSUME S # {} PROVE FALSE
    OBVIOUS
  <2>1. S \in SUBSET Nat
    OBVIOUS
  <2>2. PICK y \in S : \A z \in S : y <= z
    BY <2>1, LeastNumber
  <2>3. y \in Nat /\ F[y] # Norm(y)
    BY <2>2
  <2>4. \A z \in Nat : z < y => F[z] = Norm(z)
    BY <2>2, <2>3
  <2> HIDE DEF S
  <2>5. CASE y >= WordMod
    BY <1>2, <1>6, <2>3, <2>4, <2>5
  <2>6. CASE ~ (y >= WordMod)
    BY <1>3, <1>6, <2>3, <2>6
  <2> QED
    BY <2>5, <2>6
<1> QED
  BY <1>1, <1>7

\* value(): the complement.
LEMMA ValueIsComplement ==
  ASSUME NEW x \in Nat
  PROVE  value(x) = Carry - Norm(x)
<1>1. Norm(x) \in 0..Carry /\ WordMod = Carry + 1 /\ Carry \in Nat
  BY NormType, WordType
<1>2. Norm(x) % WordMod = Norm(x)
  <2>1. \A y \in Nat \ {0} : \A z \in 0..y - 1 : z % y = z
    OBVIOUS
  <2>2. WordMod \in Nat \ {0} /\ Norm(x) \in 0..WordMod - 1
    BY <1>1
  <2> QED
    BY <2>1, <2>2
<1>3. value(x) = WordMod - 1 - (Norm(x) % WordMod)
  BY FoldedIsNorm DEF value
<1> QED
  BY <1>1, <1>2, <1>3

-----------------------------------------------------------------------------
SumType == [sum : Nat, parity : BOOLEAN]
WordsType == [words : Nat, odd : Nat, half : BOOLEAN]

RefStart == [words |-> words, odd |-> odd, half |-> count % 2 = 1]

\* The loop of add(), one byte more.
LEMMA SumOfAppend ==
  ASSUME _sum \in Nat, _parity \in BOOLEAN
  PROVE  /\ SumOf(<<>>) = Start
         /\ \A list \in Seq(Byte) : SumOf(list) \in SumType
         /\ \A list \in Seq(Byte), b \in Byte :
              SumOf(Append(list, b)) = AddByte(SumOf(list), b)
<1> DEFINE L == Byte
           V == SumType
           f == [p \in V \X L |-> AddByte(p[1], p[2])]
<1>0. /\ Start \in V
      /\ \A v \in V, b \in L : AddByte(v, b) \in V
  <2>1. Start \in V
    BY DEF Start, SumType
  <2>2. \A y \in Nat : y % SumMod \in Nat
    <3>1. WordMod * WordMod \in Nat \ {0}
      BY WordType
    <3> QED
      BY <3>1, WordType
  <2>3. ASSUME NEW v \in V, NEW b \in L PROVE AddByte(v, b) \in V
    <3>1. /\ v.sum \in Nat /\ v.parity \in BOOLEAN /\ b \in Nat /\ b * B \in Nat
      BY WordType DEF SumType, Byte
    <3>2. v.sum + (IF v.parity THEN b ELSE b * B) \in Nat
      BY <3>1
    <3> QED
      BY <2>2, <3>2 DEF AddByte, SumType
  <2> QED
    BY <2>1, <2>3
<1> HIDE DEF L
<1>1. FoldsInto(f, Start, V, L)
  BY <1>0 DEF FoldsInto
<1>2. \A v \in V, b \in L : f[<<v, b>>] = AddByte(v, b)
  OBVIOUS
<1> HIDE DEF f, V
<1>3. ASSUME NEW list \in Seq(L)
      PROVE  SumOf(list) = Fold(f, Start, list, V)
  <2> DEFINE R(iter) == iter = [d \in SUBSET DOMAIN list |->
               IF d = {} THEN Start
               ELSE AddByte(iter[d \ {Max(d)}], list[Max(d)])]
             it == CHOOSE iter : R(iter)
  <2>1. SumOf(list) = it[DOMAIN list]
    BY DEF SumOf, FoldLeft, MapThenFoldSet, Max, Max
  <2>2. \A d \in SUBSET DOMAIN list : d # {} => list[Max(d)] \in L
    BY LastIndex
  <2>3. DOMAIN list = 1..Len(list)
    BY LenProperties
  <2>4. \E iter : R(iter)
    <3>1. PICK iter : IsIter(iter, f, Start, list, V)
      BY <1>1, IterExists
    <3>2. R(iter)
      BY <1>2, <2>2, <2>3, <3>1 DEF IsIter
    <3> QED
      BY <3>2
  <2>5. R(it)
    BY <2>4
  <2> HIDE DEF it
  <2>6. Recurses(it, f, Start, list, V)
    BY <1>2, <2>2, <2>5 DEF Recurses
  <2> QED
    BY <1>1, <2>1, <2>6, IterIsFold
<1>4. /\ Fold(f, Start, <<>>, V) = Start
      /\ \A list \in Seq(L) : Fold(f, Start, list, V) \in V
      /\ \A list \in Seq(L), b \in L :
           Fold(f, Start, Append(list, b), V) = f[<<Fold(f, Start, list, V), b>>]
  BY <1>1, FoldAppend
<1>5. <<>> \in Seq(L) /\ \A list \in Seq(L), b \in L : Append(list, b) \in Seq(L)
  BY EmptySeq, AppendProperties
<1>6. SumOf(<<>>) = Start
  BY <1>3, <1>4, <1>5
<1>7. ASSUME NEW list \in Seq(L) PROVE SumOf(list) \in V
  BY <1>3, <1>4
<1>8. ASSUME NEW list \in Seq(L), NEW b \in L
      PROVE  SumOf(Append(list, b)) = AddByte(SumOf(list), b)
  <2>1. SumOf(Append(list, b)) = Fold(f, Start, Append(list, b), V)
    BY <1>3, <1>5
  <2>2. Fold(f, Start, Append(list, b), V) = f[<<Fold(f, Start, list, V), b>>]
    BY <1>4
  <2>3. SumOf(list) = Fold(f, Start, list, V) /\ SumOf(list) \in V
    BY <1>3, <1>7
  <2> QED
    BY <1>2, <2>1, <2>2, <2>3
<1> QED
  BY <1>6, <1>7, <1>8 DEF L, V

\* The reference, one byte more.
LEMMA WordsOfAppend ==
  ASSUME words \in Nat, odd \in Nat
  PROVE  /\ WordsOf(<<>>) = RefStart
         /\ \A list \in Seq(Byte) : WordsOf(list) \in WordsType
         /\ \A list \in Seq(Byte), b \in Byte :
              WordsOf(Append(list, b)) = WordStep(WordsOf(list), b)
<1> DEFINE L == Byte
           V == WordsType
           f == [p \in V \X L |-> WordStep(p[1], p[2])]
<1>0. /\ RefStart \in V
      /\ \A v \in V, b \in L : WordStep(v, b) \in V
  <2>1. RefStart \in V
    BY DEF RefStart, WordsType
  <2>2. \A x, y \in Nat : Plus(x, y) \in Nat
    BY WordType DEF Plus
  <2>3. ASSUME NEW v \in V, NEW b \in L PROVE WordStep(v, b) \in V
    <3>1. /\ v.words \in Nat /\ v.odd \in Nat /\ v.half \in BOOLEAN /\ b \in Nat
          /\ v.odd * B + b \in Nat
      BY WordType DEF WordsType, Byte
    <3>2. Plus(v.words, v.odd * B + b) \in Nat
      BY <2>2, <3>1
    <3> QED
      BY <3>1, <3>2 DEF WordStep, WordsType
  <2> QED
    BY <2>1, <2>3
<1> HIDE DEF L
<1>1. FoldsInto(f, RefStart, V, L)
  BY <1>0 DEF FoldsInto
<1>2. \A v \in V, b \in L : f[<<v, b>>] = WordStep(v, b)
  OBVIOUS
<1> HIDE DEF f, V
<1>3. ASSUME NEW list \in Seq(L)
      PROVE  WordsOf(list) = Fold(f, RefStart, list, V)
  <2> DEFINE R(iter) == iter = [d \in SUBSET DOMAIN list |->
               IF d = {} THEN RefStart
               ELSE WordStep(iter[d \ {Max(d)}], list[Max(d)])]
             it == CHOOSE iter : R(iter)
  <2>1. WordsOf(list) = it[DOMAIN list]
    BY DEF WordsOf, RefStart, FoldLeft, MapThenFoldSet, Max, Max
  <2>2. \A d \in SUBSET DOMAIN list : d # {} => list[Max(d)] \in L
    BY LastIndex
  <2>3. DOMAIN list = 1..Len(list)
    BY LenProperties
  <2>4. \E iter : R(iter)
    <3>1. PICK iter : IsIter(iter, f, RefStart, list, V)
      BY <1>1, IterExists
    <3>2. R(iter)
      BY <1>2, <2>2, <2>3, <3>1 DEF IsIter
    <3> QED
      BY <3>2
  <2>5. R(it)
    BY <2>4
  <2> HIDE DEF it
  <2>6. Recurses(it, f, RefStart, list, V)
    BY <1>2, <2>2, <2>5 DEF Recurses
  <2> QED
    BY <1>1, <2>1, <2>6, IterIsFold
<1>4. /\ Fold(f, RefStart, <<>>, V) = RefStart
      /\ \A list \in Seq(L) : Fold(f, RefStart, list, V) \in V
      /\ \A list \in Seq(L), b \in L :
           Fold(f, RefStart, Append(list, b), V) = f[<<Fold(f, RefStart, list, V), b>>]
  BY <1>1, FoldAppend
<1>5. <<>> \in Seq(L) /\ \A list \in Seq(L), b \in L : Append(list, b) \in Seq(L)
  BY EmptySeq, AppendProperties
<1>6. WordsOf(<<>>) = RefStart
  BY <1>3, <1>4, <1>5
<1>7. ASSUME NEW list \in Seq(L) PROVE WordsOf(list) \in V
  BY <1>3, <1>4
<1>8. ASSUME NEW list \in Seq(L), NEW b \in L
      PROVE  WordsOf(Append(list, b)) = WordStep(WordsOf(list), b)
  <2>1. WordsOf(Append(list, b)) = Fold(f, RefStart, Append(list, b), V)
    BY <1>3, <1>5
  <2>2. Fold(f, RefStart, Append(list, b), V) = f[<<Fold(f, RefStart, list, V), b>>]
    BY <1>4
  <2>3. WordsOf(list) = Fold(f, RefStart, list, V) /\ WordsOf(list) \in V
    BY <1>3, <1>7
  <2> QED
    BY <1>2, <2>1, <2>2, <2>3
<1> QED
  BY <1>6, <1>7, <1>8 DEF L, V

\* The sum and the reference agree after n bytes, and the sum is no more than
\* that many bytes can come to on top of the initial sum.
MostWords(k) == MaxInitial + Carry * k

Agree(a, w, n) ==
  /\ a \in SumType /\ w \in WordsType
  /\ a.parity = (n % 2 = 1) /\ w.half = (n % 2 = 1)
  /\ w.odd \in Byte /\ (n % 2 = 0 => w.odd = 0)
  /\ w.odd * B <= a.sum
  /\ w.words = Norm(a.sum - w.odd * B)
  /\ a.sum <= MostWords(n \div 2) + w.odd * B

\* Two bytes make a word.
LEMMA PairIsWord ==
  ASSUME NEW o \in Byte, NEW b \in Byte
  PROVE  o * B + b \in 0..Carry /\ o * B \in 0..Carry
<1>1. B \in Nat \ {0} /\ o \in Nat /\ o < B /\ b \in Nat
  BY WordType DEF Byte
<1>2. o * B + b < B * B /\ o * B + b \in Nat
  BY <1>1, Digit
<1>3. o * B \in Nat
  BY <1>1
<1>4. B * B = Carry + 1 /\ Carry \in Nat
  BY WordType
<1> DEFINE m == o * B
           c == B * B
<1>5. m \in Nat /\ m + b < c /\ c = Carry + 1
  BY <1>2, <1>3, <1>4
<1> HIDE DEF m, c
<1>6. m + b \in 0..Carry /\ m \in 0..Carry
  BY <1>1, <1>4, <1>5
<1> QED
  BY <1>6 DEF m

\* No more words than a word has values cannot overflow the accumulator.
LEMMA NoOverflow ==
  ASSUME NEW k \in Nat, k <= WordMod, NEW x \in Nat, x <= Carry * (1 + k)
  PROVE  /\ x < SumMod
         /\ x % SumMod = x
<1>0. Carry \in Nat \ {0} /\ WordMod = Carry + 1 /\ SumMod = WordMod * WordMod
  BY WordType
<1>1. Carry * (1 + k) <= Carry * (1 + WordMod)
  BY <1>0
<1>2. Carry * (1 + WordMod) = WordMod * WordMod - 1
  BY <1>0
<1> DEFINE m == WordMod * WordMod
           y == Carry * (1 + k)
           z == Carry * (1 + WordMod)
<1>3. y \in Nat /\ m \in Nat /\ z \in Nat /\ x <= y /\ y <= z /\ z = m - 1
  BY <1>0, <1>1, <1>2
<1> HIDE DEF m, y, z
<1>4. x < m
  BY <1>3
<1>5. x % m = x
  BY <1>3, <1>4
<1> QED
  BY <1>0, <1>4, <1>5 DEF m

\* The bound grows with the number of words.
LEMMA MostWordsGrows ==
  /\ \A k \in Nat : MostWords(k) \in Nat /\ MostWords(k + 1) = MostWords(k) + Carry
  /\ \A j \in Nat, k \in Nat : j <= k => MostWords(j) <= MostWords(k)
<1>0. Carry \in Nat /\ MaxInitial \in Nat
  BY WordType, ChecksumAssumption
<1>1. \A k \in Nat : Carry * k \in Nat /\ Carry * (k + 1) = Carry * k + Carry
  BY <1>0
<1>2. \A k \in Nat : MostWords(k) \in Nat /\ MostWords(k + 1) = MostWords(k) + Carry
  <2> SUFFICES ASSUME NEW k \in Nat
               PROVE  MostWords(k) \in Nat /\ MostWords(k + 1) = MostWords(k) + Carry
    OBVIOUS
  <2> DEFINE c == Carry * k
  <2>1. c \in Nat /\ MostWords(k) = MaxInitial + c /\ MostWords(k + 1) = MaxInitial + (c + Carry)
    BY <1>1 DEF MostWords
  <2> HIDE DEF c
  <2> QED
    BY <1>0, <2>1
<1>3. ASSUME NEW j \in Nat, NEW k \in Nat, j <= k PROVE MostWords(j) <= MostWords(k)
  <2>1. Carry * j <= Carry * k /\ Carry * j \in Nat /\ Carry * k \in Nat
    <3>1. PICK i \in Nat : k = j + i
      <4>1. k - j \in Nat /\ k = j + (k - j)
        BY <1>3
      <4> QED
        BY <4>1
    <3>2. Carry * k = Carry * j + Carry * i /\ Carry * i \in Nat /\ Carry * j \in Nat
      BY <1>0, <3>1
    <3> DEFINE x == Carry * j
               y == Carry * i
               z == Carry * k
    <3>3. z = x + y /\ y \in Nat /\ x \in Nat
      BY <3>2
    <3> HIDE DEF x, y, z
    <3>4. x <= z /\ x \in Nat /\ z \in Nat
      BY <3>3
    <3> QED
      BY <3>4 DEF x, z
  <2> DEFINE x == Carry * j
             z == Carry * k
  <2>2. x <= z /\ x \in Nat /\ z \in Nat /\ MostWords(j) = MaxInitial + x /\ MostWords(k) = MaxInitial + z
    BY <2>1 DEF MostWords
  <2> HIDE DEF x, z
  <2> QED
    BY <1>0, <2>2
<1> QED
  BY <1>2, <1>3

\* A sum below the limit of the accumulator.
LEMMA Below ==
  ASSUME NEW x \in Nat, x < SumMod
  PROVE  x % SumMod = x
<1>1. SumMod \in Nat \ {0}
  <2>1. WordMod * WordMod \in Nat
    BY WordType
  <2> QED
    BY <2>1, WordType
<1>2. \A y \in Nat \ {0} : x < y => x % y = x
  OBVIOUS
<1> QED
  BY <1>1, <1>2

\* One turn of the loop of add().
LEMMA OneMoreByte ==
  ASSUME NEW a, NEW w, NEW n \in Nat, Agree(a, w, n), NEW b \in Byte,
         MostWords((n + 2) \div 2) < SumMod
  PROVE  Agree(AddByte(a, b), WordStep(w, b), n + 1)
<1> DEFINE o == w.odd * B
           k == n \div 2
           c == MostWords(k)
           x == AddByte(a, b)
           y == WordStep(w, b)
<1>0. /\ a.sum \in Nat /\ w.words \in Nat /\ w.odd \in Byte /\ b \in Nat
      /\ WordMod \in Nat /\ Carry \in Nat \ {0} /\ WordMod = Carry + 1 /\ k \in Nat
  BY WordType DEF Agree, SumType, WordsType, Byte
<1>1. o \in 0..Carry /\ o + b \in 0..Carry /\ b * B \in 0..Carry
  BY <1>0, PairIsWord
<1>2. /\ o <= a.sum /\ w.words = Norm(a.sum - o) /\ a.sum <= c + o
      /\ a.parity = (n % 2 = 1) /\ w.half = (n % 2 = 1) /\ (n % 2 = 0 => w.odd = 0)
  BY DEF Agree
<1>3. c \in Nat /\ MostWords(k + 1) = c + Carry /\ SumMod \in Nat
  <2>1. WordMod * WordMod \in Nat
    BY <1>0
  <2> QED
    BY <1>0, <2>1, MostWordsGrows, WordType
<1>4. CASE n % 2 = 0
  <2>1. (n + 1) % 2 = 1 /\ (n + 1) \div 2 = k /\ n % 2 # 1
    BY <1>4
  <2>2. (n + 2) \div 2 = k + 1
    BY <1>4
  <2>3. w.odd = 0 /\ o = 0 /\ w.words = Norm(a.sum) /\ a.sum <= c
    <3>1. w.odd = 0
      BY <1>2, <1>4
    <3>2. o = 0
      BY <3>1, WordType
    <3> HIDE DEF o, c
    <3>3. a.sum - 0 = a.sum /\ c + 0 = c
      BY <1>0, <1>3
    <3> QED
      BY <1>2, <3>1, <3>2, <3>3
  <2> DEFINE e == b * B
             r == a.sum + e
  <2>4. r \in Nat /\ r <= c + Carry /\ r <= c + e /\ e <= r /\ r - e = a.sum
    BY <1>0, <1>1, <1>3, <2>3
  <2>5. r % SumMod = r
    <3>1. c + Carry < SumMod
      BY <1>3, <2>2
    <3> HIDE DEF r, c
    <3>2. r < SumMod
      BY <1>0, <1>3, <2>4, <3>1
    <3> QED
      BY <2>4, <3>2, Below
  <2>6. x = [sum |-> r, parity |-> TRUE]
    BY <1>2, <2>1, <2>5 DEF AddByte
  <2>7. y = [words |-> w.words, odd |-> b, half |-> TRUE]
    BY <1>2, <2>1 DEF WordStep, Agree, WordsType
  <2>8. x \in SumType /\ y \in WordsType
    BY <1>0, <2>4, <2>6, <2>7 DEF SumType, WordsType
  <2>9. x.sum = r /\ x.parity = TRUE /\ y.words = w.words /\ y.odd = b /\ y.half = TRUE
    BY <2>6, <2>7
  <2> HIDE DEF x, y, c, o, k
  <2>10. y.odd * B <= x.sum /\ y.words = Norm(x.sum - y.odd * B) /\ y.odd \in Byte
    BY <2>3, <2>4, <2>9
  <2>11. x.sum <= MostWords((n + 1) \div 2) + y.odd * B
    BY <2>1, <2>4, <2>9 DEF c
  <2> HIDE DEF r, e
  <2>12. (n + 1) % 2 # 0
    BY <2>1
  <2>13. Agree(x, y, n + 1)
    BY <2>1, <2>8, <2>9, <2>10, <2>11, <2>12 DEF Agree
  <2> QED
    BY <2>13 DEF x, y
<1>5. CASE n % 2 = 1
  <2>1. (n + 1) % 2 = 0 /\ (n + 1) \div 2 = k + 1 /\ (n + 1) % 2 # 1
    BY <1>5
  <2>2. (n + 2) \div 2 = k + 1
    BY <1>5
  <2> DEFINE r == a.sum + b
  <2>3. r \in Nat /\ r <= c + Carry
    <3> HIDE DEF c, o
    <3> QED
      BY <1>0, <1>1, <1>2, <1>3
  <2>4. r % SumMod = r
    <3>1. c + Carry < SumMod
      BY <1>3, <2>2
    <3> HIDE DEF r, c
    <3>2. r < SumMod
      BY <1>0, <1>3, <2>3, <3>1
    <3> QED
      BY <2>3, <3>2, Below
  <2>5. x = [sum |-> r, parity |-> FALSE]
    BY <1>2, <1>5, <2>4 DEF AddByte
  <2>6. y = [words |-> Plus(w.words, o + b), odd |-> 0, half |-> FALSE]
    BY <1>2, <1>5 DEF WordStep
  <2>7. Plus(w.words, o + b) = Norm(r) /\ Norm(r) \in Nat
    <3> HIDE DEF o, c
    <3>1. a.sum - o \in Nat /\ o + b \in Nat /\ (a.sum - o) + (o + b) = r
      BY <1>0, <1>1, <1>2
    <3>2. w.words \in 0..Carry /\ w.words = Norm(a.sum - o)
      BY <1>2, <3>1, NormType
    <3>3. Plus(w.words, o + b) = Norm(w.words + (o + b))
      BY <1>1, <3>2, PlusIsNorm
    <3>4. Norm(Norm(a.sum - o) + (o + b)) = Norm((a.sum - o) + (o + b))
      BY <3>1, NormPlus
    <3>5. Norm(r) \in Nat
      BY <2>3, NormType
    <3> QED
      BY <3>1, <3>2, <3>3, <3>4, <3>5
  <2>8. x \in SumType /\ y \in WordsType
    BY <2>3, <2>5, <2>6, <2>7 DEF SumType, WordsType
  <2>9. x.sum = r /\ x.parity = FALSE /\ y.words = Norm(r) /\ y.odd = 0 /\ y.half = FALSE
    BY <2>5, <2>6, <2>7
  <2> HIDE DEF x, y, c, o, k, r
  <2>10. y.odd * B = 0 /\ y.odd \in Byte
    BY <2>9, WordType DEF Byte
  <2>11. y.odd * B <= x.sum /\ y.words = Norm(x.sum - y.odd * B)
    BY <2>3, <2>9, <2>10
  <2>12. x.sum <= MostWords((n + 1) \div 2) + y.odd * B
    <3>1. MostWords((n + 1) \div 2) = c + Carry
      BY <1>3, <2>1
    <3>2. (c + Carry) + 0 = c + Carry
      BY <1>0, <1>3
    <3> QED
      BY <2>3, <2>9, <2>10, <3>1, <3>2
  <2> QED
    BY <2>1, <2>8, <2>9, <2>10, <2>11, <2>12 DEF Agree, x, y
<1> QED
  BY <1>4, <1>5

\* The accumulator has room for the initial sum and all the words.
SumFits == MostWords((MaxAdded + 1) \div 2) < SumMod

\* One piece: add() of any data, however it was cut.
LEMMA OnePiece ==
  ASSUME SumFits, count \in Nat, Agree(Start, RefStart, count),
         NEW data \in Seq(Byte), count + Len(data) <= MaxAdded
  PROVE  Agree(SumOf(data), WordsOf(data), count + Len(data))
<1> DEFINE Fits(d) == count + Len(d) <= MaxAdded
           Good(d) == Agree(SumOf(d), WordsOf(d), count + Len(d))
           S == {d \in Seq(Byte) : Fits(d) => Good(d)}
<1>0. _sum \in Nat /\ _parity \in BOOLEAN /\ words \in Nat /\ odd \in Nat
  BY DEF Agree, SumType, WordsType, Start, RefStart
<1>1. <<>> \in S
  <2>1. count + Len(<<>>) = count /\ <<>> \in Seq(Byte)
    BY EmptySeq
  <2>2. SumOf(<<>>) = Start /\ WordsOf(<<>>) = RefStart
    BY <1>0, SumOfAppend, WordsOfAppend
  <2> QED
    BY <2>1, <2>2
<1>2. ASSUME NEW d \in S, NEW b \in Byte PROVE Append(d, b) \in S
  <2>1. d \in Seq(Byte) /\ (Fits(d) => Good(d))
    OBVIOUS
  <2>2. Append(d, b) \in Seq(Byte) /\ Len(Append(d, b)) = Len(d) + 1 /\ Len(d) \in Nat
    BY <2>1, AppendProperties, LenProperties
  <2>3. SUFFICES ASSUME Fits(Append(d, b)) PROVE Good(Append(d, b))
    BY <2>2
  <2> DEFINE n == count + Len(d)
  <2>4. n \in Nat /\ count + Len(Append(d, b)) = n + 1
    BY <2>2
  <2>5. SumMod \in Nat /\ MaxAdded \in Nat
    <3>1. WordMod * WordMod \in Nat
      BY WordType
    <3> QED
      BY <3>1, WordType, ChecksumAssumption
  <2>6. n <= MaxAdded /\ MostWords((n + 2) \div 2) < SumMod
    <3> HIDE DEF n
    <3>1. n + 1 <= MaxAdded
      BY <2>3, <2>4
    <3> DEFINE j == (n + 2) \div 2
               k == (MaxAdded + 1) \div 2
    <3>2. j \in Nat /\ k \in Nat /\ j <= k
      BY <2>4, <2>5, <3>1
    <3>3. MostWords(k) < SumMod
      BY DEF SumFits
    <3> HIDE DEF j, k
    <3>4. MostWords(j) \in Nat /\ MostWords(k) \in Nat /\ MostWords(j) <= MostWords(k)
      BY <3>2, MostWordsGrows
    <3>5. MostWords(j) < SumMod
      BY <2>5, <3>3, <3>4
    <3> QED
      BY <2>4, <2>5, <3>1, <3>5 DEF j
  <2>7. Agree(SumOf(d), WordsOf(d), n)
    BY <2>1, <2>6
  <2>8. /\ SumOf(Append(d, b)) = AddByte(SumOf(d), b)
        /\ WordsOf(Append(d, b)) = WordStep(WordsOf(d), b)
    BY <1>0, <2>1, SumOfAppend, WordsOfAppend
  <2> HIDE DEF n
  <2>9. Agree(AddByte(SumOf(d), b), WordStep(WordsOf(d), b), n + 1)
    BY <2>4, <2>6, <2>7, OneMoreByte
  <2> QED
    BY <2>4, <2>8, <2>9
<1>3. S \in SUBSET Seq(Byte)
  OBVIOUS
<1> HIDE DEF S
<1>4. S = Seq(Byte)
  BY <1>1, <1>2, <1>3, SeqInduction
<1> QED
  BY <1>4 DEF S

\* The state of the checksum and of its reference agree.
ChecksumInv ==
  /\ count \in Nat
  /\ count <= MaxAdded
  /\ Agree(Start, RefStart, count)

\* Two words that make up a sum: their one's complement sum is that of the
\* whole.
LEMMA NormOfTwoWords ==
  ASSUME NEW x \in Nat, x < SumMod
  PROVE  Plus(x \div WordMod, x % WordMod) = Norm(x)
<1> DEFINE h == x \div WordMod
           l == x % WordMod
<1>0. /\ Carry \in Nat \ {0} /\ WordMod \in Nat \ {0} /\ WordMod = Carry + 1
      /\ SumMod = WordMod * WordMod
  BY WordType
<1>1. h \in Nat /\ l \in 0..WordMod - 1 /\ x = h * WordMod + l
  BY <1>0, DivMod
<1>2. h < WordMod
  BY <1>0, DivLess
<1> HIDE DEF h, l
<1>3. h \in 0..Carry /\ l \in 0..Carry
  BY <1>0, <1>1, <1>2
<1>4. Plus(h, l) = Norm(h + l)
  BY <1>3, PlusIsNorm
<1>5. h * WordMod = h + h * Carry /\ h * Carry \in Nat
  BY <1>0, <1>1
<1>6. x = (h + l) + h * Carry
  <2> DEFINE m == h * Carry
  <2>1. x = (h + m) + l /\ m \in Nat
    BY <1>1, <1>5
  <2> HIDE DEF m
  <2>2. x = (h + l) + m
    BY <1>1, <2>1
  <2> QED
    BY <2>2 DEF m
<1>7. CASE h + l = 0
  <2>1. h = 0 /\ l = 0
    BY <1>3, <1>7, <1>0
  <2>2. h * Carry = 0
    BY <1>0, <2>1
  <2>3. x = h + l
    BY <1>6, <1>7, <2>2
  <2> QED
    BY <1>4, <2>3 DEF h, l
<1>8. CASE h + l # 0
  <2>1. h + l \in Nat \ {0}
    BY <1>0, <1>3, <1>8
  <2>2. Norm((h + l) + h * Carry) = Norm(h + l)
    BY <1>1, <2>1, NormType
  <2> QED
    BY <1>4, <1>6, <2>2 DEF h, l
<1> QED
  BY <1>7, <1>8

\* The constructor, with any initial sum.
LEMMA InitChecksumInv ==
  ASSUME ChecksumInit
  PROVE  ChecksumInv
<1>0. /\ B \in Nat \ {0, 1} /\ MaxAdded \in Nat /\ SumMod \in Nat
      /\ MaxInitial \in Nat /\ MaxInitial < SumMod
  <2>1. WordMod * WordMod \in Nat
    BY WordType
  <2>2. SumMod \in Nat
    BY <2>1, WordType
  <2> QED
    BY <2>2, WordType, ChecksumAssumption
<1>1. /\ _sum \in 0..MaxInitial /\ _parity = FALSE /\ count = 0 /\ odd = 0
      /\ words = Plus(_sum \div WordMod, _sum % WordMod)
  BY DEF ChecksumInit
<1>2. _sum \in Nat /\ _sum < SumMod
  BY <1>0, <1>1
<1>3. words = Norm(_sum) /\ words \in Nat
  BY <1>1, <1>2, NormOfTwoWords, NormType
<1> DEFINE x == Start
           y == RefStart
<1>4. 0 % 2 = 0 /\ 0 % 2 # 1 /\ 0 \div 2 = 0
  OBVIOUS
<1>5. /\ x.sum = _sum /\ x.parity = FALSE /\ x \in SumType
      /\ y.words = words /\ y.odd = 0 /\ y.half = FALSE /\ y \in WordsType
  <2>1. (count % 2 = 1) = FALSE
    BY <1>1, <1>4
  <2>2. x = [sum |-> _sum, parity |-> FALSE]
    BY <1>1 DEF Start
  <2>3. y = [words |-> words, odd |-> 0, half |-> FALSE]
    BY <1>1, <2>1 DEF RefStart
  <2> HIDE DEF x, y
  <2> QED
    BY <1>2, <1>3, <2>2, <2>3 DEF SumType, WordsType
<1> HIDE DEF x, y
<1>6. y.odd * B = 0 /\ y.odd \in Byte
  BY <1>0, <1>5 DEF Byte
<1>7. y.odd * B <= x.sum /\ y.words = Norm(x.sum - y.odd * B)
  <2>1. _sum - 0 = _sum /\ 0 <= _sum
    BY <1>2
  <2> QED
    BY <1>3, <1>5, <1>6, <2>1
<1>8. x.sum <= MostWords(0 \div 2) + y.odd * B
  <2>1. Carry * 0 = 0
    BY WordType
  <2>2. MostWords(0 \div 2) = MaxInitial + 0
    BY <1>4, <2>1 DEF MostWords
  <2> QED
    BY <1>0, <1>1, <1>5, <1>6, <2>2
<1>9. Agree(x, y, 0)
  BY <1>4, <1>5, <1>6, <1>7, <1>8 DEF Agree
<1> QED
  BY <1>0, <1>1, <1>9 DEF ChecksumInv, x, y

\* add().
LEMMA AddChecksumInv ==
  ASSUME ChecksumInv, SumFits, [ChecksumNext]_checksumVars
  PROVE  ChecksumInv'
<1>0. count \in Nat /\ count <= MaxAdded /\ Agree(Start, RefStart, count)
  BY DEF ChecksumInv
<1>1. ASSUME NEW data \in Pieces, add(data) PROVE ChecksumInv'
  <2>1. data \in Seq(Byte)
    <3>1. PICK n \in 0..MaxPiece : data \in [1..n -> Byte]
      BY DEF Pieces, Byte
    <3> QED
      BY <3>1
  <2>2. /\ count + Len(data) <= MaxAdded
        /\ _sum' = SumOf(data).sum /\ _parity' = SumOf(data).parity
        /\ count' = count + Len(data)
        /\ words' = WordsOf(data).words /\ odd' = WordsOf(data).odd
    BY <1>1 DEF add
  <2> DEFINE x == SumOf(data)
             y == WordsOf(data)
             n == count + Len(data)
  <2>3. Agree(x, y, n) /\ n \in Nat
    BY <1>0, <2>1, <2>2, OnePiece, LenProperties
  <2>4. x \in SumType /\ y \in WordsType /\ y.half = (n % 2 = 1)
    BY <2>3 DEF Agree
  <2> HIDE DEF x, y, n
  <2>5. x = [sum |-> x.sum, parity |-> x.parity]
    BY <2>4 DEF SumType
  <2>6. y = [words |-> y.words, odd |-> y.odd, half |-> (n % 2 = 1)]
    BY <2>4 DEF WordsType
  <2>7. Start' = x
    BY <2>2, <2>5 DEF Start, x
  <2>8. RefStart' = y
    BY <2>2, <2>6 DEF RefStart, y, n
  <2>9. count' = n /\ n <= MaxAdded
    BY <2>2 DEF n
  <2>10. Agree(Start', RefStart', count')
    BY <2>3, <2>7, <2>8, <2>9
  <2> QED
    BY <2>3, <2>9, <2>10 DEF ChecksumInv, Agree
<1>2. CASE UNCHANGED checksumVars
  BY <1>2 DEF ChecksumInv, checksumVars, Agree, Start, RefStart
<1> QED
  BY <1>1, <1>2 DEF ChecksumNext

\* Adding the complement of a sum to it fills the word, and still does not
\* overflow the accumulator.
LEMMA AddComplement ==
  ASSUME NEW x \in Nat, NEW k \in Nat, k <= WordMod, x <= Carry * (1 + k)
  PROVE  /\ Carry - Norm(x) \in 0..Carry
         /\ x + (Carry - Norm(x)) < SumMod
         /\ Norm(x + (Carry - Norm(x))) = Carry
<1>0. Carry \in Nat \ {0} /\ WordMod \in Nat /\ WordMod = Carry + 1
  BY WordType
<1>1. Norm(x) \in 0..Carry /\ (Norm(x) = 0 <=> x = 0)
  BY NormType
<1>2. PICK j \in Nat : x = Norm(x) + j * Carry
  BY NormType
<1> DEFINE c == Norm(x)
           m == j * Carry
           v == Carry - c
<1>3. v \in 0..Carry /\ m \in Nat /\ x = c + m
  BY <1>0, <1>1, <1>2
<1> HIDE DEF c
<1>4. x + v = Carry + m
  <2> HIDE DEF m
  <2> QED
    BY <1>0, <1>1, <1>3 DEF c
<1>5. j <= k
  <2>1. CASE c = 0
    <3>1. x = 0
      BY <1>1, <2>1 DEF c
    <3>2. j * Carry = 0
      BY <1>3, <2>1, <3>1
    <3>3. j = 0
      BY <1>0, <3>2
    <3> QED
      BY <3>3
  <2>2. CASE c # 0
    <3>1. j * Carry < (1 + k) * Carry
      <4>1. Carry * (1 + k) = (1 + k) * Carry /\ (1 + k) * Carry \in Nat
        BY <1>0
      <4> DEFINE z == (1 + k) * Carry
      <4>2. x <= z /\ z \in Nat
        BY <4>1
      <4> HIDE DEF m, z
      <4>3. c \in Nat \ {0}
        BY <1>0, <1>1, <2>2 DEF c
      <4>4. m < z
        BY <1>3, <4>2, <4>3
      <4> QED
        BY <4>4 DEF m, z
    <3>2. j < 1 + k
      <4> SUFFICES ASSUME ~ (j < 1 + k) PROVE FALSE
        OBVIOUS
      <4>1. PICK i \in Nat : j = (1 + k) + i
        <5>1. j - (1 + k) \in Nat /\ j = (1 + k) + (j - (1 + k))
          OBVIOUS
        <5> QED
          BY <5>1
      <4>2. j * Carry = (1 + k) * Carry + i * Carry /\ i * Carry \in Nat
        BY <1>0, <4>1
      <4>3. (1 + k) * Carry \in Nat
        BY <1>0
      <4> QED
        BY <3>1, <4>2, <4>3
    <3> QED
      BY <3>2
  <2> QED
    BY <2>1, <2>2
<1>6. x + v < SumMod
  <2>1. Carry + m = Carry * (1 + j)
    BY <1>0
  <2>2. x + v \in Nat
    BY <1>0, <1>3
  <2>3. j <= WordMod
    BY <1>0, <1>5
  <2> HIDE DEF m, v
  <2>4. x + v <= Carry * (1 + j)
    BY <1>4, <2>1, <2>2
  <2> QED
    BY <2>2, <2>3, <2>4, NoOverflow
<1>7. Norm(Carry + m) = Carry
  <2>1. Norm(Carry + m) = Norm(Carry)
    BY <1>0, NormType
  <2>2. Carry \in 0..Carry
    BY <1>0
  <2> QED
    BY <2>1, <2>2, NormType
<1> QED
  BY <1>3, <1>4, <1>6, <1>7 DEF c

\* What the invariant says of the state.
LEMMA ChecksumFacts ==
  ASSUME ChecksumInv
  PROVE  /\ count \in Nat /\ count <= MaxAdded
         /\ _sum \in Nat /\ _parity \in BOOLEAN /\ words \in Nat /\ odd \in Byte
         /\ odd * B <= _sum /\ words = Norm(_sum - odd * B)
         /\ ~_parity => odd = 0
         /\ _sum <= MostWords(count \div 2) + odd * B
<1> DEFINE x == Start
           y == RefStart
<1>1. count \in Nat /\ count <= MaxAdded /\ Agree(x, y, count)
  BY DEF ChecksumInv
<1>2. x.sum = _sum /\ x.parity = _parity /\ y.words = words /\ y.odd = odd
  BY DEF Start, RefStart
<1> HIDE DEF x, y
<1>3. x.sum \in Nat /\ x.parity \in BOOLEAN /\ y.words \in Nat
  BY <1>1 DEF Agree, SumType, WordsType
<1>4. count % 2 # 1 => count % 2 = 0
  BY <1>1
<1>5. ~x.parity => y.odd = 0
  BY <1>1, <1>4 DEF Agree
<1>6. /\ y.odd \in Byte /\ y.odd * B <= x.sum /\ y.words = Norm(x.sum - y.odd * B)
      /\ x.sum <= MostWords(count \div 2) + y.odd * B
  BY <1>1 DEF Agree
<1> QED
  BY <1>1, <1>2, <1>3, <1>5, <1>6

\* However the data was cut into pieces, value() is the checksum.
LEMMA ChecksumIsRight ==
  ASSUME ChecksumInv
  PROVE  ValueIsTheChecksum
<1> DEFINE o == odd * B
<1>0. /\ _sum \in Nat /\ words \in Nat /\ odd \in Byte /\ o <= _sum /\ words = Norm(_sum - o)
  BY ChecksumFacts
<1>1. o \in 0..Carry
  <2>1. 0 \in Byte
    BY WordType DEF Byte
  <2> QED
    BY <1>0, <2>1, PairIsWord
<1> HIDE DEF o
<1>2. _sum - o \in Nat /\ (_sum - o) + o = _sum /\ o \in Nat
  BY <1>0, <1>1, WordType
<1>3. words \in 0..Carry
  BY <1>0, <1>2, NormType
<1>4. Plus(words, o) = Norm(words + o)
  BY <1>1, <1>3, PlusIsNorm
<1>5. Norm(Norm(_sum - o) + o) = Norm((_sum - o) + o)
  BY <1>2, NormPlus
<1>6. Plus(words, o) = Norm(_sum)
  BY <1>0, <1>2, <1>4, <1>5
<1>7. value(_sum) = Carry - Norm(_sum)
  BY <1>0, ValueIsComplement
<1> QED
  BY <1>6, <1>7 DEF ValueIsTheChecksum, Carry, o

\* Two bytes that complete an even number of bytes, added.
LEMMA TwoBytes ==
  ASSUME _sum \in Nat, _parity = FALSE, NEW hi \in Byte, NEW lo \in Byte,
         _sum + (hi * B + lo) < SumMod
  PROVE  SumOf(<<hi, lo>>).sum = _sum + (hi * B + lo)
<1> DEFINE e == hi * B
           first == SumOf(<<hi>>)
           both == SumOf(<<hi, lo>>)
<1>0. e \in Nat /\ lo \in Nat /\ SumMod \in Nat
  <2>1. hi \in Nat /\ lo \in Nat /\ B \in Nat
    BY WordType DEF Byte
  <2>2. WordMod * WordMod \in Nat /\ SumMod = WordMod * WordMod
    BY WordType
  <2> QED
    BY <2>1, <2>2
<1>1. <<hi>> = Append(<<>>, hi) /\ <<hi, lo>> = Append(<<hi>>, lo)
  OBVIOUS
<1>2. <<>> \in Seq(Byte) /\ <<hi>> \in Seq(Byte)
  BY EmptySeq
<1>3. _parity \in BOOLEAN
  OBVIOUS
<1>4. first = AddByte(Start, hi) /\ both = AddByte(first, lo)
  BY <1>1, <1>2, <1>3, SumOfAppend
<1> HIDE DEF first, both
<1>5. \A y \in Nat, z \in Nat : y < z => y % z = y
  OBVIOUS
<1>6. first = [sum |-> (_sum + e) % SumMod, parity |-> TRUE]
  BY <1>4 DEF AddByte, Start
<1> HIDE DEF e
<1>7. _sum + e \in Nat /\ _sum + e < SumMod
  BY <1>0 DEF e
<1>8. (_sum + e) % SumMod = _sum + e
  BY <1>0, <1>5, <1>7
<1>9. first.sum = _sum + e /\ first.parity = TRUE
  BY <1>6, <1>8
<1>10. both.sum = ((_sum + e) + lo) % SumMod
  BY <1>4, <1>9 DEF AddByte
<1>11. (_sum + e) + lo = _sum + (e + lo) /\ _sum + (e + lo) \in Nat
  BY <1>0
<1>12. (_sum + (e + lo)) % SumMod = _sum + (e + lo)
  BY <1>0, <1>5, <1>11 DEF e
<1>13. both.sum = _sum + (e + lo)
  BY <1>10, <1>11, <1>12
<1> QED
  BY <1>13 DEF e, both

\* Data that ends with its checksum sums up to the value a receiver tests for.
LEMMA ChecksumChecksOut ==
  ASSUME ChecksumInv, SumFits
  PROVE  ChecksumVerifies
<1> SUFFICES ASSUME _parity = FALSE
             PROVE  value(SumOf(<<value(_sum) \div B,
                                              value(_sum) % B>>).sum) = 0
  BY ChecksumFacts DEF ChecksumVerifies
<1> DEFINE k == count \div 2
           v == value(_sum)
           hi == v \div B
           lo == v % B
<1>0. /\ Carry \in Nat \ {0} /\ WordMod \in Nat /\ WordMod = Carry + 1 /\ MaxAdded \in Nat
      /\ B \in Nat \ {0, 1} /\ WordMod = B * B
  BY WordType, ChecksumAssumption
<1>1. count \in Nat /\ count <= MaxAdded /\ _sum \in Nat /\ odd = 0
      /\ _sum <= MostWords(k) + odd * B
  BY ChecksumFacts
<1>2. k \in Nat /\ k <= (MaxAdded + 1) \div 2 /\ (MaxAdded + 1) \div 2 \in Nat
  BY <1>0, <1>1
<1>3. _sum <= Carry * (1 + WordMod)
  <2>1. odd * B = 0
    BY <1>0, <1>1
  <2> DEFINE c == MostWords(k)
             j == (MaxAdded + 1) \div 2
  <2>2. MostWords(j) < SumMod
    BY DEF SumFits
  <2> HIDE DEF k, j
  <2>3. c \in Nat /\ MostWords(j) \in Nat /\ c <= MostWords(j)
    BY <1>2, MostWordsGrows DEF j
  <2> HIDE DEF c
  <2>4. _sum <= c + 0
    BY <1>1, <2>1 DEF c
  <2> DEFINE z == Carry * (1 + WordMod)
  <2>5. z = SumMod - 1 /\ SumMod \in Nat
    <3>1. WordMod * WordMod \in Nat /\ SumMod = WordMod * WordMod
      BY <1>0, WordType
    <3>2. Carry * (1 + WordMod) = WordMod * WordMod - 1
      BY <1>0
    <3> QED
      BY <3>1, <3>2
  <2> HIDE DEF z
  <2>6. _sum <= z
    BY <1>1, <2>2, <2>3, <2>4, <2>5
  <2> QED
    BY <2>6 DEF z
<1>4. v = Carry - Norm(_sum)
  BY <1>1, ValueIsComplement
<1> HIDE DEF k, v
<1>5. v \in 0..Carry /\ _sum + v < SumMod /\ Norm(_sum + v) = Carry
  BY <1>0, <1>1, <1>3, <1>4, AddComplement
<1>6. v \in Nat /\ v < B * B
  BY <1>0, <1>5
<1>7. hi \in Nat /\ lo \in 0..B - 1 /\ v = hi * B + lo
  BY <1>0, <1>6, DivMod
<1>8. hi < B
  BY <1>0, <1>6, DivLess
<1> HIDE DEF hi, lo
<1>9. hi \in Byte /\ lo \in Byte
  BY <1>0, <1>7, <1>8 DEF Byte
<1>10. SumOf(<<hi, lo>>).sum = _sum + v
  BY <1>1, <1>5, <1>7, <1>9, TwoBytes
<1>11. value(_sum + v) = Carry - Norm(_sum + v)
  <2>1. _sum + v \in Nat
    BY <1>1, <1>6
  <2> QED
    BY <2>1, ValueIsComplement
<1>12. value(SumOf(<<hi, lo>>).sum) = 0
  BY <1>0, <1>5, <1>10, <1>11
<1> QED
  BY <1>12 DEF hi, lo, v

\* The checksum of any data, cut into pieces of any length and added to any
\* initial sum, is the one's complement sum of the words, as long as the plain
\* sum of as many words, and the initial sum, fits in the accumulator.
THEOREM ChecksumIsTheChecksum ==
  ASSUME MaxInitial + Carry * ((MaxAdded + 1) \div 2) < SumMod
  PROVE  ChecksumSpec => []ValueIsTheChecksum
<1>0. SumFits
  BY DEF SumFits, MostWords
<1>1. ChecksumInit => ChecksumInv
  BY InitChecksumInv
<1>2. ChecksumInv /\ [ChecksumNext]_checksumVars => ChecksumInv'
  BY <1>0, AddChecksumInv
<1>3. ChecksumInv => ValueIsTheChecksum
  BY ChecksumIsRight
<1> QED
  BY <1>1, <1>2, <1>3, PTL DEF ChecksumSpec

\* A packet that carries its checksum verifies at the receiver, whatever the
\* data and wherever it is cut, within the same limit.
THEOREM PacketsVerify ==
  ASSUME MaxInitial + Carry * ((MaxAdded + 1) \div 2) < SumMod
  PROVE  ChecksumSpec => []ChecksumVerifies
<1>0. SumFits
  BY DEF SumFits, MostWords
<1>1. ChecksumInit => ChecksumInv
  BY InitChecksumInv
<1>2. ChecksumInv /\ [ChecksumNext]_checksumVars => ChecksumInv'
  BY <1>0, AddChecksumInv
<1>3. ChecksumInv => ChecksumVerifies
  BY <1>0, ChecksumChecksOut
<1> QED
  BY <1>1, <1>2, <1>3, PTL DEF ChecksumSpec
=============================================================================
