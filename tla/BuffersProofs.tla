--------------------------- MODULE BuffersProofs ---------------------------
(***************************************************************************)
(* Proofs about module Buffers: what the loops of BufferList and           *)
(* BufferViewList compute, for every list.                                 *)
(*                                                                         *)
(* The loops are folds, so this takes induction over lists.  It is made    *)
(* with a set in the place of the usual predicate: a set of numbers that   *)
(* holds 0 and successors is Nat (Induction), a set of sequences that      *)
(* holds <<>> and is closed under Append is Seq(E) (SeqInduction).  From   *)
(* the first follows how FoldLeft, defined by a recursion over sets of     *)
(* indices, meets Append; each operator of Buffers then gets a lemma on    *)
(* the empty list and on one element more; and from those and the second   *)
(* follows what the operator means.                                        *)
(***************************************************************************)
EXTENDS Buffers, SequenceTheorems, NaturalsInduction, WellFoundedInduction, TLAPS

\* A set of numbers that is not empty has a least one.
LEMMA LeastNumber ==
  ASSUME NEW S \in SUBSET Nat, S # {}
  PROVE  \E m \in S : \A n \in S : m <= n
<1> DEFINE R == OpToRel(<, Nat)
<1>1. IsWellFoundedOn(R, Nat)
  BY NatLessThanWellFounded
<1>2. \A x, y \in Nat : x < y => <<x, y>> \in R
  BY DEF OpToRel
<1> HIDE DEF R
<1>3. S \subseteq Nat
  OBVIOUS
<1>4. \E m \in S : \A y \in S : ~ (<<y, m>> \in R)
  BY <1>1, <1>3, WFMin
<1>5. PICK m \in S : \A y \in S : ~ (<<y, m>> \in R)
  BY <1>4
<1>6. \A y \in S : ~ (y < m)
  BY <1>2, <1>3, <1>5
<1> QED
  BY <1>3, <1>6

\* Induction over numbers, for a set in the place of a predicate.
LEMMA Induction ==
  ASSUME NEW S \in SUBSET Nat, 0 \in S, \A n \in S : n + 1 \in S
  PROVE  S = Nat
<1> SUFFICES ASSUME Nat \ S # {} PROVE FALSE
  OBVIOUS
<1>1. PICK m \in Nat \ S : \A n \in Nat \ S : m <= n
  BY LeastNumber
<1>2. m - 1 \in Nat /\ (m - 1) + 1 = m
  BY <1>1
<1>3. m - 1 \in S
  BY <1>1, <1>2
<1> QED
  BY <1>1, <1>2, <1>3

\* Induction over sequences, from left to right.
LEMMA SeqInduction ==
  ASSUME NEW E, NEW S \in SUBSET Seq(E), <<>> \in S,
         \A s \in S, e \in E : Append(s, e) \in S
  PROVE  S = Seq(E)
<1> DEFINE N == {n \in Nat : \A s \in Seq(E) : Len(s) = n => s \in S}
<1>1. 0 \in N
  BY EmptySeq
<1>2. ASSUME NEW n \in N PROVE n + 1 \in N
  <2> SUFFICES ASSUME NEW s \in Seq(E), Len(s) = n + 1 PROVE s \in S
    OBVIOUS
  <2>1. s # <<>>
    BY EmptySeq
  <2>2. PICK t \in Seq(E), e \in E : s = Append(t, e)
    BY <2>1, SequenceEmptyOrAppend
  <2>3. Len(t) = n
    BY <2>2, AppendProperties, LenProperties
  <2> QED
    BY <2>2, <2>3
<1> HIDE DEF N
<1>3. N = Nat
  <2>1. N \in SUBSET Nat
    BY DEF N
  <2> QED
    BY <1>1, <1>2, <2>1, Induction
<1> QED
  BY <1>3, LenProperties DEF N

-----------------------------------------------------------------------------
(***************************************************************************)
(* Folding.  The step is a function here, so that the lemmas need no       *)
(* operators as parameters.                                                *)
(***************************************************************************)

\* f folds elements of E into a value of V.
FoldsInto(f, base, V, E) == base \in V /\ f \in [V \X E -> V]

\* h: the values that the fold goes through.
IsTrace(h, f, base, seq, V) ==
  /\ h \in [0..Len(seq) -> V]
  /\ h[0] = base
  /\ \A k \in 1..Len(seq) : h[k] = f[<<h[k - 1], seq[k]>>]

Trace(f, base, seq, V) == CHOOSE h : IsTrace(h, f, base, seq, V)

Fold(f, base, seq, V) == Trace(f, base, seq, V)[Len(seq)]

\* A fold has a trace.
LEMMA TraceExists ==
  ASSUME NEW E, NEW V, NEW base, NEW f, FoldsInto(f, base, V, E), NEW seq \in Seq(E)
  PROVE  IsTrace(Trace(f, base, seq, V), f, base, seq, V)
<1> USE DEF FoldsInto
<1>0. Len(seq) \in Nat /\ \A k \in 1..Len(seq) : seq[k] \in E
  BY LenProperties, ElementOfSeq
<1> DEFINE Goes(h, n) == /\ h[0] = base
                         /\ \A k \in 1..n : h[k] = f[<<h[k - 1], seq[k]>>]
           N == {n \in Nat : n <= Len(seq) => \E h \in [0..n -> V] : Goes(h, n)}
<1>1. 0 \in N
  <2> DEFINE h == [i \in 0..0 |-> base]
  <2>1. h \in [0..0 -> V] /\ Goes(h, 0)
    OBVIOUS
  <2> QED
    BY <2>1
<1>2. ASSUME NEW n \in N PROVE n + 1 \in N
  <2> SUFFICES ASSUME n + 1 <= Len(seq)
               PROVE  \E h \in [0..(n + 1) -> V] : Goes(h, n + 1)
    OBVIOUS
  <2>1. PICK h \in [0..n -> V] : Goes(h, n)
    BY <1>0
  <2> DEFINE g == [i \in 0..(n + 1) |->
                    IF i <= n THEN h[i] ELSE f[<<h[n], seq[n + 1]>>]]
  <2>2. n \in Nat /\ n + 1 \in 1..Len(seq)
    BY <1>0
  <2>3. h[n] \in V /\ seq[n + 1] \in E
    BY <1>0, <2>2
  <2>4. f[<<h[n], seq[n + 1]>>] \in V
    BY <2>3
  <2>5. \A i \in 0..n : h[i] \in V
    OBVIOUS
  <2>6. g \in [0..(n + 1) -> V]
    BY <2>2, <2>4, <2>5
  <2>7. g[0] = base
    BY <2>1, <2>2
  <2>8. ASSUME NEW k \in 1..(n + 1) PROVE g[k] = f[<<g[k - 1], seq[k]>>]
    <3>1. CASE k = n + 1
      <4>1. g[k] = f[<<h[n], seq[n + 1]>>] /\ g[k - 1] = h[n]
        BY <2>2, <3>1
      <4> QED
        BY <3>1, <4>1
    <3>2. CASE k # n + 1
      <4>1. k \in 1..n /\ k - 1 \in 0..n
        BY <2>2, <3>2
      <4>2. g[k] = h[k] /\ g[k - 1] = h[k - 1]
        BY <2>2, <4>1
      <4> QED
        BY <2>1, <4>1, <4>2
    <3> QED
      BY <3>1, <3>2
  <2>9. Goes(g, n + 1)
    BY <2>7, <2>8
  <2> HIDE DEF g
  <2> QED
    BY <2>6, <2>9
<1> HIDE DEF N
<1>3. N = Nat
  <2>1. N \in SUBSET Nat
    BY DEF N
  <2> QED
    BY <1>1, <1>2, <2>1, Induction
<1>4. \E h \in [0..Len(seq) -> V] : Goes(h, Len(seq))
  <2>1. Len(seq) \in N
    BY <1>0, <1>3
  <2> QED
    BY <1>0, <2>1 DEF N
<1>5. \E h : IsTrace(h, f, base, seq, V)
  BY <1>4 DEF IsTrace
<1> QED
  BY <1>5 DEF Trace

\* Whatever goes through the same steps ends where the fold ends.
LEMMA FoldUnique ==
  ASSUME NEW E, NEW V, NEW base, NEW f, FoldsInto(f, base, V, E), NEW seq \in Seq(E),
         NEW g, g[0] = base,
         \A k \in 1..Len(seq) : g[k - 1] \in V => g[k] = f[<<g[k - 1], seq[k]>>]
  PROVE  \A n \in 0..Len(seq) : g[n] = Trace(f, base, seq, V)[n]
<1>0. Len(seq) \in Nat
  BY LenProperties
<1> DEFINE h == Trace(f, base, seq, V)
           N == {n \in Nat : n <= Len(seq) => g[n] = h[n]}
<1>1. /\ h \in [0..Len(seq) -> V]
      /\ h[0] = base
      /\ \A k \in 1..Len(seq) : h[k] = f[<<h[k - 1], seq[k]>>]
  <2>1. IsTrace(h, f, base, seq, V)
    BY TraceExists
  <2> QED
    BY <2>1 DEF IsTrace
<1> HIDE DEF h
<1>2. 0 \in N
  BY <1>1
<1>3. ASSUME NEW n \in N PROVE n + 1 \in N
  <2> SUFFICES ASSUME n + 1 <= Len(seq) PROVE g[n + 1] = h[n + 1]
    OBVIOUS
  <2>1. n \in Nat /\ n + 1 \in 1..Len(seq) /\ (n + 1) - 1 = n /\ n \in 0..Len(seq)
    BY <1>0
  <2>2. g[n] = h[n] /\ h[n] \in V
    BY <1>0, <1>1, <2>1
  <2>3. g[n + 1] = f[<<g[n], seq[n + 1]>>]
    BY <2>1, <2>2
  <2>4. h[n + 1] = f[<<h[n], seq[n + 1]>>]
    BY <1>1, <2>1
  <2> QED
    BY <2>2, <2>3, <2>4
<1> HIDE DEF N
<1>4. N = Nat
  <2>1. N \in SUBSET Nat
    BY DEF N
  <2> QED
    BY <1>2, <1>3, <2>1, Induction
<1> QED
  BY <1>0, <1>4 DEF N, h

\* What a fold makes of the empty sequence and of one element more.
LEMMA FoldAppend ==
  ASSUME NEW E, NEW V, NEW base, NEW f, FoldsInto(f, base, V, E)
  PROVE  /\ Fold(f, base, <<>>, V) = base
         /\ \A seq \in Seq(E) : Fold(f, base, seq, V) \in V
         /\ \A seq \in Seq(E), e \in E :
              Fold(f, base, Append(seq, e), V) = f[<<Fold(f, base, seq, V), e>>]
<1>1. Fold(f, base, <<>>, V) = base
  <2>1. <<>> \in Seq(E) /\ Len(<<>>) = 0
    BY EmptySeq
  <2>2. Trace(f, base, <<>>, V)[0] = base
    <3>1. IsTrace(Trace(f, base, <<>>, V), f, base, <<>>, V)
      BY <2>1, TraceExists
    <3> QED
      BY <3>1 DEF IsTrace
  <2> QED
    BY <2>1, <2>2 DEF Fold
<1>2. ASSUME NEW seq \in Seq(E) PROVE Fold(f, base, seq, V) \in V
  <2>1. IsTrace(Trace(f, base, seq, V), f, base, seq, V) /\ Len(seq) \in Nat
    BY TraceExists, LenProperties
  <2> QED
    BY <2>1 DEF Fold, IsTrace
<1>3. ASSUME NEW seq \in Seq(E), NEW e \in E
      PROVE  Fold(f, base, Append(seq, e), V) = f[<<Fold(f, base, seq, V), e>>]
  <2> DEFINE n == Len(seq)
             all == Append(seq, e)
             g == Trace(f, base, all, V)
  <2>1. /\ n \in Nat
        /\ all \in Seq(E) /\ Len(all) = n + 1
        /\ \A k \in 1..n : all[k] = seq[k]
        /\ all[n + 1] = e
    BY AppendProperties, LenProperties
  <2> HIDE DEF all
  <2>2. /\ g \in [0..(n + 1) -> V]
        /\ g[0] = base
        /\ \A k \in 1..(n + 1) : g[k] = f[<<g[k - 1], all[k]>>]
    <3>1. IsTrace(g, f, base, all, V)
      BY <2>1, TraceExists
    <3> QED
      BY <2>1, <3>1 DEF IsTrace
  <2> HIDE DEF g
  <2>3. \A k \in 1..n : g[k] = f[<<g[k - 1], seq[k]>>]
    BY <2>1, <2>2
  <2>4. \A k \in 0..n : g[k] = Trace(f, base, seq, V)[k]
    BY <2>2, <2>3, FoldUnique
  <2>5. g[n] = Fold(f, base, seq, V)
    BY <2>1, <2>4 DEF Fold
  <2>6. g[n + 1] = f[<<g[n], e>>]
    BY <2>1, <2>2
  <2> QED
    BY <2>1, <2>5, <2>6 DEF Fold, g, all
<1> QED
  BY <1>1, <1>2, <1>3

\* FoldLeft recurses over the sets of indices, the greatest index last.
IsIter(iter, f, base, seq, V) ==
  /\ iter \in [SUBSET (1..Len(seq)) -> V]
  /\ \A s \in SUBSET (1..Len(seq)) :
       iter[s] = IF s = {} THEN base ELSE f[<<iter[s \ {Max(s)}], seq[Max(s)]>>]

\* The greatest of some numbers up to n + 1, n + 1 among them.
LEMMA MaxOfRange ==
  ASSUME NEW n \in Nat, NEW s \in SUBSET (1..(n + 1)), n + 1 \in s
  PROVE  Max(s) = n + 1
<1>1. \A x \in s : n + 1 >= x
  OBVIOUS
<1>2. \A m \in s : (\A x \in s : m >= x) => m = n + 1
  OBVIOUS
<1> QED
  BY <1>1, <1>2 DEF Max

\* Some of the numbers from 1 to n have a greatest one.
LEMMA MaxOfIndices ==
  ASSUME NEW n \in Nat, NEW s \in SUBSET (1..n), s # {}
  PROVE  Max(s) \in s
<1> DEFINE D == {n - i : i \in s}
<1>0. \A i \in s : i \in Nat /\ n - i \in Nat
  OBVIOUS
<1>1. D \in SUBSET Nat /\ D # {}
  BY <1>0
<1>2. PICK d \in D : \A e \in D : d <= e
  BY <1>1, LeastNumber
<1>3. PICK m \in s : d = n - m
  OBVIOUS
<1>4. ASSUME NEW i \in s PROVE m >= i
  <2>1. n - m <= n - i
    BY <1>2, <1>3
  <2> QED
    BY <1>0, <2>1
<1> QED
  BY <1>4 DEF Max

\* The last of some elements of a sequence is an element of it.
LEMMA LastIndex ==
  ASSUME NEW E, NEW seq \in Seq(E), NEW s \in SUBSET DOMAIN seq, s # {}
  PROVE  seq[Max(s)] \in E
<1>1. DOMAIN seq = 1..Len(seq) /\ Len(seq) \in Nat
  BY LenProperties
<1>2. Max(s) \in s
  BY <1>1, MaxOfIndices
<1> QED
  BY <1>1, <1>2, ElementOfSeq

\* The recursion of FoldLeft has a solution.
LEMMA IterExists ==
  ASSUME NEW E, NEW V, NEW base, NEW f, FoldsInto(f, base, V, E), NEW seq \in Seq(E)
  PROVE  \E iter : IsIter(iter, f, base, seq, V)
<1> USE DEF FoldsInto
<1>0. Len(seq) \in Nat /\ \A k \in 1..Len(seq) : seq[k] \in E
  BY LenProperties, ElementOfSeq
<1> DEFINE Goes(g, n) == \A s \in SUBSET (1..n) :
             g[s] = IF s = {} THEN base ELSE f[<<g[s \ {Max(s)}], seq[Max(s)]>>]
           Has(n) == \E g \in [SUBSET (1..n) -> V] : Goes(g, n)
           N == {n \in Nat : n <= Len(seq) => Has(n)}
<1>1. 0 \in N
  <2> DEFINE g == [s \in SUBSET (1..0) |-> base]
  <2>1. g \in [SUBSET (1..0) -> V] /\ Goes(g, 0)
    OBVIOUS
  <2> QED
    BY <2>1
<1>2. ASSUME NEW n \in N PROVE n + 1 \in N
  <2> HIDE DEF Has
  <2> SUFFICES ASSUME n + 1 <= Len(seq) PROVE Has(n + 1)
    OBVIOUS
  <2>0. Has(n)
    BY <1>0
  <2> USE DEF Has
  <2>1. PICK h \in [SUBSET (1..n) -> V] : Goes(h, n)
    BY <2>0
  <2>2. n \in Nat /\ n + 1 \in 1..Len(seq)
    BY <1>0
  <2> DEFINE last(s) == f[<<h[s \ {n + 1}], seq[n + 1]>>]
             g == [s \in SUBSET (1..(n + 1)) |->
                    IF n + 1 \in s THEN last(s) ELSE h[s]]
  <2>3. ASSUME NEW s \in SUBSET (1..(n + 1))
        PROVE  /\ n + 1 \notin s => s \in SUBSET (1..n)
               /\ s \ {n + 1} \in SUBSET (1..n)
    BY <2>2
  <2>4. \A s \in SUBSET (1..n) : n + 1 \notin s /\ s \in SUBSET (1..(n + 1))
    BY <2>2
  <2>5. \A s \in SUBSET (1..(n + 1)) : last(s) \in V
    <3> SUFFICES ASSUME NEW s \in SUBSET (1..(n + 1)) PROVE last(s) \in V
      OBVIOUS
    <3>1. h[s \ {n + 1}] \in V /\ seq[n + 1] \in E
      BY <1>0, <2>2, <2>3
    <3> QED
      BY <3>1
  <2> HIDE DEF last
  <2>6. g \in [SUBSET (1..(n + 1)) -> V]
    BY <2>3, <2>5
  <2>7. \A s \in SUBSET (1..n) : g[s] = h[s]
    BY <2>4
  <2>8. Goes(g, n + 1)
    <3> SUFFICES ASSUME NEW s \in SUBSET (1..(n + 1))
                 PROVE  g[s] = IF s = {} THEN base
                          ELSE f[<<g[s \ {Max(s)}], seq[Max(s)]>>]
      OBVIOUS
    <3>1. CASE n + 1 \in s
      <4>1. Max(s) = n + 1 /\ s # {}
        BY <2>2, <3>1, MaxOfRange
      <4>2. g[s \ {n + 1}] = h[s \ {n + 1}]
        BY <2>3, <2>7
      <4>3. g[s] = f[<<h[s \ {n + 1}], seq[n + 1]>>]
        BY <3>1 DEF last
      <4> QED
        BY <4>1, <4>2, <4>3
    <3>2. CASE n + 1 \notin s
      <4>1. s \in SUBSET (1..n) /\ s \ {Max(s)} \in SUBSET (1..n)
        BY <2>3, <3>2
      <4>2. g[s] = h[s] /\ g[s \ {Max(s)}] = h[s \ {Max(s)}]
        BY <2>7, <4>1
      <4> HIDE DEF g
      <4> QED
        BY <2>1, <4>1, <4>2
    <3> QED
      BY <3>1, <3>2
  <2> HIDE DEF g
  <2> QED
    BY <2>6, <2>8
<1> HIDE DEF N
<1>3. N = Nat
  <2>1. N \in SUBSET Nat
    BY DEF N
  <2> QED
    BY <1>1, <1>2, <2>1, Induction
<1>4. Has(Len(seq))
  <2> HIDE DEF Has
  <2>1. Len(seq) \in N
    BY <1>0, <1>3
  <2> QED
    BY <1>0, <2>1 DEF N
<1> QED
  BY <1>4 DEF IsIter

\* iter recurses as FoldLeft does, as far as it stays within V.
Recurses(iter, f, base, seq, V) ==
  /\ iter[{}] = base
  /\ \A s \in SUBSET DOMAIN seq : s # {} /\ iter[s \ {Max(s)}] \in V =>
       iter[s] = f[<<iter[s \ {Max(s)}], seq[Max(s)]>>]

\* What recurses like FoldLeft computes the fold.
LEMMA IterIsFold ==
  ASSUME NEW E, NEW V, NEW base, NEW f, FoldsInto(f, base, V, E), NEW seq \in Seq(E),
         NEW iter, Recurses(iter, f, base, seq, V)
  PROVE  iter[DOMAIN seq] = Fold(f, base, seq, V)
<1>0. Len(seq) \in Nat /\ DOMAIN seq = 1..Len(seq)
  BY LenProperties
<1> DEFINE g == [k \in 0..Len(seq) |-> iter[1..k]]
<1>1. g[0] = base
  BY <1>0 DEF Recurses
<1>2. ASSUME NEW k \in 1..Len(seq), g[k - 1] \in V
      PROVE  g[k] = f[<<g[k - 1], seq[k]>>]
  <2>0. k \in Nat /\ k >= 1 /\ k <= Len(seq)
    BY <1>0
  <2>1. /\ k - 1 \in Nat /\ (k - 1) + 1 = k /\ k \in 1..k
        /\ (1..k) \in SUBSET (1..Len(seq)) /\ 1..k # {}
        /\ (1..k) \ {k} = 1..(k - 1)
    <3>1. k - 1 \in Nat /\ (k - 1) + 1 = k /\ k \in 1..k
      BY <2>0
    <3>2. \A x \in 1..k : x \in 1..Len(seq)
      BY <1>0, <2>0
    <3>3. (1..k) \ {k} = 1..(k - 1)
      BY <2>0
    <3> QED
      BY <3>1, <3>2, <3>3
  <2>2. Max(1..k) = k
    BY <2>1, MaxOfRange
  <2>3. g[k - 1] = iter[1..(k - 1)] /\ g[k] = iter[1..k]
    BY <1>0, <2>1
  <2> HIDE DEF g
  <2> QED
    BY <1>0, <1>2, <2>1, <2>2, <2>3 DEF Recurses
<1> HIDE DEF g
<1>3. \A n \in 0..Len(seq) : g[n] = Trace(f, base, seq, V)[n]
  BY <1>1, <1>2, FoldUnique
<1>4. g[Len(seq)] = Trace(f, base, seq, V)[Len(seq)]
  BY <1>0, <1>3
<1> QED
  BY <1>0, <1>4 DEF Fold, g
-----------------------------------------------------------------------------
(***************************************************************************)
(* Lists of Buffers.                                                       *)
(***************************************************************************)

\* Dropping m bytes and then n is dropping m + n.
LEMMA SuffixOfSuffix ==
  ASSUME NEW E, NEW s \in Seq(E), NEW m \in Nat, NEW n \in Nat,
         m <= Len(s), m + n <= Len(s)
  PROVE  SubSeq(SubSeq(s, m + 1, Len(s)), n + 1, Len(s) - m) =
           SubSeq(s, m + n + 1, Len(s))
<1> DEFINE t == SubSeq(s, m + 1, Len(s))
           u == SubSeq(t, n + 1, Len(s) - m)
           w == SubSeq(s, m + n + 1, Len(s))
<1>0. Len(s) \in Nat /\ \A i \in 1..Len(s) : s[i] \in E
  BY LenProperties, ElementOfSeq
<1>1. /\ t \in Seq(E) /\ Len(t) = Len(s) - m
      /\ \A i \in 1..(Len(s) - m) : t[i] = s[m + i]
  BY <1>0, SubSeqProperties
<1> HIDE DEF t
<1>2. /\ u \in Seq(E) /\ Len(u) = Len(s) - m - n
      /\ \A i \in 1..(Len(s) - m - n) : u[i] = t[n + i]
  <2>1. \A i \in (n + 1)..(Len(s) - m) : t[i] \in E
    BY <1>0, <1>1, ElementOfSeq
  <2> QED
    BY <1>0, <1>1, <2>1, SubSeqProperties
<1>3. /\ w \in Seq(E) /\ Len(w) = Len(s) - m - n
      /\ \A i \in 1..(Len(s) - m - n) : w[i] = s[m + n + i]
  BY <1>0, SubSeqProperties
<1> HIDE DEF u, w
<1>4. ASSUME NEW i \in 1..Len(u) PROVE u[i] = w[i]
  <2>1. i \in 1..(Len(s) - m - n) /\ n + i \in 1..(Len(s) - m)
    BY <1>0, <1>2
  <2>2. u[i] = t[n + i] /\ t[n + i] = s[m + (n + i)]
    BY <1>1, <1>2, <2>1
  <2>3. w[i] = s[m + n + i] /\ m + (n + i) = m + n + i
    BY <1>0, <1>3, <2>1
  <2> QED
    BY <2>2, <2>3
<1> QED
  BY <1>2, <1>3, <1>4, SeqEqual DEF t, u, w

\* The Buffers a list holds: strings over E, of at most C bytes, that are
\* not consumed beyond their end.
Live(E, C) ==
  {b \in [storage : Seq(E), offset : Nat] :
     b.storage # NoStorage /\ b.offset <= Len(b.storage) /\ Len(b.storage) <= C}

\* What str() and size() of a live Buffer are.
LEMMA LiveBuffer ==
  ASSUME NEW E, NEW C \in Nat, NEW b \in Live(E, C)
  PROVE  /\ Str(b) \in Seq(E)
         /\ Str(b) = SubSeq(b.storage, b.offset + 1, Len(b.storage))
         /\ BufferSize(b) = Len(Str(b))
         /\ BufferSize(b) = Len(b.storage) - b.offset
         /\ BufferSize(b) \in Nat
         /\ b.storage \in Seq(E) /\ Len(b.storage) \in Nat /\ b.offset \in Nat
         /\ b.offset <= Len(b.storage) /\ Len(b.storage) <= C
<1>1. /\ b.storage \in Seq(E) /\ Len(b.storage) \in Nat /\ b.offset \in Nat
      /\ b.offset <= Len(b.storage) /\ Len(b.storage) <= C /\ b.storage # NoStorage
  BY LenProperties DEF Live
<1>2. Str(b) = SubSeq(b.storage, b.offset + 1, Len(b.storage))
  BY <1>1 DEF Str
<1>3. \A i \in (b.offset + 1)..Len(b.storage) : b.storage[i] \in E
  BY <1>1, ElementOfSeq
<1>4. Str(b) \in Seq(E) /\ Len(Str(b)) = Len(b.storage) - b.offset
  BY <1>1, <1>2, <1>3, SubSeqProperties
<1> QED
  BY <1>1, <1>2, <1>4 DEF BufferSize

\* BufferList::size()
LEMMA SizeAppend ==
  ASSUME NEW E, NEW C \in Nat
  PROVE  /\ BufferListSize(<<>>) = 0
         /\ \A list \in Seq(Live(E, C)) : BufferListSize(list) \in Nat
         /\ \A list \in Seq(Live(E, C)), b \in Live(E, C) :
              BufferListSize(Append(list, b)) = BufferListSize(list) + BufferSize(b)
<1> DEFINE L == Live(E, C)
           V == Nat
           f == [p \in V \X L |-> p[1] + BufferSize(p[2])]
<1>0. \A b \in L : BufferSize(b) \in Nat
  BY LiveBuffer
<1> HIDE DEF L
<1>1. FoldsInto(f, 0, V, L)
  BY <1>0 DEF FoldsInto
<1>2. \A v \in V, b \in L : f[<<v, b>>] = v + BufferSize(b)
  OBVIOUS
<1> HIDE DEF f, V
<1>3. ASSUME NEW list \in Seq(L)
      PROVE  BufferListSize(list) = Fold(f, 0, list, V)
  <2> DEFINE R(iter) == iter = [s \in SUBSET DOMAIN list |->
               IF s = {} THEN 0
               ELSE iter[s \ {Max(s)}] + BufferSize(list[Max(s)])]
             it == CHOOSE iter : R(iter)
  <2>1. BufferListSize(list) = it[DOMAIN list]
    BY DEF BufferListSize, FoldLeft, MapThenFoldSet
  <2>2. \A s \in SUBSET DOMAIN list : s # {} => list[Max(s)] \in L
    BY LastIndex
  <2>3. DOMAIN list = 1..Len(list)
    BY LenProperties
  <2>4. \E iter : R(iter)
    <3>1. PICK iter : IsIter(iter, f, 0, list, V)
      BY <1>1, IterExists
    <3>2. R(iter)
      BY <1>2, <2>2, <2>3, <3>1 DEF IsIter
    <3> QED
      BY <3>2
  <2>5. R(it)
    BY <2>4
  <2> HIDE DEF it
  <2>6. Recurses(it, f, 0, list, V)
    BY <1>2, <2>2, <2>5 DEF Recurses
  <2> QED
    BY <1>1, <2>1, <2>6, IterIsFold
<1>4. /\ Fold(f, 0, <<>>, V) = 0
      /\ \A list \in Seq(L) : Fold(f, 0, list, V) \in V
      /\ \A list \in Seq(L), b \in L :
           Fold(f, 0, Append(list, b), V) = f[<<Fold(f, 0, list, V), b>>]
  BY <1>1, FoldAppend
<1>5. <<>> \in Seq(L) /\ \A list \in Seq(L), b \in L : Append(list, b) \in Seq(L)
  BY EmptySeq, AppendProperties
<1>6. BufferListSize(<<>>) = 0
  BY <1>3, <1>4, <1>5
<1>7. ASSUME NEW list \in Seq(L) PROVE BufferListSize(list) \in V
  BY <1>3, <1>4
<1>8. ASSUME NEW list \in Seq(L), NEW b \in L
      PROVE  BufferListSize(Append(list, b)) = BufferListSize(list) + BufferSize(b)
  <2>1. BufferListSize(Append(list, b)) = Fold(f, 0, Append(list, b), V)
    BY <1>3, <1>5
  <2>2. Fold(f, 0, Append(list, b), V) = f[<<Fold(f, 0, list, V), b>>]
    BY <1>4
  <2>3. BufferListSize(list) = Fold(f, 0, list, V) /\ BufferListSize(list) \in V
    BY <1>3, <1>7
  <2> QED
    BY <1>2, <2>1, <2>2, <2>3
<1> QED
  BY <1>6, <1>7, <1>8 DEF L, V

\* BufferList::concatenate()
LEMMA ConcatenateAppend ==
  ASSUME NEW E, NEW C \in Nat
  PROVE  /\ Concatenate(<<>>) = <<>>
         /\ \A list \in Seq(Live(E, C)) : Concatenate(list) \in Seq(E)
         /\ \A list \in Seq(Live(E, C)), b \in Live(E, C) :
              Concatenate(Append(list, b)) = Concatenate(list) \o Str(b)
<1> DEFINE L == Live(E, C)
           V == Seq(E)
           f == [p \in V \X L |-> p[1] \o Str(p[2])]
<1>0. \A b \in L : Str(b) \in Seq(E)
  BY LiveBuffer
<1> HIDE DEF L
<1>1. FoldsInto(f, <<>>, V, L)
  <2>1. <<>> \in V /\ \A v \in V, b \in L : v \o Str(b) \in V
    BY <1>0, EmptySeq, ConcatProperties
  <2> QED
    BY <2>1 DEF FoldsInto
<1>2. \A v \in V, b \in L : f[<<v, b>>] = v \o Str(b)
  OBVIOUS
<1> HIDE DEF f, V
<1>3. ASSUME NEW list \in Seq(L)
      PROVE  Concatenate(list) = Fold(f, <<>>, list, V)
  <2> DEFINE R(iter) == iter = [s \in SUBSET DOMAIN list |->
               IF s = {} THEN <<>>
               ELSE iter[s \ {Max(s)}] \o Str(list[Max(s)])]
             it == CHOOSE iter : R(iter)
  <2>1. Concatenate(list) = it[DOMAIN list]
    BY DEF Concatenate, FoldLeft, MapThenFoldSet
  <2>2. \A s \in SUBSET DOMAIN list : s # {} => list[Max(s)] \in L
    BY LastIndex
  <2>3. DOMAIN list = 1..Len(list)
    BY LenProperties
  <2>4. \E iter : R(iter)
    <3>1. PICK iter : IsIter(iter, f, <<>>, list, V)
      BY <1>1, IterExists
    <3>2. R(iter)
      BY <1>2, <2>2, <2>3, <3>1 DEF IsIter
    <3> QED
      BY <3>2
  <2>5. R(it)
    BY <2>4
  <2> HIDE DEF it
  <2>6. Recurses(it, f, <<>>, list, V)
    BY <1>2, <2>2, <2>5 DEF Recurses
  <2> QED
    BY <1>1, <2>1, <2>6, IterIsFold
<1>4. /\ Fold(f, <<>>, <<>>, V) = <<>>
      /\ \A list \in Seq(L) : Fold(f, <<>>, list, V) \in V
      /\ \A list \in Seq(L), b \in L :
           Fold(f, <<>>, Append(list, b), V) = f[<<Fold(f, <<>>, list, V), b>>]
  BY <1>1, FoldAppend
<1>5. <<>> \in Seq(L) /\ \A list \in Seq(L), b \in L : Append(list, b) \in Seq(L)
  BY EmptySeq, AppendProperties
<1>6. Concatenate(<<>>) = <<>>
  BY <1>3, <1>4, <1>5
<1>7. ASSUME NEW list \in Seq(L) PROVE Concatenate(list) \in V
  BY <1>3, <1>4
<1>8. ASSUME NEW list \in Seq(L), NEW b \in L
      PROVE  Concatenate(Append(list, b)) = Concatenate(list) \o Str(b)
  <2>1. Concatenate(Append(list, b)) = Fold(f, <<>>, Append(list, b), V)
    BY <1>3, <1>5
  <2>2. Fold(f, <<>>, Append(list, b), V) = f[<<Fold(f, <<>>, list, V), b>>]
    BY <1>4
  <2>3. Concatenate(list) = Fold(f, <<>>, list, V) /\ Concatenate(list) \in V
    BY <1>3, <1>7
  <2> QED
    BY <1>2, <2>1, <2>2, <2>3
<1> QED
  BY <1>6, <1>7, <1>8 DEF L, V

\* The storage that a list keeps alive.
LEMMA RetainedAppend ==
  ASSUME NEW E, NEW C \in Nat
  PROVE  /\ RetainedBytes(<<>>) = 0
         /\ \A list \in Seq(Live(E, C)) : RetainedBytes(list) \in Nat
         /\ \A list \in Seq(Live(E, C)), b \in Live(E, C) :
              RetainedBytes(Append(list, b)) =
                (IF b.storage = NoStorage THEN RetainedBytes(list)
                 ELSE RetainedBytes(list) + Len(b.storage))
<1> DEFINE L == Live(E, C)
           V == Nat
           f == [p \in V \X L |-> (IF p[2].storage = NoStorage THEN p[1]
                                   ELSE p[1] + Len(p[2].storage))]
<1>0. \A b \in L : Len(b.storage) \in Nat /\ b.storage # NoStorage
  BY LiveBuffer DEF Live
<1> HIDE DEF L
<1>1. FoldsInto(f, 0, V, L)
  BY <1>0 DEF FoldsInto
<1>2. \A v \in V, b \in L : f[<<v, b>>] =
        (IF b.storage = NoStorage THEN v ELSE v + Len(b.storage))
  OBVIOUS
<1> HIDE DEF f, V
<1>3. ASSUME NEW list \in Seq(L)
      PROVE  RetainedBytes(list) = Fold(f, 0, list, V)
  <2> DEFINE R(iter) == iter = [s \in SUBSET DOMAIN list |->
               IF s = {} THEN 0
               ELSE (IF list[Max(s)].storage = NoStorage THEN iter[s \ {Max(s)}]
                     ELSE iter[s \ {Max(s)}] + Len(list[Max(s)].storage))]
             it == CHOOSE iter : R(iter)
  <2>1. RetainedBytes(list) = it[DOMAIN list]
    BY DEF RetainedBytes, FoldLeft, MapThenFoldSet
  <2>2. \A s \in SUBSET DOMAIN list : s # {} => list[Max(s)] \in L
    BY LastIndex
  <2>3. DOMAIN list = 1..Len(list)
    BY LenProperties
  <2>4. \E iter : R(iter)
    <3>1. PICK iter : IsIter(iter, f, 0, list, V)
      BY <1>1, IterExists
    <3>2. R(iter)
      BY <1>2, <2>2, <2>3, <3>1 DEF IsIter
    <3> QED
      BY <3>2
  <2>5. R(it)
    BY <2>4
  <2> HIDE DEF it
  <2>6. Recurses(it, f, 0, list, V)
    BY <1>2, <2>2, <2>5 DEF Recurses
  <2> QED
    BY <1>1, <2>1, <2>6, IterIsFold
<1>4. /\ Fold(f, 0, <<>>, V) = 0
      /\ \A list \in Seq(L) : Fold(f, 0, list, V) \in V
      /\ \A list \in Seq(L), b \in L :
           Fold(f, 0, Append(list, b), V) = f[<<Fold(f, 0, list, V), b>>]
  BY <1>1, FoldAppend
<1>5. <<>> \in Seq(L) /\ \A list \in Seq(L), b \in L : Append(list, b) \in Seq(L)
  BY EmptySeq, AppendProperties
<1>6. RetainedBytes(<<>>) = 0
  BY <1>3, <1>4, <1>5
<1>7. ASSUME NEW list \in Seq(L) PROVE RetainedBytes(list) \in V
  BY <1>3, <1>4
<1>8. ASSUME NEW list \in Seq(L), NEW b \in L
      PROVE  RetainedBytes(Append(list, b)) =
               (IF b.storage = NoStorage THEN RetainedBytes(list)
                ELSE RetainedBytes(list) + Len(b.storage))
  <2>1. RetainedBytes(Append(list, b)) = Fold(f, 0, Append(list, b), V)
    BY <1>3, <1>5
  <2>2. Fold(f, 0, Append(list, b), V) = f[<<Fold(f, 0, list, V), b>>]
    BY <1>4
  <2>3. RetainedBytes(list) = Fold(f, 0, list, V) /\ RetainedBytes(list) \in V
    BY <1>3, <1>7
  <2> QED
    BY <1>2, <2>1, <2>2, <2>3
<1> QED
  BY <1>6, <1>7, <1>8 DEF L, V

\* One turn of the loop of remove_prefix() leaves live Buffers only.
LEMMA RemoveStepType ==
  ASSUME NEW E, NEW C \in Nat, NEW b \in Live(E, C),
         NEW acc \in [rest : Nat, kept : Seq(Live(E, C))]
  PROVE  /\ RemoveStep(acc, b) \in [rest : Nat, kept : Seq(Live(E, C))]
         /\ acc.rest < BufferSize(b) =>
              /\ BufferRemovePrefix(b, acc.rest) \in Live(E, C)
              /\ Str(BufferRemovePrefix(b, acc.rest)) =
                   SubSeq(Str(b), acc.rest + 1, BufferSize(b))
<1> DEFINE n == acc.rest
           off == b.offset + n
           c == BufferRemovePrefix(b, n)
           L == Live(E, C)
<1>1. n \in Nat /\ acc.kept \in Seq(L)
  OBVIOUS
<1>2. /\ Str(b) = SubSeq(b.storage, b.offset + 1, Len(b.storage))
      /\ BufferSize(b) = Len(b.storage) - b.offset /\ BufferSize(b) \in Nat
      /\ b.storage \in Seq(E) /\ Len(b.storage) \in Nat /\ b.offset \in Nat
      /\ b.offset <= Len(b.storage) /\ Len(b.storage) <= C
      /\ b.storage # NoStorage
  BY LiveBuffer DEF Live
<1>3. ASSUME n < BufferSize(b)
      PROVE  c \in L /\ Str(c) = SubSeq(Str(b), n + 1, BufferSize(b))
  <2>1. off \in Nat /\ off < Len(b.storage)
    BY <1>1, <1>2, <1>3
  <2>2. c = [storage |-> b.storage, offset |-> off]
    BY <2>1, <1>2 DEF BufferRemovePrefix
  <2>3. c \in L
    BY <1>2, <2>1, <2>2 DEF Live
  <2>4. Str(c) = SubSeq(b.storage, off + 1, Len(b.storage))
    <3>1. c.storage = b.storage /\ c.offset = off
      BY <2>2
    <3> QED
      BY <1>2, <3>1 DEF Str
  <2>5. SubSeq(Str(b), n + 1, BufferSize(b)) =
          SubSeq(b.storage, off + 1, Len(b.storage))
    <3>1. b.offset + n <= Len(b.storage)
      BY <1>1, <1>2, <1>3
    <3> QED
      BY <1>1, <1>2, <3>1, SuffixOfSuffix
  <2> QED
    BY <2>3, <2>4, <2>5
<1> HIDE DEF c, L, n
<1>4. RemoveStep(acc, b) \in [rest : Nat, kept : Seq(L)]
  <2>1. \A e \in L : Append(acc.kept, e) \in Seq(L)
    BY <1>1, AppendProperties
  <2>2. CASE n = 0
    <3>1. RemoveStep(acc, b) = [acc EXCEPT !.kept = Append(@, b)]
      BY <2>2 DEF RemoveStep, n
    <3> QED
      BY <2>1, <3>1 DEF L
  <2>3. CASE n # 0 /\ n < BufferSize(b)
    <3>1. RemoveStep(acc, b) = [rest |-> 0, kept |-> Append(acc.kept, c)]
      BY <2>3 DEF RemoveStep, n, c
    <3> QED
      BY <1>3, <2>1, <2>3, <3>1
  <2>4. CASE n # 0 /\ ~(n < BufferSize(b))
    <3>1. RemoveStep(acc, b) = [acc EXCEPT !.rest = n - BufferSize(b)]
      BY <2>4 DEF RemoveStep, n
    <3>2. n - BufferSize(b) \in Nat
      BY <1>1, <1>2, <2>4
    <3> QED
      BY <3>1, <3>2 DEF L
  <2> QED
    BY <2>2, <2>3, <2>4
<1> QED
  BY <1>3, <1>4 DEF L, c, n

\* BufferList::remove_prefix()
LEMMA RemovePrefixAppend ==
  ASSUME NEW E, NEW C \in Nat, NEW n \in Nat
  PROVE  /\ BufferListRemovePrefix(<<>>, n) = [rest |-> n, kept |-> <<>>]
         /\ \A list \in Seq(Live(E, C)) : BufferListRemovePrefix(list, n) \in
              [rest : Nat, kept : Seq(Live(E, C))]
         /\ \A list \in Seq(Live(E, C)), b \in Live(E, C) :
              BufferListRemovePrefix(Append(list, b), n) =
                RemoveStep(BufferListRemovePrefix(list, n), b)
<1> DEFINE L == Live(E, C)
           base == [rest |-> n, kept |-> <<>>]
           V == [rest : Nat, kept : Seq(L)]
           f == [p \in V \X L |-> RemoveStep(p[1], p[2])]
<1>0. \A v \in V, b \in L : RemoveStep(v, b) \in V
  BY RemoveStepType
<1> HIDE DEF L
<1>1. FoldsInto(f, base, V, L)
  <2>1. base \in V
    BY EmptySeq
  <2> HIDE DEF V
  <2> QED
    BY <1>0, <2>1 DEF FoldsInto
<1>2. \A v \in V, b \in L : f[<<v, b>>] = RemoveStep(v, b)
  OBVIOUS
<1> HIDE DEF f, V
<1>3. ASSUME NEW list \in Seq(L)
      PROVE  BufferListRemovePrefix(list, n) = Fold(f, base, list, V)
  <2> DEFINE R(iter) == iter = [s \in SUBSET DOMAIN list |->
               IF s = {} THEN base
               ELSE RemoveStep(iter[s \ {Max(s)}], list[Max(s)])]
             it == CHOOSE iter : R(iter)
  <2>1. BufferListRemovePrefix(list, n) = it[DOMAIN list]
    BY DEF BufferListRemovePrefix, FoldLeft, MapThenFoldSet
  <2>2. \A s \in SUBSET DOMAIN list : s # {} => list[Max(s)] \in L
    BY LastIndex
  <2>3. DOMAIN list = 1..Len(list)
    BY LenProperties
  <2>4. \E iter : R(iter)
    <3>1. PICK iter : IsIter(iter, f, base, list, V)
      BY <1>1, IterExists
    <3>2. R(iter)
      BY <1>2, <2>2, <2>3, <3>1 DEF IsIter
    <3> QED
      BY <3>2
  <2>5. R(it)
    BY <2>4
  <2> HIDE DEF it
  <2>6. Recurses(it, f, base, list, V)
    BY <1>2, <2>2, <2>5 DEF Recurses
  <2> QED
    BY <1>1, <2>1, <2>6, IterIsFold
<1>4. /\ Fold(f, base, <<>>, V) = base
      /\ \A list \in Seq(L) : Fold(f, base, list, V) \in V
      /\ \A list \in Seq(L), b \in L :
           Fold(f, base, Append(list, b), V) = f[<<Fold(f, base, list, V), b>>]
  BY <1>1, FoldAppend
<1>5. <<>> \in Seq(L) /\ \A list \in Seq(L), b \in L : Append(list, b) \in Seq(L)
  BY EmptySeq, AppendProperties
<1>6. BufferListRemovePrefix(<<>>, n) = base
  BY <1>3, <1>4, <1>5
<1>7. ASSUME NEW list \in Seq(L) PROVE BufferListRemovePrefix(list, n) \in V
  BY <1>3, <1>4
<1>8. ASSUME NEW list \in Seq(L), NEW b \in L
      PROVE  BufferListRemovePrefix(Append(list, b), n) =
               RemoveStep(BufferListRemovePrefix(list, n), b)
  <2>1. BufferListRemovePrefix(Append(list, b), n) =
          Fold(f, base, Append(list, b), V)
    BY <1>3, <1>5
  <2>2. Fold(f, base, Append(list, b), V) = f[<<Fold(f, base, list, V), b>>]
    BY <1>4
  <2>3. BufferListRemovePrefix(list, n) =
          Fold(f, base, list, V) /\ BufferListRemovePrefix(list, n) \in V
    BY <1>3, <1>7
  <2> QED
    BY <1>2, <2>1, <2>2, <2>3
<1> QED
  BY <1>6, <1>7, <1>8 DEF L, V

\* The tail of a concatenation, cut inside its first part.
LEMMA CutInFirst ==
  ASSUME NEW E, NEW s \in Seq(E), NEW t \in Seq(E), NEW n \in 0..Len(s)
  PROVE  SubSeq(s \o t, n + 1, Len(s \o t)) = SubSeq(s, n + 1, Len(s)) \o t
<1> DEFINE c == s \o t
           u == SubSeq(c, n + 1, Len(c))
           v == SubSeq(s, n + 1, Len(s))
           w == v \o t
<1>0. Len(s) \in Nat /\ Len(t) \in Nat /\ n \in Nat /\ n <= Len(s)
  BY LenProperties
<1>1. /\ c \in Seq(E) /\ Len(c) = Len(s) + Len(t)
      /\ \A i \in 1..Len(c) : c[i] = IF i <= Len(s) THEN s[i] ELSE t[i - Len(s)]
  BY ConcatProperties
<1> HIDE DEF c
<1>2. /\ u \in Seq(E) /\ Len(u) = Len(c) - n
      /\ \A i \in 1..(Len(c) - n) : u[i] = c[n + i]
  <2>1. \A i \in (n + 1)..Len(c) : c[i] \in E
    BY <1>0, <1>1, ElementOfSeq
  <2> QED
    BY <1>0, <1>1, <2>1, SubSeqProperties
<1>3. /\ v \in Seq(E) /\ Len(v) = Len(s) - n
      /\ \A i \in 1..(Len(s) - n) : v[i] = s[n + i]
  <2>1. \A i \in (n + 1)..Len(s) : s[i] \in E
    BY <1>0, ElementOfSeq
  <2> QED
    BY <1>0, <2>1, SubSeqProperties
<1> HIDE DEF u, v
<1>4. /\ w \in Seq(E) /\ Len(w) = Len(v) + Len(t)
      /\ \A i \in 1..Len(w) : w[i] = IF i <= Len(v) THEN v[i] ELSE t[i - Len(v)]
  <2>1. v \in Seq(E)
    BY <1>3
  <2> QED
    BY <2>1, ConcatProperties
<1> HIDE DEF w
<1>5. Len(u) = Len(w)
  BY <1>0, <1>1, <1>2, <1>3, <1>4
<1>6. ASSUME NEW i \in 1..Len(u) PROVE u[i] = w[i]
  <2>1. u[i] = c[n + i] /\ n + i \in 1..Len(c) /\ i \in 1..Len(w)
    BY <1>0, <1>1, <1>2, <1>5
  <2>2. CASE i <= Len(s) - n
    <3>1. c[n + i] = s[n + i] /\ w[i] = v[i] /\ v[i] = s[n + i]
      BY <1>0, <1>1, <1>3, <1>4, <2>1, <2>2
    <3> QED
      BY <2>1, <3>1
  <2>3. CASE ~(i <= Len(s) - n)
    <3>1. c[n + i] = t[n + i - Len(s)]
      BY <1>0, <1>1, <2>1, <2>3
    <3>2. w[i] = t[i - (Len(s) - n)]
      BY <1>0, <1>3, <1>4, <2>1, <2>3
    <3>3. n + i - Len(s) = i - (Len(s) - n)
      BY <1>0
    <3> QED
      BY <2>1, <3>1, <3>2, <3>3
  <2> QED
    BY <2>2, <2>3
<1> QED
  BY <1>2, <1>4, <1>5, <1>6, SeqEqual DEF u, v, w, c

\* The tail of a concatenation, cut inside its second part.
LEMMA CutInSecond ==
  ASSUME NEW E, NEW s \in Seq(E), NEW t \in Seq(E), NEW n \in 0..Len(t)
  PROVE  SubSeq(s \o t, Len(s) + n + 1, Len(s \o t)) = SubSeq(t, n + 1, Len(t))
<1> DEFINE c == s \o t
           u == SubSeq(c, Len(s) + n + 1, Len(c))
           v == SubSeq(t, n + 1, Len(t))
<1>0. Len(s) \in Nat /\ Len(t) \in Nat /\ n \in Nat /\ n <= Len(t)
  BY LenProperties
<1>1. /\ c \in Seq(E) /\ Len(c) = Len(s) + Len(t)
      /\ \A i \in 1..Len(c) : c[i] = IF i <= Len(s) THEN s[i] ELSE t[i - Len(s)]
  BY ConcatProperties
<1> HIDE DEF c
<1>2. /\ u \in Seq(E) /\ Len(u) = Len(t) - n
      /\ \A i \in 1..(Len(t) - n) : u[i] = c[Len(s) + n + i]
  <2> DEFINE m == Len(s) + n
  <2>1. m \in Nat /\ m <= Len(c) /\ Len(c) \in Nat /\ Len(c) - m = Len(t) - n
    BY <1>0, <1>1
  <2> HIDE DEF m
  <2>2. \A i \in (m + 1)..Len(c) : c[i] \in E
    BY <1>1, <2>1, ElementOfSeq
  <2>3. /\ SubSeq(c, m + 1, Len(c)) \in Seq(E)
        /\ Len(SubSeq(c, m + 1, Len(c))) = Len(c) - m
        /\ \A i \in 1..(Len(c) - m) : SubSeq(c, m + 1, Len(c))[i] = c[m + i]
    BY <2>1, <2>2, SubSeqProperties
  <2> QED
    BY <2>1, <2>3 DEF m
<1>3. /\ v \in Seq(E) /\ Len(v) = Len(t) - n
      /\ \A i \in 1..(Len(t) - n) : v[i] = t[n + i]
  <2>1. \A i \in (n + 1)..Len(t) : t[i] \in E
    BY <1>0, ElementOfSeq
  <2> QED
    BY <1>0, <2>1, SubSeqProperties
<1> HIDE DEF u, v
<1>4. ASSUME NEW i \in 1..Len(u) PROVE u[i] = v[i]
  <2>1. u[i] = c[Len(s) + n + i] /\ Len(s) + n + i \in 1..Len(c) /\ v[i] = t[n + i]
    BY <1>0, <1>1, <1>2, <1>3
  <2>2. c[Len(s) + n + i] = t[n + i]
    BY <1>0, <1>1, <1>2, <2>1
  <2> QED
    BY <2>1, <2>2
<1> QED
  BY <1>2, <1>3, <1>4, SeqEqual DEF u, v, c

\* size() is the length of concatenate().
LEMMA SizeIsLength ==
  ASSUME NEW E, NEW C \in Nat, NEW list \in Seq(Live(E, C))
  PROVE  Len(Concatenate(list)) = BufferListSize(list)
<1> DEFINE L == Live(E, C)
           S == {l \in Seq(L) : Len(Concatenate(l)) = BufferListSize(l)}
<1>1. <<>> \in S
  BY SizeAppend, ConcatenateAppend, EmptySeq
<1>2. ASSUME NEW l \in S, NEW b \in L PROVE Append(l, b) \in S
  <2>1. l \in Seq(L) /\ Append(l, b) \in Seq(L)
    BY AppendProperties
  <2>2. BufferListSize(Append(l, b)) = BufferListSize(l) + BufferSize(b)
    BY <2>1, SizeAppend
  <2>3. /\ Concatenate(Append(l, b)) = Concatenate(l) \o Str(b)
        /\ Concatenate(l) \in Seq(E)
    BY <2>1, ConcatenateAppend
  <2>4. Str(b) \in Seq(E) /\ BufferSize(b) = Len(Str(b))
    BY LiveBuffer
  <2>5. Len(Concatenate(l) \o Str(b)) = Len(Concatenate(l)) + Len(Str(b))
    BY <2>3, <2>4, ConcatProperties
  <2>6. Len(Concatenate(l)) = BufferListSize(l)
    OBVIOUS
  <2>7. Len(Concatenate(Append(l, b))) = BufferListSize(Append(l, b))
    BY <2>2, <2>3, <2>4, <2>5, <2>6
  <2> QED
    BY <2>1, <2>7
<1>3. S \in SUBSET Seq(L)
  OBVIOUS
<1> HIDE DEF S, L
<1>4. S = Seq(L)
  BY <1>1, <1>2, <1>3, SeqInduction
<1> QED
  BY <1>4 DEF S, L

\* What remove_prefix(n) means for the bytes of the list: the first n are
\* gone, or all of them, and then the call is short of the difference.
RemovesPrefix(list, n) ==
  LET r == BufferListRemovePrefix(list, n)
      c == Concatenate(list) IN
  /\ r.rest = IF n > Len(c) THEN n - Len(c) ELSE 0
  /\ r.rest > 0 => r.kept = <<>>
  /\ Concatenate(r.kept) = SubSeq(c, n + 1, Len(c))

\* One more Buffer in the list, one more turn of the loop.
LEMMA RemovesOneMore ==
  ASSUME NEW E, NEW C \in Nat, NEW n \in Nat, NEW list \in Seq(Live(E, C)),
         NEW b \in Live(E, C), RemovesPrefix(list, n)
  PROVE  RemovesPrefix(Append(list, b), n)
<1> DEFINE L == Live(E, C)
           r == BufferListRemovePrefix(list, n)
           c == Concatenate(list)
           s == Str(b)
           q == RemoveStep(r, b)
           d == c \o s
<1>1. /\ r.rest = IF n > Len(c) THEN n - Len(c) ELSE 0
      /\ r.rest > 0 => r.kept = <<>>
      /\ Concatenate(r.kept) = SubSeq(c, n + 1, Len(c))
  BY DEF RemovesPrefix
<1>2. r \in [rest : Nat, kept : Seq(L)]
  BY RemovePrefixAppend
<1>3. BufferListRemovePrefix(Append(list, b), n) = q
  BY RemovePrefixAppend
<1>4. c \in Seq(E) /\ Concatenate(Append(list, b)) = d
  BY ConcatenateAppend
<1>5. s \in Seq(E) /\ BufferSize(b) = Len(s) /\ Len(s) \in Nat
  BY LiveBuffer
<1>6. \A l \in Seq(L) : Concatenate(Append(l, b)) = Concatenate(l) \o s
  BY ConcatenateAppend
<1>7. r.rest < Len(s) =>
        LET e == BufferRemovePrefix(b, r.rest) IN
        e \in L /\ Str(e) = SubSeq(s, r.rest + 1, Len(s))
  BY <1>2, <1>5, RemoveStepType
<1>8. Concatenate(<<>>) = <<>> /\ <<>> \in Seq(L)
      /\ \A e \in L : Concatenate(Append(<<>>, e)) = <<>> \o Str(e)
  <2>1. <<>> \in Seq(L) /\ Concatenate(<<>>) = <<>>
    BY ConcatenateAppend, EmptySeq
  <2>2. \A l \in Seq(L), e \in L : Concatenate(Append(l, e)) = Concatenate(l) \o Str(e)
    BY ConcatenateAppend
  <2>3. \A e \in L : Concatenate(Append(<<>>, e)) = Concatenate(<<>>) \o Str(e)
    BY <2>1, <2>2
  <2> QED
    BY <2>1, <2>3
<1>9. d \in Seq(E) /\ Len(d) = Len(c) + Len(s) /\ Len(c) \in Nat /\ Len(d) \in Nat
  BY <1>4, <1>5, ConcatProperties, LenProperties
<1> HIDE DEF L, r, c, s, d
<1>10. r.rest \in Nat /\ r.kept \in Seq(L)
  BY <1>2
<1>11. /\ q.rest = IF n > Len(d) THEN n - Len(d) ELSE 0
       /\ q.rest > 0 => q.kept = <<>>
       /\ Concatenate(q.kept) = SubSeq(d, n + 1, Len(d))
  <2>1. CASE r.rest = 0
    <3>1. q = [r EXCEPT !.kept = Append(@, b)]
      BY <2>1 DEF RemoveStep
    <3>2. q.rest = 0 /\ q.kept = Append(r.kept, b)
      BY <1>2, <2>1, <3>1
    <3>3. n <= Len(c) /\ n <= Len(d) /\ n \in 0..Len(c)
      BY <1>1, <1>9, <2>1
    <3>4. Concatenate(q.kept) = SubSeq(c, n + 1, Len(c)) \o s
      BY <1>1, <1>6, <1>10, <3>2
    <3>5. SubSeq(d, n + 1, Len(d)) = SubSeq(c, n + 1, Len(c)) \o s
      BY <1>4, <1>5, <3>3, CutInFirst DEF d
    <3> HIDE DEF q
    <3>6. q.rest = IF n > Len(d) THEN n - Len(d) ELSE 0
      BY <3>2, <3>3, <1>9
    <3>7. ~(q.rest > 0)
      BY <3>2
    <3> QED
      BY <3>4, <3>5, <3>6, <3>7
  <2>2. CASE r.rest # 0 /\ r.rest < Len(s)
    <3> DEFINE e == BufferRemovePrefix(b, r.rest)
    <3>1. q = [rest |-> 0, kept |-> Append(r.kept, e)]
      BY <1>5, <2>2 DEF RemoveStep
    <3>2. r.kept = <<>> /\ n = Len(c) + r.rest /\ r.rest \in 0..Len(s)
      BY <1>1, <1>9, <1>5, <1>10, <2>2
    <3>3. q.rest = 0 /\ q.kept = Append(<<>>, e)
      BY <3>1, <3>2
    <3>4. e \in L /\ Str(e) = SubSeq(s, r.rest + 1, Len(s))
      BY <1>7, <2>2
    <3>5. SubSeq(s, r.rest + 1, Len(s)) \in Seq(E)
      <4>1. \A i \in (r.rest + 1)..Len(s) : s[i] \in E
        BY <1>5, <1>10, ElementOfSeq
      <4> QED
        BY <1>5, <1>10, <4>1, SubSeqProperties
    <3> HIDE DEF e, q
    <3>6. Concatenate(q.kept) = SubSeq(s, r.rest + 1, Len(s))
      BY <1>8, <3>3, <3>4, <3>5, ConcatEmptySeq
    <3>7. SubSeq(d, Len(c) + r.rest + 1, Len(d)) = SubSeq(s, r.rest + 1, Len(s))
      BY <1>4, <1>5, <3>2, CutInSecond DEF d
    <3>8. q.rest = IF n > Len(d) THEN n - Len(d) ELSE 0
      BY <1>5, <1>9, <1>10, <2>2, <3>2, <3>3
    <3>9. ~(q.rest > 0)
      BY <3>3
    <3> QED
      BY <3>2, <3>6, <3>7, <3>8, <3>9
  <2>3. CASE r.rest # 0 /\ ~(r.rest < Len(s))
    <3>1. q = [r EXCEPT !.rest = r.rest - Len(s)]
      BY <1>5, <2>3 DEF RemoveStep
    <3>2. q.rest = r.rest - Len(s) /\ q.kept = r.kept
      BY <1>2, <3>1
    <3> HIDE DEF q
    <3>3. r.kept = <<>> /\ n = Len(c) + r.rest /\ n >= Len(d)
      BY <1>1, <1>5, <1>9, <1>10, <2>3
    <3>4. SubSeq(d, n + 1, Len(d)) = <<>>
      BY <1>9, <3>3, SubSeqEmpty
    <3>5. q.rest = IF n > Len(d) THEN n - Len(d) ELSE 0
      BY <1>5, <1>9, <1>10, <3>2, <3>3
    <3> QED
      BY <1>8, <3>2, <3>3, <3>4, <3>5
  <2> QED
    BY <2>1, <2>2, <2>3
<1> HIDE DEF q
<1> QED
  BY <1>3, <1>4, <1>11 DEF RemovesPrefix

\* BufferList::remove_prefix() removes a prefix, whatever the list and
\* wherever the prefix ends.
THEOREM RemovePrefixIsRight ==
  ASSUME NEW E, NEW C \in Nat, NEW n \in Nat, NEW list \in Seq(Live(E, C))
  PROVE  RemovesPrefix(list, n)
<1> DEFINE L == Live(E, C)
           S == {l \in Seq(L) : RemovesPrefix(l, n)}
<1>1. <<>> \in S
  <2>1. BufferListRemovePrefix(<<>>, n) = [rest |-> n, kept |-> <<>>]
    BY RemovePrefixAppend
  <2>2. Concatenate(<<>>) = <<>> /\ Len(<<>>) = 0 /\ <<>> \in Seq(E) /\ <<>> \in Seq(L)
    BY ConcatenateAppend, EmptySeq
  <2>3. SubSeq(<<>>, n + 1, Len(<<>>)) = <<>>
    BY <2>2, SubSeqEmpty
  <2>4. RemovesPrefix(<<>>, n)
    <3> DEFINE r == BufferListRemovePrefix(<<>>, n)
    <3>1. r.rest = n /\ r.kept = <<>>
      BY <2>1
    <3> HIDE DEF r
    <3>2. r.rest = IF n > Len(<<>>) THEN n - Len(<<>>) ELSE 0
      BY <2>2, <3>1
    <3>3. Concatenate(r.kept) = SubSeq(<<>>, n + 1, Len(<<>>))
      BY <2>2, <2>3, <3>1
    <3> QED
      BY <2>2, <3>1, <3>2, <3>3 DEF RemovesPrefix, r
  <2> QED
    BY <2>2, <2>4
<1>2. ASSUME NEW l \in S, NEW b \in L PROVE Append(l, b) \in S
  <2>1. l \in Seq(L) /\ Append(l, b) \in Seq(L)
    BY AppendProperties
  <2>2. RemovesPrefix(Append(l, b), n)
    BY <2>1, RemovesOneMore
  <2> QED
    BY <2>1, <2>2
<1>3. S \in SUBSET Seq(L)
  OBVIOUS
<1> HIDE DEF S, L
<1>4. S = Seq(L)
  BY <1>1, <1>2, <1>3, SeqInduction
<1> QED
  BY <1>4 DEF S, L

\* Only the front Buffer of the list is partly consumed, none is consumed.
FrontOnly(list) ==
  \A i \in DOMAIN list : list[i].offset > 0 => i = 1 /\ BufferSize(list[i]) > 0

\* One more Buffer: it is whole, unless it is the first.
LEMMA FrontOnlyAppend ==
  ASSUME NEW E, NEW C \in Nat, NEW list \in Seq(Live(E, C)), NEW b \in Live(E, C)
  PROVE  FrontOnly(Append(list, b))
         <=> /\ FrontOnly(list)
             /\ b.offset > 0 => list = <<>> /\ BufferSize(b) > 0
<1> DEFINE L == Live(E, C)
           n == Len(list)
           all == Append(list, b)
<1>1. /\ n \in Nat /\ DOMAIN list = 1..n /\ (n = 0 <=> list = <<>>)
      /\ DOMAIN all = 1..(n + 1)
      /\ \A k \in 1..n : all[k] = list[k]
      /\ all[n + 1] = b
  BY AppendProperties, LenProperties, EmptySeq
<1> HIDE DEF n, all
<1>2. ASSUME FrontOnly(all)
      PROVE  FrontOnly(list) /\ (b.offset > 0 => list = <<>> /\ BufferSize(b) > 0)
  <2>1. ASSUME NEW i \in DOMAIN list, list[i].offset > 0
        PROVE  i = 1 /\ BufferSize(list[i]) > 0
    <3>1. i \in DOMAIN all /\ all[i] = list[i]
      BY <1>1
    <3> QED
      BY <1>2, <2>1, <3>1 DEF FrontOnly
  <2>2. ASSUME b.offset > 0 PROVE list = <<>> /\ BufferSize(b) > 0
    <3>1. n + 1 \in DOMAIN all
      BY <1>1
    <3>2. n + 1 = 1 /\ BufferSize(b) > 0
      BY <1>1, <1>2, <2>2, <3>1 DEF FrontOnly
    <3> QED
      BY <1>1, <3>2
  <2> QED
    BY <2>1, <2>2 DEF FrontOnly
<1>3. ASSUME FrontOnly(list), b.offset > 0 => list = <<>> /\ BufferSize(b) > 0
      PROVE  FrontOnly(all)
  <2> SUFFICES ASSUME NEW i \in DOMAIN all, all[i].offset > 0
               PROVE  i = 1 /\ BufferSize(all[i]) > 0
    BY DEF FrontOnly
  <2>1. CASE i \in 1..n
    <3>1. all[i] = list[i] /\ i \in DOMAIN list
      BY <1>1, <2>1
    <3> QED
      BY <1>3, <3>1 DEF FrontOnly
  <2>2. CASE i = n + 1
    <3>1. all[i] = b
      BY <1>1, <2>2
    <3>2. n = 0 /\ BufferSize(b) > 0
      BY <1>1, <1>3, <3>1
    <3> QED
      BY <2>2, <3>1, <3>2
  <2> QED
    BY <1>1, <2>1, <2>2
<1> QED
  BY <1>2, <1>3 DEF all

\* remove_prefix() leaves no consumed Buffer behind and no partly consumed
\* one but at the front.
LEMMA RemovePrefixKeepsFront ==
  ASSUME NEW E, NEW C \in Nat, NEW n \in Nat, NEW list \in Seq(Live(E, C)),
         FrontOnly(list)
  PROVE  FrontOnly(BufferListRemovePrefix(list, n).kept)
<1> DEFINE L == Live(E, C)
           S == {l \in Seq(L) : FrontOnly(l) =>
             FrontOnly(BufferListRemovePrefix(l, n).kept)}
<1>1. <<>> \in S
  <2>1. BufferListRemovePrefix(<<>>, n) = [rest |-> n, kept |-> <<>>] /\ <<>> \in Seq(L)
    BY RemovePrefixAppend, EmptySeq
  <2>2. BufferListRemovePrefix(<<>>, n).kept = <<>>
    BY <2>1
  <2> QED
    BY <2>1, <2>2
<1>2. ASSUME NEW l \in S, NEW b \in L PROVE Append(l, b) \in S
  <2> DEFINE r == BufferListRemovePrefix(l, n)
             q == RemoveStep(r, b)
  <2>1. l \in Seq(L) /\ Append(l, b) \in Seq(L)
    BY AppendProperties
  <2>2. /\ r \in [rest : Nat, kept : Seq(L)]
        /\ BufferListRemovePrefix(Append(l, b), n) = q
    BY <2>1, RemovePrefixAppend
  <2>3. r.rest > 0 => r.kept = <<>>
    BY <2>1, RemovePrefixIsRight DEF RemovesPrefix
  <2>4. l = <<>> => r.kept = <<>>
    <3>1. BufferListRemovePrefix(<<>>, n) = [rest |-> n, kept |-> <<>>]
      BY RemovePrefixAppend
    <3> QED
      BY <3>1
  <2>5. ASSUME FrontOnly(Append(l, b)) PROVE FrontOnly(q.kept)
    <3>1. FrontOnly(l) /\ (b.offset > 0 => l = <<>> /\ BufferSize(b) > 0)
      BY <2>1, <2>5, FrontOnlyAppend
    <3>2. FrontOnly(r.kept)
      BY <3>1
    <3> HIDE DEF r
    <3>3. r.rest \in Nat /\ r.kept \in Seq(L)
      BY <2>2
    <3>4. CASE r.rest = 0
      <4>1. q = [r EXCEPT !.kept = Append(@, b)]
        BY <3>4 DEF RemoveStep
      <4>2. q.kept = Append(r.kept, b)
        BY <2>2, <4>1
      <4>3. b.offset > 0 => r.kept = <<>> /\ BufferSize(b) > 0
        BY <2>4, <3>1
      <4>4. FrontOnly(Append(r.kept, b))
        BY <3>2, <3>3, <4>3, FrontOnlyAppend
      <4> QED
        BY <4>2, <4>4
    <3>5. CASE r.rest # 0 /\ r.rest < BufferSize(b)
      <4> DEFINE e == BufferRemovePrefix(b, r.rest)
      <4>1. q = [rest |-> 0, kept |-> Append(r.kept, e)]
        BY <3>5 DEF RemoveStep
      <4>2. q.kept = Append(r.kept, e) /\ r.kept = <<>>
        BY <2>3, <3>3, <3>5, <4>1
      <4>3. e \in L
        BY <2>2, <3>5, RemoveStepType
      <4>4. BufferSize(e) > 0
        <5>1. /\ BufferSize(b) = Len(b.storage) - b.offset
              /\ b.offset \in Nat /\ Len(b.storage) \in Nat
              /\ b.storage # NoStorage
          BY LiveBuffer DEF Live
        <5>2. b.offset + r.rest < Len(b.storage) /\ b.offset + r.rest \in Nat
          BY <3>3, <3>5, <5>1
        <5>3. e.storage = b.storage /\ e.offset = b.offset + r.rest
          BY <5>1, <5>2 DEF BufferRemovePrefix
        <5>4. BufferSize(e) = Len(e.storage) - e.offset
          BY <4>3, LiveBuffer
        <5> QED
          BY <5>1, <5>2, <5>3, <5>4
      <4> HIDE DEF e
      <4>5. FrontOnly(Append(r.kept, e))
        BY <3>2, <3>3, <4>2, <4>3, <4>4, FrontOnlyAppend
      <4> QED
        BY <4>2, <4>5
    <3>6. CASE r.rest # 0 /\ ~(r.rest < BufferSize(b))
      <4>1. q = [r EXCEPT !.rest = @ - BufferSize(b)]
        BY <3>6 DEF RemoveStep
      <4>2. q.kept = r.kept
        BY <2>2, <4>1
      <4> QED
        BY <3>2, <4>2
    <3> QED
      BY <3>4, <3>5, <3>6
  <2> HIDE DEF q
  <2> QED
    BY <2>1, <2>2, <2>5
<1>3. S \in SUBSET Seq(L)
  OBVIOUS
<1> HIDE DEF S, L
<1>4. S = Seq(L)
  BY <1>1, <1>2, <1>3, SeqInduction
<1> QED
  BY <1>4 DEF S, L

\* The storage kept alive is what the list still holds and the consumed
\* prefix of its front.
LEMMA RetainedIsSizeAndPrefix ==
  ASSUME NEW E, NEW C \in Nat, NEW list \in Seq(Live(E, C)), FrontOnly(list)
  PROVE  RetainedBytes(list) =
           IF list = <<>> THEN 0 ELSE BufferListSize(list) + list[1].offset
<1> DEFINE L == Live(E, C)
           Holds(l) == RetainedBytes(l) =
                         IF l = <<>> THEN 0 ELSE BufferListSize(l) + l[1].offset
           S == {l \in Seq(L) : FrontOnly(l) => Holds(l)}
<1>1. <<>> \in S
  BY EmptySeq, RetainedAppend
<1>2. ASSUME NEW l \in S, NEW b \in L PROVE Append(l, b) \in S
  <2>1. l \in Seq(L) /\ Append(l, b) \in Seq(L)
    BY AppendProperties
  <2>2. ASSUME FrontOnly(Append(l, b)) PROVE Holds(Append(l, b))
    <3>1. FrontOnly(l) /\ (b.offset > 0 => l = <<>> /\ BufferSize(b) > 0)
      BY <2>1, <2>2, FrontOnlyAppend
    <3>2. RetainedBytes(l) = IF l = <<>> THEN 0 ELSE BufferListSize(l) + l[1].offset
      BY <3>1
    <3>3. /\ BufferSize(b) = Len(b.storage) - b.offset
          /\ BufferSize(b) \in Nat /\ b.offset \in Nat /\ Len(b.storage) \in Nat
          /\ b.storage # NoStorage
      BY LiveBuffer DEF Live
    <3>4. /\ RetainedBytes(Append(l, b)) = RetainedBytes(l) + Len(b.storage)
          /\ RetainedBytes(l) \in Nat
      BY <2>1, <3>3, RetainedAppend
    <3>5. /\ BufferListSize(Append(l, b)) = BufferListSize(l) + BufferSize(b)
          /\ BufferListSize(l) \in Nat /\ BufferListSize(<<>>) = 0
      BY <2>1, SizeAppend
    <3>6. Append(l, b) # <<>>
      BY <2>1, AppendProperties, EmptySeq
    <3>7. CASE l = <<>>
      <4>1. Append(l, b)[1] = b
        BY <3>7
      <4>2. RetainedBytes(Append(l, b)) = BufferListSize(Append(l, b)) + b.offset
        BY <3>2, <3>3, <3>4, <3>5, <3>7
      <4> QED
        BY <3>6, <4>1, <4>2
    <3>8. CASE l # <<>>
      <4>1. Len(l) \in Nat /\ Len(l) # 0
        BY <2>1, <3>8, LenProperties, EmptySeq
      <4>2. Append(l, b)[1] = l[1] /\ l[1] \in L
        BY <2>1, <4>1, AppendProperties, ElementOfSeq
      <4>3. l[1].offset \in Nat
        BY <4>2, LiveBuffer
      <4>4. b.offset = 0
        BY <3>1, <3>3, <3>8
      <4>5. RetainedBytes(Append(l, b)) = BufferListSize(Append(l, b)) + l[1].offset
        BY <3>2, <3>3, <3>4, <3>5, <3>8, <4>3, <4>4
      <4> QED
        BY <3>6, <4>2, <4>5
    <3> QED
      BY <3>7, <3>8
  <2> HIDE DEF Holds
  <2> QED
    BY <2>1, <2>2
<1>3. S \in SUBSET Seq(L)
  OBVIOUS
<1> HIDE DEF S, L
<1>4. S = Seq(L)
  BY <1>1, <1>2, <1>3, SeqInduction
<1> QED
  BY <1>4 DEF S, L
-----------------------------------------------------------------------------
(***************************************************************************)
(* Lists of views: the same facts for the strings of a BufferViewList.     *)
(***************************************************************************)

\* BufferViewList::size()
LEMMA ViewSizeAppend ==
  ASSUME NEW E
  PROVE  /\ ViewListSize(<<>>) = 0
         /\ \A list \in Seq(Seq(E)) : ViewListSize(list) \in Nat
         /\ \A list \in Seq(Seq(E)), b \in Seq(E) :
              ViewListSize(Append(list, b)) = ViewListSize(list) + Len(b)
<1> DEFINE L == Seq(E)
           V == Nat
           f == [p \in V \X L |-> p[1] + Len(p[2])]
<1>0. \A b \in L : Len(b) \in Nat
  BY LenProperties
<1> HIDE DEF L
<1>1. FoldsInto(f, 0, V, L)
  BY <1>0 DEF FoldsInto
<1>2. \A v \in V, b \in L : f[<<v, b>>] = v + Len(b)
  OBVIOUS
<1> HIDE DEF f, V
<1>3. ASSUME NEW list \in Seq(L)
      PROVE  ViewListSize(list) = Fold(f, 0, list, V)
  <2> DEFINE R(iter) == iter = [s \in SUBSET DOMAIN list |->
               IF s = {} THEN 0
               ELSE iter[s \ {Max(s)}] + Len(list[Max(s)])]
             it == CHOOSE iter : R(iter)
  <2>1. ViewListSize(list) = it[DOMAIN list]
    BY DEF ViewListSize, FoldLeft, MapThenFoldSet
  <2>2. \A s \in SUBSET DOMAIN list : s # {} => list[Max(s)] \in L
    BY LastIndex
  <2>3. DOMAIN list = 1..Len(list)
    BY LenProperties
  <2>4. \E iter : R(iter)
    <3>1. PICK iter : IsIter(iter, f, 0, list, V)
      BY <1>1, IterExists
    <3>2. R(iter)
      BY <1>2, <2>2, <2>3, <3>1 DEF IsIter
    <3> QED
      BY <3>2
  <2>5. R(it)
    BY <2>4
  <2> HIDE DEF it
  <2>6. Recurses(it, f, 0, list, V)
    BY <1>2, <2>2, <2>5 DEF Recurses
  <2> QED
    BY <1>1, <2>1, <2>6, IterIsFold
<1>4. /\ Fold(f, 0, <<>>, V) = 0
      /\ \A list \in Seq(L) : Fold(f, 0, list, V) \in V
      /\ \A list \in Seq(L), b \in L :
           Fold(f, 0, Append(list, b), V) = f[<<Fold(f, 0, list, V), b>>]
  BY <1>1, FoldAppend
<1>5. <<>> \in Seq(L) /\ \A list \in Seq(L), b \in L : Append(list, b) \in Seq(L)
  BY EmptySeq, AppendProperties
<1>6. ViewListSize(<<>>) = 0
  BY <1>3, <1>4, <1>5
<1>7. ASSUME NEW list \in Seq(L) PROVE ViewListSize(list) \in V
  BY <1>3, <1>4
<1>8. ASSUME NEW list \in Seq(L), NEW b \in L
      PROVE  ViewListSize(Append(list, b)) = ViewListSize(list) + Len(b)
  <2>1. ViewListSize(Append(list, b)) = Fold(f, 0, Append(list, b), V)
    BY <1>3, <1>5
  <2>2. Fold(f, 0, Append(list, b), V) = f[<<Fold(f, 0, list, V), b>>]
    BY <1>4
  <2>3. ViewListSize(list) = Fold(f, 0, list, V) /\ ViewListSize(list) \in V
    BY <1>3, <1>7
  <2> QED
    BY <1>2, <2>1, <2>2, <2>3
<1> QED
  BY <1>6, <1>7, <1>8 DEF L, V

\* One turn of the loop of BufferViewList::remove_prefix() leaves strings.
LEMMA RemoveViewStepType ==
  ASSUME NEW E, NEW b \in Seq(E), NEW acc \in [rest : Nat, kept : Seq(Seq(E))]
  PROVE  /\ RemoveViewStep(acc, b) \in [rest : Nat, kept : Seq(Seq(E))]
         /\ SubSeq(b, acc.rest + 1, Len(b)) \in Seq(E)
<1> DEFINE n == acc.rest
           c == SubSeq(b, n + 1, Len(b))
           L == Seq(E)
<1>1. n \in Nat /\ acc.kept \in Seq(L) /\ Len(b) \in Nat
  BY LenProperties
<1>2. c \in L
  <2>1. \A i \in (n + 1)..Len(b) : b[i] \in E
    BY <1>1, ElementOfSeq
  <2> QED
    BY <1>1, <2>1, SubSeqProperties
<1> HIDE DEF c, L, n
<1>3. \A e \in L : Append(acc.kept, e) \in Seq(L)
  BY <1>1, AppendProperties
<1>4. RemoveViewStep(acc, b) \in [rest : Nat, kept : Seq(L)]
  <2>1. CASE n = 0
    <3>1. RemoveViewStep(acc, b) = [acc EXCEPT !.kept = Append(@, b)]
      BY <2>1 DEF RemoveViewStep, n
    <3> QED
      BY <1>3, <3>1 DEF L
  <2>2. CASE n # 0 /\ n < Len(b)
    <3>1. RemoveViewStep(acc, b) = [rest |-> 0, kept |-> Append(acc.kept, c)]
      BY <2>2 DEF RemoveViewStep, n, c
    <3> QED
      BY <1>2, <1>3, <3>1
  <2>3. CASE n # 0 /\ ~(n < Len(b))
    <3>1. RemoveViewStep(acc, b) = [acc EXCEPT !.rest = n - Len(b)]
      BY <2>3 DEF RemoveViewStep, n
    <3>2. n - Len(b) \in Nat
      BY <1>1, <2>3
    <3> QED
      BY <3>1, <3>2 DEF L
  <2> QED
    BY <2>1, <2>2, <2>3
<1> QED
  BY <1>2, <1>4 DEF L, c, n

\* BufferViewList::remove_prefix()
LEMMA RemoveViewAppend ==
  ASSUME NEW E, NEW n \in Nat
  PROVE  /\ ViewListRemovePrefix(<<>>, n) = [rest |-> n, kept |-> <<>>]
         /\ \A list \in Seq(Seq(E)) : ViewListRemovePrefix(list, n) \in
              [rest : Nat, kept : Seq(Seq(E))]
         /\ \A list \in Seq(Seq(E)), b \in Seq(E) :
              ViewListRemovePrefix(Append(list, b), n) =
                RemoveViewStep(ViewListRemovePrefix(list, n), b)
<1> DEFINE L == Seq(E)
           base == [rest |-> n, kept |-> <<>>]
           V == [rest : Nat, kept : Seq(L)]
           f == [p \in V \X L |-> RemoveViewStep(p[1], p[2])]
<1>0. \A v \in V, b \in L : RemoveViewStep(v, b) \in V
  BY RemoveViewStepType
<1> HIDE DEF L
<1>1. FoldsInto(f, base, V, L)
  <2>1. base \in V
    BY EmptySeq
  <2> HIDE DEF V
  <2> QED
    BY <1>0, <2>1 DEF FoldsInto
<1>2. \A v \in V, b \in L : f[<<v, b>>] = RemoveViewStep(v, b)
  OBVIOUS
<1> HIDE DEF f, V
<1>3. ASSUME NEW list \in Seq(L)
      PROVE  ViewListRemovePrefix(list, n) = Fold(f, base, list, V)
  <2> DEFINE R(iter) == iter = [s \in SUBSET DOMAIN list |->
               IF s = {} THEN base
               ELSE RemoveViewStep(iter[s \ {Max(s)}], list[Max(s)])]
             it == CHOOSE iter : R(iter)
  <2>1. ViewListRemovePrefix(list, n) = it[DOMAIN list]
    BY DEF ViewListRemovePrefix, FoldLeft, MapThenFoldSet
  <2>2. \A s \in SUBSET DOMAIN list : s # {} => list[Max(s)] \in L
    BY LastIndex
  <2>3. DOMAIN list = 1..Len(list)
    BY LenProperties
  <2>4. \E iter : R(iter)
    <3>1. PICK iter : IsIter(iter, f, base, list, V)
      BY <1>1, IterExists
    <3>2. R(iter)
      BY <1>2, <2>2, <2>3, <3>1 DEF IsIter
    <3> QED
      BY <3>2
  <2>5. R(it)
    BY <2>4
  <2> HIDE DEF it
  <2>6. Recurses(it, f, base, list, V)
    BY <1>2, <2>2, <2>5 DEF Recurses
  <2> QED
    BY <1>1, <2>1, <2>6, IterIsFold
<1>4. /\ Fold(f, base, <<>>, V) = base
      /\ \A list \in Seq(L) : Fold(f, base, list, V) \in V
      /\ \A list \in Seq(L), b \in L :
           Fold(f, base, Append(list, b), V) = f[<<Fold(f, base, list, V), b>>]
  BY <1>1, FoldAppend
<1>5. <<>> \in Seq(L) /\ \A list \in Seq(L), b \in L : Append(list, b) \in Seq(L)
  BY EmptySeq, AppendProperties
<1>6. ViewListRemovePrefix(<<>>, n) = base
  BY <1>3, <1>4, <1>5
<1>7. ASSUME NEW list \in Seq(L) PROVE ViewListRemovePrefix(list, n) \in V
  BY <1>3, <1>4
<1>8. ASSUME NEW list \in Seq(L), NEW b \in L
      PROVE  ViewListRemovePrefix(Append(list, b), n) =
               RemoveViewStep(ViewListRemovePrefix(list, n), b)
  <2>1. ViewListRemovePrefix(Append(list, b), n) = Fold(f, base, Append(list, b), V)
    BY <1>3, <1>5
  <2>2. Fold(f, base, Append(list, b), V) = f[<<Fold(f, base, list, V), b>>]
    BY <1>4
  <2>3. ViewListRemovePrefix(list, n) =
          Fold(f, base, list, V) /\ ViewListRemovePrefix(list, n) \in V
    BY <1>3, <1>7
  <2> QED
    BY <1>2, <2>1, <2>2, <2>3
<1> QED
  BY <1>6, <1>7, <1>8 DEF L, V

\* The bytes of a list of views.
LEMMA FlattenAppend ==
  ASSUME NEW E
  PROVE  /\ FlattenSeq(<<>>) = <<>>
         /\ \A list \in Seq(Seq(E)) : FlattenSeq(list) \in Seq(E)
         /\ \A list \in Seq(Seq(E)), b \in Seq(E) :
              FlattenSeq(Append(list, b)) = FlattenSeq(list) \o b
<1> DEFINE V == Seq(E)
           f == [p \in V \X V |-> p[1] \o p[2]]
<1>0. <<>> \in V /\ \A v \in V : <<>> \o v = v
  BY EmptySeq, ConcatEmptySeq
<1>1. FoldsInto(f, <<>>, V, V)
  <2>1. \A v, b \in V : v \o b \in V
    BY ConcatProperties
  <2> QED
    BY <1>0, <2>1 DEF FoldsInto
<1>2. \A v, b \in V : f[<<v, b>>] = v \o b
  OBVIOUS
<1> HIDE DEF f, V
<1>3. ASSUME NEW list \in Seq(V), list # <<>>
      PROVE  FlattenSeq(list) = Fold(f, <<>>, list, V)
  <2> DEFINE n == Len(list)
             R(g) == g = [i \in 1..n |->
                          IF i = 1 THEN list[i] ELSE g[i - 1] \o list[i]]
             flatten == CHOOSE g : R(g)
             h == Trace(f, <<>>, list, V)
  <2>1. n \in Nat /\ n # 0 /\ \A i \in 1..n : list[i] \in V
    BY <1>3, LenProperties, EmptySeq, ElementOfSeq
  <2>2. FlattenSeq(list) = flatten[n]
    BY <2>1 DEF FlattenSeq
  <2>3. /\ h \in [0..n -> V] /\ h[0] = <<>>
        /\ \A k \in 1..n : h[k] = f[<<h[k - 1], list[k]>>]
    BY <1>1, TraceExists DEF IsTrace
  <2> HIDE DEF h
  <2>4. \E g : R(g)
    <3> DEFINE g == [i \in 1..n |-> h[i]]
    <3>1. ASSUME NEW i \in 1..n
          PROVE  g[i] = IF i = 1 THEN list[i] ELSE g[i - 1] \o list[i]
      <4>1. h[i] = f[<<h[i - 1], list[i]>>] /\ h[i - 1] \in V /\ list[i] \in V
        BY <2>1, <2>3
      <4>2. h[i] = h[i - 1] \o list[i]
        BY <1>2, <4>1
      <4>3. CASE i = 1
        <5>1. i - 1 = 0
          BY <4>3
        <5>2. h[i] = <<>> \o list[i]
          BY <2>3, <4>2, <5>1
        <5>3. h[i] = list[i]
          BY <1>0, <4>1, <5>2
        <5> QED
          BY <4>3, <5>3
      <4>4. CASE i # 1
        <5>1. i - 1 \in 1..n
          BY <2>1, <4>4
        <5> QED
          BY <4>2, <4>4, <5>1
      <4> QED
        BY <4>3, <4>4
    <3>2. R(g)
      BY <3>1
    <3> QED
      BY <3>2
  <2>5. R(flatten)
    BY <2>4
  <2> HIDE DEF flatten, n
  <2> DEFINE g == [i \in 0..n |-> IF i = 0 THEN <<>> ELSE flatten[i]]
  <2>6. g[0] = <<>> /\ g[n] = flatten[n]
    BY <2>1
  <2>7. ASSUME NEW k \in 1..n, g[k - 1] \in V
        PROVE  g[k] = f[<<g[k - 1], list[k]>>]
    <3>1. list[k] \in V /\ g[k] = flatten[k]
      BY <2>1
    <3>2. CASE k = 1
      <4>1. g[k - 1] = <<>> /\ flatten[k] = list[k]
        BY <2>1, <2>5, <3>2
      <4> QED
        BY <1>0, <1>2, <3>1, <4>1
    <3>3. CASE k # 1
      <4>1. k - 1 \in 1..n /\ k - 1 \in 0..n /\ k - 1 # 0
        BY <2>1, <3>3
      <4>2. g[k - 1] = flatten[k - 1] /\ flatten[k] = flatten[k - 1] \o list[k]
        BY <2>5, <3>3, <4>1
      <4> QED
        BY <1>2, <2>7, <3>1, <4>2
    <3> QED
      BY <3>2, <3>3
  <2> HIDE DEF g
  <2>8. \A k \in 0..n : g[k] = Trace(f, <<>>, list, V)[k]
    BY <1>1, <2>6, <2>7, FoldUnique DEF n
  <2> QED
    BY <2>1, <2>2, <2>6, <2>8 DEF Fold, n
<1>4. /\ Fold(f, <<>>, <<>>, V) = <<>>
      /\ \A list \in Seq(V) : Fold(f, <<>>, list, V) \in V
      /\ \A list \in Seq(V), b \in V :
           Fold(f, <<>>, Append(list, b), V) = f[<<Fold(f, <<>>, list, V), b>>]
  BY <1>1, FoldAppend
<1>5. FlattenSeq(<<>>) = <<>>
  BY EmptySeq DEF FlattenSeq
<1>6. ASSUME NEW list \in Seq(V) PROVE FlattenSeq(list) = Fold(f, <<>>, list, V)
  <2>1. CASE list = <<>>
    BY <1>4, <1>5, <2>1
  <2>2. CASE list # <<>>
    BY <1>3, <2>2
  <2> QED
    BY <2>1, <2>2
<1>7. ASSUME NEW list \in Seq(V) PROVE FlattenSeq(list) \in V
  BY <1>4, <1>6
<1>8. ASSUME NEW list \in Seq(V), NEW b \in V
      PROVE  FlattenSeq(Append(list, b)) = FlattenSeq(list) \o b
  <2>1. Append(list, b) \in Seq(V)
    BY AppendProperties
  <2>2. FlattenSeq(Append(list, b)) = f[<<FlattenSeq(list), b>>]
    BY <1>4, <1>6, <2>1
  <2> QED
    BY <1>2, <1>7, <2>2
<1> QED
  BY <1>5, <1>7, <1>8 DEF V

\* BufferViewList::size() is the number of bytes of the list.
LEMMA ViewSizeIsLength ==
  ASSUME NEW E, NEW list \in Seq(Seq(E))
  PROVE  ViewListSize(list) = Len(FlattenSeq(list))
<1> DEFINE L == Seq(E)
           S == {l \in Seq(L) : ViewListSize(l) = Len(FlattenSeq(l))}
<1>1. <<>> \in S
  BY ViewSizeAppend, FlattenAppend, EmptySeq
<1>2. ASSUME NEW l \in S, NEW b \in L PROVE Append(l, b) \in S
  <2>1. l \in Seq(L) /\ Append(l, b) \in Seq(L)
    BY AppendProperties
  <2>2. ViewListSize(Append(l, b)) = ViewListSize(l) + Len(b)
    BY <2>1, ViewSizeAppend
  <2>3. FlattenSeq(Append(l, b)) = FlattenSeq(l) \o b /\ FlattenSeq(l) \in Seq(E)
    BY <2>1, FlattenAppend
  <2>4. Len(FlattenSeq(l) \o b) = Len(FlattenSeq(l)) + Len(b)
    BY <2>3, ConcatProperties
  <2>5. ViewListSize(l) = Len(FlattenSeq(l))
    OBVIOUS
  <2>6. ViewListSize(Append(l, b)) = Len(FlattenSeq(Append(l, b)))
    BY <2>2, <2>3, <2>4, <2>5
  <2> QED
    BY <2>1, <2>6
<1>3. S \in SUBSET Seq(L)
  OBVIOUS
<1> HIDE DEF S, L
<1>4. S = Seq(L)
  BY <1>1, <1>2, <1>3, SeqInduction
<1> QED
  BY <1>4 DEF S, L

\* What BufferViewList::remove_prefix(n) means for the bytes of the list.
RemovesViewPrefix(list, n) ==
  LET r == ViewListRemovePrefix(list, n)
      c == FlattenSeq(list) IN
  /\ r.rest = IF n > Len(c) THEN n - Len(c) ELSE 0
  /\ r.rest > 0 => r.kept = <<>>
  /\ FlattenSeq(r.kept) = SubSeq(c, n + 1, Len(c))

\* One more view in the list, one more turn of the loop.
LEMMA RemovesOneMoreView ==
  ASSUME NEW E, NEW n \in Nat, NEW list \in Seq(Seq(E)),
         NEW s \in Seq(E), RemovesViewPrefix(list, n)
  PROVE  RemovesViewPrefix(Append(list, s), n)
<1> DEFINE L == Seq(E)
           r == ViewListRemovePrefix(list, n)
           c == FlattenSeq(list)
           q == RemoveViewStep(r, s)
           d == c \o s
<1>1. /\ r.rest = IF n > Len(c) THEN n - Len(c) ELSE 0
      /\ r.rest > 0 => r.kept = <<>>
      /\ FlattenSeq(r.kept) = SubSeq(c, n + 1, Len(c))
  BY DEF RemovesViewPrefix
<1>2. r \in [rest : Nat, kept : Seq(L)]
  BY RemoveViewAppend
<1>3. ViewListRemovePrefix(Append(list, s), n) = q
  BY RemoveViewAppend
<1>4. c \in Seq(E) /\ FlattenSeq(Append(list, s)) = d
  BY FlattenAppend
<1>5. Len(s) \in Nat
  BY LenProperties
<1>6. \A l \in Seq(L) : FlattenSeq(Append(l, s)) = FlattenSeq(l) \o s
  BY FlattenAppend
<1>7. SubSeq(s, r.rest + 1, Len(s)) \in Seq(E)
  BY <1>2, RemoveViewStepType
<1>8. FlattenSeq(<<>>) = <<>> /\ <<>> \in Seq(L)
      /\ \A e \in L : FlattenSeq(Append(<<>>, e)) = <<>> \o e
  <2>1. <<>> \in Seq(L) /\ FlattenSeq(<<>>) = <<>>
    BY FlattenAppend, EmptySeq
  <2>2. \A l \in Seq(L), e \in L : FlattenSeq(Append(l, e)) = FlattenSeq(l) \o e
    BY FlattenAppend
  <2>3. \A e \in L : FlattenSeq(Append(<<>>, e)) = FlattenSeq(<<>>) \o e
    BY <2>1, <2>2
  <2> QED
    BY <2>1, <2>3
<1>9. d \in Seq(E) /\ Len(d) = Len(c) + Len(s) /\ Len(c) \in Nat /\ Len(d) \in Nat
  BY <1>4, <1>5, ConcatProperties, LenProperties
<1> HIDE DEF r, c, d
<1>10. r.rest \in Nat /\ r.kept \in Seq(L)
  BY <1>2
<1>11. /\ q.rest = IF n > Len(d) THEN n - Len(d) ELSE 0
       /\ q.rest > 0 => q.kept = <<>>
       /\ FlattenSeq(q.kept) = SubSeq(d, n + 1, Len(d))
  <2>1. CASE r.rest = 0
    <3>1. q = [r EXCEPT !.kept = Append(@, s)]
      BY <2>1 DEF RemoveViewStep
    <3>2. q.rest = 0 /\ q.kept = Append(r.kept, s)
      BY <1>2, <2>1, <3>1
    <3>3. n <= Len(c) /\ n <= Len(d) /\ n \in 0..Len(c)
      BY <1>1, <1>5, <1>9, <2>1
    <3>4. FlattenSeq(q.kept) = SubSeq(c, n + 1, Len(c)) \o s
      BY <1>1, <1>6, <1>10, <3>2
    <3>5. SubSeq(d, n + 1, Len(d)) = SubSeq(c, n + 1, Len(c)) \o s
      BY <1>4, <1>5, <3>3, CutInFirst DEF d
    <3> HIDE DEF q
    <3>6. q.rest = IF n > Len(d) THEN n - Len(d) ELSE 0
      BY <3>2, <3>3, <1>9
    <3>7. ~(q.rest > 0)
      BY <3>2
    <3> QED
      BY <3>4, <3>5, <3>6, <3>7
  <2>2. CASE r.rest # 0 /\ r.rest < Len(s)
    <3> DEFINE e == SubSeq(s, r.rest + 1, Len(s))
    <3>1. q = [rest |-> 0, kept |-> Append(r.kept, e)]
      BY <2>2 DEF RemoveViewStep
    <3>2. r.kept = <<>> /\ n = Len(c) + r.rest /\ r.rest \in 0..Len(s)
      BY <1>1, <1>9, <1>5, <1>10, <2>2
    <3>3. q.rest = 0 /\ q.kept = Append(<<>>, e)
      BY <3>1, <3>2
    <3>4. e \in L
      BY <1>7
    <3>5. SubSeq(d, Len(c) + r.rest + 1, Len(d)) = e
      BY <1>4, <1>5, <3>2, CutInSecond DEF d
    <3> HIDE DEF e, q
    <3>6. FlattenSeq(q.kept) = e
      BY <1>8, <3>3, <3>4, ConcatEmptySeq
    <3>7. q.rest = IF n > Len(d) THEN n - Len(d) ELSE 0
      BY <1>5, <1>9, <1>10, <2>2, <3>2, <3>3
    <3>8. ~(q.rest > 0)
      BY <3>3
    <3> QED
      BY <3>2, <3>5, <3>6, <3>7, <3>8
  <2>3. CASE r.rest # 0 /\ ~(r.rest < Len(s))
    <3>1. q = [r EXCEPT !.rest = r.rest - Len(s)]
      BY <2>3 DEF RemoveViewStep
    <3>2. q.rest = r.rest - Len(s) /\ q.kept = r.kept
      BY <1>2, <3>1
    <3> HIDE DEF q
    <3>3. r.kept = <<>> /\ n = Len(c) + r.rest /\ n >= Len(d)
      <4>1. r.rest > 0
        BY <1>10, <2>3
      <4>2. n = Len(c) + r.rest
        BY <1>1, <1>9, <4>1
      <4> QED
        BY <1>1, <1>5, <1>9, <1>10, <2>3, <4>1, <4>2
    <3>4. SubSeq(d, n + 1, Len(d)) = <<>>
      BY <1>9, <3>3, SubSeqEmpty
    <3>5. q.rest = IF n > Len(d) THEN n - Len(d) ELSE 0
      BY <1>5, <1>9, <1>10, <3>2, <3>3
    <3> QED
      BY <1>8, <3>2, <3>3, <3>4, <3>5
  <2> QED
    BY <2>1, <2>2, <2>3
<1> HIDE DEF q
<1> QED
  BY <1>3, <1>4, <1>11 DEF RemovesViewPrefix

\* BufferViewList::remove_prefix() removes a prefix, whatever the pieces and
\* wherever the prefix ends.
THEOREM RemoveViewPrefixIsRight ==
  ASSUME NEW E, NEW n \in Nat, NEW list \in Seq(Seq(E))
  PROVE  RemovesViewPrefix(list, n)
<1> DEFINE L == Seq(E)
           S == {l \in Seq(L) : RemovesViewPrefix(l, n)}
<1>1. <<>> \in S
  <2>1. ViewListRemovePrefix(<<>>, n) = [rest |-> n, kept |-> <<>>]
    BY RemoveViewAppend
  <2>2. FlattenSeq(<<>>) = <<>> /\ Len(<<>>) = 0 /\ <<>> \in Seq(E) /\ <<>> \in Seq(L)
    BY FlattenAppend, EmptySeq
  <2>3. SubSeq(<<>>, n + 1, Len(<<>>)) = <<>>
    BY <2>2, SubSeqEmpty
  <2>4. RemovesViewPrefix(<<>>, n)
    <3> DEFINE r == ViewListRemovePrefix(<<>>, n)
    <3>1. r.rest = n /\ r.kept = <<>>
      BY <2>1
    <3> HIDE DEF r
    <3>2. r.rest = IF n > Len(<<>>) THEN n - Len(<<>>) ELSE 0
      BY <2>2, <3>1
    <3>3. FlattenSeq(r.kept) = SubSeq(<<>>, n + 1, Len(<<>>))
      BY <2>2, <2>3, <3>1
    <3> QED
      BY <2>2, <3>1, <3>2, <3>3 DEF RemovesViewPrefix, r
  <2> QED
    BY <2>2, <2>4
<1>2. ASSUME NEW l \in S, NEW b \in L PROVE Append(l, b) \in S
  <2>1. l \in Seq(L) /\ Append(l, b) \in Seq(L)
    BY AppendProperties
  <2>2. RemovesViewPrefix(Append(l, b), n)
    BY <2>1, RemovesOneMoreView
  <2> QED
    BY <2>1, <2>2
<1>3. S \in SUBSET Seq(L)
  OBVIOUS
<1> HIDE DEF S, L
<1>4. S = Seq(L)
  BY <1>1, <1>2, <1>3, SeqInduction
<1> QED
  BY <1>4 DEF S, L
=============================================================================
