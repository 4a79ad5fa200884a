------------------------------- MODULE Bytes -------------------------------
(***************************************************************************)
(* The bytes of packets and addresses.  A byte has B values, 256 in the    *)
(* code; the algorithms are the same for every B.                          *)
(***************************************************************************)
EXTENDS Integers

CONSTANT B  \* the number of byte values: 2^8

ASSUME ByteAssumption == B \in Nat \ {0, 1}

\* B^n: what a byte with n bytes behind it counts.
Weight(n) == <<1, B, B * B, B * B * B, B * B * B * B>>[n + 1]
=============================================================================
