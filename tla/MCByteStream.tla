---------------------------- MODULE MCByteStream ----------------------------
(***************************************************************************)
(* ByteStream on a small instance: two byte values, room for two bytes,    *)
(* requests one longer than the stream can hold, enough bytes to fill and  *)
(* drain it more than twice.                                               *)
(***************************************************************************)
EXTENDS ByteStream, TLC

\* The code never inspects a byte.
ByteSymmetry == Permutations(Byte)
=============================================================================
