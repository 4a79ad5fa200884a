-------------------------- MODULE MCFileDescriptor --------------------------
(***************************************************************************)
(* FileDescriptor with fewer descriptor numbers than files, so that        *)
(* numbers are reused and run out.                                         *)
(***************************************************************************)
EXTENDS FileDescriptor, TLC

\* Handles are interchangeable.
HandleSymmetry == Permutations(Handle)
=============================================================================
