------------------------------- MODULE Buffers -------------------------------
(***************************************************************************)
(* libsponge/util/buffer.hh and buffer.cc: the reference-counted strings   *)
(* that discard bytes from the front.                                      *)
(*                                                                         *)
(* A Buffer is a shared, immutable string and a starting offset.  Sharing  *)
(* is visible only in when memory is freed, so a Buffer is a value here:   *)
(* its storage (NoStorage once _storage has been reset) and its offset.  A *)
(* BufferList is a sequence of Buffers, a BufferViewList a sequence of     *)
(* plain strings.                                                          *)
(***************************************************************************)
EXTENDS Integers, SequencesExt

CONSTANT NoStorage  \* a null _storage

\* Buffer(std::string &&str)
BufferOf(str) == [storage |-> str, offset |-> 0]

\* Buffer::str()
Str(buf) ==
  IF buf.storage = NoStorage THEN <<>>
  ELSE SubSeq(buf.storage, buf.offset + 1, Len(buf.storage))

BufferSize(buf) == Len(Str(buf))

BufferRemovePrefixAssigns(buf, n) ==
  [storage |-> IF buf.storage # NoStorage /\ n = Len(buf.storage)
               THEN NoStorage ELSE buf.storage,
   offset |-> n]

\* Buffer::remove_prefix(n), for n at most the size: beyond it the code throws.
BufferRemovePrefix(buf, n) ==
  LET off == buf.offset + n IN
  [storage |-> IF buf.storage # NoStorage /\ off = Len(buf.storage)
               THEN NoStorage ELSE buf.storage,
   offset |-> off]
-----------------------------------------------------------------------------
\* BufferList(std::string &&str)
BufferListOf(str) == <<BufferOf(str)>>

\* BufferList::append(other)
BufferListAppend(list, other) == list \o other

\* BufferList::size()
BufferListSize(list) == FoldLeft(LAMBDA n, buf : n + BufferSize(buf), 0, list)

\* BufferList::concatenate()
Concatenate(list) == FoldLeft(LAMBDA str, buf : str \o Str(buf), <<>>, list)

\* One turn of the loop of BufferList::remove_prefix: rest is what is still
\* to be removed, kept what stays in the list.
RemoveStepKeepsDrained(acc, buf) ==
  IF acc.rest = 0 THEN [acc EXCEPT !.kept = Append(@, buf)]
  ELSE IF acc.rest <= BufferSize(buf)
       THEN [rest |-> 0, kept |-> Append(acc.kept, BufferRemovePrefix(buf, acc.rest))]
       ELSE [acc EXCEPT !.rest = @ - BufferSize(buf)]

RemoveStepDropsTheRest(acc, buf) ==
  IF acc.rest = 0 THEN [acc EXCEPT !.kept = Append(@, buf)]
  ELSE IF acc.rest < BufferSize(buf) THEN [acc EXCEPT !.rest = 0]
       ELSE [acc EXCEPT !.rest = @ - BufferSize(buf)]

RemoveStep(acc, buf) ==
  IF acc.rest = 0 THEN [acc EXCEPT !.kept = Append(@, buf)]
  ELSE IF acc.rest < BufferSize(buf)
       THEN [rest |-> 0, kept |-> Append(acc.kept, BufferRemovePrefix(buf, acc.rest))]
       ELSE [acc EXCEPT !.rest = @ - BufferSize(buf)]

\* BufferList::remove_prefix(n): the list left behind, and the bytes that
\* were missing.  If any were, the list is empty and the call has thrown.
BufferListRemovePrefix(list, n) ==
  FoldLeft(RemoveStep, [rest |-> n, kept |-> <<>>], list)
-----------------------------------------------------------------------------
\* BufferViewList::remove_prefix(n): the same loop over string_views.
RemoveViewStepAtBoundary(acc, view) ==
  IF acc.rest = 0 THEN [acc EXCEPT !.kept = Append(@, view)]
  ELSE [rest |-> 0, kept |-> Append(acc.kept, SubSeq(view, acc.rest + 1, Len(view)))]

RemoveViewStep(acc, view) ==
  IF acc.rest = 0 THEN [acc EXCEPT !.kept = Append(@, view)]
  ELSE IF acc.rest < Len(view)
       THEN [rest |-> 0, kept |-> Append(acc.kept, SubSeq(view, acc.rest + 1, Len(view)))]
       ELSE [acc EXCEPT !.rest = @ - Len(view)]

ViewListRemovePrefix(views, n) ==
  FoldLeft(RemoveViewStep, [rest |-> n, kept |-> <<>>], views)

\* BufferViewList::size()
ViewListSize(views) == FoldLeft(LAMBDA n, view : n + Len(view), 0, views)
-----------------------------------------------------------------------------
\* The storage a BufferList keeps alive, its discarded prefixes included.
RetainedBytes(list) ==
  FoldLeft(LAMBDA n, buf : IF buf.storage = NoStorage THEN n ELSE n + Len(buf.storage),
           0, list)
=============================================================================
