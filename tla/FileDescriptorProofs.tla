------------------------ MODULE FileDescriptorProofs ------------------------
(***************************************************************************)
(* Proofs about module FileDescriptor, for any number of handles, files    *)
(* and descriptor numbers.                                                 *)
(*                                                                         *)
(* No property is inductive by itself.  That nothing leaks, and which file *)
(* a call can reach, both rest on one fact the code relies on without ever *)
(* stating it: an open file has exactly one number, the one in the wrapper *)
(* made for it, and that wrapper is alive and not closed (EveryFileHasIts- *)
(* Owner).  OpenWhileReferenced says when the converse holds.              *)
(***************************************************************************)
EXTENDS FileDescriptor, WellFoundedInduction, TLAPS

\* Nothing refers to a file, or a wrapper, that is still to be made.
OnlyOpenedFiles ==
  /\ \A n \in FdNum : table[n] # None => table[n] <= opened
  /\ \A h \in Handle : handle[h] # None => handle[h] <= opened

EveryFileHasItsOwner ==
  \A n \in FdNum : table[n] # None =>
    LET w == table[n] IN
    wrapper[w].live /\ ~wrapper[w].closed /\ wrapper[w].fd = n

IInv ==
  /\ TypeOK
  /\ LiveWhileReferenced
  /\ OnlyOpenedFiles
  /\ EveryFileHasItsOwner
  /\ OpenWhileReferenced
  /\ OwnFileOnly
-----------------------------------------------------------------------------
(***************************************************************************)
(* The number the kernel hands out.                                        *)
(***************************************************************************)

\* A set of numbers that is not empty has a least one.
LEMMA LeastNumber ==
  ASSUME NEW S \in SUBSET Nat, S # {}
  PROVE  \E m \in S : \A n \in S : m <= n
<1> DEFINE R == OpToRel(<, Nat)
<1>1. IsWellFoundedOn(R, Nat)
  BY NatLessThanWellFounded
<1>2. \A x, y \in Nat : x < y => <<x, y>> \in R
  BY DEF OpToRel
<1> HIDE DEF R
<1>3. S \subseteq Nat
  OBVIOUS
<1>4. \E m \in S : \A y \in S : ~ (<<y, m>> \in R)
  BY <1>1, <1>3, WFMin
<1>5. PICK m \in S : \A y \in S : ~ (<<y, m>> \in R)
  BY <1>4
<1>6. \A y \in S : ~ (y < m)
  BY <1>2, <1>3, <1>5
<1> QED
  BY <1>3, <1>6

\* The number open(2) returns is one that was free.
LEMMA NewNumberIsFree ==
  ASSUME FreeNumbers # {}
  PROVE  Min(FreeNumbers) \in FdNum /\ table[Min(FreeNumbers)] = None
<1>1. FreeNumbers \in SUBSET Nat
  BY FileDescriptorAssumption DEF FreeNumbers, FdNum
<1>2. Min(FreeNumbers) \in FreeNumbers
  BY <1>1, LeastNumber DEF Min
<1> QED
  BY <1>2 DEF FreeNumbers
-----------------------------------------------------------------------------
(***************************************************************************)
(* What a call reaches.                                                    *)
(***************************************************************************)

\* A handle points to a wrapper that is alive, with a number.
LEMMA HandlePointsToLive ==
  ASSUME IInv, NEW h \in Handle, handle[h] # None
  PROVE  /\ handle[h] \in Wrapper
         /\ handle[h] \in 1..opened
         /\ wrapper[handle[h]].live
         /\ wrapper[handle[h]].fd \in FdNum
<1>1. handle[h] \in Wrapper /\ handle[h] <= opened
  BY DEF IInv, TypeOK, OnlyOpenedFiles
<1>2. handle[h] \in 1..opened
  BY <1>1, FileDescriptorAssumption DEF IInv, TypeOK, Wrapper
<1>3. wrapper[handle[h]].live
  BY <1>1 DEF IInv, LiveWhileReferenced, Points
<1> QED
  BY <1>1, <1>2, <1>3 DEF IInv, TypeOK, WrapperState

\* The wrapper's number is the only one its own file can have.
LEMMA OpenOnlyAtItsNumber ==
  ASSUME IInv, NEW w \in Wrapper, NEW n \in FdNum, table[n] = w
  PROVE  wrapper[w].live /\ ~wrapper[w].closed /\ wrapper[w].fd = n
<1>1. w # None
  BY FileDescriptorAssumption DEF Wrapper
<1> QED
  BY <1>1 DEF IInv, EveryFileHasItsOwner

\* A step that reaches a file through a handle's wrapper, and lapses if the
\* wrapper was closed, reaches what it may.
LEMMA TouchIsExplained ==
  ASSUME IInv, NEW h \in Handle, handle[h] # None,
         touched' = Touch(handle[h]),
         ~lapsed' => ~lapsed /\ ~wrapper[handle[h]].closed
  PROVE  /\ touched' \in [via : Wrapper \cup {None}, file : File \cup {None}]
         /\ OwnFileOnly'
<1> DEFINE w == handle[h]
           n == wrapper[w].fd
<1>1. w \in Wrapper /\ wrapper[w].live /\ n \in FdNum
  BY HandlePointsToLive
<1> HIDE DEF w
<1>2. touched' = [via |-> w, file |-> table[n]]
  BY DEF Touch, w
<1>3. table[n] \in File \cup {None}
  BY <1>1 DEF IInv, TypeOK
<1>4. OwnFileOnly'
  BY <1>1, <1>2 DEF OwnFileOnly, own, IInv, OpenWhileReferenced, w
<1> QED
  BY <1>1, <1>2, <1>3, <1>4

\* A step that reaches no file.
LEMMA NoTouchIsExplained ==
  ASSUME touched' = NoTouch
  PROVE  /\ touched' \in [via : Wrapper \cup {None}, file : File \cup {None}]
         /\ OwnFileOnly'
  BY DEF NoTouch, OwnFileOnly
-----------------------------------------------------------------------------
(***************************************************************************)
(* What the operations have in common.                                     *)
(***************************************************************************)

\* The parts of the invariant that say what the step has reached.
TouchedOK ==
  /\ touched \in [via : Wrapper \cup {None}, file : File \cup {None}]
  /\ OwnFileOnly

\* A step that opens and closes nothing, and gives up no wrapper.
LEMMA QuietStep ==
  ASSUME IInv,
         UNCHANGED <<table, opened>>,
         wrapper' \in [Wrapper -> WrapperState],
         \A v \in Wrapper : /\ wrapper'[v].fd = wrapper[v].fd
                            /\ wrapper'[v].live = wrapper[v].live
                            /\ wrapper'[v].closed = wrapper[v].closed,
         handle' \in [Handle -> Wrapper \cup {None}],
         \A v \in Wrapper : (\E h \in Handle : handle'[h] = v)
                              <=> (\E h \in Handle : handle[h] = v),
         lapsed' \in BOOLEAN, lapsed => lapsed',
         TouchedOK'
  PROVE  IInv'
<1>1. TypeOK'
  BY DEF IInv, TypeOK, TouchedOK
<1>2. LiveWhileReferenced'
  BY DEF IInv, LiveWhileReferenced, Points
<1>3. OnlyOpenedFiles'
  <2>1. \A h \in Handle : handle'[h] # None => handle'[h] <= opened
    BY DEF IInv, OnlyOpenedFiles
  <2> QED
    BY <2>1 DEF IInv, OnlyOpenedFiles
<1>4. EveryFileHasItsOwner'
  BY DEF IInv, EveryFileHasItsOwner, TypeOK, Wrapper, File
<1>5. OpenWhileReferenced'
  BY DEF IInv, OpenWhileReferenced
<1> QED
  BY <1>1, <1>2, <1>3, <1>4, <1>5 DEF IInv, TouchedOK

\* A step that closes the number of a handle's wrapper, or destroys the
\* wrapper when it has been closed before.
LEMMA ReleaseStep ==
  ASSUME IInv,
         NEW x \in Handle, handle[x] # None,
         \/ /\ table' = CloseNumber(table, wrapper[handle[x]])
            /\ ~lapsed' => ~wrapper[handle[x]].closed
         \/ UNCHANGED table /\ wrapper[handle[x]].closed,
         opened' = opened,
         wrapper' \in [Wrapper -> WrapperState],
         \A v \in Wrapper : wrapper'[v].fd = wrapper[v].fd,
         \A v \in Wrapper \ {handle[x]} : wrapper'[v] = wrapper[v],
         handle' \in [Handle -> Wrapper \cup {None}],
         \A h \in Handle : handle'[h] # None => \E g \in Handle : handle'[h] = handle[g],
         LiveWhileReferenced',
         lapsed' \in BOOLEAN, lapsed => lapsed',
         ~lapsed' => wrapper'[handle[x]].closed \/ ~wrapper'[handle[x]].live,
         TouchedOK'
  PROVE  IInv'
<1> DEFINE w == handle[x]
           n == wrapper[w].fd
<1>1. w \in Wrapper /\ w \in 1..opened /\ n \in FdNum /\ w # None
  BY HandlePointsToLive
<1>2. /\ table' \in [FdNum -> File \cup {None}]
      /\ \A m \in FdNum : table'[m] # table[m] => m = n /\ table'[m] = None
  BY <1>1 DEF CloseNumber, IInv, TypeOK
<1>3. \A m \in FdNum : table'[m] # w
  BY <1>1, OpenOnlyAtItsNumber DEF CloseNumber, IInv, TypeOK
<1> HIDE DEF w
<1>4. TypeOK'
  BY <1>1, <1>2 DEF IInv, TypeOK, TouchedOK
<1>5. OnlyOpenedFiles'
  <2>1. \A m \in FdNum : table'[m] # None => table'[m] <= opened
    BY <1>2 DEF IInv, OnlyOpenedFiles
  <2>2. \A h \in Handle : handle'[h] # None => handle'[h] <= opened
    BY DEF IInv, OnlyOpenedFiles
  <2> QED
    BY <2>1, <2>2 DEF OnlyOpenedFiles
<1>6. EveryFileHasItsOwner'
  <2> SUFFICES ASSUME NEW m \in FdNum, table'[m] # None
               PROVE  LET v == table'[m] IN
                      wrapper'[v].live /\ ~wrapper'[v].closed /\ wrapper'[v].fd = m
    BY DEF EveryFileHasItsOwner
  <2>1. table'[m] = table[m] /\ table[m] \in Wrapper /\ table[m] # w
    BY <1>2, <1>3 DEF IInv, TypeOK, File, Wrapper
  <2>2. wrapper'[table[m]] = wrapper[table[m]]
    BY <2>1 DEF w
  <2> QED
    BY <2>1, <2>2 DEF IInv, EveryFileHasItsOwner
<1>7. OpenWhileReferenced'
  <2> SUFFICES ASSUME ~lapsed', NEW v \in Wrapper, wrapper'[v].live, ~wrapper'[v].closed
               PROVE  table'[wrapper'[v].fd] = v
    BY DEF OpenWhileReferenced, own
  <2>1. v # w /\ wrapper'[v] = wrapper[v]
    BY DEF w
  <2>2. table[wrapper[v].fd] = v /\ wrapper[v].fd \in FdNum
    BY <2>1 DEF IInv, OpenWhileReferenced, own, TypeOK, WrapperState
  <2>3. CASE UNCHANGED table
    BY <2>1, <2>2, <2>3
  <2>4. CASE table' = CloseNumber(table, wrapper[w]) /\ ~wrapper[w].closed
    <3>1. table[n] = w
      BY <1>1, <2>4, HandlePointsToLive DEF IInv, OpenWhileReferenced, own, w
    <3>2. wrapper[v].fd # n
      BY <2>1, <2>2, <3>1
    <3> QED
      BY <1>2, <2>1, <2>2, <3>2
  <2> QED
    BY <2>3, <2>4 DEF w
<1> QED
  BY <1>4, <1>5, <1>6, <1>7 DEF IInv, TouchedOK
-----------------------------------------------------------------------------
(***************************************************************************)
(* A shared_ptr lets go.                                                   *)
(***************************************************************************)

\* Letting go changes no wrapper's number.
LEMMA LetGoEffect ==
  ASSUME IInv, NEW x \in Handle, LetGo(x)
  PROVE  /\ wrapper' \in [Wrapper -> WrapperState]
         /\ \A v \in Wrapper : wrapper'[v].fd = wrapper[v].fd
<1>1. CASE ~LastReference(x)
  BY <1>1 DEF LetGo, IInv, TypeOK
<1>2. CASE LastReference(x)
  <2> DEFINE w == handle[x]
  <2>1. w # None /\ Destroy(w)
    BY <1>2 DEF LetGo, LastReference
  <2>2. w \in Wrapper /\ wrapper[w].fd \in FdNum
    BY <2>1, HandlePointsToLive
  <2>3. NewWrapper(wrapper[w].fd, FALSE) \in WrapperState
    BY <2>2, FileDescriptorAssumption DEF NewWrapper, WrapperState
  <2> QED
    BY <2>1, <2>2, <2>3 DEF Destroy, Dead, NewWrapper, IInv, TypeOK
<1> QED
  BY <1>1, <1>2

\* x lets go of its wrapper, the other references stay, though perhaps in
\* other handles, and the last one destroys it.
LEMMA LetGoStep ==
  ASSUME IInv, NEW x \in Handle, handle[x] # None,
         LetGo(x), opened' = opened,
         handle' \in [Handle -> Wrapper \cup {None}],
         \A v \in Wrapper \ {handle[x]} :
           (\E h \in Handle : handle'[h] = v) <=> (\E h \in Handle : handle[h] = v),
         (\E h \in Handle : handle'[h] = handle[x]) <=> ~LastReference(x),
         lapsed' \in BOOLEAN, lapsed => lapsed',
         TouchedOK'
  PROVE  IInv'
<1> DEFINE w == handle[x]
<1>1. w \in Wrapper /\ wrapper[w].live
  BY HandlePointsToLive
<1>2. CASE ~LastReference(x)
  <2>1. UNCHANGED <<table, wrapper>>
    BY <1>2 DEF LetGo
  <2>2. \A v \in Wrapper : (\E h \in Handle : handle'[h] = v)
                              <=> (\E h \in Handle : handle[h] = v)
    BY <1>2
  <2> QED
    BY <2>1, <2>2, QuietStep DEF IInv, TypeOK
<1>3. CASE LastReference(x)
  <2>1. Destroy(w)
    BY <1>3 DEF LetGo
  <2>2. \/ table' = CloseNumber(table, wrapper[w]) /\ ~wrapper[w].closed
        \/ UNCHANGED table /\ wrapper[w].closed
    BY <2>1 DEF Destroy, Destroyed, MustClose
  <2>3. /\ wrapper' \in [Wrapper -> WrapperState]
        /\ \A v \in Wrapper : wrapper'[v].fd = wrapper[v].fd
    BY LetGoEffect
  <2>4. /\ \A v \in Wrapper \ {w} : wrapper'[v] = wrapper[v]
        /\ wrapper'[w].live = FALSE
    BY <1>1, <2>1 DEF Destroy, Dead, NewWrapper, IInv, TypeOK
  <2>5. LiveWhileReferenced'
    BY <1>3, <2>4 DEF IInv, LiveWhileReferenced, Points
  <2>6. \A h \in Handle : handle'[h] # None => \E g \in Handle : handle'[h] = handle[g]
    OBVIOUS
  <2> QED
    BY <2>2, <2>3, <2>4, <2>5, <2>6, ReleaseStep
<1> QED
  BY <1>2, <1>3

\* What letting go reaches, if the last reference has a number to close.
LEMMA LetGoTouches ==
  ASSUME IInv, NEW x \in Handle, LetGo(x), UNCHANGED lapsed,
         touched' = TouchedByLetGo(x)
  PROVE  TouchedOK'
<1>1. CASE touched' = NoTouch
  BY <1>1, NoTouchIsExplained DEF TouchedOK
<1>2. CASE LastReference(x) /\ MustClose(wrapper[handle[x]])
  <2>1. handle[x] # None /\ touched' = Touch(handle[x]) /\ ~wrapper[handle[x]].closed
    BY <1>2 DEF LastReference, MustClose, TouchedByLetGo
  <2> QED
    BY <2>1, TouchIsExplained DEF TouchedOK
<1> QED
  BY <1>1, <1>2 DEF TouchedByLetGo
-----------------------------------------------------------------------------
(***************************************************************************)
(* The operations.                                                         *)
(***************************************************************************)

\* A handle is destroyed, the wrapper with it if it was the last.
LEMMA DropStep ==
  ASSUME IInv, NEW h \in Handle, Drop(h)
  PROVE  IInv'
<1>1. handle[h] # None /\ LetGo(h) /\ UNCHANGED <<opened, lapsed>>
  BY DEF Drop
<1>2. TouchedOK'
  BY <1>1, LetGoTouches DEF Drop
<1>3. handle' \in [Handle -> Wrapper \cup {None}] /\ handle' = [handle EXCEPT ![h] = None]
  BY DEF Drop, IInv, TypeOK
<1>4. \A v \in Wrapper \ {handle[h]} :
        (\E g \in Handle : handle'[g] = v) <=> (\E g \in Handle : handle[g] = v)
  BY <1>3, FileDescriptorAssumption DEF IInv, TypeOK, Wrapper
<1>5. (\E g \in Handle : handle'[g] = handle[h]) <=> ~LastReference(h)
  BY <1>1, <1>3 DEF IInv, TypeOK, LastReference, Points
<1> QED
  BY <1>1, <1>2, <1>3, <1>4, <1>5, LetGoStep DEF IInv, TypeOK

\* A handle is moved: its wrapper has as many references as before.
LEMMA MoveStep ==
  ASSUME IInv, NEW h \in Handle, NEW g \in Handle, Move(h, g)
  PROVE  IInv'
<1>1. /\ h # g /\ handle[h] # None
      /\ LetGo(g) /\ UNCHANGED <<opened, lapsed>>
  BY DEF Move
<1>2. TouchedOK'
  BY <1>1, LetGoTouches DEF Move
<1>3. /\ handle' \in [Handle -> Wrapper \cup {None}]
      /\ handle'[g] = handle[h] /\ handle'[h] = None
      /\ \A x \in Handle \ {g, h} : handle'[x] = handle[x]
  BY <1>1 DEF Move, IInv, TypeOK
<1>4. \A v \in Wrapper \ {handle[g]} :
        (\E x \in Handle : handle'[x] = v) <=> (\E x \in Handle : handle[x] = v)
  BY <1>1, <1>3, FileDescriptorAssumption DEF Wrapper
<1>5. CASE handle[g] = None
  <2>1. UNCHANGED <<table, wrapper>>
    BY <1>1, <1>5 DEF LetGo, LastReference
  <2>2. \A v \in Wrapper : (\E x \in Handle : handle'[x] = v)
                              <=> (\E x \in Handle : handle[x] = v)
    BY <1>4, <1>5, FileDescriptorAssumption DEF Wrapper
  <2> QED
    BY <1>1, <1>2, <1>3, <2>1, <2>2, QuietStep DEF IInv, TypeOK
<1>6. CASE handle[g] # None
  <2>1. (\E x \in Handle : handle'[x] = handle[g]) <=> ~LastReference(g)
    BY <1>1, <1>3, <1>6 DEF LastReference, Points
  <2> QED
    BY <1>1, <1>2, <1>3, <1>4, <1>6, <2>1, LetGoStep DEF IInv, TypeOK
<1> QED
  BY <1>5, <1>6

\* duplicate(): one more reference.
LEMMA DuplicateStep ==
  ASSUME IInv, NEW h \in Handle, NEW g \in Handle, duplicate(h, g)
  PROVE  IInv'
<1>1. /\ handle[h] # None /\ handle[g] = None
      /\ UNCHANGED <<table, opened, wrapper, lapsed>>
      /\ touched' = NoTouch
  BY DEF duplicate
<1>2. /\ handle' \in [Handle -> Wrapper \cup {None}]
      /\ handle'[g] = handle[h]
      /\ \A x \in Handle \ {g} : handle'[x] = handle[x]
  BY DEF duplicate, IInv, TypeOK
<1>3. \A v \in Wrapper : (\E x \in Handle : handle'[x] = v)
                            <=> (\E x \in Handle : handle[x] = v)
  BY <1>1, <1>2, FileDescriptorAssumption DEF Wrapper
<1>4. TouchedOK'
  BY <1>1, NoTouchIsExplained DEF TouchedOK
<1> QED
  BY <1>1, <1>2, <1>3, <1>4, QuietStep DEF IInv, TypeOK

\* A call on a handle that leaves the numbers, the flag _closed and the
\* handles' wrappers as they are.
LEMMA CallStep ==
  ASSUME IInv, NEW h \in Handle, Call(h), touched' = Touch(handle[h]),
         UNCHANGED <<table, opened>>,
         wrapper' \in [Wrapper -> WrapperState],
         \A v \in Wrapper : /\ wrapper'[v].fd = wrapper[v].fd
                            /\ wrapper'[v].live = wrapper[v].live
                            /\ wrapper'[v].closed = wrapper[v].closed,
         handle' \in [Handle -> Wrapper \cup {None}],
         \A v \in Wrapper : (\E x \in Handle : handle'[x] = v)
                              <=> (\E x \in Handle : handle[x] = v)
  PROVE  IInv'
<1>1. /\ handle[h] # None
      /\ lapsed' = (lapsed \/ wrapper[handle[h]].closed)
  BY DEF Call
<1>2. TouchedOK'
  BY <1>1, TouchIsExplained DEF TouchedOK
<1>3. lapsed' \in BOOLEAN /\ (lapsed => lapsed')
  BY <1>1
<1> QED
  BY <1>2, <1>3, QuietStep

\* read()
LEMMA ReadStep ==
  ASSUME IInv, NEW h \in Handle, NEW limit \in 0..1, read(h, limit)
  PROVE  IInv'
<1>1. /\ Call(h) /\ touched' = Touch(handle[h])
      /\ UNCHANGED <<table, opened, handle>>
  BY DEF read
<1>2. handle[h] \in Wrapper
  BY <1>1, HandlePointsToLive DEF Call
<1>3. \A c \in 0..CountMod - 1 : Count(c, 1) \in 0..CountMod - 1
  BY FileDescriptorAssumption DEF Count
<1>4. /\ wrapper' \in [Wrapper -> WrapperState]
      /\ \A v \in Wrapper : /\ wrapper'[v].fd = wrapper[v].fd
                            /\ wrapper'[v].live = wrapper[v].live
                            /\ wrapper'[v].closed = wrapper[v].closed
  <2>1. CASE UNCHANGED wrapper
    BY <2>1 DEF IInv, TypeOK
  <2>2. CASE ~UNCHANGED wrapper
    <3>1. PICK b \in BOOLEAN :
            wrapper' = [wrapper EXCEPT ![handle[h]].eof = @ \/ b,
                                       ![handle[h]].read_count = Count(@, 1)]
      BY <2>2 DEF read
    <3> QED
      BY <1>2, <1>3, <3>1 DEF IInv, TypeOK, WrapperState
  <2> QED
    BY <2>1, <2>2
<1> QED
  BY <1>1, <1>4, CallStep DEF IInv, TypeOK

\* write()
LEMMA WriteStep ==
  ASSUME IInv, NEW h \in Handle, write(h)
  PROVE  IInv'
<1>1. /\ Call(h) /\ touched' = Touch(handle[h])
      /\ UNCHANGED <<table, opened, handle>>
  BY DEF write
<1>2. handle[h] \in Wrapper
  BY <1>1, HandlePointsToLive DEF Call
<1>3. \A c \in 0..CountMod - 1, k \in Nat : Count(c, k) \in 0..CountMod - 1
  BY FileDescriptorAssumption DEF Count
<1>4. PICK k \in (IF table[wrapper[handle[h]].fd] = None THEN {0} ELSE 0..MaxWritev) :
        wrapper' = [wrapper EXCEPT ![handle[h]].write_count = Count(@, k)]
  BY DEF write
<1>5. k \in Nat
  BY FileDescriptorAssumption
<1>6. /\ wrapper' \in [Wrapper -> WrapperState]
      /\ \A v \in Wrapper : /\ wrapper'[v].fd = wrapper[v].fd
                            /\ wrapper'[v].live = wrapper[v].live
                            /\ wrapper'[v].closed = wrapper[v].closed
  BY <1>2, <1>3, <1>4, <1>5 DEF IInv, TypeOK, WrapperState
<1> QED
  BY <1>1, <1>6, CallStep DEF IInv, TypeOK

\* set_blocking()
LEMMA SetBlockingStep ==
  ASSUME IInv, NEW h \in Handle, set_blocking(h)
  PROVE  IInv'
  BY CallStep DEF set_blocking, IInv, TypeOK

\* A Socket takes over a descriptor, or throws when it has it.
LEMMA AdoptStep ==
  ASSUME IInv, NEW h \in Handle, NEW g \in Handle, Adopt(h, g)
  PROVE  IInv'
<1>1. /\ h # g /\ handle[g] = None /\ handle[h] # None
      /\ Call(h) /\ touched' = Touch(handle[h])
      /\ UNCHANGED opened
      /\ lapsed' = (lapsed \/ wrapper[handle[h]].closed)
  BY DEF Adopt, Call
<1>2. CASE /\ handle' = [handle EXCEPT ![g] = handle[h], ![h] = None]
           /\ UNCHANGED <<table, wrapper>>
  <2>1. /\ handle' \in [Handle -> Wrapper \cup {None}]
        /\ handle'[g] = handle[h] /\ handle'[h] = None
        /\ \A x \in Handle \ {g, h} : handle'[x] = handle[x]
    BY <1>1, <1>2 DEF IInv, TypeOK
  <2>2. \A v \in Wrapper : (\E x \in Handle : handle'[x] = v)
                              <=> (\E x \in Handle : handle[x] = v)
    BY <1>1, <2>1, FileDescriptorAssumption DEF Wrapper
  <2> QED
    BY <1>1, <1>2, <2>1, <2>2, CallStep DEF IInv, TypeOK
<1>3. CASE LetGo(h) /\ handle' = [handle EXCEPT ![h] = None]
  <2>1. TouchedOK'
    BY <1>1, TouchIsExplained DEF TouchedOK
  <2>2. handle' \in [Handle -> Wrapper \cup {None}]
    BY <1>3 DEF IInv, TypeOK
  <2>3. \A v \in Wrapper \ {handle[h]} :
          (\E x \in Handle : handle'[x] = v) <=> (\E x \in Handle : handle[x] = v)
    BY <1>3, FileDescriptorAssumption DEF IInv, TypeOK, Wrapper
  <2>4. (\E x \in Handle : handle'[x] = handle[h]) <=> ~LastReference(h)
    BY <1>1, <1>3 DEF IInv, TypeOK, LastReference, Points
  <2> QED
    BY <1>1, <1>3, <2>1, <2>2, <2>3, <2>4, LetGoStep
<1> QED
  BY <1>2, <1>3 DEF Adopt

\* close(), which frees the number also when it fails.
LEMMA CloseStep ==
  ASSUME IInv, NEW h \in Handle, close(h)
  PROVE  IInv'
<1> DEFINE w == handle[h]
<1>1. /\ w # None /\ table' = CloseNumber(table, wrapper[w]) /\ touched' = Touch(w)
      /\ UNCHANGED <<opened, handle>>
  BY DEF close
<1>2. w \in Wrapper /\ wrapper[w].live /\ wrapper[w].fd \in FdNum
  BY <1>1, HandlePointsToLive
<1>3. PICK r \in CloseResult(wrapper[w].fd) :
        /\ wrapper' = [wrapper EXCEPT ![w].eof = @ \/ r = "ok", ![w].closed = @ \/ r = "ok"]
        /\ lapsed' = (lapsed \/ wrapper[w].closed \/ r # "ok")
  BY DEF close
<1>4. /\ wrapper' \in [Wrapper -> WrapperState]
      /\ \A v \in Wrapper : wrapper'[v].fd = wrapper[v].fd
      /\ \A v \in Wrapper : wrapper'[v].live = wrapper[v].live
      /\ \A v \in Wrapper \ {w} : wrapper'[v] = wrapper[v]
      /\ r = "ok" => wrapper'[w].closed
  BY <1>2, <1>3 DEF IInv, TypeOK, WrapperState
<1>5. TouchedOK'
  BY <1>1, <1>3, TouchIsExplained DEF TouchedOK
<1>6. LiveWhileReferenced'
  BY <1>1, <1>4 DEF IInv, LiveWhileReferenced, Points
<1>7. handle' \in [Handle -> Wrapper \cup {None}]
  BY <1>1 DEF IInv, TypeOK
<1> QED
  BY <1>1, <1>3, <1>4, <1>5, <1>6, <1>7, ReleaseStep

\* A wrapper is made for a new file.  The new number was nobody's: whoever
\* still holds it has lost his file before.
LEMMA ConstructStep ==
  ASSUME IInv, NEW h \in Handle, Construct(h)
  PROVE  IInv'
<1>1. /\ handle[h] = None /\ opened < MaxFiles
      /\ UNCHANGED lapsed
  BY DEF Construct
<1>2. TouchedOK'
  BY NoTouchIsExplained DEF Construct, TouchedOK
<1>3. CASE FreeNumbers = {}
  <2>1. UNCHANGED <<table, opened, handle, wrapper>>
    BY <1>3 DEF Construct
  <2> QED
    BY <1>1, <1>2, <2>1, QuietStep DEF IInv, TypeOK
<1>4. CASE FreeNumbers # {}
  <2> DEFINE new == opened + 1
             n == Min(FreeNumbers)
  <2>1. n \in FdNum /\ table[n] = None
    BY <1>4, NewNumberIsFree
  <2>2. /\ opened' = new
        /\ table' = [table EXCEPT ![n] = new]
        /\ wrapper' = [wrapper EXCEPT ![new] = NewWrapper(n, TRUE)]
        /\ handle' = [handle EXCEPT ![h] = new]
    BY <1>4 DEF Construct
  <2>3. /\ new \in Wrapper /\ new \in File /\ new \in 0..MaxFiles
        /\ new # None /\ new > opened /\ opened \in Nat
    BY <1>1, FileDescriptorAssumption DEF IInv, TypeOK, Wrapper, File
  <2>4. /\ NewWrapper(n, TRUE) \in WrapperState
        /\ NewWrapper(n, TRUE).fd = n
        /\ NewWrapper(n, TRUE).live = TRUE
        /\ NewWrapper(n, TRUE).closed = FALSE
    BY <2>1, FileDescriptorAssumption DEF NewWrapper, WrapperState
  <2> HIDE DEF n, new
  <2>5. \A v \in Wrapper : v # new => wrapper'[v] = wrapper[v]
    BY <2>2, <2>3 DEF IInv, TypeOK
  <2>6. wrapper'[new] = NewWrapper(n, TRUE)
    BY <2>2, <2>3 DEF IInv, TypeOK
  <2>7. \A m \in FdNum : table'[m] = IF m = n THEN new ELSE table[m]
    BY <2>1, <2>2 DEF IInv, TypeOK
  <2>8. TypeOK'
    BY <1>1, <1>2, <2>1, <2>2, <2>3, <2>4 DEF IInv, TypeOK, TouchedOK
  <2>9. LiveWhileReferenced'
    <3>1. \A x \in Handle : handle'[x] = IF x = h THEN new ELSE handle[x]
      BY <2>2 DEF IInv, TypeOK
    <3>2. \A x \in Handle : handle[x] # new
      BY <2>3 DEF IInv, OnlyOpenedFiles, TypeOK, Wrapper
    <3> SUFFICES ASSUME NEW v \in Wrapper
                 PROVE  wrapper'[v].live <=> \E x \in Handle : handle'[x] = v
      BY DEF LiveWhileReferenced, Points
    <3>3. CASE v = new
      BY <2>4, <2>6, <3>1, <3>3
    <3>4. CASE v # new
      <4>1. wrapper[v].live <=> \E x \in Handle : handle[x] = v
        BY DEF IInv, LiveWhileReferenced, Points
      <4>2. v # None
        BY FileDescriptorAssumption DEF Wrapper
      <4> QED
        BY <1>1, <2>5, <3>1, <3>4, <4>1, <4>2
    <3> QED
      BY <3>3, <3>4
  <2>10. OnlyOpenedFiles'
    <3>1. \A m \in FdNum : table'[m] # None => table'[m] <= new
      BY <2>3, <2>7 DEF IInv, OnlyOpenedFiles, TypeOK, File, new
    <3>2. \A x \in Handle : handle'[x] # None => handle'[x] <= new
      BY <2>2, <2>3 DEF IInv, OnlyOpenedFiles, TypeOK, Wrapper, new
    <3> QED
      BY <2>2, <3>1, <3>2 DEF OnlyOpenedFiles
  <2>11. EveryFileHasItsOwner'
    <3> SUFFICES ASSUME NEW m \in FdNum, table'[m] # None
                 PROVE  LET v == table'[m] IN
                        wrapper'[v].live /\ ~wrapper'[v].closed /\ wrapper'[v].fd = m
      BY DEF EveryFileHasItsOwner
    <3>1. CASE m = n
      BY <2>4, <2>6, <2>7, <3>1
    <3>2. CASE m # n
      <4>1. table'[m] = table[m] /\ table[m] \in Wrapper /\ table[m] <= opened
        BY <2>7, <3>2 DEF IInv, OnlyOpenedFiles, TypeOK, File, Wrapper
      <4>2. wrapper'[table[m]] = wrapper[table[m]]
        BY <2>3, <2>5, <4>1 DEF Wrapper
      <4> QED
        BY <4>1, <4>2 DEF IInv, EveryFileHasItsOwner
    <3> QED
      BY <3>1, <3>2
  <2>12. OpenWhileReferenced'
    <3> SUFFICES ASSUME ~lapsed, NEW v \in Wrapper, wrapper'[v].live, ~wrapper'[v].closed
                 PROVE  table'[wrapper'[v].fd] = v
      BY <1>1 DEF OpenWhileReferenced, own
    <3>1. CASE v = new
      BY <2>1, <2>4, <2>6, <2>7, <3>1
    <3>2. CASE v # new
      <4>1. wrapper'[v] = wrapper[v] /\ wrapper[v].fd \in FdNum
        BY <2>5, <3>2 DEF IInv, TypeOK, WrapperState
      <4>2. table[wrapper[v].fd] = v
        BY <4>1 DEF IInv, OpenWhileReferenced, own
      <4> QED
        BY <2>1, <2>7, <4>1, <4>2, FileDescriptorAssumption DEF Wrapper
    <3> QED
      BY <3>1, <3>2
  <2> QED
    BY <1>2, <2>8, <2>9, <2>10, <2>11, <2>12 DEF IInv, TouchedOK
<1> QED
  BY <1>3, <1>4

\* A wrapper is made for a new file, and destroyed with it before anyone
\* sees it.
LEMMA TunTapFDStep ==
  ASSUME IInv, NEW h \in Handle, TunTapFDThrows(h)
  PROVE  IInv'
<1> DEFINE new == opened + 1
           n == Min(FreeNumbers)
<1>1. /\ opened < MaxFiles /\ FreeNumbers # {}
      /\ opened' = new
      /\ wrapper' = [wrapper EXCEPT ![new] = NewWrapper(n, FALSE)]
      /\ touched' = [via |-> new, file |-> new]
      /\ table' = [[table EXCEPT ![n] = new] EXCEPT ![n] = None]
      /\ UNCHANGED <<handle, lapsed>>
  BY DEF TunTapFDThrows, Dead, Destroyed, MustClose, CloseNumber, NewWrapper
<1>2. n \in FdNum /\ table[n] = None
  BY <1>1, NewNumberIsFree
<1>3. /\ new \in Wrapper /\ new \in File /\ new \in 0..MaxFiles
      /\ new # None /\ new > opened /\ opened \in Nat
  BY <1>1, FileDescriptorAssumption DEF IInv, TypeOK, Wrapper, File
<1>4. UNCHANGED table
  BY <1>1, <1>2 DEF IInv, TypeOK
<1>5. NewWrapper(n, FALSE) \in WrapperState /\ NewWrapper(n, FALSE).live = FALSE
  BY <1>2, FileDescriptorAssumption DEF NewWrapper, WrapperState
<1> HIDE DEF n, new
<1>6. \A v \in Wrapper : v # new => wrapper'[v] = wrapper[v]
  BY <1>1, <1>3 DEF IInv, TypeOK
<1>7. wrapper'[new].live = FALSE
  BY <1>1, <1>3, <1>5 DEF IInv, TypeOK
<1>8. TypeOK'
  BY <1>1, <1>4, <1>3, <1>5 DEF IInv, TypeOK
<1>9. LiveWhileReferenced'
  <2>1. \A x \in Handle : handle[x] # new
    BY <1>3 DEF IInv, OnlyOpenedFiles, TypeOK, Wrapper
  <2> QED
    BY <1>1, <1>6, <1>7, <2>1 DEF IInv, LiveWhileReferenced, Points
<1>10. OnlyOpenedFiles'
  <2>1. \A m \in FdNum : table[m] # None => table[m] <= new
    BY <1>3 DEF IInv, OnlyOpenedFiles, TypeOK, File, new
  <2>2. \A x \in Handle : handle[x] # None => handle[x] <= new
    BY <1>3 DEF IInv, OnlyOpenedFiles, TypeOK, Wrapper, new
  <2> QED
    BY <1>1, <1>4, <2>1, <2>2 DEF OnlyOpenedFiles
<1>11. EveryFileHasItsOwner'
  <2> SUFFICES ASSUME NEW m \in FdNum, table[m] # None
               PROVE  LET v == table[m] IN
                      wrapper'[v].live /\ ~wrapper'[v].closed /\ wrapper'[v].fd = m
    BY <1>4 DEF EveryFileHasItsOwner
  <2>1. table[m] \in Wrapper /\ table[m] <= opened
    BY DEF IInv, OnlyOpenedFiles, TypeOK, File, Wrapper
  <2>2. wrapper'[table[m]] = wrapper[table[m]]
    BY <1>3, <1>6, <2>1 DEF Wrapper
  <2> QED
    BY <2>2 DEF IInv, EveryFileHasItsOwner
<1>12. OpenWhileReferenced'
  BY <1>1, <1>4, <1>6, <1>7 DEF IInv, OpenWhileReferenced
<1>13. OwnFileOnly'
  BY <1>1 DEF OwnFileOnly, own
<1> QED
  BY <1>8, <1>9, <1>10, <1>11, <1>12, <1>13 DEF IInv
-----------------------------------------------------------------------------
(***************************************************************************)
(* The theorems.                                                           *)
(***************************************************************************)

\* Nothing is open.
LEMMA InitIInv == Init => IInv
<1> SUFFICES ASSUME Init PROVE IInv
  OBVIOUS
<1>1. 0 \in FdNum /\ NewWrapper(0, FALSE) \in WrapperState
  BY FileDescriptorAssumption DEF FdNum, NewWrapper, WrapperState
<1>2. TypeOK
  <2>1. opened \in 0..MaxFiles
    BY FileDescriptorAssumption DEF Init
  <2>2. table \in [FdNum -> File \cup {None}] /\ handle \in [Handle -> Wrapper \cup {None}]
    BY DEF Init
  <2>3. wrapper \in [Wrapper -> WrapperState]
    BY <1>1 DEF Init
  <2>4. touched \in [via : Wrapper \cup {None}, file : File \cup {None}]
    BY DEF Init, NoTouch
  <2> QED
    BY <2>1, <2>2, <2>3, <2>4 DEF Init, TypeOK
<1>3. LiveWhileReferenced
  BY FileDescriptorAssumption
    DEF Init, LiveWhileReferenced, Points, NewWrapper, Wrapper
<1>4. OnlyOpenedFiles /\ EveryFileHasItsOwner
  BY DEF Init, OnlyOpenedFiles, EveryFileHasItsOwner
<1>5. OpenWhileReferenced
  BY DEF Init, OpenWhileReferenced, NewWrapper
<1>6. OwnFileOnly
  BY DEF Init, NoTouch, OwnFileOnly
<1> QED
  BY <1>2, <1>3, <1>4, <1>5, <1>6 DEF IInv

\* Every operation and every new file keeps IInv.
LEMMA NextIInv == IInv /\ [Next]_vars => IInv'
<1> SUFFICES ASSUME IInv, [Next]_vars PROVE IInv'
  OBVIOUS
<1>1. ASSUME NEW h \in Handle, Construct(h) PROVE IInv'
  BY <1>1, ConstructStep
<1>2. ASSUME NEW h \in Handle, TunTapFDThrows(h) PROVE IInv'
  BY <1>2, TunTapFDStep
<1>3. ASSUME NEW h \in Handle, Drop(h) PROVE IInv'
  BY <1>3, DropStep
<1>4. ASSUME NEW h \in Handle, close(h) PROVE IInv'
  BY <1>4, CloseStep
<1>5. ASSUME NEW h \in Handle, write(h) PROVE IInv'
  BY <1>5, WriteStep
<1>6. ASSUME NEW h \in Handle, set_blocking(h) PROVE IInv'
  BY <1>6, SetBlockingStep
<1>7. ASSUME NEW h \in Handle, NEW limit \in 0..1, read(h, limit) PROVE IInv'
  BY <1>7, ReadStep
<1>8. ASSUME NEW h \in Handle, NEW g \in Handle, duplicate(h, g) PROVE IInv'
  BY <1>8, DuplicateStep
<1>9. ASSUME NEW h \in Handle, NEW g \in Handle, Move(h, g) PROVE IInv'
  BY <1>9, MoveStep
<1>10. ASSUME NEW h \in Handle, NEW g \in Handle, Adopt(h, g) PROVE IInv'
  BY <1>10, AdoptStep
<1>11. CASE UNCHANGED vars
  BY <1>11 DEF vars, IInv, TypeOK, LiveWhileReferenced, Points, OnlyOpenedFiles,
     EveryFileHasItsOwner, OpenWhileReferenced, OwnFileOnly
<1> QED
  BY <1>1, <1>2, <1>3, <1>4, <1>5, <1>6, <1>7, <1>8, <1>9, <1>10, <1>11 DEF Next

\* IInv holds throughout.
LEMMA Invariance == Spec => []IInv
  BY InitIInv, NextIInv, PTL DEF Spec

\* The kernel's table, the handles and the wrappers keep their types; in
\* particular the service counts stay within their width.
THEOREM TypeCorrect == Spec => []TypeOK
<1>1. IInv => TypeOK
  BY DEF IInv
<1> QED
  BY <1>1, Invariance, PTL

\* A wrapper exists exactly as long as a FileDescriptor points to it, through
\* any sequence of copies, moves and destructions.
THEOREM ReferenceCountingIsRight == Spec => []LiveWhileReferenced
<1>1. IInv => LiveWhileReferenced
  BY DEF IInv
<1> QED
  BY <1>1, Invariance, PTL

\* An open file always has a wrapper that will close it, whatever callers do
\* after close(), and although close(2) and constructors fail.
THEOREM NothingLeaks == Spec => []NoLeak
<1>1. IInv => NoLeak
  <2> SUFFICES ASSUME IInv, NEW w \in Wrapper, NEW n \in FdNum, table[n] = w
               PROVE  wrapper[w].live /\ ~wrapper[w].closed /\ table[wrapper[w].fd] = w
    BY DEF NoLeak, IsOpen, own
  <2> QED
    BY OpenOnlyAtItsNumber
<1> QED
  BY <1>1, Invariance, PTL

\* Until a call follows a close(), or a close() fails, nobody closes a number
\* under a FileDescriptor that still refers to it.
THEOREM NumbersStayOpen == Spec => []OpenWhileReferenced
<1>1. IInv => OpenWhileReferenced
  BY DEF IInv
<1> QED
  BY <1>1, Invariance, PTL

\* A program that makes no call after a close(), and whose close() never
\* fails, never reaches a file other than its own.
THEOREM CarefulCallersReachTheirOwn == Spec => []OwnFileOnly
<1>1. IInv => OwnFileOnly
  BY DEF IInv
<1> QED
  BY <1>1, Invariance, PTL
=============================================================================
